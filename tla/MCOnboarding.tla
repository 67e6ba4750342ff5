----------------------------- MODULE MCOnboarding -----------------------------
(***************************************************************************)
(* Onboarding for TLC: two handshakes, two users of one org and one of     *)
(* another.  An org may have been used before: the assignment of u2 may be *)
(* there but switched off, or that of u3, who never runs the wizard, active.*)
(***************************************************************************)
EXTENDS Onboarding, TLC

CONSTANTS o1, o2, u1, u2, u3

MCOrgOf  == u1 :> o1 @@ u2 :> o2 @@ u3 :> o1
MCEarlier == {u1 :> "none" @@ u2 :> "inactive" @@ u3 :> "none",
              u1 :> "none" @@ u2 :> "none" @@ u3 :> "active"}
MCNameOf == u1 :> 1 @@ u2 :> 2 @@ u3 :> 3
=============================================================================
