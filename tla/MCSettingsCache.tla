--------------------------- MODULE MCSettingsCache ---------------------------
(* Model-checking instances of SettingsCache.                              *)
EXTENDS SettingsCache

CONSTANTS d1, r1, r2, e1
=============================================================================
