------------------------------- MODULE Branding -------------------------------
(***************************************************************************)
(* The branding editor: the brand of a company and of each dealership, the *)
(* images uploaded for them, and the administrators who edit them at the   *)
(* same time.  A save checks the images it names, reads the layer it       *)
(* replaces, writes the new one, and then deletes the images that only the *)
(* old one named; each step awaits the data provider.                      *)
(*                                                                         *)
(* A layer is reduced to one image field, which names an uploaded image or *)
(* none; logo and banner are two such fields.  Links, texts, colours and   *)
(* sections, which name no upload, are left out.                           *)
(*                                                                         *)
(* Sources: apps/api/src/admin/admin-branding.service.ts,                  *)
(* apps/api/src/config/branding.service.ts,                                *)
(* packages/domain/src/entities/site-content.ts, the Salesforce            *)
(* branding.repository.ts and AdminBrandingPage.tsx.                       *)
(***************************************************************************)
EXTENDS Naturals, FiniteSets

CONSTANTS
    BrandScope,     \* the company and its dealerships
    Corporate,      \* the company among them
    Picture,        \* images that may be uploaded
    Editor,         \* administrators, each with the page open
    Blank,          \* an image field that names no upload
    Nowhere,        \* the scope of an image not uploaded, of a page not open
    MaxSaves        \* bound on the saves

ASSUME BrandingAssumption ==
    Corporate \in BrandScope /\ Nowhere \notin BrandScope /\ Blank \notin Picture /\ MaxSaves \in Nat

VARIABLES
    layer,      \* the stored image field of each scope
    storedIn,   \* the scope each image is stored in
    ownerOf,    \* the scope it was uploaded for
    page,       \* each editor's page
    saving,     \* each editor's save on the server
    overlapped, \* history: scopes that two saves have changed at once
    saves       \* history: saves begun

brandingVars == <<layer, storedIn, ownerOf, page, saving, overlapped, saves>>

Choice == Picture \cup {Blank}
NoSave == [at |-> "idle", scope |-> Nowhere, layer |-> Blank, before |-> Blank]
NoPage == [scope |-> Nowhere, form |-> Blank, upload |-> Nowhere]

BrandingTypeOK ==
    /\ layer \in [BrandScope -> Choice]
    /\ storedIn \in [Picture -> BrandScope \cup {Nowhere}]
    /\ ownerOf \in [Picture -> BrandScope \cup {Nowhere}]
    /\ page \in [Editor -> [scope : BrandScope \cup {Nowhere}, form : Choice, upload : BrandScope \cup {Nowhere}]]
    /\ saving \in [Editor -> [at : {"idle", "check", "read", "write", "tidy", "answer"},
                              scope : BrandScope \cup {Nowhere}, layer : Choice, before : Choice]]
    /\ overlapped \subseteq BrandScope
    /\ saves \in 0..MaxSaves

-----------------------------------------------------------------------------
(* The page                                                                *)

\* The picker: unsaved edits are discarded.
Visit(e, s) ==
    /\ page[e].scope # s
    /\ page' = [page EXCEPT ![e].scope = s, ![e].form = layer[s]]
    /\ UNCHANGED <<layer, storedIn, ownerOf, saving, overlapped, saves>>

\* The query is fetched again, and its new data replace the form.
Refetch(e) ==
    /\ page[e].scope # Nowhere
    /\ page' = [page EXCEPT ![e].form = layer[page[e].scope]]
    /\ UNCHANGED <<layer, storedIn, ownerOf, saving, overlapped, saves>>

\* The image is removed, or a link is put in its place.
RemoveImage(e) ==
    /\ page[e].scope # Nowhere
    /\ page' = [page EXCEPT ![e].form = Blank]
    /\ UNCHANGED <<layer, storedIn, ownerOf, saving, overlapped, saves>>

\* ImageField sends the file for the scope that is shown now.
StartUpload(e) ==
    /\ page[e].scope # Nowhere /\ page[e].upload = Nowhere
    /\ page' = [page EXCEPT ![e].upload = page[e].scope]
    /\ UNCHANGED <<layer, storedIn, ownerOf, saving, overlapped, saves>>

\* The image is stored for that scope, and put in the form shown when it is.
Uploaded(e) ==
    /\ page[e].upload # Nowhere
    /\ \E i \in Picture :
        /\ ownerOf[i] = Nowhere
        /\ storedIn' = [storedIn EXCEPT ![i] = page[e].upload]
        /\ ownerOf' = [ownerOf EXCEPT ![i] = page[e].upload]
        /\ page' = [page EXCEPT ![e].form = i, ![e].upload = Nowhere]
    /\ UNCHANGED <<layer, saving, overlapped, saves>>

UploadFails(e) ==
    /\ page[e].upload # Nowhere
    /\ page' = [page EXCEPT ![e].upload = Nowhere]
    /\ UNCHANGED <<layer, storedIn, ownerOf, saving, overlapped, saves>>

-----------------------------------------------------------------------------
(* A save                                                                  *)

\* The image may be what it was: another field of the form was changed.
SubmitBrand(e) ==
    /\ page[e].scope # Nowhere
    /\ saving[e].at = "idle"
    /\ saves < MaxSaves
    /\ saves' = saves + 1
    /\ saving' = [saving EXCEPT ![e] = [NoSave EXCEPT !.at = "check", !.scope = page[e].scope, !.layer = page[e].form]]
    /\ overlapped' =
        overlapped \cup {s \in BrandScope : s = page[e].scope /\ \E d \in Editor : saving[d].at # "idle" /\ saving[d].scope = s}
    /\ UNCHANGED <<layer, storedIn, ownerOf, page>>

Advance(e, at) == saving' = [saving EXCEPT ![e].at = at]

\* An uploaded image must be stored, and for this scope.
ExistsAtAll(image, scope) == storedIn[image] # Nowhere
BelongsTo(image, scope) == storedIn[image] = scope
Check(e) ==
    /\ saving[e].at = "check"
    /\ saving[e].layer \in Picture => BelongsTo(saving[e].layer, saving[e].scope)
    /\ Advance(e, "read")
    /\ UNCHANGED <<layer, storedIn, ownerOf, page, overlapped, saves>>

ReadBefore(e) ==
    /\ saving[e].at = "read"
    /\ saving' = [saving EXCEPT ![e].at = "write", ![e].before = layer[saving[e].scope]]
    /\ UNCHANGED <<layer, storedIn, ownerOf, page, overlapped, saves>>

WriteLayer(e) ==
    /\ saving[e].at = "write"
    /\ layer' = [layer EXCEPT ![saving[e].scope] = saving[e].layer]
    /\ Advance(e, "tidy")
    /\ UNCHANGED <<storedIn, ownerOf, page, overlapped, saves>>

\* The audit entry is appended, and what was replaced is deleted, if it can be.
Named(e) == {saving[e].before} \cap Picture
Replaced(e) == Named(e) \ {saving[e].layer}
DeleteReplaced(e) ==
    /\ saving[e].at = "tidy"
    /\ \E gone \in {Replaced(e), {}} :
            storedIn' = [i \in Picture |-> IF i \in gone THEN Nowhere ELSE storedIn[i]]
    /\ Advance(e, "answer")
    /\ UNCHANGED <<layer, ownerOf, page, overlapped, saves>>

\* The view is read again; if the page shows the scope, it shows this.
AnswerSave(e) ==
    /\ saving[e].at = "answer"
    /\ saving' = [saving EXCEPT ![e] = NoSave]
    /\ page' = IF page[e].scope = saving[e].scope THEN [page EXCEPT ![e].form = layer[saving[e].scope]] ELSE page
    /\ UNCHANGED <<layer, storedIn, ownerOf, overlapped, saves>>

\* The check refuses, a call fails or the process dies: the form is kept.
SaveFails(e) ==
    /\ saving[e].at # "idle"
    /\ saving' = [saving EXCEPT ![e] = NoSave]
    /\ UNCHANGED <<layer, storedIn, ownerOf, page, overlapped, saves>>

-----------------------------------------------------------------------------

BrandingInit ==
    /\ layer = [s \in BrandScope |-> Blank]
    /\ storedIn = [i \in Picture |-> Nowhere]
    /\ ownerOf = [i \in Picture |-> Nowhere]
    /\ page = [e \in Editor |-> NoPage]
    /\ saving = [e \in Editor |-> NoSave]
    /\ overlapped = {}
    /\ saves = 0

PageStep(e) ==
    \/ \E s \in BrandScope : Visit(e, s)
    \/ Refetch(e) \/ RemoveImage(e) \/ StartUpload(e) \/ Uploaded(e) \/ UploadFails(e) \/ SubmitBrand(e)
SaveStep(e) == Check(e) \/ ReadBefore(e) \/ WriteLayer(e) \/ DeleteReplaced(e) \/ AnswerSave(e) \/ SaveFails(e)
BrandingNext == \E e \in Editor : PageStep(e) \/ SaveStep(e)

BrandingSpec == BrandingInit /\ [][BrandingNext]_brandingVars

-----------------------------------------------------------------------------
(* Properties                                                              *)

\* mergeBrandLayers: what a site shows is its own, or else the company's.
Shown(s) == IF layer[s] # Blank THEN layer[s] ELSE layer[Corporate]
ShownFrom(s) == IF layer[s] # Blank THEN s ELSE Corporate

\* What a site shows is an image uploaded for it, and one that is still stored
\* unless two saves of that layer overlapped: the check refuses images of other
\* scopes, whatever form they were dropped into, and the clean-up deletes only
\* what nothing shows (admin-branding.service.ts:47).
SitesShowTheirImages ==
    \A s \in BrandScope :
        Shown(s) \in Picture =>
            /\ ownerOf[Shown(s)] = ShownFrom(s)
            /\ ShownFrom(s) \notin overlapped => storedIn[Shown(s)] = ShownFrom(s)
=============================================================================
