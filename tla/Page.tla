-------------------------------- MODULE Page ---------------------------------
(* The checkout page as its script draws it: which sections and overlays    *)
(* are on, what CURRENT_PAYMENT_SESSION_ID holds and whether the pay button *)
(* can be pressed.  The functions of the script that draw are operators on  *)
(* this record, under their names; module Checkout has the events that call *)
(* them.                                                                    *)
EXTENDS Naturals

\* method-selection, loading-state, card-form-container, or the page of an
\* invoice that is paid already.
Sections == {"methods", "loading", "form", "paid"}

Overlays == {"processing", "challenge", "success"}

\* current: CURRENT_PAYMENT_SESSION_ID, 0 for null.
\* disabled: the pay button is; saving: how often the gateway's library has
\* been asked to store the card of the form and has not called back.
PageRecord ==
    [sections : SUBSET Sections, overlays : SUBSET Overlays, current : Nat,
     disabled : BOOLEAN, saving : Nat]

\* A page as the server renders it.
LoadedPage(paid) ==
    [sections |-> IF paid THEN {"paid"} ELSE {"methods"}, overlays |-> {},
     current |-> 0, disabled |-> FALSE, saving |-> 0]

\* An overlay covers the whole page: what lies under it cannot be clicked.
Clickable(pg, section) == section \in pg.sections /\ pg.overlays = {}

-----------------------------------------------------------------------------
(* The functions of the script. *)

goBack(pg) == [pg EXCEPT !.sections = {"methods"}, !.current = 0]

showLoading(pg) ==
    [pg EXCEPT !.sections = (@ \ {"methods"}) \cup {"loading"}]

\* The callback "initialized": the methods stay if goBack has shown them.
showForm(pg) == [pg EXCEPT !.sections = (@ \ {"loading"}) \cup {"form"}]

resetPayButton(pg) == [pg EXCEPT !.disabled = FALSE]

showProcessing(pg) == [pg EXCEPT !.overlays = @ \cup {"processing"}]

showChallenge(pg) ==
    [pg EXCEPT !.overlays = (@ \ {"processing"}) \cup {"challenge"}]

showSuccess(pg) ==
    [pg EXCEPT !.overlays =
        (@ \ {"processing", "challenge"}) \cup {"success"}]

\* "Show card form again so user can retry": also over a success.
showError(pg) ==
    [resetPayButton(pg) EXCEPT !.overlays = @ \ {"processing", "challenge"},
                               !.sections = {"form"}]
=============================================================================
