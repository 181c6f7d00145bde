------------------------------ MODULE Checkout -------------------------------
(* A payer's browser in front of the payment service: the checkout page     *)
(* (module Page), the frame in which the payer's bank challenges him and    *)
(* which ends on the completion page, and the handlers that serve the       *)
(* requests of both (module Payment).  A step is one event of the page, of  *)
(* the frame, of the payer or of the server.                                *)
(*                                                                          *)
(* One tab, one invoice.  A request of a card payment is served by a worker *)
(* of Payment, which caller ties to whoever waits for its answer; initiate  *)
(* is InitiateSession as far as a client sees it (module Sessions).         *)
(* The gateway's library and the payer's bank are external.                 *)
EXTENDS Payment, Page

CONSTANTS
    Project, Invoice, Account,  \* the tenant, the invoice, the one option
    MaxSelects,     \* bound: options chosen
    MaxPays,        \* bound: presses of the pay button
    Disturbances,   \* subset of {"reload", "offline", "hurry"}
    MaxDisturbances \* bound: how many of them

ASSUME CheckoutAssumption ==
    /\ Project \in Projects
    /\ Invoice \in Invoices
    /\ Account \in Accounts
    /\ InvoiceProject[Invoice] = Project
    /\ AccountProject[Account] = Project
    /\ MaxSelects \in Nat
    /\ MaxPays \in Nat
    /\ Disturbances \subseteq {"reload", "offline", "hurry"}
    /\ MaxDisturbances \in Nat

VARIABLES
    page,       \* the page
    initiate,   \* the initiate requests of the page, by the click they are of
    caller,     \* what waits for the answer of each worker
    frame,      \* the frame of the challenge
    pays,       \* presses of the pay button so far
    disturbed,  \* disturbances so far
    history     \* for the properties, see HistoryRecord

browserVars == <<page, initiate, caller, frame, pays, disturbed, history>>
vars == <<paymentVars, browserVars>>

-----------------------------------------------------------------------------

InitiatePcs ==
    {"unsent", "sent", "unpaid", "session", "error", "configured", "over"}

CallerKinds ==
    {"none", "initiate_auth", "process_auth", "finalize", "frame", "gone"}

FrameStates == {"none", "challenge", "posted", "completed", "error"}

\* Of the page as it is loaded now.  success: what has made it show success;
\* stranded: process-auth has answered it an error.
HistoryRecord ==
    [success : SUBSET {"finalize", "message"}, stranded : BOOLEAN]

NoHistory == [success |-> {}, stranded |-> FALSE]

CheckoutTypeOK ==
    /\ page \in PageRecord
    /\ initiate \in [1 .. MaxSelects ->
            [pc : InitiatePcs, session : 0 .. MaxSessions]]
    /\ caller \in [Workers ->
            [kind : CallerKinds, session : 0 .. MaxSessions]]
    /\ frame \in [state : FrameStates, session : 0 .. MaxSessions]
    /\ pays \in 0 .. MaxPays
    /\ disturbed \in 0 .. MaxDisturbances
    /\ history \in HistoryRecord

NoInitiate == [n \in 1 .. MaxSelects |-> [pc |-> "unsent", session |-> 0]]

NoCaller == [kind |-> "none", session |-> 0]

Gone == [kind |-> "gone", session |-> 0]

Configured == [pc |-> "configured", session |-> 0]

Done == [pc |-> "over", session |-> 0]

NoFrame == [state |-> "none", session |-> 0]

Init ==
    /\ PaymentInit
    /\ page = LoadedPage(FALSE)
    /\ initiate = NoInitiate
    /\ caller = [w \in Workers |-> NoCaller]
    /\ frame = NoFrame
    /\ pays = 0
    /\ disturbed = 0
    /\ history = NoHistory

Disturb(how) ==
    /\ how \in Disturbances
    /\ disturbed < MaxDisturbances
    /\ disturbed' = disturbed + 1

\* In a hurry the payer clicks while the frame is about to leave the page.
Click ==
    \/ frame.state # "completed" /\ UNCHANGED disturbed
    \/ frame.state = "completed" /\ Disturb("hurry")

-----------------------------------------------------------------------------
(* Choosing an option. *)

SelectMethod(n) ==
    /\ Clickable(page, "methods")
    /\ initiate[n].pc = "unsent"
    /\ \A m \in 1 .. n - 1 : initiate[m].pc # "unsent"
    /\ page' = showLoading(page)
    /\ initiate' = [initiate EXCEPT ![n].pc = "sent"]
    /\ Click
    /\ UNCHANGED <<paymentVars, caller, frame, pays, history>>

GoBack ==
    /\ Clickable(page, "loading") \/ Clickable(page, "form")
    /\ page' = goBack(page)
    /\ Click
    /\ UNCHANGED <<paymentVars, initiate, caller, frame, pays, history>>

\* The server, for an initiate request: the invoice is read, then a session
\* is opened, or anything fails, also after the session has been inserted
\* (UpdateSession).  The page sends no Idempotency-Key.
ReadInvoiceFor(n) ==
    /\ initiate[n].pc = "sent"
    /\ initiate' = [initiate EXCEPT
            ![n].pc = IF invoice[Invoice] = "paid" THEN "error" ELSE "unpaid"]
    /\ UNCHANGED <<paymentVars, page, caller, frame, pays>>
    /\ UNCHANGED <<disturbed, history>>

OpenSessionFor(n) ==
    /\ initiate[n].pc = "unpaid"
    /\ \/ /\ OpenSession(Invoice, Account, NoKey)
          /\ initiate' = [initiate EXCEPT ![n].pc = "session",
                                          ![n].session = Len(session) + 1]
       \/ /\ OpenSession(Invoice, Account, NoKey) \/ UNCHANGED paymentVars
          /\ initiate' = [initiate EXCEPT ![n].pc = "error"]
    /\ UNCHANGED <<page, caller, frame, pays, disturbed, history>>

\* Mutation: an error answer is shown like an exception.
ShowInitiateError(n) ==
    /\ initiate[n].pc \in {"session", "error"}
    /\ IF initiate[n].pc = "session"
       THEN page' = [page EXCEPT !.current = initiate[n].session]
       ELSE page' = goBack(showError(page))
    /\ initiate' = [initiate EXCEPT
            ![n] = IF @.pc = "session" THEN Configured ELSE Done]
    /\ UNCHANGED <<paymentVars, caller, frame, pays, disturbed, history>>

\* An answer without an action is ignored: an error leaves the page as it is.
\* A session is the page's from now on, whatever the page has come to.
InitiateAnswered(n) ==
    /\ \/ /\ initiate[n].pc = "session"
          /\ page' = [page EXCEPT !.current = initiate[n].session]
          /\ initiate' = [initiate EXCEPT ![n] = Configured]
       \/ /\ initiate[n].pc = "error"
          /\ initiate' = [initiate EXCEPT ![n] = Done]
          /\ UNCHANGED page
    /\ UNCHANGED <<paymentVars, caller, frame, pays, disturbed, history>>

\* The library of the gateway is ready for the card.
Initialized(n) ==
    /\ initiate[n].pc = "configured"
    /\ page' = showForm(page)
    /\ initiate' = [initiate EXCEPT ![n] = Done]
    /\ UNCHANGED <<paymentVars, caller, frame, pays, disturbed, history>>

\* The request, or the loading of the library, fails.
InitiateThrew(n) ==
    /\ initiate[n].pc \in {"sent", "unpaid", "session", "error"}
    /\ page' = goBack(showError(page))
    /\ initiate' = [initiate EXCEPT ![n] = Done]
    /\ Disturb("offline")
    /\ UNCHANGED <<paymentVars, caller, frame, pays, history>>

-----------------------------------------------------------------------------
(* Paying: three requests, each sent when the one before is answered, for   *)
(* whatever session is current by then.                                     *)

\* Mutation: the button is not disabled.
PayAgain ==
    /\ Clickable(page, "form")
    /\ pays < MaxPays
    /\ pays' = pays + 1
    /\ page' = [page EXCEPT !.saving = @ + 1]
    /\ Click
    /\ UNCHANGED <<paymentVars, initiate, caller, frame, history>>

\* Only the button keeps the payer from a second press while the card is being
\* stored: an error shown meanwhile resets it.
Pay ==
    /\ Clickable(page, "form")
    /\ ~page.disabled
    /\ pays < MaxPays
    /\ pays' = pays + 1
    /\ page' = [page EXCEPT !.disabled = TRUE, !.saving = @ + 1]
    /\ Click
    /\ UNCHANGED <<paymentVars, initiate, caller, frame, history>>

CardRefused ==
    /\ page.saving # 0
    /\ page' = [resetPayButton(page) EXCEPT !.saving = @ - 1]
    /\ UNCHANGED <<paymentVars, initiate, caller, frame, pays>>
    /\ UNCHANGED <<disturbed, history>>

Free(w) == ~Busy(w) /\ caller[w].kind = "none"

Await(w, kind, s) ==
    caller' = [caller EXCEPT ![w] = [kind |-> kind, session |-> s]]

Over(w) == caller' = [caller EXCEPT ![w] = NoCaller]

AnswerFor(w, kind) == caller[w].kind = kind /\ ~Busy(w)

\* The session of a request is one the server made, for this invoice.
SendInitiateAuth(w, s) ==
    InitiateAuth(w, Project, s, Invoice) /\ Await(w, "initiate_auth", s)

SendProcessAuth(w, s) ==
    ProcessAuth(w, Project, s, Invoice) /\ Await(w, "process_auth", s)

SendFinalize(w, kind, s) ==
    FinalizePayment(w, Project, s, Invoice) /\ Await(w, kind, s)

\* start3DSFlow, when the library has stored the card.  Without a session the
\* path names "null" and the handler refuses it with 400.
CardSaved(w) ==
    LET saved == [page EXCEPT !.saving = @ - 1]
    IN  /\ page.saving # 0
        /\ Free(w)
        /\ \/ /\ page.current # 0
              /\ SendInitiateAuth(w, page.current)
              /\ page' = showProcessing(saved)
           \/ /\ page.current = 0
              /\ page' = showError(saved)
              /\ UNCHANGED <<paymentVars, caller>>
        /\ UNCHANGED <<initiate, frame, pays, disturbed, history>>

\* Mutation: an answer that is not "authenticate" is not looked at.
AuthInitiatedOrNothing(w) ==
    /\ AnswerFor(w, "initiate_auth")
    /\ \/ /\ worker[w].reply = "authenticate" /\ page.current # 0
          /\ SendProcessAuth(w, page.current)
       \/ /\ worker[w].reply # "authenticate" \/ page.current = 0
          /\ Over(w)
          /\ UNCHANGED paymentVars
    /\ UNCHANGED <<page, initiate, frame, pays, disturbed, history>>

\* The answer to initiate-auth, and doAuthenticatePayer.
AuthInitiated(w) ==
    /\ AnswerFor(w, "initiate_auth")
    /\ \/ /\ worker[w].reply = "authenticate" /\ page.current # 0
          /\ SendProcessAuth(w, page.current)
          /\ UNCHANGED <<page, history>>
       \/ /\ worker[w].reply = "authenticate" /\ page.current = 0
          /\ Over(w)
          /\ history' = [history EXCEPT !.stranded = TRUE]
          /\ UNCHANGED <<paymentVars, page>>
       \/ /\ worker[w].reply # "authenticate"
          /\ page' = showError(page)
          /\ Over(w)
          /\ UNCHANGED <<paymentVars, history>>
    /\ UNCHANGED <<initiate, frame, pays, disturbed>>

\* The answer to process-auth: a challenge replaces the frame, and cancels
\* what an earlier one still waits for; a frictionless payment goes on with
\* doFinalizePayment; anything else is ignored.
AuthProcessed(w) ==
    /\ AnswerFor(w, "process_auth")
    /\ \/ /\ worker[w].reply = "3ds_challenge"
          /\ page' = showChallenge(page)
          /\ frame' = [state |-> "challenge", session |-> caller[w].session]
          /\ caller' = [v \in Workers |->
                IF v = w THEN NoCaller
                ELSE IF caller[v].kind = "frame" THEN Gone ELSE caller[v]]
          /\ UNCHANGED <<paymentVars, history>>
       \/ /\ worker[w].reply = "pay" /\ page.current # 0
          /\ SendFinalize(w, "finalize", page.current)
          /\ page' = showProcessing(page)
          /\ UNCHANGED <<frame, history>>
       \/ /\ worker[w].reply = "pay" /\ page.current = 0
          /\ page' = showSuccess(page)
          /\ history' = [history EXCEPT !.success = @ \cup {"finalize"}]
          /\ Over(w)
          /\ UNCHANGED <<paymentVars, frame>>
       \/ /\ worker[w].reply \notin {"3ds_challenge", "pay"}
          /\ history' = [history EXCEPT !.stranded = TRUE]
          /\ Over(w)
          /\ UNCHANGED <<paymentVars, page, frame>>
    /\ UNCHANGED <<initiate, pays, disturbed>>

\* Mutation: the answer is looked at, and an error may be retried.
FinalizedOrRetry(w) ==
    /\ AnswerFor(w, "finalize")
    /\ \/ /\ worker[w].reply = "success"
          /\ page' = showSuccess(page)
          /\ history' = [history EXCEPT !.success = @ \cup {"finalize"}]
       \/ /\ worker[w].reply # "success"
          /\ page' = showError(page)
          /\ UNCHANGED history
    /\ Over(w)
    /\ UNCHANGED <<paymentVars, initiate, frame, pays, disturbed>>

\* Whatever finalize has answered is success.
Finalized(w) ==
    /\ AnswerFor(w, "finalize")
    /\ page' = showSuccess(page)
    /\ history' = [history EXCEPT !.success = @ \cup {"finalize"}]
    /\ Over(w)
    /\ UNCHANGED <<paymentVars, initiate, frame, pays, disturbed>>

\* A request of the page fails on its way there or back; the server may have
\* noticed (the request's context is cancelled) or not (its answer came after
\* the WriteTimeout).
FetchThrew(w) ==
    /\ caller[w].kind \in {"initiate_auth", "process_auth", "finalize"}
    /\ page' = showError(page)
    /\ caller' = [caller EXCEPT ![w] = Gone]
    /\ Disturb("offline")
    /\ UNCHANGED <<paymentVars, initiate, frame, pays, history>>

-----------------------------------------------------------------------------
(* The frame: the bank's page posts the form that leads to finalize; what   *)
(* finalize renders is the completion page, which reports to the page and   *)
(* takes it away three seconds later.  An error is not a page of ours: it   *)
(* reports nothing and stays.                                               *)

ChallengeDone(w) ==
    /\ frame.state = "challenge"
    /\ Free(w)
    /\ SendFinalize(w, "frame", frame.session)
    /\ frame' = [state |-> "posted", session |-> 0]
    /\ UNCHANGED <<page, initiate, pays, disturbed, history>>

\* Mutation: whatever finalize has answered is reported as a success.
ReportSuccess(w) ==
    /\ AnswerFor(w, "frame")
    /\ frame' = [frame EXCEPT !.state = "completed"]
    /\ page' = showSuccess(page)
    /\ history' = [history EXCEPT !.success = @ \cup {"message"}]
    /\ Over(w)
    /\ UNCHANGED <<paymentVars, initiate, pays, disturbed>>

FrameAnswered(w) ==
    /\ AnswerFor(w, "frame")
    /\ \/ /\ worker[w].reply = "success"
          /\ frame' = [frame EXCEPT !.state = "completed"]
          /\ page' = showSuccess(page)
          /\ history' = [history EXCEPT !.success = @ \cup {"message"}]
       \/ /\ worker[w].reply = "declined"
          /\ frame' = [frame EXCEPT !.state = "completed"]
          /\ page' = showError(page)
          /\ UNCHANGED history
       \/ /\ worker[w].reply \notin {"success", "declined"}
          /\ frame' = [frame EXCEPT !.state = "error"]
          /\ UNCHANGED <<page, history>>
    /\ Over(w)
    /\ UNCHANGED <<paymentVars, initiate, pays, disturbed>>

-----------------------------------------------------------------------------
(* Loading the page again: what was in flight has nobody to answer to.      *)

Load ==
    /\ page' = LoadedPage(invoice[Invoice] = "paid")
    /\ initiate' = [n \in 1 .. MaxSelects |->
            IF initiate[n].pc = "unsent" THEN initiate[n] ELSE Done]
    /\ caller' = [w \in Workers |->
            IF Busy(w) THEN Gone ELSE NoCaller]
    /\ frame' = NoFrame
    /\ history' = NoHistory
    /\ UNCHANGED <<paymentVars, pays>>

FrameLeaves ==
    /\ frame.state = "completed"
    /\ Load
    /\ UNCHANGED disturbed

Reload ==
    /\ Load
    /\ Disturb("reload")

-----------------------------------------------------------------------------
(* The server, as module Payment has it.                                    *)

Work(w) == Handle(w) /\ UNCHANGED browserVars

\* A statement fails, whether anybody waits for the answer or not, or the
\* request is cancelled as nobody does.
Fail(w) == Abort(w) /\ UNCHANGED browserVars

Drop(w) ==
    /\ AnswerFor(w, "gone")
    /\ Over(w)
    /\ UNCHANGED <<paymentVars, page, initiate, frame, pays>>
    /\ UNCHANGED <<disturbed, history>>

World == Environment /\ UNCHANGED browserVars

-----------------------------------------------------------------------------

PageEvent ==
    \/ \E n \in 1 .. MaxSelects : InitiateAnswered(n) \/ Initialized(n)
    \/ \E w \in Workers :
        \/ AuthInitiated(w) \/ AuthProcessed(w)
        \/ Finalized(w) \/ FrameAnswered(w)

Payer ==
    \/ \E n \in 1 .. MaxSelects : SelectMethod(n)
    \/ GoBack
    \/ Pay
    \/ Reload

External ==
    \/ CardRefused
    \/ \E w \in Workers : CardSaved(w) \/ ChallengeDone(w)
    \/ \E n \in 1 .. MaxSelects : InitiateThrew(n)
    \/ \E w \in Workers : FetchThrew(w)
    \/ FrameLeaves

Server ==
    \/ \E n \in 1 .. MaxSelects : ReadInvoiceFor(n) \/ OpenSessionFor(n)
    \/ \E w \in Workers : Work(w) \/ Fail(w) \/ Drop(w)
    \/ World

Next == PageEvent \/ Payer \/ External \/ Server

Spec == Init /\ [][Next]_vars

-----------------------------------------------------------------------------
(* Safety. *)

\* A success the completion page has reported is one of a paid invoice,
\* however many flows, frames and reloads came before
\* (completion.templ:81-87, checkout.templ:828-838).
ReportedSuccessMeansPaid ==
    "message" \in history.success => invoice[Invoice] = "paid"

\* What the payer is shown as paid is paid: doFinalizePayment says "just check
\* if invoice is paid" (checkout.templ:814-815) and checks nothing.
SuccessShownMeansPaid ==
    "success" \in page.overlays => invoice[Invoice] = "paid"

Flowing ==
    {w \in Workers :
        caller[w].kind \in {"initiate_auth", "process_auth", "finalize"}}

\* Requests somebody waits for.
Waited == {w \in Workers : caller[w].kind \notin {"none", "gone"}}

\* While a request of a payment is out, of the page or of the frame, the payer
\* can press nothing on the page: a second payment cannot start beside it,
\* whatever the answers of initiate requests that come late do to the page
\* (checkout.templ:598-619, 641-645, 754-826).
FlowsAreCovered ==
    disturbed = 0 /\ Waited # {} =>
        /\ page.overlays \cap {"processing", "challenge"} # {}
        /\ Cardinality(Waited) = 1

\* Nobody is left in front of "processing": it is only shown while a request
\* is out that will end it, by a challenge, a success or an error, or after
\* process-auth has answered an error, which the page does not look at; also
\* when several flows and late answers draw on one page
\* (checkout.templ:754-826).
NobodyIsLeftWaiting ==
    "processing" \in page.overlays => Flowing # {} \/ history.stranded

\* A payer who neither reloads the page nor is faster than it, on a network
\* that does not fail, is charged once at most, though the server gives up
\* calls of the gateway that are then approved and a finalize request may
\* find its invoice unpaid (checkout.templ:808-838, completion.templ:89,
\* service.go:493-558).
CalmPayerIsChargedOnce == disturbed = 0 => NoDoubleCharge

-----------------------------------------------------------------------------
(* The inductive invariant of module CheckoutProofs, together with IInv.    *)

\* Whoever serves a request is tied to it, and the request is of the invoice.
CallersAreTied ==
    \A w \in Workers :
        /\ Busy(w) => caller[w].kind # "none"
        /\ caller[w].kind # "none" => worker[w].invoice = Invoice

\* One request at a time is out, and the payer can press nothing meanwhile:
\* an overlay covers the page, or the frame is about to leave it.
OneAtATime ==
    /\ \A w \in Workers : caller[w].kind # "gone"
    /\ \A v, w \in Waited : v = w
    /\ \A w \in Workers : caller[w].kind = "frame" => frame.state = "posted"
    /\ Flowing # {} =>
        /\ "processing" \in page.overlays
        /\ frame.state \in {"none", "error"}
    /\ frame.state \in {"challenge", "posted"} => "challenge" \in page.overlays
    /\ page.saving # 0 =>
        /\ page.saving = 1 /\ page.disabled
        /\ Flowing = {}
        /\ frame.state \notin {"challenge", "posted", "completed"}

Pays(w) == caller[w].kind \in {"finalize", "frame"}

\* What keeps a payer from another payment: the invoice is paid, the payment
\* is under way, its answer is on the way to the page, or the page is stuck
\* under an overlay.
PaymentIsOver ==
    \/ invoice[Invoice] = "paid"
    \/ \E w \in Workers : PayOwner(w) /\ OpenPays \subseteq {worker[w].tx}
    \/ \E w \in Workers :
        Pays(w) /\ ~Busy(w) /\ worker[w].reply # "declined"
    \/ /\ Waited = {} /\ page.saving = 0
       /\ frame.state \in {"none", "error"}
       /\ page.overlays \cap {"challenge", "success"} # {}

OnePayment ==
    /\ \A w \in Workers : Finalizing(w) => Pays(w)
    /\ \A t, u \in OpenPays : t = u
    /\ OpenPays # {} =>
        /\ PaymentIsOver
        /\ \A w \in Workers : worker[w].pc \notin
                {"check_existing", "find_auth", "send_pay"}

CheckoutInv ==
    /\ CheckoutTypeOK
    /\ Len(session) <= MaxSessions
    /\ CallersAreTied
    /\ ReportedSuccessMeansPaid
    /\ NobodyIsLeftWaiting
    /\ disturbed = 0 => OneAtATime /\ OnePayment
=============================================================================
