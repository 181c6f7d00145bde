--------------------------- MODULE CheckoutProofs ----------------------------
(* Theorems about Checkout, for every number of handlers, sessions, options *)
(* and presses of the pay button, and every choice of faults: the browser   *)
(* only chooses which request of Payment comes when; what the page shows;   *)
(* a calm payer is charged once.                                            *)
EXTENDS Checkout, ChargeProofs, FiniteSetTheorems

-----------------------------------------------------------------------------
(* The page.  What the functions of its script leave and change. *)

LEMMA PageTypes ==
    ASSUME NEW pg \in PageRecord
    PROVE  /\ goBack(pg) \in PageRecord
           /\ showLoading(pg) \in PageRecord
           /\ showForm(pg) \in PageRecord
           /\ resetPayButton(pg) \in PageRecord
           /\ showProcessing(pg) \in PageRecord
           /\ showChallenge(pg) \in PageRecord
           /\ showSuccess(pg) \in PageRecord
           /\ showError(pg) \in PageRecord
  BY DEF PageRecord, Sections, Overlays, goBack, showLoading, showForm,
         resetPayButton, showProcessing, showChallenge, showSuccess, showError

\* Which overlays they leave.
LEMMA PageOverlays ==
    ASSUME NEW pg \in PageRecord
    PROVE  /\ goBack(pg).overlays = pg.overlays
           /\ showLoading(pg).overlays = pg.overlays
           /\ showForm(pg).overlays = pg.overlays
           /\ resetPayButton(pg).overlays = pg.overlays
           /\ showProcessing(pg).overlays = pg.overlays \cup {"processing"}
           /\ showChallenge(pg).overlays =
                (pg.overlays \ {"processing"}) \cup {"challenge"}
           /\ showSuccess(pg).overlays =
                (pg.overlays \ {"processing", "challenge"}) \cup {"success"}
           /\ showError(pg).overlays =
                pg.overlays \ {"processing", "challenge"}
  BY DEF PageRecord, goBack, showLoading, showForm, resetPayButton,
         showProcessing, showChallenge, showSuccess, showError

\* None of them asks for the card to be stored.
LEMMA PageSaving ==
    ASSUME NEW pg \in PageRecord
    PROVE  /\ goBack(pg).saving = pg.saving
           /\ showLoading(pg).saving = pg.saving
           /\ showForm(pg).saving = pg.saving
           /\ resetPayButton(pg).saving = pg.saving
           /\ showProcessing(pg).saving = pg.saving
           /\ showChallenge(pg).saving = pg.saving
           /\ showSuccess(pg).saving = pg.saving
           /\ showError(pg).saving = pg.saving
  BY DEF PageRecord, goBack, showLoading, showForm, resetPayButton,
         showProcessing, showChallenge, showSuccess, showError

\* Storing the card, or not, is none of the functions' business.
LEMMA StoredPage ==
    ASSUME NEW pg \in PageRecord, pg.saving # 0
    PROVE  LET stored == [pg EXCEPT !.saving = @ - 1]
           IN  /\ stored \in PageRecord
               /\ stored.overlays = pg.overlays
               /\ stored.saving = pg.saving - 1
  BY DEF PageRecord

\* Moving between the sections leaves the button as it is.
LEMMA PageButton ==
    ASSUME NEW pg \in PageRecord
    PROVE  /\ goBack(pg).disabled = pg.disabled
           /\ showLoading(pg).disabled = pg.disabled
           /\ showForm(pg).disabled = pg.disabled
  BY DEF PageRecord, goBack, showLoading, showForm

LEMMA PageLoads ==
    ASSUME NEW paid \in BOOLEAN
    PROVE  /\ LoadedPage(paid) \in PageRecord
           /\ LoadedPage(paid).overlays = {}
           /\ LoadedPage(paid).saving = 0
  BY DEF LoadedPage, PageRecord, Sections, Overlays

-----------------------------------------------------------------------------
(* Every step is one of Payment, or none of the server's business. *)

\* A request of the page names a session the server made.
LEMMA SendServes ==
    ASSUME Len(session) <= MaxSessions, session \in Seq(SessionRow),
           NEW w \in Workers, NEW s,
           \/ InitiateAuth(w, Project, s, Invoice)
           \/ ProcessAuth(w, Project, s, Invoice)
           \/ FinalizePayment(w, Project, s, Invoice)
    PROVE  /\ PaymentNext
           /\ s \in 1 .. MaxSessions
           /\ session' = session
  <1>1. s \in DOMAIN session
    BY ValidSession DEF InitiateAuth, ProcessAuth, FinalizePayment, Ready
  <1>2. s \in 1 .. MaxSessions
    BY <1>1, PaymentAssumption DEF PaymentAssumption
  <1>3. Arrive(w)
    BY <1>2, CheckoutAssumption DEF CheckoutAssumption, Arrive
  <1> QED
    BY <1>2, <1>3 DEF PaymentNext, Serve, InitiateAuth, ProcessAuth,
                      FinalizePayment, tables, storeVars

LEMMA StepServes ==
    ASSUME IInv, Len(session) <= MaxSessions, [Next]_vars
    PROVE  [PaymentNext]_paymentVars
  <1>0. session \in Seq(SessionRow)
    BY DEF IInv, PaymentTypeOK, TablesTypeOK, StoreTypeOK
  <1>1. CASE PageEvent
    BY <1>0, <1>1, SendServes
       DEF PageEvent, InitiateAnswered, Initialized, AuthInitiated,
           AuthProcessed, Finalized, FrameAnswered, SendProcessAuth,
           SendFinalize
  <1>2. CASE Payer
    BY <1>2 DEF Payer, SelectMethod, GoBack, Pay, Reload, Load
  <1>3. CASE External
    BY <1>0, <1>3, SendServes
       DEF External, CardRefused, CardSaved, ChallengeDone, InitiateThrew,
           FetchThrew, FrameLeaves, Load, SendInitiateAuth, SendFinalize
  <1>4. CASE Server
    <2>1. ASSUME NEW n \in 1 .. MaxSelects, OpenSessionFor(n)
          PROVE  [PaymentNext]_paymentVars
      BY <2>1, CheckoutAssumption
         DEF OpenSessionFor, CheckoutAssumption, Open, PaymentNext
    <2>2. ASSUME NEW w \in Workers, Work(w) \/ Fail(w)
          PROVE  PaymentNext
      BY <2>2 DEF Work, Fail, Serve, PaymentNext
    <2> QED
      BY <1>4, <2>1, <2>2
         DEF Server, ReadInvoiceFor, Drop, World, PaymentNext
  <1>5. CASE UNCHANGED vars
    BY <1>5 DEF vars
  <1> QED
    BY <1>1, <1>2, <1>3, <1>4, <1>5 DEF Next

\* The bound of sessions is kept by the only statement that inserts one.
LEMMA RoomStep ==
    ASSUME IInv, Len(session) <= MaxSessions, [PaymentNext]_paymentVars
    PROVE  Len(session') <= MaxSessions
  <1>0. session \in Seq(SessionRow) /\ MaxSessions \in Nat
    BY PaymentAssumption
       DEF IInv, PaymentTypeOK, TablesTypeOK, StoreTypeOK, PaymentAssumption
  <1>1. CASE Serve
    <2>1. ASSUME NEW w \in Workers, Arrive(w)
          PROVE  session' = session
      BY <2>1 DEF Arrive, RefuseRequest, InitiateAuth, ProcessAuth,
                  FinalizePayment, tables, storeVars
    <2>2. ASSUME NEW w \in Workers, Handle(w) \/ Abort(w)
          PROVE  session' = session
      BY <2>2, FinishWrites, SendInserts, ReadsKeepTables
         DEF Handle, SettleCommit, tables, storeVars
    <2> QED
      BY <1>1, <2>1, <2>2 DEF Serve
  <1>2. CASE Crash \/ Environment \/ UNCHANGED paymentVars
    BY <1>2 DEF Crash, Environment, GatewayAnswers, Expire, paymentVars,
                tables, storeVars
  <1>3. CASE Open
    BY <1>0, <1>3 DEF Open, OpenSession, CreatePaymentSession
  <1> QED
    BY <1>1, <1>2, <1>3 DEF PaymentNext

-----------------------------------------------------------------------------
(* Types. *)

LEMMA PageEventTypes ==
    ASSUME IInv, CheckoutTypeOK, Len(session) <= MaxSessions, PageEvent
    PROVE  CheckoutTypeOK'
  <1>0. /\ session \in Seq(SessionRow) /\ page \in PageRecord
        /\ MaxSessions \in Nat
    BY PaymentAssumption
       DEF IInv, PaymentTypeOK, TablesTypeOK, StoreTypeOK, CheckoutTypeOK,
           PaymentAssumption
  <1>1. ASSUME NEW n \in 1 .. MaxSelects, InitiateAnswered(n)
        PROVE  CheckoutTypeOK'
    <2>1. [page EXCEPT !.current = initiate[n].session] \in PageRecord
      <3>1. initiate[n].session \in Nat
        BY <1>0 DEF CheckoutTypeOK
      <3> QED
        BY <1>0, <3>1 DEF PageRecord
    <2>2. /\ Configured \in [pc : InitiatePcs, session : 0 .. MaxSessions]
          /\ Done \in [pc : InitiatePcs, session : 0 .. MaxSessions]
      BY <1>0 DEF Configured, Done, InitiatePcs
    <2> QED
      BY <1>1, <2>1, <2>2 DEF InitiateAnswered, CheckoutTypeOK
  <1>2. ASSUME NEW n \in 1 .. MaxSelects, Initialized(n)
        PROVE  CheckoutTypeOK'
    <2>1. Done \in [pc : InitiatePcs, session : 0 .. MaxSessions]
      BY <1>0 DEF Done, InitiatePcs
    <2> QED
      BY <1>0, <1>2, <2>1, PageTypes DEF Initialized, CheckoutTypeOK
  <1>3. NoCaller \in [kind : CallerKinds, session : 0 .. MaxSessions]
        /\ Gone \in [kind : CallerKinds, session : 0 .. MaxSessions]
    BY <1>0 DEF NoCaller, Gone, CallerKinds
  <1>4. /\ [history EXCEPT !.stranded = TRUE] \in HistoryRecord
        /\ \A how \in {"finalize", "message"} :
            [history EXCEPT !.success = @ \cup {how}] \in HistoryRecord
    BY DEF CheckoutTypeOK, HistoryRecord
  <1>5. ASSUME NEW w \in Workers, AuthInitiated(w)
        PROVE  CheckoutTypeOK'
    <2>1. ASSUME NEW s, SendProcessAuth(w, s)
          PROVE  caller' \in [Workers ->
                        [kind : CallerKinds, session : 0 .. MaxSessions]]
      <3>1. [kind |-> "process_auth", session |-> s] \in
                [kind : CallerKinds, session : 0 .. MaxSessions]
        BY <1>0, <2>1, SendServes DEF SendProcessAuth, CallerKinds
      <3> QED
        BY <2>1, <3>1 DEF SendProcessAuth, Await, CheckoutTypeOK
    <2>2. Over(w) => caller' \in [Workers ->
                        [kind : CallerKinds, session : 0 .. MaxSessions]]
      BY <1>3 DEF Over, CheckoutTypeOK
    <2> QED
      BY <1>0, <1>4, <1>5, <2>1, <2>2, PageTypes
         DEF AuthInitiated, CheckoutTypeOK
  <1>6. ASSUME NEW w \in Workers, AuthProcessed(w)
        PROVE  CheckoutTypeOK'
    <2>1. ASSUME NEW s, SendFinalize(w, "finalize", s)
          PROVE  caller' \in [Workers ->
                        [kind : CallerKinds, session : 0 .. MaxSessions]]
      <3>1. [kind |-> "finalize", session |-> s] \in
                [kind : CallerKinds, session : 0 .. MaxSessions]
        BY <1>0, <2>1, SendServes DEF SendFinalize, CallerKinds
      <3> QED
        BY <2>1, <3>1 DEF SendFinalize, Await, CheckoutTypeOK
    <2>2. Over(w) => caller' \in [Workers ->
                        [kind : CallerKinds, session : 0 .. MaxSessions]]
      BY <1>3 DEF Over, CheckoutTypeOK
    <2>3. [v \in Workers |->
                IF v = w THEN NoCaller
                ELSE IF caller[v].kind = "frame" THEN Gone ELSE caller[v]]
            \in [Workers -> [kind : CallerKinds, session : 0 .. MaxSessions]]
      BY <1>3 DEF CheckoutTypeOK
    <2>4. [state |-> "challenge", session |-> caller[w].session] \in
                [state : FrameStates, session : 0 .. MaxSessions]
      BY DEF CheckoutTypeOK, FrameStates
    <2> QED
      BY <1>0, <1>4, <1>6, <2>1, <2>2, <2>3, <2>4, PageTypes
         DEF AuthProcessed, CheckoutTypeOK
  <1>7. ASSUME NEW w \in Workers, Finalized(w)
        PROVE  CheckoutTypeOK'
    BY <1>0, <1>3, <1>4, <1>7, PageTypes DEF Finalized, Over, CheckoutTypeOK
  <1>8. ASSUME NEW w \in Workers, FrameAnswered(w)
        PROVE  CheckoutTypeOK'
    <2>1. \A st \in {"completed", "error"} : [frame EXCEPT !.state = st] \in
                [state : FrameStates, session : 0 .. MaxSessions]
      BY DEF CheckoutTypeOK, FrameStates
    <2>2. caller' \in
                [Workers -> [kind : CallerKinds, session : 0 .. MaxSessions]]
      BY <1>3, <1>8 DEF FrameAnswered, Over, CheckoutTypeOK
    <2> QED
      BY <1>0, <1>4, <1>8, <2>1, <2>2, PageTypes
         DEF FrameAnswered, CheckoutTypeOK
  <1> QED
    BY <1>1, <1>2, <1>5, <1>6, <1>7, <1>8 DEF PageEvent

LEMMA DisturbTypes ==
    ASSUME CheckoutTypeOK, NEW how, Disturb(how)
    PROVE  disturbed' \in 0 .. MaxDisturbances /\ disturbed' # 0
  BY CheckoutAssumption DEF CheckoutAssumption, CheckoutTypeOK, Disturb

LEMMA ClickTypes ==
    ASSUME CheckoutTypeOK, Click
    PROVE  /\ disturbed' \in 0 .. MaxDisturbances
           /\ disturbed' = 0 => disturbed = 0 /\ frame.state # "completed"
  BY DisturbTypes DEF Click, CheckoutTypeOK

LEMMA LoadTypes ==
    ASSUME CheckoutTypeOK, Load, disturbed' \in 0 .. MaxDisturbances
    PROVE  CheckoutTypeOK'
  <1>0. MaxSessions \in Nat
    BY PaymentAssumption DEF PaymentAssumption
  <1>1. page' \in PageRecord
    BY PageLoads DEF Load
  <1>2. Done \in [pc : InitiatePcs, session : 0 .. MaxSessions]
    BY <1>0 DEF Done, InitiatePcs
  <1>3. /\ NoCaller \in [kind : CallerKinds, session : 0 .. MaxSessions]
        /\ Gone \in [kind : CallerKinds, session : 0 .. MaxSessions]
    BY <1>0 DEF NoCaller, Gone, CallerKinds
  <1>4. NoFrame \in [state : FrameStates, session : 0 .. MaxSessions]
    BY <1>0 DEF NoFrame, FrameStates
  <1>5. NoHistory \in HistoryRecord
    BY DEF NoHistory, HistoryRecord
  <1> QED
    BY <1>1, <1>2, <1>3, <1>4, <1>5 DEF Load, CheckoutTypeOK

LEMMA PayerTypes ==
    ASSUME CheckoutTypeOK, Payer
    PROVE  CheckoutTypeOK'
  <1>0. page \in PageRecord
    BY DEF CheckoutTypeOK
  <1>1. ASSUME NEW n \in 1 .. MaxSelects, SelectMethod(n)
        PROVE  CheckoutTypeOK'
    <2>1. [initiate[n] EXCEPT !.pc = "sent"] \in
                [pc : InitiatePcs, session : 0 .. MaxSessions]
      BY DEF CheckoutTypeOK, InitiatePcs
    <2>2. initiate' = [initiate EXCEPT ![n] = [initiate[n] EXCEPT !.pc = "sent"]]
      BY <1>1 DEF SelectMethod
    <2>3. initiate' \in [1 .. MaxSelects ->
                [pc : InitiatePcs, session : 0 .. MaxSessions]]
      BY <2>1, <2>2 DEF CheckoutTypeOK
    <2> QED
      BY <1>0, <1>1, <2>3, PageTypes, ClickTypes
         DEF SelectMethod, CheckoutTypeOK
  <1>2. CASE GoBack
    BY <1>0, <1>2, PageTypes, ClickTypes DEF GoBack, CheckoutTypeOK
  <1>3. CASE Pay
    <2>1. [page EXCEPT !.disabled = TRUE, !.saving = @ + 1] \in PageRecord
      <3>1. page.saving + 1 \in Nat
        BY <1>0 DEF PageRecord
      <3> QED
        BY <1>0, <3>1 DEF PageRecord
    <2>2. pays + 1 \in 0 .. MaxPays
      BY <1>3, CheckoutAssumption DEF CheckoutAssumption, Pay, CheckoutTypeOK
    <2> QED
      BY <1>3, <2>1, <2>2, ClickTypes DEF Pay, CheckoutTypeOK
  <1>4. CASE Reload
    BY <1>4, LoadTypes, DisturbTypes DEF Reload
  <1> QED
    BY <1>1, <1>2, <1>3, <1>4 DEF Payer

LEMMA ExternalTypes ==
    ASSUME IInv, CheckoutTypeOK, Len(session) <= MaxSessions, External
    PROVE  CheckoutTypeOK'
  <1>0. /\ session \in Seq(SessionRow) /\ page \in PageRecord
        /\ MaxSessions \in Nat
    BY PaymentAssumption
       DEF IInv, PaymentTypeOK, TablesTypeOK, StoreTypeOK, CheckoutTypeOK,
           PaymentAssumption
  <1>1. CASE CardRefused
    <2>1. [resetPayButton(page) EXCEPT !.saving = @ - 1] \in PageRecord
      BY <1>0, <1>1, PageTypes, PageSaving, StoredPage DEF CardRefused
    <2> QED
      BY <1>1, <2>1 DEF CardRefused, CheckoutTypeOK
  <1>2. ASSUME NEW w \in Workers, CardSaved(w)
        PROVE  CheckoutTypeOK'
    <2>1. [page EXCEPT !.saving = @ - 1] \in PageRecord
      BY <1>0, <1>2, StoredPage DEF CardSaved
    <2>2. ASSUME NEW s, SendInitiateAuth(w, s)
          PROVE  caller' \in [Workers ->
                        [kind : CallerKinds, session : 0 .. MaxSessions]]
      <3>1. [kind |-> "initiate_auth", session |-> s] \in
                [kind : CallerKinds, session : 0 .. MaxSessions]
        BY <1>0, <2>2, SendServes DEF SendInitiateAuth, CallerKinds
      <3> QED
        BY <2>2, <3>1 DEF SendInitiateAuth, Await, CheckoutTypeOK
    <2> QED
      BY <1>2, <2>1, <2>2, PageTypes DEF CardSaved, CheckoutTypeOK
  <1>3. ASSUME NEW w \in Workers, ChallengeDone(w)
        PROVE  CheckoutTypeOK'
    <2>1. [kind |-> "frame", session |-> frame.session] \in
                [kind : CallerKinds, session : 0 .. MaxSessions]
      BY DEF CheckoutTypeOK, CallerKinds
    <2>2. caller' \in [Workers ->
                [kind : CallerKinds, session : 0 .. MaxSessions]]
      BY <1>3, <2>1 DEF ChallengeDone, SendFinalize, Await, CheckoutTypeOK
    <2>3. frame' \in [state : FrameStates, session : 0 .. MaxSessions]
      BY <1>0, <1>3 DEF ChallengeDone, FrameStates
    <2> QED
      BY <1>3, <2>2, <2>3 DEF ChallengeDone, CheckoutTypeOK
  <1>4. ASSUME NEW n \in 1 .. MaxSelects, InitiateThrew(n)
        PROVE  CheckoutTypeOK'
    <2>1. Done \in [pc : InitiatePcs, session : 0 .. MaxSessions]
      BY <1>0 DEF Done, InitiatePcs
    <2> QED
      BY <1>0, <1>4, <2>1, PageTypes, DisturbTypes
         DEF InitiateThrew, CheckoutTypeOK
  <1>5. ASSUME NEW w \in Workers, FetchThrew(w)
        PROVE  CheckoutTypeOK'
    <2>1. Gone \in [kind : CallerKinds, session : 0 .. MaxSessions]
      BY <1>0 DEF Gone, CallerKinds
    <2> QED
      BY <1>0, <1>5, <2>1, PageTypes, DisturbTypes
         DEF FetchThrew, CheckoutTypeOK
  <1>6. CASE FrameLeaves
    BY <1>6, LoadTypes DEF FrameLeaves, CheckoutTypeOK
  <1> QED
    BY <1>1, <1>2, <1>3, <1>4, <1>5, <1>6 DEF External

LEMMA ServerTypes ==
    ASSUME IInv, CheckoutTypeOK, Server
    PROVE  CheckoutTypeOK'
  <1>0. session \in Seq(SessionRow) /\ MaxSessions \in Nat
    BY PaymentAssumption
       DEF IInv, PaymentTypeOK, TablesTypeOK, StoreTypeOK, PaymentAssumption
  <1>1. ASSUME NEW n \in 1 .. MaxSelects, NEW pc \in InitiatePcs,
               initiate' = [initiate EXCEPT ![n].pc = pc]
        PROVE  initiate' \in [1 .. MaxSelects ->
                    [pc : InitiatePcs, session : 0 .. MaxSessions]]
    <2>1. [initiate[n] EXCEPT !.pc = pc] \in
                [pc : InitiatePcs, session : 0 .. MaxSessions]
      BY DEF CheckoutTypeOK
    <2>2. initiate' = [initiate EXCEPT ![n] = [initiate[n] EXCEPT !.pc = pc]]
      BY <1>1
    <2> QED
      BY <2>1, <2>2 DEF CheckoutTypeOK
  <1>2. ASSUME NEW n \in 1 .. MaxSelects, ReadInvoiceFor(n)
        PROVE  CheckoutTypeOK'
    <2>1. PICK pc \in InitiatePcs : initiate' = [initiate EXCEPT ![n].pc = pc]
      BY <1>2 DEF ReadInvoiceFor, InitiatePcs
    <2> QED
      BY <1>1, <1>2, <2>1 DEF ReadInvoiceFor, CheckoutTypeOK
  <1>3. ASSUME NEW n \in 1 .. MaxSelects, OpenSessionFor(n)
        PROVE  CheckoutTypeOK'
    <2>1. CASE initiate' = [initiate EXCEPT ![n].pc = "error"]
      BY <1>1, <1>3, <2>1 DEF OpenSessionFor, CheckoutTypeOK, InitiatePcs
    <2>2. CASE /\ OpenSession(Invoice, Account, NoKey)
               /\ initiate' = [initiate EXCEPT ![n].pc = "session",
                                        ![n].session = Len(session) + 1]
      <3> DEFINE m == Len(session) + 1
                 x == [initiate[n] EXCEPT !.pc = "session", !.session = m]
      <3>1. m \in 0 .. MaxSessions
        BY <1>0, <2>2 DEF OpenSession
      <3> HIDE DEF m
      <3>2. x \in [pc : InitiatePcs, session : 0 .. MaxSessions]
        BY <3>1 DEF CheckoutTypeOK, InitiatePcs
      <3>3. initiate' = [initiate EXCEPT ![n] = x]
        BY <2>2 DEF CheckoutTypeOK, m
      <3> HIDE DEF x
      <3> QED
        BY <1>3, <3>2, <3>3 DEF OpenSessionFor, CheckoutTypeOK
    <2> QED
      BY <1>3, <2>1, <2>2 DEF OpenSessionFor
  <1>4. ASSUME NEW w \in Workers, Drop(w)
        PROVE  CheckoutTypeOK'
    <2>1. NoCaller \in [kind : CallerKinds, session : 0 .. MaxSessions]
      BY <1>0 DEF NoCaller, CallerKinds
    <2> QED
      BY <1>4, <2>1 DEF Drop, Over, CheckoutTypeOK
  <1>5. UNCHANGED browserVars => CheckoutTypeOK'
    BY DEF browserVars, CheckoutTypeOK
  <1> QED
    BY <1>2, <1>3, <1>4, <1>5 DEF Server, Work, Fail, World

LEMMA TypesStep ==
    ASSUME IInv, CheckoutTypeOK, Len(session) <= MaxSessions, [Next]_vars
    PROVE  CheckoutTypeOK'
  <1>1. UNCHANGED vars => CheckoutTypeOK'
    BY DEF vars, browserVars, CheckoutTypeOK
  <1> QED
    BY <1>1, PageEventTypes, PayerTypes, ExternalTypes, ServerTypes DEF Next

-----------------------------------------------------------------------------
(* What a request that comes in, and a step of a handler, do to handlers.   *)

LEMMA SendShape ==
    ASSUME IInv, NEW w \in Workers, NEW s,
           \/ InitiateAuth(w, Project, s, Invoice)
           \/ ProcessAuth(w, Project, s, Invoice)
           \/ FinalizePayment(w, Project, s, Invoice)
    PROVE  /\ ~Busy(w)
           /\ \A v \in Workers : v # w => worker'[v] = worker[v]
           /\ worker'[w].invoice = Invoice
           /\ invoice' = invoice
  <1>0. worker \in [Workers -> WorkerRecord]
    BY DEF IInv, PaymentTypeOK
  <1>1. \/ \E r : Reply(w, Invoice, r)
        \/ \E pc, t, au : Request(w, s, Invoice, pc, t, au)
    BY DEF InitiateAuth, ProcessAuth, FinalizePayment
  <1>2. CASE \E r : Reply(w, Invoice, r)
    BY <1>0, <1>2 DEF Reply, Answered, InitiateAuth, ProcessAuth,
                      FinalizePayment, Ready, tables, storeVars
  <1>3. CASE \E pc, t, au : Request(w, s, Invoice, pc, t, au)
    BY <1>0, <1>3 DEF Request, InitiateAuth, ProcessAuth, FinalizePayment,
                      Ready, tables, storeVars
  <1> QED
    BY <1>1, <1>2, <1>3

LEMMA HandlerShape ==
    ASSUME IInv, NEW w \in Workers, Handle(w) \/ Abort(w)
    PROVE  /\ Busy(w)
           /\ \A v \in Workers : v # w => worker'[v] = worker[v]
           /\ worker'[w].invoice = worker[w].invoice
  <1>0. worker \in [Workers -> WorkerRecord]
    BY DEF IInv, PaymentTypeOK
  <1>1. Busy(w)
    BY DEF Handle, Abort, FinishInitiateAuth, SendAuthenticate,
           FinishProcessAuth, CheckUnpaid, CheckExisting, FindAuth, SendPay,
           ReceiveApproval, SettleWrite, SettleCommit, RecordDecline, Timeout,
           Waiting, Busy
  <1>2. \/ \E r : Reply(w, worker[w].invoice, r)
        \/ \E pc : Goto(w, pc)
        \/ \E s, pc, t, au : Request(w, s, worker[w].invoice, pc, t, au)
        \/ \E au : worker' =
                [worker EXCEPT ![w].pc = "send_pay", ![w].auth = au]
    BY DEF Handle, Abort, FinishInitiateAuth, SendAuthenticate,
           FinishProcessAuth, CheckUnpaid, CheckExisting, FindAuth, SendPay,
           ReceiveApproval, SettleWrite, SettleCommit, RecordDecline, Timeout,
           Send
  <1>3. CASE \E r : Reply(w, worker[w].invoice, r)
    BY <1>0, <1>1, <1>3 DEF Reply, Answered
  <1>4. CASE \E pc : Goto(w, pc)
    BY <1>0, <1>1, <1>4 DEF Goto, WorkerRecord
  <1>5. CASE \E s, pc, t, au : Request(w, s, worker[w].invoice, pc, t, au)
    BY <1>0, <1>1, <1>5 DEF Request
  <1>6. ASSUME NEW au, worker' =
                [worker EXCEPT ![w].pc = "send_pay", ![w].auth = au]
        PROVE  /\ \A v \in Workers : v # w => worker'[v] = worker[v]
               /\ worker'[w].invoice = worker[w].invoice
    BY <1>0, <1>6 DEF WorkerRecord
  <1> QED
    BY <1>1, <1>2, <1>3, <1>4, <1>5, <1>6

-----------------------------------------------------------------------------
(* Callers and what the page says. *)

\* A handler is only busy for somebody, or for nobody any more.
LEMMA TiedStep ==
    ASSUME IInv, CheckoutTypeOK, CallersAreTied, [Next]_vars
    PROVE  CallersAreTied'
  <1>0. caller \in [Workers -> [kind : CallerKinds, session : 0 .. MaxSessions]]
    BY DEF CheckoutTypeOK
  <1>1. CASE worker' = worker /\ caller' = caller
    BY <1>1 DEF CallersAreTied, Busy
  <1>2. ASSUME NEW w \in Workers, NEW kind, NEW s, Await(w, kind, s),
               kind # "none",
               \/ InitiateAuth(w, Project, s, Invoice)
               \/ ProcessAuth(w, Project, s, Invoice)
               \/ FinalizePayment(w, Project, s, Invoice)
        PROVE  CallersAreTied'
    <2>1. /\ \A v \in Workers : v # w => worker'[v] = worker[v]
          /\ worker'[w].invoice = Invoice
      BY <1>2, SendShape
    <2>2. /\ \A v \in Workers : v # w => caller'[v] = caller[v]
          /\ caller'[w].kind = kind
      BY <1>0, <1>2 DEF Await
    <2> QED
      BY <1>2, <2>1, <2>2 DEF CallersAreTied, Busy
  <1>3. ASSUME NEW w \in Workers, Over(w), ~Busy(w), worker' = worker
        PROVE  CallersAreTied'
    BY <1>0, <1>3 DEF Over, NoCaller, CallersAreTied, Busy
  <1>4. ASSUME NEW w \in Workers, FetchThrew(w)
        PROVE  CallersAreTied'
    BY <1>0, <1>4 DEF FetchThrew, Gone, CallersAreTied, Busy, paymentVars
  <1>5. ASSUME NEW w \in Workers, AuthProcessed(w)
        PROVE  CallersAreTied'
    <2>1. CASE caller' = [v \in Workers |->
                IF v = w THEN NoCaller
                ELSE IF caller[v].kind = "frame" THEN Gone ELSE caller[v]]
               /\ worker' = worker
      BY <1>0, <1>5, <2>1 DEF AuthProcessed, AnswerFor, NoCaller, Gone,
                              CallersAreTied, Busy
    <2> QED
      BY <1>2, <1>3, <1>5, <2>1
         DEF AuthProcessed, SendFinalize, AnswerFor, paymentVars
  <1>6. CASE Load
    BY <1>6 DEF Load, CallersAreTied, Busy, Gone, NoCaller, paymentVars
  <1>7. ASSUME NEW w \in Workers, Handle(w) \/ Abort(w), caller' = caller
        PROVE  CallersAreTied'
    BY <1>7, HandlerShape DEF CallersAreTied, Busy
  <1>8. CASE PageEvent
    BY <1>1, <1>2, <1>3, <1>5, <1>8
       DEF PageEvent, InitiateAnswered, Initialized, AuthInitiated, Finalized,
           FrameAnswered, SendProcessAuth, AnswerFor, paymentVars
  <1>9. CASE Payer
    BY <1>1, <1>6, <1>9
       DEF Payer, SelectMethod, GoBack, Pay, Reload, paymentVars
  <1>10. CASE External
    BY <1>1, <1>2, <1>4, <1>6, <1>10
       DEF External, CardRefused, CardSaved, ChallengeDone, InitiateThrew,
           FrameLeaves, SendInitiateAuth, SendFinalize, paymentVars
  <1>11. CASE Server
    <2>1. CASE World
      BY <1>1, <2>1 DEF World, Environment, GatewayAnswers, Expire,
                        browserVars
    <2> QED
      BY <1>1, <1>3, <1>7, <1>11, <2>1
         DEF Server, ReadInvoiceFor, OpenSessionFor, OpenSession, Work,
             Fail, Drop, AnswerFor, browserVars, paymentVars
  <1>12. CASE UNCHANGED vars
    BY <1>1, <1>12 DEF vars, paymentVars, browserVars
  <1> QED
    BY <1>8, <1>9, <1>10, <1>11, <1>12 DEF Next

\* Whatever answers late, "processing" ends with the request it is shown for.
LEMMA WaitingStep ==
    ASSUME CheckoutTypeOK, NobodyIsLeftWaiting, [Next]_vars
    PROVE  NobodyIsLeftWaiting'
  <1>0. /\ caller \in [Workers ->
                [kind : CallerKinds, session : 0 .. MaxSessions]]
        /\ page \in PageRecord
        /\ history \in HistoryRecord
    BY DEF CheckoutTypeOK
  <1>1. ASSUME \A w \in Flowing : caller'[w] = caller[w],
               page'.overlays = page.overlays,
               history'.stranded = history.stranded
        PROVE  NobodyIsLeftWaiting'
    BY <1>1 DEF NobodyIsLeftWaiting, Flowing
  <1>2. ASSUME "processing" \notin page'.overlays
        PROVE  NobodyIsLeftWaiting'
    BY <1>2 DEF NobodyIsLeftWaiting
  <1>3. ASSUME NEW w \in Workers, NEW s, NEW kind, Await(w, kind, s),
               kind \in {"initiate_auth", "process_auth", "finalize"}
        PROVE  NobodyIsLeftWaiting'
    BY <1>0, <1>3 DEF Await, NobodyIsLeftWaiting, Flowing
  <1>4. ASSUME history' = [history EXCEPT !.stranded = TRUE]
        PROVE  NobodyIsLeftWaiting'
    BY <1>0, <1>4 DEF NobodyIsLeftWaiting, HistoryRecord
  <1>5. ASSUME NEW pg \in PageRecord,
               \/ page' = showError(pg)
               \/ page' = showSuccess(pg)
               \/ page' = showChallenge(pg)
        PROVE  NobodyIsLeftWaiting'
    BY <1>2, <1>5, PageOverlays
  <1>6. CASE PageEvent
    <2>1. ASSUME NEW n \in 1 .. MaxSelects,
                 InitiateAnswered(n) \/ Initialized(n)
          PROVE  NobodyIsLeftWaiting'
      <3>1. page'.overlays = page.overlays
        BY <1>0, <2>1, PageOverlays
           DEF InitiateAnswered, Initialized, PageRecord
      <3> QED
        BY <1>1, <2>1, <3>1 DEF InitiateAnswered, Initialized
    <2>2. ASSUME NEW w \in Workers, AuthInitiated(w) \/ AuthProcessed(w)
          PROVE  NobodyIsLeftWaiting'
      BY <1>0, <1>3, <1>4, <1>5, <2>2
         DEF AuthInitiated, AuthProcessed, SendProcessAuth, SendFinalize
    <2>3. ASSUME NEW w \in Workers, Finalized(w)
          PROVE  NobodyIsLeftWaiting'
      BY <1>0, <1>5, <2>3 DEF Finalized
    <2>4. ASSUME NEW w \in Workers, FrameAnswered(w)
          PROVE  NobodyIsLeftWaiting'
      <3>1. \A v \in Flowing : caller'[v] = caller[v]
        BY <1>0, <2>4 DEF FrameAnswered, AnswerFor, Over, Flowing
      <3> QED
        BY <1>0, <1>1, <1>5, <2>4, <3>1 DEF FrameAnswered
    <2> QED
      BY <1>6, <2>1, <2>2, <2>3, <2>4 DEF PageEvent
  <1>7. CASE Load
    BY <1>2, <1>7, PageLoads DEF Load
  <1>8. CASE Payer
    <2>1. CASE (\E n \in 1 .. MaxSelects : SelectMethod(n)) \/ GoBack \/ Pay
      <3>1. page'.overlays = page.overlays
        BY <1>0, <2>1, PageOverlays DEF SelectMethod, GoBack, Pay, PageRecord
      <3> QED
        BY <1>1, <2>1, <3>1 DEF SelectMethod, GoBack, Pay
    <2> QED
      BY <1>7, <1>8, <2>1 DEF Payer, Reload
  <1>9. CASE External
    <2>1. CASE CardRefused
      <3>1. page'.overlays = page.overlays
        BY <1>0, <2>1, PageOverlays, PageTypes, PageSaving, StoredPage
           DEF CardRefused
      <3> QED
        BY <1>1, <2>1, <3>1 DEF CardRefused
    <2>2. ASSUME NEW w \in Workers, CardSaved(w)
          PROVE  NobodyIsLeftWaiting'
      BY <1>0, <1>3, <1>5, <2>2, StoredPage DEF CardSaved, SendInitiateAuth
    <2>3. ASSUME NEW w \in Workers, ChallengeDone(w)
          PROVE  NobodyIsLeftWaiting'
      <3>1. \A v \in Flowing : caller'[v] = caller[v]
        BY <1>0, <2>3
           DEF ChallengeDone, Free, SendFinalize, Await, Flowing
      <3> QED
        BY <1>1, <2>3, <3>1 DEF ChallengeDone
    <2>4. ASSUME NEW n \in 1 .. MaxSelects, InitiateThrew(n)
          PROVE  NobodyIsLeftWaiting'
      BY <1>0, <1>2, <2>4, PageTypes, PageOverlays DEF InitiateThrew
    <2>5. ASSUME NEW w \in Workers, FetchThrew(w)
          PROVE  NobodyIsLeftWaiting'
      BY <1>0, <1>5, <2>5 DEF FetchThrew
    <2> QED
      BY <1>7, <1>9, <2>1, <2>2, <2>3, <2>4, <2>5 DEF External, FrameLeaves
  <1>10. CASE Server
    <2>1. ASSUME NEW w \in Workers, Drop(w)
          PROVE  NobodyIsLeftWaiting'
      <3>1. \A v \in Flowing : caller'[v] = caller[v]
        BY <1>0, <2>1 DEF Drop, AnswerFor, Over, Flowing
      <3> QED
        BY <1>1, <2>1, <3>1 DEF Drop
    <2> QED
      BY <1>1, <1>10, <2>1 DEF Server, ReadInvoiceFor, OpenSessionFor, Work,
                               Fail, World, browserVars
  <1>11. CASE UNCHANGED vars
    BY <1>1, <1>11 DEF vars, browserVars
  <1> QED
    BY <1>6, <1>8, <1>9, <1>10, <1>11 DEF Next

\* The completion page reports a success, and has one to report, only of an
\* invoice that is paid; and a paid invoice stays paid.
LEMMA ReportStep ==
    ASSUME IInv, CheckoutTypeOK, CallersAreTied, ReportedSuccessMeansPaid,
           invoice[Invoice] = "paid" => invoice'[Invoice] = "paid",
           [Next]_vars
    PROVE  ReportedSuccessMeansPaid'
  <1>0. history \in HistoryRecord
    BY DEF CheckoutTypeOK
  <1>1. ASSUME "message" \in history'.success => "message" \in history.success
        PROVE  ReportedSuccessMeansPaid'
    BY <1>1 DEF ReportedSuccessMeansPaid
  <1>2. ASSUME NEW w \in Workers, FrameAnswered(w)
        PROVE  ReportedSuccessMeansPaid'
    <2>1. CASE worker[w].reply = "success"
      <3>1. caller[w].kind # "none"
        BY <1>2 DEF FrameAnswered, AnswerFor
      <3>2. invoice[Invoice] = "paid"
        BY <2>1, <3>1 DEF CallersAreTied, IInv, SuccessReplyMeansPaid
      <3> QED
        BY <3>2 DEF ReportedSuccessMeansPaid
    <2> QED
      BY <1>1, <1>2, <2>1 DEF FrameAnswered
  <1>3. \/ history' = history
        \/ history' = [history EXCEPT !.stranded = TRUE]
        \/ history' = [history EXCEPT !.success = @ \cup {"finalize"}]
        \/ history' = NoHistory
        \/ \E w \in Workers : FrameAnswered(w)
    <2>1. PageEvent =>
            \/ history' = history
            \/ history' = [history EXCEPT !.stranded = TRUE]
            \/ history' = [history EXCEPT !.success = @ \cup {"finalize"}]
            \/ \E w \in Workers : FrameAnswered(w)
      BY DEF PageEvent, InitiateAnswered, Initialized, AuthInitiated,
             AuthProcessed, Finalized
    <2>2. Payer => history' = history \/ history' = NoHistory
      BY DEF Payer, SelectMethod, GoBack, Pay, Reload, Load
    <2>3. External => history' = history \/ history' = NoHistory
      BY DEF External, CardRefused, CardSaved, ChallengeDone, InitiateThrew,
             FetchThrew, FrameLeaves, Load
    <2>4. Server => history' = history
      BY DEF Server, ReadInvoiceFor, OpenSessionFor, Work, Fail, Drop,
             World, browserVars
    <2> QED
      BY <2>1, <2>2, <2>3, <2>4 DEF Next, vars, browserVars
  <1> QED
    BY <1>0, <1>1, <1>2, <1>3 DEF HistoryRecord, NoHistory

-----------------------------------------------------------------------------
(* A payer who is not disturbed: which steps there are.                     *)

\* A disturbance is not forgotten.
LEMMA CalmBefore ==
    ASSUME CheckoutTypeOK, [Next]_vars, disturbed' = 0
    PROVE  disturbed = 0
  <1>1. Click => disturbed = 0
    BY ClickTypes
  <1>2. \A how : ~ Disturb(how)
    BY DisturbTypes
  <1> QED
    BY <1>1, <1>2
       DEF Next, PageEvent, Payer, External, Server, InitiateAnswered,
           Initialized, AuthInitiated, AuthProcessed, Finalized,
           FrameAnswered, SelectMethod, GoBack, Pay, Reload, CardRefused,
           CardSaved, ChallengeDone, InitiateThrew, FetchThrew, FrameLeaves,
           ReadInvoiceFor, OpenSessionFor, Work, Fail, Drop, World, vars,
           browserVars

\* A step that neither starts nor ends anything anybody waits for.
Quiet ==
    /\ UNCHANGED <<worker, caller, frame>>
    /\ page'.overlays = page.overlays
    /\ \/ page'.saving = 0
       \/ UNCHANGED <<page.saving, page.disabled>>

LEMMA CalmSteps ==
    ASSUME CheckoutTypeOK, OneAtATime, [Next]_vars, disturbed' = 0
    PROVE  \/ Quiet
           \/ Pay
           \/ FrameLeaves
           \/ \E w \in Workers :
                \/ Work(w) \/ Fail(w)
                \/ CardSaved(w) \/ AuthInitiated(w) \/ AuthProcessed(w)
                \/ Finalized(w) \/ ChallengeDone(w) \/ FrameAnswered(w)
  <1>0. page \in PageRecord
    BY DEF CheckoutTypeOK
  <1>1. \A how : ~ Disturb(how)
    BY DisturbTypes
  <1>2. \A w \in Workers : caller[w].kind # "gone"
    BY DEF OneAtATime
  <1>3. ASSUME NEW n \in 1 .. MaxSelects,
               \/ InitiateAnswered(n) \/ Initialized(n) \/ SelectMethod(n)
               \/ ReadInvoiceFor(n) \/ OpenSessionFor(n)
        PROVE  Quiet
    <2>1. /\ page'.overlays = page.overlays
          /\ page'.saving = page.saving
          /\ page'.disabled = page.disabled
      BY <1>0, <1>3, PageOverlays, PageSaving, PageButton
         DEF InitiateAnswered, Initialized, SelectMethod, ReadInvoiceFor,
             OpenSessionFor, PageRecord
    <2> QED
      BY <1>3, <2>1
         DEF InitiateAnswered, Initialized, SelectMethod, ReadInvoiceFor,
             OpenSessionFor, OpenSession, Quiet, paymentVars
  <1>4. ASSUME GoBack \/ CardRefused
        PROVE  Quiet
    <2>1. CASE GoBack
      <3>1. /\ page'.overlays = page.overlays
            /\ page'.saving = page.saving
            /\ page'.disabled = page.disabled
        BY <1>0, <2>1, PageOverlays, PageSaving, PageButton DEF GoBack
      <3> QED
        BY <2>1, <3>1 DEF GoBack, Quiet, paymentVars
    <2>2. CASE CardRefused
      <3> DEFINE reset == resetPayButton(page)
      <3>1. /\ reset \in PageRecord
            /\ reset.overlays = page.overlays
            /\ reset.saving = page.saving
        BY <1>0, PageTypes, PageOverlays, PageSaving
      <3>2. page.saving = 1
        BY <2>2 DEF CardRefused, OneAtATime
      <3>3. page' = [reset EXCEPT !.saving = @ - 1]
        BY <2>2 DEF CardRefused
      <3> HIDE DEF reset
      <3>4. page'.overlays = page.overlays /\ page'.saving = 0
        BY <3>1, <3>2, <3>3, StoredPage
      <3>5. UNCHANGED <<worker, caller, frame>>
        BY <2>2 DEF CardRefused, paymentVars
      <3> QED
        BY <3>4, <3>5 DEF Quiet
    <2> QED
      BY <1>4, <2>1, <2>2
  <1>5. CASE World \/ UNCHANGED vars
    BY <1>5 DEF World, Environment, GatewayAnswers, Expire, vars,
                paymentVars, browserVars, Quiet
  <1>6. CASE PageEvent
    BY <1>3, <1>6 DEF PageEvent
  <1>7. CASE Payer
    BY <1>1, <1>3, <1>4, <1>7 DEF Payer, Reload
  <1>8. CASE External
    BY <1>1, <1>4, <1>8 DEF External, InitiateThrew, FetchThrew
  <1>9. CASE Server
    BY <1>2, <1>3, <1>5, <1>9 DEF Server, Drop, AnswerFor
  <1> QED
    BY <1>5, <1>6, <1>7, <1>8, <1>9 DEF Next

\* Beside the one who is waited for there is nobody.
LEMMA Alone ==
    ASSUME OneAtATime, CheckoutTypeOK, NEW w \in Workers, Waited \subseteq {w}
    PROVE  \A v \in Workers : v # w => caller[v].kind = "none"
  BY DEF OneAtATime, Waited, CheckoutTypeOK

LEMMA BusyIsWaited ==
    ASSUME OneAtATime, CallersAreTied, NEW w \in Workers, Busy(w)
    PROVE  w \in Waited
  BY DEF OneAtATime, CallersAreTied, Waited

LEMMA OneAtATimeStep ==
    ASSUME IInv, CheckoutTypeOK, CallersAreTied, OneAtATime, [Next]_vars,
           disturbed' = 0
    PROVE  OneAtATime'
  <1>0. /\ page \in PageRecord
        /\ caller \in [Workers ->
                [kind : CallerKinds, session : 0 .. MaxSessions]]
        /\ frame \in [state : FrameStates, session : 0 .. MaxSessions]
    BY DEF CheckoutTypeOK
  <1>1. CASE Quiet
    BY <1>1 DEF Quiet, OneAtATime, Waited, Flowing
  <1>2. ASSUME NEW w \in Workers, Work(w) \/ Fail(w)
        PROVE  OneAtATime'
    BY <1>2 DEF Work, Fail, browserVars, OneAtATime, Waited, Flowing
  <1>3. CASE Pay
    <2>1. /\ page'.overlays = {}
          /\ page.overlays = {}
          /\ caller' = caller /\ frame' = frame
      BY <1>0, <1>3 DEF Pay, Clickable, PageRecord
    <2>2. frame.state # "completed"
      BY <1>3, ClickTypes DEF Pay
    <2>3. page'.saving = 1 /\ page'.disabled
      <3>1. page.saving = 0
        BY <1>3 DEF Pay, OneAtATime
      <3> QED
        BY <1>0, <1>3, <3>1 DEF Pay, PageRecord
    <2> QED
      BY <2>1, <2>2, <2>3 DEF OneAtATime, Waited, Flowing
  <1>4. ASSUME NEW w \in Workers,
               \A v \in Workers : v # w => caller'[v].kind = "none",
               caller'[w].kind # "gone",
               caller'[w].kind = "frame" => frame'.state = "posted",
               caller'[w].kind \in
                    {"initiate_auth", "process_auth", "finalize"} =>
                        /\ "processing" \in page'.overlays
                        /\ frame'.state \in {"none", "error"}
                        /\ page'.saving = 0,
               frame'.state \in {"challenge", "posted"} =>
                        "challenge" \in page'.overlays,
               page'.saving # 0 =>
                    /\ page'.saving = 1 /\ page'.disabled
                    /\ frame'.state \notin {"challenge", "posted", "completed"}
        PROVE  OneAtATime'
    BY <1>4 DEF OneAtATime, Waited, Flowing
  <1>5. CASE FrameLeaves
    <2>1. Waited = {}
      BY <1>5 DEF FrameLeaves, OneAtATime, Waited, Flowing, CheckoutTypeOK,
                  CallerKinds
    <2>2. \A w \in Workers : ~Busy(w)
      BY <2>1, BusyIsWaited
    <2>3. \A w \in Workers : caller'[w].kind = "none"
      BY <1>5, <2>2 DEF FrameLeaves, Load, NoCaller
    <2>4. page'.overlays = {} /\ page'.saving = 0 /\ frame'.state = "none"
      BY <1>5, PageLoads DEF FrameLeaves, Load, NoFrame
    <2> QED
      BY <2>3, <2>4 DEF OneAtATime, Waited, Flowing
  <1>6. ASSUME NEW w \in Workers, CardSaved(w)
        PROVE  OneAtATime'
    <2> DEFINE saved == [page EXCEPT !.saving = @ - 1]
    <2>1. saved \in PageRecord /\ saved.saving = 0
      <3>1. page.saving = 1
        BY <1>6 DEF CardSaved, OneAtATime
      <3> QED
        BY <1>0, <3>1, StoredPage
    <2>2. Waited = {} /\ frame.state \in {"none", "error"} /\ frame' = frame
      BY <1>0, <1>6 DEF CardSaved, OneAtATime, Waited, Flowing, CallerKinds,
                        FrameStates
    <2>3. \A v \in Workers : caller[v].kind = "none"
      BY <2>2 DEF OneAtATime, Waited
    <2>4. CASE Await(w, "initiate_auth", page.current)
               /\ page' = showProcessing(saved)
      <3>1. /\ "processing" \in page'.overlays
            /\ page'.saving = 0
        BY <2>1, <2>4, PageOverlays, PageSaving
      <3>2. /\ \A v \in Workers : v # w => caller'[v].kind = "none"
            /\ caller'[w].kind = "initiate_auth"
        BY <1>0, <2>3, <2>4 DEF Await
      <3> QED
        BY <1>4, <2>2, <3>1, <3>2
    <2>5. CASE caller' = caller /\ page' = showError(saved)
      <3>1. page'.saving = 0
        BY <2>1, <2>5, PageSaving
      <3> QED
        BY <1>4, <2>2, <2>3, <2>5, <3>1
    <2> QED
      BY <1>6, <2>4, <2>5 DEF CardSaved, SendInitiateAuth
  \* From here on w is the one that is waited for.
  <1>7. ASSUME NEW w \in Workers,
               caller[w].kind \in
                    {"initiate_auth", "process_auth", "finalize"}
        PROVE  /\ \A v \in Workers : v # w => caller[v].kind = "none"
               /\ "processing" \in page.overlays
               /\ frame.state \in {"none", "error"}
               /\ page.saving = 0
    <2>1. w \in Waited /\ w \in Flowing
      BY <1>7 DEF Waited, Flowing
    <2>2. Waited \subseteq {w}
      BY <2>1 DEF OneAtATime
    <2> QED
      BY <2>1, <2>2, Alone DEF OneAtATime
  <1>8. ASSUME NEW w \in Workers, AuthInitiated(w)
        PROVE  OneAtATime'
    <2>0. frame' = frame
      BY <1>8 DEF AuthInitiated
    <2>1. page'.saving = page.saving
      BY <1>0, <1>8, PageSaving DEF AuthInitiated
    <2>2. CASE Await(w, "process_auth", page.current) /\ page' = page
      <3>1. /\ \A v \in Workers : v # w => caller'[v].kind = "none"
            /\ caller'[w].kind = "process_auth"
        BY <1>0, <1>7, <1>8, <2>2 DEF AuthInitiated, AnswerFor, Await
      <3> QED
        BY <1>4, <1>7, <1>8, <2>0, <2>2, <3>1 DEF AuthInitiated, AnswerFor
    <2>3. CASE Over(w)
      <3>1. \A v \in Workers : caller'[v].kind = "none"
        BY <1>0, <1>7, <1>8, <2>3
           DEF AuthInitiated, AnswerFor, Over, NoCaller
      <3> QED
        BY <1>4, <1>7, <1>8, <2>0, <2>1, <3>1 DEF AuthInitiated, AnswerFor
    <2> QED
      BY <1>8, <2>2, <2>3 DEF AuthInitiated, SendProcessAuth
  <1>9. ASSUME NEW w \in Workers, AuthProcessed(w)
        PROVE  OneAtATime'
    <2>0. caller[w].kind = "process_auth"
      BY <1>9 DEF AuthProcessed, AnswerFor
    <2>1. page'.saving = 0
      BY <1>0, <1>7, <1>9, <2>0, PageSaving DEF AuthProcessed
    <2>2. CASE Await(w, "finalize", page.current) /\ frame' = frame
               /\ page' = showProcessing(page)
      <3>1. /\ \A v \in Workers : v # w => caller'[v].kind = "none"
            /\ caller'[w].kind = "finalize"
        BY <1>0, <1>7, <2>0, <2>2 DEF Await
      <3>2. "processing" \in page'.overlays
        BY <1>0, <2>2, PageOverlays
      <3> QED
        BY <1>4, <1>7, <2>0, <2>1, <2>2, <3>1, <3>2
    <2>3. CASE Over(w) /\ frame' = frame
      <3>1. \A v \in Workers : caller'[v].kind = "none"
        BY <1>0, <1>7, <2>0, <2>3 DEF Over, NoCaller
      <3> QED
        BY <1>4, <1>7, <2>0, <2>1, <2>3, <3>1
    <2>4. CASE /\ page' = showChallenge(page)
               /\ frame' =
                    [state |-> "challenge", session |-> caller[w].session]
               /\ caller' = [v \in Workers |->
                    IF v = w THEN NoCaller
                    ELSE IF caller[v].kind = "frame" THEN Gone ELSE caller[v]]
      <3>1. \A v \in Workers : caller'[v].kind = "none"
        BY <1>7, <2>0, <2>4 DEF NoCaller
      <3>2. "challenge" \in page'.overlays
        BY <1>0, <2>4, PageOverlays
      <3> QED
        BY <1>4, <2>1, <3>1, <3>2
    <2> QED
      BY <1>9, <2>2, <2>3, <2>4 DEF AuthProcessed, SendFinalize
  <1>10. ASSUME NEW w \in Workers, Finalized(w)
         PROVE  OneAtATime'
    <2>0. caller[w].kind = "finalize" /\ frame' = frame
      BY <1>10 DEF Finalized, AnswerFor
    <2>1. page'.saving = 0
      BY <1>0, <1>7, <1>10, <2>0, PageSaving DEF Finalized
    <2>2. \A v \in Workers : caller'[v].kind = "none"
      BY <1>0, <1>7, <1>10, <2>0 DEF Finalized, Over, NoCaller
    <2> QED
      BY <1>4, <1>7, <2>0, <2>1, <2>2
  <1>11. ASSUME NEW w \in Workers, ChallengeDone(w)
         PROVE  OneAtATime'
    <2>1. Waited = {} /\ page.saving = 0 /\ "challenge" \in page.overlays
      BY <1>11 DEF ChallengeDone, OneAtATime, Waited, Flowing, CheckoutTypeOK,
                   CallerKinds
    <2>2. /\ \A v \in Workers : v # w => caller'[v].kind = "none"
          /\ caller'[w].kind = "frame"
      BY <1>0, <1>11, <2>1, Alone DEF ChallengeDone, SendFinalize, Await
    <2>3. page' = page /\ frame'.state = "posted"
      BY <1>11 DEF ChallengeDone
    <2> QED
      BY <1>4, <2>1, <2>2, <2>3
  <1>12. ASSUME NEW w \in Workers, FrameAnswered(w)
         PROVE  OneAtATime'
    <2>1. caller[w].kind = "frame"
      BY <1>12 DEF FrameAnswered, AnswerFor
    <2>2. Waited \subseteq {w} /\ frame.state = "posted" /\ page.saving = 0
      BY <2>1 DEF OneAtATime, Waited
    <2>3. \A v \in Workers : caller'[v].kind = "none"
      BY <1>0, <1>12, <2>2, Alone DEF FrameAnswered, Over, NoCaller
    <2>4. frame'.state \in {"completed", "error"}
      BY <1>0, <1>12 DEF FrameAnswered
    <2>5. page'.saving = 0
      BY <1>0, <1>12, <2>2, PageSaving DEF FrameAnswered
    <2> QED
      BY <1>4, <2>3, <2>4, <2>5
  <1> QED
    BY <1>1, <1>2, <1>3, <1>5, <1>6, <1>8, <1>9, <1>10, <1>11, <1>12,
       CalmSteps

-----------------------------------------------------------------------------
(* One payment, of a payer who is not disturbed.                            *)

\* What the page or the frame does next, with handlers at rest.
PageGoesOn(w) ==
    \/ CardSaved(w) \/ AuthInitiated(w) \/ AuthProcessed(w)
    \/ Finalized(w) \/ ChallengeDone(w) \/ FrameAnswered(w)

LEMMA NobodyBusy ==
    ASSUME CheckoutTypeOK, CallersAreTied, OneAtATime,
           FrameLeaves \/ \E w \in Workers : PageGoesOn(w)
    PROVE  \A v \in Workers : ~Busy(v)
  <1>1. ASSUME Waited = {}
        PROVE  \A v \in Workers : ~Busy(v)
    BY <1>1, BusyIsWaited
  <1>2. CASE FrameLeaves
    BY <1>1, <1>2 DEF FrameLeaves, OneAtATime, Waited, Flowing,
                      CheckoutTypeOK, CallerKinds
  <1>3. ASSUME NEW w \in Workers, CardSaved(w) \/ ChallengeDone(w)
        PROVE  \A v \in Workers : ~Busy(v)
    BY <1>1, <1>3 DEF CardSaved, ChallengeDone, OneAtATime, Waited, Flowing,
                      CheckoutTypeOK, CallerKinds
  <1>4. ASSUME NEW w \in Workers,
               \/ AuthInitiated(w) \/ AuthProcessed(w)
               \/ Finalized(w) \/ FrameAnswered(w)
        PROVE  \A v \in Workers : ~Busy(v)
    <2>1. w \in Waited /\ ~Busy(w)
      BY <1>4 DEF AuthInitiated, AuthProcessed, Finalized, FrameAnswered,
                  AnswerFor, Waited
    <2> QED
      BY <2>1, BusyIsWaited DEF OneAtATime
  <1> QED
    BY <1>2, <1>3, <1>4 DEF PageGoesOn

\* How a request begins.
LEMMA SendPcs ==
    ASSUME IInv, NEW w \in Workers, NEW s
    PROVE  /\ InitiateAuth(w, Project, s, Invoice) =>
                worker'[w].pc = "initiate_sent"
           /\ ProcessAuth(w, Project, s, Invoice) =>
                worker'[w].pc \in {"idle", "authenticate"}
           /\ FinalizePayment(w, Project, s, Invoice) =>
                worker'[w].pc \in {"idle", "check_unpaid"}
  <1>0. worker \in [Workers -> WorkerRecord]
    BY DEF IInv, PaymentTypeOK
  <1>1. \A r : Reply(w, Invoice, r) => worker'[w].pc = "idle"
    BY <1>0 DEF Reply, Answered
  <1>2. \A pc, t, au : Request(w, s, Invoice, pc, t, au) => worker'[w].pc = pc
    BY <1>0 DEF Request
  <1> QED
    BY <1>1, <1>2 DEF InitiateAuth, ProcessAuth, FinalizePayment

\* A handler that is at rest and is asked something starts no payment yet,
\* and finalizes only for who waits for a finalize.
LEMMA PageStarts ==
    ASSUME IInv, CheckoutTypeOK, CallersAreTied, OneAtATime,
           FrameLeaves \/ \E w \in Workers : PageGoesOn(w)
    PROVE  \A v \in Workers :
            /\ worker'[v].pc \notin Paying
            /\ Finalizing(v)' => Pays(v)'
  <1>0. caller \in [Workers -> [kind : CallerKinds, session : 0 .. MaxSessions]]
    BY DEF CheckoutTypeOK
  <1>1. CASE worker' = worker
    BY <1>1, NobodyBusy DEF Busy, Paying, Finalizing
  <1>2. ASSUME NEW w \in Workers, NEW s, NEW kind, Await(w, kind, s),
               \/ InitiateAuth(w, Project, s, Invoice)
               \/ ProcessAuth(w, Project, s, Invoice)
               \/ /\ FinalizePayment(w, Project, s, Invoice)
                  /\ kind \in {"finalize", "frame"}
        PROVE  \A v \in Workers :
                /\ worker'[v].pc \notin Paying
                /\ Finalizing(v)' => Pays(v)'
    <2>1. \A v \in Workers : v # w => worker'[v] = worker[v]
      BY <1>2, SendShape
    <2>2. \A v \in Workers : v # w => worker'[v].pc = "idle"
      BY <2>1, NobodyBusy DEF Busy
    <2>3. caller'[w].kind = kind
      BY <1>0, <1>2 DEF Await
    <2>4. /\ worker'[w].pc \in
                {"idle", "initiate_sent", "authenticate", "check_unpaid"}
          /\ worker'[w].pc = "check_unpaid" => kind \in {"finalize", "frame"}
      BY <1>2, SendPcs
    <2> QED
      BY <2>2, <2>3, <2>4 DEF Paying, Finalizing, Pays
  <1>3. ASSUME NEW w \in Workers, PageGoesOn(w)
        PROVE  \/ worker' = worker
               \/ \E s, kind :
                    /\ Await(w, kind, s)
                    /\ \/ InitiateAuth(w, Project, s, Invoice)
                       \/ ProcessAuth(w, Project, s, Invoice)
                       \/ /\ FinalizePayment(w, Project, s, Invoice)
                          /\ kind \in {"finalize", "frame"}
    BY <1>3 DEF PageGoesOn, CardSaved, AuthInitiated, AuthProcessed,
                Finalized, ChallengeDone, FrameAnswered, SendInitiateAuth,
                SendProcessAuth, SendFinalize, paymentVars
  <1>4. FrameLeaves => worker' = worker
    BY DEF FrameLeaves, Load, paymentVars
  <1> QED
    BY <1>1, <1>2, <1>3, <1>4

\* What keeps the payer from another payment goes on doing so.
LEMMA StillOver ==
    ASSUME IInv, CheckoutTypeOK, CallersAreTied, OneAtATime, PaymentIsOver,
           invoice[Invoice] = "paid" => invoice'[Invoice] = "paid",
           FrameLeaves \/ \E w \in Workers : PageGoesOn(w)
    PROVE  PaymentIsOver'
  <1>0. /\ page \in PageRecord
        /\ frame \in [state : FrameStates, session : 0 .. MaxSessions]
        /\ caller \in [Workers ->
                [kind : CallerKinds, session : 0 .. MaxSessions]]
    BY DEF CheckoutTypeOK
  <1>1. CASE invoice[Invoice] = "paid"
    BY <1>1 DEF PaymentIsOver
  <1>2. \A w \in Workers : ~PayOwner(w)
    BY NobodyBusy DEF PayOwner, Busy
  <1> DEFINE answered == \E w \in Workers :
                Pays(w) /\ ~Busy(w) /\ worker[w].reply # "declined"
             stuck == /\ Waited = {} /\ page.saving = 0
                      /\ frame.state \in {"none", "error"}
                      /\ page.overlays \cap {"challenge", "success"} # {}
  <1>3. invoice[Invoice] # "paid" => answered \/ stuck
    BY <1>2 DEF PaymentIsOver
  <1>4. answered => Waited # {}
    BY DEF Pays, Waited
  <1> HIDE DEF answered
  <1>5. ASSUME Waited = {}, page.saving # 0 \/ frame.state \notin {"none", "error"}
        PROVE  invoice[Invoice] = "paid"
    BY <1>3, <1>4, <1>5
  <1>6. CASE FrameLeaves
    BY <1>1, <1>5, <1>6 DEF FrameLeaves, OneAtATime, Waited, Flowing,
                            CheckoutTypeOK, CallerKinds
  <1>7. ASSUME NEW w \in Workers, CardSaved(w) \/ ChallengeDone(w)
        PROVE  PaymentIsOver'
    BY <1>1, <1>5, <1>7 DEF CardSaved, ChallengeDone, OneAtATime, Waited,
                            Flowing, CheckoutTypeOK, CallerKinds
  <1>8. ASSUME NEW w \in Workers, w \in Waited
        PROVE  /\ Waited = {w}
               /\ invoice[Invoice] # "paid" =>
                    Pays(w) /\ worker[w].reply # "declined"
    <2>1. Waited = {w}
      BY <1>8 DEF OneAtATime
    <2>2. answered => Pays(w) /\ worker[w].reply # "declined"
      BY <2>1 DEF answered, Pays, Waited
    <2> QED
      BY <1>3, <2>1, <2>2
  <1>9. ASSUME NEW w \in Workers, AuthInitiated(w) \/ AuthProcessed(w)
        PROVE  PaymentIsOver'
    <2>1. w \in Waited /\ ~Pays(w)
      BY <1>9 DEF AuthInitiated, AuthProcessed, AnswerFor, Waited, Pays
    <2> QED
      BY <1>1, <1>8, <2>1
  <1>10. ASSUME NEW w \in Workers, Finalized(w)
         PROVE  PaymentIsOver'
    <2>1. caller[w].kind = "finalize" /\ frame' = frame
      BY <1>10 DEF Finalized, AnswerFor
    <2>2. w \in Waited /\ w \in Flowing
      BY <2>1 DEF Waited, Flowing
    <2>3. frame.state \in {"none", "error"} /\ page.saving = 0
      BY <2>2 DEF OneAtATime
    <2>4. Waited' = {}
      BY <1>0, <1>8, <1>10, <2>2 DEF Finalized, Over, NoCaller, Waited
    <2>5. "success" \in page'.overlays /\ page'.saving = page.saving
      BY <1>0, <1>10, PageOverlays, PageSaving DEF Finalized
    <2> QED
      BY <2>1, <2>3, <2>4, <2>5 DEF PaymentIsOver
  <1>11. ASSUME NEW w \in Workers, FrameAnswered(w)
         PROVE  PaymentIsOver'
    <2>1. caller[w].kind = "frame" /\ w \in Waited
      BY <1>11 DEF FrameAnswered, AnswerFor, Waited
    <2>2. CASE worker[w].reply = "success"
      <3>1. invoice[Invoice] = "paid"
        BY <2>1, <2>2 DEF CallersAreTied, IInv, SuccessReplyMeansPaid
      <3> QED
        BY <1>1, <3>1
    <2>3. CASE worker[w].reply = "declined"
      BY <1>1, <1>8, <2>1, <2>3
    <2>4. CASE worker[w].reply \notin {"success", "declined"}
      <3>1. frame.state = "posted"
        BY <2>1 DEF OneAtATime
      <3>2. page.saving = 0 /\ "challenge" \in page.overlays
        BY <3>1 DEF OneAtATime
      <3>3. Waited' = {}
        BY <1>0, <1>8, <1>11, <2>1 DEF FrameAnswered, Over, NoCaller, Waited
      <3>4. page' = page /\ frame'.state = "error"
        BY <1>0, <1>11, <2>4 DEF FrameAnswered
      <3> QED
        BY <3>2, <3>3, <3>4 DEF PaymentIsOver
    <2> QED
      BY <2>2, <2>3, <2>4
  <1> QED
    BY <1>6, <1>7, <1>9, <1>10, <1>11 DEF PageGoesOn

\* A handler at work takes the payment further, or to its answer, which is not
\* that of a decline when it fails.
LEMMA WorkPays ==
    ASSUME IInv, CheckoutTypeOK, CallersAreTied, OneAtATime, OnePayment,
           [PaymentNext]_paymentVars, NEW w \in Workers, Work(w) \/ Fail(w)
    PROVE  OnePayment'
  <1>0. /\ Handle(w) \/ Abort(w)
        /\ Busy(w)
        /\ \A v \in Workers : v # w => worker'[v] = worker[v]
        /\ caller' = caller /\ page' = page /\ frame' = frame
    BY HandlerShape DEF Work, Fail, browserVars
  <1>1. Waited = {w}
    BY <1>0, BusyIsWaited DEF OneAtATime
  <1>2. \A v \in Workers : v # w => ~Busy(v)
    BY <1>1, BusyIsWaited
  <1>3. worker[w].invoice = Invoice
    BY <1>0 DEF CallersAreTied
  <1>4. \A v \in Workers : Finalizing(v)' => Finalizing(v)
    <2> SUFFICES ASSUME NEW v \in Workers, Finalizing(v)'
                 PROVE  Finalizing(v)
      OBVIOUS
    <2>1. CASE worker'[v] = worker[v]
      BY <2>1 DEF Finalizing
    <2>2. CASE worker'[v].pc = "idle"
      BY <2>2 DEF Finalizing
    <2>3. CASE Continues(v)
      BY <2>3 DEF Continues
    <2> QED
      BY <1>0, <2>1, <2>2, <2>3, HandlerMoves
  <1>5. \A v \in Workers : Finalizing(v)' => Pays(v)'
    BY <1>0, <1>4 DEF OnePayment, Pays
  <1>6. ASSUME NEW t \in OpenPays', t \notin OpenPays
        PROVE  /\ OpenPays = {}
               /\ OpenPays' \subseteq {worker'[w].tx}
               /\ worker'[w].pc = "pay_sent"
    <2>1. PICK u \in Workers : /\ worker[u].pc = "send_pay"
                               /\ worker'[u].pc = "pay_sent"
                               /\ worker'[u].tx = t
      BY <1>6, OpenPaysStep
    <2>2. u = w
      BY <1>2, <2>1 DEF Busy
    <2>3. OpenPays = {}
      BY <2>1 DEF OnePayment
    <2>4. \A x \in OpenPays' : x = Len(tx) + 1
      BY <2>3, OpenPaysStep
    <2> QED
      BY <2>1, <2>2, <2>3, <2>4
  <1>7. \A t, u \in OpenPays' : t = u
    <2>1. CASE OpenPays' \subseteq OpenPays
      BY <2>1 DEF OnePayment
    <2>2. CASE ~ OpenPays' \subseteq OpenPays
      BY <1>6, <2>2
    <2> QED
      BY <2>1, <2>2
  <1>8. ASSUME OpenPays' \subseteq OpenPays, OpenPays' # {}
        PROVE  PaymentIsOver'
    <2>1. PaymentIsOver
      BY <1>8 DEF OnePayment
    <2>2. CASE invoice[Invoice] = "paid"
      BY <2>2, StepKeeps, CheckoutAssumption
         DEF Kept, CheckoutAssumption, PaymentIsOver
    <2>3. CASE PayOwner(w) /\ OpenPays \subseteq {worker[w].tx}
      <3>1. CASE PayOwner(w)' /\ worker'[w].tx = worker[w].tx
        <4>1. OpenPays' \subseteq {worker'[w].tx}
          BY <1>8, <2>3, <3>1
        <4> QED
          BY <3>1, <4>1 DEF PaymentIsOver
      <3>2. CASE invoice'[worker[w].invoice] = "paid"
        BY <1>3, <3>2 DEF PaymentIsOver
      <3>3. CASE worker'[w].pc = "idle" /\ worker'[w].reply # "declined"
        <4>1. Pays(w)
          BY <2>3 DEF OnePayment, PayOwner, Finalizing
        <4>2. Pays(w)' /\ ~Busy(w)'
          BY <1>0, <3>3, <4>1 DEF Pays, Busy
        <4> QED
          BY <3>3, <4>2 DEF PaymentIsOver
      <3>4. CASE call'[worker[w].tx] = "DECLINED"
        <4>1. \A t \in OpenPays' : t = worker[w].tx
          BY <1>8, <2>3
        <4>2. \A t \in OpenPays' : call'[t] # "DECLINED"
          BY DEF OpenPays
        <4> QED
          BY <1>8, <3>4, <4>1, <4>2
      <3> QED
        BY <1>0, <2>3, <3>1, <3>2, <3>3, <3>4, PayOwnerMoves
    <2>4. \A v \in Workers : PayOwner(v) => v = w
      BY <1>2 DEF PayOwner, Busy
    <2>5. \A v \in Workers : Pays(v) => Busy(v)
      BY <1>0, <1>1 DEF Pays, Waited
    <2> QED
      BY <1>1, <2>1, <2>2, <2>3, <2>4, <2>5 DEF PaymentIsOver
  <1>9. OpenPays' # {} => PaymentIsOver'
    <2>1. CASE OpenPays' \subseteq OpenPays
      BY <1>8, <2>1
    <2>2. CASE ~ OpenPays' \subseteq OpenPays
      <3>1. /\ OpenPays' \subseteq {worker'[w].tx}
            /\ worker'[w].pc = "pay_sent"
        BY <1>6, <2>2
      <3>2. PayOwner(w)'
        BY <3>1 DEF PayOwner
      <3> QED
        BY <3>1, <3>2 DEF PaymentIsOver
    <2> QED
      BY <2>1, <2>2
  <1>10. ASSUME OpenPays' # {}, NEW v \in Workers, worker'[v].pc \in Paying
         PROVE  FALSE
    <2>1. v = w
      BY <1>0, <1>2, <1>10 DEF Busy, Paying
    <2>2. OpenPays' \subseteq OpenPays
      BY <1>6, <1>10, <2>1 DEF Paying
    <2>3. /\ PaymentIsOver
          /\ worker[w].pc \notin Paying
      BY <1>10, <2>2 DEF OnePayment, Paying
    <2>4. /\ worker[w].pc = "check_unpaid"
          /\ invoice[Invoice] # "paid"
      BY <1>0, <1>3, <1>10, <2>1, <2>3, PayingMoves
    <2>5. \A u \in Workers : ~PayOwner(u)
      BY <1>2, <2>4 DEF PayOwner, Busy
    <2>6. \A u \in Workers : Pays(u) => Busy(u)
      BY <1>0, <1>1 DEF Pays, Waited
    <2> QED
      BY <1>1, <2>3, <2>4, <2>5, <2>6 DEF PaymentIsOver
  <1> QED
    BY <1>5, <1>7, <1>9, <1>10 DEF OnePayment, Paying

LEMMA OnePaymentStep ==
    ASSUME IInv, CheckoutTypeOK, CallersAreTied, OneAtATime, OnePayment,
           [PaymentNext]_paymentVars, [Next]_vars, disturbed' = 0
    PROVE  OnePayment'
  <1>1. ASSUME \A t \in OpenPays' : t \in OpenPays,
               OpenPays # {} => PaymentIsOver',
               \A v \in Workers :
                    /\ worker'[v].pc \in Paying => worker[v].pc \in Paying
                    /\ Finalizing(v)' => Pays(v)'
        PROVE  OnePayment'
    BY <1>1 DEF OnePayment, Paying
  <1>2. ASSUME \A w \in Workers :
            worker[w].pc = "send_pay" => worker'[w].pc # "pay_sent"
        PROVE  \A t \in OpenPays' : t \in OpenPays
    BY <1>2, OpenPaysStep
  <1>3. CASE Quiet \/ Pay
    <2>1. worker' = worker /\ caller' = caller
      BY <1>3 DEF Quiet, Pay, paymentVars
    <2>2. \A t \in OpenPays' : t \in OpenPays
      BY <1>2, <2>1
    <2>3. invoice[Invoice] = "paid" => invoice'[Invoice] = "paid"
      BY StepKeeps, CheckoutAssumption DEF Kept, CheckoutAssumption
    <2>4. Quiet => frame' = frame /\ page'.overlays = page.overlays
                    /\ (page.saving = 0 => page'.saving = 0)
      BY DEF Quiet
    <2>5. Pay => page.overlays = {}
      BY DEF Pay, Clickable
    <2>6. ASSUME OpenPays # {}
          PROVE  PaymentIsOver'
      <3>1. PaymentIsOver
        BY <2>6 DEF OnePayment
      <3>2. ASSUME NEW w \in Workers, PayOwner(w),
                   OpenPays \subseteq {worker[w].tx}
            PROVE  PaymentIsOver'
        <4>1. PayOwner(w)' /\ OpenPays' \subseteq {worker'[w].tx}
          BY <2>1, <2>2, <3>2 DEF PayOwner
        <4> QED
          BY <4>1 DEF PaymentIsOver
      <3>3. ASSUME NEW w \in Workers, Pays(w), ~Busy(w),
                   worker[w].reply # "declined"
            PROVE  PaymentIsOver'
        BY <2>1, <3>3 DEF PaymentIsOver, Pays, Busy
      <3>4. CASE /\ Waited = {} /\ page.saving = 0
                 /\ frame.state \in {"none", "error"}
                 /\ page.overlays \cap {"challenge", "success"} # {}
        BY <1>3, <2>1, <2>4, <2>5, <3>4 DEF PaymentIsOver, Waited
      <3> QED
        BY <2>3, <3>1, <3>2, <3>3, <3>4 DEF PaymentIsOver
    <2> QED
      BY <1>1, <2>1, <2>2, <2>6 DEF OnePayment, Pays, Finalizing
  <1>4. CASE FrameLeaves \/ \E w \in Workers : PageGoesOn(w)
    <2>1. \A v \in Workers : ~Busy(v)
      BY <1>4, NobodyBusy
    <2>2. \A t \in OpenPays' : t \in OpenPays
      BY <1>2, <2>1 DEF Busy
    <2>3. invoice[Invoice] = "paid" => invoice'[Invoice] = "paid"
      BY StepKeeps, CheckoutAssumption DEF Kept, CheckoutAssumption
    <2>4. OpenPays # {} => PaymentIsOver'
      BY <1>4, <2>3, StillOver DEF OnePayment
    <2> QED
      BY <1>1, <1>4, <2>2, <2>4, PageStarts
  <1> QED
    BY <1>3, <1>4, CalmSteps, WorkPays DEF PageGoesOn

-----------------------------------------------------------------------------
(* Theorems. *)

LEMMA CheckoutInit == Init => CheckoutInv
  <1> SUFFICES ASSUME Init
               PROVE  CheckoutInv
    OBVIOUS
  <1>1. /\ session = <<>> /\ tx = <<>> /\ MaxSessions \in Nat
        /\ \A w \in Workers : ~Busy(w)
    BY PaymentAssumption
       DEF PaymentAssumption, Init, PaymentInit, TablesInit, StoreInit, Busy
  <1>2. /\ page \in PageRecord /\ page.overlays = {} /\ page.saving = 0
    BY PageLoads DEF Init
  <1>3. CheckoutTypeOK
    <2>1. NoInitiate \in [1 .. MaxSelects ->
            [pc : InitiatePcs, session : 0 .. MaxSessions]]
      BY <1>1 DEF NoInitiate, InitiatePcs
    <2>2. NoCaller \in [kind : CallerKinds, session : 0 .. MaxSessions]
      BY <1>1 DEF NoCaller, CallerKinds
    <2>3. NoFrame \in [state : FrameStates, session : 0 .. MaxSessions]
      BY <1>1 DEF NoFrame, FrameStates
    <2>4. NoHistory \in HistoryRecord
      BY DEF NoHistory, HistoryRecord
    <2>5. 0 \in 0 .. MaxPays /\ 0 \in 0 .. MaxDisturbances
      BY CheckoutAssumption DEF CheckoutAssumption
    <2> QED
      BY <1>2, <2>1, <2>2, <2>3, <2>4, <2>5 DEF Init, CheckoutTypeOK
  <1>4. \A w \in Workers : caller[w].kind = "none"
    BY DEF Init, NoCaller
  <1>5. CallersAreTied
    BY <1>1, <1>4 DEF CallersAreTied
  <1>6. ReportedSuccessMeansPaid /\ NobodyIsLeftWaiting
    BY <1>2 DEF Init, NoHistory, ReportedSuccessMeansPaid,
                NobodyIsLeftWaiting
  <1>7. OneAtATime
    BY <1>2, <1>4 DEF Init, NoFrame, OneAtATime, Waited, Flowing
  <1>8. OpenPays = {} /\ \A w \in Workers : ~Finalizing(w)
    BY <1>1 DEF OpenPays, Finalizing, Busy
  <1>9. OnePayment
    BY <1>8 DEF OnePayment
  <1> QED
    BY <1>1, <1>3, <1>5, <1>6, <1>7, <1>9 DEF CheckoutInv

LEMMA CheckoutStep ==
    ASSUME IInv, CheckoutInv, [Next]_vars
    PROVE  IInv' /\ CheckoutInv'
  <1>1. [PaymentNext]_paymentVars
    BY StepServes DEF CheckoutInv
  <1>2. IInv'
    BY <1>1, InvStep
  <1>3. CheckoutTypeOK' /\ CallersAreTied' /\ NobodyIsLeftWaiting'
    BY TypesStep, TiedStep, WaitingStep DEF CheckoutInv
  <1>4. Len(session') <= MaxSessions
    BY <1>1, RoomStep DEF CheckoutInv
  <1>5. ReportedSuccessMeansPaid'
    <2>1. invoice[Invoice] = "paid" => invoice'[Invoice] = "paid"
      BY <1>1, StepKeeps, CheckoutAssumption DEF Kept, CheckoutAssumption
    <2> QED
      BY <2>1, ReportStep DEF CheckoutInv
  <1>6. disturbed' = 0 => OneAtATime' /\ OnePayment'
    BY <1>1, CalmBefore, OneAtATimeStep, OnePaymentStep DEF CheckoutInv
  <1> QED
    BY <1>2, <1>3, <1>4, <1>5, <1>6 DEF CheckoutInv

\* What handlers, page, frame and payer know of each other, in every
\* reachable state (checkout.templ:598-838, service.go:460-611).
THEOREM CheckoutInductive == Spec => [](IInv /\ CheckoutInv)
  <1>1. Init => IInv /\ CheckoutInv
    BY InvInit, CheckoutInit DEF Init
  <1>2. IInv /\ CheckoutInv /\ [Next]_vars => (IInv /\ CheckoutInv)'
    BY CheckoutStep
  <1> QED
    BY <1>1, <1>2, PTL DEF Spec

\* A browser is a client of the payment service and nothing else: whatever
\* the page, the frame and the payer do, the server sees requests it may see
\* (service.go:223-611, checkout.templ:754-838).
THEOREM BrowserServesPayment == Spec => PaymentSpec
  <1>1. Init => PaymentInit
    BY DEF Init
  <1>2. IInv /\ CheckoutInv /\ [Next]_vars => [PaymentNext]_paymentVars
    BY StepServes DEF CheckoutInv
  <1> QED
    BY <1>1, <1>2, CheckoutInductive, PTL DEF Spec, PaymentSpec

\* A success the completion page reports is one of a paid invoice, whatever
\* flows, frames and reloads came before (completion.templ:81-87,
\* checkout.templ:828-838).
THEOREM ReportsAreTrue == Spec => []ReportedSuccessMeansPaid
  <1>1. CheckoutInv => ReportedSuccessMeansPaid
    BY DEF CheckoutInv
  <1> QED
    BY <1>1, CheckoutInductive, PTL

\* The page only says "processing" while a request is out that will end it,
\* or after an error it does not look at (checkout.templ:754-826).
THEOREM WaitingIsForSomething == Spec => []NobodyIsLeftWaiting
  <1>1. CheckoutInv => NobodyIsLeftWaiting
    BY DEF CheckoutInv
  <1> QED
    BY <1>1, CheckoutInductive, PTL

\* A payer who is not disturbed can press nothing while a request of the page
\* or of the frame is out, and no other is (checkout.templ:598-619, 641-645,
\* 754-826).
THEOREM OneFlowAtATime == Spec => []FlowsAreCovered
  <1>1. IInv /\ CheckoutInv => FlowsAreCovered
    <2> SUFFICES ASSUME CheckoutTypeOK, OneAtATime, Waited # {}
                 PROVE  /\ page.overlays \cap {"processing", "challenge"} # {}
                        /\ Cardinality(Waited) = 1
      BY DEF CheckoutInv, FlowsAreCovered
    <2>1. PICK w \in Workers : w \in Waited
      BY DEF Waited
    <2>2. Waited = {w}
      BY <2>1 DEF OneAtATime
    <2>3. w \in Flowing \/ caller[w].kind = "frame"
      BY <2>1 DEF CheckoutTypeOK, CallerKinds, Flowing, Waited
    <2>4. page.overlays \cap {"processing", "challenge"} # {}
      BY <2>3 DEF OneAtATime
    <2> QED
      BY <2>2, <2>4, FS_Singleton
  <1> QED
    BY <1>1, CheckoutInductive, PTL

\* A payer who is not disturbed is charged once at most, for any number of
\* handlers, sessions, options and presses of the button, though the server
\* gives up calls that are then approved (checkout.templ:808-838,
\* completion.templ:89, service.go:493-558).
THEOREM ChargedOnce == Spec => []CalmPayerIsChargedOnce
  <1>1. IInv /\ CheckoutInv => CalmPayerIsChargedOnce
    <2> SUFFICES ASSUME IInv, OnePayment,
                        NEW t \in DOMAIN tx, call[t] = "APPROVED",
                        NEW u \in DOMAIN tx, call[u] = "APPROVED"
                 PROVE  t = u
      BY DEF CheckoutInv, CalmPayerIsChargedOnce, NoDoubleCharge
    <2>1. \A x \in DOMAIN tx : call[x] = "APPROVED" => tx[x].type = "pay"
      BY DEF IInv, AnswersFitCalls, Answers
    <2>2. t \in OpenPays /\ u \in OpenPays
      BY <2>1 DEF OpenPays
    <2> QED
      BY <2>2 DEF OnePayment
  <1> QED
    BY <1>1, CheckoutInductive, PTL
=============================================================================
