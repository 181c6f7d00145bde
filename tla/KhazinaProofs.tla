---------------------------- MODULE KhazinaProofs ----------------------------
(* Theorems about Khazina: InitiateSession and the payment handlers, served *)
(* by one process over one store, see each other only as their own modules  *)
(* allow, so that what holds of each apart holds of the server.             *)
EXTENDS Khazina, SessionsProofs, AuthProofs, LedgerProofs, FiniteSetTheorems

-----------------------------------------------------------------------------
(* What a step of the server is to InitiateSession. *)

LEMMA WorkersSeenByOpeners ==
    ASSUME KhazinaInv, NEW w \in Workers, ArriveGiven(w) \/ WorkerStep(w)
    PROVE  [SessionsNext]_sessionsVars
  <1>1. CASE ArriveGiven(w)
    <2>1. UNCHANGED <<storeVars, opener, ordered>>
      BY <1>1
         DEF ArriveGiven, RefuseRequest, InitiateAuth, ProcessAuth,
             FinalizePayment, tables, storeVars
    <2> QED
      BY <2>1 DEF sessionsVars
  <1>2. CASE WorkerStep(w)
    <2>1. UNCHANGED <<opener, ordered>>
      BY <1>2 DEF WorkerStep
    <2>2. CASE SettleCommit(w)
      <3>1. /\ worker[w].invoice \in Invoices
            /\ invoice[worker[w].invoice] # "paid"
        BY <2>2
           DEF KhazinaInv, IInv, PaymentTypeOK, WorkerRecord, SettleCommit,
               SettlersAreAlone, PaySlotFree, PaidIffSettled
      <3>2. InvoiceSettles(worker[w].invoice)
        BY <2>1, <2>2, <3>1 DEF SettleCommit, InvoiceSettles
      <3> QED
        BY <3>1, <3>2 DEF SessionsNext
    <2>3. CASE ~SettleCommit(w)
      <3>1. UNCHANGED storeVars
        BY <1>2, <2>3
           DEF WorkerStep, Handle, Abort, FinishInitiateAuth, SendAuthenticate,
               FinishProcessAuth, CheckUnpaid, CheckExisting, FindAuth, SendPay,
               Send, ReceiveApproval, SettleWrite, RecordDecline, Timeout,
               tables, storeVars
      <3> QED
        BY <2>1, <3>1 DEF sessionsVars
    <2> QED
      BY <2>2, <2>3
  <1> QED
    BY <1>1, <1>2

\* A stop with no session request in flight is none to InitiateSession.
LEMMA CrashSeenByOpeners ==
    ASSUME KhazinaInv, ServerCrash
    PROVE  [SessionsNext]_sessionsVars
  <1>1. UNCHANGED <<storeVars, ordered>>
    BY DEF ServerCrash, tables
  <1>2. CASE \E o \in Openers : InFlight(o)
    BY <1>1, <1>2, KhazinaAssumption
       DEF ServerCrash, SessionsNext, CrashOpeners, KhazinaAssumption
  <1>3. CASE ~ \E o \in Openers : InFlight(o)
    <2>1. opener \in [Openers -> Requests]
      BY DEF KhazinaInv, SessionsInv, SessionsTypeOK, Requests
    <2>2. opener' = opener
      BY <1>3, <2>1 DEF ServerCrash, LoseOpeners
    <2> QED
      BY <1>1, <2>2 DEF sessionsVars
  <1> QED
    BY <1>2, <1>3

LEMMA SeenByOpeners ==
    ASSUME KhazinaInv, [Next]_vars
    PROVE  [SessionsNext]_sessionsVars
  <1>1. CASE \E o \in Openers : OpenerStep(o)
    BY <1>1 DEF OpenerStep, SessionsNext
  <1>2. CASE World
    BY <1>2 DEF World, Environment, GatewayAnswers, Expire, sessionsVars, tables
  <1>3. CASE UNCHANGED vars
    BY <1>3 DEF vars, sessionsVars, tables
  <1> QED
    BY <1>1, <1>2, <1>3, WorkersSeenByOpeners, CrashSeenByOpeners DEF Next

-----------------------------------------------------------------------------
(* What a step of the server is to the payment handlers. *)

LEMMA SessionsFit ==
    ASSUME KhazinaInv
    PROVE  /\ Len(session) \in Nat
           /\ DOMAIN session = 1 .. Len(session)
           /\ Len(session) <= MaxSessions
           /\ \A o \in Openers : MayOpen(o) => Len(session) < MaxSessions
  <1> DEFINE A == {o \in Openers : MayOpen(o)}
  <1>1. session \in Seq(SessionRow)
    BY DEF KhazinaInv, SessionsInv, SessionsTypeOK, StoreTypeOK
  <1>2. IsFiniteSet(A) /\ Cardinality(A) \in Nat
    BY KhazinaAssumption, FS_Subset, FS_CardinalityType DEF KhazinaAssumption
  <1>3. Cardinality(Openers) \in Nat
    BY KhazinaAssumption, FS_CardinalityType DEF KhazinaAssumption
  <1>4. Len(session) + Cardinality(A) <= MaxSessions /\ MaxSessions \in Nat
    BY <1>1, <1>2, <1>3, KhazinaAssumption, PaymentAssumption
       DEF KhazinaInv, RoomForSessions, KhazinaAssumption, PaymentAssumption
  <1>5. ASSUME NEW o \in Openers, MayOpen(o)
        PROVE  Cardinality(A) # 0
    <2>1. o \in A
      BY <1>5
    <2> HIDE DEF A
    <2> QED
      BY <1>2, <2>1, FS_EmptySet
  <1> HIDE DEF A
  <1> QED
    BY <1>1, <1>2, <1>4, <1>5

\* A session that is inserted has an invoice and an account of one project.
LEMMA OpenersSeenByWorkers ==
    ASSUME KhazinaInv, NEW o \in Openers, OpenerStep(o)
    PROVE  [PaymentNext]_paymentVars
  <1>1. opener[o] \in Requests /\ Checked(opener[o])
    BY InvParts DEF KhazinaInv
  <1>2. UNCHANGED <<tx, worker, call, expired>>
    BY DEF OpenerStep
  <1>3. CASE InsertSession(o) /\ session' # session
    <2>1. CreatePaymentSession(opener[o].invoice,
                InvoiceProject[opener[o].invoice],
                opener[o].account, opener[o].key)
      BY <1>3 DEF InsertSession
    <2>2. /\ IdempotencyKeyFree(opener[o].invoice, opener[o].key)
          /\ invoice' = invoice
          /\ opener[o].pc = "insert"
      BY <1>3 DEF InsertSession
    <2>3. AccountProject[opener[o].account] = InvoiceProject[opener[o].invoice]
      BY <1>1, <2>2 DEF Checked
    <2>4. Len(session) < MaxSessions
      BY <2>2, SessionsFit DEF MayOpen
    <2>5. OpenSession(opener[o].invoice, opener[o].account, opener[o].key)
      BY <1>2, <2>1, <2>2, <2>3, <2>4 DEF OpenSession
    <2>6. /\ opener[o].invoice \in Invoices
          /\ opener[o].account \in Accounts
          /\ opener[o].key \in Keys \cup {NoKey}
      BY <1>1 DEF Requests
    <2> QED
      BY <2>5, <2>6 DEF PaymentNext, Open
  <1>4. CASE ~(InsertSession(o) /\ session' # session)
    <2>1. UNCHANGED storeVars
      BY <1>4
         DEF OpenerStep, HandleOpen, AbortOpen, ReadInvoice, LookupKey,
             CreateGatewaySession, InsertSession, UpdateGatewaySession,
             storeVars
    <2> QED
      BY <1>2, <2>1 DEF paymentVars, tables
  <1> QED
    BY <1>3, <1>4

LEMMA CrashSeenByWorkers ==
    ASSUME KhazinaInv, ServerCrash
    PROVE  [PaymentNext]_paymentVars
  <1>1. UNCHANGED <<tables, call, expired>>
    BY DEF ServerCrash
  <1>2. CASE \E w \in Workers : Busy(w)
    BY <1>1, <1>2 DEF ServerCrash, PaymentNext, Crash
  <1>3. CASE ~ \E w \in Workers : Busy(w)
    <2>1. worker \in [Workers -> WorkerRecord]
      BY DEF KhazinaInv, IInv, PaymentTypeOK
    <2>2. worker' = worker
      BY <1>3, <2>1 DEF ServerCrash, LoseWorkers
    <2> QED
      BY <1>1, <2>2 DEF paymentVars
  <1> QED
    BY <1>2, <1>3

LEMMA ArriveGivenArrives ==
    ASSUME KhazinaInv, NEW w \in Workers, ArriveGiven(w)
    PROVE  Arrive(w)
  <1> PICK s \in DOMAIN session, p \in Projects, i \in Invoices :
            \/ RefuseRequest(w, p, s, i)
            \/ InitiateAuth(w, p, s, i)
            \/ ProcessAuth(w, p, s, i)
            \/ FinalizePayment(w, p, s, i)
    BY DEF ArriveGiven
  <1>1. s \in 1 .. MaxSessions
    BY SessionsFit, PaymentAssumption DEF PaymentAssumption
  <1> QED
    BY <1>1 DEF Arrive

LEMMA SeenByWorkers ==
    ASSUME KhazinaInv, [Next]_vars
    PROVE  [PaymentNext]_paymentVars
  <1>1. CASE \E w \in Workers : ArriveGiven(w) \/ WorkerStep(w)
    BY <1>1, ArriveGivenArrives DEF WorkerStep, PaymentNext, Serve
  <1>2. CASE World
    BY <1>2 DEF World, PaymentNext
  <1>3. CASE UNCHANGED vars
    BY <1>3 DEF vars, paymentVars
  <1> QED
    BY <1>1, <1>2, <1>3, OpenersSeenByWorkers, CrashSeenByWorkers DEF Next

-----------------------------------------------------------------------------
(* The invariant. *)

\* A request that has inserted its session, or is over, inserts none again.
LEMMA OpenersMoveOn ==
    ASSUME KhazinaInv, [Next]_vars, NEW q \in Openers, MayOpen(q)'
    PROVE  MayOpen(q)
  <1>1. opener \in [Openers -> Requests]
    BY DEF KhazinaInv, SessionsInv, SessionsTypeOK, Requests
  <1>2. ASSUME NEW o \in Openers, OpenerStep(o)
        PROVE  MayOpen(q)
    <2>1. CASE q # o
      <3>1. opener'[q] = opener[q]
        BY <1>2, <2>1, RequestMoves DEF OpenerStep, KhazinaInv
      <3> QED
        BY <3>1 DEF MayOpen
    <2>2. CASE q = o
      BY <1>1, <1>2, <2>2
         DEF OpenerStep, HandleOpen, AbortOpen, ReadInvoice, LookupKey,
             CreateGatewaySession, InsertSession, UpdateGatewaySession,
             GoOn, Refuse, ReplySession, MayOpen, Requests
    <2> QED
      BY <2>1, <2>2
  <1>3. CASE ServerCrash
    BY <1>1, <1>3 DEF ServerCrash, LoseOpeners, InFlight, MayOpen, Requests
  <1>4. CASE opener' = opener
    BY <1>4 DEF MayOpen
  <1> QED
    BY <1>2, <1>3, <1>4
       DEF Next, ArriveGiven, WorkerStep, World, vars

\* Only a request that had inserted none yet inserts a session.
LEMMA WhoInserts ==
    ASSUME KhazinaInv, [Next]_vars, session' # session
    PROVE  \E o \in Openers :
                /\ MayOpen(o) /\ ~MayOpen(o)'
                /\ \E row \in SessionRow :
                        session' = Append(session, row)
  <1>1. PICK o \in Openers : OpenerStep(o)
    <2>1. CASE \E w \in Workers : ArriveGiven(w) \/ WorkerStep(w)
      BY <2>1
         DEF ArriveGiven, RefuseRequest, InitiateAuth, ProcessAuth,
             FinalizePayment, WorkerStep, Handle, Abort, FinishInitiateAuth,
             SendAuthenticate, FinishProcessAuth, CheckUnpaid, CheckExisting,
             FindAuth, SendPay, Send, ReceiveApproval, SettleWrite,
             SettleCommit, RecordDecline, Timeout, tables, storeVars
    <2>2. CASE World \/ ServerCrash \/ UNCHANGED vars
      BY <2>2 DEF World, Environment, GatewayAnswers, Expire, ServerCrash, vars,
                  tables, storeVars
    <2> QED
      BY <2>1, <2>2 DEF Next
  <1>2. opener \in [Openers -> Requests]
    BY DEF KhazinaInv, SessionsInv, SessionsTypeOK, Requests
  <1>3. InsertSession(o)
    BY <1>1
       DEF OpenerStep, HandleOpen, AbortOpen, ReadInvoice, LookupKey,
           CreateGatewaySession, UpdateGatewaySession, storeVars
  <1>4. MayOpen(o) /\ ~MayOpen(o)'
    BY <1>2, <1>3 DEF InsertSession, MayOpen, Requests
  <1>5. \E row \in SessionRow : session' = Append(session, row)
    BY <1>3, RequestMoves DEF HandleOpen, KhazinaInv
  <1> QED
    BY <1>4, <1>5

LEMMA RoomStep ==
    ASSUME KhazinaInv, [Next]_vars
    PROVE  RoomForSessions'
  <1> DEFINE A == {o \in Openers : MayOpen(o)}
             B == {o \in Openers : MayOpen(o)'}
  <1>1. session \in Seq(SessionRow)
    BY DEF KhazinaInv, SessionsInv, SessionsTypeOK, StoreTypeOK
  <1>2. IsFiniteSet(A) /\ Cardinality(A) \in Nat
    BY KhazinaAssumption, FS_Subset, FS_CardinalityType DEF KhazinaAssumption
  <1>3. Cardinality(Openers) \in Nat
    BY KhazinaAssumption, FS_CardinalityType DEF KhazinaAssumption
  <1>4. B \subseteq A
    BY OpenersMoveOn
  <1>5. Len(session) + Cardinality(A) <= Cardinality(Openers)
    BY DEF KhazinaInv, RoomForSessions
  <1>6. Len(session') + Cardinality(B) <= Cardinality(Openers)
    <2>1. CASE session' = session
      <3>1. Cardinality(B) <= Cardinality(A) /\ Cardinality(B) \in Nat
        BY <1>2, <1>4, FS_Subset, FS_CardinalityType
      <3> HIDE DEF A, B
      <3> QED
        BY <1>1, <1>2, <1>3, <1>5, <2>1, <3>1
    <2>2. CASE session' # session
      <3>1. PICK o \in Openers :
                /\ MayOpen(o) /\ ~MayOpen(o)'
                /\ \E row \in SessionRow : session' = Append(session, row)
        BY <2>2, WhoInserts
      <3>2. o \in A /\ B \subseteq A \ {o}
        BY <1>4, <3>1
      <3>3. Len(session') = Len(session) + 1 /\ Len(session) \in Nat
        BY <1>1, <3>1
      <3> HIDE DEF A, B
      <3>4. /\ IsFiniteSet(A \ {o})
            /\ Cardinality(A \ {o}) = Cardinality(A) - 1
        BY <1>2, <3>2, FS_RemoveElement
      <3>5. Cardinality(B) <= Cardinality(A \ {o}) /\ Cardinality(B) \in Nat
        BY <3>2, <3>4, FS_Subset, FS_CardinalityType
      <3> QED
        BY <1>2, <1>3, <1>5, <3>3, <3>4, <3>5
    <2> QED
      BY <2>1, <2>2
  <1> QED
    BY <1>6 DEF RoomForSessions

UsableThen(s) ==
    /\ s \in DOMAIN session'
    /\ s \notin ordered' => session'[s].key # NoKey

\* Sessions are only added and orders only set: what may be used stays so.
LEMMA UsableStays ==
    ASSUME KhazinaInv, [Next]_vars, NEW s, Usable(s)
    PROVE  UsableThen(s)
  <1>1. session \in Seq(SessionRow)
    BY DEF KhazinaInv, SessionsInv, SessionsTypeOK, StoreTypeOK
  <1>2. s \in DOMAIN session' /\ session'[s] = session[s]
    <2>1. CASE session' = session
      BY <2>1 DEF Usable
    <2>2. ASSUME NEW row \in SessionRow, session' = Append(session, row)
          PROVE  s \in DOMAIN session' /\ session'[s] = session[s]
      BY <1>1, <2>2 DEF Usable
    <2> QED
      BY <2>1, <2>2, WhoInserts
  <1>3. ordered \subseteq ordered'
    BY DEF Next, OpenerStep, HandleOpen, AbortOpen, ReadInvoice, LookupKey,
           CreateGatewaySession, InsertSession, UpdateGatewaySession,
           ArriveGiven, WorkerStep, World, ServerCrash, vars
  <1> QED
    BY <1>2, <1>3 DEF Usable, UsableThen

LEMMA GivenIsUsable ==
    ASSUME KhazinaInv, NEW s, Given(s)
    PROVE  Usable(s)
  <1> PICK o \in Openers : Opened(o) /\ opener[o].session = s
    BY DEF Given
  <1>1. Checked(opener[o])
    BY InvParts DEF KhazinaInv
  <1> QED
    BY <1>1
       DEF Checked, Opened, Usable, KhazinaInv, SessionsInv, UnorderedOnlyByKey

\* A request works on the session it came with or was given at its arrival.
LEMMA BusySessions ==
    ASSUME KhazinaInv, [Next]_vars, NEW v \in Workers, Busy(v)'
    PROVE  \/ Busy(v) /\ worker'[v].session = worker[v].session
           \/ Given(worker'[v].session)
  <1>0. worker \in [Workers -> WorkerRecord]
    BY DEF KhazinaInv, IInv, PaymentTypeOK
  <1>1. ASSUME NEW w \in Workers, ArriveGiven(w)
        PROVE  \/ Busy(v) /\ worker'[v].session = worker[v].session
               \/ Given(worker'[v].session)
    <2> PICK s \in DOMAIN session, p \in Projects, i \in Invoices :
            /\ Given(s)
            /\ \/ RefuseRequest(w, p, s, i)
               \/ InitiateAuth(w, p, s, i)
               \/ ProcessAuth(w, p, s, i)
               \/ FinalizePayment(w, p, s, i)
      BY <1>1 DEF ArriveGiven
    <2>1. CASE v # w
      BY <1>0, <2>1
         DEF RefuseRequest, InitiateAuth, ProcessAuth, FinalizePayment, Reply,
             Request, Busy
    <2>2. CASE v = w
      BY <1>0, <2>2
         DEF RefuseRequest, InitiateAuth, ProcessAuth, FinalizePayment, Reply,
             Request, Answered, Busy
    <2> QED
      BY <2>1, <2>2
  <1>2. ASSUME NEW w \in Workers, WorkerStep(w)
        PROVE  Busy(v) /\ worker'[v].session = worker[v].session
    <2>1. \/ worker'[v] = worker[v]
          \/ worker'[v].pc = "idle"
          \/ v = w /\ Continues(w)
      BY <1>2, HandlerMoves DEF WorkerStep, KhazinaInv
    <2>2. Busy(w)
      BY <1>2
         DEF WorkerStep, Handle, Abort, FinishInitiateAuth, SendAuthenticate,
             FinishProcessAuth, CheckUnpaid, CheckExisting, FindAuth, SendPay,
             ReceiveApproval, SettleWrite, SettleCommit, RecordDecline,
             Timeout, Waiting, Busy
    <2> QED
      BY <2>1, <2>2 DEF Busy, Continues
  <1>3. CASE ServerCrash
    BY <1>0, <1>3 DEF ServerCrash, LoseWorkers, Answered, Busy
  <1>4. CASE worker' = worker
    BY <1>4 DEF Busy
  <1> QED
    BY <1>1, <1>2, <1>3, <1>4
       DEF Next, OpenerStep, World, Environment, GatewayAnswers, Expire, vars

\* A row is inserted for the session of a request.
LEMMA RowSessions ==
    ASSUME KhazinaInv, [Next]_vars, NEW t \in DOMAIN tx'
    PROVE  \/ t \in DOMAIN tx /\ tx'[t].session = tx[t].session
           \/ \E w \in Workers :
                Busy(w) /\ tx'[t].session = worker[w].session
           \/ Given(tx'[t].session)
  <1>0. IInv /\ TablesTypeOK
    BY DEF KhazinaInv, IInv, PaymentTypeOK
  <1>1. CASE t \in DOMAIN tx
    BY <1>0, <1>1, SeenByWorkers, StepKeeps DEF Kept, SameRow
  <1>2. CASE t \notin DOMAIN tx
    <2>1. tx' # tx
      BY <1>2
    <2>2. ASSUME NEW w \in Workers, ArriveGiven(w)
          PROVE  Given(tx'[t].session)
      <3> PICK s \in DOMAIN session, p \in Projects, i \in Invoices :
            /\ Given(s)
            /\ \/ RefuseRequest(w, p, s, i)
               \/ InitiateAuth(w, p, s, i)
               \/ ProcessAuth(w, p, s, i)
               \/ FinalizePayment(w, p, s, i)
        BY <2>2 DEF ArriveGiven
      <3>1. InitiateAuth(w, p, s, i)
        BY <2>1 DEF RefuseRequest, ProcessAuth, FinalizePayment, tables
      <3>2. /\ CreateTransaction(s, i, "initiate_authentication",
                                 Len(tx) + 1, 0)
            /\ s \in Nat /\ Len(tx) + 1 \in Nat
        BY <1>0, <3>1, SessionsFit DEF InitiateAuth, TablesTypeOK
      <3>3. t = Len(tx) + 1
        <4>1. "initiate_authentication" \in TxTypes /\ 0 \in Nat
          BY DEF TxTypes
        <4>2. DOMAIN tx' = DOMAIN tx \cup {Len(tx) + 1}
          BY <1>0, <3>2, <4>1, InsertRow
        <4> QED
          BY <1>2, <4>2
      <3>4. tx'[t].session = s
        BY <1>0, <3>2, <3>3 DEF CreateTransaction, TablesTypeOK
      <3> QED
        BY <3>4
    <2>3. ASSUME NEW w \in Workers, WorkerStep(w)
          PROVE  Busy(w) /\ tx'[t].session = worker[w].session
      <3>1. SendAuthenticate(w) \/ SendPay(w)
        BY <1>2, <2>1, <2>3
           DEF WorkerStep, Handle, Abort, FinishInitiateAuth,
               FinishProcessAuth, CheckUnpaid, CheckExisting, FindAuth,
               ReceiveApproval, SettleWrite, SettleCommit, RecordDecline,
               Timeout, UpdateTransactionStatus, tables
      <3>2. Busy(w)
        BY <3>1 DEF SendAuthenticate, SendPay, Busy
      <3>3. tx' = Append(tx, tx'[t]) /\ tx'[t].session = worker[w].session
        BY <1>0, <1>2, <3>1
           DEF SendAuthenticate, SendPay, Send, CreateTransaction, TablesTypeOK
      <3> QED
        BY <3>2, <3>3
    <2> QED
      BY <2>1, <2>2, <2>3
         DEF Next, OpenerStep, World, Environment, GatewayAnswers, Expire,
             ServerCrash, vars, tables
  <1> QED
    BY <1>1, <1>2

LEMMA UsableStep ==
    ASSUME KhazinaInv, [Next]_vars
    PROVE  UsedSessionsAreUsable'
  <1>1. ASSUME NEW w \in Workers, Busy(w)'
        PROVE  UsableThen(worker'[w].session)
    BY <1>1, BusySessions, UsableStays, GivenIsUsable
       DEF KhazinaInv, UsedSessionsAreUsable
  <1>2. ASSUME NEW t \in DOMAIN tx'
        PROVE  UsableThen(tx'[t].session)
    BY <1>2, RowSessions, UsableStays, GivenIsUsable
       DEF KhazinaInv, UsedSessionsAreUsable
  <1> QED
    BY <1>1, <1>2 DEF UsedSessionsAreUsable, Usable, UsableThen

LEMMA KhazinaInit ==
    ASSUME Init
    PROVE  KhazinaInv
  <1>1. PaymentInit /\ SessionsInit
    BY DEF Init, SessionsInit, PaymentInit, TablesInit
  <1>2. IInv /\ SessionsInv
    BY <1>1, InvInit, OpenersInitStep
  <1>3. session = <<>> /\ tx = <<>> /\ \A w \in Workers : ~Busy(w)
    BY <1>1 DEF PaymentInit, TablesInit, StoreInit, Busy
  <1>4. RoomForSessions
    <2>1. Cardinality({o \in Openers : MayOpen(o)}) <= Cardinality(Openers)
      BY KhazinaAssumption, FS_Subset DEF KhazinaAssumption
    <2>2. Cardinality({o \in Openers : MayOpen(o)}) \in Nat
      BY KhazinaAssumption, FS_Subset, FS_CardinalityType
         DEF KhazinaAssumption
    <2>3. Len(session) = 0
      BY <1>3
    <2> QED
      BY <2>1, <2>2, <2>3 DEF RoomForSessions
  <1>5. UsedSessionsAreUsable
    BY <1>3 DEF UsedSessionsAreUsable
  <1> QED
    BY <1>2, <1>4, <1>5 DEF KhazinaInv

LEMMA KhazinaStep ==
    ASSUME KhazinaInv, [Next]_vars
    PROVE  KhazinaInv'
  <1>1. SessionsInv'
    BY SeenByOpeners, OpenersStep DEF KhazinaInv
  <1>2. IInv'
    BY SeenByWorkers, InvStep DEF KhazinaInv
  <1> QED
    BY <1>1, <1>2, RoomStep, UsableStep DEF KhazinaInv

-----------------------------------------------------------------------------
(* Theorems. *)

\* What the two components rely on together holds of the server.
THEOREM KhazinaInductive == Spec => []KhazinaInv
  BY KhazinaInit, KhazinaStep, PTL DEF Spec

\* The payment handlers, the gateway and a stop of the process change nothing
\* InitiateSession relies on but that an invoice becomes paid
\* (service.go:128-220 against 222-611).
THEOREM ServerServesSessions == Spec => ServesSessions
  <1>1. Init => SessionsInit
    BY DEF Init, SessionsInit, PaymentInit, TablesInit
  <1>2. KhazinaInv /\ [Next]_vars => [SessionsNext]_sessionsVars
    BY SeenByOpeners
  <1> QED
    BY <1>1, <1>2, KhazinaInductive, PTL
       DEF Spec, ServesSessions, SessionsSpec

\* InitiateSession only ever adds sessions whose invoice and account are of
\* one project, under a free key (service.go:162-203 against 222-611).
THEOREM ServerServesPayment == Spec => ServesPayment
  <1>1. Init => PaymentInit
    BY DEF Init
  <1>2. KhazinaInv /\ [Next]_vars => [PaymentNext]_paymentVars
    BY SeenByWorkers
  <1> QED
    BY <1>1, <1>2, KhazinaInductive, PTL DEF Spec, ServesPayment, PaymentSpec

\* Nothing is authenticated or paid in a session without a gateway order,
\* unless the session was asked for by key (service.go:150-155, 205-211).
THEOREM OnlyKeyedAreUnordered == Spec => []UnkeyedSessionsAreOrdered
  <1>1. KhazinaInv => UnkeyedSessionsAreOrdered
    BY DEF KhazinaInv, UsedSessionsAreUsable, Usable,
           UnkeyedSessionsAreOrdered
  <1> QED
    BY <1>1, KhazinaInductive, PTL

\* The server as a whole is a ledger: an invoice is settled once, by an
\* approved payment of its own (service.go:128-611).
THEOREM ServerImplementsLedger == Spec => ImplementsLedger
  BY ServerServesPayment, ServiceImplementsLedger DEF ServesPayment

\* What is proved of each component apart holds of the server: one session
\* per key and a session of the request's tenant, tenants apart, an invoice
\* paid exactly when it is settled, and settled under an authentication that
\* was initiated (service.go:128-611).
THEOREM ServerIsSafe ==
    Spec => [](/\ SameKeySameSession
               /\ ReplyMatchesRequest
               /\ RowsKeepTenancy
               /\ PaidIffSettled
               /\ OneSuccessfulPay
               /\ SettledByInitiatedAuth)
  <1>1. Spec => SessionsSpec /\ PaymentSpec
    BY ServerServesSessions, ServerServesPayment
       DEF ServesSessions, ServesPayment
  <1>2. IInv => RowsKeepTenancy /\ PaidIffSettled /\ OneSuccessfulPay
    BY DEF IInv
  <1> QED
    BY <1>1, <1>2, KhazinaInductive, OneSessionPerKey, RequestsAreMatched,
       SettlementIsInitiated, Inductive, PTL
=============================================================================
