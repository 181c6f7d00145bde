----------------------------- MODULE AuthProofs ------------------------------
(* What rows, handlers and payments keep over time, for every instance of   *)
(* Payment: no written row is ever written again; a payment comes from an   *)
(* authentication of its own session; an expired session and a paid invoice *)
(* are closed for good.                                                     *)
EXTENDS PaymentProofs

-----------------------------------------------------------------------------
(* The tables only ever move forward. *)

\* A row keeps its place and all its columns but the status.
SameRow(t) ==
    /\ tx'[t].type = tx[t].type
    /\ tx'[t].session = tx[t].session
    /\ tx'[t].invoice = tx[t].invoice
    /\ tx'[t].gwTx = tx[t].gwTx
    /\ tx'[t].auth = tx[t].auth

\* A row that was written stays as it is, a paid invoice paid.
Kept ==
    /\ DOMAIN tx \subseteq DOMAIN tx'
    /\ \A t \in DOMAIN tx : SameRow(t)
    /\ \A t \in DOMAIN tx : tx[t].status # "pending" => tx'[t] = tx[t]
    /\ \A i \in Invoices : invoice[i] = "paid" => invoice'[i] = "paid"

LEMMA StillKept ==
    ASSUME UNCHANGED tables
    PROVE  Kept
  BY DEF Kept, SameRow, tables, storeVars

LEMMA InsertKeeps ==
    ASSUME IInv, NEW s \in Nat, NEW i \in Invoices, NEW type \in TxTypes,
           NEW gw \in Nat, NEW au \in Nat,
           CreateTransaction(s, i, type, gw, au), invoice' = invoice
    PROVE  Kept
  <1>1. TablesTypeOK
    BY DEF IInv, PaymentTypeOK
  <1>2. /\ DOMAIN tx' = DOMAIN tx \cup {Len(tx) + 1}
        /\ \A t \in DOMAIN tx : tx'[t] = tx[t]
    BY <1>1, InsertRow
  <1> QED
    BY <1>2 DEF Kept, SameRow

\* The row a handler writes is pending because it is its own.
LEMMA WriteKeeps ==
    ASSUME IInv, NEW w \in Workers, Owner(w), NEW st \in TxStatuses,
           UpdateTransactionStatus(worker[w].tx, st),
           \A i \in Invoices : invoice[i] = "paid" => invoice'[i] = "paid"
    PROVE  /\ Kept
           /\ DOMAIN tx' = DOMAIN tx
           /\ worker[w].tx \in DOMAIN tx
           /\ tx[worker[w].tx].status = "pending"
           /\ tx'[worker[w].tx].status = st
           /\ \A u \in DOMAIN tx : u # worker[w].tx => tx'[u] = tx[u]
  <1> DEFINE t == worker[w].tx
  <1>1. t \in DOMAIN tx /\ tx[t].status = "pending"
    BY DEF IInv, HandlersOwnRows
  <1>2. /\ DOMAIN tx' = DOMAIN tx
        /\ \A u \in DOMAIN tx : u # t => tx'[u] = tx[u]
        /\ tx'[t] = [tx[t] EXCEPT !.status = st]
    BY <1>1, UpdateRow DEF IInv, PaymentTypeOK
  <1>3. SameRow(t) /\ tx'[t].status = st
    BY <1>1, <1>2, RowType DEF SameRow, TxRow
  <1> QED
    BY <1>1, <1>2, <1>3 DEF Kept, SameRow

\* What the handlers that write do: the verdict of a call, or the settlement.
LEMMA FinishWrites ==
    ASSUME IInv, NEW w \in Workers,
           FinishInitiateAuth(w) \/ FinishProcessAuth(w) \/ RecordDecline(w)
    PROVE  /\ Owner(w)
           /\ \E st \in TxStatuses :
                /\ UpdateTransactionStatus(worker[w].tx, st)
                /\ tx[worker[w].tx].type = "pay" => st = "failed"
           /\ \E r \in Replies : Reply(w, worker[w].invoice, r)
           /\ invoice' = invoice /\ session' = session
           /\ call' = call /\ expired' = expired
  <1>1. Owner(w)
    BY DEF FinishInitiateAuth, FinishProcessAuth, RecordDecline, Waiting, Owner
  <1>2. tx[worker[w].tx].type = "pay" <=> PayOwner(w)
    BY <1>1 DEF IInv, HandlersOwnRows
  <1>3. CASE FinishInitiateAuth(w)
    BY <1>1, <1>2, <1>3 DEF FinishInitiateAuth, Waiting, PayOwner, TxStatuses,
                            Unacknowledged, Replies
  <1>4. CASE FinishProcessAuth(w)
    BY <1>1, <1>2, <1>4 DEF FinishProcessAuth, Waiting, PayOwner, TxStatuses,
                            Unacknowledged, Replies
  <1>5. CASE RecordDecline(w)
    BY <1>1, <1>5 DEF RecordDecline, TxStatuses, Unacknowledged, Replies
  <1> QED
    BY <1>3, <1>4, <1>5

\* What the handlers that insert do: a row of their own session and invoice.
LEMMA SendInserts ==
    ASSUME IInv, NEW w \in Workers, SendAuthenticate(w) \/ SendPay(w)
    PROVE  /\ worker[w].session \in Nat /\ worker[w].invoice \in Invoices
           /\ worker[w].auth \in Nat /\ Len(tx) + 1 \in Nat
           /\ invoice' = invoice /\ session' = session /\ expired' = expired
  BY DEF SendAuthenticate, SendPay, Send, IInv, PaymentTypeOK, TablesTypeOK,
         WorkerRecord

\* Every other step of a handler, and every step of the world around, leaves
\* the rows of transactions and the invoices alone.
LEMMA ReadsKeepTables ==
    ASSUME NEW w \in Workers,
           \/ CheckUnpaid(w) \/ CheckExisting(w) \/ FindAuth(w)
           \/ ReceiveApproval(w) \/ SettleWrite(w) \/ Timeout(w) \/ Abort(w)
    PROVE  UNCHANGED <<tables, call, expired>>
  BY DEF CheckUnpaid, CheckExisting, FindAuth, ReceiveApproval, SettleWrite,
         Timeout, Abort

LEMMA ArrivalsKeep ==
    ASSUME IInv, NEW w \in Workers, NEW p \in Projects,
           NEW s \in 1 .. MaxSessions, NEW i \in Invoices,
           \/ RefuseRequest(w, p, s, i) \/ InitiateAuth(w, p, s, i)
           \/ ProcessAuth(w, p, s, i) \/ FinalizePayment(w, p, s, i)
    PROVE  Kept
  <1>1. CASE InitiateAuth(w, p, s, i)
    <2>1. s \in Nat /\ Len(tx) + 1 \in Nat
      BY PaymentAssumption DEF PaymentAssumption, IInv, PaymentTypeOK,
                               TablesTypeOK
    <2> QED
      BY <1>1, <2>1, InsertKeeps DEF InitiateAuth, TxTypes
  <1>2. CASE ~InitiateAuth(w, p, s, i)
    BY <1>2, StillKept DEF RefuseRequest, ProcessAuth, FinalizePayment
  <1> QED
    BY <1>1, <1>2

LEMMA HandlersKeep ==
    ASSUME IInv, NEW w \in Workers, Handle(w) \/ Abort(w)
    PROVE  Kept
  <1>1. CASE FinishInitiateAuth(w) \/ FinishProcessAuth(w) \/ RecordDecline(w)
    BY <1>1, FinishWrites, WriteKeeps
  <1>2. CASE SendAuthenticate(w)
    BY <1>2, SendInserts, InsertKeeps DEF SendAuthenticate, Send, TxTypes
  <1>3. CASE SendPay(w)
    BY <1>3, SendInserts, InsertKeeps DEF SendPay, Send, TxTypes
  <1>4. CASE SettleCommit(w)
    <2>1. Owner(w) /\ "success" \in TxStatuses
      BY <1>4 DEF SettleCommit, Owner, TxStatuses
    <2>2. \A i \in Invoices : invoice[i] = "paid" => invoice'[i] = "paid"
      BY <1>4 DEF SettleCommit, UpdateInvoiceStatus, IInv, PaymentTypeOK,
                  TablesTypeOK, StoreTypeOK
    <2> QED
      BY <1>4, <2>1, <2>2, WriteKeeps DEF SettleCommit
  <1> QED
    BY <1>1, <1>2, <1>3, <1>4, ReadsKeepTables, StillKept DEF Handle

LEMMA StepKeeps ==
    ASSUME IInv, [PaymentNext]_paymentVars
    PROVE  Kept
  <1>1. CASE Serve
    BY <1>1, ArrivalsKeep, HandlersKeep DEF Serve, Arrive
  <1>2. CASE Crash \/ Environment
    BY <1>2, StillKept DEF Crash, Environment, GatewayAnswers, Expire
  <1>3. CASE Open
    BY <1>3 DEF Open, OpenSession, Kept, SameRow
  <1>4. CASE UNCHANGED paymentVars
    BY <1>4, StillKept DEF paymentVars
  <1> QED
    BY <1>1, <1>2, <1>3, <1>4 DEF PaymentNext

-----------------------------------------------------------------------------
(* Who inserts, who writes, who moves. *)

\* The row handler w inserts in this step, and on what ground.
Inserts(w, t) ==
    LET me == worker[w]
        row == tx'[t]
    IN  /\ row.status = "pending"
        /\ worker'[w].tx = t
        /\ \/ /\ row.type = "initiate_authentication"
              /\ row.gwTx = t
           \/ /\ me.pc = "authenticate"
              /\ row.type = "authenticate_payer"
              /\ row.gwTx = me.auth
              /\ row.session = me.session
              /\ row.invoice = me.invoice
           \/ /\ me.pc = "send_pay"
              /\ row.type = "pay"
              /\ row.gwTx = t
              /\ row.auth = me.auth
              /\ row.session = me.session
              /\ row.invoice = me.invoice

LEMMA ArriveInserts ==
    ASSUME IInv, NEW w \in Workers, Arrive(w),
           NEW t \in DOMAIN tx' \ DOMAIN tx
    PROVE  t = Len(tx) + 1 /\ Inserts(w, t)
  <1> PICK p \in Projects, s \in 1 .. MaxSessions, i \in Invoices :
            \/ RefuseRequest(w, p, s, i)
            \/ InitiateAuth(w, p, s, i)
            \/ ProcessAuth(w, p, s, i)
            \/ FinalizePayment(w, p, s, i)
    BY DEF Arrive
  <1>1. CASE InitiateAuth(w, p, s, i)
    <2>1. s \in Nat /\ Len(tx) + 1 \in Nat /\ TablesTypeOK
      BY PaymentAssumption DEF PaymentAssumption, IInv, PaymentTypeOK,
                               TablesTypeOK
    <2>2. CreateTransaction(s, i, "initiate_authentication", Len(tx) + 1, 0)
      BY <1>1 DEF InitiateAuth
    <2>4. /\ t = Len(tx) + 1
          /\ tx'[t].type = "initiate_authentication"
          /\ tx'[t].gwTx = t
          /\ tx'[t].status = "pending"
      BY <2>1, <2>2, InsertRow DEF TxTypes, CreateTransaction
    <2>5. worker'[w].tx = t
      BY <1>1, <2>4 DEF InitiateAuth, Request, IInv, PaymentTypeOK
    <2> QED
      BY <2>4, <2>5 DEF Inserts
  <1>2. CASE ~InitiateAuth(w, p, s, i)
    BY <1>2 DEF RefuseRequest, ProcessAuth, FinalizePayment, tables
  <1> QED
    BY <1>1, <1>2

LEMMA HandleInserts ==
    ASSUME IInv, NEW w \in Workers, Handle(w) \/ Abort(w),
           NEW t \in DOMAIN tx' \ DOMAIN tx
    PROVE  t = Len(tx) + 1 /\ Inserts(w, t)
  <1>1. CASE SendAuthenticate(w)
    <2>1. CreateTransaction(worker[w].session, worker[w].invoice,
                            "authenticate_payer", worker[w].auth, 0)
      BY <1>1 DEF SendAuthenticate, Send
    <2>2. TablesTypeOK /\ worker[w].pc = "authenticate"
      BY <1>1 DEF IInv, PaymentTypeOK, SendAuthenticate
    <2>3. /\ worker[w].session \in Nat /\ worker[w].invoice \in Invoices
          /\ worker[w].auth \in Nat /\ Len(tx) + 1 \in Nat
      BY <1>1, SendInserts
    <2>4. /\ t = Len(tx) + 1
          /\ tx'[t] = [type |-> "authenticate_payer",
                       session |-> worker[w].session,
                       invoice |-> worker[w].invoice,
                       project |-> InvoiceProject[worker[w].invoice],
                       gwTx |-> worker[w].auth, auth |-> 0,
                       status |-> "pending"]
      BY <2>1, <2>2, <2>3, InsertRow DEF TxTypes, CreateTransaction
    <2>5. worker'[w].tx = t
      BY <1>1, <2>4 DEF SendAuthenticate, Send, Request, IInv, PaymentTypeOK
    <2> QED
      BY <2>2, <2>4, <2>5 DEF Inserts
  <1>2. CASE SendPay(w)
    <2>1. CreateTransaction(worker[w].session, worker[w].invoice,
                            "pay", Len(tx) + 1, worker[w].auth)
      BY <1>2 DEF SendPay, Send
    <2>2. TablesTypeOK /\ worker[w].pc = "send_pay"
      BY <1>2 DEF IInv, PaymentTypeOK, SendPay
    <2>3. /\ worker[w].session \in Nat /\ worker[w].invoice \in Invoices
          /\ worker[w].auth \in Nat /\ Len(tx) + 1 \in Nat
      BY <1>2, SendInserts
    <2>4. /\ t = Len(tx) + 1
          /\ tx'[t] = [type |-> "pay",
                       session |-> worker[w].session,
                       invoice |-> worker[w].invoice,
                       project |-> InvoiceProject[worker[w].invoice],
                       gwTx |-> Len(tx) + 1, auth |-> worker[w].auth,
                       status |-> "pending"]
      BY <2>1, <2>2, <2>3, InsertRow DEF TxTypes, CreateTransaction
    <2>5. worker'[w].tx = t
      BY <1>2, <2>4 DEF SendPay, Send, Request, IInv, PaymentTypeOK
    <2> QED
      BY <2>2, <2>4, <2>5 DEF Inserts
  <1>3. CASE FinishInitiateAuth(w) \/ FinishProcessAuth(w) \/ RecordDecline(w)
             \/ SettleCommit(w)
    BY <1>3 DEF FinishInitiateAuth, FinishProcessAuth, RecordDecline,
                SettleCommit, UpdateTransactionStatus
  <1> QED
    BY <1>1, <1>2, <1>3, ReadsKeepTables DEF Handle, tables

\* Every row that is inserted is one handler's, for a reason.
LEMMA NewRow ==
    ASSUME IInv, [PaymentNext]_paymentVars, NEW t \in DOMAIN tx' \ DOMAIN tx
    PROVE  t = Len(tx) + 1 /\ \E w \in Workers : Inserts(w, t)
  <1>1. CASE Serve
    BY <1>1, ArriveInserts, HandleInserts DEF Serve
  <1>2. CASE ~Serve
    BY <1>2 DEF PaymentNext, Crash, Environment, GatewayAnswers, Expire, Open,
                OpenSession, paymentVars, tables
  <1> QED
    BY <1>1, <1>2

\* A row that changes is written by its owner; only a commit records a
\* payment as a success.
Writes(w, t) ==
    /\ Owner(w)
    /\ worker[w].tx = t
    /\ tx[t].status = "pending"
    /\ tx[t].type = "pay" /\ tx'[t].status = "success" =>
            worker[w].pc = "settling"

LEMMA ChangedRow ==
    ASSUME IInv, [PaymentNext]_paymentVars,
           NEW t \in DOMAIN tx, tx'[t] # tx[t]
    PROVE  \E w \in Workers : Writes(w, t)
  <1>1. CASE \E w \in Workers : Handle(w)
    <2> PICK w \in Workers : Handle(w)
      BY <1>1
    <2>1. CASE FinishInitiateAuth(w) \/ FinishProcessAuth(w)
               \/ RecordDecline(w)
      <3>1. invoice' = invoice /\ Owner(w)
        BY <2>1, FinishWrites
      <3>2. PICK st \in TxStatuses :
                /\ UpdateTransactionStatus(worker[w].tx, st)
                /\ tx[worker[w].tx].type = "pay" => st = "failed"
        BY <2>1, FinishWrites
      <3> QED
        BY <3>1, <3>2, WriteKeeps DEF Writes
    <2>2. CASE SettleCommit(w)
      <3>1. Owner(w) /\ worker[w].pc = "settling"
        BY <2>2 DEF SettleCommit, Owner
      <3>2. worker[w].tx \in DOMAIN tx /\ tx[worker[w].tx].status = "pending"
        BY <3>1 DEF IInv, HandlersOwnRows
      <3>3. t = worker[w].tx
        BY <2>2, <3>2 DEF SettleCommit, UpdateTransactionStatus, IInv,
                          PaymentTypeOK, TablesTypeOK
      <3> QED
        BY <3>1, <3>2, <3>3 DEF Writes
    <2>3. CASE SendAuthenticate(w) \/ SendPay(w)
      BY <2>3 DEF SendAuthenticate, SendPay, Send, CreateTransaction, IInv,
                  PaymentTypeOK, TablesTypeOK
    <2> QED
      BY <2>1, <2>2, <2>3, ReadsKeepTables DEF Handle, tables
  <1>2. CASE \E w \in Workers : Abort(w)
    BY <1>2, ReadsKeepTables DEF tables
  <1>3. CASE \E w \in Workers : Arrive(w)
    BY <1>3 DEF Arrive, RefuseRequest, InitiateAuth, ProcessAuth,
                FinalizePayment, CreateTransaction, tables, IInv,
                PaymentTypeOK, TablesTypeOK
  <1>4. CASE ~Serve
    BY <1>4 DEF PaymentNext, Crash, Environment, GatewayAnswers, Expire, Open,
                OpenSession, paymentVars, tables
  <1> QED
    BY <1>1, <1>2, <1>3, <1>4 DEF Serve

\* What a step can do to one handler: nothing, end its request, let a request
\* in, or take its request one step further.
Continues(w) ==
    LET me == worker[w]
    IN  /\ worker'[w].session = me.session
        /\ worker'[w].invoice = me.invoice
        /\ worker'[w].pc # "authenticate"
        /\ Finalizing(w)' => Finalizing(w)
        /\ Unaware(w)' => Unaware(w) \/ invoice[me.invoice] # "paid"
        /\ worker'[w].pc = "send_pay" =>
            \E a \in DOMAIN tx :
                /\ tx[a].type = "authenticate_payer"
                /\ tx[a].status = "success"
                /\ tx[a].session = me.session
                /\ tx[a].gwTx = worker'[w].auth
        /\ Owner(w)' =>
            \/ Owner(w) /\ worker'[w].tx = me.tx
            \/ /\ worker'[w].tx \in DOMAIN tx'
               /\ tx'[worker'[w].tx].session = me.session

Begins(w, s, i) ==
    /\ worker'[w].session = s
    /\ worker'[w].invoice = i
    /\ s \in DOMAIN session
    /\ session[s].invoice = i
    /\ \/ /\ worker'[w].pc = "initiate_sent"
          /\ worker'[w].tx \in DOMAIN tx'
          /\ tx'[worker'[w].tx].session = s
       \/ /\ worker'[w].pc = "authenticate"
          /\ \E t \in DOMAIN tx :
                /\ tx[t].session = s
                /\ tx[t].status = "success"
                /\ worker'[w].auth = tx[t].gwTx
       \/ worker'[w].pc = "check_unpaid" /\ s \notin expired

LEMMA ArrivalMoves ==
    ASSUME IInv, NEW w \in Workers, Arrive(w), NEW v \in Workers
    PROVE  \/ worker'[v] = worker[v]
           \/ worker'[v].pc = "idle"
           \/ v = w /\ \E s \in 1 .. MaxSessions, i \in Invoices :
                            Begins(w, s, i)
  <1> PICK p \in Projects, s \in 1 .. MaxSessions, i \in Invoices :
            \/ RefuseRequest(w, p, s, i)
            \/ InitiateAuth(w, p, s, i)
            \/ ProcessAuth(w, p, s, i)
            \/ FinalizePayment(w, p, s, i)
    BY DEF Arrive
  <1>0. worker \in [Workers -> WorkerRecord]
    BY DEF IInv, PaymentTypeOK
  <1>1. CASE v # w
    BY <1>0, <1>1 DEF RefuseRequest, InitiateAuth, ProcessAuth,
                      FinalizePayment, Reply, Request
  <1>2. CASE v = w
    <2>1. CASE RefuseRequest(w, p, s, i)
      BY <1>0, <1>2, <2>1 DEF RefuseRequest, Reply, Answered
    <2>2. CASE InitiateAuth(w, p, s, i)
      <3>1. s \in Nat /\ Len(tx) + 1 \in Nat /\ TablesTypeOK
        BY PaymentAssumption DEF PaymentAssumption, IInv, PaymentTypeOK,
                                 TablesTypeOK
      <3>2. CreateTransaction(s, i, "initiate_authentication", Len(tx) + 1, 0)
        BY <2>2 DEF InitiateAuth
      <3>3. /\ Len(tx) + 1 \in DOMAIN tx'
            /\ tx'[Len(tx) + 1].session = s
        BY <3>1, <3>2, InsertRow DEF TxTypes, CreateTransaction
      <3>4. s \in DOMAIN session /\ session[s].invoice = i
        BY <2>2, ValidSession DEF InitiateAuth, Ready
      <3> QED
        BY <1>0, <1>2, <2>2, <3>3, <3>4 DEF InitiateAuth, Request, Begins
    <2>3. CASE ProcessAuth(w, p, s, i)
      <3>1. s \in DOMAIN session /\ session[s].invoice = i
        BY <2>3, ValidSession DEF ProcessAuth, Ready
      <3>2. CASE Reply(w, i, "internal_error")
        BY <1>0, <1>2, <3>2 DEF Reply, Answered
      <3>3. ASSUME NEW t \in GetLatestTransaction(s),
                   tx[t].status = "success",
                   Request(w, s, i, "authenticate", 0, tx[t].gwTx)
            PROVE  Begins(w, s, i)
        <4>1. t \in DOMAIN tx /\ tx[t].session = s
          BY DEF GetLatestTransaction, Latest
        <4> QED
          BY <1>0, <3>1, <3>3, <4>1 DEF Request, Begins
      <3> QED
        BY <1>2, <2>3, <3>2, <3>3 DEF ProcessAuth
    <2>4. CASE FinalizePayment(w, p, s, i)
      BY <1>0, <1>2, <2>4, ValidSession DEF FinalizePayment, Ready, Request,
                                            Reply, Answered, Begins
    <2> QED
      BY <2>1, <2>2, <2>3, <2>4
  <1> QED
    BY <1>1, <1>2

\* A handler that goes on without an answer: its program counter moves.
LEMMA GotoContinues ==
    ASSUME IInv, NEW w \in Workers, NEW pc, Goto(w, pc),
           \/ pc = "check_existing" /\ worker[w].pc = "check_unpaid"
                    /\ invoice[worker[w].invoice] # "paid"
           \/ pc = "find_auth" /\ worker[w].pc = "check_existing"
           \/ pc = "approved" /\ worker[w].pc = "pay_sent"
           \/ pc = "settling" /\ worker[w].pc = "approved"
    PROVE  Continues(w)
  <1>1. /\ worker'[w].pc = pc
        /\ worker'[w].session = worker[w].session
        /\ worker'[w].invoice = worker[w].invoice
        /\ worker'[w].tx = worker[w].tx
    BY DEF Goto, IInv, PaymentTypeOK, WorkerRecord
  <1> QED
    BY <1>1 DEF Continues, Finalizing, Unaware, Owner

LEMMA SendContinues ==
    ASSUME IInv, NEW w \in Workers, SendAuthenticate(w) \/ SendPay(w)
    PROVE  Continues(w)
  <1> DEFINE me == worker[w]
             n == Len(tx) + 1
  <1>1. /\ worker'[w].session = me.session
        /\ worker'[w].invoice = me.invoice
        /\ worker'[w].tx = n
        /\ \/ me.pc = "authenticate" /\ worker'[w].pc = "authenticate_sent"
           \/ me.pc = "send_pay" /\ worker'[w].pc = "pay_sent"
    BY DEF SendAuthenticate, SendPay, Send, Request, IInv, PaymentTypeOK
  <1>2. tx \in Seq(TxRow) /\ n \notin DOMAIN tx
    BY DEF IInv, PaymentTypeOK, TablesTypeOK
  <1>3. n \in DOMAIN tx' \ DOMAIN tx
    BY <1>2 DEF SendAuthenticate, SendPay, Send, CreateTransaction
  <1>4. tx'[n].session = me.session
    BY <1>1, <1>3, HandleInserts DEF Inserts, Handle,
       SendAuthenticate, SendPay, Send, CreateTransaction
  <1> QED
    BY <1>1, <1>3, <1>4 DEF Continues, Finalizing, Unaware, Owner

LEMMA FindContinues ==
    ASSUME IInv, NEW w \in Workers, FindAuth(w),
           ~ \E r : Reply(w, worker[w].invoice, r)
    PROVE  Continues(w)
  <1> PICK t \in GetSuccessfulAuthTransaction(worker[w].session) :
            worker' = [worker EXCEPT ![w].pc = "send_pay",
                                     ![w].auth = tx[t].gwTx]
    BY DEF FindAuth
  <1>1. /\ t \in DOMAIN tx
        /\ tx[t].type = "authenticate_payer"
        /\ tx[t].status = "success"
        /\ tx[t].session = worker[w].session
    BY DEF GetSuccessfulAuthTransaction, Latest
  <1> DEFINE rec == [worker[w] EXCEPT !.pc = "send_pay", !.auth = tx[t].gwTx]
  <1>2. worker' = [worker EXCEPT ![w] = rec] /\ worker[w] \in WorkerRecord
    BY DEF IInv, PaymentTypeOK, WorkerRecord
  <1>3. worker'[w] = rec
    BY <1>2 DEF IInv, PaymentTypeOK
  <1>4. /\ worker'[w].pc = "send_pay"
        /\ worker'[w].auth = tx[t].gwTx
        /\ worker'[w].session = worker[w].session
        /\ worker'[w].invoice = worker[w].invoice
        /\ worker[w].pc = "find_auth"
    BY <1>2, <1>3 DEF FindAuth, WorkerRecord
  <1> QED
    BY <1>1, <1>4 DEF Continues, Finalizing, Unaware, Owner

LEMMA HandlerMoves ==
    ASSUME IInv, NEW w \in Workers, Handle(w) \/ Abort(w), NEW v \in Workers
    PROVE  \/ worker'[v] = worker[v]
           \/ worker'[v].pc = "idle"
           \/ v = w /\ Continues(w)
  <1>0. worker \in [Workers -> WorkerRecord]
    BY DEF IInv, PaymentTypeOK
  <1>1. CASE \E r : Reply(w, worker[w].invoice, r)
    BY <1>0, <1>1 DEF Reply, Answered
  <1>2. CASE ~ \E r : Reply(w, worker[w].invoice, r)
    <2>1. \/ CheckUnpaid(w) \/ CheckExisting(w) \/ FindAuth(w)
          \/ SendAuthenticate(w) \/ SendPay(w)
          \/ ReceiveApproval(w) \/ SettleWrite(w)
      BY <1>2 DEF Handle, FinishInitiateAuth, FinishProcessAuth,
                  RecordDecline, SettleCommit, Timeout, Abort
    <2>2. v # w => worker'[v] = worker[v]
      BY <1>0, <1>2, <2>1
         DEF CheckUnpaid, CheckExisting, FindAuth, SendAuthenticate, SendPay,
             ReceiveApproval, SettleWrite, Send, Goto, Request
    <2>3. Continues(w)
      BY <1>2, <2>1, GotoContinues, FindContinues, SendContinues
         DEF CheckUnpaid, CheckExisting, ReceiveApproval, SettleWrite, Waiting
    <2> QED
      BY <2>2, <2>3
  <1> QED
    BY <1>1, <1>2

\* Whatever a step is, a handler it moves ends, begins or continues.
LEMMA EveryMove ==
    ASSUME IInv, [PaymentNext]_paymentVars, NEW v \in Workers
    PROVE  \/ worker'[v] = worker[v]
           \/ worker'[v].pc = "idle"
           \/ \E s \in 1 .. MaxSessions, i \in Invoices : Begins(v, s, i)
           \/ Continues(v)
  <1>1. CASE Serve
    BY <1>1, ArrivalMoves, HandlerMoves DEF Serve
  <1>2. CASE Crash
    BY <1>2 DEF Crash, LoseWorkers, Answered
  <1>3. CASE ~Serve /\ ~Crash
    BY <1>3 DEF PaymentNext, Environment, GatewayAnswers, Expire, Open,
                OpenSession, paymentVars
  <1> QED
    BY <1>1, <1>2, <1>3

-----------------------------------------------------------------------------
(* The invariant of authentications.  Rows that were there keep what they   *)
(* have, since what they rest on is written and therefore final; a new row  *)
(* rests on what its handler has read.                                      *)

\* The same row after the step.
RootThen(g, s, i) ==
    /\ g \in DOMAIN tx'
    /\ tx'[g].session = s
    /\ tx'[g].status = "success"
    /\ \/ tx'[g].type = "initiate_authentication"
       \/ tx'[g].type = "pay" /\ invoice'[i] = "paid"

LEMMA RootStays ==
    ASSUME Kept, NEW g, NEW s, NEW i \in Invoices, Root(g, s, i)
    PROVE  RootThen(g, s, i)
  BY DEF Kept, Root, RootThen

\* The authentication a payment carries, and its root, do not go away.
LEMMA AuthRowStays ==
    ASSUME Kept, NEW a \in DOMAIN tx, tx[a].status = "success"
    PROVE  a \in DOMAIN tx' /\ tx'[a] = tx[a]
  BY DEF Kept

LEMMA AuthInit == PaymentInit => AuthInv
  <1> SUFFICES ASSUME PaymentInit PROVE AuthInv
    OBVIOUS
  <1>1. DOMAIN tx = {}
    BY DEF PaymentInit, TablesInit
  <1>2. \A w \in Workers : worker[w].pc = "idle"
    BY DEF PaymentInit
  <1>3. HandlersKeepSession
    BY <1>2 DEF HandlersKeepSession, KeepsSession, Owner
  <1> QED
    BY <1>1, <1>3 DEF AuthInv, IdsAreFresh, PayCarriesAuth, AuthChain,
                      SettledByInitiatedAuth, SuccessfulPays

\* The id of the latest successful row of a session is its own or that of an
\* earlier successful row of the session: a root in either case.
LEMMA LatestIsRooted ==
    ASSUME IInv, AuthInv, NEW t \in DOMAIN tx, tx[t].status = "success"
    PROVE  Root(tx[t].gwTx, tx[t].session, tx[t].invoice)
  <1>0. tx[t] \in TxRow /\ tx \in Seq(TxRow)
    BY RowType DEF IInv, PaymentTypeOK, TablesTypeOK
  <1>1. CASE tx[t].type = "initiate_authentication"
    BY <1>1 DEF AuthInv, IdsAreFresh, Root
  <1>2. CASE tx[t].type = "pay"
    <2>1. invoice[tx[t].invoice] = "paid"
      BY <1>0, <1>2 DEF IInv, PaidIffSettled, SuccessfulPays, TxRow
    <2> QED
      BY <1>2, <2>1 DEF AuthInv, IdsAreFresh, Root
  <1>3. CASE tx[t].type = "authenticate_payer"
    <2> DEFINE root == tx[t].gwTx
    <2>1. /\ root \in 1 .. t - 1
          /\ tx[root].session = tx[t].session
          /\ tx[root].status = "success"
          /\ \/ tx[root].type = "initiate_authentication"
             \/ tx[root].type = "pay" /\ invoice[tx[t].invoice] = "paid"
      BY <1>3 DEF AuthInv, AuthChain
    <2>2. root \in DOMAIN tx
      BY <1>0, <2>1
    <2> QED
      BY <2>1, <2>2 DEF Root
  <1> QED
    BY <1>0, <1>1, <1>2, <1>3 DEF TxRow, TxTypes

LEMMA HandlersStep ==
    ASSUME IInv, AuthInv, [PaymentNext]_paymentVars
    PROVE  HandlersKeepSession'
  <1> SUFFICES ASSUME NEW v \in Workers
               PROVE  KeepsSession(v)'
    BY DEF HandlersKeepSession
  <1>1. Kept /\ KeepsSession(v)
    BY StepKeeps DEF AuthInv, HandlersKeepSession
  <1>2. worker[v].invoice \in Invoices
    BY DEF IInv, PaymentTypeOK, WorkerRecord
  <1>3. Owner(v) => worker[v].tx \in DOMAIN tx
    BY DEF IInv, HandlersOwnRows
  <1>4. CASE worker'[v] = worker[v]
    <2>1. worker[v].pc = "authenticate" =>
            RootThen(worker[v].auth, worker[v].session, worker[v].invoice)
      BY <1>1, <1>2, RootStays DEF KeepsSession
    <2> QED
      BY <1>1, <1>3, <1>4, <2>1 DEF KeepsSession, Kept, SameRow, Owner, Root,
                                    RootThen
  <1>5. CASE worker'[v].pc = "idle"
    BY <1>5 DEF KeepsSession, Owner
  <1>6. ASSUME NEW s \in 1 .. MaxSessions, NEW i \in Invoices, Begins(v, s, i)
        PROVE  KeepsSession(v)'
    <2>1. CASE worker'[v].pc = "authenticate"
      <3> PICK t \in DOMAIN tx :
                /\ tx[t].session = s
                /\ tx[t].status = "success"
                /\ worker'[v].auth = tx[t].gwTx
        BY <1>6, <2>1 DEF Begins
      <3>1. Root(tx[t].gwTx, s, tx[t].invoice) /\ tx[t].invoice = i
        BY <1>6, LatestIsRooted DEF IInv, RowsKeepTenancy, Begins
      <3>2. RootThen(tx[t].gwTx, s, i)
        BY <1>1, <3>1, RootStays
      <3> QED
        BY <1>6, <2>1, <3>2 DEF KeepsSession, Begins, Owner, Root, RootThen
    <2>2. CASE worker'[v].pc # "authenticate"
      BY <1>6, <2>2 DEF KeepsSession, Begins, Owner
    <2> QED
      BY <2>1, <2>2
  <1>7. CASE Continues(v)
    BY <1>1, <1>3, <1>7 DEF Continues, KeepsSession, Kept, SameRow
  <1> QED
    BY <1>4, <1>5, <1>6, <1>7, EveryMove

LEMMA RowsStep ==
    ASSUME IInv, AuthInv, [PaymentNext]_paymentVars
    PROVE  IdsAreFresh' /\ PayCarriesAuth' /\ AuthChain'
  <1>1. Kept
    BY StepKeeps
  <1>2. \A t \in DOMAIN tx : tx[t].invoice \in Invoices /\ t \in Nat
    BY RowType DEF IInv, PaymentTypeOK, TablesTypeOK, TxRow
  <1>3. ASSUME NEW t \in DOMAIN tx' \ DOMAIN tx
        PROVE  \E w \in Workers : Inserts(w, t) /\ KeepsSession(w)
    BY <1>3, NewRow DEF AuthInv, HandlersKeepSession
  <1>4. ASSUME NEW t \in DOMAIN tx' \ DOMAIN tx
        PROVE  \A a \in DOMAIN tx : a \in 1 .. t - 1
    BY <1>4, NewRow DEF IInv, PaymentTypeOK, TablesTypeOK
  <1>5. IdsAreFresh'
    BY <1>1, <1>3 DEF IdsAreFresh, AuthInv, Kept, SameRow, Inserts
  <1>6. PayCarriesAuth'
    <2> SUFFICES ASSUME NEW t \in DOMAIN tx', tx'[t].type = "pay"
                 PROVE  \E a \in 1 .. t - 1 :
                            /\ tx'[a].type = "authenticate_payer"
                            /\ tx'[a].status = "success"
                            /\ tx'[a].session = tx'[t].session
                            /\ tx'[a].gwTx = tx'[t].auth
      BY DEF PayCarriesAuth
    <2>1. PICK a \in DOMAIN tx :
            /\ a \in 1 .. t - 1
            /\ tx[a].type = "authenticate_payer"
            /\ tx[a].status = "success"
            /\ tx[a].session = tx'[t].session
            /\ tx[a].gwTx = tx'[t].auth
      <3>1. CASE t \in DOMAIN tx
        <4>1. 1 .. t - 1 \subseteq DOMAIN tx
          BY <3>1 DEF IInv, PaymentTypeOK, TablesTypeOK
        <4> QED
          BY <1>1, <3>1, <4>1 DEF Kept, SameRow, AuthInv, PayCarriesAuth
      <3>2. CASE t \notin DOMAIN tx
        BY <1>3, <1>4, <3>2 DEF Inserts, KeepsSession
      <3> QED
        BY <3>1, <3>2
    <2>2. tx'[a] = tx[a]
      BY <1>1, <2>1, AuthRowStays
    <2> QED
      BY <2>1, <2>2
  <1>7. AuthChain'
    <2> SUFFICES ASSUME NEW t \in DOMAIN tx',
                        tx'[t].type = "authenticate_payer"
                 PROVE  /\ tx'[t].gwTx \in 1 .. t - 1
                        /\ RootThen(tx'[t].gwTx, tx'[t].session,
                                    tx'[t].invoice)
      BY DEF AuthChain, RootThen
    <2>1. CASE t \in DOMAIN tx
      <3>1. /\ tx[t].type = "authenticate_payer"
            /\ tx'[t].gwTx = tx[t].gwTx
            /\ tx'[t].session = tx[t].session
            /\ tx'[t].invoice = tx[t].invoice
        BY <1>1, <2>1 DEF Kept, SameRow
      <3>2. /\ tx[t].gwTx \in 1 .. t - 1
            /\ tx[t].gwTx \in DOMAIN tx
            /\ Root(tx[t].gwTx, tx[t].session, tx[t].invoice)
        BY <2>1, <3>1 DEF AuthInv, AuthChain, Root, IInv, PaymentTypeOK,
                          TablesTypeOK
      <3>3. RootThen(tx[t].gwTx, tx[t].session, tx[t].invoice)
        BY <1>1, <1>2, <2>1, <3>2, RootStays
      <3> QED
        BY <3>1, <3>2, <3>3
    <2>2. CASE t \notin DOMAIN tx
      <3> PICK w \in Workers : Inserts(w, t) /\ KeepsSession(w)
        BY <1>3, <2>2
      <3> DEFINE me == worker[w]
      <3>1. /\ tx'[t].gwTx = me.auth
            /\ tx'[t].session = me.session
            /\ tx'[t].invoice = me.invoice
            /\ Root(me.auth, me.session, me.invoice)
            /\ me.invoice \in Invoices
        BY DEF Inserts, KeepsSession, IInv, PaymentTypeOK, WorkerRecord
      <3>2. me.auth \in 1 .. t - 1
        BY <1>4, <2>2, <3>1 DEF Root
      <3>3. RootThen(me.auth, me.session, me.invoice)
        BY <1>1, <3>1, RootStays
      <3> QED
        BY <3>1, <3>2, <3>3
    <2> QED
      BY <2>1, <2>2
  <1> QED
    BY <1>5, <1>6, <1>7

\* A commit finds its invoice unpaid, because it holds the free slot of the
\* index: the root of the authentication it carries is no payment.
LEMMA SettledStep ==
    ASSUME IInv, AuthInv, [PaymentNext]_paymentVars
    PROVE  SettledByInitiatedAuth'
  <1> SUFFICES ASSUME NEW i \in Invoices, NEW t \in SuccessfulPays(i)'
               PROVE  tx'[tx'[t].auth].type = "initiate_authentication"
    BY DEF SettledByInitiatedAuth
  <1>1. Kept
    BY StepKeeps
  <1>2. /\ t \in DOMAIN tx'
        /\ tx'[t].invoice = i
        /\ tx'[t].type = "pay"
        /\ tx'[t].status = "success"
    BY DEF SuccessfulPays
  <1>3. t \in DOMAIN tx
    BY <1>2, NewRow DEF Inserts
  <1>4. /\ tx[t].invoice = i
        /\ tx[t].type = "pay"
        /\ tx'[t].auth = tx[t].auth
    BY <1>1, <1>2, <1>3 DEF Kept, SameRow
  <1>5. PICK a \in 1 .. t - 1 :
            /\ tx[a].type = "authenticate_payer"
            /\ tx[a].status = "success"
            /\ tx[a].session = tx[t].session
            /\ tx[a].gwTx = tx[t].auth
    BY <1>3, <1>4 DEF AuthInv, PayCarriesAuth
  <1>6. a \in DOMAIN tx
    BY <1>3 DEF IInv, PaymentTypeOK, TablesTypeOK
  <1>7. /\ tx[t].auth \in DOMAIN tx
        /\ \/ tx[tx[t].auth].type = "initiate_authentication"
           \/ invoice[tx[a].invoice] = "paid"
    BY <1>5, <1>6, LatestIsRooted DEF Root
  <1>8. tx[a].invoice = i
    BY <1>3, <1>4, <1>5, <1>6 DEF IInv, RowsKeepTenancy
  <1>9. tx[tx[t].auth].type = "initiate_authentication"
    <2>1. CASE tx[t].status = "success"
      BY <1>3, <1>4, <2>1 DEF AuthInv, SettledByInitiatedAuth, SuccessfulPays
    <2>2. CASE tx[t].status # "success"
      <3> PICK w \in Workers : Writes(w, t)
        BY <1>2, <1>3, <2>2, ChangedRow
      <3>1. worker[w].pc = "settling" /\ worker[w].tx = t /\ Owner(w)
        BY <1>2, <1>4 DEF Writes
      <3>2. worker[w].invoice = i
        BY <1>4, <3>1 DEF IInv, HandlersOwnRows
      <3>3. PaySlotFree(i)
        BY <3>1, <3>2 DEF IInv, SettlersAreAlone
      <3>4. invoice[i] # "paid"
        BY <3>3 DEF IInv, PaidIffSettled, PaySlotFree
      <3> QED
        BY <1>7, <1>8, <3>4
    <2> QED
      BY <2>1, <2>2
  <1> QED
    BY <1>1, <1>4, <1>7, <1>9 DEF Kept, SameRow

LEMMA AuthStep ==
    ASSUME IInv, AuthInv, [PaymentNext]_paymentVars
    PROVE  AuthInv'
  BY HandlersStep, RowsStep, SettledStep DEF AuthInv

-----------------------------------------------------------------------------
(* Theorems. *)

\* What handlers and rows of a session know of its authentications, in every
\* reachable state (service.go:349-356, 506-509).
THEOREM AuthInductive == PaymentSpec => [](IInv /\ AuthInv)
  <1>1. PaymentInit => IInv /\ AuthInv
    BY InvInit, AuthInit
  <1>2. IInv /\ AuthInv /\ [PaymentNext]_paymentVars => IInv' /\ AuthInv'
    BY InvStep, AuthStep
  <1> QED
    BY <1>1, <1>2, PTL DEF PaymentSpec

\* A payment is only attempted under a recorded authentication of its own
\* session (service.go:506-509).
THEOREM PaymentsAreAuthenticated == PaymentSpec => []PayCarriesAuth
  <1>1. AuthInv => PayCarriesAuth
    BY DEF AuthInv
  <1> QED
    BY <1>1, AuthInductive, PTL

\* "The latest row" gives an authentication an id that was minted by a
\* successful initiation of the session or by the payment that paid the
\* invoice, by nothing else (service.go:349-356).
THEOREM AuthenticationsAreRooted == PaymentSpec => []AuthChain
  <1>1. AuthInv => AuthChain
    BY DEF AuthInv
  <1> QED
    BY <1>1, AuthInductive, PTL

\* The payment that settles an invoice was authenticated under an initiated
\* id, never under the id of a payment (service.go:506, 576).
THEOREM SettlementIsInitiated == PaymentSpec => []SettledByInitiatedAuth
  <1>1. AuthInv => SettledByInitiatedAuth
    BY DEF AuthInv
  <1> QED
    BY <1>1, AuthInductive, PTL

\* Rows that were written and invoices that are paid stay so (service.go:
\* 295-306, 432-443, 563-611).
THEOREM WhatIsWrittenStays == PaymentSpec => RecordsAreFinal
  <1> DEFINE Final ==
                /\ \A t \in DOMAIN tx :
                    /\ t \in DOMAIN tx'
                    /\ tx[t].status # "pending" => tx'[t] = tx[t]
                /\ \A i \in Invoices :
                    invoice[i] = "paid" => invoice'[i] = "paid"
  <1>1. IInv /\ [PaymentNext]_paymentVars => [Final]_paymentVars
    BY StepKeeps DEF Kept
  <1> QED
    BY <1>1, Inductive, PTL DEF PaymentSpec, RecordsAreFinal

\* The attempts of an invoice, or of a session, only grow by a handler past
\* its checks.
LEMMA NewAttempt ==
    ASSUME IInv, [PaymentNext]_paymentVars,
           NEW t \in DOMAIN tx' \ DOMAIN tx, tx'[t].type = "pay"
    PROVE  \E w \in Workers :
                /\ worker[w].pc = "send_pay"
                /\ tx'[t].session = worker[w].session
                /\ tx'[t].invoice = worker[w].invoice
  BY NewRow DEF Inserts

\* A closed invoice stays closed: to get past the check of its status a
\* handler would have to read it unpaid.
LEMMA ClosedStep ==
    ASSUME IInv, [PaymentNext]_paymentVars, NEW i \in Invoices, Closed(i)
    PROVE  Closed(i)' /\ Attempts(i)' = Attempts(i)
  <1>1. Kept
    BY StepKeeps
  <1>2. invoice'[i] = "paid"
    BY <1>1 DEF Kept, Closed
  <1>3. ASSUME NEW v \in Workers, Unaware(v)'
        PROVE  worker'[v].invoice # i
    <2>1. CASE worker'[v] = worker[v]
      BY <1>3, <2>1 DEF Closed, Unaware, Finalizing
    <2>2. CASE worker'[v].pc = "idle"
      BY <1>3, <2>2 DEF Unaware, Finalizing
    <2>3. CASE \E s \in 1 .. MaxSessions, j \in Invoices : Begins(v, s, j)
      BY <1>3, <2>3 DEF Begins, Unaware, Finalizing
    <2>4. CASE Continues(v)
      BY <1>3, <2>4 DEF Continues, Closed
    <2> QED
      BY <2>1, <2>2, <2>3, <2>4, EveryMove
  <1>4. \A t \in DOMAIN tx' \ DOMAIN tx : t \notin Attempts(i)'
    BY NewAttempt DEF Attempts, Closed, Unaware, Finalizing
  <1>5. \A t \in DOMAIN tx : t \in Attempts(i)' <=> t \in Attempts(i)
    BY <1>1 DEF Attempts, Kept, SameRow
  <1>6. Attempts(i)' = Attempts(i)
    BY <1>1, <1>4, <1>5 DEF Attempts, Kept
  <1> QED
    BY <1>2, <1>3, <1>6 DEF Closed

\* Once an invoice is paid and nobody is past the check of its status, no
\* payment of it is ever attempted again (service.go:493-495).
THEOREM PaidIsClosed == PaymentSpec => PaidInvoicesAreClosed
  <1>1. IInv /\ [PaymentNext]_paymentVars =>
            \A i \in Invoices : Closed(i) =>
                Closed(i)' /\ Attempts(i)' = Attempts(i)
    BY ClosedStep
  <1> QED
    BY <1>1, Inductive, PTL DEF PaymentSpec, PaidInvoicesAreClosed

LEMMA ExpiryLasts ==
    ASSUME IInv, [PaymentNext]_paymentVars
    PROVE  expired \subseteq expired'
  <1>1. ASSUME NEW w \in Workers, Arrive(w)
        PROVE  expired' = expired
    BY <1>1 DEF Arrive, RefuseRequest, InitiateAuth, ProcessAuth,
                FinalizePayment
  <1>2. ASSUME NEW w \in Workers, Handle(w) \/ Abort(w)
        PROVE  expired' = expired
    <2>1. CASE FinishInitiateAuth(w) \/ FinishProcessAuth(w)
               \/ RecordDecline(w)
      BY <2>1, FinishWrites
    <2>2. CASE SendAuthenticate(w) \/ SendPay(w)
      BY <2>2, SendInserts
    <2>3. CASE SettleCommit(w)
      BY <2>3 DEF SettleCommit
    <2> QED
      BY <1>2, <2>1, <2>2, <2>3, ReadsKeepTables DEF Handle
  <1>3. CASE Serve
    BY <1>1, <1>2, <1>3 DEF Serve
  <1>4. CASE Crash \/ Environment
    BY <1>4 DEF Crash, Environment, GatewayAnswers, Expire
  <1>5. CASE Open
    BY <1>5 DEF Open, OpenSession
  <1>6. CASE UNCHANGED paymentVars
    BY <1>6 DEF paymentVars
  <1> QED
    BY <1>3, <1>4, <1>5, <1>6 DEF PaymentNext

\* A lapsed session stays lapsed: every finalize request that begins finds it
\* expired, and no handler of it is left that could write one of its payments.
LEMMA LapsedStep ==
    ASSUME IInv, AuthInv, [PaymentNext]_paymentVars, NEW s \in Nat, Lapsed(s)
    PROVE  Lapsed(s)' /\ PayRows(s)' = PayRows(s)
  <1>1. Kept
    BY StepKeeps
  <1>2. s \in expired'
    BY ExpiryLasts DEF Lapsed
  <1>3. ASSUME NEW v \in Workers, Finalizing(v)'
        PROVE  worker'[v].session # s
    <2>1. CASE worker'[v] = worker[v]
      BY <1>3, <2>1 DEF Lapsed, Finalizing
    <2>2. CASE worker'[v].pc = "idle"
      BY <1>3, <2>2 DEF Finalizing
    <2>3. CASE \E z \in 1 .. MaxSessions, j \in Invoices : Begins(v, z, j)
      BY <1>3, <2>3 DEF Begins, Finalizing, Lapsed
    <2>4. CASE Continues(v)
      BY <1>3, <2>4 DEF Continues, Lapsed
    <2> QED
      BY <2>1, <2>2, <2>3, <2>4, EveryMove
  <1>4. ASSUME NEW t \in DOMAIN tx' \ DOMAIN tx, tx'[t].type = "pay"
        PROVE  tx'[t].session # s
    BY <1>4, NewAttempt DEF Lapsed, Finalizing
  <1>5. ASSUME NEW t \in DOMAIN tx, tx[t].type = "pay", tx[t].session = s
        PROVE  tx'[t] = tx[t]
    <2> SUFFICES ASSUME NEW w \in Workers, Writes(w, t)
                 PROVE  FALSE
      BY ChangedRow
    <2>1. worker[w].session = s
      BY <1>5 DEF Writes, AuthInv, HandlersKeepSession, KeepsSession
    <2>2. PayOwner(w)
      BY <1>5 DEF Writes, IInv, HandlersOwnRows
    <2> QED
      BY <2>1, <2>2 DEF PayOwner, Lapsed, Finalizing
  <1>6. \A t \in DOMAIN tx :
            /\ tx'[t].type = tx[t].type
            /\ tx'[t].session = tx[t].session
    BY <1>1 DEF Kept, SameRow
  <1>7. PayRows(s)' = PayRows(s)
    BY <1>1, <1>4, <1>5, <1>6 DEF PayRows, Kept
  <1> QED
    BY <1>2, <1>3, <1>7 DEF Lapsed

\* Once a session has expired and no finalize request of it is left, none of
\* its payments is attempted, settled or declined again (service.go:478-480).
THEOREM ExpiredIsDead == PaymentSpec => ExpiredSessionsAreDead
  <1>1. IInv /\ AuthInv /\ [PaymentNext]_paymentVars =>
            \A s \in 1 .. MaxSessions : Lapsed(s) =>
                Lapsed(s)' /\ PayRows(s)' = PayRows(s)
    BY LapsedStep
  <1> QED
    BY <1>1, AuthInductive, PTL DEF PaymentSpec, ExpiredSessionsAreDead
=============================================================================
