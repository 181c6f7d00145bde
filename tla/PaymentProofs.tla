--------------------------- MODULE PaymentProofs ----------------------------
(* Theorems about Payment for every set of workers, sessions, invoices and  *)
(* tenants, and every choice of faults.                                     *)
EXTENDS Payment, TLAPS

-----------------------------------------------------------------------------
(* What the statements do to the table. *)

\* An inserted row comes last; the rows before it are as they were.
LEMMA InsertRow ==
    ASSUME TablesTypeOK,
           NEW s \in Nat, NEW i \in Invoices, NEW type \in TxTypes,
           NEW gw \in Nat, NEW au \in Nat,
           CreateTransaction(s, i, type, gw, au)
    PROVE  /\ tx' \in Seq(TxRow)
           /\ Len(tx') = Len(tx) + 1
           /\ DOMAIN tx' = DOMAIN tx \cup {Len(tx) + 1}
           /\ Len(tx) + 1 \notin DOMAIN tx
           /\ \A t \in DOMAIN tx : tx'[t] = tx[t]
           /\ tx'[Len(tx) + 1] =
                [type |-> type, session |-> s, invoice |-> i,
                 project |-> InvoiceProject[i], gwTx |-> gw, auth |-> au,
                 status |-> "pending"]
  <1> DEFINE row == [type |-> type, session |-> s, invoice |-> i,
                     project |-> InvoiceProject[i], gwTx |-> gw, auth |-> au,
                     status |-> "pending"]
  <1>1. row \in TxRow
    BY StoreAssumption DEF StoreAssumption, TxRow, TxStatuses
  <1>2. tx \in Seq(TxRow) /\ tx' = Append(tx, row)
    BY DEF TablesTypeOK, CreateTransaction
  <1> QED
    BY <1>1, <1>2

\* A status update changes the status of its row and nothing else.
LEMMA UpdateRow ==
    ASSUME TablesTypeOK, NEW t \in DOMAIN tx, NEW st \in TxStatuses,
           UpdateTransactionStatus(t, st)
    PROVE  /\ tx' \in Seq(TxRow)
           /\ Len(tx') = Len(tx)
           /\ DOMAIN tx' = DOMAIN tx
           /\ \A u \in DOMAIN tx : u # t => tx'[u] = tx[u]
           /\ tx'[t] = [tx[t] EXCEPT !.status = st]
  <1>1. tx \in Seq(TxRow) /\ tx[t] \in TxRow
    BY DEF TablesTypeOK
  <1>2. [tx[t] EXCEPT !.status = st] \in TxRow
    BY <1>1 DEF TxRow
  <1>3. tx' = [tx EXCEPT ![t] = [tx[t] EXCEPT !.status = st]]
    BY DEF UpdateTransactionStatus
  <1> QED
    BY <1>1, <1>2, <1>3

-----------------------------------------------------------------------------
(* Shapes of steps.  Most actions of a handler only move its own record.    *)

LEMMA MoveType ==
    ASSUME PaymentTypeOK, NEW w \in Workers, NEW rec \in WorkerRecord,
           worker' = [worker EXCEPT ![w] = rec]
    PROVE  /\ worker' \in [Workers -> WorkerRecord]
           /\ worker'[w] = rec
           /\ \A v \in Workers : v # w => worker'[v] = worker[v]
  BY DEF PaymentTypeOK

LEMMA RowType ==
    ASSUME IInv, NEW t \in DOMAIN tx
    PROVE  tx[t] \in TxRow /\ tx[t].gwTx \in Nat
  <1>1. tx \in Seq(TxRow)
    BY DEF IInv, PaymentTypeOK, TablesTypeOK
  <1>2. tx[t] \in TxRow
    BY <1>1
  <1> QED
    BY <1>2 DEF TxRow

LEMMA AnsweredType ==
    ASSUME NEW i \in Invoices, NEW r \in Replies
    PROVE  Answered(i, r) \in WorkerRecord
  BY DEF Answered, WorkerRecord, Pcs

\* A step that only moves one handler keeps the invariant when the handler
\* keeps a valid request, says "success" of a paid invoice only, owns no other
\* row than before, and takes the lock of an invoice only when it is free.
LEMMA MoveStep ==
    ASSUME IInv, NEW w \in Workers, NEW rec \in WorkerRecord,
           worker' = [worker EXCEPT ![w] = rec],
           UNCHANGED <<tables, call, expired>>,
           rec.pc # "idle" =>
                /\ rec.session \in DOMAIN session
                /\ session[rec.session].invoice = rec.invoice,
           rec.reply = "success" => invoice[rec.invoice] = "paid",
           rec.pc \in {"initiate_sent", "authenticate_sent", "pay_sent"}
                => FALSE,
           rec.pc \in {"approved", "settling"} =>
                /\ PayOwner(w)
                /\ rec.tx = worker[w].tx
                /\ rec.invoice = worker[w].invoice
                /\ call[rec.tx] = "APPROVED",
           rec.pc = "settling" =>
                PaySlotFree(rec.invoice) /\ Settling(rec.invoice) = {}
    PROVE  IInv'
  <1>1. /\ worker' \in [Workers -> WorkerRecord]
        /\ worker'[w] = rec
        /\ \A v \in Workers : v # w => worker'[v] = worker[v]
    BY MoveType DEF IInv
  <1>2. /\ invoice' = invoice /\ session' = session /\ tx' = tx
        /\ call' = call /\ expired' = expired
    BY DEF tables, storeVars
  <1>3. PaymentTypeOK'
    BY <1>1, <1>2 DEF IInv, PaymentTypeOK, TablesTypeOK, StoreTypeOK
  <1>4. SessionsKeepTenancy' /\ RowsKeepTenancy' /\ AnswersFitCalls'
    BY <1>2 DEF IInv, SessionsKeepTenancy, RowsKeepTenancy, AnswersFitCalls,
                Answers
  <1>5. RecordAgreesWithGateway' /\ PaidIffSettled' /\ OneSuccessfulPay'
    BY <1>2 DEF IInv, RecordAgreesWithGateway, Verdict, PaidIffSettled,
                OneSuccessfulPay, SuccessfulPays
  <1>6. RequestsAreValid'
    BY <1>1, <1>2 DEF IInv, RequestsAreValid, Busy
  <1>7. HandlersOwnRows'
    BY <1>1, <1>2 DEF IInv, HandlersOwnRows, Owner, PayOwner
  <1>8. SettlersAreAlone'
    BY <1>1, <1>2 DEF IInv, SettlersAreAlone, Settling, PaySlotFree,
                      SuccessfulPays
  <1>9. SuccessReplyMeansPaid'
    BY <1>1, <1>2 DEF IInv, SuccessReplyMeansPaid
  <1> QED
    BY <1>3, <1>4, <1>5, <1>6, <1>7, <1>8, <1>9 DEF IInv

\* In particular a handler may give up or be answered at any time.
LEMMA ReplyStep ==
    ASSUME IInv, NEW w \in Workers, NEW i \in Invoices, NEW r \in Replies,
           Reply(w, i, r), UNCHANGED <<tables, call, expired>>,
           r = "success" => invoice[i] = "paid"
    PROVE  IInv'
  <1>1. Answered(i, r) \in WorkerRecord
    BY AnsweredType
  <1>2. worker' = [worker EXCEPT ![w] = Answered(i, r)]
    BY DEF Reply
  <1>3. /\ Answered(i, r).pc = "idle"
        /\ Answered(i, r).reply = r
        /\ Answered(i, r).invoice = i
    BY DEF Answered
  <1> QED
    BY <1>1, <1>2, <1>3, MoveStep

\* A handler with a valid request inserts its row and sends the call.
LEMMA SendStep ==
    ASSUME IInv, NEW w \in Workers, NEW s \in DOMAIN session,
           NEW i \in Invoices, session[s].invoice = i,
           NEW type \in TxTypes, NEW gw \in Nat, NEW au \in Nat,
           NEW pc \in {"initiate_sent", "authenticate_sent", "pay_sent"},
           type = "pay" <=> pc = "pay_sent",
           pc = "initiate_sent" => type = "initiate_authentication",
           CreateTransaction(s, i, type, gw, au),
           call' = Append(call, "sent"),
           Request(w, s, i, pc, Len(tx) + 1, au),
           UNCHANGED <<invoice, session, expired>>
    PROVE  IInv'
  <1> DEFINE n == Len(tx) + 1
             rec == [pc |-> pc, session |-> s, invoice |-> i, tx |-> n,
                     auth |-> au, reply |-> "none"]
  <1>0. /\ TablesTypeOK /\ s \in Nat /\ session \in Seq(SessionRow)
        /\ tx \in Seq(TxRow) /\ call \in Seq(CallStates)
        /\ Len(call) = Len(tx)
    BY DEF IInv, PaymentTypeOK, TablesTypeOK, StoreTypeOK
  <1>1. /\ tx' \in Seq(TxRow)
        /\ Len(tx') = Len(tx) + 1
        /\ DOMAIN tx' = DOMAIN tx \cup {n}
        /\ n \notin DOMAIN tx
        /\ \A t \in DOMAIN tx : tx'[t] = tx[t]
        /\ tx'[n] = [type |-> type, session |-> s, invoice |-> i,
                     project |-> InvoiceProject[i], gwTx |-> gw, auth |-> au,
                     status |-> "pending"]
    BY <1>0, InsertRow DEF CreateTransaction
  <1>2. rec \in WorkerRecord
    BY <1>0 DEF WorkerRecord, Pcs, Replies
  <1>3. /\ worker' \in [Workers -> WorkerRecord]
        /\ worker'[w] = rec
        /\ \A v \in Workers : v # w => worker'[v] = worker[v]
    BY <1>2, MoveType DEF IInv, Request
  <1>4. /\ call' \in Seq(CallStates)
        /\ Len(call') = Len(tx')
        /\ call'[n] = "sent"
        /\ \A t \in DOMAIN tx : call'[t] = call[t]
    BY <1>0, <1>1 DEF CallStates
  <1>5. PaymentTypeOK'
    BY <1>1, <1>3, <1>4 DEF IInv, PaymentTypeOK, TablesTypeOK, StoreTypeOK
  <1>6. SessionsKeepTenancy' /\ RequestsAreValid'
    BY <1>3 DEF IInv, SessionsKeepTenancy, RequestsAreValid, Busy
  <1>7. RowsKeepTenancy'
    BY <1>1 DEF IInv, RowsKeepTenancy, SessionsKeepTenancy
  <1>8. AnswersFitCalls'
    BY <1>1, <1>4 DEF IInv, AnswersFitCalls, Answers
  <1>9. HandlersOwnRows'
    <2> SUFFICES ASSUME NEW v \in Workers, Owner(v)'
                 PROVE  LET t == worker'[v].tx
                        IN  /\ t \in DOMAIN tx'
                            /\ tx'[t].status = "pending"
                            /\ tx'[t].invoice = worker'[v].invoice
                            /\ tx'[t].type = "pay" <=> PayOwner(v)'
                            /\ worker'[v].pc = "initiate_sent" =>
                                    tx'[t].type = "initiate_authentication"
                            /\ worker'[v].pc \in {"approved", "settling"} =>
                                    call'[t] = "APPROVED"
                            /\ \A u \in Workers :
                                    Owner(u)' /\ worker'[u].tx = t => u = v
      BY DEF HandlersOwnRows
    <2>1. \A u \in Workers : u # w /\ Owner(u)' =>
            Owner(u) /\ worker'[u] = worker[u] /\ worker[u].tx \in DOMAIN tx
      BY <1>3 DEF IInv, HandlersOwnRows, Owner
    <2>2. CASE v = w
      BY <1>1, <1>3, <2>1, <2>2 DEF PayOwner
    <2>3. CASE v # w
      <3>1. worker'[v].tx # n /\ worker'[w].tx = n
        BY <1>1, <1>3, <2>1, <2>3
      <3> QED
        BY <1>1, <1>4, <2>1, <2>3, <3>1 DEF IInv, HandlersOwnRows, PayOwner
    <2> QED
      BY <2>2, <2>3
  <1>10. RecordAgreesWithGateway'
    BY <1>1, <1>4 DEF IInv, RecordAgreesWithGateway, Verdict
  <1>11. \A j \in Invoices : SuccessfulPays(j)' = SuccessfulPays(j)
    BY <1>1 DEF SuccessfulPays
  <1>12. SettlersAreAlone'
    <2> SUFFICES ASSUME NEW v \in Workers, worker'[v].pc = "settling"
                 PROVE  /\ PaySlotFree(worker[v].invoice)'
                        /\ \A u \in Settling(worker[v].invoice)' : u = v
      BY DEF SettlersAreAlone
    <2>1. v # w /\ worker'[v] = worker[v] /\ worker[v].invoice \in Invoices
      BY <1>3 DEF IInv, PaymentTypeOK, WorkerRecord
    <2>2. PaySlotFree(worker[v].invoice)'
      BY <1>11, <2>1 DEF IInv, SettlersAreAlone, PaySlotFree
    <2>3. \A u \in Settling(worker[v].invoice)' : u = v
      BY <1>3, <2>1 DEF IInv, SettlersAreAlone, Settling
    <2> QED
      BY <2>2, <2>3
  <1>13. PaidIffSettled' /\ OneSuccessfulPay'
    BY <1>11 DEF IInv, PaidIffSettled, OneSuccessfulPay
  <1>14. SuccessReplyMeansPaid'
    BY <1>3 DEF IInv, SuccessReplyMeansPaid
  <1> QED
    BY <1>5, <1>6, <1>7, <1>8, <1>9, <1>10, <1>12, <1>13, <1>14 DEF IInv

\* A handler writes the gateway's answer to its own row and replies.  An
\* approved payment is not written this way.
LEMMA RecordStep ==
    ASSUME IInv, NEW w \in Workers, Owner(w),
           call[worker[w].tx] # "sent",
           tx[worker[w].tx].type = "pay" => call[worker[w].tx] # "APPROVED",
           UpdateTransactionStatus(worker[w].tx, Verdict(worker[w].tx)),
           NEW r \in Replies, r # "success",
           Reply(w, worker[w].invoice, r),
           UNCHANGED <<invoice, session, call, expired>>
    PROVE  IInv'
  <1> DEFINE t == worker[w].tx
             i == worker[w].invoice
  <1>0. /\ t \in DOMAIN tx
        /\ \A v \in Workers : Owner(v) /\ worker[v].tx = t => v = w
        /\ tx[t].type = "pay" => Verdict(t) = "failed"
        /\ Verdict(t) \in TxStatuses
    BY DEF IInv, HandlersOwnRows, AnswersFitCalls, Answers, Verdict, TxStatuses
  <1>1. /\ tx' \in Seq(TxRow)
        /\ Len(tx') = Len(tx)
        /\ DOMAIN tx' = DOMAIN tx
        /\ \A u \in DOMAIN tx : u # t => tx'[u] = tx[u]
        /\ tx'[t] = [tx[t] EXCEPT !.status = Verdict(t)]
    BY <1>0, UpdateRow DEF IInv, PaymentTypeOK
  <1>2. tx[t] \in TxRow /\ i \in Invoices
    BY <1>0 DEF IInv, PaymentTypeOK, TablesTypeOK, WorkerRecord
  <1>3. /\ \A u \in DOMAIN tx :
            /\ tx'[u].type = tx[u].type
            /\ tx'[u].session = tx[u].session
            /\ tx'[u].invoice = tx[u].invoice
            /\ tx'[u].project = tx[u].project
        /\ tx'[t].status = Verdict(t)
    BY <1>1, <1>2 DEF TxRow
  <1>4. /\ worker' \in [Workers -> WorkerRecord]
        /\ worker'[w] = Answered(i, r)
        /\ \A v \in Workers : v # w => worker'[v] = worker[v]
    BY <1>2, AnsweredType, MoveType DEF IInv, Reply
  <1>5. PaymentTypeOK'
    BY <1>1, <1>4 DEF IInv, PaymentTypeOK, TablesTypeOK, StoreTypeOK
  <1>6. SessionsKeepTenancy' /\ RequestsAreValid'
    BY <1>4 DEF IInv, SessionsKeepTenancy, RequestsAreValid, Busy, Answered
  <1>7. RowsKeepTenancy' /\ AnswersFitCalls'
    BY <1>1, <1>3 DEF IInv, RowsKeepTenancy, AnswersFitCalls, Answers
  <1>8. HandlersOwnRows'
    BY <1>0, <1>1, <1>3, <1>4 DEF IInv, HandlersOwnRows, Owner, PayOwner,
                                  Answered
  <1>9. RecordAgreesWithGateway'
    <2>1. \A u \in DOMAIN tx : Verdict(u)' = Verdict(u)
      BY DEF Verdict
    <2>2. ASSUME NEW u \in DOMAIN tx, u = t
          PROVE  call'[u] # "sent" /\ tx'[u].status = Verdict(u)'
      BY <1>3, <2>1, <2>2
    <2>3. ASSUME NEW u \in DOMAIN tx, u # t, tx'[u].status # "pending"
          PROVE  call'[u] # "sent" /\ tx'[u].status = Verdict(u)'
      <3>1. tx'[u] = tx[u]
        BY <1>1, <2>3
      <3> QED
        BY <2>1, <2>3, <3>1 DEF IInv, RecordAgreesWithGateway
    <2> QED
      BY <1>1, <2>2, <2>3 DEF RecordAgreesWithGateway
  <1>10. \A j \in Invoices : SuccessfulPays(j)' = SuccessfulPays(j)
    <2>1. \A u \in DOMAIN tx : u # t \/ tx[u].type # "pay"
                \/ (tx[u].status = "pending" /\ tx'[u].status = "failed")
      BY <1>0, <1>3 DEF IInv, HandlersOwnRows
    <2> QED
      BY <1>1, <1>3, <2>1 DEF SuccessfulPays
  <1>11. SettlersAreAlone'
    <2> SUFFICES ASSUME NEW v \in Workers, worker'[v].pc = "settling"
                 PROVE  /\ PaySlotFree(worker[v].invoice)'
                        /\ \A u \in Settling(worker[v].invoice)' : u = v
      BY DEF SettlersAreAlone
    <2>1. v # w /\ worker'[v] = worker[v] /\ worker[v].invoice \in Invoices
      BY <1>4 DEF IInv, PaymentTypeOK, WorkerRecord, Answered
    <2>2. PaySlotFree(worker[v].invoice)'
      BY <1>10, <2>1 DEF IInv, SettlersAreAlone, PaySlotFree
    <2>3. \A u \in Settling(worker[v].invoice)' : u = v
      BY <1>4, <2>1 DEF IInv, SettlersAreAlone, Settling, Answered
    <2> QED
      BY <2>2, <2>3
  <1>12. PaidIffSettled' /\ OneSuccessfulPay'
    BY <1>10 DEF IInv, PaidIffSettled, OneSuccessfulPay
  <1>13. SuccessReplyMeansPaid'
    BY <1>4 DEF IInv, SuccessReplyMeansPaid, Answered
  <1> QED
    BY <1>5, <1>6, <1>7, <1>8, <1>9, <1>11, <1>12, <1>13 DEF IInv

-----------------------------------------------------------------------------
(* Initial states, and one lemma per action or group of like actions.       *)

LEMMA InvInit == PaymentInit => IInv
  <1> SUFFICES ASSUME PaymentInit PROVE IInv
    OBVIOUS
  <1> USE DEF PaymentInit, TablesInit, StoreInit
  <1>1. /\ worker \in [Workers -> WorkerRecord]
        /\ \A w \in Workers : worker[w].pc = "idle" /\ worker[w].reply = "none"
    BY DEF WorkerRecord, Pcs, Replies
  <1>2. PaymentTypeOK
    BY <1>1 DEF PaymentTypeOK, TablesTypeOK, StoreTypeOK, InvoiceStatuses
  <1>3. DOMAIN tx = {} /\ DOMAIN session = {}
    OBVIOUS
  <1>4. SessionsKeepTenancy /\ RowsKeepTenancy /\ AnswersFitCalls
        /\ RecordAgreesWithGateway
    BY <1>3 DEF SessionsKeepTenancy, RowsKeepTenancy, AnswersFitCalls,
                RecordAgreesWithGateway
  <1>5. RequestsAreValid /\ HandlersOwnRows /\ SettlersAreAlone
        /\ SuccessReplyMeansPaid
    BY <1>1 DEF RequestsAreValid, HandlersOwnRows, SettlersAreAlone,
                SuccessReplyMeansPaid, Busy, Owner
  <1>6. PaidIffSettled /\ OneSuccessfulPay
    BY <1>3 DEF PaidIffSettled, OneSuccessfulPay, SuccessfulPays
  <1> QED
    BY <1>2, <1>4, <1>5, <1>6 DEF IInv

\* What a request that arrives knows of its session.
LEMMA ValidSession ==
    ASSUME NEW p, NEW s, NEW i, Valid(p, s, i)
    PROVE  s \in DOMAIN session /\ session[s].invoice = i
  BY DEF Valid, GetPaymentSessionByIDAndProject

\* A record a handler moves to while it only reads.
LEMMA ReadRecord ==
    ASSUME IInv, NEW s \in DOMAIN session, NEW i \in Invoices, NEW au \in Nat,
           NEW pc \in {"authenticate", "check_unpaid"}
    PROVE  [pc |-> pc, session |-> s, invoice |-> i, tx |-> 0, auth |-> au,
            reply |-> "none"] \in WorkerRecord
  BY DEF IInv, PaymentTypeOK, TablesTypeOK, StoreTypeOK, WorkerRecord, Pcs,
         Replies

LEMMA RefuseStep ==
    ASSUME IInv, NEW w \in Workers, NEW p, NEW s, NEW i \in Invoices,
           RefuseRequest(w, p, s, i)
    PROVE  IInv'
  <1>1. \E r \in {"internal_error", "mismatch"} : Reply(w, i, r)
    BY DEF RefuseRequest
  <1>2. UNCHANGED <<tables, call, expired>>
    BY DEF RefuseRequest
  <1> QED
    BY <1>1, <1>2, ReplyStep DEF Replies

LEMMA InitiateAuthStep ==
    ASSUME IInv, NEW w \in Workers, NEW p, NEW s, NEW i \in Invoices,
           InitiateAuth(w, p, s, i)
    PROVE  IInv'
  <1>1. s \in DOMAIN session /\ session[s].invoice = i
    BY ValidSession DEF InitiateAuth, Ready
  <1>2. Len(tx) + 1 \in Nat
    BY DEF IInv, PaymentTypeOK, TablesTypeOK
  <1>3. /\ CreateTransaction(s, i, "initiate_authentication", Len(tx) + 1, 0)
        /\ call' = Append(call, "sent")
        /\ Request(w, s, i, "initiate_sent", Len(tx) + 1, 0)
        /\ UNCHANGED <<invoice, session, expired>>
    BY DEF InitiateAuth
  <1> QED
    BY <1>1, <1>2, <1>3, SendStep DEF TxTypes

LEMMA ProcessAuthStep ==
    ASSUME IInv, NEW w \in Workers, NEW p, NEW s, NEW i \in Invoices,
           ProcessAuth(w, p, s, i)
    PROVE  IInv'
  <1>1. UNCHANGED <<tables, call, expired>>
    BY DEF ProcessAuth
  <1>2. CASE Reply(w, i, "internal_error")
    BY <1>1, <1>2, ReplyStep DEF Replies
  <1>3. ASSUME NEW t \in GetLatestTransaction(s),
               Request(w, s, i, "authenticate", 0, tx[t].gwTx)
        PROVE  IInv'
    <2>1. s \in DOMAIN session /\ session[s].invoice = i
      BY ValidSession DEF ProcessAuth, Ready
    <2>2. tx[t].gwTx \in Nat
      <3>1. t \in DOMAIN tx
        BY DEF GetLatestTransaction, Latest
      <3> QED
        BY <3>1, RowType
    <2> DEFINE rec == [pc |-> "authenticate", session |-> s, invoice |-> i,
                       tx |-> 0, auth |-> tx[t].gwTx, reply |-> "none"]
    <2>3. rec \in WorkerRecord
      BY <2>1, <2>2, ReadRecord
    <2>4. worker' = [worker EXCEPT ![w] = rec]
      BY <1>3 DEF Request
    <2> QED
      BY <1>1, <2>1, <2>3, <2>4, MoveStep
  <1> QED
    BY <1>2, <1>3 DEF ProcessAuth

LEMMA FinalizePaymentStep ==
    ASSUME IInv, NEW w \in Workers, NEW p, NEW s, NEW i \in Invoices,
           FinalizePayment(w, p, s, i)
    PROVE  IInv'
  <1>1. UNCHANGED <<tables, call, expired>>
    BY DEF FinalizePayment
  <1>2. CASE Reply(w, i, "expired")
    BY <1>1, <1>2, ReplyStep DEF Replies
  <1>3. CASE Request(w, s, i, "check_unpaid", 0, 0)
    <2>1. s \in DOMAIN session /\ session[s].invoice = i
      BY ValidSession DEF FinalizePayment, Ready
    <2> DEFINE rec == [pc |-> "check_unpaid", session |-> s, invoice |-> i,
                       tx |-> 0, auth |-> 0, reply |-> "none"]
    <2>2. rec \in WorkerRecord
      BY <2>1, ReadRecord
    <2>3. worker' = [worker EXCEPT ![w] = rec]
      BY <1>3 DEF Request
    <2> QED
      BY <1>1, <2>1, <2>2, <2>3, MoveStep
  <1> QED
    BY <1>2, <1>3 DEF FinalizePayment

\* A busy handler goes on with the request it has.
LEMMA GotoStep ==
    ASSUME IInv, NEW w \in Workers, Busy(w),
           NEW pc \in {"check_existing", "find_auth", "approved", "settling"},
           Goto(w, pc), UNCHANGED <<tables, call, expired>>,
           pc \in {"approved", "settling"} =>
                PayOwner(w) /\ call[worker[w].tx] = "APPROVED",
           pc = "settling" =>
                /\ PaySlotFree(worker[w].invoice)
                /\ Settling(worker[w].invoice) = {}
    PROVE  IInv'
  <1> DEFINE rec == [worker[w] EXCEPT !.pc = pc]
  <1>1. worker[w] \in WorkerRecord
    BY DEF IInv, PaymentTypeOK
  <1>2. /\ rec \in WorkerRecord
        /\ rec.pc = pc
        /\ rec.session = worker[w].session
        /\ rec.invoice = worker[w].invoice
        /\ rec.tx = worker[w].tx
        /\ rec.reply = worker[w].reply
    BY <1>1 DEF WorkerRecord, Pcs
  <1>3. worker' = [worker EXCEPT ![w] = rec]
    BY DEF Goto
  <1>4. /\ rec.session \in DOMAIN session
        /\ session[rec.session].invoice = rec.invoice
        /\ rec.reply = "success" => invoice[rec.invoice] = "paid"
    BY <1>2 DEF IInv, RequestsAreValid, SuccessReplyMeansPaid
  <1> HIDE DEF rec
  <1> QED
    BY <1>2, <1>3, <1>4, MoveStep

LEMMA CheckUnpaidStep ==
    ASSUME IInv, NEW w \in Workers, CheckUnpaid(w)
    PROVE  IInv'
  <1>1. UNCHANGED <<tables, call, expired>> /\ Busy(w)
    BY DEF CheckUnpaid, Busy
  <1>2. worker[w].invoice \in Invoices
    BY DEF IInv, PaymentTypeOK, WorkerRecord
  <1>3. CASE Reply(w, worker[w].invoice, "already_paid")
    BY <1>1, <1>2, <1>3, ReplyStep DEF Replies
  <1>4. CASE Goto(w, "check_existing")
    BY <1>1, <1>4, GotoStep
  <1> QED
    BY <1>3, <1>4 DEF CheckUnpaid

\* The payment found is one of the invoice, because rows and requests keep
\* to their session, so the invoice is paid already.
LEMMA CheckExistingStep ==
    ASSUME IInv, NEW w \in Workers, CheckExisting(w)
    PROVE  IInv'
  <1> DEFINE i == worker[w].invoice
             s == worker[w].session
  <1>1. UNCHANGED <<tables, call, expired>> /\ Busy(w)
    BY DEF CheckExisting, Busy
  <1>2. i \in Invoices
    BY DEF IInv, PaymentTypeOK, WorkerRecord
  <1>3. CASE GetPayTransactionBySessionID(s) # {} /\ Reply(w, i, "success")
    <2>1. PICK t \in DOMAIN tx :
                tx[t].session = s /\ tx[t].type = "pay"
                /\ tx[t].status = "success"
      BY <1>3 DEF GetPayTransactionBySessionID
    <2>2. tx[t].invoice = i
      BY <1>1, <2>1 DEF IInv, RowsKeepTenancy, RequestsAreValid
    <2>3. invoice[i] = "paid"
      BY <1>2, <2>1, <2>2 DEF IInv, PaidIffSettled, SuccessfulPays
    <2> QED
      BY <1>1, <1>2, <1>3, <2>3, ReplyStep DEF Replies
  <1>4. CASE Goto(w, "find_auth")
    BY <1>1, <1>4, GotoStep
  <1> QED
    BY <1>3, <1>4 DEF CheckExisting

LEMMA FindAuthStep ==
    ASSUME IInv, NEW w \in Workers, FindAuth(w)
    PROVE  IInv'
  <1>1. UNCHANGED <<tables, call, expired>> /\ Busy(w)
    BY DEF FindAuth, Busy
  <1>2. worker[w] \in WorkerRecord /\ worker[w].invoice \in Invoices
    BY DEF IInv, PaymentTypeOK, WorkerRecord
  <1>3. CASE Reply(w, worker[w].invoice, "internal_error")
    BY <1>1, <1>2, <1>3, ReplyStep DEF Replies
  <1>4. ASSUME NEW t \in GetSuccessfulAuthTransaction(worker[w].session),
               worker' = [worker EXCEPT ![w].pc = "send_pay",
                                        ![w].auth = tx[t].gwTx]
        PROVE  IInv'
    <2>1. t \in DOMAIN tx
      BY DEF GetSuccessfulAuthTransaction, Latest
    <2>2. tx[t].gwTx \in Nat
      BY <2>1, RowType
    <2> DEFINE rec == [worker[w] EXCEPT !.pc = "send_pay",
                                        !.auth = tx[t].gwTx]
    <2>3. /\ rec \in WorkerRecord
          /\ rec.pc = "send_pay"
          /\ rec.session = worker[w].session
          /\ rec.invoice = worker[w].invoice
          /\ rec.reply = worker[w].reply
      BY <1>2, <2>2 DEF WorkerRecord, Pcs
    <2>4. worker' = [worker EXCEPT ![w] = rec]
      BY <1>2, <1>4 DEF IInv, PaymentTypeOK, WorkerRecord
    <2>5. /\ rec.session \in DOMAIN session
          /\ session[rec.session].invoice = rec.invoice
          /\ rec.reply = "success" => invoice[rec.invoice] = "paid"
      BY <1>1, <2>3 DEF IInv, RequestsAreValid, SuccessReplyMeansPaid
    <2> HIDE DEF rec
    <2> QED
      BY <1>1, <2>3, <2>4, <2>5, MoveStep
  <1> QED
    BY <1>3, <1>4 DEF FindAuth

\* SendAuthenticate and SendPay.
LEMMA InsertStep ==
    ASSUME IInv, NEW w \in Workers, SendAuthenticate(w) \/ SendPay(w)
    PROVE  IInv'
  <1> DEFINE s == worker[w].session
             i == worker[w].invoice
  <1>1. Busy(w)
    BY DEF SendAuthenticate, SendPay, Busy
  <1>2. s \in DOMAIN session /\ session[s].invoice = i
    BY <1>1 DEF IInv, RequestsAreValid
  <1>3. i \in Invoices /\ worker[w].auth \in Nat /\ Len(tx) + 1 \in Nat
    BY DEF IInv, PaymentTypeOK, TablesTypeOK, WorkerRecord
  <1>4. CASE SendAuthenticate(w)
    <2>1. /\ CreateTransaction(s, i, "authenticate_payer", worker[w].auth, 0)
          /\ call' = Append(call, "sent")
          /\ Request(w, s, i, "authenticate_sent", Len(tx) + 1, 0)
          /\ UNCHANGED <<invoice, session, expired>>
      BY <1>4 DEF SendAuthenticate, Send
    <2> QED
      BY <1>2, <1>3, <2>1, SendStep DEF TxTypes
  <1>5. CASE SendPay(w)
    <2>1. /\ CreateTransaction(s, i, "pay", Len(tx) + 1, worker[w].auth)
          /\ call' = Append(call, "sent")
          /\ Request(w, s, i, "pay_sent", Len(tx) + 1, worker[w].auth)
          /\ UNCHANGED <<invoice, session, expired>>
      BY <1>5 DEF SendPay, Send
    <2> QED
      BY <1>2, <1>3, <2>1, SendStep DEF TxTypes
  <1> QED
    BY <1>4, <1>5

\* FinishInitiateAuth, FinishProcessAuth and RecordDecline write the verdict
\* on the gateway's answer, each told by its own test of the answer.
LEMMA FinishStep ==
    ASSUME IInv, NEW w \in Workers,
           FinishInitiateAuth(w) \/ FinishProcessAuth(w) \/ RecordDecline(w)
    PROVE  IInv'
  <1> DEFINE t == worker[w].tx
             i == worker[w].invoice
  <1>1. Owner(w) /\ call[t] # "sent" /\ UNCHANGED <<invoice, session, call, expired>>
    BY DEF FinishInitiateAuth, FinishProcessAuth, RecordDecline, Waiting, Owner
  <1>2. /\ t \in DOMAIN tx
        /\ tx[t].type = "pay" <=> PayOwner(w)
        /\ worker[w].pc = "initiate_sent" =>
                tx[t].type = "initiate_authentication"
        /\ call[t] \in Answers(tx[t].type)
    BY <1>1 DEF IInv, HandlersOwnRows, AnswersFitCalls
  <1>3. CASE FinishInitiateAuth(w)
    <2>1. worker[w].pc = "initiate_sent"
      BY <1>3 DEF FinishInitiateAuth, Waiting
    <2>2. UpdateTransactionStatus(t, Verdict(t))
      BY <1>2, <1>3, <2>1 DEF FinishInitiateAuth, Verdict, Answers
    <2>3. \E r \in Replies \ {"success"} : Reply(w, i, r)
      BY <1>3 DEF FinishInitiateAuth, Unacknowledged, Replies
    <2> QED
      BY <1>1, <1>2, <2>1, <2>2, <2>3, RecordStep DEF PayOwner
  <1>4. CASE FinishProcessAuth(w)
    <2>1. worker[w].pc = "authenticate_sent"
      BY <1>4 DEF FinishProcessAuth, Waiting
    <2>2. tx[t].type # "pay"
      BY <1>2, <2>1 DEF PayOwner
    <2>3. UpdateTransactionStatus(t, Verdict(t))
      BY <1>2, <1>4, <2>2 DEF FinishProcessAuth, Verdict, Answers
    <2>4. \E r \in Replies \ {"success"} : Reply(w, i, r)
      BY <1>4 DEF FinishProcessAuth, Unacknowledged, Replies
    <2> QED
      BY <1>1, <2>2, <2>3, <2>4, RecordStep
  <1>5. CASE RecordDecline(w)
    <2>1. worker[w].pc = "pay_sent" /\ call[t] # "APPROVED"
      BY <1>5 DEF RecordDecline, Waiting
    <2>2. UpdateTransactionStatus(t, Verdict(t))
      BY <1>2, <1>5, <2>1 DEF RecordDecline, Verdict, Answers, PayOwner
    <2>3. \E r \in Replies \ {"success"} : Reply(w, i, r)
      BY <1>5 DEF RecordDecline, Unacknowledged, Replies
    <2> QED
      BY <1>1, <2>1, <2>2, <2>3, RecordStep
  <1> QED
    BY <1>3, <1>4, <1>5

LEMMA ReceiveApprovalStep ==
    ASSUME IInv, NEW w \in Workers, ReceiveApproval(w)
    PROVE  IInv'
  <1>1. /\ PayOwner(w) /\ Busy(w) /\ call[worker[w].tx] = "APPROVED"
        /\ Goto(w, "approved")
        /\ UNCHANGED <<tables, call, expired>>
    BY DEF ReceiveApproval, Waiting, PayOwner, Busy
  <1> QED
    BY <1>1, GotoStep

LEMMA SettleWriteStep ==
    ASSUME IInv, NEW w \in Workers, SettleWrite(w)
    PROVE  IInv'
  <1> DEFINE i == worker[w].invoice
  <1>1. /\ PayOwner(w) /\ Owner(w) /\ Busy(w) /\ Settling(i) = {}
        /\ UNCHANGED <<tables, call, expired>>
    BY DEF SettleWrite, PayOwner, Owner, Busy
  <1>2. i \in Invoices
    BY DEF IInv, PaymentTypeOK, WorkerRecord
  <1>3. call[worker[w].tx] = "APPROVED"
    BY <1>1 DEF IInv, HandlersOwnRows, SettleWrite
  <1>4. CASE PaySlotFree(i) /\ Goto(w, "settling")
    BY <1>1, <1>3, <1>4, GotoStep
  <1>5. CASE Reply(w, i, "internal_error")
    BY <1>1, <1>2, <1>5, ReplyStep DEF Replies
  <1> QED
    BY <1>4, <1>5 DEF SettleWrite

\* The commit: the handler held the lock of a free slot, so its row becomes
\* the one successful payment, of an invoice paid in the same step.
LEMMA SettleCommitStep ==
    ASSUME IInv, NEW w \in Workers, SettleCommit(w)
    PROVE  IInv'
  <1> DEFINE t == worker[w].tx
             i == worker[w].invoice
  <1>1. /\ worker[w].pc = "settling" /\ Owner(w) /\ PayOwner(w)
        /\ UpdateTransactionStatus(t, "success")
        /\ UpdateInvoiceStatus(i, "paid")
        /\ UNCHANGED <<session, call, expired>>
    BY DEF SettleCommit, Owner, PayOwner
  <1>2. PICK r \in {"success", "internal_error"} : Reply(w, i, r)
    BY DEF SettleCommit, Unacknowledged
  <1>3. /\ t \in DOMAIN tx /\ tx[t].status = "pending" /\ tx[t].invoice = i
        /\ tx[t].type = "pay" /\ call[t] = "APPROVED"
        /\ \A v \in Workers : Owner(v) /\ worker[v].tx = t => v = w
    BY <1>1 DEF IInv, HandlersOwnRows
  <1>4. SuccessfulPays(i) = {} /\ \A v \in Settling(i) : v = w
    BY <1>1 DEF IInv, SettlersAreAlone, PaySlotFree
  <1>5. tx[t] \in TxRow /\ i \in Invoices /\ r \in Replies
    BY <1>3, RowType DEF IInv, PaymentTypeOK, WorkerRecord, Replies
  <1>6. /\ tx' \in Seq(TxRow)
        /\ Len(tx') = Len(tx)
        /\ DOMAIN tx' = DOMAIN tx
        /\ \A u \in DOMAIN tx : u # t => tx'[u] = tx[u]
        /\ tx'[t] = [tx[t] EXCEPT !.status = "success"]
    BY <1>1, <1>3, UpdateRow DEF IInv, PaymentTypeOK, TxStatuses
  <1>7. /\ \A u \in DOMAIN tx :
            /\ tx'[u].type = tx[u].type
            /\ tx'[u].session = tx[u].session
            /\ tx'[u].invoice = tx[u].invoice
            /\ tx'[u].project = tx[u].project
        /\ tx'[t].status = "success"
    BY <1>5, <1>6 DEF TxRow
  <1>8. /\ invoice' \in [Invoices -> InvoiceStatuses]
        /\ invoice'[i] = "paid"
        /\ \A j \in Invoices : j # i => invoice'[j] = invoice[j]
    BY <1>1, <1>5 DEF IInv, PaymentTypeOK, TablesTypeOK, StoreTypeOK,
                      UpdateInvoiceStatus, InvoiceStatuses
  <1>9. /\ worker' \in [Workers -> WorkerRecord]
        /\ worker'[w] = Answered(i, r)
        /\ \A v \in Workers : v # w => worker'[v] = worker[v]
    BY <1>2, <1>5, AnsweredType, MoveType DEF IInv, Reply
  <1>10. \A j \in Invoices :
            /\ j = i => SuccessfulPays(j)' = {t}
            /\ j # i => SuccessfulPays(j)' = SuccessfulPays(j)
    <2> SUFFICES ASSUME NEW j \in Invoices
                 PROVE  /\ j = i => SuccessfulPays(j)' = {t}
                        /\ j # i => SuccessfulPays(j)' = SuccessfulPays(j)
      OBVIOUS
    <2>1. CASE j = i
      <3>1. \A u \in DOMAIN tx : u # t =>
                ~ (tx'[u].invoice = j /\ tx'[u].type = "pay"
                    /\ tx'[u].status = "success")
        BY <1>4, <1>6, <2>1 DEF SuccessfulPays
      <3>2. /\ tx'[t].invoice = j /\ tx'[t].type = "pay"
            /\ tx'[t].status = "success"
        BY <1>3, <1>7, <2>1
      <3> QED
        BY <1>3, <1>6, <2>1, <3>1, <3>2 DEF SuccessfulPays
    <2>2. CASE j # i
      BY <1>3, <1>6, <1>7, <2>2 DEF SuccessfulPays
    <2> QED
      BY <2>1, <2>2
  <1>11. PaymentTypeOK'
    BY <1>1, <1>6, <1>8, <1>9
       DEF IInv, PaymentTypeOK, TablesTypeOK, StoreTypeOK
  <1>12. SessionsKeepTenancy' /\ RequestsAreValid'
    BY <1>1, <1>9 DEF IInv, SessionsKeepTenancy, RequestsAreValid, Busy,
                      Answered
  <1>13. RowsKeepTenancy' /\ AnswersFitCalls'
    BY <1>1, <1>6, <1>7 DEF IInv, RowsKeepTenancy, AnswersFitCalls, Answers
  <1>14. HandlersOwnRows'
    BY <1>1, <1>3, <1>6, <1>7, <1>9 DEF IInv, HandlersOwnRows, Owner,
                                        PayOwner, Answered
  <1>15. RecordAgreesWithGateway'
    <2> SUFFICES ASSUME NEW u \in DOMAIN tx, tx'[u].status # "pending"
                 PROVE  call[u] # "sent" /\ tx'[u].status = Verdict(u)
      BY <1>1, <1>6 DEF RecordAgreesWithGateway, Verdict
    <2>1. CASE u = t
      BY <1>3, <1>7, <2>1 DEF Verdict
    <2>2. CASE u # t
      BY <1>6, <2>2 DEF IInv, RecordAgreesWithGateway
    <2> QED
      BY <2>1, <2>2
  <1>16. SettlersAreAlone'
    <2> SUFFICES ASSUME NEW v \in Workers, worker'[v].pc = "settling"
                 PROVE  /\ PaySlotFree(worker[v].invoice)'
                        /\ \A u \in Settling(worker[v].invoice)' : u = v
      BY DEF SettlersAreAlone
    <2>1. v # w /\ worker'[v] = worker[v] /\ worker[v].invoice \in Invoices
      BY <1>9 DEF IInv, PaymentTypeOK, WorkerRecord, Answered
    <2>2. worker[v].invoice # i
      BY <1>4, <2>1 DEF Settling
    <2>3. PaySlotFree(worker[v].invoice)'
      BY <1>10, <2>1, <2>2 DEF IInv, SettlersAreAlone, PaySlotFree
    <2>4. \A u \in Settling(worker[v].invoice)' : u = v
      BY <1>9, <2>1 DEF IInv, SettlersAreAlone, Settling, Answered
    <2> QED
      BY <2>3, <2>4
  <1>17. PaidIffSettled' /\ OneSuccessfulPay'
    <2>1. ASSUME NEW j \in Invoices
          PROVE  /\ invoice'[j] = "paid" <=> SuccessfulPays(j)' # {}
                 /\ \A u, v \in SuccessfulPays(j)' : u = v
      <3>1. CASE j = i
        BY <1>8, <1>10, <3>1
      <3>2. CASE j # i
        BY <1>8, <1>10, <3>2 DEF IInv, PaidIffSettled, OneSuccessfulPay
      <3> QED
        BY <3>1, <3>2
    <2> QED
      BY <2>1 DEF PaidIffSettled, OneSuccessfulPay
  <1>18. SuccessReplyMeansPaid'
    <2> SUFFICES ASSUME NEW v \in Workers, worker'[v].reply = "success"
                 PROVE  invoice'[worker'[v].invoice] = "paid"
      BY DEF SuccessReplyMeansPaid
    <2>1. CASE v = w
      BY <1>8, <1>9, <2>1 DEF Answered
    <2>2. CASE v # w
      BY <1>8, <1>9, <2>2 DEF IInv, SuccessReplyMeansPaid, PaymentTypeOK,
                              WorkerRecord
    <2> QED
      BY <2>1, <2>2
  <1> QED
    BY <1>11, <1>12, <1>13, <1>14, <1>15, <1>16, <1>17, <1>18 DEF IInv

LEMMA HandleStep ==
    ASSUME IInv, NEW w \in Workers, Handle(w) \/ Abort(w)
    PROVE  IInv'
  <1>1. worker[w].invoice \in Invoices
    BY DEF IInv, PaymentTypeOK, WorkerRecord
  <1>2. CASE Timeout(w)
    BY <1>1, <1>2, ReplyStep DEF Timeout, Replies
  <1>3. CASE Abort(w)
    BY <1>1, <1>3, ReplyStep DEF Abort, Replies
  <1> QED
    BY <1>2, <1>3, CheckUnpaidStep, CheckExistingStep, FindAuthStep, InsertStep,
       FinishStep, ReceiveApprovalStep, SettleWriteStep, SettleCommitStep
       DEF Handle

LEMMA ArriveStep ==
    ASSUME IInv, NEW w \in Workers, Arrive(w)
    PROVE  IInv'
  BY RefuseStep, InitiateAuthStep, ProcessAuthStep, FinalizePaymentStep
     DEF Arrive

LEMMA CrashStep ==
    ASSUME IInv, Crash
    PROVE  IInv'
  <1>1. UNCHANGED <<tables, call, expired>>
    BY DEF Crash
  <1>2. /\ invoice' = invoice /\ session' = session /\ tx' = tx
        /\ call' = call /\ expired' = expired
    BY <1>1 DEF tables, storeVars
  <1>3. \A w \in Workers :
            /\ ~Busy(w) => worker'[w] = worker[w]
            /\ Busy(w) => worker'[w] = Answered(worker[w].invoice, "none")
    BY DEF Crash, LoseWorkers
  <1>4. \A w \in Workers :
            /\ worker'[w] \in WorkerRecord
            /\ worker'[w].pc = "idle"
            /\ worker'[w].reply = "success" =>
                    /\ worker[w].reply = "success"
                    /\ worker'[w].invoice = worker[w].invoice
    <2> SUFFICES ASSUME NEW w \in Workers
                 PROVE  /\ worker'[w] \in WorkerRecord
                        /\ worker'[w].pc = "idle"
                        /\ worker'[w].reply = "success" =>
                                /\ worker[w].reply = "success"
                                /\ worker'[w].invoice = worker[w].invoice
      OBVIOUS
    <2>1. worker[w] \in WorkerRecord /\ worker[w].invoice \in Invoices
      BY DEF IInv, PaymentTypeOK, WorkerRecord
    <2>2. CASE Busy(w)
      <3>1. worker'[w] = Answered(worker[w].invoice, "none")
        BY <1>3, <2>2
      <3>2. Answered(worker[w].invoice, "none") \in WorkerRecord
        BY <2>1, AnsweredType DEF Replies
      <3> QED
        BY <3>1, <3>2 DEF Answered
    <2>3. CASE ~Busy(w)
      BY <1>3, <2>1, <2>3 DEF Busy
    <2> QED
      BY <2>2, <2>3
  <1>5. worker' \in [Workers -> WorkerRecord]
    BY <1>4 DEF Crash, LoseWorkers
  <1>6. PaymentTypeOK'
    BY <1>2, <1>5 DEF IInv, PaymentTypeOK, TablesTypeOK, StoreTypeOK
  <1>7. SessionsKeepTenancy' /\ RowsKeepTenancy' /\ AnswersFitCalls'
    BY <1>2 DEF IInv, SessionsKeepTenancy, RowsKeepTenancy, AnswersFitCalls,
                Answers
  <1>8. RecordAgreesWithGateway' /\ PaidIffSettled' /\ OneSuccessfulPay'
    BY <1>2 DEF IInv, RecordAgreesWithGateway, Verdict, PaidIffSettled,
                OneSuccessfulPay, SuccessfulPays
  <1>9. RequestsAreValid' /\ HandlersOwnRows' /\ SettlersAreAlone'
    BY <1>4 DEF RequestsAreValid, HandlersOwnRows, SettlersAreAlone, Busy,
                Owner
  <1>10. SuccessReplyMeansPaid'
    BY <1>2, <1>4 DEF IInv, SuccessReplyMeansPaid
  <1> QED
    BY <1>6, <1>7, <1>8, <1>9, <1>10 DEF IInv

LEMMA GatewayStep ==
    ASSUME IInv, NEW t \in DOMAIN call, GatewayAnswers(t)
    PROVE  IInv'
  <1>1. /\ invoice' = invoice /\ session' = session /\ tx' = tx
        /\ worker' = worker /\ expired' = expired
    BY DEF GatewayAnswers, tables, storeVars
  <1>2. PICK r \in Answers(tx[t].type) : call' = [call EXCEPT ![t] = r]
    BY DEF GatewayAnswers
  <1>3. call \in Seq(CallStates) /\ tx \in Seq(TxRow) /\ Len(call) = Len(tx)
    BY DEF IInv, PaymentTypeOK, TablesTypeOK
  <1>4. r \in CallStates
    BY <1>2 DEF Answers, CallStates
  <1>5. /\ call' \in Seq(CallStates)
        /\ Len(call') = Len(call)
        /\ call'[t] = r
        /\ \A u \in DOMAIN tx : u # t => call'[u] = call[u]
        /\ t \in DOMAIN tx /\ call[t] = "sent"
    BY <1>2, <1>3, <1>4 DEF GatewayAnswers
  <1>6. PaymentTypeOK'
    BY <1>1, <1>3, <1>5 DEF IInv, PaymentTypeOK, TablesTypeOK, StoreTypeOK
  <1>7. SessionsKeepTenancy' /\ RowsKeepTenancy' /\ RequestsAreValid'
        /\ SuccessReplyMeansPaid'
    BY <1>1 DEF IInv, SessionsKeepTenancy, RowsKeepTenancy, RequestsAreValid,
                Busy, SuccessReplyMeansPaid
  <1>8. AnswersFitCalls'
    BY <1>1, <1>2, <1>5 DEF IInv, AnswersFitCalls, Answers
  <1>9. HandlersOwnRows'
    BY <1>1, <1>5 DEF IInv, HandlersOwnRows, Owner, PayOwner
  <1>10. RecordAgreesWithGateway'
    BY <1>1, <1>5 DEF IInv, RecordAgreesWithGateway, Verdict
  <1>11. SettlersAreAlone' /\ PaidIffSettled' /\ OneSuccessfulPay'
    BY <1>1 DEF IInv, SettlersAreAlone, Settling, PaySlotFree, SuccessfulPays,
                PaidIffSettled, OneSuccessfulPay
  <1> QED
    BY <1>6, <1>7, <1>8, <1>9, <1>10, <1>11 DEF IInv

LEMMA ExpireStep ==
    ASSUME IInv, NEW s \in DOMAIN session, Expire(s)
    PROVE  IInv'
  <1>1. /\ invoice' = invoice /\ session' = session /\ tx' = tx
        /\ worker' = worker /\ call' = call
        /\ expired' = expired \cup {s}
    BY DEF Expire, tables, storeVars
  <1>2. s \in Nat
    BY DEF IInv, PaymentTypeOK, TablesTypeOK, StoreTypeOK
  <1>3. PaymentTypeOK'
    BY <1>1, <1>2 DEF IInv, PaymentTypeOK, TablesTypeOK, StoreTypeOK
  <1>4. SessionsKeepTenancy' /\ RowsKeepTenancy' /\ RequestsAreValid'
        /\ SuccessReplyMeansPaid' /\ AnswersFitCalls' /\ HandlersOwnRows'
        /\ RecordAgreesWithGateway'
    BY <1>1 DEF IInv, SessionsKeepTenancy, RowsKeepTenancy, RequestsAreValid,
                Busy, SuccessReplyMeansPaid, AnswersFitCalls, Answers,
                HandlersOwnRows, Owner, PayOwner, RecordAgreesWithGateway,
                Verdict
  <1>5. SettlersAreAlone' /\ PaidIffSettled' /\ OneSuccessfulPay'
    BY <1>1 DEF IInv, SettlersAreAlone, Settling, PaySlotFree, SuccessfulPays,
                PaidIffSettled, OneSuccessfulPay
  <1> QED
    BY <1>3, <1>4, <1>5 DEF IInv

LEMMA OpenSessionStep ==
    ASSUME IInv, NEW i \in Invoices, NEW a \in Accounts,
           NEW k \in Keys \cup {NoKey}, OpenSession(i, a, k)
    PROVE  IInv'
  <1> DEFINE row == [invoice |-> i, project |-> InvoiceProject[i],
                     account |-> a, key |-> k, status |-> "created"]
             n == Len(session) + 1
  <1>1. /\ invoice' = invoice /\ tx' = tx /\ worker' = worker
        /\ call' = call /\ expired' = expired
        /\ session' = Append(session, row)
        /\ AccountProject[a] = InvoiceProject[i]
    BY DEF OpenSession, CreatePaymentSession
  <1>2. row \in SessionRow /\ session \in Seq(SessionRow)
    BY StoreAssumption DEF StoreAssumption, SessionRow, SessionStatuses, IInv,
                           PaymentTypeOK, TablesTypeOK, StoreTypeOK
  <1>3. /\ session' \in Seq(SessionRow)
        /\ DOMAIN session' = DOMAIN session \cup {n}
        /\ n \notin DOMAIN session
        /\ session'[n] = row
        /\ \A s \in DOMAIN session : session'[s] = session[s]
    BY <1>1, <1>2
  <1>4. PaymentTypeOK'
    BY <1>1, <1>3 DEF IInv, PaymentTypeOK, TablesTypeOK, StoreTypeOK
  <1>5. SessionsKeepTenancy'
    BY <1>1, <1>3 DEF IInv, SessionsKeepTenancy
  <1>6. RowsKeepTenancy' /\ RequestsAreValid'
    BY <1>1, <1>3 DEF IInv, RowsKeepTenancy, RequestsAreValid, Busy
  <1>7. SuccessReplyMeansPaid' /\ AnswersFitCalls' /\ HandlersOwnRows'
        /\ RecordAgreesWithGateway'
    BY <1>1 DEF IInv, SuccessReplyMeansPaid, AnswersFitCalls, Answers,
                HandlersOwnRows, Owner, PayOwner, RecordAgreesWithGateway,
                Verdict
  <1>8. SettlersAreAlone' /\ PaidIffSettled' /\ OneSuccessfulPay'
    BY <1>1 DEF IInv, SettlersAreAlone, Settling, PaySlotFree, SuccessfulPays,
                PaidIffSettled, OneSuccessfulPay
  <1> QED
    BY <1>4, <1>5, <1>6, <1>7, <1>8 DEF IInv

LEMMA StutterStep ==
    ASSUME IInv, UNCHANGED paymentVars
    PROVE  IInv'
  <1>1. /\ invoice' = invoice /\ session' = session /\ tx' = tx
        /\ worker' = worker /\ call' = call /\ expired' = expired
    BY DEF paymentVars, tables, storeVars
  <1>2. PaymentTypeOK' /\ SessionsKeepTenancy' /\ RowsKeepTenancy'
        /\ RequestsAreValid' /\ SuccessReplyMeansPaid' /\ AnswersFitCalls'
        /\ HandlersOwnRows' /\ RecordAgreesWithGateway'
    BY <1>1 DEF IInv, PaymentTypeOK, TablesTypeOK, StoreTypeOK,
                SessionsKeepTenancy, RowsKeepTenancy, RequestsAreValid, Busy,
                SuccessReplyMeansPaid, AnswersFitCalls, Answers,
                HandlersOwnRows, Owner, PayOwner, RecordAgreesWithGateway,
                Verdict
  <1>3. SettlersAreAlone' /\ PaidIffSettled' /\ OneSuccessfulPay'
    BY <1>1 DEF IInv, SettlersAreAlone, Settling, PaySlotFree, SuccessfulPays,
                PaidIffSettled, OneSuccessfulPay
  <1> QED
    BY <1>2, <1>3 DEF IInv

\* IInv is inductive.
LEMMA InvStep == IInv /\ [PaymentNext]_paymentVars => IInv'
  <1> SUFFICES ASSUME IInv, [PaymentNext]_paymentVars PROVE IInv'
    OBVIOUS
  <1>1. CASE Serve
    BY <1>1, ArriveStep, HandleStep DEF Serve
  <1>2. CASE Crash
    BY <1>2, CrashStep
  <1>3. CASE Environment
    BY <1>3, GatewayStep, ExpireStep DEF Environment
  <1>4. CASE Open
    BY <1>4, OpenSessionStep DEF Open
  <1>5. CASE UNCHANGED paymentVars
    BY <1>5, StutterStep
  <1> QED
    BY <1>1, <1>2, <1>3, <1>4, <1>5 DEF PaymentNext

-----------------------------------------------------------------------------
(* Theorems. *)

\* The invariant of the handlers, in every reachable state: what each handler
\* in flight may rely on while the others run, fail and are answered late.
THEOREM Inductive == PaymentSpec => []IInv
  <1>1. PaymentInit => IInv
    BY InvInit
  <1>2. IInv /\ [PaymentNext]_paymentVars => IInv'
    BY InvStep
  <1> QED
    BY <1>1, <1>2, PTL DEF PaymentSpec

\* Rows, handlers and calls keep their types (service.go, models.go).
THEOREM TypeCorrect == PaymentSpec => []PaymentTypeOK
  <1>1. IInv => PaymentTypeOK
    BY DEF IInv
  <1> QED
    BY <1>1, Inductive, PTL

\* An invoice is paid exactly when one of its payments is recorded as a
\* success, for any number of handlers and sessions (service.go:563-608).
THEOREM PaidExactlyWhenSettled == PaymentSpec => []PaidIffSettled
  <1>1. IInv => PaidIffSettled
    BY DEF IInv
  <1> QED
    BY <1>1, Inductive, PTL

\* At most one payment of an invoice is ever recorded as a success (migration
\* 00002 with service.go:575-608).
THEOREM SettledOnce == PaymentSpec => []OneSuccessfulPay
  <1>1. IInv => OneSuccessfulPay
    BY DEF IInv
  <1> QED
    BY <1>1, Inductive, PTL

\* "success" is only said of a paid invoice (service.go:497-504, 591, 610).
THEOREM SuccessIsTrue == PaymentSpec => []SuccessReplyMeansPaid
  <1>1. IInv => SuccessReplyMeansPaid
    BY DEF IInv
  <1> QED
    BY <1>1, Inductive, PTL

\* A written row says what the gateway answered to its own call
\* (service.go:295-306, 432-443, 575-608).
THEOREM RecordsAreTrue == PaymentSpec => []RecordAgreesWithGateway
  <1>1. IInv => RecordAgreesWithGateway
    BY DEF IInv
  <1> QED
    BY <1>1, Inductive, PTL

\* No row mixes tenants (service.go:223-247, 323-347, 460-491).
THEOREM TenantsStayApart == PaymentSpec => []RowsKeepTenancy
  <1>1. IInv => RowsKeepTenancy
    BY DEF IInv
  <1> QED
    BY <1>1, Inductive, PTL
=============================================================================
