---------------------------- MODULE ChargeProofs -----------------------------
(* Who may be charged: how payments of Payment come to be and end, and the  *)
(* theorem that an invoice whose requests are served one after another is   *)
(* charged once.                                                            *)
EXTENDS AuthProofs

-----------------------------------------------------------------------------
(* Payments that are or may yet be approved.                                *)

\* An answer of the gateway is not taken back.
LEMMA AnswersStay ==
    ASSUME IInv, [PaymentNext]_paymentVars, NEW t \in DOMAIN tx,
           call[t] # "sent"
    PROVE  call'[t] = call[t]
  <1>0. /\ call \in Seq(CallStates) /\ DOMAIN call = DOMAIN tx
        /\ tx \in Seq(TxRow)
    BY DEF IInv, PaymentTypeOK, TablesTypeOK
  <1>1. CASE call' = Append(call, "sent")
    BY <1>0, <1>1
  <1>2. CASE call' = call
    BY <1>2
  <1>3. ASSUME NEW w \in Workers, Arrive(w)
        PROVE  call' = call \/ call' = Append(call, "sent")
    BY <1>3 DEF Arrive, RefuseRequest, InitiateAuth, ProcessAuth,
                FinalizePayment
  <1>4. ASSUME NEW w \in Workers, Handle(w) \/ Abort(w)
        PROVE  call' = call \/ call' = Append(call, "sent")
    <2>1. FinishInitiateAuth(w) \/ FinishProcessAuth(w) \/ RecordDecline(w)
          => call' = call
      BY FinishWrites
    <2>2. SendAuthenticate(w) \/ SendPay(w) => call' = Append(call, "sent")
      BY DEF SendAuthenticate, SendPay, Send
    <2>3. SettleCommit(w) => call' = call
      BY DEF SettleCommit
    <2> QED
      BY <1>4, <2>1, <2>2, <2>3, ReadsKeepTables DEF Handle
  <1>5. CASE Serve
    BY <1>1, <1>2, <1>3, <1>4, <1>5 DEF Serve
  <1>6. ASSUME NEW u \in DOMAIN call, GatewayAnswers(u)
        PROVE  call'[t] = call[t]
    BY <1>0, <1>6 DEF GatewayAnswers
  <1>7. CASE Environment
    BY <1>2, <1>6, <1>7 DEF Environment, Expire
  <1>8. CASE Crash \/ Open \/ UNCHANGED paymentVars
    BY <1>2, <1>8 DEF Crash, Open, OpenSession, paymentVars
  <1> QED
    BY <1>5, <1>7, <1>8 DEF PaymentNext

\* A new payment is that of a handler that waits for its answer.
LEMMA NewPayment ==
    ASSUME IInv, [PaymentNext]_paymentVars,
           NEW t \in DOMAIN tx' \ DOMAIN tx, tx'[t].type = "pay"
    PROVE  /\ t = Len(tx) + 1
           /\ \E w \in Workers :
                /\ worker[w].pc = "send_pay"
                /\ worker'[w].pc = "pay_sent"
                /\ worker'[w].tx = t
  <1>0. worker \in [Workers -> WorkerRecord]
    BY DEF IInv, PaymentTypeOK
  <1>1. t = Len(tx) + 1
    BY NewRow
  <1>2. ASSUME NEW w \in Workers, Arrive(w)
        PROVE  FALSE
    <2>1. worker[w].pc = "send_pay"
      BY <1>2, ArriveInserts DEF Inserts
    <2> QED
      BY <1>2, <2>1 DEF Arrive, RefuseRequest, InitiateAuth, ProcessAuth,
                        FinalizePayment, Ready, Busy
  <1>3. ASSUME NEW w \in Workers, Handle(w) \/ Abort(w)
        PROVE  /\ worker[w].pc = "send_pay"
               /\ worker'[w].pc = "pay_sent"
               /\ worker'[w].tx = t
    <2>1. /\ worker[w].pc = "send_pay"
          /\ worker'[w].tx = t
      BY <1>3, HandleInserts DEF Inserts
    <2>2. tx' # tx
      OBVIOUS
    <2>3. SendPay(w)
      BY <1>3, <2>1, <2>2
         DEF Handle, Abort, FinishInitiateAuth, SendAuthenticate,
             FinishProcessAuth, CheckUnpaid, CheckExisting, FindAuth,
             ReceiveApproval, SettleWrite, SettleCommit, RecordDecline,
             Timeout, Waiting, tables
    <2> QED
      BY <1>0, <2>1, <2>3 DEF SendPay, Send, Request
  <1>4. CASE Serve
    BY <1>1, <1>2, <1>3, <1>4 DEF Serve
  <1>5. CASE Crash \/ Environment \/ Open \/ UNCHANGED paymentVars
    BY <1>5 DEF Crash, Environment, GatewayAnswers, Expire, Open,
                OpenSession, paymentVars, tables
  <1> QED
    BY <1>4, <1>5 DEF PaymentNext

LEMMA OpenPaysStep ==
    ASSUME IInv, [PaymentNext]_paymentVars
    PROVE  \A t \in OpenPays' :
            \/ t \in OpenPays
            \/ /\ t = Len(tx) + 1
               /\ \E w \in Workers :
                    /\ worker[w].pc = "send_pay"
                    /\ worker'[w].pc = "pay_sent"
                    /\ worker'[w].tx = t
  <1> SUFFICES ASSUME NEW t \in OpenPays'
               PROVE  \/ t \in OpenPays
                      \/ /\ t = Len(tx) + 1
                         /\ \E w \in Workers :
                            /\ worker[w].pc = "send_pay"
                            /\ worker'[w].pc = "pay_sent"
                            /\ worker'[w].tx = t
    OBVIOUS
  <1>1. t \in DOMAIN tx' /\ tx'[t].type = "pay" /\ call'[t] # "DECLINED"
    BY DEF OpenPays
  <1>2. CASE t \in DOMAIN tx
    <2>1. tx[t].type = "pay"
      BY <1>1, <1>2, StepKeeps DEF Kept, SameRow
    <2>2. call[t] # "DECLINED"
      BY <1>1, <1>2, AnswersStay
    <2> QED
      BY <1>2, <2>1, <2>2 DEF OpenPays
  <1>3. CASE t \notin DOMAIN tx
    BY <1>1, <1>3, NewPayment
  <1> QED
    BY <1>2, <1>3

-----------------------------------------------------------------------------
(* Handlers of finalize.                                                    *)

Paying == {"check_existing", "find_auth", "send_pay"}

\* Whoever comes to a payment has just read the invoice unpaid, or is past
\* that.
LEMMA PayingMoves ==
    ASSUME IInv, NEW w \in Workers, Handle(w) \/ Abort(w),
           worker'[w].pc \in Paying
    PROVE  \/ worker[w].pc \in Paying
           \/ /\ worker[w].pc = "check_unpaid"
              /\ invoice[worker[w].invoice] # "paid"
  <1>0. worker \in [Workers -> WorkerRecord]
    BY DEF IInv, PaymentTypeOK
  <1>1. CASE \E r : Reply(w, worker[w].invoice, r)
    BY <1>0, <1>1 DEF Reply, Answered, Paying
  <1>2. CASE ~ \E r : Reply(w, worker[w].invoice, r)
    <2>1. \/ CheckUnpaid(w) \/ CheckExisting(w) \/ FindAuth(w)
          \/ SendAuthenticate(w) \/ SendPay(w)
          \/ ReceiveApproval(w) \/ SettleWrite(w)
      BY <1>2 DEF Handle, FinishInitiateAuth, FinishProcessAuth,
                  RecordDecline, SettleCommit, Timeout, Abort
    <2>2. CheckUnpaid(w) => invoice[worker[w].invoice] # "paid"
      BY <1>2 DEF CheckUnpaid
    <2>3. SendAuthenticate(w) \/ ReceiveApproval(w) \/ SettleWrite(w) => FALSE
      <3>1. \A pc : Goto(w, pc) => worker'[w].pc = pc
        BY <1>0 DEF Goto, WorkerRecord
      <3>2. SendAuthenticate(w) => worker'[w].pc = "authenticate_sent"
        BY <1>0 DEF SendAuthenticate, Send, Request
      <3> QED
        BY <1>2, <3>1, <3>2 DEF ReceiveApproval, SettleWrite, Paying
    <2> QED
      BY <2>1, <2>2, <2>3
         DEF CheckUnpaid, CheckExisting, FindAuth, SendPay, Paying
  <1> QED
    BY <1>1, <1>2

\* What becomes of the handler of a payment.
LEMMA PayOwnerMoves ==
    ASSUME IInv, NEW w \in Workers, Handle(w) \/ Abort(w), PayOwner(w)
    PROVE  \/ PayOwner(w)' /\ worker'[w].tx = worker[w].tx
           \/ invoice'[worker[w].invoice] = "paid"
           \/ worker'[w].pc = "idle" /\ worker'[w].reply # "declined"
           \/ call'[worker[w].tx] = "DECLINED"
  <1>0. worker \in [Workers -> WorkerRecord]
    BY DEF IInv, PaymentTypeOK
  <1>1. ASSUME NEW r, Reply(w, worker[w].invoice, r), r # "declined"
        PROVE  worker'[w].pc = "idle" /\ worker'[w].reply # "declined"
    BY <1>0, <1>1 DEF Reply, Answered
  <1>2. ASSUME NEW pc \in {"approved", "settling"}, Goto(w, pc)
        PROVE  PayOwner(w)' /\ worker'[w].tx = worker[w].tx
    BY <1>0, <1>2 DEF Goto, PayOwner, WorkerRecord
  <1>3. CASE ReceiveApproval(w)
    BY <1>2, <1>3 DEF ReceiveApproval
  <1>4. CASE SettleWrite(w)
    BY <1>1, <1>2, <1>4 DEF SettleWrite
  <1>5. CASE SettleCommit(w)
    <2>1. /\ worker[w].invoice \in Invoices
          /\ invoice \in [Invoices -> InvoiceStatuses]
      BY <1>0 DEF IInv, PaymentTypeOK, TablesTypeOK, StoreTypeOK,
                  WorkerRecord
    <2> QED
      BY <1>5, <2>1 DEF SettleCommit, UpdateInvoiceStatus
  <1>6. CASE RecordDecline(w)
    <2>1. /\ worker[w].tx \in DOMAIN tx
          /\ tx[worker[w].tx].type = "pay"
          /\ call[worker[w].tx] \notin {"sent", "APPROVED"}
      BY <1>6 DEF RecordDecline, Waiting, IInv, HandlersOwnRows, Owner,
                  PayOwner
    <2>2. call[worker[w].tx] = "DECLINED"
      BY <2>1 DEF IInv, AnswersFitCalls, Answers
    <2> QED
      BY <1>6, <2>2 DEF RecordDecline
  <1>7. CASE Timeout(w)
    BY <1>1, <1>7 DEF Timeout
  <1>8. CASE Abort(w)
    BY <1>1, <1>8 DEF Abort
  <1> QED
    BY <1>3, <1>4, <1>5, <1>6, <1>7, <1>8
       DEF Handle, PayOwner, FinishInitiateAuth, SendAuthenticate,
           FinishProcessAuth, CheckUnpaid, CheckExisting, FindAuth, SendPay,
           Waiting

-----------------------------------------------------------------------------
(* Requests served one after another.                                       *)

\* A handler of a payment that nothing happens to ends with the invoice paid
\* or the payment declined.
LEMMA PayOwnerEnds ==
    ASSUME IInv, Serial, NEW w \in Workers, Handle(w), PayOwner(w)
    PROVE  \/ PayOwner(w)' /\ worker'[w].tx = worker[w].tx
           \/ invoice'[worker[w].invoice] = "paid"
           \/ call'[worker[w].tx] = "DECLINED"
  <1>0. worker \in [Workers -> WorkerRecord]
    BY DEF IInv, PaymentTypeOK
  <1>1. CASE SettleWrite(w) /\ ~PaySlotFree(worker[w].invoice)
    <2>1. worker[w].invoice \in Invoices
      BY <1>0 DEF WorkerRecord
    <2>2. invoice[worker[w].invoice] = "paid"
      BY <1>1, <2>1 DEF PaySlotFree, IInv, PaidIffSettled, SuccessfulPays
    <2>3. invoice' = invoice
      BY <1>1 DEF SettleWrite, tables, storeVars
    <2> QED
      BY <2>2, <2>3
  <1>2. CASE SettleWrite(w) /\ PaySlotFree(worker[w].invoice)
    <2>1. Goto(w, "settling")
      BY <1>2 DEF SettleWrite
    <2> QED
      BY <1>0, <2>1 DEF Goto, PayOwner, WorkerRecord
  <1>3. CASE ReceiveApproval(w)
    BY <1>0, <1>3 DEF ReceiveApproval, Goto, PayOwner, WorkerRecord
  <1>4. CASE SettleCommit(w)
    <2>1. /\ worker[w].invoice \in Invoices
          /\ invoice \in [Invoices -> InvoiceStatuses]
      BY <1>0 DEF IInv, PaymentTypeOK, TablesTypeOK, StoreTypeOK,
                  WorkerRecord
    <2> QED
      BY <1>4, <2>1 DEF SettleCommit, UpdateInvoiceStatus
  <1>5. CASE RecordDecline(w)
    <2>1. call'[worker[w].tx] = "DECLINED"
      <3>1. /\ worker[w].tx \in DOMAIN tx
            /\ tx[worker[w].tx].type = "pay"
            /\ call[worker[w].tx] \notin {"sent", "APPROVED"}
        BY <1>5 DEF RecordDecline, Waiting, IInv, HandlersOwnRows, Owner,
                    PayOwner
      <3>2. call[worker[w].tx] = "DECLINED"
        BY <3>1 DEF IInv, AnswersFitCalls, Answers
      <3> QED
        BY <1>5, <3>2 DEF RecordDecline
    <2> QED
      BY <2>1
  <1>6. ~Timeout(w)
    BY DEF Timeout, Serial
  <1> QED
    BY <1>1, <1>2, <1>3, <1>4, <1>5, <1>6
       DEF Handle, PayOwner, FinishInitiateAuth, SendAuthenticate,
           FinishProcessAuth, CheckUnpaid, CheckExisting, FindAuth, SendPay,
           Waiting

\* What moves a handler when nothing goes wrong: a request that comes in and
\* starts no payment yet, or the handler's own next step.
LEMMA SerialMoves ==
    ASSUME IInv, Serial, [PaymentNext]_paymentVars, NEW w \in Workers
    PROVE  \/ worker'[w] = worker[w]
           \/ ~Busy(w) /\ worker'[w].pc \notin Paying
           \/ Handle(w)
  <1>1. ASSUME NEW v \in Workers, Arrive(v)
        PROVE  ~Busy(w) /\ (worker'[w] = worker[w] \/ worker'[w].pc \notin Paying)
    <2>1. v = w
      BY DEF Serial
    <2>2. ~Busy(w)
      BY <1>1, <2>1 DEF Arrive, RefuseRequest, InitiateAuth, ProcessAuth,
                        FinalizePayment, Ready
    <2> QED
      BY <1>1, <2>2, ArrivalMoves DEF Begins, Paying
  <1>2. ASSUME NEW v \in Workers, Handle(v) \/ Abort(v)
        PROVE  Handle(w)
    BY <1>2 DEF Serial, Abort
  <1>3. CASE Serve
    BY <1>1, <1>2, <1>3 DEF Serve
  <1>4. ~Crash
    BY DEF Crash, Serial
  <1>5. CASE Environment \/ Open \/ UNCHANGED paymentVars
    BY <1>5 DEF Environment, GatewayAnswers, Expire, Open, OpenSession,
                paymentVars
  <1> QED
    BY <1>3, <1>4, <1>5 DEF PaymentNext

LEMMA SerialStep ==
    ASSUME IInv, Serial, [PaymentNext]_paymentVars,
           NEW i \in Invoices, OnePaymentOf(i)
    PROVE  OnePaymentOf(i)'
  <1>0. Kept
    BY StepKeeps
  <1>1. \A t \in DOMAIN tx : tx'[t].invoice = tx[t].invoice
    BY <1>0 DEF Kept, SameRow
  \* A new payment is that of the one handler, which has read the invoice.
  <1>2. ASSUME NEW t \in OpenPaysOf(i)', t \notin OpenPaysOf(i)
        PROVE  /\ OpenPaysOf(i) = {}
               /\ \A x \in OpenPaysOf(i)' : x = Len(tx) + 1
               /\ \E w \in Workers :
                    /\ worker'[w].pc = "pay_sent"
                    /\ worker'[w].tx = Len(tx) + 1
    <2>1. t \in OpenPays' /\ tx'[t].invoice = i /\ t \in DOMAIN tx'
          /\ tx'[t].type = "pay"
      BY DEF OpenPaysOf, OpenPays
    <2>2. t \notin OpenPays
      <3>1. t \in OpenPays => t \in DOMAIN tx
        BY DEF OpenPays
      <3> QED
        BY <1>1, <1>2, <2>1, <3>1 DEF OpenPaysOf
    <2>3. /\ t = Len(tx) + 1
          /\ \E w \in Workers : worker'[w].pc = "pay_sent" /\ worker'[w].tx = t
      BY <2>1, <2>2, OpenPaysStep
    <2>4. t \notin DOMAIN tx
      BY <2>3 DEF IInv, PaymentTypeOK, TablesTypeOK
    <2>5. \E w \in Workers :
            worker[w].pc = "send_pay" /\ worker[w].invoice = i
      BY <2>1, <2>4, NewAttempt
    <2>6. OpenPaysOf(i) = {}
      BY <2>5 DEF OnePaymentOf
    <2>7. ASSUME NEW x \in OpenPaysOf(i)'
          PROVE  x = Len(tx) + 1
      <3>1. x \in OpenPays' /\ tx'[x].invoice = i
        BY DEF OpenPaysOf
      <3>2. x \notin OpenPays
        <4>1. x \in OpenPays => x \in DOMAIN tx
          BY DEF OpenPays
        <4> QED
          BY <1>1, <2>6, <3>1, <4>1 DEF OpenPaysOf
      <3> QED
        BY <3>1, <3>2, OpenPaysStep
    <2> QED
      BY <2>3, <2>6, <2>7
  <1>3. \A t, u \in OpenPaysOf(i)' : t = u
    <2>1. CASE OpenPaysOf(i)' \subseteq OpenPaysOf(i)
      BY <2>1 DEF OnePaymentOf
    <2>2. CASE ~ OpenPaysOf(i)' \subseteq OpenPaysOf(i)
      BY <1>2, <2>2
    <2> QED
      BY <2>1, <2>2
  <1> DEFINE Safe == \/ invoice'[i] = "paid"
                     \/ \E w \in Workers :
                          /\ PayOwner(w)'
                          /\ OpenPaysOf(i)' \subseteq {worker'[w].tx}
  <1>4. ASSUME OpenPaysOf(i)' # {}, OpenPaysOf(i)' \subseteq OpenPaysOf(i)
        PROVE  Safe
    <2>1. CASE invoice[i] = "paid"
      BY <1>0, <2>1 DEF Kept
    <2>2. ASSUME NEW w \in Workers, PayOwner(w),
                 OpenPaysOf(i) \subseteq {worker[w].tx}
          PROVE  Safe
      <3>1. CASE PayOwner(w)' /\ worker'[w].tx = worker[w].tx
        BY <1>4, <2>2, <3>1
      <3>2. CASE worker'[w] = worker[w]
        BY <2>2, <3>1, <3>2 DEF PayOwner
      <3>3. CASE Handle(w) /\ invoice'[worker[w].invoice] = "paid"
        <4>1. worker[w].tx \in OpenPaysOf(i)
          BY <1>4, <2>2
        <4>2. worker[w].invoice = i
          BY <2>2, <4>1 DEF OpenPaysOf, IInv, HandlersOwnRows, Owner, PayOwner
        <4> QED
          BY <3>3, <4>2
      <3>4. CASE call'[worker[w].tx] = "DECLINED"
        <4>1. \A t \in OpenPaysOf(i)' : t = worker[w].tx
          BY <1>4, <2>2
        <4>2. \A t \in OpenPaysOf(i)' : call'[t] # "DECLINED"
          BY DEF OpenPaysOf, OpenPays
        <4> QED
          BY <1>4, <3>4, <4>1, <4>2
      <3>5. Busy(w)
        BY <2>2 DEF PayOwner, Busy
      <3> QED
        BY <2>2, <3>1, <3>2, <3>3, <3>4, <3>5, SerialMoves, PayOwnerEnds
    <2> QED
      BY <1>4, <2>1, <2>2 DEF OnePaymentOf
  <1>5. OpenPaysOf(i)' # {} => Safe
    <2>1. CASE ~ OpenPaysOf(i)' \subseteq OpenPaysOf(i)
      BY <1>2, <2>1 DEF PayOwner
    <2> QED
      BY <1>4, <2>1
  <1>6. ASSUME OpenPaysOf(i)' # {}, NEW w \in Workers,
               worker'[w].pc \in Paying, worker'[w].invoice = i
        PROVE  FALSE
    <2>1. \A v \in Workers : v = w
      BY DEF Serial
    <2>2. OpenPaysOf(i)' \subseteq OpenPaysOf(i)
      BY <1>2, <1>6, <2>1 DEF Paying
    <2>3. OpenPaysOf(i) # {}
      BY <1>6, <2>2
    <2>4. ~ (worker[w].pc \in Paying /\ worker[w].invoice = i)
      BY <2>3 DEF OnePaymentOf, Paying
    <2>5. Handle(w)
      BY <1>6, <2>4, SerialMoves
    <2>6. worker[w].invoice = i
      BY <1>6, <2>5, HandlerMoves DEF Continues, Paying
    <2>7. worker[w].pc = "check_unpaid" /\ invoice[i] # "paid"
      BY <1>6, <2>4, <2>5, <2>6, PayingMoves
    <2>8. \A v \in Workers : ~PayOwner(v)
      BY <2>1, <2>7 DEF PayOwner
    <2> QED
      BY <2>3, <2>7, <2>8 DEF OnePaymentOf
  <1> QED
    BY <1>3, <1>5, <1>6 DEF OnePaymentOf, Paying

\* While requests are served one after another, an invoice has one payment
\* that is, or may yet be, approved, and no handler on the way to a second
\* (service.go:493-611).
THEOREM SerialInductive == PaymentSpec => [](IInv /\ SerialInv)
  <1>1. PaymentInit => IInv /\ SerialInv
    <2>1. PaymentInit => \A i \in Invoices : OpenPaysOf(i) = {}
      BY DEF PaymentInit, TablesInit, OpenPaysOf, OpenPays
    <2> QED
      BY <2>1, InvInit DEF SerialInv, OnePaymentOf
  <1>2. IInv /\ SerialInv /\ [PaymentNext]_paymentVars => (IInv /\ SerialInv)'
    <2>1. ASSUME IInv, SerialInv, [PaymentNext]_paymentVars, Serial
          PROVE  \A i \in Invoices : OnePaymentOf(i)'
      BY <2>1, SerialStep DEF SerialInv
    <2> QED
      BY <2>1, InvStep DEF SerialInv, Serial
  <1> QED
    BY <1>1, <1>2, PTL DEF PaymentSpec

\* Requests served one after another, of which nothing is lost but the
\* acknowledgement of a write, charge an invoice once (service.go:493-611);
\* two requests at a time may charge it twice, as the run DoubleCharge shows.
THEOREM ChargedOnceSerially == PaymentSpec => [](Serial => NoDoubleCharge)
  <1>1. IInv /\ SerialInv => (Serial => NoDoubleCharge)
    <2> SUFFICES ASSUME IInv, \A i \in Invoices : OnePaymentOf(i),
                        NEW t \in DOMAIN tx, call[t] = "APPROVED",
                        NEW u \in DOMAIN tx, call[u] = "APPROVED",
                        tx[t].invoice = tx[u].invoice
                 PROVE  t = u
      BY DEF SerialInv, NoDoubleCharge
    <2>1. \A x \in DOMAIN tx : call[x] = "APPROVED" => tx[x].type = "pay"
      BY DEF IInv, AnswersFitCalls, Answers
    <2>2. tx[t].invoice \in Invoices
      BY RowType DEF TxRow
    <2>3. t \in OpenPaysOf(tx[t].invoice) /\ u \in OpenPaysOf(tx[t].invoice)
      BY <2>1 DEF OpenPaysOf, OpenPays
    <2> QED
      BY <2>2, <2>3 DEF OnePaymentOf
  <1> QED
    BY <1>1, SerialInductive, PTL
=============================================================================
