---------------------------- MODULE LedgerProofs ----------------------------
(* The payment service implements the ledger: every step of a handler, of   *)
(* the gateway or of the clock is a charge, a settlement or none of the     *)
(* ledger's business.  From the invariant of PaymentProofs.                 *)
EXTENDS PaymentProofs

Charges == {<<tx[t].invoice, t>> : t \in Approved}

Settlements == {<<tx[t].invoice, t>> : t \in Settled}

PaidInvoices == {i \in Invoices : invoice[i] = "paid"}

LedgerStep == [L!LedgerNext]_(L!ledgerVars)

\* Three ways to see a step of the ledger through the mapping.
LEMMA IdleLedger ==
    ASSUME Charges' = Charges, Settlements' = Settlements,
           PaidInvoices' = PaidInvoices
    PROVE  LedgerStep
  BY DEF LedgerStep, L!ledgerVars, Charges, Settlements, PaidInvoices

LEMMA LedgerCharges ==
    ASSUME NEW c, c \notin Charges, c[1] \in Invoices,
           Charges' = Charges \cup {c},
           Settlements' = Settlements, PaidInvoices' = PaidInvoices
    PROVE  LedgerStep
  BY DEF LedgerStep, L!LedgerNext, L!Charge, Charges, Settlements,
         PaidInvoices

LEMMA LedgerSettles ==
    ASSUME NEW c \in Charges, \A e \in Settlements : e[1] # c[1],
           Charges' = Charges, Settlements' = Settlements \cup {c},
           PaidInvoices' = PaidInvoices \cup {c[1]}
    PROVE  LedgerStep
  BY DEF LedgerStep, L!LedgerNext, L!Settle, Charges, Settlements,
         PaidInvoices

-----------------------------------------------------------------------------

\* A step that leaves rows, calls and invoices alone is no step of the ledger.
LEMMA NoMoney ==
    ASSUME invoice' = invoice, tx' = tx, call' = call
    PROVE  LedgerStep
  <1>1. /\ Charges' = Charges
        /\ Settlements' = Settlements
        /\ PaidInvoices' = PaidInvoices
    BY DEF Charges, Approved, Settlements, Settled, PaidInvoices
  <1> QED
    BY <1>1, IdleLedger

\* An inserted row is pending and its call is not answered yet.
LEMMA InsertIsIdle ==
    ASSUME IInv, NEW s \in Nat, NEW i \in Invoices, NEW type \in TxTypes,
           NEW gw \in Nat, NEW au \in Nat,
           CreateTransaction(s, i, type, gw, au),
           call' = Append(call, "sent"),
           invoice' = invoice
    PROVE  LedgerStep
  <1> DEFINE n == Len(tx) + 1
  <1>1. /\ DOMAIN tx' = DOMAIN tx \cup {n}
        /\ n \notin DOMAIN tx
        /\ \A t \in DOMAIN tx : tx'[t] = tx[t]
        /\ tx'[n].status = "pending"
    <2>1. TablesTypeOK
      BY DEF IInv, PaymentTypeOK
    <2> QED
      BY <2>1, InsertRow DEF CreateTransaction
  <1>2. call \in Seq(CallStates) /\ Len(call) = Len(tx)
    BY DEF IInv, PaymentTypeOK
  <1>3. /\ \A t \in DOMAIN tx : call'[t] = call[t]
        /\ call'[n] = "sent"
    <2>1. "sent" \in CallStates /\ DOMAIN tx = 1 .. Len(tx)
      BY DEF IInv, PaymentTypeOK, TablesTypeOK, CallStates
    <2> QED
      BY <1>2, <2>1
  <1>4. Approved' = Approved
    BY <1>1, <1>3 DEF Approved
  <1>5. Settled' = Settled
    BY <1>1 DEF Settled
  <1>6. Charges' = Charges
    BY <1>1, <1>4 DEF Charges, Approved
  <1>7. Settlements' = Settlements
    BY <1>1, <1>5 DEF Settlements, Settled
  <1>8. PaidInvoices' = PaidInvoices
    BY DEF PaidInvoices
  <1> QED
    BY <1>6, <1>7, <1>8, IdleLedger

\* An update that makes no pay row a success settles nothing.
LEMMA UpdateIsIdle ==
    ASSUME IInv, NEW t \in DOMAIN tx, NEW st \in TxStatuses,
           UpdateTransactionStatus(t, st),
           tx[t].status = "pending",
           tx[t].type = "pay" => st # "success",
           call' = call, invoice' = invoice
    PROVE  LedgerStep
  <1>1. /\ DOMAIN tx' = DOMAIN tx
        /\ \A u \in DOMAIN tx : u # t => tx'[u] = tx[u]
        /\ tx'[t] = [tx[t] EXCEPT !.status = st]
    BY UpdateRow DEF IInv, PaymentTypeOK
  <1>2. /\ \A u \in DOMAIN tx :
            tx'[u].invoice = tx[u].invoice /\ tx'[u].type = tx[u].type
        /\ tx'[t].status = st
    BY <1>1, RowType DEF TxRow
  <1>3. Approved' = Approved
    BY <1>1 DEF Approved
  <1>4. Settled' = Settled
    BY <1>1, <1>2 DEF Settled
  <1>5. Charges' = Charges
    BY <1>2, <1>3 DEF Charges, Approved
  <1>6. Settlements' = Settlements
    BY <1>2, <1>4 DEF Settlements, Settled
  <1>7. PaidInvoices' = PaidInvoices
    BY DEF PaidInvoices
  <1> QED
    BY <1>5, <1>6, <1>7, IdleLedger

-----------------------------------------------------------------------------
(* The actions. *)

LEMMA ArriveLedger ==
    ASSUME IInv, NEW w \in Workers, Arrive(w)
    PROVE  LedgerStep
  <1> PICK p \in Projects, s \in 1 .. MaxSessions, i \in Invoices :
            \/ RefuseRequest(w, p, s, i)
            \/ InitiateAuth(w, p, s, i)
            \/ ProcessAuth(w, p, s, i)
            \/ FinalizePayment(w, p, s, i)
    BY DEF Arrive
  <1>1. CASE InitiateAuth(w, p, s, i)
    <2>1. Len(tx) + 1 \in Nat /\ s \in Nat
      BY PaymentAssumption DEF PaymentAssumption, IInv, PaymentTypeOK,
                               TablesTypeOK
    <2> QED
      BY <1>1, <2>1, InsertIsIdle DEF InitiateAuth, TxTypes
  <1>2. CASE ~InitiateAuth(w, p, s, i)
    BY <1>2, NoMoney DEF RefuseRequest, ProcessAuth, FinalizePayment, tables,
                         storeVars
  <1> QED
    BY <1>1, <1>2

LEMMA SendLedger ==
    ASSUME IInv, NEW w \in Workers, SendAuthenticate(w) \/ SendPay(w)
    PROVE  LedgerStep
  <1>1. /\ worker[w].session \in Nat /\ worker[w].auth \in Nat
        /\ worker[w].invoice \in Invoices
        /\ Len(tx) + 1 \in Nat
    BY DEF IInv, PaymentTypeOK, TablesTypeOK, WorkerRecord
  <1>2. CASE SendAuthenticate(w)
    BY <1>1, <1>2, InsertIsIdle DEF SendAuthenticate, Send, TxTypes
  <1>3. CASE SendPay(w)
    BY <1>1, <1>3, InsertIsIdle DEF SendPay, Send, TxTypes
  <1> QED
    BY <1>2, <1>3

LEMMA FinishLedger ==
    ASSUME IInv, NEW w \in Workers,
           FinishInitiateAuth(w) \/ FinishProcessAuth(w) \/ RecordDecline(w)
    PROVE  LedgerStep
  <1> DEFINE t == worker[w].tx
  <1>1. Owner(w) /\ call' = call /\ invoice' = invoice
    BY DEF FinishInitiateAuth, FinishProcessAuth, RecordDecline, Waiting, Owner
  <1>2. /\ t \in DOMAIN tx
        /\ tx[t].status = "pending"
        /\ tx[t].type = "pay" <=> PayOwner(w)
    BY <1>1 DEF IInv, HandlersOwnRows
  <1>3. CASE RecordDecline(w)
    BY <1>1, <1>2, <1>3, UpdateIsIdle DEF RecordDecline, TxStatuses
  <1>4. CASE FinishInitiateAuth(w) \/ FinishProcessAuth(w)
    <2>1. tx[t].type # "pay"
      BY <1>2, <1>4 DEF FinishInitiateAuth, FinishProcessAuth, Waiting,
                        PayOwner
    <2>2. \E st \in TxStatuses : UpdateTransactionStatus(t, st)
      BY <1>4 DEF FinishInitiateAuth, FinishProcessAuth, TxStatuses
    <2> QED
      BY <1>1, <1>2, <2>1, <2>2, UpdateIsIdle
  <1> QED
    BY <1>3, <1>4

\* The commit settles the approved row of an invoice that nothing settled.
LEMMA SettleLedger ==
    ASSUME IInv, NEW w \in Workers, SettleCommit(w)
    PROVE  LedgerStep
  <1> DEFINE t == worker[w].tx
             i == worker[w].invoice
             c == <<i, t>>
  <1>1. /\ worker[w].pc = "settling" /\ Owner(w) /\ PayOwner(w)
        /\ UpdateTransactionStatus(t, "success")
        /\ UpdateInvoiceStatus(i, "paid")
        /\ call' = call
    BY DEF SettleCommit, Owner, PayOwner
  <1>2. /\ t \in DOMAIN tx /\ tx[t].invoice = i /\ tx[t].type = "pay"
        /\ call[t] = "APPROVED"
    BY <1>1 DEF IInv, HandlersOwnRows
  <1>3. SuccessfulPays(i) = {}
    BY <1>1 DEF IInv, SettlersAreAlone, PaySlotFree
  <1>4. i \in Invoices
    BY DEF IInv, PaymentTypeOK, WorkerRecord
  <1>5. /\ DOMAIN tx' = DOMAIN tx
        /\ \A u \in DOMAIN tx : u # t => tx'[u] = tx[u]
        /\ tx'[t] = [tx[t] EXCEPT !.status = "success"]
    BY <1>1, <1>2, UpdateRow DEF IInv, PaymentTypeOK, TxStatuses
  <1>6. /\ \A u \in DOMAIN tx :
            tx'[u].invoice = tx[u].invoice /\ tx'[u].type = tx[u].type
        /\ tx'[t].status = "success"
    BY <1>2, <1>5, RowType DEF TxRow
  <1>7. Approved' = Approved /\ t \in Approved
    BY <1>1, <1>2, <1>5 DEF Approved
  <1>8. Settled' = Settled \cup {t}
    <2>1. t \in Settled'
      BY <1>2, <1>5, <1>6 DEF Settled
    <2>2. \A u \in DOMAIN tx : u # t => (u \in Settled' <=> u \in Settled)
      BY <1>5 DEF Settled
    <2> QED
      BY <1>2, <1>5, <2>1, <2>2 DEF Settled
  <1>9. Charges' = Charges /\ c \in Charges
    BY <1>2, <1>6, <1>7 DEF Charges, Approved
  <1>10. Settlements' = Settlements \cup {c}
    BY <1>2, <1>6, <1>8 DEF Settlements, Settled
  <1>11. \A e \in Settlements : e[1] # i
    BY <1>3 DEF Settlements, Settled, SuccessfulPays
  <1>12. PaidInvoices' = PaidInvoices \cup {i}
    BY <1>1, <1>4 DEF PaidInvoices, UpdateInvoiceStatus, IInv, PaymentTypeOK,
                      TablesTypeOK, StoreTypeOK
  <1> QED
    BY <1>9, <1>10, <1>11, <1>12, LedgerSettles

LEMMA HandleLedger ==
    ASSUME IInv, NEW w \in Workers, Handle(w) \/ Abort(w)
    PROVE  LedgerStep
  <1>1. CASE SendAuthenticate(w) \/ SendPay(w)
    BY <1>1, SendLedger
  <1>2. CASE FinishInitiateAuth(w) \/ FinishProcessAuth(w) \/ RecordDecline(w)
    BY <1>2, FinishLedger
  <1>3. CASE SettleCommit(w)
    BY <1>3, SettleLedger
  <1>4. CASE CheckUnpaid(w) \/ CheckExisting(w) \/ FindAuth(w)
    BY <1>4, NoMoney DEF CheckUnpaid, CheckExisting, FindAuth, tables,
                         storeVars
  <1>5. CASE ReceiveApproval(w) \/ SettleWrite(w) \/ Timeout(w) \/ Abort(w)
    BY <1>5, NoMoney DEF ReceiveApproval, SettleWrite, Timeout, Abort, tables,
                         storeVars
  <1> QED
    BY <1>1, <1>2, <1>3, <1>4, <1>5 DEF Handle

\* The gateway approves: a charge.
LEMMA GatewayLedger ==
    ASSUME IInv, NEW t \in DOMAIN call, GatewayAnswers(t)
    PROVE  LedgerStep
  <1> PICK r \in Answers(tx[t].type) : call' = [call EXCEPT ![t] = r]
    BY DEF GatewayAnswers
  <1> DEFINE c == <<tx[t].invoice, t>>
  <1>1. call[t] = "sent" /\ tx' = tx /\ invoice' = invoice
    BY DEF GatewayAnswers, tables, storeVars
  <1>2. t \in DOMAIN tx /\ DOMAIN call = DOMAIN tx
    BY DEF IInv, PaymentTypeOK, TablesTypeOK
  <1>3. tx[t].invoice \in Invoices
    BY <1>2, RowType DEF TxRow
  <1>4. Settlements' = Settlements /\ PaidInvoices' = PaidInvoices
    BY <1>1 DEF Settlements, Settled, PaidInvoices
  <1>5. CASE r = "APPROVED"
    <2>1. Approved' = Approved \cup {t}
      BY <1>1, <1>2, <1>5 DEF Approved
    <2>2. Charges' = Charges \cup {c}
      BY <1>1, <2>1 DEF Charges
    <2>3. c \notin Charges
      BY <1>1 DEF Charges, Approved
    <2> QED
      BY <1>3, <1>4, <2>2, <2>3, LedgerCharges
  <1>6. CASE r # "APPROVED"
    <2>1. Approved' = Approved
      BY <1>1, <1>2, <1>6 DEF Approved
    <2>2. Charges' = Charges
      BY <1>1, <2>1 DEF Charges
    <2> QED
      BY <1>4, <2>2, IdleLedger
  <1> QED
    BY <1>5, <1>6

LEMMA LedgerStarts == PaymentInit => L!LedgerInit
  <1> SUFFICES ASSUME PaymentInit PROVE L!LedgerInit
    OBVIOUS
  <1>1. tx = <<>> /\ \A i \in Invoices : invoice[i] = "pending"
    BY DEF PaymentInit, TablesInit, StoreInit
  <1>2. Approved = {} /\ Settled = {}
    BY <1>1 DEF Approved, Settled
  <1> QED
    BY <1>1, <1>2 DEF L!LedgerInit

LEMMA LedgerSteps == IInv /\ [PaymentNext]_paymentVars => LedgerStep
  <1> SUFFICES ASSUME IInv, [PaymentNext]_paymentVars PROVE LedgerStep
    OBVIOUS
  <1>1. CASE Serve
    BY <1>1, ArriveLedger, HandleLedger DEF Serve
  <1>2. CASE Environment
    <2>1. CASE \E t \in DOMAIN call : GatewayAnswers(t)
      BY <2>1, GatewayLedger
    <2>2. CASE \E s \in DOMAIN session : Expire(s)
      BY <2>2, NoMoney DEF Expire, tables, storeVars
    <2> QED
      BY <1>2, <2>1, <2>2 DEF Environment
  <1>3. CASE Crash \/ Open
    BY <1>3, NoMoney DEF Crash, Open, OpenSession, tables, storeVars
  <1>4. CASE UNCHANGED paymentVars
    BY <1>4, NoMoney DEF paymentVars, tables, storeVars
  <1> QED
    BY <1>1, <1>2, <1>3, <1>4 DEF PaymentNext

-----------------------------------------------------------------------------

\* Every behaviour of the handlers, the gateway and the clock, for any number
\* of handlers and sessions, is one of the ledger: an invoice is settled at
\* most once, by a payment the gateway approved, is paid from that step on,
\* and nothing undoes it (service.go:459-611).
THEOREM ServiceImplementsLedger == PaymentSpec => ImplementsLedger
  <1>1. PaymentInit => L!LedgerInit
    BY LedgerStarts
  <1>2. IInv /\ [PaymentNext]_paymentVars => [L!LedgerNext]_(L!ledgerVars)
    BY LedgerSteps DEF LedgerStep
  <1> QED
    BY <1>1, <1>2, Inductive, PTL DEF PaymentSpec, ImplementsLedger,
                                      L!LedgerSpec
=============================================================================
