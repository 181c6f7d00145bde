------------------------------ MODULE Payment ------------------------------
(* service.InitiateAuth, ProcessAuth and FinalizePayment over the store and *)
(* the gateway.  A worker is a goroutine of the HTTP server that serves one *)
(* request after another; a step of it is one database statement or one     *)
(* call of the gateway.  Reads of columns no statement changes (the session *)
(* row, the invoice's project, the account) are made in the step that first *)
(* needs them.                                                              *)
(*                                                                          *)
(* The gateway is external: a call that was sent may be answered at any     *)
(* later time or never, also when nobody waits for the answer any more.     *)
EXTENDS Transactions, FiniteSets

CONSTANTS
    Workers,        \* requests the server handles at a time
    MaxSessions,    \* bound: rows of payment_sessions
    MaxTx,          \* bound: rows of transactions
    Faults          \* what may go wrong, see PaymentAssumption

\* timeout: the client gives up a gateway call, or its answer is an error;
\* abort: a statement fails or the request's context is cancelled;
\* lost_commit: a write is applied and its acknowledgement lost;
\* crash: the server stops.
ASSUME PaymentAssumption ==
    /\ MaxSessions \in Nat
    /\ MaxTx \in Nat
    /\ Faults \subseteq {"timeout", "abort", "lost_commit", "crash"}

VARIABLES
    worker,     \* the handlers
    call,       \* gateway: the call a row of transactions was inserted for
    expired     \* sessions whose expires_at has passed

SM == INSTANCE StateMachine

paymentVars == <<tables, worker, call, expired>>

-----------------------------------------------------------------------------

Pcs ==
    {"idle", "initiate_sent", "authenticate", "authenticate_sent",
     "check_unpaid", "check_existing", "find_auth", "send_pay", "pay_sent",
     "approved", "settling"}

Replies ==
    {"none", "authenticate", "cant_continue", "3ds_challenge", "pay",
     "success", "declined", "mismatch", "expired", "already_paid",
     "gateway_error", "internal_error"}

\* auth is the gateway transaction id the handler has read.
WorkerRecord ==
    [pc : Pcs, session : Nat, invoice : Invoices, tx : Nat, auth : Nat,
     reply : Replies]

\* What the gateway can answer to a call, as far as the handlers tell.
Answers(type) ==
    IF type = "pay" THEN {"APPROVED", "DECLINED"}
    ELSE {"SUCCESS", "FAILURE"} \cup
            {r \in {"PENDING"} : type = "authenticate_payer"}

CallStates ==
    {"sent", "SUCCESS", "PENDING", "FAILURE", "APPROVED", "DECLINED"}

PaymentTypeOK ==
    /\ TablesTypeOK
    /\ worker \in [Workers -> WorkerRecord]
    /\ call \in Seq(CallStates)
    /\ Len(call) = Len(tx)
    /\ expired \subseteq Nat

\* The invoice field of an idle worker is that of its last request.
PaymentInit ==
    /\ TablesInit
    /\ worker \in [Workers ->
        [pc : {"idle"}, session : {0}, invoice : Invoices, tx : {0},
         auth : {0}, reply : {"none"}]]
    /\ call = <<>>
    /\ expired = {}

-----------------------------------------------------------------------------
(* Control of a worker. *)

Busy(w) == worker[w].pc # "idle"

Goto(w, pc) == worker' = [worker EXCEPT ![w].pc = pc]

Request(w, s, i, pc, t, au) ==
    worker' = [worker EXCEPT ![w] =
        [pc |-> pc, session |-> s, invoice |-> i, tx |-> t, auth |-> au,
         reply |-> "none"]]

Answered(i, r) ==
    [pc |-> "idle", session |-> 0, invoice |-> i, tx |-> 0, auth |-> 0,
     reply |-> r]

Reply(w, i, r) == worker' = [worker EXCEPT ![w] = Answered(i, r)]

Waiting(w, pc) == worker[w].pc = pc /\ call[worker[w].tx] # "sent"

\* What else a handler may say whose last write was applied: its
\* acknowledgement was lost.
Unacknowledged == {r \in {"internal_error"} : "lost_commit" \in Faults}

\* Bound: a request starts only while the row it may insert would fit.
MayInsert(w) == worker[w].pc \in
    {"authenticate", "check_unpaid", "check_existing", "find_auth", "send_pay"}

Room == Len(tx) + Cardinality({w \in Workers : MayInsert(w)}) < MaxTx

\* Mutation: session and invoice are of the project, maybe not of each other.
ValidApart(p, s, i) ==
    /\ GetPaymentSessionByIDAndProject(s, p) # {}
    /\ GetInvoiceByIDAndProject(i, p) # {}

\* The session is found under the request's project and is the invoice's.
Valid(p, s, i) ==
    \E r \in GetPaymentSessionByIDAndProject(s, p) : session[r].invoice = i

Ready(w, p, s, i) == ~Busy(w) /\ Valid(p, s, i) /\ Room

\* Row and gateway call of one request: the row first, then the call, which
\* may never arrive ("sent" is all a crash between the two leaves).
Send(w, type, gw, au, pc) ==
    LET me == worker[w]
    IN  /\ CreateTransaction(me.session, me.invoice, type, gw, au)
        /\ call' = Append(call, "sent")
        /\ Request(w, me.session, me.invoice, pc, Len(tx) + 1, au)
        /\ UNCHANGED <<invoice, session, expired>>

RefuseRequest(w, p, s, i) ==
    LET found == GetPaymentSessionByIDAndProject(s, p)
    IN  /\ ~Busy(w)
        /\ \/ found = {} /\ Reply(w, i, "internal_error")
           \/ \E r \in found :
                session[r].invoice # i /\ Reply(w, i, "mismatch")
        /\ UNCHANGED <<tables, call, expired>>

-----------------------------------------------------------------------------
(* InitiateAuth: reads that never change, then the row and the call. *)

InitiateAuth(w, p, s, i) ==
    /\ Ready(w, p, s, i)
    /\ CreateTransaction(s, i, "initiate_authentication", Len(tx) + 1, 0)
    /\ call' = Append(call, "sent")
    /\ Request(w, s, i, "initiate_sent", Len(tx) + 1, 0)
    /\ UNCHANGED <<invoice, session, expired>>

\* The next step is the gateway's recommendation, whatever the result.
FinishInitiateAuth(w) ==
    LET t == worker[w].tx
    IN  /\ Waiting(w, "initiate_sent")
        /\ UpdateTransactionStatus(t,
                IF call[t] = "SUCCESS" THEN "success" ELSE "failed")
        /\ \E r \in {"authenticate", "cant_continue"} \cup Unacknowledged :
                Reply(w, worker[w].invoice, r)
        /\ UNCHANGED <<invoice, session, call, expired>>

-----------------------------------------------------------------------------
(* ProcessAuth: the latest row of the session, of whatever type, must be a  *)
(* success; its gateway id is the one authenticated.  Neither expiry nor    *)
(* the invoice's status is looked at.                                       *)

\* Mutation: the latest row may have any status.
ProcessAnyAuth(w, p, s, i) ==
    /\ Ready(w, p, s, i)
    /\ \E t \in GetLatestTransaction(s) :
        Request(w, s, i, "authenticate", 0, tx[t].gwTx)
    /\ UNCHANGED <<tables, call, expired>>

ProcessAuth(w, p, s, i) ==
    /\ Ready(w, p, s, i)
    /\ \/ /\ \A t \in GetLatestTransaction(s) : tx[t].status # "success"
          /\ Reply(w, i, "internal_error")
       \/ \E t \in GetLatestTransaction(s) :
            /\ tx[t].status = "success"
            /\ Request(w, s, i, "authenticate", 0, tx[t].gwTx)
    /\ UNCHANGED <<tables, call, expired>>

SendAuthenticate(w) ==
    /\ worker[w].pc = "authenticate"
    /\ Send(w, "authenticate_payer", worker[w].auth, 0, "authenticate_sent")

\* Mutation: the gateway's result is stored as the status.
FinishAuthRaw(w) ==
    /\ Waiting(w, "authenticate_sent")
    /\ UpdateTransactionStatus(worker[w].tx, call[worker[w].tx])
    /\ Reply(w, worker[w].invoice, "pay")
    /\ UNCHANGED <<invoice, session, call, expired>>

\* The next step is told by the presence of challenge HTML, whatever the
\* result.
FinishProcessAuth(w) ==
    LET t == worker[w].tx
    IN  /\ Waiting(w, "authenticate_sent")
        /\ UpdateTransactionStatus(t,
                IF call[t] \in {"SUCCESS", "PENDING"}
                THEN "success" ELSE "failed")
        /\ \E r \in {"3ds_challenge", "pay"} \cup Unacknowledged :
                Reply(w, worker[w].invoice, r)
        /\ UNCHANGED <<invoice, session, call, expired>>

-----------------------------------------------------------------------------
(* FinalizePayment: four reads, the row, the call, one database transaction *)

\* Mutation: expires_at is not looked at.
FinalizeExpired(w, p, s, i) ==
    /\ Ready(w, p, s, i)
    /\ Request(w, s, i, "check_unpaid", 0, 0)
    /\ UNCHANGED <<tables, call, expired>>

FinalizePayment(w, p, s, i) ==
    /\ Ready(w, p, s, i)
    /\ \/ s \in expired /\ Reply(w, i, "expired")
       \/ s \notin expired /\ Request(w, s, i, "check_unpaid", 0, 0)
    /\ UNCHANGED <<tables, call, expired>>

\* Mutation: the invoice's status is not looked at.
SkipCheckUnpaid(w) ==
    /\ worker[w].pc = "check_unpaid"
    /\ Goto(w, "check_existing")
    /\ UNCHANGED <<tables, call, expired>>

CheckUnpaid(w) ==
    LET i == worker[w].invoice
    IN  /\ worker[w].pc = "check_unpaid"
        /\ \/ invoice[i] = "paid" /\ Reply(w, i, "already_paid")
           \/ invoice[i] # "paid" /\ Goto(w, "check_existing")
        /\ UNCHANGED <<tables, call, expired>>

CheckExisting(w) ==
    LET existing == GetPayTransactionBySessionID(worker[w].session)
    IN  /\ worker[w].pc = "check_existing"
        /\ \/ existing # {} /\ Reply(w, worker[w].invoice, "success")
           \/ existing = {} /\ Goto(w, "find_auth")
           \* A failed query is taken for "none".
           \/ "abort" \in Faults /\ Goto(w, "find_auth")
        /\ UNCHANGED <<tables, call, expired>>

FindAuth(w) ==
    LET found == GetSuccessfulAuthTransaction(worker[w].session)
    IN  /\ worker[w].pc = "find_auth"
        /\ \/ found = {} /\ Reply(w, worker[w].invoice, "internal_error")
           \/ \E t \in found :
                worker' = [worker EXCEPT ![w].pc = "send_pay",
                                         ![w].auth = tx[t].gwTx]
        /\ UNCHANGED <<tables, call, expired>>

\* A fresh uuid for every attempt.
SendPay(w) ==
    /\ worker[w].pc = "send_pay"
    /\ Send(w, "pay", Len(tx) + 1, worker[w].auth, "pay_sent")

\* Mutation: every answer counts as an approval.
ReceiveAnyAnswer(w) ==
    /\ Waiting(w, "pay_sent")
    /\ Goto(w, "approved")
    /\ UNCHANGED <<tables, call, expired>>

ReceiveApproval(w) ==
    /\ Waiting(w, "pay_sent")
    /\ call[worker[w].tx] = "APPROVED"
    /\ Goto(w, "approved")
    /\ UNCHANGED <<tables, call, expired>>

\* Mutation: an uncommitted entry of the index is not waited for.
NobodySettling(i) == {}

\* Mutation: the lock is held from the approval on, by the waiting one too.
ApprovedOrSettling(i) ==
    {w \in Workers :
        worker[w].pc \in {"approved", "settling"} /\ worker[w].invoice = i}

\* BEGIN and the UPDATE of the row.  The UPDATE waits for a transaction that
\* has an entry of the same invoice in the unique index and has not ended.
Settling(i) ==
    {w \in Workers : worker[w].pc = "settling" /\ worker[w].invoice = i}

SettleWrite(w) ==
    LET i == worker[w].invoice
    IN  /\ worker[w].pc = "approved"
        /\ Settling(i) = {}
        /\ \/ PaySlotFree(i) /\ Goto(w, "settling")
           \/ ~PaySlotFree(i) /\ Reply(w, i, "internal_error")
        /\ UNCHANGED <<tables, call, expired>>

\* Mutation: the row and the invoice are not written in one transaction.
SettleApart(w) ==
    LET i == worker[w].invoice
    IN  /\ worker[w].pc = "settling"
        /\ UpdateTransactionStatus(worker[w].tx, "success")
        /\ \/ UpdateInvoiceStatus(i, "paid") /\ Reply(w, i, "success")
           \/ UNCHANGED invoice /\ Reply(w, i, "internal_error")
        /\ UNCHANGED <<session, call, expired>>

\* The UPDATE of the invoice and COMMIT: both rows become visible at once.
SettleCommit(w) ==
    LET i == worker[w].invoice
    IN  /\ worker[w].pc = "settling"
        /\ UpdateTransactionStatus(worker[w].tx, "success")
        /\ UpdateInvoiceStatus(i, "paid")
        /\ \E r \in {"success"} \cup Unacknowledged : Reply(w, i, r)
        /\ UNCHANGED <<session, call, expired>>

\* Mutation: any answer is recorded as a decline.
RecordAnyDecline(w) ==
    /\ Waiting(w, "pay_sent")
    /\ UpdateTransactionStatus(worker[w].tx, "failed")
    /\ Reply(w, worker[w].invoice, "declined")
    /\ UNCHANGED <<invoice, session, call, expired>>

\* Mutation: a declined payment fails the invoice.
RecordDeclineFailsInvoice(w) ==
    /\ Waiting(w, "pay_sent")
    /\ call[worker[w].tx] # "APPROVED"
    /\ UpdateTransactionStatus(worker[w].tx, "failed")
    /\ UpdateInvoiceStatus(worker[w].invoice, "failed")
    /\ Reply(w, worker[w].invoice, "declined")
    /\ UNCHANGED <<session, call, expired>>

RecordDecline(w) ==
    /\ Waiting(w, "pay_sent")
    /\ call[worker[w].tx] # "APPROVED"
    /\ UpdateTransactionStatus(worker[w].tx, "failed")
    /\ \E r \in {"declined"} \cup Unacknowledged :
            Reply(w, worker[w].invoice, r)
    /\ UNCHANGED <<invoice, session, call, expired>>

-----------------------------------------------------------------------------
(* What goes wrong, and the rest of the world. *)

Timeout(w) ==
    /\ "timeout" \in Faults
    /\ worker[w].pc \in {"initiate_sent", "authenticate_sent", "pay_sent"}
    /\ Reply(w, worker[w].invoice, "gateway_error")
    /\ UNCHANGED <<tables, call, expired>>

\* An open database transaction rolls back.
Abort(w) ==
    /\ "abort" \in Faults
    /\ Busy(w)
    /\ Reply(w, worker[w].invoice, "internal_error")
    /\ UNCHANGED <<tables, call, expired>>

LoseWorkers ==
    worker' = [w \in Workers |->
        IF Busy(w) THEN Answered(worker[w].invoice, "none") ELSE worker[w]]

Crash ==
    /\ "crash" \in Faults
    /\ \E w \in Workers : Busy(w)
    /\ LoseWorkers
    /\ UNCHANGED <<tables, call, expired>>

GatewayAnswers(t) ==
    /\ call[t] = "sent"
    /\ \E r \in Answers(tx[t].type) : call' = [call EXCEPT ![t] = r]
    /\ UNCHANGED <<tables, worker, expired>>

Expire(s) ==
    /\ s \notin expired
    /\ expired' = expired \cup {s}
    /\ UNCHANGED <<tables, worker, call>>

\* InitiateSession inserts a session (module Sessions).
OpenSession(i, a, k) ==
    /\ Len(session) < MaxSessions
    /\ AccountProject[a] = InvoiceProject[i]
    /\ IdempotencyKeyFree(i, k)
    /\ CreatePaymentSession(i, InvoiceProject[i], a, k)
    /\ UNCHANGED <<invoice, tx, worker, call, expired>>

-----------------------------------------------------------------------------

Arrive(w) ==
    \E p \in Projects, s \in 1 .. MaxSessions, i \in Invoices :
        \/ RefuseRequest(w, p, s, i)
        \/ InitiateAuth(w, p, s, i)
        \/ ProcessAuth(w, p, s, i)
        \/ FinalizePayment(w, p, s, i)

Handle(w) ==
    \/ FinishInitiateAuth(w)
    \/ SendAuthenticate(w)
    \/ FinishProcessAuth(w)
    \/ CheckUnpaid(w)
    \/ CheckExisting(w)
    \/ FindAuth(w)
    \/ SendPay(w)
    \/ ReceiveApproval(w)
    \/ SettleWrite(w)
    \/ SettleCommit(w)
    \/ RecordDecline(w)
    \/ Timeout(w)

Serve == \E w \in Workers : Arrive(w) \/ Handle(w) \/ Abort(w)

Environment ==
    \/ \E t \in DOMAIN call : GatewayAnswers(t)
    \/ \E s \in DOMAIN session : Expire(s)

Open ==
    \E i \in Invoices, a \in Accounts, k \in Keys \cup {NoKey} :
        OpenSession(i, a, k)

PaymentNext == Serve \/ Crash \/ Environment \/ Open

PaymentSpec == PaymentInit /\ [][PaymentNext]_paymentVars

\* The HTTP server runs every handler; its statements return, and a gateway
\* call is answered or given up (http.Client.Timeout), so a handler never
\* rests with a step it could take.  The gateway answers what it was sent.
PaymentFairSpec ==
    /\ PaymentSpec
    /\ \A w \in Workers : WF_paymentVars(Handle(w))
    /\ \A t \in 1 .. MaxTx :
         WF_paymentVars(t \in DOMAIN call /\ GatewayAnswers(t))

-----------------------------------------------------------------------------
(* Safety. *)

\* An invoice is paid exactly when a pay row of it is a success: the two are
\* written in one database transaction, whatever fails around it
\* (service.go:563-608).
PaidIffSettled ==
    \A i \in Invoices : invoice[i] = "paid" <=> SuccessfulPays(i) # {}

\* No invoice has two successful pay rows, however its sessions and their
\* finalize requests interleave (migration 00002, service.go:575-608).
OneSuccessfulPay ==
    \A i \in Invoices : \A t, u \in SuccessfulPays(i) : t = u

\* Whoever was told "success" was told so of an invoice that is paid, also on
\* the path that finds an earlier payment (service.go:497-504, 591, 610).
SuccessReplyMeansPaid ==
    \A w \in Workers :
        worker[w].reply = "success" => invoice[worker[w].invoice] = "paid"

\* A row that is not pending records what the gateway answered to the call it
\* was inserted for, though answers come late, to handlers that gave up, and
\* after other rows (service.go:295-306, 432-443, 575-608).
Verdict(t) ==
    IF call[t] \in {"FAILURE", "DECLINED"} THEN "failed" ELSE "success"

RecordAgreesWithGateway ==
    \A t \in DOMAIN tx :
        tx[t].status # "pending" =>
            call[t] # "sent" /\ tx[t].status = Verdict(t)

\* A row belongs to the invoice and the project of its session, and the
\* session's account to that project: a request never mixes tenants
\* (service.go:223-247, 323-347, 460-491).
RowsKeepTenancy ==
    \A t \in DOMAIN tx :
        /\ tx[t].session \in DOMAIN session
        /\ LET s == session[tx[t].session]
           IN  /\ tx[t].invoice = s.invoice
               /\ tx[t].project = s.project
               /\ AccountProject[s.account] = s.project

\* A payment is only ever attempted with the gateway id of an earlier payer
\* authentication of its own session that is recorded as a success
\* (service.go:506-509).
PayCarriesAuth ==
    \A t \in DOMAIN tx : tx[t].type = "pay" =>
        \E a \in 1 .. t - 1 :
            /\ tx[a].type = "authenticate_payer"
            /\ tx[a].status = "success"
            /\ tx[a].session = tx[t].session
            /\ tx[a].gwTx = tx[t].auth

\* The gateway id a payer is authenticated under was minted by a successful
\* initiate_authentication of the session, or by the pay row that paid the
\* invoice: "the latest row" (service.go:349-356) can be no other root.
AuthChain ==
    \A t \in DOMAIN tx : tx[t].type = "authenticate_payer" =>
        LET root == tx[t].gwTx
        IN  /\ root \in 1 .. t - 1
            /\ tx[root].session = tx[t].session
            /\ tx[root].status = "success"
            /\ \/ tx[root].type = "initiate_authentication"
               \/ tx[root].type = "pay" /\ invoice[tx[t].invoice] = "paid"

\* The payment that settles an invoice was authenticated under an id minted
\* by initiate_authentication, although authentications under the id of a
\* payment exist and finalize reads the latest of either kind: the unique
\* index keeps the others from settling (service.go:349, 506, 576).
SettledByInitiatedAuth ==
    \A i \in Invoices : \A t \in SuccessfulPays(i) :
        tx[tx[t].auth].type = "initiate_authentication"

\* The gateway approves at most one payment of an invoice.  Holds of requests
\* served one after another of which nothing but an acknowledgement is lost;
\* the code does not ensure it otherwise (migration 00002:1,
\* service.go:493-558).
NoDoubleCharge ==
    \A t, u \in DOMAIN tx :
        call[t] = "APPROVED" /\ call[u] = "APPROVED"
            /\ tx[t].invoice = tx[u].invoice
        => t = u

-----------------------------------------------------------------------------
(* The inductive invariant of module PaymentProofs: what handlers in flight *)
(* hold, added to the properties above.                                     *)

Owner(w) == worker[w].pc \in
    {"initiate_sent", "authenticate_sent", "pay_sent", "approved", "settling"}

PayOwner(w) == worker[w].pc \in {"pay_sent", "approved", "settling"}

\* The row a handler inserted is pending and its own until it writes it.
HandlersOwnRows ==
    \A w \in Workers : Owner(w) =>
        LET t == worker[w].tx
        IN  /\ t \in DOMAIN tx
            /\ tx[t].status = "pending"
            /\ tx[t].invoice = worker[w].invoice
            /\ tx[t].type = "pay" <=> PayOwner(w)
            /\ worker[w].pc = "initiate_sent" =>
                    tx[t].type = "initiate_authentication"
            /\ worker[w].pc \in {"approved", "settling"} =>
                    call[t] = "APPROVED"
            /\ \A v \in Workers : Owner(v) /\ worker[v].tx = t => v = w

\* A database transaction that settles an invoice has it for itself.
SettlersAreAlone ==
    \A w \in Workers : worker[w].pc = "settling" =>
        /\ PaySlotFree(worker[w].invoice)
        /\ \A v \in Settling(worker[w].invoice) : v = w

RequestsAreValid ==
    \A w \in Workers : Busy(w) =>
        /\ worker[w].session \in DOMAIN session
        /\ session[worker[w].session].invoice = worker[w].invoice

AnswersFitCalls ==
    \A t \in DOMAIN tx :
        call[t] \in Answers(tx[t].type) \cup {"sent"}

\* What every handler in flight may rely on, whatever the others do: its row,
\* its lock and its request, and the properties above.  Inductive.
IInv ==
    /\ PaymentTypeOK
    /\ SessionsKeepTenancy
    /\ RequestsAreValid
    /\ RowsKeepTenancy
    /\ AnswersFitCalls
    /\ HandlersOwnRows
    /\ RecordAgreesWithGateway
    /\ SettlersAreAlone
    /\ PaidIffSettled
    /\ OneSuccessfulPay
    /\ SuccessReplyMeansPaid

\* The id a row was inserted with: its own, unless it authenticates a payer
\* under the id of an earlier row (service.go:281, 418, 549).
IdsAreFresh ==
    \A t \in DOMAIN tx : tx[t].type # "authenticate_payer" => tx[t].gwTx = t

\* Session s of invoice i may be authenticated under the id of row g.
Root(g, s, i) ==
    /\ g \in DOMAIN tx
    /\ tx[g].session = s
    /\ tx[g].status = "success"
    /\ \/ tx[g].type = "initiate_authentication"
       \/ tx[g].type = "pay" /\ invoice[i] = "paid"

\* What a handler has read or inserted is of its own session, and still is
\* what it was read as.
KeepsSession(w) ==
    LET me == worker[w]
    IN  /\ Owner(w) => tx[me.tx].session = me.session
        /\ me.pc = "authenticate" => Root(me.auth, me.session, me.invoice)
        /\ me.pc = "send_pay" =>
            \E a \in DOMAIN tx :
                /\ tx[a].type = "authenticate_payer"
                /\ tx[a].status = "success"
                /\ tx[a].session = me.session
                /\ tx[a].gwTx = me.auth

HandlersKeepSession == \A w \in Workers : KeepsSession(w)

\* Where the authentication of a payment comes from, however the handlers of
\* a session interleave.  Inductive together with IInv.
AuthInv ==
    /\ IdsAreFresh
    /\ HandlersKeepSession
    /\ PayCarriesAuth
    /\ AuthChain
    /\ SettledByInitiatedAuth

\* Requests served one after another, of which nothing is lost but the
\* acknowledgement of a write.
Serial ==
    /\ Faults \subseteq {"lost_commit"}
    /\ \A v, w \in Workers : v = w

\* Payments that are or may yet be approved.
OpenPays == {t \in DOMAIN tx : tx[t].type = "pay" /\ call[t] # "DECLINED"}

OpenPaysOf(i) == {t \in OpenPays : tx[t].invoice = i}

\* An invoice with a payment is paid or has its handler still; nobody is on
\* the way to another payment of it.
OnePaymentOf(i) ==
    /\ \A t, u \in OpenPaysOf(i) : t = u
    /\ OpenPaysOf(i) # {} =>
        /\ \/ invoice[i] = "paid"
           \/ \E w \in Workers :
                PayOwner(w) /\ OpenPaysOf(i) \subseteq {worker[w].tx}
        /\ \A w \in Workers :
            worker[w].pc \in {"check_existing", "find_auth", "send_pay"}
                => worker[w].invoice # i

\* Inductive together with IInv.
SerialInv == Serial => \A i \in Invoices : OnePaymentOf(i)

-----------------------------------------------------------------------------
(* Action properties. *)

\* What is written stays written: no late answer, retry or crash changes a row
\* that is no longer pending or takes "paid" back from an invoice
\* (service.go:295-306, 432-443, 563-611).
RecordsAreFinal ==
    [][/\ \A t \in DOMAIN tx :
            /\ t \in DOMAIN tx'
            /\ tx[t].status # "pending" => tx'[t] = tx[t]
       /\ \A i \in Invoices :
            invoice[i] = "paid" => invoice'[i] = "paid"]_paymentVars

Finalizing(w) == worker[w].pc \in
    {"check_unpaid", "check_existing", "find_auth", "send_pay", "pay_sent",
     "approved", "settling"}

PayRows(s) ==
    {<<t, tx[t]>> : t \in
        {u \in DOMAIN tx : tx[u].session = s /\ tx[u].type = "pay"}}

Lapsed(s) ==
    /\ s \in expired
    /\ \A w \in Workers : Finalizing(w) => worker[w].session # s

\* Once a session has expired and the finalize requests it had let in are
\* over, no payment of it is attempted or settled again, though it can still
\* be authenticated (service.go:478-480).
ExpiredSessionsAreDead ==
    [][\A s \in 1 .. MaxSessions : Lapsed(s) =>
        Lapsed(s)' /\ PayRows(s)' = PayRows(s)]_paymentVars

\* Past its check of the invoice.
Unaware(w) == Finalizing(w) /\ worker[w].pc # "check_unpaid"

Closed(i) ==
    /\ invoice[i] = "paid"
    /\ \A w \in Workers : Unaware(w) => worker[w].invoice # i

Attempts(i) ==
    {t \in DOMAIN tx : tx[t].invoice = i /\ tx[t].type = "pay"}

\* Once an invoice is paid and the handlers that had read it unpaid are over,
\* no session of it is ever used for another payment attempt, by whatever
\* retries (service.go:493-495).
PaidInvoicesAreClosed ==
    [][\A i \in Invoices : Closed(i) =>
        Closed(i)' /\ Attempts(i)' = Attempts(i)]_paymentVars

\* The status of an invoice moves as payment/state.go allows and the README
\* draws it: pending, processing, paid.
InvoiceFollowsStateMachine ==
    [][\A i \in Invoices : invoice[i] # invoice'[i] =>
        SM!ValidateInvoiceTransition(invoice[i], invoice'[i])]_paymentVars

-----------------------------------------------------------------------------
(* Liveness. *)

\* Every request is answered, those that wait for another's database
\* transaction included (service.go:563-608).
EveryRequestAnswered == \A w \in Workers : Busy(w) ~> ~Busy(w)

\* When the gateway approves a payment, the invoice becomes paid
\* (README.md:103-104).  Holds when nothing fails between.
ApprovedLeadsToPaid ==
    \A t \in 1 .. MaxTx, i \in Invoices :
        (t \in DOMAIN tx /\ tx[t].invoice = i /\ call[t] = "APPROVED")
            ~> (invoice[i] = "paid")

-----------------------------------------------------------------------------
(* The ledger the payment service implements. *)

Approved == {t \in DOMAIN tx : call[t] = "APPROVED"}

Settled ==
    {t \in DOMAIN tx : tx[t].type = "pay" /\ tx[t].status = "success"}

L == INSTANCE Ledger WITH
        charged <- {<<tx[t].invoice, t>> : t \in Approved},
        settled <- {<<tx[t].invoice, t>> : t \in Settled},
        paid <- {i \in Invoices : invoice[i] = "paid"}

\* Every behaviour of the handlers is one of the ledger: an invoice is settled
\* once, by an approved payment of its own, and is paid from that step on.
ImplementsLedger == L!LedgerSpec
=============================================================================
