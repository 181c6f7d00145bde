------------------------------ MODULE Sessions ------------------------------
(* service.InitiateSession: a payer chose a payment option of a checkout    *)
(* page and asks for a payment session of the invoice.  Every request is a  *)
(* goroutine of the HTTP server; here an opener is one request, from its    *)
(* arrival to its reply.  A step is one database statement or one call of   *)
(* the gateway, so two openers interleave between any two of them.          *)
EXTENDS Store

CONSTANTS
    Openers,        \* POST /checkout/{invoice_id}/initiate requests
    OpenFaults      \* subset of {"gateway", "lost_update", "abort", "crash"}

ASSUME SessionsAssumption ==
    OpenFaults \subseteq {"gateway", "lost_update", "abort", "crash"}

VARIABLES
    opener,     \* the requests
    ordered     \* gateway: the sessions whose order UpdateSession has set

openerVars == <<opener, ordered>>
sessionsVars == <<storeVars, opener, ordered>>

OpenReplies ==
    {"none", "ok", "not_found", "already_paid", "gateway_error",
     "internal_error", "lost"}

OpenPcs == {"new", "lookup", "create", "insert", "update", "done"}

InFlight(o) == opener[o].pc \notin {"new", "done"}

SessionsTypeOK ==
    /\ StoreTypeOK
    /\ ordered \subseteq Nat
    /\ opener \in [Openers ->
        [pc : OpenPcs, project : Projects, invoice : Invoices,
         account : Accounts, key : Keys \cup {NoKey}, session : Nat,
         reply : OpenReplies]]

OpenersInit ==
    /\ ordered = {}
    /\ opener \in [Openers ->
        [pc : {"new"}, project : Projects, invoice : Invoices,
         account : Accounts, key : Keys \cup {NoKey}, session : {0},
         reply : {"none"}]]

-----------------------------------------------------------------------------

GoOn(o, pc) == opener' = [opener EXCEPT ![o].pc = pc]

Refuse(o, r) == opener' = [opener EXCEPT ![o].pc = "done", ![o].reply = r]

ReplySession(o, s) ==
    opener' = [opener EXCEPT ![o].pc = "done", ![o].reply = "ok",
                             ![o].session = s]

\* Mutation: the status is not looked at.
ReadInvoiceOnly(o) ==
    /\ opener[o].pc = "new"
    /\ GetInvoiceByIDAndProject(opener[o].invoice, opener[o].project) # {}
    /\ GoOn(o, "lookup")
    /\ UNCHANGED <<storeVars, ordered>>

\* The invoice is read once, by id and by the project of the Host header.
ReadInvoice(o) ==
    LET found == GetInvoiceByIDAndProject(opener[o].invoice, opener[o].project)
    IN  /\ opener[o].pc = "new"
        /\ \/ found = {} /\ Refuse(o, "not_found")
           \/ \E i \in found :
                \/ invoice[i] = "paid" /\ Refuse(o, "already_paid")
                \/ invoice[i] # "paid" /\ GoOn(o, "lookup")
        /\ UNCHANGED <<storeVars, ordered>>

\* A session with the request's key is returned as it is, whatever account
\* the request names and however far the request that inserted it got.
LookupKey(o) ==
    LET found ==
            IF opener[o].key = NoKey
            THEN {}
            ELSE GetPaymentSessionByIdempotencyKey(
                    opener[o].invoice, opener[o].key)
    IN  /\ opener[o].pc = "lookup"
        /\ \/ found = {} /\ GoOn(o, "create")
           \/ \E s \in found : ReplySession(o, s)
        /\ UNCHANGED <<storeVars, ordered>>

\* The account must be of the project; then the gateway opens a session.
CreateGatewaySession(o) ==
    LET account == GetGatewayAccountByIDAndProject(
                        opener[o].account, opener[o].project)
    IN  /\ opener[o].pc = "create"
        /\ \/ account = {} /\ Refuse(o, "internal_error")
           \/ account # {} /\ GoOn(o, "insert")
           \/ /\ account # {}
              /\ "gateway" \in OpenFaults
              /\ Refuse(o, "gateway_error")
        /\ UNCHANGED <<storeVars, ordered>>

\* Mutation: the loser of a key waits for it to become free.
InsertWhenFree(o) ==
    LET i == opener[o].invoice
    IN  /\ opener[o].pc = "insert"
        /\ IdempotencyKeyFree(i, opener[o].key)
        /\ CreatePaymentSession(
                i, InvoiceProject[i], opener[o].account, opener[o].key)
        /\ opener' = [opener EXCEPT ![o].pc = "update",
                                    ![o].session = Len(session) + 1]
        /\ UNCHANGED <<invoice, ordered>>

\* Mutation: the key of a session is not unique.
InsertAnyway(o) ==
    LET i == opener[o].invoice
    IN  /\ opener[o].pc = "insert"
        /\ CreatePaymentSession(
                i, InvoiceProject[i], opener[o].account, opener[o].key)
        /\ opener' = [opener EXCEPT ![o].pc = "update",
                                    ![o].session = Len(session) + 1]
        /\ UNCHANGED <<invoice, ordered>>

\* The INSERT loses to a concurrent one with its key: the unique index.
InsertSession(o) ==
    LET i == opener[o].invoice
        k == opener[o].key
    IN  /\ opener[o].pc = "insert"
        /\ \/ /\ IdempotencyKeyFree(i, k)
              /\ CreatePaymentSession(
                    i, InvoiceProject[i], opener[o].account, k)
              /\ opener' = [opener EXCEPT ![o].pc = "update",
                                          ![o].session = Len(session) + 1]
           \/ /\ ~IdempotencyKeyFree(i, k)
              /\ Refuse(o, "internal_error")
              /\ UNCHANGED session
        /\ UNCHANGED <<invoice, ordered>>

\* Mutation: the error of UpdateSession is ignored.
UpdateIgnoringError(o) ==
    /\ opener[o].pc = "update"
    /\ ReplySession(o, opener[o].session)
    /\ \/ ordered' = ordered \cup {opener[o].session}
       \/ "gateway" \in OpenFaults /\ UNCHANGED ordered
    /\ UNCHANGED storeVars

UpdateGatewaySession(o) ==
    LET s == opener[o].session
    IN  /\ opener[o].pc = "update"
        /\ \/ /\ ordered' = ordered \cup {s}
              /\ ReplySession(o, s)
           \/ /\ "gateway" \in OpenFaults
              /\ Refuse(o, "gateway_error")
              /\ UNCHANGED ordered
           \* The gateway applied the update, the answer was lost.
           \/ /\ "lost_update" \in OpenFaults
              /\ Refuse(o, "gateway_error")
              /\ ordered' = ordered \cup {s}
        /\ UNCHANGED storeVars

HandleOpen(o) ==
    \/ ReadInvoice(o)
    \/ LookupKey(o)
    \/ CreateGatewaySession(o)
    \/ InsertSession(o)
    \/ UpdateGatewaySession(o)

\* A statement fails or the request context is cancelled, before the next
\* step or after the last one was applied.
AbortOpen(o) ==
    /\ "abort" \in OpenFaults
    /\ InFlight(o)
    /\ Refuse(o, "internal_error")
    /\ UNCHANGED <<storeVars, ordered>>

\* The server stops: what was in flight is gone and nobody is answered.
LoseOpeners ==
    opener' = [o \in Openers |->
        IF InFlight(o)
        THEN [opener[o] EXCEPT !.pc = "done", !.reply = "lost"]
        ELSE opener[o]]

CrashOpeners ==
    /\ "crash" \in OpenFaults
    /\ \E o \in Openers : InFlight(o)
    /\ LoseOpeners
    /\ UNCHANGED <<storeVars, ordered>>

\* A payment of the invoice settles meanwhile (module Payment).
InvoiceSettles(i) ==
    /\ invoice[i] # "paid"
    /\ UpdateInvoiceStatus(i, "paid")
    /\ UNCHANGED <<session, opener, ordered>>

-----------------------------------------------------------------------------

SessionsInit == StoreInit /\ OpenersInit

SessionsNext ==
    \/ \E o \in Openers : HandleOpen(o) \/ AbortOpen(o)
    \/ CrashOpeners
    \/ \E i \in Invoices : InvoiceSettles(i)

SessionsSpec == SessionsInit /\ [][SessionsNext]_sessionsVars

-----------------------------------------------------------------------------
(* Properties. *)

OpenAnswered(o) == opener[o].pc = "done"

Opened(o) == opener[o].reply = "ok"

\* Two requests for one invoice with one Idempotency-Key that are both given
\* a session are given the same one, however their lookups and inserts
\* interleave (service.go:145-203, index of migration 00003).
SameKeySameSession ==
    \A o, q \in Openers :
        /\ Opened(o) /\ Opened(q)
        /\ opener[o].key = opener[q].key
        /\ opener[o].key # NoKey
        /\ opener[o].invoice = opener[q].invoice
        => opener[o].session = opener[q].session

\* The session a payer is given is one of the invoice and of the project the
\* request was for, also on the path that returns a session another request
\* inserted, and its account belongs to that project (service.go:129-203).
ReplyMatchesRequest ==
    \A o \in Openers : Opened(o) =>
        /\ opener[o].session \in DOMAIN session
        /\ LET s == session[opener[o].session]
           IN  /\ s.invoice = opener[o].invoice
               /\ s.project = opener[o].project
               /\ InvoiceProject[s.invoice] = s.project
               /\ AccountProject[s.account] = s.project

\* A session reaches a payer before its gateway order is set only through the
\* lookup by key (service.go:150-155); without a key, never (service.go:205).
UnorderedOnlyByKey ==
    \A o \in Openers :
        Opened(o) /\ opener[o].session \notin ordered => opener[o].key # NoKey

-----------------------------------------------------------------------------
(* The inductive invariant of module SessionsProofs.                        *)

\* The index: an invoice has one session per key.
KeysAreUnique ==
    \A r, s \in DOMAIN session :
        /\ session[r].invoice = session[s].invoice
        /\ session[r].key = session[s].key
        /\ session[r].key # NoKey
        => r = s

\* What a request has checked stays true of it: its invoice once it looks for
\* a session, its account once the gateway has opened one, the row once it is
\* inserted or handed out.  It is answered once.
RequestsAreChecked ==
    \A o \in Openers :
        LET me == opener[o]
        IN  /\ me.pc # "done" => me.reply = "none"
            /\ me.pc \in {"lookup", "create", "insert", "update"}
                    \/ me.reply = "ok"
                => InvoiceProject[me.invoice] = me.project
            /\ me.pc = "insert" => AccountProject[me.account] = me.project
            /\ me.pc = "update" \/ me.reply = "ok" =>
                    /\ me.session \in DOMAIN session
                    /\ session[me.session].invoice = me.invoice
                    /\ session[me.session].key = me.key

\* Every request may rely on it, whatever the others insert meanwhile.
SessionsInv ==
    /\ SessionsTypeOK
    /\ SessionsKeepTenancy
    /\ KeysAreUnique
    /\ RequestsAreChecked
    /\ UnorderedOnlyByKey

-----------------------------------------------------------------------------
(* Action property and liveness.                                            *)

Shut(i) ==
    /\ invoice[i] = "paid"
    /\ \A o \in Openers : InFlight(o) => opener[o].invoice # i

SessionsOf(i) == {s \in DOMAIN session : session[s].invoice = i}

HandedOut(i) == {o \in Openers : Opened(o) /\ opener[o].invoice = i}

\* Once an invoice is paid and the requests that had read it unpaid are over,
\* no session of it is ever added and none is handed out: the check of
\* service.go:140 is made once, at the start of a request.
PaidClosesTheDoor ==
    [][\A i \in Invoices : Shut(i) =>
        Shut(i)' /\ SessionsOf(i)' = SessionsOf(i)
                /\ HandedOut(i)' = HandedOut(i)]_sessionsVars

\* Every request that has begun is answered or lost in a crash
\* (service.go:128-220).
EveryOpenerAnswered ==
    \A o \in Openers : InFlight(o) ~> OpenAnswered(o)
=============================================================================
