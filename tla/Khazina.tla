------------------------------ MODULE Khazina -------------------------------
(* The checkout backend: InitiateSession (Sessions) and the three handlers  *)
(* of a payment (Payment) served by one process over one store.  A request  *)
(* of Payment names a session its client was given by a reply of Sessions.  *)
EXTENDS Sessions, Payment

vars == <<tables, opener, ordered, worker, call, expired>>

\* MaxSessions, a bound of Payment, leaves room for a session of every request.
ASSUME KhazinaAssumption ==
    /\ "crash" \in OpenFaults <=> "crash" \in Faults
    /\ IsFiniteSet(Openers)
    /\ Cardinality(Openers) <= MaxSessions

-----------------------------------------------------------------------------

Init == OpenersInit /\ PaymentInit

OpenerStep(o) ==
    /\ HandleOpen(o) \/ AbortOpen(o)
    /\ UNCHANGED <<tx, worker, call, expired>>

Given(s) == \E o \in Openers : Opened(o) /\ opener[o].session = s

ArriveGiven(w) ==
    /\ \E s \in DOMAIN session, p \in Projects, i \in Invoices :
        /\ Given(s)
        /\ \/ RefuseRequest(w, p, s, i)
           \/ InitiateAuth(w, p, s, i)
           \/ ProcessAuth(w, p, s, i)
           \/ FinalizePayment(w, p, s, i)
    /\ UNCHANGED <<opener, ordered>>

WorkerStep(w) ==
    /\ Handle(w) \/ Abort(w)
    /\ UNCHANGED <<opener, ordered>>

World == Environment /\ UNCHANGED <<opener, ordered>>

\* One process: its openers and its workers are gone together.
ServerCrash ==
    /\ "crash" \in Faults
    /\ \/ \E o \in Openers : InFlight(o)
       \/ \E w \in Workers : Busy(w)
    /\ LoseOpeners
    /\ LoseWorkers
    /\ UNCHANGED <<tables, ordered, call, expired>>

Next ==
    \/ \E o \in Openers : OpenerStep(o)
    \/ \E w \in Workers : ArriveGiven(w) \/ WorkerStep(w)
    \/ World
    \/ ServerCrash

Spec == Init /\ [][Next]_vars

\* The HTTP server runs every request, and each of its calls returns: a
\* statement by the database, a gateway call within the client's 30 seconds
\* (see PaymentFairSpec).
FairSpec ==
    /\ Spec
    /\ \A o \in Openers :
        WF_vars(HandleOpen(o) /\ UNCHANGED <<tx, worker, call, expired>>)
    /\ \A w \in Workers :
        WF_vars(Handle(w) /\ UNCHANGED <<opener, ordered>>)
    /\ \A t \in 1 .. MaxTx :
        WF_vars(/\ t \in DOMAIN call
                /\ GatewayAnswers(t)
                /\ UNCHANGED <<opener, ordered>>)

-----------------------------------------------------------------------------
(* Each component sees the other only as its own module allows it to: what  *)
(* the two modules show apart holds of the server.                          *)

\* The payment handlers change nothing InitiateSession relies on but that an
\* invoice becomes paid (service.go:128-220 against 222-611).
ServesSessions == SessionsSpec

\* InitiateSession only ever adds sessions whose invoice and account are of
\* one project, under a free key (service.go:162-203 against 222-611).
ServesPayment == PaymentSpec

\* A session opened without a key has its gateway order set before anything
\* is authenticated or paid in it; only a session returned by its key can be
\* used without (service.go:150-155, 205-211).
UnkeyedSessionsAreOrdered ==
    \A t \in DOMAIN tx :
        tx[t].session \notin ordered => session[tx[t].session].key # NoKey

\* A session that may be used: its order is set, or it was asked for by key.
Usable(s) ==
    /\ s \in DOMAIN session
    /\ s \notin ordered => session[s].key # NoKey

UsedSessionsAreUsable ==
    /\ \A w \in Workers : Busy(w) => Usable(worker[w].session)
    /\ \A t \in DOMAIN tx : Usable(tx[t].session)

\* A request inserts one session at most.
MayOpen(o) == opener[o].pc \in {"new", "lookup", "create", "insert"}

RoomForSessions ==
    Len(session) + Cardinality({o \in Openers : MayOpen(o)})
        <= Cardinality(Openers)

\* What the two components may rely on together: what each may by itself, and
\* what one is given by the other.  Inductive.
KhazinaInv ==
    /\ SessionsInv
    /\ IInv
    /\ RoomForSessions
    /\ UsedSessionsAreUsable

\* Whatever fails, and whatever the two kinds of requests do to each other's
\* rows, every request that has begun is answered or gone with the server
\* (service.go:128-220, 222-611).
EveryoneAnswered == EveryOpenerAnswered /\ EveryRequestAnswered
=============================================================================
