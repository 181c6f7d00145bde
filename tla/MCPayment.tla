----------------------------- MODULE MCPayment ------------------------------
(* Instances of Payment: one tenant with one invoice and one account, or    *)
(* two tenants, the first with two invoices.                                *)
EXTENDS Payment, TLC

CONSTANTS p1, p2, i1, i2, i3, a1, a2

OneInvoiceProject == i1 :> p1
OneAccountProject == a1 :> p1

TwoInvoiceProject == (i1 :> p1) @@ (i2 :> p1) @@ (i3 :> p2)
TwoAccountProject == (a1 :> p1) @@ (a2 :> p2)

\* Bound of the runs with two sessions: each session is initiated and
\* authenticated at most once, so that both reach their payments within MaxTx
\* rows, and neither expires.
OneAuthPerSession ==
    /\ \A t, u \in DOMAIN tx :
        /\ tx[t].session = tx[u].session
        /\ tx[t].type = tx[u].type
        /\ tx[t].type # "pay"
        => t = u
    /\ expired = {}

WorkerSymmetry == Permutations(Workers)
=============================================================================
