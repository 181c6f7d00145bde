----------------------------- MODULE MCCheckout ------------------------------
(* Instances of Checkout: one tenant with one invoice and one account. *)
EXTENDS Checkout, TLC

CONSTANTS p1, i1, a1

OneInvoiceProject == i1 :> p1
OneAccountProject == a1 :> p1

\* The states told apart, without what no step reads again: the reply of a
\* worker nobody waits for, the answer to a call nobody waits for unless a
\* charge depends on it, the expiry of a session the browser has left.
Awaited(t) == \E w \in Workers : Busy(w) /\ worker[w].tx = t

InUse(s) ==
    \/ s \in {page.current, frame.session}
    \/ \E n \in DOMAIN initiate : initiate[n].session = s
    \/ \E w \in Workers : caller[w].session = s

StillRead ==
    <<tables, browserVars, expired \cap {s \in DOMAIN session : InUse(s)},
      [w \in Workers |->
        IF Busy(w) THEN worker[w]
        ELSE [reply |-> IF caller[w].kind \in {"none", "gone"} THEN "none"
                        ELSE worker[w].reply]],
      [t \in DOMAIN call |->
        IF Awaited(t) \/ tx[t].type = "pay" THEN call[t] ELSE "sent"]>>

\* For the run of a declined card: nothing else goes wrong before.
OnlyCardsAreDeclined ==
    /\ expired = {}
    /\ \A t \in DOMAIN call : call[t] # "FAILURE"

\* A third option is only chosen where a second press of the button can meet
\* the card of the first (see Pay): the other two suffice for everything else.
ThirdChoice ==
    initiate'[3].pc # initiate[3].pc /\ initiate[3].pc = "unsent" =>
        page.saving # 0 /\ ~page.disabled

WorkerSymmetry == Permutations(Workers)
=============================================================================
