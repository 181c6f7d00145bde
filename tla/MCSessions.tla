----------------------------- MODULE MCSessions -----------------------------
(* An instance of Sessions: two projects with an invoice and an account     *)
(* each; every request may mix them and may carry the key.                  *)
EXTENDS Sessions, TLC

CONSTANTS p1, p2, i1, i2, a1, a2

TwoInvoiceProject == (i1 :> p1) @@ (i2 :> p2)
TwoAccountProject == (a1 :> p1) @@ (a2 :> p2)

OpenerSymmetry == Permutations(Openers)
=============================================================================
