----------------------------- MODULE MCKhazina ------------------------------
(* An instance of Khazina: one tenant, one invoice, two session requests.   *)
EXTENDS Khazina, TLC

CONSTANTS p1, i1, a1

OneInvoiceProject == i1 :> p1
OneAccountProject == a1 :> p1
=============================================================================
