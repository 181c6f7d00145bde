------------------------------- MODULE Ledger -------------------------------
(* What the payment service promises about money, without sessions,         *)
(* handlers or authentication: the gateway charges an invoice by approving  *)
(* an attempt; one approved attempt of the invoice may settle it, at once   *)
(* with the invoice becoming paid, and nothing undoes either.  Charges that *)
(* settle nothing are allowed: the service does not prevent them            *)
(* (NoDoubleCharge in Payment).                                             *)

CONSTANT Invoices

VARIABLES
    charged,    \* pairs of an invoice and an attempt the gateway approved
    settled,    \* those that are recorded as the payment of their invoice
    paid        \* the invoices that are paid

ledgerVars == <<charged, settled, paid>>

LedgerInit ==
    /\ charged = {}
    /\ settled = {}
    /\ paid = {}

\* One attempt more, of an invoice; which one is the gateway's business.
Charge ==
    /\ \E c \in charged' \ charged :
        /\ c[1] \in Invoices
        /\ charged' = charged \cup {c}
    /\ UNCHANGED <<settled, paid>>

Settle(c) ==
    /\ \A d \in settled : d[1] # c[1]
    /\ settled' = settled \cup {c}
    /\ paid' = paid \cup {c[1]}
    /\ UNCHANGED charged

LedgerNext == Charge \/ \E c \in charged : Settle(c)

LedgerSpec == LedgerInit /\ [][LedgerNext]_ledgerVars
=============================================================================
