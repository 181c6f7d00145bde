---------------------------- MODULE StateMachine ----------------------------
(* payment/state.go: the transitions it allows a session and an invoice.    *)
(* The service never consults it; the README draws it as what happens.      *)

validSessionTransitions ==
    [created        |-> {"authenticating"},
     authenticating |-> {"authenticated", "failed"},
     authenticated  |-> {"paying"},
     paying         |-> {"completed", "failed"}]

ValidateSessionTransition(from, to) ==
    /\ from \in DOMAIN validSessionTransitions
    /\ to \in validSessionTransitions[from]

validInvoiceTransitions ==
    [pending    |-> {"processing", "failed"},
     processing |-> {"paid", "failed"}]

ValidateInvoiceTransition(from, to) ==
    /\ from \in DOMAIN validInvoiceTransitions
    /\ to \in validInvoiceTransitions[from]

IsTerminalSessionStatus(s) == s \in {"completed", "failed"}

IsTerminalInvoiceStatus(s) == s \in {"paid", "failed"}
=============================================================================
