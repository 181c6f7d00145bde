------------------------------- MODULE Store -------------------------------
(* The tables invoices, gateway_accounts and payment_sessions, with the     *)
(* queries and statements of internal/store on them and the unique index of *)
(* migration 00003.  Module Transactions adds the table transactions.       *)
(*                                                                          *)
(* A row of payment_sessions or transactions is identified by its place in  *)
(* the sequence of its table, which is also its created_at order.  A query  *)
(* returns the set of the rows its ":one" may return: the empty set is      *)
(* sql.ErrNoRows.  Rows are never deleted (no statement sets deleted_at).   *)
EXTENDS Naturals, Sequences

CONSTANTS
    Projects,       \* tenants
    Invoices,       \* rows of invoices
    Accounts,       \* rows of gateway_accounts
    InvoiceProject, \* invoices.project_id
    AccountProject, \* gateway_accounts.project_id
    Keys,           \* Idempotency-Key header values
    NoKey           \* the header is absent: a NULL idempotency_key

ASSUME StoreAssumption ==
    /\ InvoiceProject \in [Invoices -> Projects]
    /\ AccountProject \in [Accounts -> Projects]
    /\ NoKey \notin Keys

VARIABLES
    invoice,    \* invoices.status
    session     \* payment_sessions

storeVars == <<invoice, session>>

-----------------------------------------------------------------------------
(* Rows. *)

InvoiceStatuses == {"pending", "processing", "paid", "failed"}

SessionStatuses ==
    {"created", "authenticating", "authenticated", "paying", "completed",
     "failed"}

SessionRow ==
    [invoice : Invoices, project : Projects, account : Accounts,
     key : Keys \cup {NoKey}, status : SessionStatuses]

StoreTypeOK ==
    /\ invoice \in [Invoices -> InvoiceStatuses]
    /\ session \in Seq(SessionRow)

StoreInit ==
    /\ invoice = [i \in Invoices |-> "pending"]
    /\ session = <<>>

\* A row belongs to the project of its invoice, and so does its account.
SessionsKeepTenancy ==
    \A s \in DOMAIN session :
        /\ session[s].project = InvoiceProject[session[s].invoice]
        /\ session[s].project = AccountProject[session[s].account]

-----------------------------------------------------------------------------
(* Queries. *)

GetInvoiceByIDAndProject(i, p) ==
    {j \in Invoices : j = i /\ InvoiceProject[j] = p}

\* Neither is_active nor deleted_at is looked at.
GetGatewayAccountByIDAndProject(a, p) ==
    {b \in Accounts : b = a /\ AccountProject[b] = p}

GetPaymentSessionByIDAndProject(s, p) ==
    {r \in DOMAIN session : r = s /\ session[r].project = p}

\* Mutation: the invoice is left out of the WHERE clause.
SessionByKeyOfAnyInvoice(i, k) ==
    {r \in DOMAIN session : session[r].key = k}

GetPaymentSessionByIdempotencyKey(i, k) ==
    {r \in DOMAIN session : session[r].invoice = i /\ session[r].key = k}

-----------------------------------------------------------------------------
(* Index.  A statement that would break it fails and changes nothing.       *)

\* Mutation: the index is not there.
NoKeyIndex(i, k) == TRUE

\* idx_payment_sessions_idempotency_key
IdempotencyKeyFree(i, k) ==
    k = NoKey \/ GetPaymentSessionByIdempotencyKey(i, k) = {}

-----------------------------------------------------------------------------
(* Statements. *)

\* Mutation: a status the table does not know.
CreateOpenSession(i, p, a, k) ==
    session' = Append(session,
        [invoice |-> i, project |-> p, account |-> a, key |-> k,
         status |-> "open"])

\* The columns the INSERT does not name take their defaults (status).
CreatePaymentSession(i, p, a, k) ==
    session' = Append(session,
        [invoice |-> i, project |-> p, account |-> a, key |-> k,
         status |-> "created"])

UpdateInvoiceStatus(i, st) == invoice' = [invoice EXCEPT ![i] = st]
=============================================================================
