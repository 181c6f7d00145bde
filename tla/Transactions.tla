---------------------------- MODULE Transactions ----------------------------
(* The table transactions: every attempt to initiate an authentication, to  *)
(* authenticate the payer or to pay, with its queries and statements and    *)
(* the unique index of migration 00002.                                     *)
EXTENDS Store

VARIABLE tx     \* transactions

tables == <<storeVars, tx>>

-----------------------------------------------------------------------------
(* Rows. *)

TxTypes == {"initiate_authentication", "authenticate_payer", "pay"}

TxStatuses == {"pending", "success", "failed"}

\* gwTx is gateway_transaction_id, named by the row for which the uuid was
\* minted; auth is the uuid that the raw_request of a pay row carries as
\* authentication.transactionId, named likewise (0 in the other rows).
TxRow ==
    [type : TxTypes, session : Nat, invoice : Invoices, project : Projects,
     gwTx : Nat, auth : Nat, status : TxStatuses]

TablesTypeOK == StoreTypeOK /\ tx \in Seq(TxRow)

TablesInit == StoreInit /\ tx = <<>>

-----------------------------------------------------------------------------
(* Queries. *)

\* ORDER BY created_at DESC LIMIT 1
Latest(rows) == {r \in rows : \A q \in rows : q <= r}

GetLatestTransaction(s) ==
    Latest({t \in DOMAIN tx : tx[t].session = s})

\* Mutation: the status is left out of the WHERE clause.
PayTransactionOfAnyStatus(s) ==
    Latest({t \in DOMAIN tx : tx[t].session = s /\ tx[t].type = "pay"})

GetPayTransactionBySessionID(s) ==
    {t \in DOMAIN tx :
        /\ tx[t].session = s
        /\ tx[t].type = "pay"
        /\ tx[t].status = "success"}

\* Mutation: the status is left out of the WHERE clause.
LatestAuthTransaction(s) ==
    Latest({t \in DOMAIN tx :
        tx[t].session = s /\ tx[t].type = "authenticate_payer"})

GetSuccessfulAuthTransaction(s) ==
    Latest({t \in DOMAIN tx :
        /\ tx[t].session = s
        /\ tx[t].type = "authenticate_payer"
        /\ tx[t].status = "success"})

-----------------------------------------------------------------------------
(* Index.  A statement that would break it fails and changes nothing.       *)

\* idx_one_successful_payment_per_invoice
SuccessfulPays(i) ==
    {t \in DOMAIN tx :
        /\ tx[t].invoice = i
        /\ tx[t].type = "pay"
        /\ tx[t].status = "success"}

\* Mutation: the index is not there.
NoPayIndex(i) == TRUE

PaySlotFree(i) == SuccessfulPays(i) = {}

-----------------------------------------------------------------------------
(* Statements. *)

\* The row a handler inserts for session s of invoice i; gw and au as in TxRow.
CreateTransaction(s, i, type, gw, au) ==
    tx' = Append(tx,
        [type |-> type, session |-> s, invoice |-> i,
         project |-> InvoiceProject[i], gwTx |-> gw, auth |-> au,
         status |-> "pending"])

\* Mutation: the WHERE clause names the session and not the row.
UpdateTransactionsOfSession(t, st) ==
    tx' = [u \in DOMAIN tx |->
            IF tx[u].session = tx[t].session
            THEN [tx[u] EXCEPT !.status = st]
            ELSE tx[u]]

UpdateTransactionStatus(t, st) == tx' = [tx EXCEPT ![t].status = st]
=============================================================================
