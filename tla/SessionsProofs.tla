--------------------------- MODULE SessionsProofs ---------------------------
(* Theorems about Sessions for every set of requests, invoices, accounts,   *)
(* tenants and keys, and every choice of faults.                            *)
EXTENDS Sessions, TLAPS

Requests ==
    [pc : OpenPcs, project : Projects, invoice : Invoices,
     account : Accounts, key : Keys \cup {NoKey}, session : Nat,
     reply : OpenReplies]

\* What RequestsAreChecked says of one request.
Checked(me) ==
    /\ me.pc # "done" => me.reply = "none"
    /\ me.pc \in {"lookup", "create", "insert", "update"} \/ me.reply = "ok"
        => InvoiceProject[me.invoice] = me.project
    /\ me.pc = "insert" => AccountProject[me.account] = me.project
    /\ me.pc = "update" \/ me.reply = "ok" =>
            /\ me.session \in DOMAIN session
            /\ session[me.session].invoice = me.invoice
            /\ session[me.session].key = me.key

-----------------------------------------------------------------------------
(* Shapes of steps. *)

LEMMA InvParts ==
    ASSUME SessionsInv, NEW o \in Openers
    PROVE  /\ opener[o] \in Requests
           /\ Checked(opener[o])
  BY DEF SessionsInv, SessionsTypeOK, RequestsAreChecked, Requests, Checked

\* A step that moves one request, among rows that stay, keeps the invariant
\* when the request stays checked, and is given a session without an order
\* only by its key.
LEMMA MoveOpenStep ==
    ASSUME SessionsInv, NEW o \in Openers, NEW rec \in Requests,
           opener' = [opener EXCEPT ![o] = rec],
           UNCHANGED storeVars,
           ordered' \subseteq Nat, ordered \subseteq ordered',
           Checked(rec),
           rec.reply = "ok" /\ rec.session \notin ordered' => rec.key # NoKey
    PROVE  SessionsInv'
  <1>1. invoice' = invoice /\ session' = session
    BY DEF storeVars
  <1>2. /\ opener' \in [Openers -> Requests]
        /\ opener'[o] = rec
        /\ \A q \in Openers : q # o => opener'[q] = opener[q]
    BY DEF SessionsInv, SessionsTypeOK, Requests
  <1>3. SessionsTypeOK'
    BY <1>1, <1>2 DEF SessionsInv, SessionsTypeOK, StoreTypeOK, Requests
  <1>4. SessionsKeepTenancy' /\ KeysAreUnique'
    BY <1>1 DEF SessionsInv, SessionsKeepTenancy, KeysAreUnique
  <1>5. RequestsAreChecked'
    BY <1>1, <1>2 DEF SessionsInv, RequestsAreChecked, Checked
  <1>6. UnorderedOnlyByKey'
    BY <1>2 DEF SessionsInv, UnorderedOnlyByKey, Opened
  <1> QED
    BY <1>3, <1>4, <1>5, <1>6 DEF SessionsInv

\* A reply other than a session can be given at any time.
LEMMA RefuseOpenStep ==
    ASSUME SessionsInv, NEW o \in Openers, NEW r \in OpenReplies, r # "ok",
           Refuse(o, r), UNCHANGED storeVars,
           ordered' \subseteq Nat, ordered \subseteq ordered'
    PROVE  SessionsInv'
  <1> DEFINE rec == [opener[o] EXCEPT !.pc = "done", !.reply = r]
  <1>1. opener[o] \in Requests
    BY InvParts
  <1>2. rec \in Requests /\ rec.pc = "done" /\ rec.reply = r
    BY <1>1 DEF Requests, OpenPcs
  <1>3. opener' = [opener EXCEPT ![o] = rec]
    BY <1>1 DEF Refuse, Requests, SessionsInv, SessionsTypeOK
  <1>4. Checked(rec)
    BY <1>2 DEF Checked
  <1> HIDE DEF rec
  <1> QED
    BY <1>2, <1>3, <1>4, MoveOpenStep

\* A session is handed out when it is the request's own, and has its order or
\* was asked for by key.
LEMMA ReplySessionStep ==
    ASSUME SessionsInv, NEW o \in Openers, NEW s \in DOMAIN session,
           ReplySession(o, s), UNCHANGED storeVars,
           ordered' \subseteq Nat, ordered \subseteq ordered',
           InvoiceProject[opener[o].invoice] = opener[o].project,
           session[s].invoice = opener[o].invoice,
           session[s].key = opener[o].key,
           s \notin ordered' => opener[o].key # NoKey
    PROVE  SessionsInv'
  <1> DEFINE rec == [opener[o] EXCEPT !.pc = "done", !.reply = "ok",
                                      !.session = s]
  <1>1. opener[o] \in Requests /\ s \in Nat
    BY InvParts DEF SessionsInv, SessionsTypeOK, StoreTypeOK
  <1>2. /\ rec \in Requests
        /\ rec.pc = "done" /\ rec.reply = "ok" /\ rec.session = s
        /\ rec.invoice = opener[o].invoice
        /\ rec.project = opener[o].project
        /\ rec.key = opener[o].key
    BY <1>1 DEF Requests, OpenPcs, OpenReplies
  <1>3. opener' = [opener EXCEPT ![o] = rec]
    BY <1>1 DEF ReplySession, Requests, SessionsInv, SessionsTypeOK
  <1>4. Checked(rec)
    BY <1>2 DEF Checked
  <1> HIDE DEF rec
  <1> QED
    BY <1>2, <1>3, <1>4, MoveOpenStep

\* A request goes on to look up its key, to the gateway, or to its INSERT.
LEMMA GoOnStep ==
    ASSUME SessionsInv, NEW o \in Openers,
           NEW pc \in {"lookup", "create", "insert"},
           GoOn(o, pc), UNCHANGED <<storeVars, ordered>>,
           InvoiceProject[opener[o].invoice] = opener[o].project,
           opener[o].pc # "done",
           pc = "insert" =>
                AccountProject[opener[o].account] = opener[o].project
    PROVE  SessionsInv'
  <1> DEFINE rec == [opener[o] EXCEPT !.pc = pc]
  <1>1. opener[o] \in Requests
    BY InvParts
  <1>2. /\ rec \in Requests
        /\ rec.pc = pc
        /\ rec.reply = opener[o].reply
        /\ rec.invoice = opener[o].invoice
        /\ rec.account = opener[o].account
        /\ rec.project = opener[o].project
        /\ rec.key = opener[o].key
        /\ rec.session = opener[o].session
    BY <1>1 DEF Requests, OpenPcs
  <1>3. opener' = [opener EXCEPT ![o] = rec]
    BY DEF GoOn
  <1>4. Checked(opener[o])
    BY InvParts
  <1>5. Checked(rec)
    BY <1>2, <1>4 DEF Checked
  <1>6. ordered' \subseteq Nat /\ ordered \subseteq ordered'
    BY DEF SessionsInv, SessionsTypeOK
  <1>7. rec.reply = "ok" /\ rec.session \notin ordered' => rec.key # NoKey
    BY <1>2 DEF SessionsInv, UnorderedOnlyByKey, Opened
  <1> HIDE DEF rec
  <1> QED
    BY <1>2, <1>3, <1>5, <1>6, <1>7, MoveOpenStep

-----------------------------------------------------------------------------
(* One lemma per action. *)

LEMMA OpenersInitStep ==
    ASSUME SessionsInit
    PROVE  SessionsInv
  <1>1. SessionsTypeOK
    BY DEF SessionsInit, OpenersInit, StoreInit, SessionsTypeOK, StoreTypeOK,
           InvoiceStatuses, OpenPcs, OpenReplies
  <1>2. session = <<>> /\ DOMAIN session = {}
    BY DEF SessionsInit, StoreInit
  <1>3. \A o \in Openers :
            /\ opener[o].pc = "new"
            /\ opener[o].reply = "none"
    BY DEF SessionsInit, OpenersInit
  <1>4. RequestsAreChecked /\ UnorderedOnlyByKey
    BY <1>3 DEF RequestsAreChecked, UnorderedOnlyByKey, Opened
  <1> QED
    BY <1>1, <1>2, <1>4 DEF SessionsInv, SessionsKeepTenancy, KeysAreUnique

LEMMA ReadInvoiceStep ==
    ASSUME SessionsInv, NEW o \in Openers, ReadInvoice(o)
    PROVE  SessionsInv'
  <1>1. ordered' \subseteq Nat /\ ordered \subseteq ordered'
    BY DEF ReadInvoice, SessionsInv, SessionsTypeOK
  <1>2. CASE Refuse(o, "not_found")
    BY <1>1, <1>2, RefuseOpenStep DEF ReadInvoice, OpenReplies
  <1>3. CASE Refuse(o, "already_paid")
    BY <1>1, <1>3, RefuseOpenStep DEF ReadInvoice, OpenReplies
  <1>4. CASE /\ GoOn(o, "lookup")
             /\ InvoiceProject[opener[o].invoice] = opener[o].project
    BY <1>4, GoOnStep DEF ReadInvoice
  <1> QED
    BY <1>2, <1>3, <1>4 DEF ReadInvoice, GetInvoiceByIDAndProject

LEMMA LookupKeyStep ==
    ASSUME SessionsInv, NEW o \in Openers, LookupKey(o)
    PROVE  SessionsInv'
  <1>1. InvoiceProject[opener[o].invoice] = opener[o].project
    BY InvParts DEF LookupKey, Checked
  <1>2. CASE GoOn(o, "create")
    BY <1>1, <1>2, GoOnStep DEF LookupKey
  <1>3. ASSUME NEW s \in GetPaymentSessionByIdempotencyKey(
                            opener[o].invoice, opener[o].key),
               opener[o].key # NoKey,
               ReplySession(o, s)
        PROVE  SessionsInv'
    <2>1. /\ s \in DOMAIN session
          /\ session[s].invoice = opener[o].invoice
          /\ session[s].key = opener[o].key
      BY DEF GetPaymentSessionByIdempotencyKey
    <2>2. ordered' \subseteq Nat /\ ordered \subseteq ordered'
      BY DEF LookupKey, SessionsInv, SessionsTypeOK
    <2> QED
      BY <1>1, <1>3, <2>1, <2>2, ReplySessionStep DEF LookupKey
  <1> QED
    BY <1>2, <1>3 DEF LookupKey

LEMMA CreateGatewaySessionStep ==
    ASSUME SessionsInv, NEW o \in Openers, CreateGatewaySession(o)
    PROVE  SessionsInv'
  <1>1. ordered' \subseteq Nat /\ ordered \subseteq ordered'
    BY DEF CreateGatewaySession, SessionsInv, SessionsTypeOK
  <1>2. CASE Refuse(o, "internal_error") \/ Refuse(o, "gateway_error")
    BY <1>1, <1>2, RefuseOpenStep DEF CreateGatewaySession, OpenReplies
  <1>3. CASE /\ GoOn(o, "insert")
             /\ AccountProject[opener[o].account] = opener[o].project
    <2>1. InvoiceProject[opener[o].invoice] = opener[o].project
      BY InvParts DEF CreateGatewaySession, Checked
    <2> QED
      BY <1>3, <2>1, GoOnStep DEF CreateGatewaySession
  <1> QED
    BY <1>2, <1>3 DEF CreateGatewaySession, GetGatewayAccountByIDAndProject

\* The row is new: its key was free, its project is the invoice's.
LEMMA InsertSessionStep ==
    ASSUME SessionsInv, NEW o \in Openers, InsertSession(o)
    PROVE  SessionsInv'
  <1> USE SessionsAssumption, StoreAssumption
  <1>1. CASE Refuse(o, "internal_error") /\ UNCHANGED session
    <2>1. ordered' \subseteq Nat /\ ordered \subseteq ordered'
      BY DEF InsertSession, SessionsInv, SessionsTypeOK
    <2> QED
      BY <1>1, <2>1, RefuseOpenStep DEF InsertSession, OpenReplies, storeVars
  <1>2. ASSUME IdempotencyKeyFree(opener[o].invoice, opener[o].key),
               CreatePaymentSession(opener[o].invoice,
                    InvoiceProject[opener[o].invoice],
                    opener[o].account, opener[o].key),
               opener' = [opener EXCEPT ![o].pc = "update",
                                        ![o].session = Len(session) + 1]
        PROVE  SessionsInv'
    <2> DEFINE n == Len(session) + 1
               row == [invoice |-> opener[o].invoice,
                       project |-> InvoiceProject[opener[o].invoice],
                       account |-> opener[o].account,
                       key |-> opener[o].key, status |-> "created"]
               rec == [opener[o] EXCEPT !.pc = "update", !.session = n]
    <2>1. /\ opener[o] \in Requests
          /\ Checked(opener[o])
          /\ opener[o].pc = "insert"
      BY InvParts DEF InsertSession
    <2>2. /\ InvoiceProject[opener[o].invoice] = opener[o].project
          /\ AccountProject[opener[o].account] = opener[o].project
      BY <2>1 DEF Checked
    <2>3. session \in Seq(SessionRow) /\ Len(session) \in Nat
      BY DEF SessionsInv, SessionsTypeOK, StoreTypeOK
    <2>4. row \in SessionRow
      BY <2>1 DEF SessionRow, SessionStatuses, Requests
    <2>5. session' = Append(session, row)
      BY <1>2 DEF CreatePaymentSession
    <2>6. /\ row.invoice = opener[o].invoice
          /\ row.project = InvoiceProject[opener[o].invoice]
          /\ row.account = opener[o].account
          /\ row.key = opener[o].key
      OBVIOUS
    <2> HIDE DEF row
    <2>7. /\ session' \in Seq(SessionRow)
          /\ DOMAIN session' = DOMAIN session \cup {n}
          /\ n \notin DOMAIN session
          /\ session'[n] = row
          /\ \A s \in DOMAIN session : session'[s] = session[s]
      BY <2>3, <2>4, <2>5
    <2>8. n \in Nat
      BY <2>3
    <2> HIDE DEF n
    <2>9. /\ rec \in Requests
          /\ rec.pc = "update" /\ rec.session = n
          /\ rec.reply = opener[o].reply
          /\ rec.invoice = opener[o].invoice
          /\ rec.account = opener[o].account
          /\ rec.project = opener[o].project
          /\ rec.key = opener[o].key
      BY <2>1, <2>8 DEF Requests, OpenPcs
    <2>10. opener' = [opener EXCEPT ![o] = rec]
      BY <1>2, <2>1 DEF n, Requests, SessionsInv, SessionsTypeOK
    <2> HIDE DEF rec
    <2>11. /\ opener' \in [Openers -> Requests]
           /\ opener'[o] = rec
           /\ \A q \in Openers : q # o => opener'[q] = opener[q]
      BY <2>9, <2>10 DEF SessionsInv, SessionsTypeOK, Requests
    <2>12. ordered' = ordered /\ invoice' = invoice
      BY DEF InsertSession
    <2>13. SessionsTypeOK'
      BY <2>7, <2>11, <2>12
         DEF SessionsInv, SessionsTypeOK, StoreTypeOK, Requests
    <2>14. SessionsKeepTenancy'
      BY <2>2, <2>6, <2>7 DEF SessionsInv, SessionsKeepTenancy
    <2>15. \A s \in DOMAIN session :
              /\ session[s].invoice = row.invoice
              /\ session[s].key = row.key
              => row.key = NoKey
      BY <1>2, <2>6
         DEF IdempotencyKeyFree, GetPaymentSessionByIdempotencyKey
    <2>16. KeysAreUnique'
      BY <2>7, <2>15 DEF SessionsInv, KeysAreUnique
    <2>17. RequestsAreChecked'
      <3> SUFFICES ASSUME NEW q \in Openers
                   PROVE  Checked(opener[q])'
        BY DEF RequestsAreChecked, Checked
      <3>1. CASE q = o
        BY <2>1, <2>2, <2>6, <2>7, <2>9, <2>11, <3>1 DEF Checked
      <3>2. CASE q # o
        <4>1. Checked(opener[q])
          BY InvParts
        <4> QED
          BY <2>7, <2>11, <3>2, <4>1 DEF Checked
      <3> QED
        BY <3>1, <3>2
    <2>18. UnorderedOnlyByKey'
      <3>1. opener[o].reply # "ok"
        BY <2>1 DEF Checked
      <3> QED
        BY <2>9, <2>11, <2>12, <3>1
           DEF SessionsInv, UnorderedOnlyByKey, Opened
    <2> QED
      BY <2>13, <2>14, <2>16, <2>17, <2>18 DEF SessionsInv
  <1> QED
    BY <1>1, <1>2 DEF InsertSession

LEMMA UpdateGatewaySessionStep ==
    ASSUME SessionsInv, NEW o \in Openers, UpdateGatewaySession(o)
    PROVE  SessionsInv'
  <1>1. /\ Checked(opener[o])
        /\ opener[o] \in Requests
        /\ opener[o].pc = "update"
    BY InvParts DEF UpdateGatewaySession
  <1>2. /\ opener[o].session \in DOMAIN session
        /\ opener[o].session \in Nat
        /\ session[opener[o].session].invoice = opener[o].invoice
        /\ session[opener[o].session].key = opener[o].key
        /\ InvoiceProject[opener[o].invoice] = opener[o].project
    BY <1>1 DEF Checked, Requests
  <1>3. ordered' \subseteq Nat /\ ordered \subseteq ordered'
    BY <1>2 DEF UpdateGatewaySession, SessionsInv, SessionsTypeOK
  <1>4. CASE Refuse(o, "gateway_error")
    BY <1>3, <1>4, RefuseOpenStep DEF UpdateGatewaySession, OpenReplies
  <1>5. CASE /\ ordered' = ordered \cup {opener[o].session}
             /\ ReplySession(o, opener[o].session)
    BY <1>2, <1>3, <1>5, ReplySessionStep DEF UpdateGatewaySession
  <1> QED
    BY <1>4, <1>5 DEF UpdateGatewaySession

LEMMA AbortOpenStep ==
    ASSUME SessionsInv, NEW o \in Openers, AbortOpen(o)
    PROVE  SessionsInv'
  <1>1. ordered' \subseteq Nat /\ ordered \subseteq ordered'
    BY DEF AbortOpen, SessionsInv, SessionsTypeOK
  <1> QED
    BY <1>1, RefuseOpenStep DEF AbortOpen, OpenReplies

\* A request a stop loses is not given a session.
LEMMA CrashOpenersStep ==
    ASSUME SessionsInv, CrashOpeners
    PROVE  SessionsInv'
  <1>1. invoice' = invoice /\ session' = session /\ ordered' = ordered
    BY DEF CrashOpeners, storeVars
  <1>2. ASSUME NEW o \in Openers
        PROVE  \/ opener'[o] = opener[o]
               \/ /\ opener'[o] \in Requests
                  /\ opener'[o].pc = "done"
                  /\ opener'[o].reply = "lost"
    <2>1. opener[o] \in Requests
      BY InvParts
    <2>2. [opener[o] EXCEPT !.pc = "done", !.reply = "lost"] \in Requests
      BY <2>1 DEF Requests, OpenPcs, OpenReplies
    <2> QED
      BY <2>1, <2>2 DEF CrashOpeners, LoseOpeners, Requests
  <1>3. opener' \in [Openers -> Requests]
    <2>1. \A o \in Openers : opener'[o] \in Requests
      BY <1>2, InvParts
    <2> QED
      BY <2>1 DEF CrashOpeners, LoseOpeners
  <1>4. SessionsTypeOK'
    BY <1>1, <1>3 DEF SessionsInv, SessionsTypeOK, StoreTypeOK, Requests
  <1>5. SessionsKeepTenancy' /\ KeysAreUnique'
    BY <1>1 DEF SessionsInv, SessionsKeepTenancy, KeysAreUnique
  <1>6. RequestsAreChecked'
    <2> SUFFICES ASSUME NEW o \in Openers
                 PROVE  Checked(opener[o])'
      BY DEF RequestsAreChecked, Checked
    <2>1. Checked(opener[o])
      BY InvParts
    <2> QED
      BY <1>1, <1>2, <2>1 DEF Checked
  <1>7. UnorderedOnlyByKey'
    BY <1>1, <1>2 DEF SessionsInv, UnorderedOnlyByKey, Opened
  <1> QED
    BY <1>4, <1>5, <1>6, <1>7 DEF SessionsInv

LEMMA InvoiceSettlesStep ==
    ASSUME SessionsInv, NEW i \in Invoices, InvoiceSettles(i)
    PROVE  SessionsInv'
  <1>1. session' = session /\ opener' = opener /\ ordered' = ordered
    BY DEF InvoiceSettles
  <1>2. invoice' \in [Invoices -> InvoiceStatuses]
    BY DEF InvoiceSettles, UpdateInvoiceStatus, SessionsInv, SessionsTypeOK,
           StoreTypeOK, InvoiceStatuses
  <1> QED
    BY <1>1, <1>2
       DEF SessionsInv, SessionsTypeOK, StoreTypeOK, SessionsKeepTenancy,
           KeysAreUnique, RequestsAreChecked, UnorderedOnlyByKey, Opened

LEMMA OpenersStep ==
    ASSUME SessionsInv, [SessionsNext]_sessionsVars
    PROVE  SessionsInv'
  <1>1. CASE UNCHANGED sessionsVars
    BY <1>1
       DEF sessionsVars, storeVars, SessionsInv, SessionsTypeOK, StoreTypeOK,
           SessionsKeepTenancy, KeysAreUnique, RequestsAreChecked,
           UnorderedOnlyByKey, Opened
  <1>2. ASSUME NEW o \in Openers, HandleOpen(o)
        PROVE  SessionsInv'
    BY <1>2, ReadInvoiceStep, LookupKeyStep, CreateGatewaySessionStep,
       InsertSessionStep, UpdateGatewaySessionStep DEF HandleOpen
  <1> QED
    BY <1>1, <1>2, AbortOpenStep, CrashOpenersStep, InvoiceSettlesStep
       DEF SessionsNext

-----------------------------------------------------------------------------
(* Theorems. *)

\* The invariant holds in every behaviour of the requests.
THEOREM SessionsInductive == SessionsSpec => []SessionsInv
  BY OpenersInitStep, OpenersStep, PTL DEF SessionsSpec

\* The tables and the requests keep their types.
THEOREM SessionsTyped == SessionsSpec => []SessionsTypeOK
  BY SessionsInductive, PTL DEF SessionsInv

\* However their lookups and inserts interleave, two requests for one invoice
\* with one Idempotency-Key are never given two sessions
\* (service.go:145-203).
THEOREM OneSessionPerKey == SessionsSpec => []SameKeySameSession
  <1>1. SessionsInv => SameKeySameSession
    <2> SUFFICES ASSUME SessionsInv, NEW o \in Openers, NEW q \in Openers,
                        Opened(o), Opened(q),
                        opener[o].key = opener[q].key,
                        opener[o].key # NoKey,
                        opener[o].invoice = opener[q].invoice
                 PROVE  opener[o].session = opener[q].session
      BY DEF SameKeySameSession
    <2>1. Checked(opener[o]) /\ Checked(opener[q])
      BY InvParts
    <2> QED
      BY <2>1 DEF Checked, Opened, SessionsInv, KeysAreUnique
  <1> QED
    BY <1>1, SessionsInductive, PTL

\* The session a payer is given is of the invoice and of the tenant the
\* request was for, and so is its gateway account (service.go:129-203).
THEOREM RequestsAreMatched == SessionsSpec => []ReplyMatchesRequest
  <1>1. SessionsInv => ReplyMatchesRequest
    <2> SUFFICES ASSUME SessionsInv, NEW o \in Openers, Opened(o)
                 PROVE  LET s == session[opener[o].session]
                        IN  /\ opener[o].session \in DOMAIN session
                            /\ s.invoice = opener[o].invoice
                            /\ s.project = opener[o].project
                            /\ InvoiceProject[s.invoice] = s.project
                            /\ AccountProject[s.account] = s.project
      BY DEF ReplyMatchesRequest
    <2>1. Checked(opener[o])
      BY InvParts
    <2> QED
      BY <2>1 DEF Checked, Opened, SessionsInv, SessionsKeepTenancy
  <1> QED
    BY <1>1, SessionsInductive, PTL

\* Without a key nobody is given a session whose order is not set
\* (service.go:205).
THEOREM KeylessAreOrdered == SessionsSpec => []UnorderedOnlyByKey
  BY SessionsInductive, PTL DEF SessionsInv

\* A request that moves leaves the invoices and the other requests alone, and
\* adds a row at most for its own invoice; one that begins when its invoice is
\* paid is over at once.
LEMMA RequestMoves ==
    ASSUME SessionsInv, NEW o \in Openers, HandleOpen(o) \/ AbortOpen(o)
    PROVE  /\ invoice' = invoice
           /\ opener[o].pc # "done"
           /\ \A q \in Openers : q # o => opener'[q] = opener[q]
           /\ opener'[o].invoice = opener[o].invoice
           /\ \/ session' = session
              \/ \E row \in SessionRow :
                    /\ row.invoice = opener[o].invoice
                    /\ session' = Append(session, row)
           /\ opener[o].pc = "new" /\ invoice[opener[o].invoice] = "paid" =>
                    /\ session' = session
                    /\ opener'[o].pc = "done"
                    /\ opener'[o].reply # "ok"
  <1>1. /\ opener[o] \in Requests
        /\ opener \in [Openers -> Requests]
    BY InvParts DEF SessionsInv, SessionsTypeOK, Requests
  <1>2. CASE ReadInvoice(o)
    BY <1>1, <1>2
       DEF ReadInvoice, GetInvoiceByIDAndProject, Refuse, GoOn, Requests,
           storeVars
  <1>3. CASE LookupKey(o)
    BY <1>1, <1>3 DEF LookupKey, ReplySession, GoOn, Requests, storeVars
  <1>4. CASE CreateGatewaySession(o)
    BY <1>1, <1>4 DEF CreateGatewaySession, Refuse, GoOn, Requests, storeVars
  <1>5. CASE InsertSession(o)
    <2>1. CASE Refuse(o, "internal_error") /\ UNCHANGED session
      BY <1>1, <1>5, <2>1 DEF InsertSession, Refuse, Requests
    <2>2. CASE /\ CreatePaymentSession(opener[o].invoice,
                        InvoiceProject[opener[o].invoice],
                        opener[o].account, opener[o].key)
               /\ opener' = [opener EXCEPT ![o].pc = "update",
                                           ![o].session = Len(session) + 1]
      <3> DEFINE row == [invoice |-> opener[o].invoice,
                         project |-> InvoiceProject[opener[o].invoice],
                         account |-> opener[o].account,
                         key |-> opener[o].key, status |-> "created"]
      <3>1. row \in SessionRow
        BY <1>1, StoreAssumption DEF SessionRow, SessionStatuses, Requests
      <3>2. session' = Append(session, row) /\ row.invoice = opener[o].invoice
        BY <2>2 DEF CreatePaymentSession
      <3> HIDE DEF row
      <3>3. /\ \A q \in Openers : q # o => opener'[q] = opener[q]
            /\ opener'[o].invoice = opener[o].invoice
        BY <1>1, <2>2 DEF Requests
      <3> QED
        BY <1>5, <3>1, <3>2, <3>3 DEF InsertSession
    <2> QED
      BY <1>5, <2>1, <2>2 DEF InsertSession
  <1>6. CASE UpdateGatewaySession(o)
    BY <1>1, <1>6
       DEF UpdateGatewaySession, ReplySession, Refuse, Requests, storeVars
  <1>7. CASE AbortOpen(o)
    BY <1>1, <1>7 DEF AbortOpen, InFlight, Refuse, Requests, storeVars
  <1> QED
    BY <1>2, <1>3, <1>4, <1>5, <1>6, <1>7 DEF HandleOpen

\* Once an invoice is paid and the requests that had read it unpaid are over,
\* no session of it is added and none is handed out (service.go:140).
THEOREM PaidIsShut == SessionsSpec => PaidClosesTheDoor
  <1> DEFINE Stays(i) ==
        /\ Shut(i)'
        /\ SessionsOf(i)' = SessionsOf(i)
        /\ HandedOut(i)' = HandedOut(i)
  <1>1. ASSUME SessionsInv, [SessionsNext]_sessionsVars,
               NEW i \in Invoices, Shut(i)
        PROVE  Stays(i)
    <2>1. CASE UNCHANGED sessionsVars
      BY <1>1, <2>1
         DEF sessionsVars, storeVars, Shut, SessionsOf, HandedOut, Opened,
             InFlight
    <2>2. ASSUME NEW o \in Openers, HandleOpen(o) \/ AbortOpen(o)
          PROVE  Stays(i)
      <3>1. CASE opener[o].invoice = i
        <4>1. opener[o].pc = "new"
          BY <1>1, <2>2, <3>1, RequestMoves DEF Shut, InFlight
        <4>2. opener[o].reply = "none"
          BY <1>1, <4>1, InvParts DEF Checked
        <4>3. /\ session' = session /\ invoice' = invoice
              /\ opener'[o].pc = "done" /\ opener'[o].reply # "ok"
              /\ opener'[o].invoice = i
              /\ \A q \in Openers : q # o => opener'[q] = opener[q]
          BY <1>1, <2>2, <3>1, <4>1, RequestMoves DEF Shut
        <4>4. \A q \in Openers : q # o => opener'[q] = opener[q]
          BY <4>3
        <4>5. Shut(i)' /\ SessionsOf(i)' = SessionsOf(i)
          BY <1>1, <4>3, <4>4 DEF Shut, InFlight, SessionsOf
        <4>6. HandedOut(i)' = HandedOut(i)
          BY <4>2, <4>3, <4>4 DEF HandedOut, Opened
        <4> QED
          BY <4>5, <4>6
      <3>2. CASE opener[o].invoice # i
        <4>1. /\ invoice' = invoice
              /\ opener'[o].invoice # i
              /\ \A q \in Openers : q # o => opener'[q] = opener[q]
          BY <1>1, <2>2, <3>2, RequestMoves
        <4>2. Shut(i)' /\ HandedOut(i)' = HandedOut(i)
          BY <1>1, <3>2, <4>1 DEF Shut, InFlight, HandedOut, Opened
        <4>3. SessionsOf(i)' = SessionsOf(i)
          <5>1. CASE session' = session
            BY <5>1 DEF SessionsOf
          <5>2. ASSUME NEW row \in SessionRow, row.invoice # i,
                       session' = Append(session, row)
                PROVE  SessionsOf(i)' = SessionsOf(i)
            <6>1. session \in Seq(SessionRow)
              BY <1>1 DEF SessionsInv, SessionsTypeOK, StoreTypeOK
            <6>2. /\ DOMAIN session' = DOMAIN session \cup {Len(session) + 1}
                  /\ Len(session) + 1 \notin DOMAIN session
                  /\ session'[Len(session) + 1] = row
                  /\ \A s \in DOMAIN session : session'[s] = session[s]
              BY <5>2, <6>1
            <6> QED
              BY <5>2, <6>2 DEF SessionsOf
          <5> QED
            BY <1>1, <2>2, <3>2, <5>1, <5>2, RequestMoves
        <4> QED
          BY <4>2, <4>3
      <3> QED
        BY <3>1, <3>2
    <2>3. CASE CrashOpeners
      <3>1. /\ session' = session /\ invoice' = invoice
            /\ \A o \in Openers :
                \/ opener'[o] = opener[o]
                \/ /\ opener'[o].pc = "done" /\ opener'[o].reply = "lost"
                   /\ opener[o].reply # "ok"
        <4>1. ASSUME NEW o \in Openers, InFlight(o)
              PROVE  /\ opener'[o].pc = "done" /\ opener'[o].reply = "lost"
                     /\ opener[o].reply # "ok"
          BY <1>1, <2>3, <4>1, InvParts
             DEF CrashOpeners, LoseOpeners, Checked, InFlight, Requests
        <4> QED
          BY <2>3, <4>1 DEF CrashOpeners, LoseOpeners, storeVars
      <3>2. \A o \in Openers : InFlight(o) => opener[o].invoice # i
        BY <1>1 DEF Shut
      <3>3. \A o \in Openers : opener[o].invoice = i => opener'[o] = opener[o]
        BY <2>3, <3>2 DEF CrashOpeners, LoseOpeners
      <3> QED
        BY <1>1, <3>1, <3>3 DEF Shut, InFlight, SessionsOf, HandedOut, Opened
    <2>4. ASSUME NEW j \in Invoices, InvoiceSettles(j)
          PROVE  Stays(i)
      BY <1>1, <2>4
         DEF InvoiceSettles, UpdateInvoiceStatus, SessionsInv, SessionsTypeOK,
             StoreTypeOK, Shut, InFlight, SessionsOf, HandedOut, Opened
    <2> QED
      BY <1>1, <2>1, <2>2, <2>3, <2>4 DEF SessionsNext
  <1>2. SessionsInv /\ [SessionsNext]_sessionsVars =>
        [\A i \in Invoices : Shut(i) =>
            Shut(i)' /\ SessionsOf(i)' = SessionsOf(i)
                    /\ HandedOut(i)' = HandedOut(i)]_sessionsVars
    BY <1>1
  <1> HIDE DEF Stays
  <1> QED
    BY <1>2, SessionsInductive, PTL DEF SessionsSpec, PaidClosesTheDoor
=============================================================================
