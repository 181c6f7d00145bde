# A verification development of saftaja

saftaja is a hosted checkout: a tenant (a *project*) creates an invoice, its
customer opens the checkout page of the invoice under the tenant's own domain
and pays with a card through a Mastercard gateway (MPGS). The server is
`khazina` (Go, PostgreSQL). This directory holds TLA+ specifications of its
payment core, of the tenants and of the page in front of it, the TLC configurations that check them, and proofs for TLAPS.

## 1. The system

| Part | State | Operations | Talks to |
|---|---|---|---|
| payment service (`khazina/internal/payment/service.go`) | none of its own | `InitiateSession`, `InitiateAuth`, `ProcessAuth`, `FinalizePayment`; reads only: `GetCheckoutData`, `VerifyDomain` | store, MPGS client |
| store (`internal/store`) | the tables `invoices`, `payment_sessions`, `transactions`, `gateway_accounts`, `projects`, ..., two partial unique indexes | one statement per function; one explicit transaction, in `FinalizePayment` | PostgreSQL |
| MPGS client (`internal/clients/mpgs`) | none | one HTTP call per function, 30 s timeout | the gateway |
| state machine (`internal/payment/state.go`) | none | `ValidateSessionTransition`, `ValidateInvoiceTransition` | nobody calls it |
| web handlers, errors, middlewares (`internal/web`) | none | parse a request, resolve the tenant from `Host`, call the service, map its errors | payment, tenant service |
| checkout and completion pages (`internal/web/templfiles`) | the script's: session id, sections, overlays, timers | choose a method, pay, 3DS challenge, finalize | handlers, the gateway's frame |
| admin API (`internal/admin`), tenant service (`internal/tenant`), middlewares | rows of the admin tables | create an organisation, project, account, invoice; find a project by domain | store |
| connectors, crypto, config, domain, utils, `main.go` | constant after start | credentials, AES-GCM, configuration, texts, start and stop | |
| infra, diwan, bawaba, tests | | deployment, a template front end, a static page, Playwright tests | |

A payment is four requests of one page: `initiate` opens a session in the
database and at the gateway; `initiate-auth` and `process-auth` authenticate
the payer (3DS); `finalize` pays. Nothing but the database ties them together:
each is a goroutine of its own that reads rows, inserts a *pending* row of
`transactions`, calls the gateway, and writes the row's result. Between any two
of these steps any other request of the same invoice may run. A retry, a second
tab, a second session of the invoice and a late answer of the gateway are all
ordinary.

Hard behaviours, and what must hold through them:

- **Concurrent requests of one invoice.** Checks are made before the gateway
  call, the unique index is met after it. The invoice must be settled once; a
  handler that says "success" must say it of a paid invoice.
- **Failure between steps.** A statement, a gateway call, a COMMIT or its
  acknowledgement may be lost, the process may stop. The invoice must be paid
  exactly when a payment of it is recorded; no row may record an answer the
  gateway did not give to it.
- **Stale reads.** Expiry and the invoice's status are read once per request;
  `process-auth` uses "the latest row of the session", `finalize` "the latest
  successful authentication", whoever inserted it.
- **Idempotency.** Two `initiate` requests with one key race; a session may be
  found by its key before the gateway knows its order.
- **Tenancy.** Each handler checks by itself that project, invoice and session
  belong together. The project comes from the `Host` header, by a query whose
  failure looks like "no such tenant"; a checkout page is put together from
  several queries while rows are added, retired and paid.
- **The page.** Its script is a client with state of its own: a session id that
  every step of a payment reads again, overlays that are all that keeps the
  payer from a second payment, answers it does not look at, a frame that
  reports to it and takes it away three seconds later.
- **Waiting.** A settling UPDATE waits for another transaction in the index.

`PROJECT.json` lists each at its line, under `hazards`, with the properties
that would catch it going wrong, or the reason why none does yet.

## 2. The modules

| Module | Models | State |
|---|---|---|
| `Store` | the tables invoices, payment_sessions, gateway_accounts with their queries and statements; the index of migration 00003 | `invoice` (status), `session` (rows) |
| `Transactions` | the table transactions; the index of migration 00002 | `tx` (rows) |
| `Sessions` | `InitiateSession` as concurrent requests | `opener` (requests), `ordered` (sessions whose order the gateway knows) |
| `Payment` | `InitiateAuth`, `ProcessAuth`, `FinalizePayment` as concurrent handlers; the gateway; expiry | `worker` (handlers), `call` (gateway calls), `expired` |
| `Khazina` | both over one store (it EXTENDS both), with one crash of the process, `ServerCrash` | all of it |
| `Tenancy` | the admin API, the tables it fills, the tenant resolver, `GetCheckoutData`, `VerifyDomain`, `DynamicCORS` | `organizations`, `project`, `account`, `invoices`, `visit` (pages being put together) |
| `Page` | the checkout page as its script draws it | none: operators on a record |
| `Checkout` | the scripts of both pages, the payer and the challenge frame in front of `Payment`, which it EXTENDS | that of `Payment`, and `page`, `initiate`, `caller`, `frame` |
| `Ledger` | abstract: what the payment service promises about money | `charged`, `settled`, `paid` |
| `StateMachine` | `state.go` | none |
| `PaymentProofs` | the inductive invariant of `Payment`, and the theorems that follow from it alone | |
| `AuthProofs` | theorems about the authentications a payment rests on; the action properties of `Payment` | |
| `ChargeProofs` | the theorem that requests served one after another charge an invoice once | |
| `LedgerProofs` | the theorem that `Payment` implements `Ledger` | |
| `SessionsProofs` | theorems about `Sessions` | |
| `KhazinaProofs` | the theorems that `Khazina` implements `Sessions`, `Payment` and `Ledger` | |
| `TenancyProofs` | theorems about `Tenancy` | |
| `CheckoutProofs` | theorems about `Checkout` | |
| `MCSessions`, `MCPayment`, `MCKhazina`, `MCTenancy`, `MCCheckout` | instances for TLC | |

How they correspond to the code:

- *A step is one database statement or one gateway call*, with the local code
  up to the next one. Reads of columns that no statement changes (a session's
  invoice, an invoice's project, an account) are made in the step that first
  needs them; every read of a column that does change (the invoice's status,
  the rows of `transactions`, the sessions found by key) is a step of its own.
- *A row is its place in its table's sequence*, which is also its `created_at`
  order; a query is the set of rows its `:one` may return, and the empty set is
  `sql.ErrNoRows`. A uuid is named by the row it was minted for.
- *A unique index* makes the statement that would break it fail. In
  `FinalizePayment` the UPDATE runs inside a transaction, so PostgreSQL makes
  it wait for an uncommitted entry: `SettleWrite` waits while another handler
  is `Settling` the invoice and then fails or proceeds. COMMIT makes the row
  and the invoice visible in one step (`SettleCommit`).
- *A gateway call* and its answer are two steps. `call[t] = "sent"` from the
  insertion of row `t`; `GatewayAnswers` may answer at any later time, also
  when the handler has given up (`Timeout`), or never. The answers of a PAY are
  what the handler tells apart: `APPROVED` and everything else.
- *Faults* are switched by a constant, so that each run says which it allows:
  `timeout` (the client gives up, or gets an error), `abort` (a statement fails
  or the context is cancelled; an open transaction rolls back; the one query
  whose error the code ignores, for an earlier payment, is taken for "none"),
  `lost_commit` (a write is applied, its acknowledgement lost), `crash`.
- *Requests* arrive with any project, session and invoice: the handlers are
  what checks them. In `Khazina` a session must first have been handed out. In
  `Checkout` they are those the page sends.
- *The tables of `Tenancy`* are sequences of rows, a foreign key a condition of
  the INSERT, a unique constraint the condition that no row has the value.
  `Post...` is the handler with its checks, `Create...` the service, `Insert...`
  the statement. `deleted_at` and `is_active` are read by the queries and
  written by nothing in the repository: they are set by hand (external
  actions). A visit has a step for the resolver, for the invoice and for the
  accounts; the items of an invoice are only drawn. What a later request does
  with an option the page has offered is `GetGatewayAccountByIDAndProject`.
- *The page* is a record of the sections and overlays that are on, the session
  id and the pay button; each function of the script that draws is an operator
  of `Page` under its own name. An overlay covers the page, so a click needs a
  section that is on and no overlay (`Clickable`). An event of `Checkout` is
  what runs in one turn of the script: a click, a callback of the gateway's
  library, the answer to a request, a message of the frame. `caller[w]` says
  what waits for the answer of handler `w`, `initiate[n]` is the request of the
  `n`-th choice of an option, which the payer may go back from before it is
  answered. An answer is told apart by what the script looks at: `action`,
  `next_step`, nothing at all for `finalize`, and whether the frame has become
  the completion page or an error. `Fail` is a statement of the server that
  fails, whoever waits for the answer; `initiate` may also fail after its session
  was inserted. Only the button keeps the payer from a second press while the
  library stores the card, and `showError` enables it again, so `page.saving`
  counts the cards that are being stored.
- *Every step of the server in `Checkout` is a step of `Payment`*: the browser
  only chooses which request comes when, and no variable of the server is
  changed otherwise. That is the theorem `BrowserServesPayment`, so what is
  proved of `PaymentSpec` holds in front of a browser too.

## 3. The runs

| Run | Instance | Shows |
|---|---|---|
| Sessions | 3 requests, 2 tenants, 1 key, every fault | one key gives one session; only a lookup by key can hand out a session without an order; the session handed out is of the request's invoice and tenant; a paid invoice takes no new session once the requests that had read it unpaid are over; the invariant of the proofs, `SessionsInv` |
| PaymentRace | 2 handlers, 1 session, 5 rows, every fault | rows record the gateway's answers, and what is recorded is final; a payment carries a recorded authentication of its own session; where the authenticated id may come from; expired sessions and paid invoices are closed for good; `AuthInv` |
| PaymentSessions | 2 handlers, 2 sessions, 6 rows, one authentication and any payments of each session; failing statements and lost acknowledgements | paid exactly when settled, settled once, no false success; implements `Ledger` |
| PaymentFair | 2 handlers, 4 rows, no fault, fair | `IInv`, the invariant of the proofs; every request is answered, those that wait for another's transaction included; an approval leads to a paid invoice |
| PaymentSerial | 1 handler, 2 tenants, 3 invoices, 2 sessions, 6 rows, acknowledgements lost | rows never mix invoices or tenants; one approval per invoice; `SerialInv` |
| Khazina | 2 session requests, 1 handler, 3 rows, timeouts and crash, fair | the composition implements `Sessions` and `Payment`; a session without a key has its order before it is used; every request is answered or gone with the server; `KhazinaInv` |
| Tenancy | 3 hosts (one with a port), 2 projects, 2 accounts, 1 invoice, 1 visit, failing queries | a page is of the tenant of its host throughout; its options can be chosen; nobody is turned away for another tenant's sake; a host stays with one merchant; a paid invoice is not offered; `TenancyInv` |
| Checkout | 2 handlers, 2 options chosen (3 in one case), 2 presses of the pay button, 2 sessions, 6 rows, one disturbance, failing statements and timeouts, for requests that are waited for too | a success that was reported is true; nothing starts beside a request of the page or the frame that is out; nobody is left in front of "processing" but for an error of process-auth; a calm payer is charged once at most; `CheckoutInv` |

Four runs show where the code and what is written about it part:

| Run | Violated | What happens |
|---|---|---|
| DoubleCharge | `NoDoubleCharge` | two finalize requests read the invoice unpaid; the gateway approves both; the index refuses the second record, after the charge (unless the gateway itself refuses a second PAY of one order, which nothing in the repository states) |
| UnrecordedCharge | `ApprovedLeadsToPaid` | the client gives up, the gateway approves, nobody asks again |
| CheckoutSuccess | `SuccessShownMeansPaid` | both authentication calls succeed without a challenge, the gateway declines the card, finalize answers with the page of a decline, and the checkout page shows success, as it does on any answer |
| StateMachine | `InvoiceFollowsStateMachine` | pending to paid, which `state.go` and the README do not have |

The status of a session departs from the README more plainly: no statement the
service executes writes it, so `session[s].status` is `created` for ever, and no
run is spent on it.

`NoDoubleCharge` and `ApprovedLeadsToPaid` also pass, in PaymentSerial and
PaymentFair: these runs say under which conditions the code does keep them.
Checkout adds another: the page itself keeps a payer from a double charge as
long as he neither reloads it, nor meets a network failure, nor clicks in the
three seconds before the completion page leaves (`CalmPayerIsChargedOnce`),
although the gateway may approve what the server has given up. And it says why
`SuccessShownMeansPaid` fails: of the two ways a success comes to be shown, the
message of the completion page is true (`ReportedSuccessMeansPaid`), the answer
to `doFinalizePayment` need not be.

**Bounds.** `MaxTx` bounds the rows of `transactions` (a request starts only
while the row it may insert fits, so no handler is ever stuck at the bound),
`MaxSessions` those of `payment_sessions`. A whole payment takes three rows;
five let a second authentication or payment run across a first, and six let two
sessions be paid completely (with `OneAuthPerSession`, a state constraint that
authenticates each session once and lets none expire, which keeps the run at a
million states). Two handlers suffice for every race
of two; three openers because the loser of a key and a later request differ.
Symmetry is used over handlers and openers in the runs of safety alone (not in
PaymentSerial, with one handler). Keys and accounts beyond one are used only
where the property tells them apart. A run stops when the rows are used up: deadlock is therefore not checked, and
that requests end is a liveness property instead.

In Tenancy two projects are what it takes for one to see the other's rows, and
two accounts for the last to differ from the first; a second visit would only
read the same tables. In Checkout two options and two presses are what it takes
for a payment to meet the session, the answer, the frame or the charge of
another; each disturbance (a reload, a request that fails on the network, a
click in a hurry) may come once and anywhere, and it suffices to break what is
said of a calm payer. A third option may be chosen when the button has been
enabled again while a card is being stored (the action constraint `ThirdChoice`):
that takes an `initiate` request that was gone back from and then fails, and a
form after it, and two cards are then stored and two payments run. The run of
CheckoutSuccess has a state constraint, `OnlyCardsAreDeclined`, under which no
session expires and no authentication fails: either would end in the same
overlay by a shorter way, with an error for an answer.

The run of Checkout has a VIEW, `StillRead`, which leaves out of a state what no
step and no property of the run reads again: the reply of a handler nobody waits
for, the answer to a gateway call nobody waits for unless it is a PAY (charges
are counted), and the expiry of a session that neither the page, the frame nor a
request names. Two states with one view have the same successors up to the view,
and `CheckoutInv` too reads only what it keeps.

**Fairness.** Weak fairness of each handler's steps: the HTTP server runs every
goroutine, each statement returns, and a gateway call is answered or given up
after 30 seconds (`client.go`, `defaultHTTPClientTimeout`). Weak fairness is
enough since a waiting `SettleWrite` stays enabled once the holder is done.
In `Khazina` each opener and each handler is fair by itself, and `Crash` takes
both: a request that has begun is answered, or lost with the process.
Weak fairness of each answer of the gateway is assumed in the runs that check
liveness, where it only strengthens the counterexample of UnrecordedCharge: the
answer does come, and nobody takes it. Arrivals, faults and expiry are not fair.

## 4. The proofs

Every theorem holds for every set of handlers, requests, invoices, tenants,
accounts and keys, and every bound and choice of faults, under the named
assumptions on the constants:

- `StoreAssumption`: an invoice and an account have a project; `NoKey` is no key;
- `PaymentAssumption`, `SessionsAssumption`: the bounds are numbers, the faults
  are among those modelled;
- `KhazinaAssumption`: a crash takes both components, and `MaxSessions` leaves
  room for a session of every request (it is a bound of the model alone: the
  code has no such limit, so the model must not refuse a session for it);
- `TenancyAssumption`: taking a port off a host twice is taking it off once, since
  the resolver cuts at the first `:` (`middlewares/tenant.go:25`); the environment
  the API fills in is one of those modelled, which may be any strings, as the API
  takes any; there is a host;
- `CheckoutAssumption`: the page is one of an invoice and an account of one
  project.

TLC evaluates each of them in the runs, and checks each inductive invariant on
their instances.

| Module | Theorem | |
|---|---|---|
| `PaymentProofs` | `Inductive` | `PaymentSpec => []IInv` |
| | `TypeCorrect` | `[]PaymentTypeOK` |
| | `PaidExactlyWhenSettled` | `[]PaidIffSettled` |
| | `SettledOnce` | `[]OneSuccessfulPay` |
| | `SuccessIsTrue` | `[]SuccessReplyMeansPaid` |
| | `RecordsAreTrue` | `[]RecordAgreesWithGateway` |
| | `TenantsStayApart` | `[]RowsKeepTenancy` |
| `AuthProofs` | `AuthInductive` | `PaymentSpec => [](IInv /\ AuthInv)` |
| | `PaymentsAreAuthenticated` | `[]PayCarriesAuth` |
| | `AuthenticationsAreRooted` | `[]AuthChain` |
| | `SettlementIsInitiated` | `[]SettledByInitiatedAuth` |
| | `WhatIsWrittenStays` | `RecordsAreFinal` |
| | `PaidIsClosed` | `PaidInvoicesAreClosed` |
| | `ExpiredIsDead` | `ExpiredSessionsAreDead` |
| `ChargeProofs` | `SerialInductive` | `PaymentSpec => [](IInv /\ SerialInv)` |
| | `ChargedOnceSerially` | `PaymentSpec => [](Serial => NoDoubleCharge)` |
| `LedgerProofs` | `ServiceImplementsLedger` | `PaymentSpec => ImplementsLedger` |
| `SessionsProofs` | `SessionsInductive` | `SessionsSpec => []SessionsInv` |
| | `OneSessionPerKey` | `[]SameKeySameSession` |
| | `RequestsAreMatched` | `[]ReplyMatchesRequest` |
| | `KeylessAreOrdered` | `[]UnorderedOnlyByKey` |
| | `PaidIsShut` | `PaidClosesTheDoor` |
| `KhazinaProofs` | `KhazinaInductive` | `Spec => []KhazinaInv` |
| | `ServerServesSessions` | `Spec => ServesSessions` |
| | `ServerServesPayment` | `Spec => ServesPayment` |
| | `ServerImplementsLedger` | `Spec => ImplementsLedger` |
| | `OnlyKeyedAreUnordered` | `[]UnkeyedSessionsAreOrdered` |
| | `ServerIsSafe` | the invariants of both components, of the server |
| `TenancyProofs` | `TenancyInductive` | `TenancySpec => []TenancyInv` |
| | `PagesKeepToTheirHosts` | `[]PageKeepsToItsHost` |
| | `RefusalsHaveCause` | `[]RefusedOnlyForCause` |
| | `OptionsStayAcceptable` | `[]OfferedOptionsAreAccepted` |
| | `HostsStay` | `HostsNeverMove` |
| | `PaidIsNotOffered` | `PaidInvoicesAreNotOffered` |
| `CheckoutProofs` | `CheckoutInductive` | `Spec => [](IInv /\ CheckoutInv)` |
| | `BrowserServesPayment` | `Spec => PaymentSpec` |
| | `ReportsAreTrue` | `[]ReportedSuccessMeansPaid` |
| | `WaitingIsForSomething` | `[]NobodyIsLeftWaiting` |
| | `OneFlowAtATime` | `[]FlowsAreCovered` |
| | `ChargedOnce` | `[]CalmPayerIsChargedOnce` |

**Payment.** None of the five safety properties of `PaymentProofs` is
inductive. `PaidIffSettled` survives a commit because the slot of the index was
free when the handler took it and *nobody else has taken it since*; that is
`SettlersAreAlone`. That the commit writes the row the gateway approved is
`HandlersOwnRows`: the row a handler inserted is pending, is its own, and no
other handler holds it, so late handlers cannot overwrite each other.
`RecordAgreesWithGateway` needs the same. The path of `FinalizePayment` that
finds an earlier payment may say "success" because that row's invoice is the
request's: `RowsKeepTenancy` and `RequestsAreValid`. `IInv` is the conjunction.
The proof has a lemma for each way a step touches the state (`MoveStep`: only a
handler moves; `ReplyStep`, `GotoStep`, `SendStep`, `RecordStep`), built on two
lemmas about appending to and updating a table (`InsertRow`, `UpdateRow`), then
one lemma per action, each with a step for every conjunct the action can
disturb, and `InvStep` puts them together.

**Authentication.** `AuthProofs` describes a step of `Payment` four ways, which
the later modules use too: what it keeps (`StepKeeps`: a row keeps its columns,
a written row its status, a paid invoice stays paid), who inserts the row that
is new (`NewRow`), who writes the row that changes (`ChangedRow`), and what
becomes of a handler (`EveryMove`: it stays, ends, begins or continues). On
`AuthChain`, the id that "the latest row" hands on is an earlier row's; to say
which, `AuthInv` adds that every other id is the row's own (`IdsAreFresh`) and
that what a handler has read or inserted is of its session and still what it
was (`HandlersKeepSession`). A settled payment was initiated because a payment
whose id an authentication could continue has already paid the invoice
(`SettledStep`).

**Charges.** That no invoice is charged twice is false of `PaymentSpec` (run
DoubleCharge). It is proved under the two conditions that make it true:
requests served one after another and nothing lost but acknowledgements
(`Serial`; its invariant is `SerialInv`), and a calm payer (`Checkout`). Both rest on `OpenPaysStep`: a
payment that is or may yet be approved was there before, or is new and that of
a handler that waits for its answer. Then it has a handler until the invoice is
paid or the payment declined (`OnePaymentOf`), so whoever reads the invoice
unpaid may charge it.

**Ledger.** Under the mapping, an answer of the gateway that approves is a
`Charge`, the commit of a settlement a `Settle`, and every other step none of
the ledger's business. The step that needs `IInv` is the commit: the charge it
settles exists because the handler's row is the one the gateway approved
(`HandlersOwnRows`), and nothing settled the invoice before because the handler
holds the slot alone (`SettlersAreAlone`). The updates of the other actions are
invisible since the row a handler owns was pending.

**Sessions.** `SameKeySameSession` rests on the index (`KeysAreUnique`) and on
what a request in each of its steps has checked (`RequestsAreChecked`); that a
request is answered once and never moves again is a part of it the proof asked
for.

**Khazina.** A step of the server is a step of one component and, for the
other, a step its module already allows: to `Sessions` a commit is "an invoice
becomes paid", to `Payment` an INSERT is `Open`. The latter needs the bound of
sessions not to be in the way, which is why `KhazinaInv` counts the requests
that may still open one (`RoomForSessions`); that nothing is paid in a session
without an order needs that no request names one (`UsedSessionsAreUsable`). The
theorems about each component then hold of the server by these two.

**Tenancy.** A visit reads three tables one after another while they change.
`VisitsAreSound` says what is still true of what it has read: its project has
the host's domain, since no two projects ever share one (`RowsAreSound`) and no
statement changes one, and its invoice is the project's.

**Checkout.** `StepServes` maps each step to a step of `Payment`; it needs the
bound of sessions and that a request names a session the server made. What the
page says is then a matter of who waits for which handler (`CallersAreTied`).
The two properties of a calm payer rest on `OneAtATime` (one request is out, an
overlay is on or the frame is about to leave, nobody is served for nobody, and a
card is being stored once at most, with the button disabled)
and on `OnePayment`: as long as some payment may be approved the payer is kept
from another by the invoice being paid, by its handler, by its answer on the way
to the page, or by an overlay nothing takes away (`PaymentIsOver`). The last is
how the page behaves today: an answer of finalize that is neither a success nor
a decline leaves the challenge, and a frictionless payment is shown as a
success. A page that let the payer try again after an error would break the
theorem, as the mutation `FinalizedOrRetry` shows. `CalmSteps` lists the steps
that are left when nothing disturbs; the proof then has one case for each.

Every safety property of a passing run is a theorem. Only model-checked are the
liveness properties `EveryRequestAnswered`, `ApprovedLeadsToPaid` and
`EveryoneAnswered`: fairness and ENABLED are out of the prover's reach.
`NoDoubleCharge` is checked as an invariant of PaymentSerial and proved under
`Serial`, which that run's constants satisfy.

## 5. What is not modelled

- Amounts, currencies, texts and wire formats: the service copies them.
- The answers of a PAY other than by their approval. The code treats
  `APPROVED_AUTO` and `APPROVED_PENDING_SETTLEMENT` as declines; which codes
  move money cannot be told from the repository.
- Ties of `created_at`, and a clock that is set back. Rows are ordered by
  insertion in the model. `created_at` is the time an INSERT started, so a row
  may become visible after one with a later time; such a run is one of the
  model, with the earlier row inserted just before the later one: between the
  two there is nobody to see a difference, and after both every query that
  orders by `created_at` returns the later.
- A credential that does not decrypt, a project without a domain: replies
  `internal_error` before anything is written, as the fault `abort` does. (On
  the way to a checkout page the credential is modelled, in Tenancy.)
- The items of an invoice, names, e-mails and the metadata of accounts: drawn
  or stored, never compared. The comparison of the admin API's key.
- Fairness in `Checkout`: that an overlay goes away follows from
  `NobodyIsLeftWaiting` and from every request being answered
  (`EveryoneAnswered`), but for the error of process-auth.
- Two tabs of one payer: each is a page of its own, and what two of them can do
  to the server is in PaymentRace and PaymentSessions, whose requests come from
  anywhere.
- The 30 seconds a graceful stop grants: a request that is cut is one a crash
  takes. Migrations, configuration, cryptography, languages and texts, the
  connector registry (nobody reads it), Apple Pay (a TODO in `handlers.go`),
  statements and client calls nobody uses, the generated templates, deployment.

## 6. Plan

Done, in this order: `Store`, `Sessions`, `Transactions`, `StateMachine`,
`Payment`, `Ledger`, `Khazina`, `PaymentProofs`, `LedgerProofs`, `Tenancy`,
`Page`, `Checkout`, `AuthProofs`, `SessionsProofs`, `KhazinaProofs`,
`TenancyProofs`, `ChargeProofs`, `CheckoutProofs`.

Next:

1. `Serial` per invoice: requests of *one* invoice served one after another,
   those of others beside them, charge it once;
2. that `Checkout` implements `Ledger` and keeps the theorems of `AuthProofs`,
   from `BrowserServesPayment`;
3. a session of the page is one whose order the gateway knows: `Checkout` over
   `Khazina` instead of `Payment`.
