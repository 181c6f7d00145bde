------------------------------ MODULE Tenancy -------------------------------
(* Where the tenants come from and how a request finds its own: the admin   *)
(* API inserts organizations, projects, gateway accounts and invoices, and  *)
(* every request of a payer is resolved to a project by its Host header     *)
(* before a checkout page is put together from several queries.  A step is  *)
(* one statement or query.                                                  *)
(*                                                                          *)
(* Rows are named by their place in their table.  No statement changes or   *)
(* deletes them; the columns is_active and deleted_at, which the queries    *)
(* read and nothing in the repository writes, are set by hand (external).   *)
EXTENDS Naturals, Sequences

CONSTANTS
    Hosts,          \* what Host, Origin and custom_domain may say
    StripPort,      \* a host without its port
    Environments,   \* what projects are of: the API takes any string
    Visitors,       \* GET /checkout/{invoice_id} requests at a time
    MaxOrganizations, MaxProjects, MaxAccounts, MaxInvoices,  \* bounds: rows
    QueriesFail     \* may a query of a visit fail?

NoDomain == "NULL"

Empty == ""     \* a field left out

ASSUME TenancyAssumption ==
    /\ Hosts # {}
    /\ StripPort \in [Hosts -> Hosts]
    /\ \A h \in Hosts : StripPort[StripPort[h]] = StripPort[h]
    /\ "sandbox" \in Environments
    /\ {NoDomain, Empty} \cap Hosts = {}
    /\ MaxOrganizations \in Nat
    /\ MaxProjects \in Nat
    /\ MaxAccounts \in Nat
    /\ MaxInvoices \in Nat
    /\ QueriesFail \in BOOLEAN

VARIABLES
    organizations,  \* the number of rows of organizations
    project,        \* projects
    account,        \* gateway_accounts
    invoices,       \* invoices: project_id and status
    visit           \* checkout pages being put together, or last shown

adminVars == <<organizations, project, account, invoices>>
tenancyVars == <<adminVars, visit>>

-----------------------------------------------------------------------------
(* Rows. *)

ConnectorTypes == {"mpgs", "other"}

ProjectRow ==
    [organization : Nat, environment : Environments,
     domain : Hosts \cup {NoDomain}, deleted : BOOLEAN]

\* sound: ParseEncryptedCredentials accepts what was stored.
AccountRow ==
    [project : Nat, connector : ConnectorTypes, sound : BOOLEAN,
     active : BOOLEAN]

InvoiceRow == [project : Nat, status : {"pending", "paid"}]

PaymentMethods == {"card", "apple_pay"}

VisitPcs == {"idle", "resolved", "accounts"}

VisitReplies == {"none", "not_found", "internal_error", "paid", "page"}

\* excused: for the property RefusedOnlyForCause, the host or the invoice was
\* not there for a moment of the visit, or one of its queries failed.
VisitRecord ==
    [pc : VisitPcs, host : Hosts, invoice : Nat, project : Nat,
     options : SUBSET (Nat \X PaymentMethods), config : Nat,
     reply : VisitReplies, excused : BOOLEAN]

NewVisit(h, i) ==
    [pc |-> "idle", host |-> h, invoice |-> i, project |-> 0,
     options |-> {}, config |-> 0, reply |-> "none", excused |-> FALSE]

SomeHost == CHOOSE h \in Hosts : TRUE

TenancyTypeOK ==
    /\ organizations \in Nat
    /\ project \in Seq(ProjectRow)
    /\ account \in Seq(AccountRow)
    /\ invoices \in Seq(InvoiceRow)
    /\ visit \in [Visitors -> VisitRecord]
    /\ \A v \in Visitors :
        visit[v].options \subseteq (DOMAIN account) \X PaymentMethods

TenancyInit ==
    /\ organizations = 0
    /\ project = <<>>
    /\ account = <<>>
    /\ invoices = <<>>
    /\ visit = [v \in Visitors |-> NewVisit(SomeHost, 0)]

-----------------------------------------------------------------------------
(* Queries: the rows a ":one" may return, or all rows of a ":many". *)

GetProjectByCustomDomain(h) ==
    {p \in DOMAIN project : project[p].domain = h /\ ~project[p].deleted}

\* With the name as it stands, port included.
IsDomainValid(h) == GetProjectByCustomDomain(h) # {}

\* An origin may read the answers to its requests.
DynamicCORS(h) == IsDomainValid(h)

\* A certificate may be had for a host.
VerifyDomain(h) == GetProjectByCustomDomain(h) # {}

\* The status and the project; deleted_at is not looked at.
GetInvoiceByIDAndProject(i, p) ==
    {j \in DOMAIN invoices : j = i /\ invoices[j].project = p}

\* Mutation: the accounts of every project.
ListAllActiveAccounts(p) == {a \in DOMAIN account : account[a].active}

ListActiveGatewayAccounts(p) ==
    {a \in DOMAIN account : account[a].project = p /\ account[a].active}

\* Mutation: an account that was made inactive is not found.
GetActiveAccountByIDAndProject(a, p) ==
    {b \in ListActiveGatewayAccounts(p) : b = a}

\* What InitiateSession asks for the account of a chosen option.
GetGatewayAccountByIDAndProject(a, p) ==
    {b \in DOMAIN account : b = a /\ account[b].project = p}

-----------------------------------------------------------------------------
(* The admin API: the handler (Post), the service (Create), the statement   *)
(* (Insert).  What one of them refuses changes nothing.                     *)

\* The zero UUID is refused, as is an empty name or field (left out).
Given(id) == id # 0

InsertOrganization == organizations' = organizations + 1

PostOrganization ==
    /\ organizations < MaxOrganizations
    /\ InsertOrganization
    /\ UNCHANGED <<project, account, invoices, visit>>

\* Mutation: custom_domain is not unique.
OnlyEnvironmentUnique(o, e, d) ==
    \A p \in DOMAIN project :
        <<project[p].organization, project[p].environment>> # <<o, e>>

\* custom_domain UNIQUE (NULLs differ), UNIQUE(organization_id, environment).
\* A deleted row keeps its place in both.
ProjectIsUnique(o, e, d) ==
    \A p \in DOMAIN project :
        /\ d # NoDomain => project[p].domain # d
        /\ <<project[p].organization, project[p].environment>> # <<o, e>>

InsertProject(o, e, d) ==
    /\ o \in 1 .. organizations
    /\ ProjectIsUnique(o, e, d)
    /\ project' = Append(project,
        [organization |-> o, environment |-> e, domain |-> d,
         deleted |-> FALSE])

\* Mutation: an empty custom_domain is stored as it is.
CreateProjectAsGiven(o, e, d) == InsertProject(o, e, d)

\* An empty custom_domain is stored as NULL.
CreateProject(o, e, d) ==
    InsertProject(o, e, IF d = Empty THEN NoDomain ELSE d)

PostProject(o, e, d) ==
    /\ Len(project) < MaxProjects
    /\ Given(o)
    /\ CreateProject(o, IF e = Empty THEN "sandbox" ELSE e, d)
    /\ UNCHANGED <<organizations, account, invoices, visit>>

InsertGatewayAccount(row) ==
    /\ row.project \in DOMAIN project
    /\ account' = Append(account, row)

\* Any credentials are encrypted and stored, sound or not.
CreateGatewayAccount(p, c, sound) ==
    InsertGatewayAccount(
        [project |-> p, connector |-> c, sound |-> sound, active |-> TRUE])

PostGatewayAccount(p, c, sound) ==
    /\ Len(account) < MaxAccounts
    /\ Given(p)
    /\ CreateGatewayAccount(p, c, sound)
    /\ UNCHANGED <<organizations, project, invoices, visit>>

\* Amounts, as far as anything tells them apart: a number that DECIMAL(12,3)
\* holds (after rounding, of any sign), one it does not hold, no number.
Amounts == {"decimal", "too_large", "not_a_number"}

InsertInvoice(p, amount) ==
    /\ p \in DOMAIN project
    /\ amount # "too_large"
    /\ invoices' = Append(invoices, [project |-> p, status |-> "pending"])

CreateInvoice(p, amount) ==
    /\ amount # "not_a_number"
    /\ InsertInvoice(p, amount)

PostInvoice(p, amount) ==
    /\ Len(invoices) < MaxInvoices
    /\ Given(p)
    /\ CreateInvoice(p, amount)
    /\ UNCHANGED <<organizations, project, account, visit>>

-----------------------------------------------------------------------------
(* By hand, and by the payment service (module Payment). *)

RetireProject(p) ==
    /\ ~project[p].deleted
    /\ project' = [project EXCEPT ![p].deleted = TRUE]
    /\ visit' = [v \in Visitors |->
        IF /\ visit[v].pc # "idle"
           /\ project[p].domain = StripPort[visit[v].host]
        THEN [visit[v] EXCEPT !.excused = TRUE]
        ELSE visit[v]]
    /\ UNCHANGED <<organizations, account, invoices>>

RetireAccount(a) ==
    /\ account[a].active
    /\ account' = [account EXCEPT ![a].active = FALSE]
    /\ UNCHANGED <<organizations, project, invoices, visit>>

InvoiceSettles(i) ==
    /\ invoices[i].status = "pending"
    /\ invoices' = [invoices EXCEPT ![i].status = "paid"]
    /\ UNCHANGED <<organizations, project, account, visit>>

ByHand ==
    \/ \E p \in DOMAIN project : RetireProject(p)
    \/ \E a \in DOMAIN account : RetireAccount(a)
    \/ \E i \in DOMAIN invoices : InvoiceSettles(i)
-----------------------------------------------------------------------------
(* A visit of a checkout page. *)

Visiting(v) == visit[v].pc # "idle"

\* The rest of the request is forgotten with the answer.
Refuse(v, r, excused) ==
    visit' = [visit EXCEPT ![v] =
        [NewVisit(SomeHost, 0) EXCEPT !.reply = r,
                                      !.project = visit[v].project,
                                      !.excused = excused]]

Answer(v, r) == Refuse(v, r, visit[v].excused)

ShowPaid(v) ==
    visit' = [visit EXCEPT ![v] =
        [NewVisit(SomeHost, 0) EXCEPT !.reply = "paid"]]

\* The visit of a request whose host gave project p (0: none).
Resolved(h, i, p, failed) ==
    LET there == GetProjectByCustomDomain(StripPort[h])
    IN  [NewVisit(h, i) EXCEPT
            !.pc = "resolved", !.project = p,
            !.excused = failed \/ \A q \in there :
                            GetInvoiceByIDAndProject(i, q) = {}]

\* Mutation: the port of the Host header is left in place.
ResolveWithPort(v, h, i) ==
    LET found == GetProjectByCustomDomain(h)
    IN  /\ ~Visiting(v)
        /\ \E p \in IF found = {} THEN {0} ELSE found :
                visit' = [visit EXCEPT ![v] = Resolved(h, i, p, FALSE)]
        /\ UNCHANGED adminVars

\* TenantResolver: any error of the query counts as "no such project".
Resolve(v, h, i) ==
    LET found == GetProjectByCustomDomain(StripPort[h])
    IN  /\ ~Visiting(v)
        /\ \/ \E p \in IF found = {} THEN {0} ELSE found :
                visit' = [visit EXCEPT ![v] = Resolved(h, i, p, FALSE)]
           \/ /\ QueriesFail
              /\ visit' = [visit EXCEPT ![v] = Resolved(h, i, 0, TRUE)]
        /\ UNCHANGED adminVars

\* Mutation: IsPaid is not looked at.
ReadUnpaidOrPaid(v) ==
    /\ visit[v].pc = "resolved"
    /\ GetInvoiceByIDAndProject(visit[v].invoice, visit[v].project) # {}
    /\ visit' = [visit EXCEPT ![v].pc = "accounts"]
    /\ UNCHANGED adminVars

\* A paid invoice needs no options; the items of the other are read next and
\* left out if that fails.
ReadInvoice(v) ==
    LET found == GetInvoiceByIDAndProject(visit[v].invoice, visit[v].project)
    IN  /\ visit[v].pc = "resolved"
        /\ \/ found = {} /\ Answer(v, "not_found")
           \/ \E i \in found :
                \/ invoices[i].status = "paid" /\ ShowPaid(v)
                \/ /\ invoices[i].status # "paid"
                   /\ visit' = [visit EXCEPT ![v].pc = "accounts"]
           \* Without a project the handler never asks.
           \/ /\ QueriesFail /\ visit[v].project # 0
              /\ Refuse(v, "internal_error", TRUE)
        /\ UNCHANGED adminVars

MpgsAccounts(p) ==
    {a \in ListActiveGatewayAccounts(p) : account[a].connector = "mpgs"}

ParseEncryptedCredentials(a) == account[a].sound

\* Every account is offered with both methods, whatever its payment_methods;
\* the script and merchant of the page are those of the row that comes last,
\* in no order the query names.  One account that cannot be read spoils all.
Offer(v) ==
    LET usable == MpgsAccounts(visit[v].project)
    IN  /\ visit[v].pc = "accounts"
        /\ \/ /\ \A a \in usable : ParseEncryptedCredentials(a)
              /\ \E last \in IF usable = {} THEN {0} ELSE usable :
                    visit' = [visit EXCEPT
                        ![v].pc = "idle", ![v].reply = "page",
                        ![v].options = usable \X PaymentMethods,
                        ![v].config = last, ![v].excused = FALSE]
           \/ /\ \E a \in usable : ~ParseEncryptedCredentials(a)
              /\ Answer(v, "internal_error")
           \/ QueriesFail /\ Refuse(v, "internal_error", TRUE)
        /\ UNCHANGED adminVars

-----------------------------------------------------------------------------

Admin ==
    \/ PostOrganization
    \/ \E o \in 0 .. MaxOrganizations, e \in Environments \cup {Empty},
          d \in Hosts \cup {Empty} : PostProject(o, e, d)
    \/ \E p \in 0 .. MaxProjects, c \in ConnectorTypes, sound \in BOOLEAN :
        PostGatewayAccount(p, c, sound)
    \/ \E p \in 0 .. MaxProjects, amount \in Amounts : PostInvoice(p, amount)

CheckoutPageHandler(v) ==
    \/ \E h \in Hosts, i \in 1 .. MaxInvoices : Resolve(v, h, i)
    \/ ReadInvoice(v)
    \/ Offer(v)

TenancyNext ==
    \/ Admin
    \/ ByHand
    \/ \E v \in Visitors : CheckoutPageHandler(v)

TenancySpec == TenancyInit /\ [][TenancyNext]_tenancyVars

-----------------------------------------------------------------------------
(* Properties. *)

Shown(v) == visit[v].reply = "page"

\* A page is of one tenant although it is put together from three queries:
\* the invoice, every option and the gateway script belong to the project of
\* its host, and the links made of that project's domain lead back to the
\* host (tenant.go:22-38, service.go:44-126, 374-382, 487-491).
PageKeepsToItsHost ==
    \A v \in Visitors : Shown(v) =>
        LET p == visit[v].project
        IN  /\ project[p].domain = StripPort[visit[v].host]
            /\ invoices[visit[v].invoice].project = p
            /\ \A o \in visit[v].options : account[o[1]].project = p
            /\ \/ visit[v].options = {}
               \/ <<visit[v].config, "card">> \in visit[v].options

\* An option a page offers can be chosen for as long as the page is open,
\* though the account may have been made inactive since: InitiateSession
\* finds the account of each (service.go:84-112 against 162-168).
OfferedOptionsAreAccepted ==
    \A v \in Visitors : Shown(v) => \A o \in visit[v].options :
        GetGatewayAccountByIDAndProject(o[1], visit[v].project) # {}

\* A payer is only turned away for a reason of his own tenant: a 404 of an
\* invoice that was there all along means that a query failed (every error
\* of the resolver is taken for an unknown host), and a page fails only with
\* a query or with an account of its own project whose credentials cannot be
\* read (tenant.go:33-37, service.go:84-95).
RefusedOnlyForCause ==
    \A v \in Visitors :
        /\ visit[v].reply = "not_found" => visit[v].excused
        /\ visit[v].reply = "internal_error" =>
            \/ visit[v].excused
            \/ \E a \in DOMAIN account :
                /\ account[a].project = visit[v].project
                /\ ~ParseEncryptedCredentials(a)

-----------------------------------------------------------------------------
(* The inductive invariant of module TenancyProofs.                         *)

\* What the foreign keys and the unique index of the tables ensure.
RowsAreSound ==
    /\ \A i \in DOMAIN invoices : invoices[i].project \in DOMAIN project
    /\ \A p, q \in DOMAIN project :
        /\ project[p].domain = project[q].domain
        /\ project[p].domain # NoDomain
        => p = q

OfItsHost(v) ==
    /\ visit[v].project \in DOMAIN project
    /\ project[visit[v].project].domain = StripPort[visit[v].host]

OfItsProject(v) ==
    /\ visit[v].invoice \in DOMAIN invoices
    /\ invoices[visit[v].invoice].project = visit[v].project

\* What a visit has resolved and read so far is still true of it.
VisitsAreSound ==
    \A v \in Visitors :
        /\ Visiting(v) =>
            /\ visit[v].reply = "none"
            /\ visit[v].project = 0 \/ OfItsHost(v)
        /\ visit[v].pc = "resolved" =>
                visit[v].excused \/ OfItsProject(v)
        /\ visit[v].pc = "accounts" \/ Shown(v) => OfItsProject(v)
        /\ Shown(v) => OfItsHost(v)

\* Every visit may rely on it, whatever the tables are given meanwhile.
TenancyInv ==
    /\ TenancyTypeOK
    /\ RowsAreSound
    /\ VisitsAreSound
    /\ PageKeepsToItsHost
    /\ RefusedOnlyForCause

-----------------------------------------------------------------------------
(* Action properties. *)

Registered(h) == \E p \in DOMAIN project : project[p].domain = h

\* A host that was ever given to a project is never resolved to another one
\* and, once that project was deleted, never accepted again: a page, a
\* certificate and an allowed origin of a host stay with one merchant
\* (migration 00001:27, tenant.go:33, handlers.go:340, cors.go:22).
HostsNeverMove ==
    [][\A h \in Hosts : Registered(h) =>
        /\ GetProjectByCustomDomain(h)' \subseteq GetProjectByCustomDomain(h)
        /\ DynamicCORS(h)' => DynamicCORS(h)
        /\ VerifyDomain(h)' => VerifyDomain(h)]_tenancyVars

Over(i) ==
    /\ invoices[i].status = "paid"
    /\ \A v \in Visitors : visit[v].pc = "accounts" => visit[v].invoice # i

Offers(i) == {v \in Visitors : Shown(v) /\ visit[v].invoice = i}

\* Once an invoice is paid and the visits that had read it unpaid are over,
\* no page offers to pay it any more, beyond those already shown
\* (service.go:53-63).
PaidInvoicesAreNotOffered ==
    [][\A i \in DOMAIN invoices : Over(i) =>
        Over(i)' /\ Offers(i)' \subseteq Offers(i)]_tenancyVars
=============================================================================
