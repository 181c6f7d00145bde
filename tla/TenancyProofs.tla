---------------------------- MODULE TenancyProofs ----------------------------
(* Theorems about Tenancy for every set of hosts and of visitors, every     *)
(* number of rows, and whatever fails.                                      *)
EXTENDS Tenancy, TLAPS

-----------------------------------------------------------------------------
(* What TenancyInv says of one visit x, over tables prj, acc and inv.       *)

HostOf(x, prj) ==
    /\ x.project \in DOMAIN prj
    /\ prj[x.project].domain = StripPort[x.host]

ProjectOf(x, inv) ==
    /\ x.invoice \in DOMAIN inv
    /\ inv[x.invoice].project = x.project

PageOf(x, acc) ==
    /\ \A o \in x.options : acc[o[1]].project = x.project
    /\ x.options = {} \/ <<x.config, "card">> \in x.options

CauseOf(x, acc) ==
    \/ x.excused
    \/ \E a \in DOMAIN acc : acc[a].project = x.project /\ ~acc[a].sound

Sound(x, prj, acc, inv) ==
    /\ x \in VisitRecord
    /\ x.options \subseteq (DOMAIN acc) \X PaymentMethods
    /\ x.pc # "idle" =>
            x.reply = "none" /\ (x.project = 0 \/ HostOf(x, prj))
    /\ x.pc = "resolved" => x.excused \/ ProjectOf(x, inv)
    /\ x.pc = "accounts" \/ x.reply = "page" => ProjectOf(x, inv)
    /\ x.reply = "page" => HostOf(x, prj) /\ PageOf(x, acc)
    /\ x.reply = "not_found" => x.excused
    /\ x.reply = "internal_error" => CauseOf(x, acc)

TablesTyped ==
    /\ organizations \in Nat
    /\ project \in Seq(ProjectRow)
    /\ account \in Seq(AccountRow)
    /\ invoices \in Seq(InvoiceRow)

LEMMA InvSound ==
    ASSUME TenancyInv
    PROVE  /\ TablesTyped
           /\ RowsAreSound
           /\ visit \in [Visitors -> VisitRecord]
           /\ \A v \in Visitors : Sound(visit[v], project, account, invoices)
  <1>1. TablesTyped /\ RowsAreSound /\ visit \in [Visitors -> VisitRecord]
    BY DEF TenancyInv, TenancyTypeOK, TablesTyped
  <1>2. ASSUME NEW v \in Visitors
        PROVE  Sound(visit[v], project, account, invoices)
    <2>1. /\ visit[v] \in VisitRecord
          /\ visit[v].options \subseteq (DOMAIN account) \X PaymentMethods
      BY DEF TenancyInv, TenancyTypeOK
    <2>2. /\ visit[v].reply = "page" => PageOf(visit[v], account)
          /\ visit[v].reply = "not_found" => visit[v].excused
          /\ visit[v].reply = "internal_error" => CauseOf(visit[v], account)
      BY DEF TenancyInv, PageKeepsToItsHost, RefusedOnlyForCause, Shown, PageOf,
             CauseOf, ParseEncryptedCredentials
    <2> QED
      BY <2>1, <2>2
         DEF Sound, TenancyInv, VisitsAreSound, Visiting, Shown, OfItsHost,
             OfItsProject, HostOf, ProjectOf
  <1> QED
    BY <1>1, <1>2

LEMMA SoundInv ==
    ASSUME TablesTyped',
           RowsAreSound',
           visit' \in [Visitors -> VisitRecord],
           \A v \in Visitors : Sound(visit'[v], project', account', invoices')
    PROVE  TenancyInv'
  <1>1. TenancyTypeOK'
    BY DEF TablesTyped, TenancyTypeOK, Sound
  <1>2. VisitsAreSound'
    BY DEF Sound, VisitsAreSound, Visiting, Shown, OfItsHost, OfItsProject,
           HostOf, ProjectOf
  <1>3. PageKeepsToItsHost'
    BY DEF Sound, PageKeepsToItsHost, Shown, HostOf, ProjectOf, PageOf
  <1>4. RefusedOnlyForCause'
    BY DEF Sound, RefusedOnlyForCause, CauseOf, ParseEncryptedCredentials
  <1> QED
    BY <1>1, <1>2, <1>3, <1>4 DEF TenancyInv

-----------------------------------------------------------------------------
(* The tables. *)

\* Rows are added, and keep what a visit has read of them.
Grown ==
    /\ \A p \in DOMAIN project :
        /\ p \in DOMAIN project'
        /\ project'[p].domain = project[p].domain
    /\ \A a \in DOMAIN account :
        /\ a \in DOMAIN account'
        /\ account'[a].project = account[a].project
        /\ account'[a].sound = account[a].sound
    /\ \A i \in DOMAIN invoices :
        /\ i \in DOMAIN invoices'
        /\ invoices'[i].project = invoices[i].project

LEMMA SoundStays ==
    ASSUME Grown, NEW x, Sound(x, project, account, invoices)
    PROVE  Sound(x, project', account', invoices')
  <1>1. HostOf(x, project) => HostOf(x, project')
    BY DEF HostOf, Grown
  <1>2. ProjectOf(x, invoices) => ProjectOf(x, invoices')
    BY DEF ProjectOf, Grown
  <1>3. /\ x.options \subseteq (DOMAIN account) \X PaymentMethods
        /\ x.options \subseteq (DOMAIN account') \X PaymentMethods
    BY DEF Sound, Grown
  <1>4. PageOf(x, account) => PageOf(x, account')
    BY <1>3 DEF PageOf, Grown
  <1>5. CauseOf(x, account) => CauseOf(x, account')
    BY DEF CauseOf, Grown
  <1> QED
    BY <1>1, <1>2, <1>3, <1>4, <1>5 DEF Sound

\* A step that adds sound rows disturbs no visit.
LEMMA TablesStep ==
    ASSUME TenancyInv, Grown, TablesTyped', RowsAreSound', visit' = visit
    PROVE  TenancyInv'
  BY InvSound, SoundStays, SoundInv

LEMMA PostOrganizationStep ==
    ASSUME TenancyInv, PostOrganization
    PROVE  TenancyInv'
  <1>1. Grown
    BY DEF PostOrganization, Grown
  <1>2. TablesTyped' /\ RowsAreSound'
    BY InvSound
       DEF PostOrganization, InsertOrganization, TablesTyped, RowsAreSound
  <1> QED
    BY <1>1, <1>2, TablesStep DEF PostOrganization

LEMMA AppendRow ==
    ASSUME NEW S, NEW rows \in Seq(S), NEW row \in S, NEW after,
           after = Append(rows, row)
    PROVE  /\ after \in Seq(S)
           /\ DOMAIN after = DOMAIN rows \cup {Len(rows) + 1}
           /\ Len(rows) + 1 \notin DOMAIN rows
           /\ after[Len(rows) + 1] = row
           /\ \A r \in DOMAIN rows : after[r] = rows[r]
  OBVIOUS

LEMMA PostProjectStep ==
    ASSUME TenancyInv, NEW o \in 0 .. MaxOrganizations,
           NEW e \in Environments \cup {Empty}, NEW d \in Hosts \cup {Empty},
           PostProject(o, e, d)
    PROVE  TenancyInv'
  <1> DEFINE e1 == IF e = Empty THEN "sandbox" ELSE e
             d1 == IF d = Empty THEN NoDomain ELSE d
             row == [organization |-> o, environment |-> e1, domain |-> d1,
                     deleted |-> FALSE]
             n == Len(project) + 1
  <1>1. TablesTyped /\ RowsAreSound
    BY InvSound
  <1>2. /\ ProjectIsUnique(o, e1, d1)
        /\ project' = Append(project, row)
        /\ UNCHANGED <<organizations, account, invoices, visit>>
    BY DEF PostProject, CreateProject, InsertProject
  <1>3. row \in ProjectRow /\ row.domain = d1
    <2>1. o \in Nat
      OBVIOUS
    <2>2. e1 \in Environments
      BY TenancyAssumption DEF TenancyAssumption
    <2>3. d1 \in Hosts \cup {NoDomain}
      OBVIOUS
    <2> HIDE DEF e1, d1
    <2> QED
      BY <2>1, <2>2, <2>3 DEF ProjectRow
  <1>4. project \in Seq(ProjectRow)
    BY <1>1 DEF TablesTyped
  <1> HIDE DEF row, d1, e1
  <1>5. /\ project' \in Seq(ProjectRow)
        /\ DOMAIN project' = DOMAIN project \cup {n}
        /\ n \notin DOMAIN project
        /\ project'[n] = row
        /\ \A p \in DOMAIN project : project'[p] = project[p]
    <2>1. project' = Append(project, row) /\ row \in ProjectRow
      BY <1>2, <1>3
    <2> QED
      BY <1>4, <2>1, AppendRow
  <1> HIDE DEF n
  <1>6. Grown
    BY <1>2, <1>5 DEF Grown
  <1>7. TablesTyped'
    BY <1>1, <1>2, <1>5 DEF TablesTyped
  <1>8. \A p \in DOMAIN project : d1 # NoDomain => project[p].domain # d1
    BY <1>2 DEF ProjectIsUnique
  <1>9. RowsAreSound'
    <2>1. \A i \in DOMAIN invoices' : invoices'[i].project \in DOMAIN project'
      BY <1>1, <1>2, <1>5 DEF RowsAreSound
    <2>2. row.domain = d1 /\ project'[n].domain = row.domain
      BY <1>3, <1>5
    <2>3. \A p, q \in DOMAIN project' :
            /\ project'[p].domain = project'[q].domain
            /\ project'[p].domain # NoDomain
            => p = q
      BY <1>1, <1>5, <1>8, <2>2 DEF RowsAreSound
    <2> QED
      BY <2>1, <2>3 DEF RowsAreSound
  <1> QED
    BY <1>2, <1>6, <1>7, <1>9, TablesStep

LEMMA PostGatewayAccountStep ==
    ASSUME TenancyInv, NEW p \in 0 .. MaxProjects, NEW c \in ConnectorTypes,
           NEW sound \in BOOLEAN, PostGatewayAccount(p, c, sound)
    PROVE  TenancyInv'
  <1> DEFINE row == [project |-> p, connector |-> c, sound |-> sound,
                     active |-> TRUE]
  <1>1. TablesTyped /\ RowsAreSound
    BY InvSound
  <1>2. /\ account' = Append(account, row)
        /\ UNCHANGED <<organizations, project, invoices, visit>>
    BY DEF PostGatewayAccount, CreateGatewayAccount, InsertGatewayAccount
  <1>3. row \in AccountRow
    <2>1. p \in Nat
      OBVIOUS
    <2> QED
      BY <2>1 DEF AccountRow
  <1>4. account \in Seq(AccountRow)
    BY <1>1 DEF TablesTyped
  <1> HIDE DEF row
  <1>5. /\ account' \in Seq(AccountRow)
        /\ DOMAIN account \subseteq DOMAIN account'
        /\ \A a \in DOMAIN account : account'[a] = account[a]
    BY <1>2, <1>3, <1>4, AppendRow
  <1>6. Grown
    BY <1>2, <1>5 DEF Grown
  <1>7. TablesTyped' /\ RowsAreSound'
    BY <1>1, <1>2, <1>5 DEF TablesTyped, RowsAreSound
  <1> QED
    BY <1>2, <1>6, <1>7, TablesStep

LEMMA PostInvoiceStep ==
    ASSUME TenancyInv, NEW p \in 0 .. MaxProjects, NEW amount \in Amounts,
           PostInvoice(p, amount)
    PROVE  TenancyInv'
  <1> DEFINE row == [project |-> p, status |-> "pending"]
             n == Len(invoices) + 1
  <1>1. TablesTyped /\ RowsAreSound
    BY InvSound
  <1>2. /\ p \in DOMAIN project
        /\ invoices' = Append(invoices, row)
        /\ UNCHANGED <<organizations, project, account, visit>>
    BY DEF PostInvoice, CreateInvoice, InsertInvoice
  <1>3. row \in InvoiceRow /\ row.project = p
    <2>1. p \in Nat
      OBVIOUS
    <2> QED
      BY <2>1 DEF InvoiceRow
  <1>4. invoices \in Seq(InvoiceRow)
    BY <1>1 DEF TablesTyped
  <1> HIDE DEF row
  <1>5. /\ invoices' \in Seq(InvoiceRow)
        /\ DOMAIN invoices' = DOMAIN invoices \cup {n}
        /\ invoices'[n] = row
        /\ \A i \in DOMAIN invoices : invoices'[i] = invoices[i]
    BY <1>2, <1>3, <1>4, AppendRow
  <1> HIDE DEF n
  <1>6. Grown
    BY <1>2, <1>5 DEF Grown
  <1>7. TablesTyped' /\ RowsAreSound'
    BY <1>1, <1>2, <1>3, <1>5 DEF TablesTyped, RowsAreSound
  <1> QED
    BY <1>2, <1>6, <1>7, TablesStep

-----------------------------------------------------------------------------
(* By hand. *)

\* A visit stays sound when it is excused.
LEMMA ExcusedIsSound ==
    ASSUME NEW x, NEW prj, NEW acc, NEW inv, Sound(x, prj, acc, inv)
    PROVE  Sound([x EXCEPT !.excused = TRUE], prj, acc, inv)
  <1> DEFINE y == [x EXCEPT !.excused = TRUE]
  <1>1. x \in VisitRecord
    BY DEF Sound
  <1>2. y \in VisitRecord
    BY <1>1 DEF VisitRecord
  <1>3. /\ y.pc = x.pc /\ y.host = x.host /\ y.invoice = x.invoice
        /\ y.project = x.project /\ y.options = x.options
        /\ y.config = x.config /\ y.reply = x.reply /\ y.excused = TRUE
    BY <1>1 DEF VisitRecord
  <1> HIDE DEF y
  <1>4. Sound(y, prj, acc, inv)
    BY <1>2, <1>3 DEF Sound, HostOf, ProjectOf, PageOf, CauseOf
  <1> QED
    BY <1>4 DEF y

LEMMA RetireProjectStep ==
    ASSUME TenancyInv, NEW p \in DOMAIN project, RetireProject(p)
    PROVE  TenancyInv'
  <1>1. /\ TablesTyped /\ RowsAreSound
        /\ visit \in [Visitors -> VisitRecord]
        /\ \A v \in Visitors : Sound(visit[v], project, account, invoices)
    BY InvSound
  <1>2. /\ project \in Seq(ProjectRow) /\ project[p] \in ProjectRow
    BY <1>1 DEF TablesTyped
  <1>3. [project[p] EXCEPT !.deleted = TRUE] \in ProjectRow
    BY <1>2 DEF ProjectRow
  <1>4. /\ project' \in Seq(ProjectRow)
        /\ DOMAIN project' = DOMAIN project
        /\ \A q \in DOMAIN project : project'[q].domain = project[q].domain
    <2>1. project' = [project EXCEPT ![p] =
                            [project[p] EXCEPT !.deleted = TRUE]]
      BY DEF RetireProject
    <2> QED
      BY <1>2, <1>3, <2>1 DEF ProjectRow
  <1>5. UNCHANGED <<organizations, account, invoices>>
    BY DEF RetireProject
  <1>6. Grown /\ TablesTyped' /\ RowsAreSound'
    BY <1>1, <1>4, <1>5 DEF Grown, TablesTyped, RowsAreSound
  <1>7. ASSUME NEW v \in Visitors
        PROVE  Sound(visit'[v], project', account', invoices')
    <2>1. \/ visit'[v] = visit[v]
          \/ visit'[v] = [visit[v] EXCEPT !.excused = TRUE]
      BY DEF RetireProject
    <2>2. Sound(visit'[v], project, account, invoices)
      BY <1>1, <2>1, ExcusedIsSound
    <2> QED
      BY <1>6, <2>2, SoundStays
  <1>8. visit' \in [Visitors -> VisitRecord]
    <2>1. \A v \in Visitors : visit'[v] \in VisitRecord
      BY <1>7 DEF Sound
    <2> QED
      BY <2>1 DEF RetireProject
  <1> QED
    BY <1>6, <1>7, <1>8, SoundInv

LEMMA RetireAccountStep ==
    ASSUME TenancyInv, NEW a \in DOMAIN account, RetireAccount(a)
    PROVE  TenancyInv'
  <1>1. TablesTyped /\ RowsAreSound
    BY InvSound
  <1>2. account \in Seq(AccountRow) /\ account[a] \in AccountRow
    BY <1>1 DEF TablesTyped
  <1>3. [account[a] EXCEPT !.active = FALSE] \in AccountRow
    BY <1>2 DEF AccountRow
  <1>4. account' = [account EXCEPT ![a] = [account[a] EXCEPT !.active = FALSE]]
    BY DEF RetireAccount
  <1>5. /\ account' \in Seq(AccountRow)
        /\ DOMAIN account' = DOMAIN account
        /\ \A b \in DOMAIN account :
            /\ account'[b].project = account[b].project
            /\ account'[b].sound = account[b].sound
    BY <1>2, <1>3, <1>4 DEF AccountRow
  <1>6. UNCHANGED <<organizations, project, invoices, visit>>
    BY DEF RetireAccount
  <1>7. Grown /\ TablesTyped' /\ RowsAreSound'
    BY <1>1, <1>5, <1>6 DEF Grown, TablesTyped, RowsAreSound
  <1> QED
    BY <1>6, <1>7, TablesStep

LEMMA InvoiceSettlesStep ==
    ASSUME TenancyInv, NEW i \in DOMAIN invoices, InvoiceSettles(i)
    PROVE  TenancyInv'
  <1>1. TablesTyped /\ RowsAreSound
    BY InvSound
  <1>2. invoices \in Seq(InvoiceRow) /\ invoices[i] \in InvoiceRow
    BY <1>1 DEF TablesTyped
  <1>3. [invoices[i] EXCEPT !.status = "paid"] \in InvoiceRow
    BY <1>2 DEF InvoiceRow
  <1>4. invoices' = [invoices EXCEPT ![i] =
                        [invoices[i] EXCEPT !.status = "paid"]]
    BY DEF InvoiceSettles
  <1>5. /\ invoices' \in Seq(InvoiceRow)
        /\ DOMAIN invoices' = DOMAIN invoices
        /\ \A j \in DOMAIN invoices : invoices'[j].project = invoices[j].project
    BY <1>2, <1>3, <1>4 DEF InvoiceRow
  <1>6. UNCHANGED <<organizations, project, account, visit>>
    BY DEF InvoiceSettles
  <1>7. Grown /\ TablesTyped' /\ RowsAreSound'
    BY <1>1, <1>5, <1>6 DEF Grown, TablesTyped, RowsAreSound
  <1> QED
    BY <1>6, <1>7, TablesStep

-----------------------------------------------------------------------------
(* A visit. *)

LEMMA VisitStep ==
    ASSUME TenancyInv, NEW v \in Visitors, NEW rec,
           visit' = [visit EXCEPT ![v] = rec], UNCHANGED adminVars,
           Sound(rec, project, account, invoices)
    PROVE  TenancyInv'
  <1>1. /\ TablesTyped /\ RowsAreSound
        /\ visit \in [Visitors -> VisitRecord]
        /\ \A u \in Visitors : Sound(visit[u], project, account, invoices)
    BY InvSound
  <1>2. UNCHANGED <<organizations, project, account, invoices>>
    BY DEF adminVars
  <1>3. rec \in VisitRecord
    BY DEF Sound
  <1>4. visit' \in [Visitors -> VisitRecord]
    BY <1>1, <1>3
  <1>5. \A u \in Visitors : Sound(visit'[u], project', account', invoices')
    BY <1>1, <1>2
  <1>6. TablesTyped' /\ RowsAreSound'
    BY <1>1, <1>2 DEF TablesTyped, RowsAreSound
  <1> QED
    BY <1>4, <1>5, <1>6, SoundInv

LEMMA NewVisitType ==
    ASSUME NEW h \in Hosts, NEW i \in Nat
    PROVE  NewVisit(h, i) \in VisitRecord
  BY DEF NewVisit, VisitRecord, VisitPcs, VisitReplies

LEMMA SomeHostIsOne == SomeHost \in Hosts
  BY TenancyAssumption DEF TenancyAssumption, SomeHost

LEMMA ResolveStep ==
    ASSUME TenancyInv, NEW v \in Visitors, NEW h \in Hosts,
           NEW i \in 1 .. MaxInvoices, Resolve(v, h, i)
    PROVE  TenancyInv'
  <1>1. /\ TablesTyped /\ RowsAreSound
        /\ visit \in [Visitors -> VisitRecord]
    BY InvSound
  <1> DEFINE there == GetProjectByCustomDomain(StripPort[h])
  <1>2. StripPort[h] \in Hosts /\ StripPort[h] # NoDomain
    BY TenancyAssumption DEF TenancyAssumption
  <1>3. \A p, q \in there : p = q
    BY <1>1, <1>2 DEF GetProjectByCustomDomain, RowsAreSound
  <1>4. \A p \in there :
            /\ p \in DOMAIN project
            /\ p \in Nat
            /\ project[p].domain = StripPort[h]
    BY <1>1 DEF GetProjectByCustomDomain, TablesTyped
  <1>5. ASSUME NEW p \in there \cup {0}, NEW failed \in BOOLEAN,
               p = 0 => failed \/ there = {}
        PROVE  Sound(Resolved(h, i, p, failed), project, account, invoices)
    <2> DEFINE no == \A q \in there : GetInvoiceByIDAndProject(i, q) = {}
               x == Resolved(h, i, p, failed)
    <2>1. /\ NewVisit(h, i) \in VisitRecord /\ i \in Nat /\ p \in Nat
          /\ (failed \/ no) \in BOOLEAN
      BY <1>4, NewVisitType
    <2>2. x = [NewVisit(h, i) EXCEPT !.pc = "resolved", !.project = p,
                                     !.excused = failed \/ no]
      BY DEF Resolved
    <2> HIDE DEF x, no
    <2>3. /\ x \in VisitRecord
          /\ x.pc = "resolved" /\ x.project = p /\ x.host = h
          /\ x.invoice = i /\ x.options = {} /\ x.reply = "none"
          /\ x.excused = (failed \/ no)
      BY <2>1, <2>2 DEF NewVisit, VisitRecord, VisitPcs
    <2>4. x.project = 0 \/ HostOf(x, project)
      BY <1>4, <2>3 DEF HostOf
    <2>5. ASSUME ~x.excused
          PROVE  ProjectOf(x, invoices)
      <3>1. ~no /\ ~failed
        BY <2>3, <2>5
      <3>2. PICK q \in there : GetInvoiceByIDAndProject(i, q) # {}
        BY <3>1 DEF no
      <3>3. p = q
        BY <1>3, <1>5, <3>1, <3>2
      <3> QED
        BY <2>3, <3>2, <3>3 DEF GetInvoiceByIDAndProject, ProjectOf
    <2> QED
      BY <2>3, <2>4, <2>5 DEF Sound, x
  <1>6. \E p \in there \cup {0}, failed \in BOOLEAN :
            /\ p = 0 => failed \/ there = {}
            /\ visit' = [visit EXCEPT ![v] = Resolved(h, i, p, failed)]
    <2>1. 0 \notin there
      BY <1>1 DEF GetProjectByCustomDomain, TablesTyped
    <2> QED
      BY <2>1 DEF Resolve
  <1>7. UNCHANGED adminVars
    BY DEF Resolve
  <1> HIDE DEF there
  <1> QED
    BY <1>5, <1>6, <1>7, VisitStep

\* A refusal is sound for cause.
LEMMA RefuseVisitStep ==
    ASSUME TenancyInv, NEW v \in Visitors,
           NEW r \in {"not_found", "internal_error"}, NEW excused \in BOOLEAN,
           Refuse(v, r, excused), UNCHANGED adminVars,
           \/ excused
           \/ /\ r = "internal_error"
              /\ \E a \in DOMAIN account :
                    account[a].project = visit[v].project /\ ~account[a].sound
    PROVE  TenancyInv'
  <1> DEFINE x == [NewVisit(SomeHost, 0) EXCEPT !.reply = r,
                            !.project = visit[v].project, !.excused = excused]
  <1>1. visit[v] \in VisitRecord /\ visit[v].project \in Nat
    BY InvSound DEF VisitRecord
  <1>2. NewVisit(SomeHost, 0) \in VisitRecord
    BY NewVisitType, SomeHostIsOne
  <1>3. /\ x \in VisitRecord
        /\ x.pc = "idle" /\ x.reply = r /\ x.project = visit[v].project
        /\ x.excused = excused /\ x.options = {}
    BY <1>1, <1>2 DEF NewVisit, VisitRecord, VisitReplies
  <1>4. visit' = [visit EXCEPT ![v] = x]
    BY DEF Refuse
  <1> HIDE DEF x
  <1>5. Sound(x, project, account, invoices)
    BY <1>3 DEF Sound, CauseOf
  <1> QED
    BY <1>4, <1>5, VisitStep

\* The invoice of a visit that goes on is of the project of its host.
LEMMA ReadInvoiceStep ==
    ASSUME TenancyInv, NEW v \in Visitors, ReadInvoice(v)
    PROVE  TenancyInv'
  <1>1. /\ visit[v] \in VisitRecord /\ visit \in [Visitors -> VisitRecord]
        /\ Sound(visit[v], project, account, invoices)
        /\ visit[v].pc = "resolved"
        /\ UNCHANGED adminVars
    BY InvSound DEF ReadInvoice
  <1> DEFINE found == GetInvoiceByIDAndProject(
                            visit[v].invoice, visit[v].project)
  <1>2. CASE found = {} /\ Answer(v, "not_found")
    <2>1. visit[v].excused = TRUE
      BY <1>1, <1>2
         DEF Sound, ProjectOf, GetInvoiceByIDAndProject, VisitRecord
    <2> QED
      BY <1>1, <1>2, <2>1, RefuseVisitStep DEF Answer
  <1>3. CASE Refuse(v, "internal_error", TRUE)
    BY <1>1, <1>3, RefuseVisitStep
  <1>4. CASE ShowPaid(v)
    <2> DEFINE x == [NewVisit(SomeHost, 0) EXCEPT !.reply = "paid"]
    <2>1. NewVisit(SomeHost, 0) \in VisitRecord
      BY NewVisitType, SomeHostIsOne
    <2>2. /\ x \in VisitRecord
          /\ x.pc = "idle" /\ x.reply = "paid" /\ x.options = {}
      BY <2>1 DEF NewVisit, VisitRecord, VisitReplies
    <2>3. visit' = [visit EXCEPT ![v] = x]
      BY <1>4 DEF ShowPaid
    <2> HIDE DEF x
    <2>4. Sound(x, project, account, invoices)
      BY <2>2 DEF Sound
    <2> QED
      BY <1>1, <2>3, <2>4, VisitStep
  <1>5. CASE found # {} /\ visit' = [visit EXCEPT ![v].pc = "accounts"]
    <2> DEFINE x == [visit[v] EXCEPT !.pc = "accounts"]
    <2>1. /\ x \in VisitRecord
          /\ x.pc = "accounts" /\ x.reply = visit[v].reply
          /\ x.project = visit[v].project /\ x.invoice = visit[v].invoice
          /\ x.host = visit[v].host /\ x.options = visit[v].options
      BY <1>1 DEF VisitRecord, VisitPcs
    <2>2. visit' = [visit EXCEPT ![v] = x]
      BY <1>5
    <2>3. ProjectOf(visit[v], invoices)
      BY <1>5 DEF ProjectOf, GetInvoiceByIDAndProject
    <2> HIDE DEF x
    <2>4. Sound(x, project, account, invoices)
      BY <1>1, <2>1, <2>3 DEF Sound, HostOf, ProjectOf
    <2> QED
      BY <1>1, <2>2, <2>4, VisitStep
  <1> QED
    BY <1>2, <1>3, <1>4, <1>5 DEF ReadInvoice

\* Options, script and merchant are of the project of the host.
LEMMA OfferStep ==
    ASSUME TenancyInv, NEW v \in Visitors, Offer(v)
    PROVE  TenancyInv'
  <1> DEFINE usable == MpgsAccounts(visit[v].project)
  <1>1. /\ visit[v] \in VisitRecord /\ visit \in [Visitors -> VisitRecord]
        /\ Sound(visit[v], project, account, invoices)
        /\ visit[v].pc = "accounts"
        /\ UNCHANGED adminVars
        /\ TablesTyped /\ RowsAreSound
    BY InvSound DEF Offer
  <1>2. \A a \in usable :
            /\ a \in DOMAIN account /\ a \in Nat
            /\ account[a].project = visit[v].project
    BY <1>1 DEF MpgsAccounts, ListActiveGatewayAccounts, TablesTyped
  <1>3. HostOf(visit[v], project) /\ ProjectOf(visit[v], invoices)
    <2>1. ProjectOf(visit[v], invoices)
      BY <1>1 DEF Sound
    <2>2. visit[v].project # 0
      BY <1>1, <2>1 DEF ProjectOf, RowsAreSound, TablesTyped
    <2> QED
      BY <1>1, <2>1, <2>2 DEF Sound
  <1>4. CASE Refuse(v, "internal_error", TRUE)
    BY <1>1, <1>4, RefuseVisitStep
  <1>5. CASE /\ \E a \in usable : ~ParseEncryptedCredentials(a)
             /\ Answer(v, "internal_error")
    <2>1. \E a \in DOMAIN account :
                account[a].project = visit[v].project /\ ~account[a].sound
      BY <1>2, <1>5 DEF ParseEncryptedCredentials
    <2>2. visit[v].excused \in BOOLEAN
      BY <1>1 DEF VisitRecord
    <2> QED
      BY <1>1, <1>5, <2>1, <2>2, RefuseVisitStep DEF Answer
  <1>6. ASSUME NEW last \in IF usable = {} THEN {0} ELSE usable,
               visit' = [visit EXCEPT
                        ![v].pc = "idle", ![v].reply = "page",
                        ![v].options = usable \X PaymentMethods,
                        ![v].config = last, ![v].excused = FALSE]
        PROVE  TenancyInv'
    <2> DEFINE methods == usable \X PaymentMethods
               x == [visit[v] EXCEPT !.pc = "idle", !.reply = "page",
                                     !.options = methods,
                                     !.config = last, !.excused = FALSE]
    <2>1. last \in Nat /\ (usable # {} => last \in usable)
      BY <1>2
    <2>2. /\ methods \subseteq Nat \X PaymentMethods
          /\ methods \subseteq (DOMAIN account) \X PaymentMethods
          /\ \A o \in methods : account[o[1]].project = visit[v].project
      BY <1>2
    <2>3. methods = {} \/ <<last, "card">> \in methods
      BY <2>1 DEF PaymentMethods
    <2> HIDE DEF methods, usable
    <2>4. /\ x \in VisitRecord
          /\ x.pc = "idle" /\ x.reply = "page" /\ x.options = methods
          /\ x.config = last /\ x.project = visit[v].project
          /\ x.invoice = visit[v].invoice /\ x.host = visit[v].host
      BY <1>1, <2>1, <2>2 DEF VisitRecord, VisitPcs, VisitReplies
    <2>5. visit' = [visit EXCEPT ![v] = x]
      BY <1>1, <1>6 DEF methods, VisitRecord
    <2> HIDE DEF x
    <2>6. Sound(x, project, account, invoices)
      BY <1>3, <2>2, <2>3, <2>4 DEF Sound, HostOf, ProjectOf, PageOf
    <2> QED
      BY <1>1, <2>5, <2>6, VisitStep
  <1> QED
    BY <1>4, <1>5, <1>6 DEF Offer

LEMMA TenancyStarts ==
    ASSUME TenancyInit
    PROVE  TenancyInv
  <1>1. /\ project = <<>> /\ account = <<>> /\ invoices = <<>>
        /\ visit = [v \in Visitors |-> NewVisit(SomeHost, 0)]
    BY DEF TenancyInit
  <1>2. NewVisit(SomeHost, 0) \in VisitRecord
    BY NewVisitType, SomeHostIsOne
  <1>3. \A v \in Visitors :
            /\ visit[v].pc = "idle" /\ visit[v].reply = "none"
            /\ visit[v].options = {}
    BY <1>1 DEF NewVisit
  <1>4. TenancyTypeOK
    BY <1>1, <1>2, <1>3 DEF TenancyInit, TenancyTypeOK
  <1>5. RowsAreSound
    BY <1>1 DEF RowsAreSound
  <1>6. VisitsAreSound /\ PageKeepsToItsHost /\ RefusedOnlyForCause
    BY <1>3
       DEF VisitsAreSound, PageKeepsToItsHost, RefusedOnlyForCause, Visiting,
           Shown
  <1> QED
    BY <1>4, <1>5, <1>6 DEF TenancyInv

LEMMA TenancyStep ==
    ASSUME TenancyInv, [TenancyNext]_tenancyVars
    PROVE  TenancyInv'
  <1>1. CASE Admin
    BY <1>1, PostOrganizationStep, PostProjectStep, PostGatewayAccountStep,
       PostInvoiceStep DEF Admin
  <1>2. CASE ByHand
    BY <1>2, RetireProjectStep, RetireAccountStep, InvoiceSettlesStep
       DEF ByHand
  <1>3. CASE \E v \in Visitors : CheckoutPageHandler(v)
    BY <1>3, ResolveStep, ReadInvoiceStep, OfferStep DEF CheckoutPageHandler
  <1>4. CASE UNCHANGED tenancyVars
    <2>1. Grown
      BY <1>4 DEF tenancyVars, adminVars, Grown
    <2>2. TablesTyped' /\ RowsAreSound' /\ visit' = visit
      BY <1>4, InvSound DEF tenancyVars, adminVars, TablesTyped, RowsAreSound
    <2> QED
      BY <2>1, <2>2, TablesStep
  <1> QED
    BY <1>1, <1>2, <1>3, <1>4 DEF TenancyNext

-----------------------------------------------------------------------------
(* Theorems. *)

\* The invariant holds whatever the operators and the payers do.
THEOREM TenancyInductive == TenancySpec => []TenancyInv
  BY TenancyStarts, TenancyStep, PTL DEF TenancySpec

\* A page, put together from three queries while the tables change, is of one
\* tenant: that of its host (tenant.go:22-38, service.go:44-126).
THEOREM PagesKeepToTheirHosts == TenancySpec => []PageKeepsToItsHost
  BY TenancyInductive, PTL DEF TenancyInv

\* A payer is turned away only for a reason of his own tenant
\* (tenant.go:33-37, service.go:84-95).
THEOREM RefusalsHaveCause == TenancySpec => []RefusedOnlyForCause
  BY TenancyInductive, PTL DEF TenancyInv

\* InitiateSession finds the account of every option a page offers, also when
\* it was made inactive since (service.go:84-112 against 162-168).
THEOREM OptionsStayAcceptable == TenancySpec => []OfferedOptionsAreAccepted
  <1>1. TenancyInv => OfferedOptionsAreAccepted
    <2> SUFFICES ASSUME TenancyInv, NEW v \in Visitors, Shown(v),
                        NEW o \in visit[v].options
                 PROVE  GetGatewayAccountByIDAndProject(
                            o[1], visit[v].project) # {}
      BY DEF OfferedOptionsAreAccepted
    <2>1. Sound(visit[v], project, account, invoices)
      BY InvSound
    <2>2. o \in (DOMAIN account) \X PaymentMethods
          /\ account[o[1]].project = visit[v].project
      BY <2>1 DEF Sound, Shown, PageOf
    <2> QED
      BY <2>2 DEF GetGatewayAccountByIDAndProject
  <1> QED
    BY <1>1, TenancyInductive, PTL

\* What the projects do in a step: nothing, one more, or one less.
LEMMA ProjectsStep ==
    ASSUME TenancyInv, [TenancyNext]_tenancyVars, NEW h \in Hosts,
           Registered(h)
    PROVE  GetProjectByCustomDomain(h)' \subseteq GetProjectByCustomDomain(h)
  <1>1. project \in Seq(ProjectRow)
    BY InvSound DEF TablesTyped
  <1>2. CASE project' = project
    BY <1>2 DEF GetProjectByCustomDomain
  <1>3. ASSUME NEW o, NEW e, NEW d, PostProject(o, e, d)
        PROVE  GetProjectByCustomDomain(h)' \subseteq
                    GetProjectByCustomDomain(h)
    <2> DEFINE e1 == IF e = Empty THEN "sandbox" ELSE e
               d1 == IF d = Empty THEN NoDomain ELSE d
    <2>1. PICK row : /\ project' = Append(project, row)
                     /\ row.domain = d1 /\ row.deleted = FALSE
      BY <1>3 DEF PostProject, CreateProject, InsertProject
    <2>2. ProjectIsUnique(o, e1, d1)
      BY <1>3 DEF PostProject, CreateProject, InsertProject
    <2> HIDE DEF d1, e1
    <2>3. row.domain # h
      <3>1. h # NoDomain
        BY TenancyAssumption DEF TenancyAssumption
      <3> QED
        BY <2>1, <2>2, <3>1 DEF ProjectIsUnique, Registered
    <2>4. \A p \in DOMAIN project' :
            \/ p \in DOMAIN project /\ project'[p] = project[p]
            \/ project'[p] = row
      BY <1>1, <2>1
    <2> QED
      BY <2>3, <2>4 DEF GetProjectByCustomDomain
  <1>4. ASSUME NEW p \in DOMAIN project, RetireProject(p)
        PROVE  GetProjectByCustomDomain(h)' \subseteq
                    GetProjectByCustomDomain(h)
    <2>1. /\ project' = [project EXCEPT ![p] =
                            [project[p] EXCEPT !.deleted = TRUE]]
          /\ ~project[p].deleted
      BY <1>4 DEF RetireProject
    <2>2. project[p] \in ProjectRow
      BY <1>1
    <2>3. \A q \in DOMAIN project' :
            /\ q \in DOMAIN project
            /\ project'[q].domain = project[q].domain
            /\ ~project'[q].deleted => ~project[q].deleted
      BY <1>1, <2>1, <2>2 DEF ProjectRow
    <2> QED
      BY <2>3 DEF GetProjectByCustomDomain
  <1> QED
    BY <1>2, <1>3, <1>4
       DEF TenancyNext, Admin, ByHand, PostOrganization, PostGatewayAccount,
           PostInvoice, RetireAccount, InvoiceSettles, CheckoutPageHandler,
           Resolve, ReadInvoice, Offer, adminVars, tenancyVars

\* A host stays with the one project it was given to, and is not accepted
\* again once that is deleted (migration 00001:27, tenant.go:33).
THEOREM HostsStay == TenancySpec => HostsNeverMove
  <1>1. TenancyInv /\ [TenancyNext]_tenancyVars =>
            [\A h \in Hosts : Registered(h) =>
                /\ GetProjectByCustomDomain(h)' \subseteq
                        GetProjectByCustomDomain(h)
                /\ DynamicCORS(h)' => DynamicCORS(h)
                /\ VerifyDomain(h)' => VerifyDomain(h)]_tenancyVars
    BY ProjectsStep DEF DynamicCORS, IsDomainValid, VerifyDomain
  <1> QED
    BY <1>1, TenancyInductive, PTL DEF TenancySpec, HostsNeverMove

\* A visit that is refused, or told that the invoice is paid, is over.
LEMMA RefusedIsOver ==
    ASSUME visit \in [Visitors -> VisitRecord], NEW v \in Visitors, NEW r,
           NEW excused, Refuse(v, r, excused)
    PROVE  visit'[v].pc = "idle" /\ visit'[v].reply = r
  <1> DEFINE x == [NewVisit(SomeHost, 0) EXCEPT !.reply = r,
                            !.project = visit[v].project, !.excused = excused]
  <1>1. x.pc = "idle" /\ x.reply = r
    BY DEF NewVisit
  <1>2. visit' = [visit EXCEPT ![v] = x]
    BY DEF Refuse
  <1> HIDE DEF x
  <1>3. visit'[v] = x
    BY <1>2
  <1> QED
    BY <1>1, <1>3

LEMMA ShowPaidIsOver ==
    ASSUME visit \in [Visitors -> VisitRecord], NEW v \in Visitors, ShowPaid(v)
    PROVE  visit'[v].pc = "idle" /\ visit'[v].reply = "paid"
  <1> DEFINE x == [NewVisit(SomeHost, 0) EXCEPT !.reply = "paid"]
  <1>1. x.pc = "idle" /\ x.reply = "paid"
    BY DEF NewVisit
  <1>2. visit' = [visit EXCEPT ![v] = x]
    BY DEF ShowPaid
  <1> HIDE DEF x
  <1>3. visit'[v] = x
    BY <1>2
  <1> QED
    BY <1>1, <1>3

\* What a step does to one visit of an invoice that is paid.
LEMMA OverStep ==
    ASSUME TenancyInv, [TenancyNext]_tenancyVars,
           NEW i \in DOMAIN invoices, Over(i)
    PROVE  Over(i)' /\ Offers(i)' \subseteq Offers(i)
  <1>1. /\ invoices \in Seq(InvoiceRow)
        /\ visit \in [Visitors -> VisitRecord]
        /\ \A v \in Visitors : Sound(visit[v], project, account, invoices)
    BY InvSound DEF TablesTyped
  <1>2. /\ i \in DOMAIN invoices'
        /\ invoices'[i].status = "paid"
    <2>1. CASE invoices' = invoices
      BY <2>1 DEF Over
    <2>2. ASSUME NEW p, NEW amount, PostInvoice(p, amount)
          PROVE  i \in DOMAIN invoices' /\ invoices'[i] = invoices[i]
      BY <1>1, <2>2 DEF PostInvoice, CreateInvoice, InsertInvoice
    <2>3. ASSUME NEW j \in DOMAIN invoices, InvoiceSettles(j)
          PROVE  i \in DOMAIN invoices' /\ invoices'[i] = invoices[i]
      BY <1>1, <2>3 DEF InvoiceSettles, Over
    <2> QED
      BY <2>1, <2>2, <2>3
         DEF Over, TenancyNext, Admin, ByHand, PostOrganization, PostProject,
             PostGatewayAccount, RetireProject, RetireAccount,
             CheckoutPageHandler, Resolve, ReadInvoice, Offer, adminVars,
             tenancyVars
  <1>3. ASSUME NEW v \in Visitors
        PROVE  /\ visit'[v].pc = "accounts" => visit'[v].invoice # i
               /\ Shown(v)' /\ visit'[v].invoice = i =>
                    Shown(v) /\ visit[v].invoice = i
    <2>1. CASE visit'[v] = visit[v]
      BY <2>1 DEF Over, Shown
    <2>2. CASE visit'[v] = [visit[v] EXCEPT !.excused = TRUE]
      <3>1. /\ visit'[v].pc = visit[v].pc /\ visit'[v].reply = visit[v].reply
            /\ visit'[v].invoice = visit[v].invoice
        BY <1>1, <2>2 DEF VisitRecord
      <3> QED
        BY <3>1 DEF Over, Shown
    <2>3. ASSUME NEW h \in Hosts, NEW j \in 1 .. MaxInvoices, Resolve(v, h, j)
          PROVE  visit'[v].pc = "resolved" /\ visit'[v].reply = "none"
      BY <1>1, <2>3 DEF Resolve, Resolved, NewVisit
    <2>4. ASSUME ReadInvoice(v)
          PROVE  /\ visit'[v].pc = "accounts" => visit'[v].invoice # i
                 /\ visit'[v].reply # "page"
      <3>1. \/ visit'[v].reply \in {"not_found", "internal_error", "paid"}
               /\ visit'[v].pc = "idle"
            \/ /\ \E j \in GetInvoiceByIDAndProject(
                            visit[v].invoice, visit[v].project) :
                        invoices[j].status # "paid"
               /\ visit' = [visit EXCEPT ![v].pc = "accounts"]
        BY <1>1, <2>4, RefusedIsOver, ShowPaidIsOver DEF ReadInvoice, Answer
      <3>2. visit[v].reply = "none"
        BY <1>1, <2>4 DEF ReadInvoice, Sound
      <3> QED
        BY <1>1, <3>1, <3>2
           DEF GetInvoiceByIDAndProject, Over, VisitRecord
    <2>5. ASSUME Offer(v)
          PROVE  /\ visit'[v].pc = "idle"
                 /\ visit'[v].reply = "page" => visit'[v].invoice # i
      <3>1. visit[v].invoice # i
        BY <2>5 DEF Offer, Over
      <3>2. ASSUME NEW last, NEW options,
                   visit' = [visit EXCEPT
                        ![v].pc = "idle", ![v].reply = "page",
                        ![v].options = options,
                        ![v].config = last, ![v].excused = FALSE]
            PROVE  visit'[v].pc = "idle" /\ visit'[v].invoice # i
        <4>1. visit'[v] = [visit[v] EXCEPT !.pc = "idle", !.reply = "page",
                                !.options = options, !.config = last,
                                !.excused = FALSE]
          BY <1>1, <3>2 DEF VisitRecord
        <4> QED
          BY <1>1, <3>1, <4>1 DEF VisitRecord
      <3>3. ASSUME NEW last,
                   visit' = [visit EXCEPT
                        ![v].pc = "idle", ![v].reply = "page",
                        ![v].options =
                            MpgsAccounts(visit[v].project) \X PaymentMethods,
                        ![v].config = last, ![v].excused = FALSE]
            PROVE  visit'[v].pc = "idle" /\ visit'[v].invoice # i
        <4> DEFINE options == MpgsAccounts(visit[v].project) \X PaymentMethods
        <4> HIDE DEF options
        <4>1. visit' = [visit EXCEPT
                        ![v].pc = "idle", ![v].reply = "page",
                        ![v].options = options,
                        ![v].config = last, ![v].excused = FALSE]
          BY <3>3 DEF options
        <4> QED
          BY <3>2, <4>1
      <3>4. \/ Refuse(v, "internal_error", TRUE)
            \/ Answer(v, "internal_error")
            \/ visit'[v].pc = "idle" /\ visit'[v].invoice # i
        BY <2>5, <3>3 DEF Offer
      <3>5. Refuse(v, "internal_error", TRUE)
                \/ Answer(v, "internal_error")
                => visit'[v].reply = "internal_error" /\ visit'[v].pc = "idle"
        BY <1>1, RefusedIsOver DEF Answer
      <3> QED
        BY <3>4, <3>5
    <2>6. \/ visit'[v] = visit[v]
          \/ visit'[v] = [visit[v] EXCEPT !.excused = TRUE]
          \/ CheckoutPageHandler(v)
      <3>1. CASE visit' = visit
        BY <3>1
      <3>2. ASSUME NEW p \in DOMAIN project, RetireProject(p)
            PROVE  \/ visit'[v] = visit[v]
                   \/ visit'[v] = [visit[v] EXCEPT !.excused = TRUE]
        BY <3>2 DEF RetireProject
      <3>3. ASSUME NEW u \in Visitors, CheckoutPageHandler(u), u # v
            PROVE  visit'[v] = visit[v]
        BY <1>1, <3>3
           DEF CheckoutPageHandler, Resolve, ReadInvoice, Offer, Answer,
               Refuse, ShowPaid
      <3> QED
        BY <3>1, <3>2, <3>3
           DEF TenancyNext, Admin, ByHand, PostOrganization, PostProject,
               PostGatewayAccount, PostInvoice, RetireAccount, InvoiceSettles,
               tenancyVars
    <2> QED
      BY <2>1, <2>2, <2>3, <2>4, <2>5, <2>6 DEF CheckoutPageHandler, Shown
  <1> QED
    BY <1>2, <1>3 DEF Over, Offers

\* Once an invoice is paid and the visits that had read it unpaid are over, no
\* page offers to pay it any more (service.go:53-63).
THEOREM PaidIsNotOffered == TenancySpec => PaidInvoicesAreNotOffered
  <1>1. TenancyInv /\ [TenancyNext]_tenancyVars =>
            [\A i \in DOMAIN invoices : Over(i) =>
                Over(i)' /\ Offers(i)' \subseteq Offers(i)]_tenancyVars
    BY OverStep
  <1> QED
    BY <1>1, TenancyInductive, PTL DEF TenancySpec, PaidInvoicesAreNotOffered
=============================================================================
