SPECIFICATION FairSpec
CONSTANTS
    p1 = p1
    i1 = i1
    a1 = a1
    Projects = {p1}
    Invoices = {i1}
    Accounts = {a1}
    InvoiceProject <- OneInvoiceProject
    AccountProject <- OneAccountProject
    Keys = {k1}
    NoKey = NoKey
    Openers = {o1, o2}
    OpenFaults = {"gateway", "crash"}
    Workers = {w1}
    MaxSessions = 2
    MaxTx = 3
    Faults = {"timeout", "crash"}
CHECK_DEADLOCK FALSE
INVARIANTS
    UnkeyedSessionsAreOrdered
    KhazinaInv
PROPERTIES
    ServesSessions
    ServesPayment
    EveryoneAnswered
