SPECIFICATION SessionsSpec
CONSTANTS
    p1 = p1
    i1 = i1
    a1 = a1
    p2 = p2
    i2 = i2
    a2 = a2
    Projects = {p1, p2}
    Invoices = {i1, i2}
    Accounts = {a1, a2}
    InvoiceProject <- TwoInvoiceProject
    AccountProject <- TwoAccountProject
    Keys = {k1}
    NoKey = NoKey
    Openers = {o1, o2, o3}
    OpenFaults = {"gateway", "lost_update", "abort", "crash"}
SYMMETRY OpenerSymmetry
CHECK_DEADLOCK FALSE
INVARIANTS
    SameKeySameSession
    UnorderedOnlyByKey
    ReplyMatchesRequest
    SessionsInv
PROPERTIES
    PaidClosesTheDoor
