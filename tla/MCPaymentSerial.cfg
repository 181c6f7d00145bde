SPECIFICATION PaymentSpec
CONSTANTS
    p1 = p1
    i1 = i1
    a1 = a1
    p2 = p2
    i2 = i2
    i3 = i3
    a2 = a2
    Projects = {p1, p2}
    Invoices = {i1, i2, i3}
    Accounts = {a1, a2}
    InvoiceProject <- TwoInvoiceProject
    AccountProject <- TwoAccountProject
    Keys = {}
    NoKey = NoKey
    Workers = {w1}
    MaxSessions = 2
    MaxTx = 6
    Faults = {"lost_commit"}
CONSTRAINT OneAuthPerSession
CHECK_DEADLOCK FALSE
INVARIANTS
    RowsKeepTenancy
    NoDoubleCharge
    SerialInv
