SPECIFICATION PaymentSpec
CONSTANTS
    p1 = p1
    i1 = i1
    a1 = a1
    p2 = p2
    i2 = i2
    i3 = i3
    a2 = a2
    Projects = {p1}
    Invoices = {i1}
    Accounts = {a1}
    InvoiceProject <- OneInvoiceProject
    AccountProject <- OneAccountProject
    Keys = {}
    NoKey = NoKey
    Workers = {w1}
    MaxSessions = 1
    MaxTx = 3
    Faults = {}
CHECK_DEADLOCK FALSE
PROPERTIES
    InvoiceFollowsStateMachine
