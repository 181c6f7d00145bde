SPECIFICATION Spec
CONSTANTS
    p1 = p1
    i1 = i1
    a1 = a1
    Projects = {p1}
    Invoices = {i1}
    Accounts = {a1}
    InvoiceProject <- OneInvoiceProject
    AccountProject <- OneAccountProject
    Keys = {}
    NoKey = NoKey
    Workers = {w1}
    MaxSessions = 1
    MaxTx = 4
    Faults = {}
    Project = p1
    Invoice = i1
    Account = a1
    MaxSelects = 1
    MaxPays = 1
    MaxDisturbances = 0
    Disturbances = {}
CONSTRAINT OnlyCardsAreDeclined
CHECK_DEADLOCK FALSE
INVARIANTS
    SuccessShownMeansPaid
