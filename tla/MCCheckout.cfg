SPECIFICATION Spec
CONSTANTS
    p1 = p1
    i1 = i1
    a1 = a1
    Projects = {p1}
    Invoices = {i1}
    Accounts = {a1}
    InvoiceProject <- OneInvoiceProject
    AccountProject <- OneAccountProject
    Keys = {}
    NoKey = NoKey
    Workers = {w1, w2}
    MaxSessions = 2
    MaxTx = 6
    Faults = {"timeout", "abort"}
    Project = p1
    Invoice = i1
    Account = a1
    MaxSelects = 3
    MaxPays = 2
    MaxDisturbances = 1
    Disturbances = {"reload", "offline", "hurry"}
ACTION_CONSTRAINT ThirdChoice
VIEW StillRead
SYMMETRY WorkerSymmetry
CHECK_DEADLOCK FALSE
INVARIANTS
    CheckoutInv
    ReportedSuccessMeansPaid
    FlowsAreCovered
    NobodyIsLeftWaiting
    CalmPayerIsChargedOnce
