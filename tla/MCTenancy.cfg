SPECIFICATION TenancySpec
CONSTANTS
    Hosts <- MCHosts
    StripPort <- MCStripPort
    Environments = {"sandbox", "production"}
    Visitors = {v1}
    MaxOrganizations = 1
    MaxProjects = 2
    MaxAccounts = 2
    MaxInvoices = 1
    QueriesFail = TRUE
CHECK_DEADLOCK FALSE
INVARIANTS
    TenancyInv
    PageKeepsToItsHost
    OfferedOptionsAreAccepted
    RefusedOnlyForCause
PROPERTIES
    HostsNeverMove
    PaidInvoicesAreNotOffered
