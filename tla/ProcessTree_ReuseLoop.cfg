SPECIFICATION Spec
CONSTANTS
    Pids <- MCPids
    Roots = {1}
    NameRank <- MCNameRank
    MaxBirths = 4
PROPERTY
    AuditReturns
