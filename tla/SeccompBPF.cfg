SPECIFICATION Spec
CONSTANTS
    None = None
    Filters <- MCFilters
    MaxFilters = 2
    Machines <- MCMachines
    AuditArch <- MCAuditArch
    Arches <- MCArches
    Numbers <- MCNumbers
    Args <- MCArgs
INVARIANTS
    TypeOK
    PolicyRight
    ReportedActionOccurs
    BlockedHolds
    ArchRiskNamed
