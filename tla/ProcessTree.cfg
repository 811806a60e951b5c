SPECIFICATION Spec
CONSTANTS
    Pids <- MCPids
    Roots = {1}
    NameRank <- MCNameRank
    MaxBirths = 4
INVARIANTS
    TypeOK
    ParentsOlder
    AncestorsDistinct
    TargetShown
    TreeIsLineage
    VisitedOnce
PROPERTY
    ReturnsUnlessReused
