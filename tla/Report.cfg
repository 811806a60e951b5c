SPECIFICATION Spec
CONSTANTS
    Processes <- MCProcesses
    Changes <- MCChanges
    FlagSets <- MCFlagSets
    Thresholds = {0, 100}
    NotRead = NotRead
INVARIANTS
    TypeOK
    ScoreBetween
    VerdictBetween
    PerfectPasses
    FeasibleCosts
    GreenPasses
