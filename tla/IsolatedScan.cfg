SPECIFICATION Spec
CONSTANTS
    p1 = p1
    p2 = p2
    self = self
    Pids = {self, p1, p2}
    Self = self
    Slots = 2
    MaxGen <- MCMaxGen
    Privileged = {TRUE, FALSE}
INVARIANTS
    TypeOK
    SemaphoreCount
    ScoresAccountable
PROPERTIES
    NoLateScore
    ScanReturns
    ContractSpec
