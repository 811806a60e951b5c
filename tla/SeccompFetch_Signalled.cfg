SPECIFICATION Spec
CONSTANTS
    a1 = a1
    a2 = a2
    Nobody = Nobody
    Audits = {a1}
    Privileged = {a1}
    MaxSignals = 1
INVARIANT
    LeftRunning
CHECK_DEADLOCK FALSE
