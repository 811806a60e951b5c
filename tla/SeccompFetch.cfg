SPECIFICATION Spec
CONSTANTS
    a1 = a1
    a2 = a2
    Nobody = Nobody
    Audits = {a1, a2}
    Privileged = {a1}
    MaxSignals = 2
INVARIANTS
    TypeOK
    TracedWhileInside
    DetachWorks
    LeftRunningUnsignalled
    LoneAuditReads
PROPERTY
    AuditsEnd
CHECK_DEADLOCK FALSE
