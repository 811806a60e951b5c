SPECIFICATION Spec
CONSTANTS
    Web = Web
    WebAgain = WebAgain
    HostProcess = HostProcess
    None = None
    Processes <- MCProcesses
    PidOf <- MCPidOf
    HostInit = HostProcess
    Initial <- MCInitial
    Isolated <- MCIsolated
    Improvable <- MCImprovable
    MaxAwaited = 2
    MaxLoads = 2
INVARIANTS
    TypeOK
    WaitingIsAwaited
    OnePanelUnlessOverlapped
    DescribesShown
    OverrideForShown
PROPERTY
    LoadingEnds
