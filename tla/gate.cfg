SPECIFICATION FairSpec
CONSTANTS
    main = main
    ctl = ctl
    Callers <- MCCallers
    Querier = querier
    Reporter = reporter
    Menu <- MenuStop
    Modes = {"periodic", "oneshot"}
    Interruptible = TRUE
    Names = {p}
    Registered = {p}
    Rests = {q1}
    Ranges = {r1}
    NotifyCap = 1
    MaxClock = 0
    MaxReporterWg = 3
    None = None
CHECK_DEADLOCK FALSE
INVARIANTS TypeOK GateBalanced GatePanicIsRace ParkedAfterStop SuspendBound
PROPERTIES StopReturns KeepsPublishing
