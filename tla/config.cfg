SPECIFICATION FairSpec
CONSTANTS
    main = main
    ctl = ctl
    Callers <- MCCallers
    Querier = querier
    Reporter = reporter
    Menu <- MenuConfig
    Modes = {"periodic", "oneshot"}
    Interruptible = FALSE
    Names = {}
    Registered = {}
    Rests = {q1, q2}
    Ranges = {r1}
    NotifyCap = 1
    MaxClock = 1
    MaxReporterWg = 3
    None = None
CHECK_DEADLOCK FALSE
INVARIANTS FreshConfig LabelledFields
PROPERTIES LastStateForward ControlResponsive
