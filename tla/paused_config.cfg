SPECIFICATION FairSpec
CONSTANTS
    main = main
    ctl = ctl
    Callers <- MCCallers
    Querier = querier
    Reporter = reporter
    Menu <- MenuPausedConfig
    Modes = {"periodic"}
    Interruptible = FALSE
    Names = {}
    Registered = {}
    Rests = {q1}
    Ranges = {r1}
    NotifyCap = 1
    MaxClock = 0
    MaxReporterWg = 3
    None = None
CHECK_DEADLOCK FALSE
PROPERTY ControlResponsive
