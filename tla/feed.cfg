SPECIFICATION Spec
CONSTANTS
    main = main
    ctl = ctl
    Callers <- MCCallers
    Querier = querier
    Reporter = reporter
    Menu <- MenuReporters
    Modes = {"periodic", "oneshot"}
    Interruptible = TRUE
    Names = {p1, p2}
    Registered = {p1}
    Rests = {q1}
    Ranges = {r1}
    NotifyCap = 2
    MaxClock = 1
    MaxReporterWg = 3
    None = None
CHECK_DEADLOCK FALSE
INVARIANTS FeedInOrder JoinDelivered ReporterPanicIsRace
PROPERTIES ReporterForward FeedImplemented
