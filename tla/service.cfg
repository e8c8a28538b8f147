SPECIFICATION Spec
CONSTANTS
    x = x
    cx = cx
    y = y
    c1 = c1
    c2 = c2
    s1 = s1
    s2 = s2
    Given <- OnlyX
    Base <- OnlyXBase
    Drops = {}
    Cfgs <- TwoCfgs
    Sinks <- TwoSinks
    Menu <- AllCommands
    Flagged <- OnePlugin
    MaxCmds = 3
    MaxClients = 2
    MaxReports = 1
    None = None
SYMMETRY Alike
CHECK_DEADLOCK FALSE
INVARIANTS CleanStop ReportSurvives NilIntervalIsOneShot QuietExit
PROPERTIES PlainStart SuccessionImplemented
