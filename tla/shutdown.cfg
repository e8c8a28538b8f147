SPECIFICATION FairSpec
CONSTANTS
    x = x
    cx = cx
    y = y
    c1 = c1
    c2 = c2
    s1 = s1
    s2 = s2
    Given <- OnlyX
    Base <- OnlyXBase
    Drops <- OnlyX
    Cfgs <- OneCfg
    Sinks = {}
    Menu <- AllCommands
    Flagged <- OnePlugin
    MaxCmds = 2
    MaxClients = 2
    MaxReports = 1
    None = None
CHECK_DEADLOCK FALSE
INVARIANTS ShutdownGoesOn
PROPERTIES SignalEnds
