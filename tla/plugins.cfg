SPECIFICATION Spec
CONSTANTS
    x = x
    cx = cx
    y = y
    c1 = c1
    c2 = c2
    s1 = s1
    s2 = s2
    Given <- MCGiven
    Base <- MCBase
    Drops <- OnlyX
    Cfgs <- OneCfg
    Sinks = {}
    Menu <- PluginCommands
    Flagged <- OnePlugin
    MaxCmds = 3
    MaxClients = 2
    MaxReports = 0
    None = None
CHECK_DEADLOCK FALSE
INVARIANTS TypeOK AttachedReady LateBound StopsReadyPlugins
