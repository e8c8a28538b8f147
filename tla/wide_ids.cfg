SPECIFICATION Spec
CONSTANTS
    s1 = s1
    s2 = s2
    Sessions = {s1, s2}
    Addr <- OneHost
    Width = 2
    LowSpan = 2
    MaxCmds <- EightEach
    MaxNews = 0
    CmdCap = 1
    ResultCap = 1
    SockCap = 1
    None = None
INVARIANT OwnAnswers
CHECK_DEADLOCK FALSE
