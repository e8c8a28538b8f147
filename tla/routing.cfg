SPECIFICATION FairSpec
CONSTANTS
    s1 = s1
    s2 = s2
    Sessions = {s1, s2}
    Addr <- OneHost
    Width = 2
    LowSpan = 4
    MaxCmds <- TwoAndOne
    MaxNews = 1
    CmdCap = 1
    ResultCap = 1
    SockCap = 1
    None = None
INVARIANTS TypeOK OwnAnswers AnswersInOrder Registered CacheExact
PROPERTIES ServiceImplemented Answered
CHECK_DEADLOCK FALSE
