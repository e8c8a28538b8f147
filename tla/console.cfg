SPECIFICATION FairSpec
CONSTANTS
    Transports <- MCTransports
    Keys <- MCKeys
    MaxKeys = 2
    MaxStates = 2
    None = None
CHECK_DEADLOCK FALSE
INVARIANTS TypeOK SettledView LossGoesOn
PROPERTIES LostEnds ExitEnds
