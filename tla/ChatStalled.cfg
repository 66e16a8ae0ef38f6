SPECIFICATION FairSpec
CONSTANTS
    Turn = {t1, t2}
    NoTurn = NoTurn
    MaxRetries = 1
    ReplyLen = 1
    MaxRefresh = 1
    RefreshToken = {"absent", "dead"}
PROPERTY TurnEnds
CHECK_DEADLOCK FALSE
