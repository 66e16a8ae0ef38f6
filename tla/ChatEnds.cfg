SPECIFICATION FairSpec
CONSTANTS
    Turn = {t1}
    NoTurn = NoTurn
    MaxRetries = 3
    ReplyLen = 3
    MaxRefresh = 1
    RefreshToken = {"absent", "dead"}
PROPERTY TurnEnds
CHECK_DEADLOCK FALSE
