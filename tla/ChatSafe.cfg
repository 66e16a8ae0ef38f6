SPECIFICATION Spec
CONSTANTS
    Turn = {t1, t2, t3}
    NoTurn = NoTurn
    MaxRetries = 1
    ReplyLen = 1
    MaxRefresh = 1
    RefreshToken = {"absent", "dead", "live"}
SYMMETRY TurnSymmetry
INVARIANTS TypeOK InputLockedIffLive OwnBubbleOnly OneTerminalFrame
CHECK_DEADLOCK FALSE
