SPECIFICATION Spec
CONSTANTS
    Proc = {p1, p2}
    NoProc = NoProc
    PidOne = PidOne
    Kinds = {"python"}
    Replicas = TRUE
    Ttl = 6
    Interval = 2
    PutTimeout = 1
CHECK_DEADLOCK FALSE
INVARIANT RenewingHasEntry
