SPECIFICATION Spec
CONSTANTS
    Proc = {p1, p2}
    NoProc = NoProc
    PidOne = PidOne
    Kinds = {"java", "python", "tidy"}
    Replicas = FALSE
    Ttl = 6
    Interval = 2
    PutTimeout = 1
CHECK_DEADLOCK FALSE
SYMMETRY ProcSymmetry
INVARIANTS TypeOK RenewingIsDiscoverable NoGhost
