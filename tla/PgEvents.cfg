SPECIFICATION Spec
CONSTANTS
    Agent = {a1}
    Task = {t1, t2}
    Client = {c1}
    Kind = {k1, k2}
    Ops = {"append_event", "flush", "flush_all"}
    PageSize = 1
    MaxRow = 3
SYMMETRY TaskSymmetry
INVARIANTS WalkComplete FlushCountsExact
PROPERTIES EventIdsNeverReused
