SPECIFICATION Spec
CONSTANTS
    Agent = {a1}
    Task = {t1, t2, t3}
    Client = {}
    Kind = {k1}
    Ops = {"append_soul", "flush", "flush_all"}
    PageSize = 1
    MaxRow = 3
SYMMETRY TaskSymmetry
INVARIANTS TypeOK SoulVersionsWellFormed
PROPERTIES SoulAppendOnly LedgerSpec
