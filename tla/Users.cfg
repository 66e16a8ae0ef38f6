SPECIFICATION Spec
CONSTANTS
    User = {u1, u2}
    Email = {e1}
    Nick = {n1}
    Task = {t1, t2}
    Object = {o1, o2, o3}
    None = None
    Ops = {"login", "create", "get", "update", "suspend"}
SYMMETRY Symmetries
VIEW LiveState
INVARIANTS TypeOK EmailUnique TokenSubjectPersisted
