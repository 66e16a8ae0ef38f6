SPECIFICATION Spec
CONSTANTS
    User = {u1}
    Email = {e1}
    Nick = {n1, n2}
    Task = {t1, t2}
    Object = {o1, o2, o3}
    None = None
    Ops = {"login", "update", "suspend"}
SYMMETRY Symmetries
VIEW LiveState
INVARIANT SuspensionSticks
