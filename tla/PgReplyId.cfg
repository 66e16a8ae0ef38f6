SPECIFICATION Spec
CONSTANTS
    Agent = {a1}
    Task = {t1, t2}
    Client = {}
    Kind = {k1}
    Ops = {"append_event"}
    PageSize = 1
    MaxRow = 3
INVARIANTS ReplyNamesOwnEvent
