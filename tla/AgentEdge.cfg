SPECIFICATION Spec
CONSTANTS
    c1 = c1
    c2 = c2
    c3 = c3
    Connectors = {c1, c2, c3}
    KindOf <- MCKindOf
    CanRefresh = {c1}
    HasTokenStore = {c1, c3}
    Openers = {o1, o2}
    MaxOpens = 2
    Servers = {s1, s2}
    McpTools = {x}
    NoServer = NoServer
    MaxManifests = 1
    oa = oa
    wh = wh
    ht = ht
    StoreTypes <- MCStoreTypes
    UnknownId = UnknownId
    Incomplete = {ht}
    Requests = {r1, r2}
    EventTypes = {e1}
    MaxGrants = 3
    MaxSubscribed = 1
    Instances = {i1, i2}
    Bridges = {b1, b2}
    PlainFrames = 4
    PluginFrames = 3
    Paths = {1, 2, 3}
    HiddenPaths = {2}
    SkillNames = {"n1", "n2"}
    Bodies = {"v1"}
    Bundles <- MCBundles
    MaxEdits = 1
    MaxScans = 1
    Texts = {"x"}
    NoText = NoText
    Pieces = {"f", "g", "a", "b"}
    Fragments <- MCFragments
    Fresh = Fresh
    WholeArgs <- MCWholeArgs
    Finishes = {"stop", "length", "tool_calls", "refusal"}
    NoFinish = NoFinish
    KnownFinish <- MCKnownFinish
    MaxReceived = 3
    Visits = {v1, v2}
    VisitTokens = {"t1", "t2"}
    NoVisitToken = "none"
    Accounts = {"u1"}
    Anonymous = "anonymous"
    FreeQuota = 1
SYMMETRY ServerSymmetry
CHECK_DEADLOCK FALSE
INVARIANTS EdgeTypeOK FailureIsolated ToolsOfConnected RefreshTokenLive BridgeWhole StreamFaithful GateFailsClosed
PROPERTIES ScanKeepsPrefix
