SPECIFICATION Spec
CONSTANTS
    Hooks = {h1, m}
    MetricsHook = m
    HookEvents = {e1, e2}
    MaxRuns = 2
    MaxChanges = 2
    ModelConfigs <- MCModelConfigs
    AnyProvider = AnyProvider
    MaxRegistered = 4
    MaxPicks = 4
    Chain <- MCChain
    GivenOuter = {429}
    DefaultCodes = {429, 503}
    StatusCodes = {429, 503}
    NoStatus = NoStatus
    MaxChunks = 1
    a1 = a1
    a2 = a2
    t1 = t1
    AgentConfigs <- MCAgentConfigs
    Tasks = {t1}
    NoTask = NoTask
    NoAgent = NoAgent
    Strategies = {"llm_classify", "unknown"}
    MaxAgents = 3
    k1 = k1
    k2 = k2
    Kinds <- MCKinds
    NoText = NoText
    NoCall = NoCall
    FadesAfter <- MCFadesAfter
    Preamble <- MCPreamble
    Clipped = {"z", "lengthy"}
    SummaryTok <- MCSummaryTok
    Unavailable = "unavailable"
    KeepRecent = 1
    MinToSummarize = 2
    WindowSize = 2
    Budget = 4
    MinRecent = 1
    ProtectRelevant = 1
    ProtectDuplicate = 1
    MaxSaid = 4
    MaxShrinks = 2
    Keys = {k1, k2}
    Ttls = {0, 1}
    Score <- MCScore
    HasEmbedder = TRUE
    SearchLimit = 2
    PrefixedKeys <- MCPrefixed
    ListLimits = {2}
    TopK = 2
    MaxWrites = 3
    MaxNow = 2
    MemAgents = {a1, a2}
    EventKinds = {e1, e2}
    AnyKind = AnyKind
    Limit = 1
    MaxAppends = 3
SYMMETRY EventSymmetry
CHECK_DEADLOCK FALSE
INVARIANTS CoreTypeOK OnionOrder ResultHonest RoundRobinFair FailoverExhausts FallbackOrder NothingLost TailVerbatim BudgetKept AnswersComplete WalkExact
PROPERTIES AppendKeepsRoutes TtlStoreSpec InMemoryLedger
