SPECIFICATION ExclusiveSpec
CONSTANTS
    e1 = e1
    e2 = e2
    skill = skill
    able = able
    other = other
    t1 = t1
    a1 = a1
    a2 = a2
    a3 = a3
    w1 = w1
    w2 = w2
    h1 = h1
    h2 = h2
    NoEndpoint = NoEndpoint
    NoAttempt = NoAttempt
    NoRequest = NoRequest
    NoWorker = NoWorker
    Endpoints = {e1}
    Capabilities = {skill, able, other}
    Tasks = {t1}
    AttemptRefs = {a1, a2, a3}
    MessageRefs = {1, 2}
    Workers = {w1, w2}
    Handlers = {h1, h2}
    Covers <- SameName
    CapabilitySets <- SkillSets
    Requests <- ChainRequests
    RefOf <- SharedRef
    Storages = {"memory", "sqlite"}
    Registrations = {"online"}
    Heartbeats = {"online", "offline"}
    Reports = {"in_progress", "blocked_missing_fields", "failed", "canceled"}
    Commands = {"cancel", "replay"}
    HeartbeatTicks = 0
    LeaseTicks = 1
    MaxRedelivery = 1
    MaxCheckpoints = 2
    MaxFollowUps = 1
SYMMETRY ExclusiveSymmetry
INVARIANTS SoleOwner OneWorkerPerEndpoint AnnouncedIsRouted
PROPERTIES CompletedStaysCompleted ImplementsWorkQueue AtomicUnlessOverlapped
