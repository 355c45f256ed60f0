SPECIFICATION Spec
CONSTANTS
    e1 = e1
    e2 = e2
    skill = skill
    t1 = t1
    a1 = a1
    a2 = a2
    a3 = a3
    NoEndpoint = NoEndpoint
    NoAttempt = NoAttempt
    NoRequest = NoRequest
    Endpoints = {e1}
    Capabilities = {skill}
    Tasks = {t1}
    AttemptRefs = {a1, a2, a3}
    MessageRefs = {1, 2}
    Covers <- MCCovers
    CapabilitySets <- MCCapabilitySets
    Requests <- ChainRequests
    Registrations = {"online", ""}
    Heartbeats = {"online", "offline"}
    Reports = {"in_progress", "blocked_missing_fields", "canceled"}
    Commands = {"cancel", "retry", "replay"}
    HeartbeatTicks = 0
    LeaseTicks = 1
    MaxRedelivery = 1
    MaxCheckpoints = 1
    MaxFollowUps = 1
SYMMETRY AttemptSymmetry
INVARIANTS TypeOK OrphanedIsFenced DependenciesCameFirst StoresAgree
PROPERTY ClosedStaysClosed
