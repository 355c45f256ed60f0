SPECIFICATION PartsSpec
CONSTANTS
    e1 = e1
    skill = skill
    t1 = t1
    a1 = a1
    a2 = a2
    h1 = h1
    h2 = h2
    NoEndpoint = NoEndpoint
    NoAttempt = NoAttempt
    NoRequest = NoRequest
    Endpoints = {e1}
    Capabilities = {skill}
    Tasks = {t1}
    AttemptRefs = {a1, a2}
    MessageRefs = {1, 2}
    Handlers = {h1, h2}
    Offered = {"claim", "claim_next", "checkpoint", "refresh", "complete"}
    Covers <- MCCovers
    CapabilitySets <- MCCapabilitySets
    Requests <- ChainRequests
    Registrations = {"online"}
    Heartbeats = {"online"}
    Reports = {"in_progress", "blocked_missing_fields"}
    Commands = {"cancel", "retry", "replay"}
    HeartbeatTicks = 0
    LeaseTicks = 0
    MaxRedelivery = 1
    MaxCheckpoints = 1
    MaxFollowUps = 1
SYMMETRY StepsSymmetry
INVARIANTS CurrentAttemptLink StateIsBacked CompletedHasEvidence ReportedStateIsOnRecord
PROPERTY ImplementsHandoff
CHECK_DEADLOCK FALSE
