SPECIFICATION FairSpec
CONSTANTS
    e1 = e1
    e2 = e2
    skill = skill
    t1 = t1
    a1 = a1
    a2 = a2
    a3 = a3
    NoEndpoint = NoEndpoint
    NoAttempt = NoAttempt
    NoRequest = NoRequest
    Endpoints = {e1}
    Capabilities = {skill}
    Tasks = {t1}
    AttemptRefs = {a1, a2}
    MessageRefs = {1}
    Covers <- MCCovers
    CapabilitySets <- MCCapabilitySets
    Requests <- PlainRequests
    Registrations = {"online"}
    Heartbeats = {"online"}
    Reports = {"in_progress", "blocked_missing_fields", "canceled"}
    Commands = {"retry"}
    HeartbeatTicks = 0
    LeaseTicks = 0
    MaxRedelivery = 1
    MaxCheckpoints = 2
    MaxFollowUps = 0
PROPERTY AbandonedWorkIsReleased
