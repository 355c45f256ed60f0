SPECIFICATION PartsSpec
CONSTANTS
    e1 = e1
    skill = skill
    t1 = t1
    a1 = a1
    a2 = a2
    h1 = h1
    h2 = h2
    NoEndpoint = NoEndpoint
    NoAttempt = NoAttempt
    NoRequest = NoRequest
    Endpoints = {e1}
    Capabilities = {skill}
    Tasks = {t1}
    AttemptRefs = {a1}
    MessageRefs = {1}
    Handlers = {h1, h2}
    Offered = {"claim", "checkpoint"}
    Covers <- MCCovers
    CapabilitySets <- MCCapabilitySets
    Requests <- ChainRequests
    Registrations = {"online"}
    Heartbeats = {"online"}
    Reports = {"validating"}
    Commands = {"cancel"}
    HeartbeatTicks = 0
    LeaseTicks = 1
    MaxRedelivery = 0
    MaxCheckpoints = 1
    MaxFollowUps = 0
SYMMETRY StepsSymmetry
PROPERTY CancelSticks
