SPECIFICATION OnlineSpec
CONSTANTS
    e1 = e1
    e2 = e2
    able = able
    other = other
    t1 = t1
    a1 = a1
    a2 = a2
    h1 = h1
    h2 = h2
    s1 = s1
    s2 = s2
    field = field
    NoEndpoint = NoEndpoint
    NoAttempt = NoAttempt
    NoRequest = NoRequest
    NoPolicy = NoPolicy
    Endpoints = {e1, e2}
    Capabilities = {able, other}
    Tasks = {t1}
    AttemptRefs = {a1, a2}
    MessageRefs = {1, 2}
    Handlers = {h1, h2}
    Fields = {field}
    Subjects = {s1, s2}
    Covers <- MCCovers
    CapabilitySets <- MCCapabilitySets
    SubjectOf <- MCSubjectOf
    Requests <- MCRequests
    Qualities <- MCQualities
    Registrations = {"online"}
    Heartbeats = {"online"}
    Reports = {"failed"}
    Commands = {}
    HeartbeatTicks = 0
    LeaseTicks = 0
    ConfiguredBatch = 2
    ConfiguredMaxDeliver = 2
    MaxRedelivery = 1
    MaxCheckpoints = 1
    MaxFollowUps = 1
INVARIANTS
    AckedIsSettled
    OneHolderPerDelivery
    BrokerFollowsLedger
SYMMETRY DeliverySymmetry
CHECK_DEADLOCK FALSE
CONSTRAINT SmallInstance
