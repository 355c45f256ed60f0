SPECIFICATION FairSteadySpec
CONSTANTS
    e1 = e1
    e2 = e2
    skill = skill
    t1 = t1
    a1 = a1
    NoEndpoint = NoEndpoint
    NoAttempt = NoAttempt
    NoRequest = NoRequest
    Endpoints = {e1, e2}
    Me = e1
    Capabilities = {skill}
    Tasks = {t1}
    AttemptRefs = {a1}
    MessageRefs = {1}
    Covers <- MCCovers
    CapabilitySets <- MCCapabilitySets
    Skills <- MCSkills
    Requests <- PlainRequests
    Registrations = {"online"}
    Heartbeats = {"online"}
    Reports = {}
    Commands = {"cancel"}
    HeartbeatTicks = 0
    LeaseTicks = 2
    MaxProgress = 1
    MaxStrays = 1
    MaxRedelivery = 0
    MaxCheckpoints = 4
    MaxFollowUps = 0
INVARIANTS
    OutcomeIsTrue
    TimelyWorkerKeepsClaim
PROPERTY
    LostClaimIsAbandoned
