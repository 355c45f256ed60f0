SPECIFICATION LivenessSpec
CONSTANTS
    e1 = e1
    e2 = e2
    skill = skill
    t1 = t1
    a1 = a1
    a2 = a2
    a3 = a3
    NoEndpoint = NoEndpoint
    NoAttempt = NoAttempt
    NoRequest = NoRequest
    Endpoints = {e1, e2}
    Capabilities = {skill}
    Tasks = {t1}
    AttemptRefs = {a1, a2}
    MessageRefs = {1, 2}
    Covers <- MCCovers
    CapabilitySets <- MCCapabilitySets
    Requests <- RoutedRequests
    Registrations = {"online"}
    Heartbeats = {"online", "offline"}
    Reports = {"in_progress", "canceled"}
    Commands = {"cancel"}
    HeartbeatTicks = 0
    LeaseTicks = 0
    MaxRedelivery = 0
    MaxCheckpoints = 1
    MaxFollowUps = 0
    MaxLines = 2
    LongLines = TRUE
INVARIANT ResultIsOfItsProcess
PROPERTIES WaitingWorkIsServed AbandonedWorkIsReleased CanceledExecutionReturns
