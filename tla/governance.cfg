SPECIFICATION PartsSpec
CONSTANTS
    e1 = e1
    skill = skill
    t1 = t1
    a1 = a1
    a2 = a2
    r1 = r1
    r2 = r2
    x1 = x1
    x2 = x2
    f1 = f1
    k1 = k1
    yes = yes
    no = no
    c1 = c1
    c2 = c2
    None = None
    NoEndpoint = NoEndpoint
    NoAttempt = NoAttempt
    NoRequest = NoRequest
    Endpoints = {e1}
    Capabilities = {skill}
    Tasks = {t1}
    AttemptRefs = {a1, a2}
    MessageRefs = {1, 2}
    VersionRefs = {r1, r2}
    ApprovalRefs = {r1, r2}
    EffectRefs = {x1, x2}
    Finals = {f1}
    Keys = {k1}
    Hashes = {yes, no}
    Clerks = {c1, c2}
    Covers <- MCCovers
    CapabilitySets <- MCCapabilitySets
    Requests <- PlainRequests
    Registrations = {"online"}
    Heartbeats = {"online"}
    Reports = {"in_progress"}
    Commands = {}
    HeartbeatTicks = 0
    LeaseTicks = 0
    Decisions = {"approved", "rejected"}
    ApprovalTicks = 1
    MaxRedelivery = 1
    MaxCheckpoints = 1
    MaxFollowUps = 0
INVARIANTS LineageIsGrounded ResumedArtifactsAreOfMessage EffectIsAuthorised OneExecutionPerKey
SYMMETRY GovernanceSymmetry
CHECK_DEADLOCK FALSE
