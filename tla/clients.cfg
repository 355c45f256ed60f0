SPECIFICATION ClientsSpec
CONSTANTS
    e1 = e1
    skill = skill
    t1 = t1
    t2 = t2
    a1 = a1
    a2 = a2
    h1 = h1
    NoEndpoint = NoEndpoint
    NoAttempt = NoAttempt
    NoRequest = NoRequest
    AnyTask = AnyTask
    AnyCapability = AnyCapability
    Endpoints = {e1}
    Capabilities = {skill}
    Tasks = {t1, t2}
    AttemptRefs = {a1, a2}
    MessageRefs = {1}
    Handlers = {h1}
    Offered = {"claim", "checkpoint", "complete"}
    Covers <- MCCovers
    CapabilitySets <- MCCapabilitySets
    Requests <- PlainRequests
    Registrations = {"online"}
    Heartbeats = {"online"}
    Reports = {}
    Commands = {}
    HeartbeatTicks = 0
    LeaseTicks = 0
    MaxRedelivery = 1
    MaxCheckpoints = 1
    MaxFollowUps = 0
    Filters <- MCFilters
    AgentRequests <- MCAgentRequests
    MaxTasks = 2
    TaskRef <- MCTaskRef
    ChosenRefs = {5, 20}
    Contexts = {90}
    Routed = {"build"}
    History <- MCHistory
    Tabs <- MCTabs
    Page = 2
    ViewerLines = 3
    MaxPolls = 2
    Backends <- MCBackends
    Installed = {"claude", "codex"}
    DefaultModel <- MCDefaultModel
    ModelChoices <- MCModelChoices
    Candidates <- MCCandidates
    DefaultServer = "local"
    InvalidServers = {"bad"}
    DefaultDir = "home"
    ExamplesDir = "examples"
    DefaultCapabilities = {"d"}
    Invocations <- MCInvocations
    Procs = {1, 2}
    Registrars = {1, 2}
    Skills = {"s1", "s2"}
    SkillNames <- MCSkillNames
    RegisteredFirst = {"s1"}
    TypedModels = {"", "mine"}
    FallbackNames = {"z"}
    Versions = {1, 2, 3}
    Instants <- MCInstants
SYMMETRY ClientsSymmetry
CONSTRAINT ClientsBound
INVARIANTS SnapshotIsClosed ClientIsCurrent EventsAreRooted TaskStaysOwn LineageIsFamily
    QuitsWithWorker ShowsOneView StartsAsConfigured RunsItsBackend SkillsStayAdvertised
CHECK_DEADLOCK FALSE
