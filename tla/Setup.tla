------------------------------- MODULE Setup -------------------------------
(***************************************************************************)
(* The processes that share ~/.touch-connect: `tc-worker setup` and        *)
(* `tc-worker join`, which write and read the worker's config and its      *)
(* default SKILL.md, `tcctl skill register`, which rewrites the skill      *)
(* registry, and the running workers, which read the skills again with     *)
(* every heartbeat and advertise what they find.                           *)
(*                                                                         *)
(* Nothing locks these files.  os.WriteFile truncates and then writes, so  *)
(* a file is empty for a moment, for good where the process ends in        *)
(* between, and two writers may leave the tail of the longer text behind.  *)
(***************************************************************************)
EXTENDS JoinOptions

CONSTANTS Invocations,    \* the command lines and environments processes are started with
          Procs,          \* tc-worker processes: natural numbers, their pids
          Registrars,     \* `tcctl skill register` processes
          Skills,         \* the skills that they register
          SkillNames,     \* skill, or skills directory -> the capabilities it names
          RegisteredFirst,\* the skills in the registry to begin with
          TypedModels,    \* bound: what is typed where a model may be
          FallbackNames   \* the capabilities of runtime.DefaultConfig

Dirs == (DOMAIN SkillNames) \ Skills

ASSUME SetupAssumption ==
    /\ Procs \subseteq Nat \ {0}
    /\ RegisteredFirst \subseteq Skills
    /\ DefaultDir \in Dirs
    /\ ExamplesDir \in Dirs \cup {Blank}

VARIABLES config,     \* the config file
          markdown,   \* in each skills directory, local-ai-worker/SKILL.md
          registry,   \* the skill registry
          saved,      \* the configs that some process set out to save
          procs,      \* the tc-worker processes
          registrars  \* the `tcctl skill register` processes

homeFiles == <<config, markdown, registry, saved>>
setupVars == <<homeFiles, procs, registrars>>

NoFile == [is |-> "absent", value |-> {}]
Empty == [is |-> "empty", value |-> {}]
Torn == [is |-> "torn", value |-> {}]
Whole(v) == [is |-> "whole", value |-> v]

\* The second half of os.WriteFile: whole, or before the tail of what another
\* process has written meanwhile; lost if the file was removed.
Overlaps(file, v) ==
    file.is = "torn" \/ (file.is = "whole" /\ file.value # v)

Written(file, v, torn) ==
    IF file.is = "absent" THEN file ELSE IF torn THEN Torn ELSE Whole(v)

NoProcess == [pc |-> "idle", inv |-> CHOOSE i \in Invocations : TRUE, options |-> NoOptions,
              wizard |-> NoWizard, source |-> "none", loaded |-> NoOptions,
              names |-> {}, advertised |-> {}]
NoRegistrar == [pc |-> "idle", skills |-> {}]

SetupInit ==
    /\ config = NoFile
    /\ markdown = [d \in Dirs |-> NoFile]
    /\ registry = IF RegisteredFirst = {} THEN NoFile ELSE Whole(RegisteredFirst)
    /\ saved = {}
    /\ procs = [p \in Procs |-> NoProcess]
    /\ registrars = [r \in Registrars |-> NoRegistrar]

Is(p, pc) == procs[p].pc = pc
Become(p, q) == procs' = [procs EXCEPT ![p] = q]
Advance(p, pc, o) == Become(p, [procs[p] EXCEPT !.pc = pc, !.options = o])
Fail(p) == Become(p, NoProcess)
Touch(files) == UNCHANGED <<files, registrars>>

-----------------------------------------------------------------------------
(* Setup, alone or as the first run of join.                               *)
BeginSetup(p, i) ==
    /\ Is(p, "idle")
    /\ Become(p, [NoProcess EXCEPT !.pc = "discover", !.inv = i, !.source = "setup",
                                   !.options = i.options])
    /\ Touch(homeFiles)

BeginJoin(p, i) ==
    /\ Is(p, "idle")
    /\ LET q == [NoProcess EXCEPT !.inv = i, !.options = i.options] IN
       IF ShouldSetupBeforeJoin(i, config.is # "absent")
       THEN Become(p, [q EXCEPT !.pc = "discover", !.source = "first run"])
       ELSE IF config.is # "absent" /\ ~i.wizard
       THEN Become(p, [q EXCEPT !.pc = "load", !.source = "config"])
       ELSE Become(p, [q EXCEPT !.pc = "resolve", !.source = "flags"])
    /\ Touch(homeFiles)

\* With the server it finds and the defaults, setup goes to the wizard or on.
DiscoverForSetup(p, ready) ==
    LET i == procs[p].inv
        o == ApplySetupDefaults(DiscoverSetupServer(procs[p].options, i, ready)) IN
    /\ Is(p, "discover")
    /\ Advance(p, IF SetupChooses(o, i) THEN "choose" ELSE "persist", o)
    /\ Touch(homeFiles)

\* The wizard is that of setup until setup is done.
AfterWizard(p) ==
    IF procs[p].source = "flags" \/ procs[p].loaded # NoOptions THEN "build" ELSE "persist"

RunTextWizard(p, typed) ==
    /\ Is(p, "choose")
    /\ IF Installed = {} THEN Fail(p)
       ELSE \E o \in TextChoices(procs[p].options, procs[p].inv, typed) : Advance(p, AfterWizard(p), o)
    /\ Touch(homeFiles)

OpenJoinWizard(p) ==
    /\ Is(p, "choose")
    /\ Interactive(procs[p].inv)
    /\ Installed # {}
    /\ Become(p, [procs[p] EXCEPT !.pc = "wizard", !.wizard = OpenWizard(procs[p].options)])
    /\ Touch(homeFiles)

WizardKey(p, key, text) ==
    LET w == procs[p].wizard
        o == procs[p].options IN
    /\ Is(p, "wizard")
    /\ IF w.screen = "confirm" /\ key = "enter"
       THEN Become(p, [procs[p] EXCEPT
                !.pc = AfterWizard(p), !.wizard = NoWizard,
                !.options = WizardResult(o, Usable[w.worker], ResolvedModel(w, o))])
       ELSE Become(p, [procs[p] EXCEPT !.wizard =
                IF w.screen = "custom" THEN UpdateCustomModel(w, key, text)
                ELSE UpdateNavigation(w, key, o)])
    /\ Touch(homeFiles)

\* persistWorkerConfig: the default skill, unless there is one, then the config.
EnsureSkill(p) ==
    LET c == WorkerConfigFromJoinOptions(procs[p].options, p) IN
    /\ Is(p, "persist")
    /\ IF ~Acceptable(procs[p].options, p) THEN Fail(p) /\ UNCHANGED markdown
       ELSE IF markdown[c.dir].is # "absent" THEN Advance(p, "save", c) /\ UNCHANGED markdown
       ELSE /\ Advance(p, "skill", c)
            /\ markdown' = [markdown EXCEPT ![c.dir] = Empty]
    /\ Touch(<<config, registry, saved>>)

WriteSkill(p) ==
    LET c == procs[p].options IN
    /\ Is(p, "skill")
    /\ markdown' = [markdown EXCEPT ![c.dir] = IF @ = NoFile THEN @ ELSE Whole(c.capabilities)]
    /\ Advance(p, "save", c)
    /\ Touch(<<config, registry, saved>>)

TruncateConfig(p) ==
    /\ Is(p, "save")
    /\ config' = Empty
    /\ saved' = saved \cup {ConfigDefaults(procs[p].options)}
    /\ Advance(p, "write", ConfigDefaults(procs[p].options))
    /\ Touch(<<markdown, registry>>)

WriteConfig(p) ==
    /\ Is(p, "write")
    /\ \E torn \in {FALSE, Overlaps(config, procs[p].options)} :
          config' = Written(config, procs[p].options, torn)
    /\ IF procs[p].source = "setup" THEN Fail(p)
       ELSE Become(p, [procs[p] EXCEPT !.pc = "resolve", !.loaded = procs[p].options])
    /\ Touch(<<markdown, registry, saved>>)

-----------------------------------------------------------------------------
(* Join.                                                                   *)

\* Mutant: a config that does not parse counts as one that says nothing.
LoadLeniently(p) ==
    LET c == ConfigDefaults(IF config.is = "whole" THEN config.value ELSE NoOptions) IN
    /\ Is(p, "load")
    /\ IF config.is = "absent" THEN Fail(p)
       ELSE Become(p, [procs[p] EXCEPT !.pc = "resolve", !.options = c, !.loaded = c])
    /\ Touch(homeFiles)

\* LoadWorkerConfig: one that does not parse is backed up, and join ends.
LoadConfig(p) ==
    LET c == ConfigDefaults(config.value) IN
    /\ Is(p, "load")
    /\ IF config.is # "whole" THEN Fail(p)
       ELSE Become(p, [procs[p] EXCEPT !.pc = "resolve", !.options = c, !.loaded = c])
    /\ Touch(homeFiles)

ResolveJoinOptions(p, ready) ==
    LET i == procs[p].inv
        base == IF procs[p].source = "flags" THEN i.options ELSE procs[p].loaded IN
    /\ Is(p, "resolve")
    /\ Advance(p, IF i.wizard THEN "choose" ELSE "build",
               DiscoverJoinServer(ApplyJoinFlagOverrides(base, i), i, ready))
    /\ Touch(homeFiles)

BuildJoinEnvironment(p) ==
    /\ Is(p, "build")
    /\ IF CanBuild(procs[p].options, p)
       THEN Advance(p, "start", JoinEnvironment(procs[p].options, p)) ELSE Fail(p)
    /\ Touch(homeFiles)

-----------------------------------------------------------------------------
(* The worker and its skills.                                              *)
RegistryLoads == registry.is \in {"absent", "whole"}

\* A directory that is not there, or a SKILL.md without a body, is an error.
DirLoads(d) ==
    /\ markdown[d].is # "empty"
    /\ markdown[d].is = "absent" => SkillNames[d] # {}

SkillsLoad(d) == RegistryLoads /\ DirLoads(d)
NamesOfSkills(d) ==
    UNION {SkillNames[s] : s \in registry.value} \cup SkillNames[d] \cup markdown[d].value

\* ExecutorFromEnv.
LoadSkills(p) ==
    /\ Is(p, "start")
    /\ IF SkillsLoad(procs[p].options.dir) THEN Advance(p, "config", procs[p].options) ELSE Fail(p)
    /\ Touch(homeFiles)

\* ConfigFromEnv reads the skills a second time, and swallows the error.
ConfigFromEnv(p) ==
    LET o == procs[p].options IN
    /\ Is(p, "config")
    /\ Become(p, [procs[p] EXCEPT !.pc = "register",
           !.names = IF o.capabilities # {} THEN o.capabilities
                     ELSE IF SkillsLoad(o.dir) THEN NamesOfSkills(o.dir) ELSE FallbackNames])
    /\ Touch(homeFiles)

\* Mutant: a registry that does not parse counts as an empty one.
RefreshLeniently(q) == [q EXCEPT !.names = NamesOfSkills(q.options.dir)]

\* refreshDynamicCapabilities: skills that do not load change nothing.
Refresh(q) ==
    IF SkillsLoad(q.options.dir) THEN [q EXCEPT !.names = NamesOfSkills(q.options.dir)] ELSE q

\* Register is answered with the names of the config; the heartbeat after it
\* advertises those of the skills.
RegisterWorker(p) ==
    /\ Is(p, "register")
    /\ Become(p, [procs[p] EXCEPT !.pc = "first beat", !.advertised = procs[p].names])
    /\ Touch(homeFiles)

\* A heartbeat; the worker keeps the new names before the server has them.
Heartbeat(p) ==
    LET q == Refresh(procs[p]) IN
    /\ procs[p].pc \in {"first beat", "running"}
    /\ Become(p, [q EXCEPT !.pc = "running", !.advertised = q.names])
    /\ Touch(homeFiles)

\* An error, a signal or the end of the machine, at any moment.
Ends(p) ==
    /\ ~Is(p, "idle")
    /\ Fail(p)
    /\ Touch(homeFiles)

-----------------------------------------------------------------------------
(* tcctl skill register: LoadRegistry, Upsert, SaveRegistry.               *)
LoadRegistry(r, s) ==
    /\ registrars[r].pc = "idle"
    /\ RegistryLoads
    /\ registrars' = [registrars EXCEPT ![r] = [pc |-> "save", skills |-> registry.value \cup {s}]]
    /\ UNCHANGED <<homeFiles, procs>>

TruncateRegistry(r) ==
    /\ registrars[r].pc = "save"
    /\ registry' = Empty
    /\ registrars' = [registrars EXCEPT ![r].pc = "write"]
    /\ UNCHANGED <<config, markdown, saved, procs>>

WriteRegistry(r) ==
    /\ registrars[r].pc = "write"
    /\ \E torn \in {FALSE, Overlaps(registry, registrars[r].skills)} :
          registry' = Written(registry, registrars[r].skills, torn)
    /\ registrars' = [registrars EXCEPT ![r] = NoRegistrar]
    /\ UNCHANGED <<config, markdown, saved, procs>>

RegistrarEnds(r) ==
    /\ registrars[r].pc # "idle"
    /\ registrars' = [registrars EXCEPT ![r] = NoRegistrar]
    /\ UNCHANGED <<homeFiles, procs>>

\* tc-worker uninstall --purge, as far as it comes.
Purge ==
    /\ \E files \in SUBSET {"config", "skill"} :
          /\ config' = IF "config" \in files THEN NoFile ELSE config
          /\ markdown' = IF "skill" \in files THEN [markdown EXCEPT ![DefaultDir] = NoFile] ELSE markdown
    /\ UNCHANGED <<registry, saved, procs, registrars>>

-----------------------------------------------------------------------------
SetupSteps(p) ==
    \/ \E ready \in SUBSET {Candidates[k] : k \in DOMAIN Candidates} :
          DiscoverForSetup(p, ready) \/ ResolveJoinOptions(p, ready)
    \/ \E typed \in TypedModels : RunTextWizard(p, typed)
    \/ OpenJoinWizard(p)
    \/ \E key \in {"up", "down", "enter", "esc"} : WizardKey(p, key, Blank)
    \/ \E text \in TypedModels : WizardKey(p, "type", text)
    \/ EnsureSkill(p) \/ WriteSkill(p) \/ TruncateConfig(p) \/ WriteConfig(p)
    \/ LoadConfig(p) \/ BuildJoinEnvironment(p)

WorkerSteps(p) ==
    \/ LoadSkills(p) \/ ConfigFromEnv(p) \/ RegisterWorker(p) \/ Heartbeat(p) \/ Ends(p)

ProcNext(p) ==
    \/ \E i \in Invocations : BeginSetup(p, i) \/ BeginJoin(p, i)
    \/ SetupSteps(p) \/ WorkerSteps(p)

RegistrarNext(r) ==
    \/ \E s \in Skills : LoadRegistry(r, s)
    \/ TruncateRegistry(r) \/ WriteRegistry(r) \/ RegistrarEnds(r)

SetupNext ==
    \/ \E p \in Procs : ProcNext(p)
    \/ \E r \in Registrars : RegistrarNext(r)
    \/ Purge

SetupSpec == SetupInit /\ [][SetupNext]_setupVars

-----------------------------------------------------------------------------
Started(p) == procs[p].pc \in {"start", "config", "register", "first beat", "running"}

\* Whatever setups overlap, crash half way or are purged meanwhile, a worker
\* starts from a config only if one setup set out to save that very config:
\* never from an empty, torn or defaulted one.
StartsAsConfigured ==
    \A p \in Procs : Started(p) /\ procs[p].source # "flags" => procs[p].loaded \in saved

\* A worker runs the CLI of the backend it names, whether that came from a
\* wizard, a saved config or flags.  Excepted are a command that was given, and
\* a saved config whose backend is overridden, by a flag or by the second wizard
\* of `join --setup --wizard`: its command stays that of the other backend.
RunsItsBackend ==
    \A p \in Procs :
        LET o == procs[p].options
            i == procs[p].inv IN
        (/\ Started(p)
         /\ o.command \in Known
         /\ "backend" \notin Given(i)
         /\ ~(i.setup /\ i.wizard)) => o.command = o.backend

\* Registering a skill never takes another one from the workers: while the
\* registry is rewritten, torn, or left empty by a crash, a worker goes on
\* advertising the capabilities of the skills that were registered before, or
\* those it was configured with.
SkillsStayAdvertised ==
    \A p \in Procs :
        Is(p, "running") =>
            \/ \A s \in RegisteredFirst : SkillNames[s] \subseteq procs[p].advertised
            \/ procs[p].advertised \in {procs[p].options.capabilities, FallbackNames}
=============================================================================
