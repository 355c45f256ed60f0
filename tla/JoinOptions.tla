---------------------------- MODULE JoinOptions ----------------------------
(***************************************************************************)
(* How `tc-worker join` and `tc-worker setup` come from flags, from the    *)
(* environment, a saved config and what the machine offers to the settings *)
(* of a worker (tc-worker/join.go, config.go, join_wizard.go, join_tui.go, *)
(* server_discovery.go and cmd/tc-worker).                                 *)
(*                                                                         *)
(* Of the settings those are kept that depend on one another or on other   *)
(* processes; role, permission, paths and intervals are copied like them.  *)
(* The command of a backend's own CLI is written as the backend.           *)
(***************************************************************************)
EXTENDS Integers, Sequences

CONSTANTS Backends,       \* the backends, in the order in which they are looked for
          Installed,      \* those whose CLI is on PATH
          DefaultModel,   \* backend -> the model of its preset
          ModelChoices,   \* backend -> the models that the wizard offers
          Candidates,     \* server URLs, in the order in which discovery prefers them
          DefaultServer,
          InvalidServers, \* what is no absolute http(s) URL
          DefaultDir,     \* ~/.touch-connect/worker/skills
          ExamplesDir,    \* <workdir>/examples/skills if it exists, or blank
          DefaultCapabilities

Known == {Backends[i] : i \in DOMAIN Backends}

ASSUME JoinAssumption ==
    /\ Installed \subseteq Known
    /\ DefaultModel \in [Known -> STRING]
    /\ \A b \in Known : ModelChoices[b] \in Seq(STRING) \ {<<>>}

Blank == ""
AutoBackend == "auto"
Custom == "__custom__"
Setting == {"server", "backend", "command", "model", "endpoint", "dir", "capabilities"}
NoEndpointRef == <<Blank, 0>>
NoOptions == [server |-> Blank, backend |-> Blank, command |-> Blank, model |-> Blank,
              endpoint |-> NoEndpointRef, dir |-> Blank, capabilities |-> {}]

Default(value, fallback) == IF value = Blank THEN fallback ELSE value

-----------------------------------------------------------------------------
(* join.go, config.go.                                                     *)
DetectBackend ==
    LET found == {i \in DOMAIN Backends : Backends[i] \in Installed} IN
    IF found = {} THEN Blank
    ELSE Backends[CHOOSE i \in found : \A j \in found : i <= j]

\* JoinOptions.withDefaults.  An endpoint is named after backend, host and the
\* process that names it.
WithDefaults(o, pid) ==
    LET backend == IF o.backend \in {Blank, AutoBackend} THEN DetectBackend ELSE o.backend IN
    [o EXCEPT !.server = Default(@, DefaultServer), !.backend = backend,
              !.dir = Default(@, ExamplesDir),
              !.endpoint = IF @ = NoEndpointRef THEN <<backend, pid>> ELSE @]

\* What withDefaults refuses.
Acceptable(o, pid) ==
    LET accepted == WithDefaults(o, pid) IN
    /\ accepted.server \notin InvalidServers
    /\ accepted.backend # Blank
    /\ accepted.dir # Blank

WorkerConfigFromJoinOptions(o, pid) ==
    LET accepted == WithDefaults(o, pid) IN
    [accepted EXCEPT !.model = IF accepted.backend \in Known
                               THEN Default(@, DefaultModel[accepted.backend]) ELSE @]

\* WorkerConfig.withDefaults.
ConfigDefaults(c) ==
    [c EXCEPT !.server = Default(@, DefaultServer), !.backend = Default(@, AutoBackend),
              !.dir = Default(@, DefaultDir),
              !.capabilities = IF @ = {} THEN DefaultCapabilities ELSE @]

\* BuildJoinEnvironment, and what it refuses.
JoinEnvironment(o, pid) ==
    LET accepted == WithDefaults(o, pid) IN
    [accepted EXCEPT !.command = Default(@, accepted.backend),
                     !.model = Default(@, DefaultModel[accepted.backend])]

CanBuild(o, pid) ==
    LET accepted == WithDefaults(o, pid) IN
    /\ Acceptable(o, pid)
    /\ accepted.backend \in Known
    /\ accepted.command # Blank \/ accepted.backend \in Installed

-----------------------------------------------------------------------------
(* cmd/tc-worker.  An invocation: what the flags and the environment set,  *)
(* and how the command is to be run.                                       *)
Given(i) == i.flags \cup i.env

ShouldSetupBeforeJoin(i, configExists) ==
    /\ ~configExists
    /\ \/ i.setup
       \/ /\ ~i.wizard
          /\ i.flags = {}
          /\ i.env \cap {"backend", "command", "model", "dir"} = {}

ApplyJoinFlagOverrides(base, i) ==
    [s \in Setting |-> IF s \in Given(i) THEN i.options[s] ELSE base[s]]

\* The first candidate that answers /healthz as a tc-server.
DiscoverServer(ready, otherwise) ==
    LET answering == {k \in DOMAIN Candidates : Candidates[k] \in ready} IN
    IF answering = {} THEN otherwise
    ELSE Candidates[CHOOSE k \in answering : \A l \in answering : k <= l]

DiscoverJoinServer(base, i, ready) ==
    IF "server" \in Given(i) \/ base.server \notin {Blank, DefaultServer} THEN base
    ELSE [base EXCEPT !.server = DiscoverServer(ready, @)]

DiscoverSetupServer(base, i, ready) ==
    IF "server" \in Given(i) \/ base.server # Blank THEN base
    ELSE [base EXCEPT !.server = DiscoverServer(ready, @)]

ApplySetupDefaults(o) ==
    [o EXCEPT !.server = Default(@, DefaultServer), !.backend = Default(@, AutoBackend),
              !.capabilities = IF @ = {} THEN DefaultCapabilities ELSE @,
              !.dir = Default(@, DefaultDir)]

Interactive(i) == i.tty /\ ~i.yes

SetupChooses(o, i) ==
    /\ Interactive(i) \/ i.yes
    /\ o.command = Blank
    /\ o.backend \in {Blank, AutoBackend}

-----------------------------------------------------------------------------
(* The wizard.                                                             *)
Usable == SelectSeq(Backends, LAMBDA b : b \in Installed)

\* Mutant: the command is that of the first backend in the list.
FirstWizardResult(base, backend, model) ==
    [base EXCEPT !.backend = backend, !.model = model, !.command = Default(@, Usable[1])]

WizardResult(base, backend, model) ==
    [base EXCEPT !.backend = backend, !.model = model, !.command = Default(@, backend)]

\* The text wizard: what it may choose, typing `typed` for a custom model.
TextChoices(base, i, typed) ==
    LET Initial(b) == Default(base.model, ModelChoices[b][1])
        Chosen(b, k) == IF ModelChoices[b][k] # Custom THEN ModelChoices[b][k]
                        ELSE Default(typed, ModelChoices[b][1]) IN
    IF i.yes THEN {WizardResult(base, Usable[1], Initial(Usable[1]))}
    ELSE UNION {IF Len(ModelChoices[b]) = 1 THEN {WizardResult(base, b, Initial(b))}
                ELSE {WizardResult(base, b, Chosen(b, k)) : k \in DOMAIN ModelChoices[b]}
                   : b \in Installed}

\* The wizard on the screen.
Wizard == [screen : {"none", "backend", "model", "custom", "confirm"},
           worker : 1..Len(Backends), offered : Known, model : Nat \ {0},
           typed : STRING]

Offer(w, base) ==
    LET b == Usable[w.worker]
        same == {k \in DOMAIN ModelChoices[b] : ModelChoices[b][k] = base.model} IN
    [w EXCEPT !.offered = b,
              !.model = IF base.model = Blank \/ same = {} THEN 1
                        ELSE CHOOSE k \in same : \A l \in same : k <= l]

NoWizard == [screen |-> "none", worker |-> 1, offered |-> Backends[1], model |-> 1, typed |-> Blank]
OpenWizard(base) == Offer([NoWizard EXCEPT !.screen = "backend"], base)

WrapIndex(k, n) == ((k - 1) % n) + 1
Delta == [up |-> -1, down |-> 1]

UpdateNavigation(w, key, base) ==
    CASE key = "esc" /\ w.screen = "model" -> [w EXCEPT !.screen = "backend"]
      [] key = "esc" /\ w.screen = "confirm" -> [w EXCEPT !.screen = "model"]
      [] key \in DOMAIN Delta /\ w.screen = "backend" ->
            [w EXCEPT !.worker = WrapIndex(@ + Delta[key], Len(Usable))]
      [] key \in DOMAIN Delta /\ w.screen = "model" ->
            [w EXCEPT !.model = WrapIndex(@ + Delta[key], Len(ModelChoices[w.offered]))]
      [] key = "enter" /\ w.screen = "backend" -> Offer([w EXCEPT !.screen = "model"], base)
      [] key = "enter" /\ w.screen = "model" ->
            [w EXCEPT !.screen = IF ModelChoices[w.offered][w.model] = Custom
                                 THEN "custom" ELSE "confirm"]
      [] OTHER -> w

UpdateCustomModel(w, key, text) ==
    CASE key = "esc" -> [w EXCEPT !.screen = "model"]
      [] key = "enter" -> [w EXCEPT !.screen = "confirm"]
      [] key = "type" -> [w EXCEPT !.typed = text]
      [] OTHER -> w

ResolvedModel(w, base) ==
    LET choices == ModelChoices[w.offered]
        chosen  == choices[w.model] IN
    IF chosen = Custom THEN Default(w.typed, Default(choices[1], base.model))
    ELSE Default(chosen, base.model)
=============================================================================
