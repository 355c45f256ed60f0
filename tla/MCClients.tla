----------------------------- MODULE MCClients -----------------------------
(***************************************************************************)
(* Instances for TLC of what surrounds the server: the clients that watch  *)
(* it (Views), the agents that speak A2A with it (A2A), the console of a   *)
(* worker (Console), the lineage that tc-control shows (Lineage), and the  *)
(* processes that share a home directory (Setup), alone, together or       *)
(* beside a running worker.  A behaviour is about one of them, its part.   *)
(***************************************************************************)
EXTENDS Views, A2A, Console, Setup, Lineage, TLC

CONSTANTS e1, skill, t1, t2, a1, a2, h1

VARIABLE part

\* Views: the ledger of one endpoint that stays online, as in MCHandoffSteps.
Ask(depends) ==
    [capability |-> skill, target |-> NoEndpoint, preferred |-> NoEndpoint,
     dependsOn |-> depends, task |-> t1]
MCCovers == {<<skill, skill>>}
MCCapabilitySets == {{skill}}
PlainRequests == {Ask({})}
MCFilters == {[task |-> AnyTask, capability |-> skill], [task |-> t2, capability |-> AnyCapability]}

LedgerInit ==
    /\ endpoints = [e \in Endpoints |->
           [conn |-> "online", beat |-> HeartbeatTicks, names |-> Capabilities]]
    /\ store = EmptyStore
    /\ calls = [h \in Handlers |-> Idle]

LedgerNext ==
    \/ \E h \in Handlers : Begin(h) \/ Proceed(h)
    \/ /\ \/ \E m \in MessageRefs, r \in Requests : IngressMessage(m, r)
          \/ ReconcileExpiredClaims
       /\ UNCHANGED calls
    \/ store' = TickStore(store) /\ CopiesTick /\ UNCHANGED endpoints

\* A2A: of the references that are chosen, one goes before all generated ones and
\* one is generated later.
MCTaskRef == <<10, 20>>

\* Requests that are in order, and one for each way in which they are not.
Says(value) == [key \in {"target_capability"} |-> value]
Nothing == [key \in {} |-> Blank]
Send == [version |-> "1.0", jsonrpc |-> "2.0", method |-> "SendMessage", params |-> "readable",
         id |-> TRUE, role |-> "ROLE_USER", parts |-> <<"blank", "text">>,
         task |-> NoRef, context |-> NoRef, ref |-> NoRef,
         metadata |-> Says("build"), own |-> Nothing]
Get == [Send EXCEPT !.method = "GetTask"]
MCAgentRequests ==
    {[Send EXCEPT !.task = t, !.ref = ref] : t \in TaskRefs \cup {NoRef}, ref \in {NoRef, 5, 20}}
    \cup {[Get EXCEPT !.task = t] : t \in TaskRefs \cup {NoRef}}
    \cup {[Send EXCEPT !.context = 90], [Get EXCEPT !.version = "0.3"],
          [Send EXCEPT !.own = [key \in {"capability", "target_capability"} |-> Blank]],
          [Send EXCEPT !.own = Says("paint")], [Send EXCEPT !.parts = <<"blank">>],
          [Send EXCEPT !.own = [key \in {"quality_gate"} |-> "open"]],
          [Send EXCEPT !.role = "ROLE_AGENT"], [Get EXCEPT !.jsonrpc = "other"],
          [Get EXCEPT !.method = "other"], [Get EXCEPT !.params = "unreadable"]}

Crowded == Cardinality(Present) > 1

\* Console: attempts come and change, the endpoint goes and comes back.
View(conn, attempts, artifacts) ==
    [endpoint |-> conn, attempts |-> attempts, artifacts |-> artifacts]
MCHistory == <<View("online", <<>>, 0), View("online", <<"active">>, 1),
               View("stale", <<"blocked">>, 3), View("absent", <<"active">>, 2)>>
MCTabs == <<"activity", "artifacts">>

\* Lineage: instants of two seconds, and with fractions that end in zeros.
MCInstants == {<<0>>, <<0, 5>>, <<0, 5, 5>>, <<1>>}

\* Setup: two backends, two places where a server may be.
MCBackends == <<"claude", "codex">>
MCDefaultModel == [claude |-> "opus", codex |-> ""]
MCModelChoices == [claude |-> <<"opus", Custom>>, codex |-> <<"gpt", Custom>>]
MCCandidates == <<"mdns", "local">>
MCSkillNames == [home |-> {}, examples |-> {"c"}, s1 |-> {"a"}, s2 |-> {"b"}]

Ordinary == [flags |-> {}, env |-> {}, options |-> NoOptions,
             setup |-> FALSE, wizard |-> FALSE, yes |-> FALSE, tty |-> TRUE]
Quick == [Ordinary EXCEPT !.yes = TRUE]
QuickCodex == [Quick EXCEPT !.flags = {"backend"}, !.options.backend = "codex"]
InExamples == [Quick EXCEPT !.flags = {"dir"}, !.options.dir = "examples"]
MCInvocations ==
    {Ordinary, Quick, QuickCodex, InExamples,
     [Ordinary EXCEPT !.flags = {"backend", "dir"}, !.options.backend = "codex", !.options.dir = "home"],
     [Ordinary EXCEPT !.wizard = TRUE, !.env = {"model"}, !.options.model = "mine"],
     [Ordinary EXCEPT !.wizard = TRUE, !.setup = TRUE],
     [Quick EXCEPT !.env = {"server", "command"}, !.options.server = "given", !.options.command = "own"]}

\* One process and every invocation, up to the start of the worker.
Alone ==
    /\ ProcNext(1) \/ Purge
    /\ procs'[1].pc # "config"

\* Two processes that answer every question with its default.
Shared ==
    /\ SetupNext /\ UNCHANGED registrars
    /\ \A p \in Procs :
          \/ procs'[p].pc = "idle"
          \/ /\ procs'[p].pc \notin {"wizard", "config"}
             /\ procs'[p].inv \in {Quick, QuickCodex}
             /\ procs'[p].options.server # "mdns"

\* One worker, and two processes that register skills meanwhile.
Working ==
    /\ ProcNext(1) \/ (\E r \in Registrars : RegistrarNext(r)) \/ Purge
    /\ procs'[1].inv \in {NoProcess.inv, Quick, InExamples}
    /\ procs'[1].pc # "wizard"
    /\ procs'[1].options.server # "mdns"

-----------------------------------------------------------------------------
ViewsVars == <<shot, watch, heard>>

ClientsInit ==
    /\ part \in {"watch", "a2a", "console", "lineage", "alone", "shared", "working"}
    /\ LedgerInit /\ ViewsInit /\ A2AInit /\ ConsoleInit /\ SetupInit /\ LineageInit
    /\ part # "watch" => watch.filter.task = AnyTask

ClientsNext ==
    /\ UNCHANGED part
    /\ \/ /\ part = "watch"
          /\ (LedgerNext /\ UNCHANGED ViewsVars) \/ WatchNext
          /\ UNCHANGED <<lineage, a2aVars, consoleVars, setupVars>>
       \/ /\ part = "a2a"
          /\ A2ANext
          /\ Crowded => ~UNCHANGED <<issued, tasks, produced>>
          /\ UNCHANGED <<lineage, ViewVars, consoleVars, setupVars>>
       \/ /\ part = "console"
          /\ ConsoleNext
          /\ UNCHANGED <<lineage, ViewVars, a2aVars, setupVars>>
       \/ /\ part = "lineage"
          /\ LineageNext
          /\ UNCHANGED <<ViewVars, a2aVars, consoleVars, setupVars>>
       \/ /\ \/ part = "alone" /\ Alone
             \/ part = "shared" /\ Shared
             \/ part = "working" /\ Working
          /\ UNCHANGED <<lineage, ViewVars, a2aVars, consoleVars>>

ClientsSpec == ClientsInit /\ [][ClientsNext]_<<part, lineage, ViewVars, a2aVars, consoleVars, setupVars>>

\* Bounds: one table is lost in a poll.  An A2A request that changes nothing is
\* sent to a ledger of one message at most and looked at no further; one of the
\* tasks is at work at a time, and with others beside it only on its way to a
\* completion or a dead letter, which beget messages; one artifact is made and
\* one reference named too early, as artifacts and tasks are judged one by one.
\* One process saves one config, two save two.
ClientsBound ==
    /\ Cardinality(watch.missing) <= 1
    /\ Crowded \/ (reply.code = 0 /\ reply.state \in {BlankText, "submitted"})
    /\ Cardinality({m \in Present : tasks[m].state # "available"}) <= 1
    /\ Crowded => \A m \in Present :
          tasks[m].state \notin {"processing", "input_required", "failed", "canceled"}
    /\ Cardinality(produced) <= 1 /\ Cardinality(foretold) <= 1
    /\ Cardinality(saved) <= IF part = "shared" THEN 2 ELSE 1

ClientsSymmetry == Permutations(AttemptRefs)
=============================================================================
