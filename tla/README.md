# TLA+ verification of touch-connect

touch-connect lets agents hand work to one another. A sender submits a message
with a required capability; a worker that advertised it claims the message
under a lease, checkpoints its progress, and completes it, possibly with
follow-up messages. If it disappears, another worker takes over. This
directory holds the TLA+ modules that model that protocol, the TLC
configurations that check them, and the theorems TLAPS proves about them.

Paths of the code below are relative to `src/`; `app/` stands for
`src/tc-server/internal/application/`.

## The system

| component | state it keeps | operations | meets the others by |
|---|---|---|---|
| routing rules (`tc-server/internal/domain/routing.go`) | none | which endpoint may see, and now claim, a message; are its dependencies complete | called by the service and both stores |
| endpoint registry (`app/service.go`) | endpoint, connection state, last heartbeat, capabilities | register, heartbeat, advertise | read by ingress and by every claim |
| message ledger (`infrastructure/memory`, `infrastructure/sqlite`) | messages, attempts, checkpoints, dead letters, decisions, artifacts | save, update, claim, claim next, reconcile; each atomic | called by the service, several times per request |
| handoff service (`app/service.go`, `control_commands.go`) | none of its own | ingress, claim, checkpoint, lease refresh, complete, cancel, retry, replay | HTTP requests, each in a goroutine, with no lock over a request |
| tc-server process (`server.go`) | timers | a loop that reconciles expired claims | calls the service |
| artifacts, approvals, side effects, readback (`app/*_service.go`) | artifact versions, finalizations, decisions, executions | register, finalize, decide, start, complete | attached to a live attempt |
| quality gate (`internal/communication/quality`) | a policy | judge a message at ingress | called by the service before a message is saved |
| JetStream adapter (`infrastructure/jetstream`) | pending deliveries, leases | publish, fetch, ack, nak | a second way to claim; `tc-server` does not connect it |
| A2A adapter (`infrastructure/a2a`) | none | submit messages and show the ledger as A2A tasks | the service, and its snapshots |
| governance read model (`internal/communication/governance`) | none | lineage of an artifact, chain of an approval | tc-control, over a snapshot |
| worker runtime (`tc-worker/internal/runtime`) | the claim it works on, a lease keeper, a heartbeat loop, a progress reporter | register, poll, ack, execute, checkpoint, complete | an HTTP client of the server, several goroutines |
| worker executors (same directory) | a child process, or an HTTP request | execute one message | called by the runtime, canceled by its keeper |
| worker setup (`tc-worker/join*.go`, `config.go`, `cmd/tc-worker`) | a config file, a default skill | setup, join, their wizards | files that several processes share |
| worker console (`tc-worker/worker_status_tui.go`) | what it shows and has selected | poll, keys, quit | beside the runtime, over a context; reads the server |
| skills (`internal/communication/skills`) | a registry file, skill directories | register, load | tcctl writes it, workers reload it with each heartbeat |
| tc-control (`tc-control`) | the records each event stream remembers | event stream, lineage and other queries, proxied commands | polls the server's snapshot |
| tcctl (`tcctl`) | what a watch remembers | watch, tail, register a skill, one-shot commands | reads tc-control |
| discovery, bridge | none | find a server, rewrite a payload | the worker's setup, its executors |

What is hard in it:

* **Interleaving.** A request is a chain of separate store calls, and requests
  run at once. Handlers write back whole records that they read some calls
  earlier, so one handler may undo what another did in between.
* **Leases.** Ownership ends by the clock. A claim, a takeover, the reconcile
  loop, a late checkpoint, a refresh and a completion all race at the deadline,
  and four comparisons must agree on who owns the deadline itself.
* **Legal sequences.** Workers may report any attempt state; operators may
  cancel, retry and replay whenever they like; a task can be reopened after its
  dependents started.
* **Limits.** A message is redelivered at most `MaxRedelivery` times and is then
  dead-lettered; each path that takes over a message has to check.
* **Crashes.** On sqlite the ledger outlives the requests in flight; a config, a
  skill or a registry that was being written is left empty or torn.
* **Two records of one delivery.** A broker redelivers by its own clock and
  count, beside the ledger's leases and redelivery limit.
* **Child processes.** An executor's timeout, its child's exit, the output still
  in the pipe and a descendant that keeps it open race each other.
* **Polling.** Watches and the console compare snapshots that skip states, may be
  of several moments, and may arrive out of order.
* **Two stores.** The claim rules are written as Go maps and again as SQL.

What makes it correct, by component:

* *registry*: a stale or offline endpoint claims nothing; a message keeps to its
  target, and to its preferred endpoint only while that one is online; an endpoint
  ref is one process's (`OneWorkerPerEndpoint`), which is routed by what it said
  of itself (`AnnouncedIsRouted`).
* *ledger*: a message and the attempt it points to agree (`CurrentAttemptLink`);
  a state that promises an attempt or a dead letter has one (`StateIsBacked`);
  reconcile and dead-lettering fence the owner (`OrphanedIsFenced`); the two
  stores do the same (`StoresAgree`).
* *service*: one accepted owner per message (`SoleOwner`); closed stays closed;
  completion rests on a checkpoint; work starts in dependency order; abandoned
  work is released; waiting work is served.
* *delivery*: only settled work is acked (`AckedIsSettled`), a delivery has one
  holder, the broker holds only what was judged and saved.
* *executors*: an execution ends (`CanceledExecutionReturns`), and its result
  tells of its own process (`ResultIsOfItsProcess`).
* *views*: a client is told each change that was seen, once and in an order it can
  follow (`ClientIsCurrent`, `EventsAreRooted`); a lineage is the whole family of
  what was asked for; an agent's task stays its own.
* *worker setup and console*: a worker starts only from a config that somebody
  saved whole, runs the CLI of its backend, keeps its skills, and is never left
  behind by its console.

`PROJECT.json` lists every component with what is left out of it, and the
hazards at their lines.

## The modules

```
Routing                  pure predicates
  EndpointRegistry       + the registry, and time
    RegistrySteps        its handlers call by call, and the workers that send them
      RegistryProofs       theorems about RegistrySteps
    LedgerStore          + the ledger as functions from store to store
      Handoff            + every request as one atomic step, properties
        HandoffRefinement    implements WorkQueue (the abstract queue)
        HandoffSteps     every request as the chain of its store calls, crashes
          HandoffSerial      implements Handoff when requests do not overlap
        HandoffStores    memory store and SQL store side by side
          SqliteStore        the SQL of infrastructure/sqlite/claim.go
        Governance       + artifacts, approvals and side effects, call by call
        Delivery         + ingress and claim-next through a broker
          QualityGate        the verdict on a message (pure)
        Worker           + one worker process and its goroutines over HTTP
        HandoffSteps
          Views              snapshots, event streams and watches over it
        HandoffProofs    the ledger's operations; links, states, evidence;
                         fencing, one owner, what is closed stays closed
          WorkerProofs       theorems about Worker
          StepsProofs        theorems about HandoffSteps
            RefinementProofs   WorkQueue, the two stores, and HandoffSteps served
                               serially is Handoff
            ClientsProofs      theorems about Views, Execution, Console, Setup, A2A
          GovernanceProofs   theorems about Governance
          DeliveryProofs     theorems about Delivery
Execution                one execution and its child process
A2A                      agents' requests and the tasks they see
Lineage                  the lineage view of artifacts
Console                  the worker's terminal console
JoinOptions              how settings come about (operators, and the wizard)
  Setup                  + the processes that share a home directory
MCHandoff, MCHandoffSteps, MCGovernance, MCWorker, MCDelivery   instances for TLC
MCExclusive (MCHandoff, RegistrySteps)
MCLiveness (MCHandoff, Execution), MCClients (Views, A2A, Lineage, Console, Setup)
```

**Routing, EndpointRegistry.** A capability name is opaque: `Covers` holds the
pairs that `capabilityMatches` accepts, wildcards included. Time is what is
left of it: `beat` and `lease` count the ticks to a deadline, 0 at the deadline
and `Expired` (-1) strictly after it, which is what the code's `now.After` and
its SQL comparisons can tell apart. A tick lowers all of them together.

**RegistrySteps.** Worker processes that may have one endpoint ref in their
config: an old one and its successor, or two on the default config. `workers[w]`
is the place in `Run` where a process stands, as far as the registry sees it:
registering, the heartbeat and the advertisement that complete it, heartbeats
that first reload the skills, the offline heartbeat at the end. It waits for one
request at a time. `requests[h]` is a request the server handles, as its store
calls: read the endpoint, decide with the time it is then, write the record
back; a capability update is one call of the memory store and two of sqlite's.
A request whose sender gave up - canceled, timed out, disconnected, crashed -
is served all the same (the handlers do not look at its context), or lost before
it arrives. `copy` ages like the endpoints. A restart of the server ends what it
was serving, and on the memory store forgets the registry. `current`, `holds`
and `alone` are histories for the properties; no action reads them. Health and
version requests, the progress a heartbeat carries and errors of the database
are left out.

**LedgerStore.** Each store method that runs under the mutex is an operator from
a store to a store, so a handler is built from the same operators whether it is
one step or many. A message is its state, attempt and redelivery count; what
routing reads of it is fixed at ingress and is kept apart in `requests`. Of an
attempt's checkpoints the model keeps how many there are and which states they
reported. `ClaimMessageStore` follows `ClaimMessage` branch by branch: claim
what is available, take over what expired, dead-letter what was redelivered too
often. `ReconcileStore` orphans the owners of all expired claims.

**Handoff.** One action per request, with every store call it makes. A refused
request changes nothing and is no step. A completion takes any number of
follow-ups up to `MaxFollowUps`; the code submits them one by one and stops at
the first that is refused, hence any set of accepted ones.

**HandoffSteps.** `calls[h]` is the request a handler serves: `pc` says which
store call comes next, `att`, `msg` and `todo` are the copies it holds. Each
store call is a step. `Crash` forgets the requests in flight and keeps the
ledger. Ingress, replay and registration decide under the store's own check and
stay single steps; so do the reconcile loop and time.

**SqliteStore, HandoffStores.** The SQL of a claim reads and writes columns;
`SqliteStore` states what its transactions do to the same store, and
`StoresAgree` compares the two on every reachable ledger and every claim that
could come next.

**WorkQueue.** What a sender and an operator need to know: a message is
`unsent`, `waiting`, `owned`, `parked`, `buried` or `done`, has a number of the
deliveries lost so far, and moves only as `Submit`, `Grant`, `Lose`, `Finish`,
`Park`, `Bury` and `Keep` say. `HandoffRefinement` maps a ledger to it.

**Governance.** The records around an attempt. `versions` holds artifact
versions with the versions they are based on, `cites[a]` what the latest
checkpoint of attempt `a` names (what a takeover hands to the next owner),
`finals` the finalizations, `approvals` the decisions with the ticks to their
expiry, `effects` the executions of side effects with their key. A clerk is a
request in progress: it reads the attempt, then the decision, then saves, and
anything may happen in between. Hashes, keys and refs are opaque.

**Worker.** `Run` of `tc-worker/internal/runtime` as four threads: the
processing loop, the lease keeper, the progress reporter and the heartbeat
loop. `calls[t]` is the request thread `t` waits for. A request is served as an
action of `Handoff`, refused, or its connection breaks. What nobody waits for
any longer - after a broken connection, a canceled context or the death of the
process - is lost or joins `strays`, which the server may serve later. `last`
is the `ProcessResult` of the latest claim: `result` is what the execution came
to, `outcome` what the loop was told. `prompt` records whether the worker's own
calls were answered in time; time itself is never restricted.

**QualityGate.** `ValidateMessageWithGate` as an operator from what a policy
looks for in a message to the violations and the verdict, defaults included.

**Delivery.** Ingress is four steps (judge, save the decision, save the message,
publish), each of which may be the last. Claim-next over the adapter fetches,
tracks the delivery as pending, checks it against the ledger, claims, and naks
or acks what it cannot give out; a terminal checkpoint acks. `stream` and the
consumer are the broker, an external part: it redelivers when AckWait has run
out, at most `MaxDeliver` times. An ack or a nak may fail, which leaves the
delivery pending; a restart of the server empties the pending table.

**Execution.** An execution under each of the four executors, plain or inside
the skill executor. `child` is the process: what it wrote, whether it ignores
SIGTERM, its exit code, the descendant that holds its output. For an AI CLI the
scanner, `Wait` and the timeout are steps of their own, and what `Wait` closes
the scanner no longer reads; for a command, `exec` reads all before `Run`
returns. `run` says how far `Execute` is and whether its context has ended.

**Views.** A snapshot is read table by table (sqlite) or at once (memory) from
the ledger of `HandoffSteps`, which moves meanwhile; a table whose query fails
is empty. `watch` is what a stream remembers, `heard` what its client was told,
event by event, until the stream breaks. The event stream of tc-control and
`tcctl watch` diff in the same way and share the module.

**Lineage.** `BuildArtifactLineage` with its closure loop. The pass over parents
ranges over a Go map it adds to, so which of the added entries it visits is
open; the pass over children follows the list. Creation times are the texts the
server formats, digit by digit as far as their order depends on it.

**A2A.** A request is checked in the code's order (version, JSON-RPC, method,
parameters, id, role, capability, parts, gate), then becomes a message or an
answer with an error code. `FindTaskMessage`, `TaskStateFromMessageState` and
`ArtifactsFromSnapshot` are the adapter's, on records ordered by the text of their
refs: a ref is the number of its place in that order. `TaskRef` lists those the
server generates, which grow with its counter; `ChosenRefs`, which agents put in
the metadata and workers in follow-ups, may lie anywhere, before all of them too,
or be one that the counter reaches later (`Enters`: the number is used up and the
message refused). Agents may name any task, even before there is one. `picked`
and `foretold` are history variables that remember both for `TaskStaysOwn`.

**Console.** The event loop of the bubbletea program: polls in flight, keys by
focus and overlay, selections and offsets with their clamps, tabs, the artifact
viewer, and the handshake of stop key and worker's end. Log lines are kept as
the last word told of each attempt.

**JoinOptions, Setup.** `JoinOptions` holds the settings that depend on one
another and the functions that merge flags, environment, saved config, presets
and wizard; the TUI wizard is a state machine of its three screens. `Setup` runs
setups, joins, workers, skill registrations and an uninstall over three files.
`os.WriteFile` truncates and then writes: a reader, or a crash, in between finds
the file empty, and two writers at once may leave it torn.

## The runs

Each run is one question, or, where it composes modules that do not meet, one
question of each of its parts; `part` then says which a behaviour is about.

Bounds of the ledger: one or two messages, two or three attempts, one or two
endpoints, one task. The rules look at one message, its attempt and the states
of its dependencies, so two messages of which one depends on the other, and an
attempt more than `MaxRedelivery + 1`, meet every case. Leases of `LeaseTicks` 0
or 1 have the three moments that matter: before, at and after the deadline; the
worker's keeper, which halves what is left, needs 2. Attempts are symmetric;
messages are not (claim-next takes the smallest ref), nor are endpoints where
requests name them. Counters (redelivery, revision, checkpoints) are bounded by
`MaxRedelivery` in the code and by `MaxCheckpoints` in the model.

| run | what it asks |
|---|---|
| `handoff_core` | any order of claims, reports (`canceled` and `failed` too), refreshes, completions, follow-ups, cancels, retries, replays and takeovers of two messages, one after the other: closed attempts stay closed and lost ones are fenced; work starts in dependency order; both stores do the same with each of these ledgers |
| `exclusive` | `ledger`: without retry a message has one accepted owner, completed work stays completed, and the protocol implements `WorkQueue`. `registry`: of two processes with one endpoint ref, stopped, cut off, crashed and started again in any order on either store, one holds the ref, but for overlapping writes and expired heartbeats; one that runs alone is online with what it told; the handlers are those of `EndpointRegistry`, but where a write overlaps another or comes late |
| `liveness` | `ledger`: abandoned work is released, and waiting work is served, with a preferred endpoint that goes offline and comes back and a message for one target. `execution`: a canceled or timed-out execution returns, with a result that is true of its process |
| `steps` | `overlap`: two requests at a time - claims, checkpoints, refreshes, completions, cancels, retries - on a server that may crash keep the link, the states and the evidence, and make up no progress. `serial`: with one request in flight, the chains of store calls implement the atomic `Handoff` |
| `governance` | `artifacts`: versions saved, cited and finalized by overlapping requests while a message changes hands: lineage has no cycle and no gap, and the next owner resumes from artifacts of its own message. `effects`: two overlapping requests, two attempts, two decisions, two hashes, one key: every execution has its approval, and the key is executed once |
| `worker` | a worker that is restarted, cut off, answered late or canceled says of its claims what the ledger holds, keeps its claim as long as its calls are answered in time, and abandons a claim it lost |
| `delivery` | two claim-next requests and an ingress against broker, gate and ledger, with redelivery, failing calls and restarts: what is acked is settled, a delivery has one holder, the broker holds only what was judged and saved |
| `clients` | `watch`: a filtered watch over a ledger that moves, snapshots with a table missing, streams that break. `a2a`: agents that send and ask, in order and in each way out of order. `lineage`: three versions with any ancestry and any four creation times. `console`: a server that shows more, fewer and no records, two polls in flight, every key. `alone`: one setup or join with every invocation and wizard answer. `shared`: two of them over one home directory. `working`: a worker that reloads skills while two are registered |

In `overlap` and in `governance` the one endpoint stays online once it has
registered, as that of a worker which heartbeats in time. With a single endpoint
and no preferences the registry only ever refuses requests, so a steady one
allows every ledger that a changing one does. `serial` keeps the registry. In
`worker` the endpoint of the worker registers, expires and goes offline as its
requests say; the other endpoint, which may get the message first, is steady.
What `overlap` leaves to `serial` is what only repeats its steps: completions
with follow-ups, `in_progress` reports and claim-next, which is reconcile and
claim one after the other. One cancel or retry is in flight at a time.

The links, states and evidence of the ledger (`CurrentAttemptLink`,
`StateIsBacked`, `CompletedHasEvidence`) are asked in `steps`, of overlapping
requests and of requests one by one; that they hold of the atomic `Handoff`, for
any number of messages, is a theorem.

The `registry` of `exclusive` has two requests at a time and heartbeats that
expire one tick after they were due, so that a copy is fresh or stale; two sets of
capabilities that a process changes between; no ledger. A longer timeout and a
third request at a time repeat what these show, and the theorems hold for any. Its
`ledger` has a steady endpoint, and attempt refs in the order they are handed out.

`governance` has two versions, which can be based on each other or on
themselves; one more effect ref than it has keys, and approvals of one tick,
that of expiry being the next. Refs that the server allocates (attempts,
executions) are handed out in order, versions and clerks are symmetric. A
checkpoint cites at most one version, a rejection does not expire, and a
finalization, which no property reads, comes when both versions are there.
`worker` has one message and one attempt ref - what a takeover means to this
worker is that its attempt is orphaned, which the reconcile loop does - one
progress report per execution and one stray request at a time; `MaxCheckpoints`
lets every report of an execution through. A second attempt ref multiplies the
states by twelve and adds no step that one execution after another does not
have: nothing of an execution but its stray requests outlives it, and those name
their attempt. `delivery` has either one message with two attempts or two
messages with one (`SmallInstance`), and two deliveries, so that one is
redelivered; `ClientsBound` of `MCClients` names the bounds of `clients`: one
table lost in a poll, one A2A task at work at a time (with others beside it only
on its way to a completion or a dead letter), one artifact of a task and one
ref named too early, as `TaskStaysOwn` looks at artifacts and tasks one by one,
one or two saved configs. Of the refs chosen in `a2a` one sorts before the two that
the server generates and one is the second of those.
The lineage needs three versions for an ancestor and a descendant that are found
only in a second pass.

Deadlock checking is off where refs run out. In `steps` two attempt refs may be
used up with the handler between two steps of a claim, where the code would
allocate another; in `governance` and `delivery` likewise, and in `delivery` a
message that reached `MaxDeliver` stays in the stream for good. In `clients` a
console that quit, a process that ended and an instance whose polls or configs
are used up have no step left.

Every property of these runs has a mutant in `PROJECT.json`: a plausible slip in
one modelled function, kept beside it in the module under a comment that starts
with "Mutant", that makes TLC find the property violated.

### Where the code does not do what its tests say

Four runs expect a violation. Each states what a test of the repository expects
of one sequence of steps, and finds an order of them in which it does not hold.

| run | what happens |
|---|---|
| `retry_strands` | a retry makes an `input_required` message available again and leaves its attempt open. The worker's next checkpoint on it makes the message `processing` with no attempt; reconcile and claims pass it by, for good |
| `cancel_undone` | a checkpoint reads the message, a cancel makes it `canceled`, and the checkpoint, which reports progress, writes back what it read: the canceled message is `processing` again |
| `worker_completion` | the lease keeper's refresh meets the end of its execution. Refused, because the attempt was just completed, it makes the completion a drop; cut short by `keeper.stop`, it makes it an error that ends the worker. The ledger is right, what the worker says is not |
| `output_lost` | an AI CLI exits with its last lines still in the pipe; `Wait`, called beside the scanner, closes the pipe before they are read. The result is `completed`, its output is cut |

The cause of `cancel_undone` is a read and a write of a whole record in two
store calls, with no version compared in between. In the same way a refresh in
flight reopens an attempt that was completed or orphaned meanwhile, and a
cancel erases a claim made after its snapshot. This bounds what the passing runs claim:
`SoleOwner`, `ClosedStaysClosed` and `OrphanedIsFenced` are properties of the
atomic `Handoff`; `CurrentAttemptLink`, `StateIsBacked`, `CompletedHasEvidence`
and `ReportedStateIsOnRecord` survive any overlap and any crash, as `StepsProofs`
shows for any number of handlers.

Some properties except a case in which the code does otherwise, and say so where
they are stated:

* `LineageIsFamily`: versions created within one second, since RFC3339Nano drops
  the zeros that end a fraction and the texts then sort differently from the times;
* `RunsItsBackend`: a backend given by flag or environment, or by the second
  wizard of `join --setup --wizard`, over a saved config, whose command stays;
* `TaskStaysOwn`: a message of the task whose ref was chosen and sorts before the
  task's, which the adapter finds in its place (with `tc_message_ref` `tc://message/a`
  asking for `tc://message/msg_000001` answers with `a`), and tasks whose own ref
  was chosen, or was named by a message before there was one;
* `CanceledExecutionReturns`: a command whose descendant keeps its output open;
* `SkillsStayAdvertised`: a worker started while the registry was unreadable goes
  on with its configured or default capabilities until it can be read;
* `AtomicUnlessOverlapped`: a write of a record that was written since it was read,
  or of a time that has passed. One such is of a single worker: when it stops it
  cancels the heartbeat in flight, or the advertisement before it, and sends its
  offline heartbeat; the canceled request is served on, and written back last it
  makes the endpoint of a process that ended online again, until it expires. (A
  test of the worker loop, `tests/server_worker_loop_test.go:85`, expects it to be
  offline; it is when no heartbeat is in flight.)

And some outcomes are in the models though no property speaks of them, since
nothing in the repository says what should happen: of two overlapping
finalizations, results of a side effect, or registrations of a skill the later
write stands; a message whose publish failed is in the ledger and never in the
broker, and a retry of it after its ack is not published again; an A2A request
sent twice is two tasks; two joins from one saved config share its endpoint ref.

### Fairness

`LivenessSpec` assumes for the ledger that time passes, and that the reconcile
loop runs again and again: `server.go` starts it with the server and it ends only
with it. Of the workers it assumes what their loops do: register at the start,
send heartbeats (every 10 s against a timeout of 30 s), poll for work whenever
they are not executing. An operator restarts a worker that exits, and executions
end, so a worker that could claim again and again does: strong fairness of
claim-next, since an execution or an expired heartbeat may disable it in
between. No fairness is assumed of completing, checkpointing or refreshing:
workers may abandon whatever they claimed. `FairSpec` of `Handoff` says the same
of a ledger alone.

That executions end is not taken for granted: `ExecutionFairness` assumes that
the goroutines of an executor run, that its timers fire, that a request it sent
is answered or its connection ends, and that a process which was sent SIGKILL
dies. Nothing is assumed of the child, which may ignore SIGTERM, write for ever
or leave descendants; `CanceledExecutionReturns` follows all the same, but for
the one case it names.

`WorkerFairness` is about one execution: besides time passing, the keeper's
goroutine runs, its request is answered or its connection ends (the client sets
no timeout of its own, so this is what the operating system and the server
provide), and an executor whose context was canceled returns, which is
`CanceledExecutionReturns`. Nothing is assumed of an executor that was not
canceled, nor of the loop, the reporter or the heartbeats.

Type invariants: `TypeOK` is checked and proved. `StepsTypeOK`,
`GovernanceTypeOK`, `WorkerTypeOK`, `DeliveryTypeOK` and `RegistryStepsTypeOK` are proved; `ViewsTypeOK`
and `ConsoleTypeOK` document their variables. No run spends a property on these.

## The proofs

Each theorem holds for any endpoints, messages, attempts, handlers and limits.
The assumptions are the named `ASSUME`s of the modules: the sets of refs do not
contain their null values, message refs are positive numbers, limits are
naturals, requests have their type, generated message refs sort in the order of
their counter (true of their texts up to 999999, the six digits of the format), a
worker has one endpoint ref, and endpoints may say that they are online or offline. TLC evaluates them in every run. Three
hypotheses go beyond them and stand in the theorems that need them: nobody
retries, there are finitely many messages, and no invocation gives the CLI of a
backend as its command (`CommandsAreOwn`).

| module | theorems |
|---|---|
| `HandoffProofs` | `SoundLedger` (the inductive invariant), `TypesHold`, `LinkHolds` (`CurrentAttemptLink`), `StatesAreBacked` (`StateIsBacked`), `EvidenceHolds` (`CompletedHasEvidence`), `DependenciesHold` (`DependenciesCameFirst`); `FenceHolds` (inductive), `OrphansAreFenced` (`OrphanedIsFenced`), `ClosedHolds` (`ClosedStaysClosed`); without retry `OwnershipHolds` (inductive), `OneOwner` (`SoleOwner`), `CompletionHolds` (`CompletedStaysCompleted`) |
| `RefinementProofs` | without retry `LedgerIsWorkQueue` (`ImplementsWorkQueue`); for finitely many messages `StoresDoTheSame` (`StoresAgree`); `SerialIsAtomic` (`ImplementsHandoff`) |
| `StepsProofs` | `StepsHold` (inductive), `StepsTypesHold`, `ReportsHold` (`ReportedStateIsOnRecord`), and of overlapping, crashing requests `StepsLinkHolds`, `StepsStatesAreBacked`, `StepsEvidenceHolds` |
| `RegistryProofs` | `RegistryInvariant` (inductive), `RegistryTypes`, `EndpointHasOneWorker` (`OneWorkerPerEndpoint`), `RoutedAsAnnounced` (`AnnouncedIsRouted`), `HandlersAreAtomic` (`AtomicUnlessOverlapped`) |
| `GovernanceProofs` | `GovernanceHolds` (inductive), `GovernanceTypesHold`, `LineageHolds` (`LineageIsGrounded`), `ResumedArtifactsHold` (`ResumedArtifactsAreOfMessage`), `AuthorityHolds` (`EffectIsAuthorised`), `OnceOnly` (`OneExecutionPerKey`) |
| `DeliveryProofs` | `DeliveryHolds` (inductive), `DeliveryTypesHold`, `AckedAreSettled` (`AckedIsSettled`), `OneHolder` (`OneHolderPerDelivery`), `BrokerFollows` (`BrokerFollowsLedger`) |
| `WorkerProofs` | `WorkerHolds` (inductive), `WorkerTypesHold`, `OutcomesAreTrue` (`OutcomeIsTrue`), `TimelyWorkersKeep` (`TimelyWorkerKeepsClaim`) |
| `ClientsProofs` | `ViewsInvHolds` (inductive), `SnapshotsAreClosed` (`SnapshotIsClosed`), `ClientsAreCurrent` (`ClientIsCurrent`), `EventsHaveRoots` (`EventsAreRooted`); `ResultOfItsProcess` (`ResultIsOfItsProcess`); `ConsoleInvHolds` (inductive), `ConsoleQuitsWithWorker` (`QuitsWithWorker`), `ConsoleShowsOneView` (`ShowsOneView`); `SetupInvHolds` (inductive), `WorkerStartsAsConfigured` (`StartsAsConfigured`), `RegisteredSkillsStay` (`SkillsStayAdvertised`), `WorkerRunsItsBackend` (`RunsItsBackend`); `AgentsTaskStaysOwn` (`TaskStaysOwn`) |

The first part of `HandoffProofs` has the lemmas on the ledger's operations that
all of them use. Every inductive invariant was checked by TLC as an invariant of its run before
it was proved; what TLC refuted was a missing conjunct.

**The ledger.** `Inv == TypeOK /\ Sound(store)`. Its four
properties (links, states, evidence, dependencies) are not inductive one by one: a checkpoint completes the message
its attempt names, so evidence needs the attempt to belong to a saved message; a
claim records the dependencies as they are, so their order needs the evidence.
`Sound` is their conjunction, strengthened by what each needs: an attempt exists
only for a saved message and its dependencies, an attempt ref not in use points
nowhere, a dead letter's message was saved. The argument is that a ledger only
grows. `Kept(S, T)` says that `T` is a well-typed, sound store and extends `S`:
saved messages keep their requests, attempts keep their message and epoch,
checkpoints and dead letters stay. Whatever is sound of a record in `S` is then
sound of the same record in `T` (`RecordStays`), so a handler has to account
only for the records it writes. One lemma per store operation shows `Kept`; one
per action composes them; the last steps are temporal.

**Ownership.** `Fenced` adds that an orphaned attempt is past its lease, that a
message up for takeover or dead-lettered points to an orphaned attempt, and that
a dead letter names its last checkpoint. It goes with a relation between a
ledger and the next: a closed attempt stays closed, and orphaned if it was, its
lease is never extended and it gets no more checkpoints (`ClosedKept`). Neither
is enough alone, as a dead letter names the last checkpoint only while the
attempt stays closed. `Owned` says that an open attempt is the current one of a
message that is worked on. Every action keeps it but a retry, which takes a
message from its attempt without closing it, as in `retry_strands`: a claim may
then open a second attempt of the same message, and `SoleOwner` is false. Hence the hypothesis `"retry" \notin Commands` of
`OwnershipHolds`, `OneOwner`, `CompletionHolds` and `LedgerIsWorkQueue`, which is
how `exclusive` runs.

**The abstract queue.** The refinement follows a handler one store operation at
a time. The mapping of `HandoffRefinement` is restated as a view of any ledger
(`PhaseIn`, `HolderIn`, `GrantsIn`), and a lemma per operation says for each
message which `Move` of `WorkQueue` it makes, or that its view stays; a handler
whose operations touch one message twice (a completion: checkpoint, then close)
makes one move or none in all. `MappedView` equates the view with the mapping,
and `NextRefines` reads each action as a step of the queue or a stutter.

**The two stores.** `SqliteStore` reconciles by a loop over rows, a fold over
the set of messages, where the memory store changes all at once. `FoldIsUnique`
says what any such loop comes to, by the smallest set of rows on which two
accounts of it would differ: the library's induction theorems take an operator
and cannot be instantiated, but the well-foundedness of strict inclusion of
finite sets, which they rest on, can be cited. Hence the hypothesis that
there are finitely many messages. `RowReconciled` and `ReconciledRows` say what
the loop has done when some of the rows are done; the claims then agree branch
by branch, and claim-next because both order their candidates by message ref.

**Interleaving.** `StepsInv` adds to `Inv` that every attempt state is on record
and, for each request in flight, `CallSound`: by the place it has come to, what
its copies are good for. A copy of an attempt has that attempt's message and
epoch, which never change; a copy of a message is a record that would be sound in
the ledger as it is now; what the call reported has its checkpoint. As a ledger
only grows, all of this stays true while others write, so each write-back
finds it true. What goes stale is only what no property of these reads: the
state, the lease, whether it is still the current attempt.

**One request at a time.** `Atomic!Next` takes its step when a request ends;
until then the ledger of the atomic model is the one the request found, `S0`.
`SerialInv` says of the request under way what it has made of `S0` and what
copies it holds, by the place it has come to (`Underway`). Two kinds of request
go through several messages. A completion that is at its follow-ups has left
`CompletedStore(S0, a, follow)` for some set of follow-ups it could submit, and
each more enlarges the set (`OneMoreFollowUp`); a refusal ends it with those it
has. A cancel or retry has changed the messages of its task that are no longer
in its snapshot (`CanceledStore`, `RetriedStore`), and takes one at a time from
it (`SnapshotWithout`). A cancel closes the attempt of each message after the
message, and finds that attempt as `S0` has it because no two messages point to
one (`OwnAttempt`, from `Sound`). When the snapshot is empty, all of the task's
messages are done, which is the atomic action. That copies are as `S0` has them,
that no lease runs out meanwhile and that routes stay open are what being alone
gives: with overlapping requests they fail, and with them this theorem.

**The registry.** None of its three properties is inductive. `RegistryInv` says of
a request that its worker waits for just that (`OwnRequest`), and for one only
(`OneAtATime`); and of a copy nobody has written over that it is the record, or
what the request makes of the record (`CopyAgrees`, in `CopiesAgree`).
That a holder is never stale (`HoldersAreFresh`) is why a registration decided
on the record as it is now cannot take the ref from one that holds it; when time
passes, copy and record age together, and a decision on a record that was stale
stays good, since nothing makes it fresh but a write, which ends its currency. Two
requests that both read the record when it was stale are told apart by the first
of their writes. `AloneIsKnown` carries `AnnouncedIsRouted` through the places before
`running`: a worker that started alone, with nothing in flight for its ref, has
none but its own request there, so what is written is what it told. The
advertisement of a reloaded skill is the one moment at which the two differ
(`renewing` is not in `Told`). `HandlersAreAtomic` reads each action as a step of
`EndpointRegistry`, from `CopiesAgree`: a write of a current copy with the time of
now is the atomic handler.

**Governance.** `GovernanceInv` relates versions, citations, decisions and
executions (`Grounded`, `CitesSound`, `EffectsSound`), and says of what a clerk
read earlier that it holds still when it writes (`DeskSound`): versions on
record are never replaced, decisions change only by age, executions keep their
attempt, approval and key. `Grounded` states the absence of a cycle as: every
non-empty set of saved versions has one that is based on none of the set. A new
version is based on versions saved before it, and none of those on it.

**Delivery.** `StreamSound` and `CallSound` are as above. `OneHolderPerDelivery`
needs `GripsSound`: a claim-next that works on a delivery, or has still to stop
tracking it, has a grip on it; two with a grip on one delivery are possible only
when it is settled at the broker, which hands it out to nobody.

**The worker.** What it was told stays true: a state that was reported stays
reported, and an attempt that was live once and is not is never live again
(`Retains`). `WorkerInv` has this of its loop, its calls and its strays
(`LoopSound`, `CallSound`), so the outcome it settles on is what the ledger
holds. And what it holds stays its own: `Timely` bounds the lease from below by
the moments since the last refresh that was answered in time, and
`Unthreatened` says that while it executes none of its own requests, waited for
or stray, would close the attempt it was granted. Only a cancel does, and then
the message is canceled, and stays so (`Dropped`, which needs `Owned`). Nothing
in this system retries, as `SystemNext` has no such action. The theorems are
about `SystemSpec`, of which the `worker` run checks the instance with a second,
steady endpoint.

**Reading while others write.** `ViewsInv` rests on the same growth: a message
that was read stays sound in the ledger (`RecordStays`), and each table read
after it brings a part of what makes it so into the snapshot (`ShotSound`):
attempts bring the link and who completed it, checkpoints the evidence, dead
letters the letter. The order of the tables matters; the run's mutant reads them
backwards. `Remembered` says that what a watch remembers of a record is what its
client was told, so what is no news the client knows; a watch that closes forgets
all of it, which only repeats events. `HeardRooted` says that a client was told
the message of each attempt and the attempt of each checkpoint, whichever group
of events the stream broke off after. The ledger here is that of `HandoffSteps`
with all its requests, commands and crashes; the run has a part of them.

**Executors, console, setup, A2A.** `ExecutionInv` says what an executor knows of
its child at each place it can be: that it is reaped when its output is
collected, and that nobody signalled it unless the context ended.
`ConsoleInv` keeps the selection within the list the console shows, whichever poll
brought that. `SetupInv` says at which steps a process has loaded a config and
that it was saved as it is, a torn or empty file being no config; and that the
registry has the first skills whenever it is whole, as has each registrar's copy.
`BackendInv` follows the command of a worker from place to place: there is none
of a backend before a wizard chose one (`Commandless`), and then it is that of
the backend chosen, in what is started and in what is saved (`Fits`). It needs
`CommandsAreOwn`: a command given once, as with `--command claude`, is saved, and
a later invocation that loads that config gives no command of its own. `A2AInv` says
where artifacts are filed, and that a message whose ref was generated has it from
the counter and comes after each task it names, unless that task's ref was chosen
or foretold: when the counter reaches a ref, whoever names it already has
foretold it. So what comes before a task of which neither is true was chosen.

Only model-checked:

* liveness (`WaitingWorkIsServed`, `AbandonedWorkIsReleased`,
  `CanceledExecutionReturns`, `LostClaimIsAbandoned`), as fairness and ENABLED
  are out of reach of TLAPS;
* `LineageIsFamily`, as the lineage is closed by iteration over data, and what
  that comes to for every list needs induction.

## Not modelled

* **Readbacks.** They attach a record to an attempt and change no state.
* **Of setup and join:** the paths of `--skill`, which are loaded beside the
  registry; `--args`; the further prompts of `--advanced`; and a `SKILL.md` that
  is torn, of which the loader makes whatever it can parse.
* **Domain validation.** Refuses malformed requests before any state is touched.
* **Of the worker:** claiming by message ref and the canonical scenario (test
  entry points), follow-up messages, the progress fields of heartbeats. A claim
  it makes is any that the server grants. `doctor`, `update` and the printed
  reports of its command line; rendering in the console, and the scrolling of
  its other panes.
* **Of tc-control and tcctl:** queries that filter a snapshot and print or encode
  it, commands that are passed on, the approval chain, edges of a lineage.
* **HTTP** but for A2A: it decodes, calls one handler and encodes.
* **A worker with the delivery adapter**: `Delivery` has the adapter with claims
  and reports of any worker, `Worker` a worker with a ledger that hands out claims
  itself; what a worker process sees of redelivery would need both at once, and
  the server connects no adapter.
* **Discovery and the bridge.** mDNS, and rewriting of text.
* Events and audit records, idempotency keys, and the wording of errors.
