-------------------------------- MODULE A2A --------------------------------
(***************************************************************************)
(* The A2A interface of the server: JSON-RPC requests of agents that know  *)
(* nothing of endpoints and leases, translated into messages of the ledger *)
(* (infrastructure/a2a/adapter.go, adapters/api/handler.go).               *)
(*                                                                         *)
(* The ledger is reduced to what a task shows of it.  References are texts *)
(* and a snapshot lists them in their order as texts: here they are the    *)
(* numbers of their places in that order.  Those that the server generates *)
(* grow with its counter (up to its six digits); one that is chosen may be *)
(* anywhere among them, or be one that the server would have generated     *)
(* later.  Contexts are texts as well; 0 is the blank one.                 *)
(* The default policy judges these messages, and refuses none.             *)
(***************************************************************************)
EXTENDS Integers, Sequences

CONSTANTS AgentRequests, \* the requests that agents send
          MaxTasks,      \* bound: references that the server generates
          TaskRef,       \* those references, in the order of the counter
          ChosenRefs,    \* references that agents and workers choose themselves
          Contexts,      \* the contexts that agents name
          Routed         \* capabilities that some endpoint has

NoRef == 0
Generated == {TaskRef[n] : n \in 1..MaxTasks}
TaskRefs == Generated \cup ChosenRefs
BlankText == ""

\* Some keys, and their values.
Metadata == UNION {[keys -> STRING] : keys \in SUBSET STRING}

\* A part is what its first field that says anything is.  A metadata value is a
\* string; where the code takes a boolean it also takes "true".
AgentRequest ==
    [version : {"", "1.0", "1.1", "0.3"}, jsonrpc : {"2.0", "other"},
     method : {"SendMessage", "GetTask", "other", ""}, params : {"none", "unreadable", "readable"},
     id : BOOLEAN, role : {"ROLE_USER", "user", "USER", "ROLE_AGENT"},
     parts : Seq({"text", "data", "url", "blank"}),
     task : TaskRefs \cup {NoRef}, context : Contexts \cup {NoRef}, ref : ChosenRefs \cup {NoRef},
     metadata : Metadata, own : Metadata]

ASSUME A2AAssumption ==
    /\ MaxTasks \in Nat
    /\ TaskRef \in [1..MaxTasks -> Nat \ {NoRef}]
    /\ \A i, j \in 1..MaxTasks : i < j => TaskRef[i] < TaskRef[j]
    /\ ChosenRefs \cup Contexts \subseteq Nat \ {NoRef}
    /\ \A r \in AgentRequests :
          /\ r.task \in TaskRefs \cup {NoRef}
          /\ r.context \in Contexts \cup {NoRef} /\ r.ref \in ChosenRefs \cup {NoRef}

VARIABLES issued,    \* how many references the server has generated
          tasks,     \* of each message: its correlation, capability and state
          produced,  \* the artifact versions, by the message and the task they name
          answered,  \* the tasks that agents were told of
          reply,     \* what the last request was answered with
          picked,    \* history: messages whose reference was chosen
          foretold   \* history: references that a message named before there was one

a2aVars == <<issued, tasks, produced, answered, reply, picked, foretold>>

NoTask == [state |-> "absent", correlation |-> NoRef, capability |-> BlankText]
NoReply == [code |-> 0, task |-> NoRef, state |-> BlankText]

A2AInit ==
    /\ issued = 0
    /\ tasks = [m \in TaskRefs |-> NoTask]
    /\ produced = {}
    /\ answered = {}
    /\ reply = NoReply
    /\ picked = {}
    /\ foretold = {}

Present == {m \in TaskRefs : tasks[m].state # "absent"}

-----------------------------------------------------------------------------
(* Reading a request.                                                      *)
ErrorCode(err) ==
    CASE err = "invalid request" -> -32600
      [] err \in {"invalid params", "capability required", "part required"} -> -32602
      [] err = "task not found" -> -32001
      [] err = "version not supported" -> -32002
      [] err = "method not supported" -> -32601
      [] OTHER -> -32603

ErrorResponse(err) == [NoReply EXCEPT !.code = ErrorCode(err)]

VersionSupported(version) == version \in {"", "1.0", "1.1"}
ValidateJSONRPCRequest(r) == r.jsonrpc = "2.0" /\ r.method # ""
ValidClientRole(role) == role \in {"ROLE_USER", "user", "USER"}

\* What the code checks, in its order; blank if the request is in order.
Refusal(r) ==
    CASE ~VersionSupported(r.version) -> "version not supported"
      [] ~ValidateJSONRPCRequest(r) -> "invalid request"
      [] r.method \notin {"SendMessage", "GetTask"} -> "method not supported"
      [] r.params = "none" -> "invalid params"
      [] r.params = "unreadable" -> "unreadable"
      [] r.method = "SendMessage" /\ (~r.id \/ r.parts = <<>>) -> "invalid params"
      [] r.method = "SendMessage" /\ ~ValidClientRole(r.role) -> "invalid params"
      [] r.method = "GetTask" /\ r.task = NoRef -> "invalid params"
      [] OTHER -> BlankText

\* The metadata of the message go before those of the request.
MergeMetadata(r) ==
    [key \in DOMAIN r.metadata \cup DOMAIN r.own |->
        IF key \in DOMAIN r.own THEN r.own[key] ELSE r.metadata[key]]

\* The first of these keys that says anything.
MetadataString(metadata, keys) ==
    LET said == {i \in DOMAIN keys :
                     keys[i] \in DOMAIN metadata /\ metadata[keys[i]] # BlankText} IN
    IF said = {} THEN BlankText
    ELSE metadata[keys[CHOOSE i \in said : \A j \in said : i <= j]]

Capability(r) ==
    MetadataString(MergeMetadata(r), <<"target_capability", "tc_target_capability", "capability">>)
QualityGate(r) == MetadataString(MergeMetadata(r), <<"quality_gate", "tc_quality_gate">>)
HasBody(parts) == \E i \in DOMAIN parts : parts[i] # "blank"
CorrelationRef(r) == IF r.task # NoRef THEN r.task ELSE r.context

\* What MessageIngressRequest refuses.
MessageRefusal(r) ==
    CASE Capability(r) = BlankText -> "capability required"
      [] ~HasBody(r.parts) -> "part required"
      [] QualityGate(r) \notin {BlankText, "enforce", "warn", "skip"} -> "gate"
      [] OTHER -> BlankText

-----------------------------------------------------------------------------
(* Tasks.                                                                  *)

\* Mutant: a message of the task goes before the task itself.
CorrelatedFirst(id) ==
    LET found == {m \in Present : tasks[m].correlation = id}
        all == IF found # {} THEN found ELSE {id} \cap Present IN
    IF all = {} THEN NoRef ELSE CHOOSE m \in all : \A n \in all : m <= n

\* The first message of the snapshot that is the task or belongs to it.
FindTaskMessage(id) ==
    LET found == {m \in Present : m = id \/ tasks[m].correlation = id} IN
    IF found = {} THEN NoRef ELSE CHOOSE m \in found : \A n \in found : m <= n

TaskStateFromMessageState(state) ==
    CASE state = "available" -> "submitted"
      [] state \in {"claimed", "processing", "takeover_candidate"} -> "working"
      [] state \in {"failed", "dead_lettered"} -> "failed"
      [] state \in {"completed", "canceled", "input_required"} -> state
      [] OTHER -> "unknown"

ArtifactsFromSnapshot(m) ==
    {a \in produced : a.msg = m \/ a.task = tasks[m].correlation}

TaskFromSnapshot(id) ==
    LET m == FindTaskMessage(id) IN
    [task |-> m, state |-> TaskStateFromMessageState(tasks[m].state)]

\* What the agent card offers.
SkillsFromSnapshot == Routed

-----------------------------------------------------------------------------
(* The requests.                                                           *)
NextTaskRef == {TaskRef[n] : n \in {issued + 1} \cap 1..MaxTasks}

\* A message enters the ledger with a chosen reference or the counter's next
\* one, which is used up even if it is taken and the message refused.
Enters(chosen, m, record) ==
    /\ m \in IF chosen # NoRef THEN {chosen} ELSE NextTaskRef
    /\ issued' = IF chosen # NoRef THEN issued ELSE issued + 1
    /\ IF m \in Present THEN UNCHANGED <<tasks, picked>>
       ELSE /\ tasks' = [tasks EXCEPT ![m] = record]
            /\ picked' = IF chosen # NoRef THEN picked \cup {m} ELSE picked

SendMessage(r) ==
    /\ r.method = "SendMessage"
    /\ Refusal(r) = BlankText
    /\ \/ /\ MessageRefusal(r) # BlankText \/ Capability(r) \notin Routed
          /\ reply' = ErrorResponse(IF MessageRefusal(r) # BlankText THEN MessageRefusal(r)
                                    ELSE "refused")
          /\ UNCHANGED <<issued, tasks, answered, picked, foretold>>
       \/ /\ MessageRefusal(r) = BlankText /\ Capability(r) \in Routed
          /\ \E m \in TaskRefs :
                /\ Enters(r.ref, m, [state |-> "available", correlation |-> CorrelationRef(r),
                                     capability |-> Capability(r)])
                /\ IF m \in Present
                   THEN reply' = ErrorResponse("refused") /\ UNCHANGED <<answered, foretold>>
                   ELSE /\ answered' = answered \cup {m}
                        /\ foretold' = foretold \cup ({CorrelationRef(r)} \ (Present \cup {NoRef}))
                        /\ reply' = [code |-> 0, task |-> m, state |-> "submitted"]
    /\ UNCHANGED produced

GetTask(r) ==
    /\ r.method = "GetTask"
    /\ Refusal(r) = BlankText
    /\ reply' = IF FindTaskMessage(r.task) = NoRef THEN ErrorResponse("task not found")
                ELSE [code |-> 0, task |-> TaskFromSnapshot(r.task).task,
                      state |-> TaskFromSnapshot(r.task).state]
    /\ UNCHANGED <<issued, tasks, produced, answered, picked, foretold>>

Refuse(r) ==
    /\ Refusal(r) # BlankText
    /\ reply' = ErrorResponse(Refusal(r))
    /\ UNCHANGED <<issued, tasks, produced, answered, picked, foretold>>

-----------------------------------------------------------------------------
(* What else happens to the ledger.                                        *)

\* Claims, checkpoints, expired leases, dead letters, cancel and retry.
Moves(state) ==
    CASE state = "available" -> {"claimed", "canceled"}
      [] state = "takeover_candidate" -> {"claimed", "dead_lettered", "canceled"}
      [] state \in {"claimed", "processing"} ->
            {"processing", "input_required", "failed", "completed", "takeover_candidate", "canceled"}
      [] state \in {"failed", "dead_lettered", "input_required"} -> {"available", "canceled"}
      [] state = "canceled" -> {"available"}
      [] OTHER -> {}

MessageMoves(m) ==
    /\ \E state \in Moves(tasks[m].state) : tasks' = [tasks EXCEPT ![m].state = state]
    /\ UNCHANGED <<issued, produced, answered, reply, picked, foretold>>

\* A follow-up, whose reference its worker may choose, or the replay of a dead
\* letter: its correlation is that of the message it comes from.
MessageBegets(m) ==
    /\ tasks[m].state \in {"completed", "dead_lettered"}
    /\ \E n \in TaskRefs, chosen \in ChosenRefs \cup {NoRef} :
          /\ tasks[m].state = "dead_lettered" => chosen = NoRef
          /\ Enters(chosen, n, [tasks[m] EXCEPT !.state = "available"])
    /\ UNCHANGED <<produced, answered, reply, foretold>>

\* A worker registers an artifact, under the correlation of its message or, if
\* that has none, under a task made up of a digest of the message's own reference,
\* which nobody else names.
RegisterArtifact(m) ==
    /\ tasks[m].state \in {"claimed", "processing"}
    /\ produced' = produced \cup
           {[msg |-> m, task |-> IF tasks[m].correlation # NoRef THEN tasks[m].correlation ELSE -m]}
    /\ UNCHANGED <<issued, tasks, answered, reply, picked, foretold>>

A2ANext ==
    \/ \E r \in AgentRequests : SendMessage(r) \/ GetTask(r) \/ Refuse(r)
    \/ \E m \in Present : MessageMoves(m) \/ MessageBegets(m) \/ RegisterArtifact(m)

A2ASpec == A2AInit /\ [][A2ANext]_a2aVars

-----------------------------------------------------------------------------
\* The task that an agent was given stays its own: whatever generated messages
\* join the conversation later - further requests of agents for it, follow-ups,
\* replays - asking for it answers with its own message, and only one whose
\* reference was chosen, and sorts before the task's, is found in its place.
\* The answer shows the artifacts of the message it found and of the messages
\* of one conversation with that, and no others.
\* This is about references which the server generated and nobody named before.
TaskStaysOwn ==
    \A t \in answered \ (picked \cup foretold) :
        LET m == FindTaskMessage(t) IN
        /\ m \in {t} \cup {c \in picked : c < t}
        /\ \A a \in produced :
              a \in ArtifactsFromSnapshot(m) <=>
                  \/ a.msg = m
                  \/ /\ tasks[m].correlation # NoRef
                     /\ tasks[a.msg].correlation = tasks[m].correlation
=============================================================================
