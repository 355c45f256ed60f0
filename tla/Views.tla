------------------------------- MODULE Views -------------------------------
(***************************************************************************)
(* Reading the ledger while requests change it: the snapshot of tc-server  *)
(* and the watches that follow it by polling, the event stream of          *)
(* tc-control and `tcctl watch`.                                           *)
(*                                                                         *)
(* The memory store copies itself under its mutex.  The sqlite store runs  *)
(* one query per table, with no transaction around them, so the tables of  *)
(* one snapshot are of different moments; a query that fails leaves its    *)
(* table empty and the snapshot is served without it.  A watch compares    *)
(* each snapshot with the records it remembers from the earlier ones and   *)
(* tells its client what is new, until the client leaves or a poll fails.  *)
(***************************************************************************)
EXTENDS HandoffSteps, Sequences

CONSTANTS Filters,       \* the filters that clients watch with
          AnyTask,       \* no task filter
          AnyCapability  \* no capability filter

Filter == [task : Tasks \cup {AnyTask}, capability : Capabilities \cup {AnyCapability}]

ASSUME ViewsAssumption ==
    /\ Filters \subseteq Filter
    /\ AnyTask \notin Tasks
    /\ AnyCapability \notin Capabilities

VARIABLES shot,    \* the snapshot of the present poll, as far as it was read
          watch,   \* the watch: where its poll stands and what it remembers
          heard    \* what its client was told last of each record

ViewVars == <<StepVars, shot, watch, heard>>

\* Mutant: the messages are read after what they point to.
TablesBackwards == <<"deadLetters", "checkpoints", "attempts", "messages">>

\* The tables, in the order in which they are read.
Tables == <<"messages", "attempts", "checkpoints", "deadLetters">>

Revisions == 1..MaxCheckpoints

Watch == [phase : {"closed", "reading", "told"},
          filter : Filters,
          read : 0..Len(Tables),
          missing : SUBSET {"messages", "attempts", "checkpoints", "deadLetters"},
          messages : [MessageRefs -> Message],
          attempts : [AttemptRefs -> Attempt],
          checkpoints : [AttemptRefs -> SUBSET Revisions]]

Told == [messages : [MessageRefs -> [state : MessageState \cup {"absent"},
                                     attempt : AttemptRefs \cup {NoAttempt}]],
         attempts : [AttemptRefs -> [state : AttemptState \cup {"absent"},
                                     msg : MessageRefs \cup {NoMessage}]],
         checkpoints : [AttemptRefs -> SUBSET Revisions]]

ViewsTypeOK == StepsTypeOK /\ shot \in Store /\ watch \in Watch /\ heard \in Told

\* newEventStreamState: a new watch remembers nothing.
Closed(f) == [phase |-> "closed", filter |-> f, read |-> 0, missing |-> {},
              messages |-> EmptyStore.messages, attempts |-> EmptyStore.attempts,
              checkpoints |-> [a \in AttemptRefs |-> {}]]

ViewsInit ==
    /\ shot = EmptyStore
    /\ \E f \in Filters : watch = Closed(f)
    /\ heard = [messages |-> [m \in MessageRefs |-> [state |-> "absent", attempt |-> NoAttempt]],
                attempts |-> [a \in AttemptRefs |-> [state |-> "absent", msg |-> NoMessage]],
                checkpoints |-> [a \in AttemptRefs |-> {}]]

-----------------------------------------------------------------------------
(* A poll.                                                                 *)
StartPoll ==
    /\ watch.phase \in {"closed", "told"}
    /\ shot' = EmptyStore
    /\ watch' = [watch EXCEPT !.phase = "reading", !.read = 0, !.missing = {}]
    /\ UNCHANGED <<StepVars, heard>>

ReadTable ==
    LET t == Tables[watch.read + 1] IN
    /\ watch.phase = "reading"
    /\ watch.read < Len(Tables)
    /\ shot' = [shot EXCEPT ![t] = store[t],
                            !.requests = IF t = "messages" THEN store.requests ELSE @]
    /\ watch' = [watch EXCEPT !.read = @ + 1]
    /\ UNCHANGED <<StepVars, heard>>

LoseTable ==
    /\ watch.phase = "reading"
    /\ watch.read < Len(Tables)
    /\ watch' = [watch EXCEPT !.read = @ + 1, !.missing = @ \cup {Tables[watch.read + 1]}]
    /\ UNCHANGED <<StepVars, shot, heard>>

\* The memory store.
CopyStore ==
    /\ watch.phase = "reading"
    /\ watch.read = 0
    /\ shot' = store
    /\ watch' = [watch EXCEPT !.read = Len(Tables)]
    /\ UNCHANGED <<StepVars, heard>>

\* The request fails, or the client leaves while it is under way.
PollFails ==
    /\ watch.phase = "reading"
    /\ shot' = EmptyStore
    /\ watch' = Closed(watch.filter)
    /\ UNCHANGED <<StepVars, heard>>

-----------------------------------------------------------------------------
(* diffEventSnapshot, diffWatchSnapshot.                                   *)
EventMessageMatches(r) ==
    /\ watch.filter.task \in {AnyTask, r.task}
    /\ watch.filter.capability \in {AnyCapability, r.capability}

EventMessageRefs == {m \in MessageRefs : Saved(shot, m) /\ EventMessageMatches(shot.requests[m])}
\* Mutant: attempts are told of whatever message they are.
AllAttemptRefs == {a \in AttemptRefs : Exists(shot, a)}

EventAttemptRefs == {a \in AttemptRefs :
    Exists(shot, a) /\ shot.attempts[a].msg \in EventMessageRefs}

\* Mutant: a message is told again only when its state changed.
MessageStateNews == {m \in EventMessageRefs : watch.messages[m].state # shot.messages[m].state}

MessageNews == {m \in EventMessageRefs : watch.messages[m] # shot.messages[m]}

Compared(att) == <<att.state, att.rev, att.epoch>>
AttemptNews == {a \in EventAttemptRefs :
    Compared(watch.attempts[a]) # Compared(shot.attempts[a])}

CheckpointNews(a) ==
    IF a \in EventAttemptRefs THEN (1..shot.checkpoints[a].count) \ watch.checkpoints[a] ELSE {}

\* The client after the first groups of the events: messages, then attempts,
\* then checkpoints.  (Readbacks go the way of checkpoints, and artifacts that
\* of messages.)
Hears(groups) ==
    [messages |-> [m \in MessageRefs |->
        IF m \in MessageNews /\ groups >= 1
        THEN [state |-> shot.messages[m].state, attempt |-> shot.messages[m].attempt]
        ELSE heard.messages[m]],
     attempts |-> [a \in AttemptRefs |->
        IF a \in AttemptNews /\ groups >= 2
        THEN [state |-> shot.attempts[a].state, msg |-> shot.attempts[a].msg]
        ELSE heard.attempts[a]],
     checkpoints |-> [a \in AttemptRefs |->
        heard.checkpoints[a] \cup IF groups >= 3 THEN CheckpointNews(a) ELSE {}]]

TellNews ==
    /\ watch.phase = "reading"
    /\ watch.read = Len(Tables)
    /\ heard' = Hears(3)
    /\ watch' = [watch EXCEPT
           !.phase = "told",
           !.messages = [m \in MessageRefs |->
               IF m \in EventMessageRefs THEN shot.messages[m] ELSE @[m]],
           !.attempts = [a \in AttemptRefs |->
               IF a \in EventAttemptRefs THEN shot.attempts[a] ELSE @[a]],
           !.checkpoints = [a \in AttemptRefs |-> @[a] \cup CheckpointNews(a)]]
    /\ UNCHANGED <<StepVars, shot>>

\* The connection breaks while the events are written.
StreamBreaks ==
    /\ watch.phase = "reading"
    /\ watch.read = Len(Tables)
    /\ \E groups \in 0..2 : heard' = Hears(groups)
    /\ watch' = Closed(watch.filter)
    /\ shot' = EmptyStore
    /\ UNCHANGED StepVars

\* The client asked for one poll only, or has seen enough.
EndWatch ==
    /\ watch.phase = "told"
    /\ watch' = Closed(watch.filter)
    /\ shot' = EmptyStore
    /\ UNCHANGED <<StepVars, heard>>

WatchNext ==
    \/ StartPoll \/ ReadTable \/ LoseTable \/ CopyStore \/ PollFails
    \/ TellNews \/ StreamBreaks \/ EndWatch

ViewsNext == (StepsNext /\ UNCHANGED <<shot, watch, heard>>) \/ WatchNext

ViewsSpec == StepsInit /\ ViewsInit /\ [][ViewsNext]_ViewVars

-----------------------------------------------------------------------------
SnapshotRead == watch.phase # "closed" /\ watch.read = Len(Tables)

\* Whatever requests were half done and whatever happened between its queries,
\* a snapshot of which no table is missing is closed: a message in it points to
\* an attempt in it claimed at that message's redelivery count, a dead-lettered
\* one has its dead letter and a completed one the checkpoint that says so.
SnapshotIsClosed ==
    SnapshotRead /\ watch.missing = {} =>
        \A m \in MessageRefs : RecordSound(shot, m, shot.messages[m])

\* A watch reports every change that it sees, across broken streams too: the
\* state and attempt its client knows of a message, the state of an attempt
\* and the checkpoints are those of the snapshot of its last poll.
ClientIsCurrent ==
    watch.phase = "told" =>
        /\ \A m \in EventMessageRefs :
              /\ heard.messages[m].state = shot.messages[m].state
              /\ heard.messages[m].attempt = shot.messages[m].attempt
        /\ \A a \in EventAttemptRefs :
              /\ heard.attempts[a].state = shot.attempts[a].state
              /\ 1..shot.checkpoints[a].count \subseteq heard.checkpoints[a]

\* A client is never told of a checkpoint before the attempt, nor of an attempt
\* before the message: not where a table is missing or of another moment, nor
\* where the stream breaks half way.
EventsAreRooted ==
    \A a \in AttemptRefs :
        /\ heard.checkpoints[a] # {} => heard.attempts[a].state # "absent"
        /\ heard.attempts[a].state # "absent" =>
              heard.messages[heard.attempts[a].msg].state # "absent"
=============================================================================
