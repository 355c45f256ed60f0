---------------------------- MODULE ClientsProofs ----------------------------
(***************************************************************************)
(* What the programs around the ledger promise: those that follow it are   *)
(* told all of it in order (Views), an executor reports on the process it  *)
(* started (Execution), the status console shows one view of the server    *)
(* and quits with its worker (Console), processes that share a home        *)
(* directory start as configured and keep their skills advertised (Setup), *)
(* and an A2A client sees the artifacts of its own tasks (A2A); for any    *)
(* filters, executors, histories, invocations and requests.                *)
(*                                                                         *)
(* Each part has an inductive invariant of its own: what of a snapshot is  *)
(* sound after each of its tables, what an executor knows of its child at  *)
(* each place it can be, what a process has loaded when, and in which      *)
(* order generated references came.                                        *)
(***************************************************************************)
EXTENDS Execution, Console, Setup, A2A, Views, StepsProofs, FiniteSetTheorems

-----------------------------------------------------------------------------
(* The watches of the ledger.                                              *)

\* Who completed the message is in the snapshot, and the ledger has the
\* checkpoint that says so.
CompletionAhead(m) ==
    \E a \in AttemptRefs : /\ shot.attempts[a].msg = m
                           /\ "completed" \in store.checkpoints[a].reported

\* A message that was read is sound in the ledger as that is now; each table
\* that is read after it puts a part of what makes it so into the snapshot.
ShotSound ==
    \A m \in MessageRefs :
        LET rec == shot.messages[m] IN
        /\ watch.read >= 1 => rec \in Message /\ RecordSound(store, m, rec)
        /\ watch.read >= 2 => /\ RecordLinked(shot, m, rec)
                              /\ rec.state = "completed" => CompletionAhead(m)
        /\ watch.read >= 3 => RecordCompletionBacked(shot, m, rec)
        /\ watch.read >= 4 => RecordStateBacked(shot, m, rec)

\* What the watch remembers of a record is what its client was told.
Remembered ==
    /\ \A m \in MessageRefs :
          watch.messages[m].state # "absent" =>
              /\ heard.messages[m].state = watch.messages[m].state
              /\ heard.messages[m].attempt = watch.messages[m].attempt
    /\ \A a \in AttemptRefs :
          /\ watch.attempts[a].state # "absent" =>
                heard.attempts[a].state = watch.attempts[a].state
          /\ watch.checkpoints[a] \subseteq heard.checkpoints[a]

\* The client knows the message of each attempt it knows, and the attempt of
\* each checkpoint.
HeardRooted ==
    \A a \in AttemptRefs :
        /\ heard.checkpoints[a] # {} => heard.attempts[a].state # "absent"
        /\ heard.attempts[a].state # "absent" =>
              /\ heard.attempts[a].msg \in MessageRefs
              /\ heard.messages[heard.attempts[a].msg].state # "absent"

WatchTypes ==
    /\ DOMAIN shot = {"requests", "messages", "attempts", "checkpoints", "deadLetters"}
    /\ DOMAIN watch = {"phase", "filter", "read", "missing", "messages", "attempts",
                       "checkpoints"}
    /\ watch.read \in 0..4

ViewsInv ==
    /\ StepsInv
    /\ WatchTypes
    /\ watch.phase # "closed" /\ watch.missing = {} => ShotSound
    /\ Remembered
    /\ HeardRooted
    /\ ClientIsCurrent

\* A watch begins with nothing, and its client knows nothing.
LEMMA ViewsInitInv == StepsInit /\ ViewsInit => ViewsInv
<1> SUFFICES ASSUME StepsInit, ViewsInit PROVE ViewsInv
  OBVIOUS
<1>1. PICK f \in Filters : watch = Closed(f)
  BY DEF ViewsInit
<1>2. /\ shot = EmptyStore
      /\ watch.phase = "closed" /\ watch.read = 0
      /\ DOMAIN watch = {"phase", "filter", "read", "missing", "messages", "attempts",
                         "checkpoints"}
      /\ \A m \in MessageRefs : watch.messages[m].state = "absent"
      /\ \A a \in AttemptRefs : watch.attempts[a].state = "absent" /\ watch.checkpoints[a] = {}
  BY <1>1 DEF ViewsInit, Closed, EmptyStore, AbsentMessage, AbsentAttempt
<1>3. WatchTypes
  BY <1>2 DEF WatchTypes, EmptyStore
<1>4. /\ \A m \in MessageRefs : heard.messages[m].state = "absent"
      /\ \A a \in AttemptRefs : heard.attempts[a].state = "absent" /\ heard.checkpoints[a] = {}
  BY DEF ViewsInit
<1>5. Remembered /\ HeardRooted /\ ClientIsCurrent
  BY <1>2, <1>4 DEF Remembered, HeardRooted, ClientIsCurrent
<1> QED BY <1>2, <1>3, <1>5, StepsInitInv DEF ViewsInv

\* What is read stays sound while requests change the ledger.
LEMMA RequestsSound ==
    ASSUME ViewsInv, StepsNext, UNCHANGED <<shot, watch, heard>>
    PROVE  ViewsInv'
<1>1. StepsInv' /\ Grows(store, store')
  BY StepsOnward DEF ViewsInv, Onward
<1>2. store \in Store /\ store' \in Store /\ Sound(store)
  BY <1>1 DEF ViewsInv, StepsInv, Inv, TypeOK
<1>3. ASSUME ShotSound PROVE ShotSound'
  <2> SUFFICES ASSUME NEW m \in MessageRefs
               PROVE  LET rec == shot.messages[m] IN
                      /\ watch.read >= 1 => rec \in Message /\ RecordSound(store', m, rec)
                      /\ watch.read >= 2 => /\ RecordLinked(shot, m, rec)
                                            /\ rec.state = "completed" => CompletionAhead(m)'
                      /\ watch.read >= 3 => RecordCompletionBacked(shot, m, rec)
                      /\ watch.read >= 4 => RecordStateBacked(shot, m, rec)
    BY DEF ShotSound
  <2> DEFINE rec == shot.messages[m]
  <2>1. watch.read >= 1 => rec \in Message /\ RecordSound(store, m, rec)
    BY <1>3 DEF ShotSound
  <2>2. watch.read >= 1 => RecordSound(store', m, rec)
    BY <2>1, <1>1, <1>2, RecordStays
  <2>3. CompletionAhead(m) => CompletionAhead(m)'
    BY <1>1 DEF CompletionAhead, Grows
  <2> QED BY <1>3, <2>1, <2>2, <2>3 DEF ShotSound
<1>4. WatchTypes' /\ Remembered' /\ HeardRooted'
  BY DEF ViewsInv, WatchTypes, Remembered, HeardRooted
<1>5. ClientIsCurrent'
  BY DEF ViewsInv, ClientIsCurrent, EventMessageRefs, EventAttemptRefs, EventMessageMatches
<1> QED BY <1>1, <1>3, <1>4, <1>5 DEF ViewsInv

-----------------------------------------------------------------------------
(* The steps of a watch.                                                   *)

\* A watch changes nothing in the ledger.
LEMMA LedgerStays ==
    ASSUME ViewsInv, UNCHANGED StepVars
    PROVE  StepsInv'
BY StepsOnward DEF ViewsInv, Onward

\* Until the news are told, the watch and its client remember the same.
LEMMA ReadingSound ==
    ASSUME ViewsInv, UNCHANGED <<StepVars, heard>>, WatchTypes',
           watch'.phase = "reading", watch'.missing = {} => ShotSound',
           watch'.messages = watch.messages, watch'.attempts = watch.attempts,
           watch'.checkpoints = watch.checkpoints
    PROVE  ViewsInv'
<1>1. StepsInv'
  BY LedgerStays
<1>2. Remembered' /\ HeardRooted'
  BY DEF ViewsInv, Remembered, HeardRooted
<1>3. ClientIsCurrent'
  BY DEF ClientIsCurrent
<1> QED BY <1>1, <1>2, <1>3 DEF ViewsInv

\* The tables, in their order.
LEMMA TablesAre ==
    /\ Len(Tables) = 4 /\ Tables[1] = "messages" /\ Tables[2] = "attempts"
    /\ Tables[3] = "checkpoints" /\ Tables[4] = "deadLetters"
BY DEF Tables

\* A poll begins with an empty snapshot.
LEMMA StartPollSound ==
    ASSUME ViewsInv, StartPoll
    PROVE  ViewsInv'
<1>1. DOMAIN watch = {"phase", "filter", "read", "missing", "messages", "attempts",
                      "checkpoints"}
  BY DEF ViewsInv, WatchTypes
<1>2. /\ watch'.phase = "reading" /\ watch'.read = 0 /\ DOMAIN watch' = DOMAIN watch
      /\ watch'.messages = watch.messages /\ watch'.attempts = watch.attempts
      /\ watch'.checkpoints = watch.checkpoints
  BY <1>1 DEF StartPoll
<1>3. WatchTypes'
  BY <1>1, <1>2 DEF StartPoll, WatchTypes, EmptyStore
<1>4. ShotSound'
  BY <1>2 DEF ShotSound
<1> QED BY <1>2, <1>3, <1>4, ReadingSound DEF StartPoll

\* Whatever requests did since the last table was read, the next one has what
\* the messages in the snapshot need of it.
LEMMA ReadTableSound ==
    ASSUME ViewsInv, ReadTable
    PROVE  ViewsInv'
<1>1. /\ watch.phase = "reading" /\ watch.read \in 0..3
      /\ UNCHANGED <<StepVars, heard>> /\ store' = store
  <2>1. watch.phase = "reading" /\ UNCHANGED <<StepVars, heard>>
    BY DEF ReadTable
  <2>2. watch.read \in 0..4 /\ watch.read < 4
    BY TablesAre DEF ReadTable, ViewsInv, WatchTypes
  <2> QED BY <2>1, <2>2 DEF StepVars
<1>2. /\ DOMAIN watch = {"phase", "filter", "read", "missing", "messages", "attempts",
                         "checkpoints"}
      /\ DOMAIN shot = {"requests", "messages", "attempts", "checkpoints", "deadLetters"}
  BY DEF ViewsInv, WatchTypes
<1>3. /\ watch'.phase = "reading" /\ watch'.read = watch.read + 1
      /\ DOMAIN watch' = DOMAIN watch /\ watch'.missing = watch.missing
      /\ watch'.messages = watch.messages /\ watch'.attempts = watch.attempts
      /\ watch'.checkpoints = watch.checkpoints
  BY <1>1, <1>2 DEF ReadTable
<1>4. /\ DOMAIN shot' = DOMAIN shot
      /\ shot'.messages = IF watch.read = 0 THEN store.messages ELSE shot.messages
      /\ shot'.attempts = IF watch.read = 1 THEN store.attempts ELSE shot.attempts
      /\ shot'.checkpoints = IF watch.read = 2 THEN store.checkpoints ELSE shot.checkpoints
      /\ shot'.deadLetters = IF watch.read = 3 THEN store.deadLetters ELSE shot.deadLetters
  <2>1. shot' = [shot EXCEPT ![Tables[watch.read + 1]] = store[Tables[watch.read + 1]],
                           !.requests = IF Tables[watch.read + 1] = "messages"
                                        THEN store.requests ELSE @]
    BY DEF ReadTable
  <2>2. CASE watch.read = 0
    <3>1. Tables[watch.read + 1] = "messages"
      BY <2>2, TablesAre
    <3>2. shot' = [shot EXCEPT !.messages = store.messages, !.requests = shot'.requests]
      BY <1>2, <2>1, <3>1
    <3>3. /\ shot'.messages = store.messages /\ shot'.attempts = shot.attempts
          /\ shot'.checkpoints = shot.checkpoints /\ shot'.deadLetters = shot.deadLetters
      BY <1>2, <3>2
    <3>4. DOMAIN shot' = DOMAIN shot
      BY <3>2
    <3> QED BY <2>2, <3>3, <3>4
  <2>3. CASE watch.read = 1
    <3>1. Tables[watch.read + 1] = "attempts"
      BY <2>3, TablesAre
    <3>2. shot' = [shot EXCEPT !.attempts = store.attempts, !.requests = shot'.requests]
      BY <1>2, <2>1, <3>1
    <3>3. /\ shot'.messages = shot.messages /\ shot'.attempts = store.attempts
          /\ shot'.checkpoints = shot.checkpoints /\ shot'.deadLetters = shot.deadLetters
      BY <1>2, <3>2
    <3>4. DOMAIN shot' = DOMAIN shot
      BY <3>2
    <3> QED BY <2>3, <3>3, <3>4
  <2>4. CASE watch.read = 2
    <3>1. Tables[watch.read + 1] = "checkpoints"
      BY <2>4, TablesAre
    <3>2. shot' = [shot EXCEPT !.checkpoints = store.checkpoints, !.requests = shot'.requests]
      BY <1>2, <2>1, <3>1
    <3>3. /\ shot'.messages = shot.messages /\ shot'.attempts = shot.attempts
          /\ shot'.checkpoints = store.checkpoints /\ shot'.deadLetters = shot.deadLetters
      BY <1>2, <3>2
    <3>4. DOMAIN shot' = DOMAIN shot
      BY <3>2
    <3> QED BY <2>4, <3>3, <3>4
  <2>5. CASE watch.read = 3
    <3>1. Tables[watch.read + 1] = "deadLetters"
      BY <2>5, TablesAre
    <3>2. shot' = [shot EXCEPT !.deadLetters = store.deadLetters, !.requests = shot'.requests]
      BY <1>2, <2>1, <3>1
    <3>3. /\ shot'.messages = shot.messages /\ shot'.attempts = shot.attempts
          /\ shot'.checkpoints = shot.checkpoints /\ shot'.deadLetters = store.deadLetters
      BY <1>2, <3>2
    <3>4. DOMAIN shot' = DOMAIN shot
      BY <3>2
    <3> QED BY <2>5, <3>3, <3>4
  <2> QED BY <1>1, <2>2, <2>3, <2>4, <2>5
<1>5. WatchTypes'
  BY <1>1, <1>2, <1>3, <1>4 DEF WatchTypes
<1>6. ASSUME watch.missing = {}, NEW m \in MessageRefs
      PROVE  LET rec == shot'.messages[m] IN
             /\ rec \in Message /\ RecordSound(store, m, rec)
             /\ watch.read >= 1 => /\ RecordLinked(shot', m, rec)
                                   /\ rec.state = "completed" => CompletionAhead(m)'
             /\ watch.read >= 2 => RecordCompletionBacked(shot', m, rec)
             /\ watch.read >= 3 => RecordStateBacked(shot', m, rec)
  <2>1. LET rec == shot.messages[m] IN
        /\ watch.read >= 1 => rec \in Message /\ RecordSound(store, m, rec)
        /\ watch.read >= 2 => /\ RecordLinked(shot, m, rec)
                              /\ rec.state = "completed" => CompletionAhead(m)
        /\ watch.read >= 3 => RecordCompletionBacked(shot, m, rec)
    BY <1>1, <1>6 DEF ViewsInv, ShotSound
  <2>2. CASE watch.read = 0
    <3>1. store.messages[m] \in Message /\ RecordSound(store, m, store.messages[m])
      BY StoreParts DEF ViewsInv, StepsInv, Inv, TypeOK, Sound
    <3> QED BY <1>4, <2>2, <3>1
  <2>3. CASE watch.read = 1
    <3>1. shot'.attempts = store.attempts /\ shot'.messages = shot.messages
      BY <1>4, <2>3
    <3>2. RecordLinked(shot', m, shot.messages[m])
      BY <2>1, <2>3, <3>1 DEF RecordSound, RecordLinked
    <3>3. shot.messages[m].state = "completed" => CompletionAhead(m)'
      BY <1>1, <2>1, <2>3, <3>1
         DEF RecordSound, RecordCompletionBacked, CompletionRecorded, CompletionAhead
    <3> QED BY <2>1, <2>3, <3>1, <3>2, <3>3
  <2>4. CASE watch.read = 2
    <3>1. /\ shot'.attempts = shot.attempts /\ shot'.messages = shot.messages
          /\ shot'.checkpoints = store.checkpoints
      BY <1>4, <2>4
    <3>2. RecordLinked(shot', m, shot.messages[m])
      BY <2>1, <2>4, <3>1 DEF RecordLinked
    <3>3. shot.messages[m].state = "completed" => CompletionAhead(m)'
      BY <1>1, <2>1, <2>4, <3>1 DEF CompletionAhead
    <3>4. RecordCompletionBacked(shot', m, shot.messages[m])
      BY <1>1, <3>1, <3>3 DEF CompletionAhead, RecordCompletionBacked, CompletionRecorded
    <3> QED BY <2>1, <2>4, <3>1, <3>2, <3>3, <3>4
  <2>5. CASE watch.read = 3
    <3>1. /\ shot'.attempts = shot.attempts /\ shot'.messages = shot.messages
          /\ shot'.checkpoints = shot.checkpoints /\ shot'.deadLetters = store.deadLetters
      BY <1>4, <2>5
    <3>2. RecordLinked(shot', m, shot.messages[m])
      BY <2>1, <2>5, <3>1 DEF RecordLinked
    <3>3. shot.messages[m].state = "completed" => CompletionAhead(m)'
      BY <1>1, <2>1, <2>5, <3>1 DEF CompletionAhead
    <3>4. RecordCompletionBacked(shot', m, shot.messages[m])
      BY <2>1, <2>5, <3>1 DEF RecordCompletionBacked, CompletionRecorded
    <3>5. RecordStateBacked(shot', m, shot.messages[m])
      BY <2>1, <2>5, <3>1 DEF RecordSound, RecordStateBacked, DeadLettered
    <3> QED BY <2>1, <2>5, <3>1, <3>2, <3>3, <3>4, <3>5
  <2> QED BY <1>1, <2>2, <2>3, <2>4, <2>5
<1>7. watch'.missing = {} => ShotSound'
  BY <1>1, <1>3, <1>6 DEF ShotSound
<1> QED BY <1>1, <1>3, <1>5, <1>7, ReadingSound

\* A snapshot without one of its tables promises nothing.
LEMMA LoseTableSound ==
    ASSUME ViewsInv, LoseTable
    PROVE  ViewsInv'
<1>1. /\ DOMAIN watch = {"phase", "filter", "read", "missing", "messages", "attempts",
                         "checkpoints"}
      /\ watch.read \in 0..3
  BY TablesAre DEF LoseTable, ViewsInv, WatchTypes
<1>2. /\ watch'.phase = "reading" /\ watch'.read = watch.read + 1 /\ watch'.missing # {}
      /\ DOMAIN watch' = DOMAIN watch
      /\ watch'.messages = watch.messages /\ watch'.attempts = watch.attempts
      /\ watch'.checkpoints = watch.checkpoints
  BY <1>1 DEF LoseTable
<1>3. WatchTypes'
  BY <1>1, <1>2 DEF LoseTable, ViewsInv, WatchTypes
<1> QED BY <1>2, <1>3, ReadingSound DEF LoseTable

\* The memory store copies a sound ledger at once.
LEMMA CopyStoreSound ==
    ASSUME ViewsInv, CopyStore
    PROVE  ViewsInv'
<1>1. DOMAIN watch = {"phase", "filter", "read", "missing", "messages", "attempts",
                      "checkpoints"}
  BY DEF ViewsInv, WatchTypes
<1>2. /\ watch'.phase = "reading" /\ watch'.read = 4 /\ DOMAIN watch' = DOMAIN watch
      /\ watch'.messages = watch.messages /\ watch'.attempts = watch.attempts
      /\ watch'.checkpoints = watch.checkpoints /\ shot' = store /\ store' = store
  BY <1>1, TablesAre DEF CopyStore, StepVars
<1>3. store \in Store /\ Sound(store)
  BY DEF ViewsInv, StepsInv, Inv, TypeOK
<1>4. WatchTypes'
  BY <1>1, <1>2, <1>3 DEF WatchTypes, Store
<1>5. ASSUME NEW m \in MessageRefs
      PROVE  /\ store.messages[m] \in Message /\ RecordSound(store, m, store.messages[m])
             /\ shot'.messages[m].state = "completed" => CompletionAhead(m)'
  BY <1>2, <1>3, StoreParts
     DEF Sound, RecordSound, RecordCompletionBacked, CompletionRecorded, CompletionAhead
<1>6. ShotSound'
  BY <1>2, <1>5 DEF ShotSound, RecordSound
<1> QED BY <1>2, <1>4, <1>6, ReadingSound DEF CopyStore

\* A watch that closes remembers nothing; what its client was told is rooted
\* by then.
LEMMA ClosingSound ==
    ASSUME ViewsInv, UNCHANGED StepVars, shot' = EmptyStore,
           watch' = Closed(watch.filter), HeardRooted'
    PROVE  ViewsInv'
<1>1. StepsInv'
  BY LedgerStays
<1>2. /\ watch'.phase = "closed" /\ watch'.read = 0
      /\ DOMAIN watch' = {"phase", "filter", "read", "missing", "messages", "attempts",
                          "checkpoints"}
      /\ \A m \in MessageRefs : watch'.messages[m].state = "absent"
      /\ \A a \in AttemptRefs : watch'.attempts[a].state = "absent" /\ watch'.checkpoints[a] = {}
  BY DEF Closed, EmptyStore, AbsentMessage, AbsentAttempt
<1>3. WatchTypes'
  BY <1>2 DEF WatchTypes, EmptyStore
<1>4. Remembered' /\ ClientIsCurrent'
  BY <1>2 DEF Remembered, ClientIsCurrent
<1> QED BY <1>1, <1>2, <1>3, <1>4 DEF ViewsInv

\* What the snapshot has of a message that matches, the client knows after the
\* first group of events, as it did if it is no news.
LEMMA MessagesHeard ==
    ASSUME ViewsInv, NEW groups \in 0..3
    PROVE  LET told == Hears(groups) IN
           \A m \in MessageRefs :
              /\ heard.messages[m].state # "absent" => told.messages[m].state # "absent"
              /\ m \in EventMessageRefs /\ groups >= 1 =>
                    /\ told.messages[m].state = shot.messages[m].state
                    /\ told.messages[m].attempt = shot.messages[m].attempt
              /\ m \notin EventMessageRefs => told.messages[m] = heard.messages[m]
<1> DEFINE told == Hears(groups)
<1>1. \A m \in MessageRefs :
          told.messages[m] = IF m \in MessageNews /\ groups >= 1
                             THEN [state |-> shot.messages[m].state,
                                   attempt |-> shot.messages[m].attempt]
                             ELSE heard.messages[m]
  BY DEF Hears
<1> HIDE DEF told
<1>2. ASSUME NEW m \in MessageRefs, m \in MessageNews, groups >= 1
      PROVE  /\ told.messages[m].state = shot.messages[m].state
             /\ told.messages[m].attempt = shot.messages[m].attempt
             /\ shot.messages[m].state # "absent"
  <2>1. told.messages[m] = [state |-> shot.messages[m].state, attempt |-> shot.messages[m].attempt]
    BY <1>1, <1>2
  <2>2. shot.messages[m].state # "absent"
    BY <1>2 DEF MessageNews, EventMessageRefs, Saved
  <2> QED BY <2>1, <2>2
<1>3. ASSUME NEW m \in MessageRefs, m \in EventMessageRefs, m \notin MessageNews
      PROVE  /\ heard.messages[m].state = shot.messages[m].state
             /\ heard.messages[m].attempt = shot.messages[m].attempt
  BY <1>3 DEF MessageNews, EventMessageRefs, Saved, ViewsInv, Remembered
<1>4. MessageNews \subseteq EventMessageRefs
  BY DEF MessageNews
<1>5. ASSUME NEW m \in MessageRefs
      PROVE  /\ heard.messages[m].state # "absent" => told.messages[m].state # "absent"
             /\ m \in EventMessageRefs /\ groups >= 1 =>
                   /\ told.messages[m].state = shot.messages[m].state
                   /\ told.messages[m].attempt = shot.messages[m].attempt
             /\ m \notin EventMessageRefs => told.messages[m] = heard.messages[m]
  BY <1>1, <1>2, <1>3, <1>4
<1> QED BY <1>5 DEF told

\* The same of attempts and of checkpoints.
LEMMA AttemptsHeard ==
    ASSUME ViewsInv, NEW groups \in 0..3
    PROVE  LET told == Hears(groups) IN
           \A a \in AttemptRefs :
              /\ \/ told.attempts[a] = heard.attempts[a]
                 \/ /\ groups >= 2 /\ a \in EventAttemptRefs
                    /\ told.attempts[a] = [state |-> shot.attempts[a].state,
                                           msg |-> shot.attempts[a].msg]
              /\ a \in EventAttemptRefs /\ groups >= 2 =>
                    told.attempts[a].state = shot.attempts[a].state
              /\ a \notin EventAttemptRefs => told.attempts[a] = heard.attempts[a]
              /\ told.checkpoints[a] = heard.checkpoints[a] \cup
                     IF groups >= 3 THEN CheckpointNews(a) ELSE {}
<1> DEFINE told == Hears(groups)
<1>1. \A a \in AttemptRefs :
          /\ told.attempts[a] = IF a \in AttemptNews /\ groups >= 2
                                THEN [state |-> shot.attempts[a].state,
                                      msg |-> shot.attempts[a].msg]
                                ELSE heard.attempts[a]
          /\ told.checkpoints[a] = heard.checkpoints[a] \cup
                 IF groups >= 3 THEN CheckpointNews(a) ELSE {}
  BY DEF Hears
<1> HIDE DEF told
<1>2. ASSUME NEW a \in AttemptRefs, a \in EventAttemptRefs, a \notin AttemptNews
      PROVE  heard.attempts[a].state = shot.attempts[a].state
  <2>1. watch.attempts[a].state = shot.attempts[a].state
    BY <1>2 DEF AttemptNews, Compared
  <2>2. shot.attempts[a].state # "absent"
    BY <1>2 DEF EventAttemptRefs, Exists
  <2> QED BY <2>1, <2>2 DEF ViewsInv, Remembered
<1>3. AttemptNews \subseteq EventAttemptRefs
  BY DEF AttemptNews
<1>4. ASSUME NEW a \in AttemptRefs
      PROVE  /\ \/ told.attempts[a] = heard.attempts[a]
                \/ /\ groups >= 2 /\ a \in EventAttemptRefs
                   /\ told.attempts[a] = [state |-> shot.attempts[a].state,
                                          msg |-> shot.attempts[a].msg]
             /\ a \in EventAttemptRefs /\ groups >= 2 =>
                   told.attempts[a].state = shot.attempts[a].state
             /\ a \notin EventAttemptRefs => told.attempts[a] = heard.attempts[a]
             /\ told.checkpoints[a] = heard.checkpoints[a] \cup
                    IF groups >= 3 THEN CheckpointNews(a) ELSE {}
  BY <1>1, <1>2, <1>3
<1> QED BY <1>4 DEF told

\* Wherever the events break off, what was told is rooted.
LEMMA HearsRooted ==
    ASSUME ViewsInv, NEW groups \in 0..3, heard' = Hears(groups)
    PROVE  HeardRooted'
<1>1. \A m \in MessageRefs :
          /\ heard.messages[m].state # "absent" => heard'.messages[m].state # "absent"
          /\ m \in EventMessageRefs /\ groups >= 1 =>
                heard'.messages[m].state = shot.messages[m].state
  BY MessagesHeard
<1>2. \A a \in AttemptRefs :
          /\ \/ heard'.attempts[a] = heard.attempts[a]
             \/ /\ groups >= 2 /\ a \in EventAttemptRefs
                /\ heard'.attempts[a] = [state |-> shot.attempts[a].state,
                                         msg |-> shot.attempts[a].msg]
          /\ a \in EventAttemptRefs /\ groups >= 2 =>
                heard'.attempts[a].state = shot.attempts[a].state
          /\ heard'.checkpoints[a] = heard.checkpoints[a] \cup
                 IF groups >= 3 THEN CheckpointNews(a) ELSE {}
  BY AttemptsHeard
<1>3. ASSUME NEW a \in AttemptRefs, a \in EventAttemptRefs
      PROVE  /\ shot.attempts[a].state # "absent"
             /\ shot.attempts[a].msg \in MessageRefs
             /\ shot.attempts[a].msg \in EventMessageRefs
             /\ shot.messages[shot.attempts[a].msg].state # "absent"
  BY <1>3 DEF EventAttemptRefs, EventMessageRefs, Exists, Saved
<1>4. ASSUME NEW a \in AttemptRefs
      PROVE  /\ heard.attempts[a].state # "absent" => heard'.attempts[a].state # "absent"
             /\ heard'.attempts[a].state # "absent" =>
                   /\ heard'.attempts[a].msg \in MessageRefs
                   /\ heard'.messages[heard'.attempts[a].msg].state # "absent"
  <2>1. CASE heard'.attempts[a] = heard.attempts[a]
    BY <1>1, <2>1 DEF ViewsInv, HeardRooted
  <2>2. CASE /\ groups >= 2 /\ a \in EventAttemptRefs
             /\ heard'.attempts[a] = [state |-> shot.attempts[a].state,
                                      msg |-> shot.attempts[a].msg]
    <3>1. heard'.attempts[a].state = shot.attempts[a].state
      BY <2>2
    <3>2. heard'.attempts[a].msg = shot.attempts[a].msg
      BY <2>2
    <3> QED BY <1>1, <1>3, <2>2, <3>1, <3>2
  <2> QED BY <1>2, <2>1, <2>2
<1>5. ASSUME NEW a \in AttemptRefs, heard'.checkpoints[a] # {}
      PROVE  heard'.attempts[a].state # "absent"
  <2>1. CASE heard.checkpoints[a] # {}
    BY <1>4, <2>1 DEF ViewsInv, HeardRooted
  <2>2. CASE heard.checkpoints[a] = {}
    <3>1. groups >= 3 /\ CheckpointNews(a) # {}
      BY <1>2, <1>5, <2>2
    <3>2. a \in EventAttemptRefs
      BY <3>1 DEF CheckpointNews
    <3>3. groups >= 2
      BY <3>1
    <3>4. heard'.attempts[a].state = shot.attempts[a].state
      BY <1>2, <3>2, <3>3
    <3> QED BY <1>3, <3>2, <3>4
  <2> QED BY <2>1, <2>2
<1> QED BY <1>4, <1>5 DEF HeardRooted

\* A client that was told all the news is current.
LEMMA TellNewsSound ==
    ASSUME ViewsInv, TellNews
    PROVE  ViewsInv'
<1>1. /\ UNCHANGED <<StepVars, shot>> /\ heard' = Hears(3) /\ shot' = shot
      /\ watch.phase = "reading" /\ 3 \in 0..3
  BY DEF TellNews
<1>2. StepsInv' /\ HeardRooted'
  BY <1>1, LedgerStays, HearsRooted
<1>3. DOMAIN watch = {"phase", "filter", "read", "missing", "messages", "attempts",
                      "checkpoints"}
  BY DEF ViewsInv, WatchTypes
<1>4. /\ DOMAIN watch' = DOMAIN watch /\ watch'.read = watch.read
      /\ watch'.missing = watch.missing /\ watch'.filter = watch.filter
  BY <1>3 DEF TellNews
<1>5. /\ \A m \in MessageRefs : watch'.messages[m] =
             IF m \in EventMessageRefs THEN shot.messages[m] ELSE watch.messages[m]
      /\ \A a \in AttemptRefs :
            /\ watch'.attempts[a] =
                   IF a \in EventAttemptRefs THEN shot.attempts[a] ELSE watch.attempts[a]
            /\ watch'.checkpoints[a] = watch.checkpoints[a] \cup CheckpointNews(a)
  BY <1>3 DEF TellNews
<1>6. WatchTypes'
  BY <1>1, <1>4 DEF ViewsInv, WatchTypes
<1>7. watch'.missing = {} => ShotSound'
  <2>1. store' = store
    BY <1>1 DEF StepVars
  <2> QED BY <1>1, <1>4, <2>1 DEF ViewsInv, ShotSound, CompletionAhead
<1>8. \A m \in MessageRefs :
          /\ m \in EventMessageRefs => /\ heard'.messages[m].state = shot.messages[m].state
                                       /\ heard'.messages[m].attempt = shot.messages[m].attempt
          /\ m \notin EventMessageRefs => heard'.messages[m] = heard.messages[m]
  BY <1>1, MessagesHeard
<1>9. \A a \in AttemptRefs :
          /\ a \in EventAttemptRefs => heard'.attempts[a].state = shot.attempts[a].state
          /\ a \notin EventAttemptRefs => heard'.attempts[a] = heard.attempts[a]
          /\ heard'.checkpoints[a] = heard.checkpoints[a] \cup CheckpointNews(a)
  <2>1. \A a \in AttemptRefs :
            /\ a \in EventAttemptRefs /\ 3 >= 2 => heard'.attempts[a].state = shot.attempts[a].state
            /\ a \notin EventAttemptRefs => heard'.attempts[a] = heard.attempts[a]
    BY <1>1, AttemptsHeard
  <2>2. \A a \in AttemptRefs : heard'.checkpoints[a] = heard.checkpoints[a] \cup CheckpointNews(a)
    BY <1>1 DEF Hears
  <2> QED BY <2>1, <2>2
<1>10. Remembered'
  <2>1. ASSUME NEW m \in MessageRefs, watch'.messages[m].state # "absent"
        PROVE  /\ heard'.messages[m].state = watch'.messages[m].state
               /\ heard'.messages[m].attempt = watch'.messages[m].attempt
    BY <1>5, <1>8, <2>1 DEF ViewsInv, Remembered
  <2>2. ASSUME NEW a \in AttemptRefs
        PROVE  /\ watch'.attempts[a].state # "absent" =>
                     heard'.attempts[a].state = watch'.attempts[a].state
               /\ watch'.checkpoints[a] \subseteq heard'.checkpoints[a]
    BY <1>5, <1>9 DEF ViewsInv, Remembered
  <2> QED BY <2>1, <2>2 DEF Remembered
<1>11. ClientIsCurrent'
  <2>1. EventMessageRefs' = EventMessageRefs /\ EventAttemptRefs' = EventAttemptRefs
    BY <1>1, <1>4 DEF EventMessageRefs, EventAttemptRefs, EventMessageMatches
  <2>2. ASSUME NEW a \in EventAttemptRefs
        PROVE  1..shot.checkpoints[a].count \subseteq heard'.checkpoints[a]
    <3>1. a \in AttemptRefs
      BY DEF EventAttemptRefs
    <3>2. CheckpointNews(a) = (1..shot.checkpoints[a].count) \ watch.checkpoints[a]
      BY DEF CheckpointNews
    <3>3. watch.checkpoints[a] \subseteq heard.checkpoints[a]
      BY <3>1 DEF ViewsInv, Remembered
    <3> QED BY <1>9, <3>1, <3>2, <3>3
  <2>3. EventMessageRefs \subseteq MessageRefs /\ EventAttemptRefs \subseteq AttemptRefs
    BY DEF EventMessageRefs, EventAttemptRefs
  <2> QED BY <1>1, <1>8, <1>9, <2>1, <2>2, <2>3 DEF ClientIsCurrent
<1> QED BY <1>2, <1>6, <1>7, <1>10, <1>11 DEF ViewsInv

\* The other steps close the watch.
LEMMA ClosesSound ==
    ASSUME ViewsInv, PollFails \/ StreamBreaks \/ EndWatch
    PROVE  ViewsInv'
<1>1. CASE PollFails \/ EndWatch
  <2>1. heard' = heard /\ UNCHANGED StepVars
    BY <1>1 DEF PollFails, EndWatch
  <2>2. HeardRooted'
    BY <2>1 DEF ViewsInv, HeardRooted
  <2> QED BY <1>1, <2>1, <2>2, ClosingSound DEF PollFails, EndWatch
<1>2. CASE StreamBreaks
  <2>1. PICK groups \in 0..2 : heard' = Hears(groups)
    BY <1>2 DEF StreamBreaks
  <2>2. groups \in 0..3
    OBVIOUS
  <2>3. HeardRooted'
    BY <2>1, <2>2, HearsRooted
  <2> QED BY <1>2, <2>3, ClosingSound DEF StreamBreaks
<1> QED BY <1>1, <1>2

\* Everything between watches, queries and events, and while requests go on.
LEMMA ViewsNextInv == ViewsInv /\ [ViewsNext]_ViewVars => ViewsInv'
<1> SUFFICES ASSUME ViewsInv, [ViewsNext]_ViewVars PROVE ViewsInv'
  OBVIOUS
<1>1. CASE UNCHANGED ViewVars
  <2>1. UNCHANGED StepVars /\ UNCHANGED <<shot, watch, heard>> /\ store' = store
    BY <1>1 DEF ViewVars, StepVars
  <2>2. StepsInv'
    BY <2>1, LedgerStays
  <2> QED BY <2>1, <2>2 DEF ViewsInv, WatchTypes, ShotSound, CompletionAhead, Remembered,
          HeardRooted, ClientIsCurrent, EventMessageRefs, EventAttemptRefs, EventMessageMatches
<1>2. CASE StepsNext /\ UNCHANGED <<shot, watch, heard>>
  BY <1>2, RequestsSound
<1>3. CASE WatchNext
  BY <1>3, StartPollSound, ReadTableSound, LoseTableSound, CopyStoreSound, TellNewsSound,
     ClosesSound DEF WatchNext
<1> QED BY <1>1, <1>2, <1>3 DEF ViewsNext

\* What a watch has read, remembers and told stays true to the ledger, for any
\* number of requests in flight and any filter.
THEOREM ViewsInvHolds == ViewsSpec => []ViewsInv
<1> QED BY ViewsInitInv, ViewsNextInv, PTL DEF ViewsSpec

\* A snapshot whose tables were read at different moments, with requests served
\* in between and half done, is closed all the same.
THEOREM SnapshotsAreClosed == ViewsSpec => []SnapshotIsClosed
<1>1. ViewsInv => SnapshotIsClosed
  BY TablesAre DEF ViewsInv, ShotSound, SnapshotIsClosed, SnapshotRead, RecordSound
<1> QED BY <1>1, ViewsInvHolds, PTL

\* A client that follows the ledger misses no change, across failed polls and
\* broken streams.
THEOREM ClientsAreCurrent == ViewsSpec => []ClientIsCurrent
<1>1. ViewsInv => ClientIsCurrent
  BY DEF ViewsInv
<1> QED BY <1>1, ViewsInvHolds, PTL

\* It is told of nothing before what that belongs to, where a table is missing
\* and where the stream breaks half way.
THEOREM EventsHaveRoots == ViewsSpec => []EventsAreRooted
<1>1. ViewsInv => EventsAreRooted
  BY DEF ViewsInv, HeardRooted, EventsAreRooted
<1> QED BY <1>1, ViewsInvHolds, PTL

-----------------------------------------------------------------------------
(* The executors.                                                          *)

ExecutionTypes ==
    /\ run \in [pc : {"idle", "select", "grace", "kill", "collect", "post", "returned"},
                kind : Kind, skill : SkillMatch, ctx : {"live", "deadline", "canceled"},
                scan : {"reads", "posts", "done"}, open : BOOLEAN,
                fetched : Nat, kept : Nat, reaped : BOOLEAN, interrupted : BOOLEAN]
    /\ child \in [state : {"none", "runs", "exited"}, code : {-1, 0, 1},
                  signal : {"none", "term", "kill"}, wrote : Nat, heir : BOOLEAN]

\* What an executor knows of its child, by the place it has come to.
ProcessSound ==
    /\ run.pc \in {"idle", "post"} => ~HasChild
    /\ ~HasChild => child = NoChild
    /\ run.pc \in {"select", "grace", "kill", "collect"} =>
          HasChild /\ run.kind \in {"command", "ai_cli"}
    /\ HasChild => run.kind \in {"command", "ai_cli"}
    /\ run.kind = "command" => run.pc \in {"idle", "select", "returned"}
    /\ run.kept <= run.fetched /\ run.fetched <= child.wrote
    /\ run.reaped => child.state = "exited"
    /\ run.pc = "collect" => run.reaped
    /\ run.kind = "ai_cli" /\ run.pc \in {"select", "grace", "kill"} => ~run.interrupted
    /\ run.pc \in {"grace", "kill"} \/ run.interrupted => run.ctx # "live"
    /\ Executing /\ child.signal # "none" =>
          run.interrupted \/ run.pc \in {"grace", "kill"}

ExecutionInv == ExecutionTypes /\ ProcessSound /\ ResultIsOfItsProcess

Result(outcome, reason, lines) ==
    [outcome : {outcome}, reason : {reason}, lines : {lines}, used : BOOLEAN]

\* The records that a result is made of.
LEMMA ResultParts ==
    ASSUME NEW reason, NEW lines
    PROVE  /\ FailedResult(reason, lines) \in Result("failed", reason, lines)
           /\ PartialResult(reason, lines) \in Result("partial_completed", reason, lines)
           /\ CompletedResult(lines) \in Result("completed", "", lines)
           /\ MissingFields \in Result("missing_fields", "", 0)
<1>1. NoResult \in Result("none", "", 0)
  BY DEF NoResult, Result
<1>2. FailedResult(reason, lines) \in Result("failed", reason, lines)
  BY <1>1 DEF FailedResult, Result
<1>3. PartialResult(reason, lines) \in Result("partial_completed", reason, lines)
  BY <1>2 DEF PartialResult, Result
<1> QED BY <1>1, <1>2, <1>3 DEF CompletedResult, MissingFields, Result

\* A result with an outcome, and a reason if it failed, is reported as it is.
LEMMA ReportedAsItIs ==
    ASSUME NEW outcome, outcome # "none", NEW reason, outcome = "failed" => reason # "",
           NEW lines, NEW skill, NEW r, r \in Result(outcome, reason, lines)
    PROVE  Validated(Marked(r, skill)) \in Result(outcome, reason, lines)
<1> DEFINE used == skill = "matched"
           marked == [r EXCEPT !.used = used]
<1>1. Marked(r, skill) = marked
  BY DEF Marked
<1>2. used \in BOOLEAN
  OBVIOUS
<1> HIDE DEF used
<1>3. marked \in Result(outcome, reason, lines)
  BY <1>2 DEF Result
<1> HIDE DEF marked
<1>4. Validated(marked) = marked
  BY <1>3 DEF Validated, Result
<1> QED BY <1>1, <1>3, <1>4

\* What the executors make of a message that starts nothing.
LEMMA ResultsOfFaults ==
    ASSUME NEW kind \in Kind, NEW skill, NEW fault \in FaultsOf[kind]
    PROVE  Validated(Marked(IF fault = "none" THEN CompletedResult(0) ELSE ResultOfFault(fault), skill)).outcome
              \in {"completed", "missing_fields", "failed"}
<1>1. kind \in {"echo", "command", "ai_cli", "llm"}
  BY DEF Kind, FaultsOf
<1>2. /\ FaultsOf["echo"] = {"none", "worker.missing_field", "worker.fail"}
      /\ FaultsOf["command"] = {"none", "payload.body", "invalid_json", "command", "not_allowed", "workdir",
                                "not_absolute", "start_failed"}
      /\ FaultsOf["ai_cli"] = {"none", "start_failed"}
      /\ FaultsOf["llm"] = {"none"}
  BY DEF FaultsOf
<1>3. fault # ""
  BY <1>1, <1>2
<1> DEFINE r == IF fault = "none" THEN CompletedResult(0) ELSE ResultOfFault(fault)
<1>4. PICK outcome \in {"completed", "missing_fields", "failed"} :
        \E reason, lines : r \in Result(outcome, reason, lines) /\ (outcome = "failed" => reason # "")
  <2>1. CASE fault = "none"
    BY <2>1, ResultParts
  <2>2. CASE fault \in {"worker.missing_field", "payload.body", "command", "workdir"}
    <3>1. r = MissingFields
      BY <2>2 DEF ResultOfFault
    <3> QED BY <3>1, ResultParts
  <2>3. CASE fault \notin {"none", "worker.missing_field", "payload.body", "command", "workdir"}
    <3>1. r = FailedResult(fault, 0)
      BY <2>3 DEF ResultOfFault
    <3> QED BY <1>3, <3>1, ResultParts
  <2> QED BY <2>1, <2>2, <2>3
<1> HIDE DEF r
<1>5. PICK reason, lines : r \in Result(outcome, reason, lines) /\ (outcome = "failed" => reason # "")
  BY <1>4
<1>6. outcome # "none"
  BY <1>4
<1>7. Validated(Marked(r, skill)) \in Result(outcome, reason, lines)
  BY <1>5, <1>6, ReportedAsItIs
<1> QED BY <1>4, <1>7 DEF r, Result

\* It holds where nothing was started.
LEMMA ExecutionInitInv == ExecutionInit => ExecutionInv
<1> SUFFICES ASSUME ExecutionInit PROVE ExecutionInv
  OBVIOUS
<1>1. "echo" \in Kind
  BY DEF Kind, FaultsOf
<1>2. ExecutionTypes
  BY <1>1 DEF ExecutionInit, ExecutionTypes, NoRun, NoChild, SkillMatch
<1>3. ProcessSound
  BY DEF ExecutionInit, ProcessSound, NoRun, NoChild, HasChild, Executing
<1>4. ResultIsOfItsProcess
  BY DEF ExecutionInit, ResultIsOfItsProcess, NoRun
<1> QED BY <1>2, <1>3, <1>4 DEF ExecutionInv

\* What a command's exit code is told as.
LEMMA ExitReasons ==
    ASSUME NEW code \in {-1, 0, 1}
    PROVE  ExitReason(code) # "" /\ (ExitReason(code) = "exit_nonzero" => code > 0)
BY DEF ExitReason

\* A step that returns the result r.
LEMMA ReturnsSound ==
    ASSUME ExecutionInv, NEW outcome, NEW reason, NEW lines, NEW r,
           r \in Result(outcome, reason, lines), Returns(r), UNCHANGED child, Executing,
           outcome \in {"completed", "partial_completed", "failed"},
           outcome = "failed" => reason # "",
           HasChild =>
              /\ child.state = "exited"
              /\ outcome = "completed" => child.code = 0 /\ child.signal = "none"
              /\ outcome = "partial_completed" => run.ctx = "deadline"
              /\ reason = "exit_nonzero" => child.code > 0
              /\ lines <= child.wrote
              /\ run.kind = "command" => lines = child.wrote
    PROVE  ExecutionInv'
<1>0. outcome # "none"
  OBVIOUS
<1>9. Validated(Marked(r, run.skill)) \in Result(outcome, reason, lines)
  BY <1>0, ReportedAsItIs
<1>1. /\ result'.outcome = outcome /\ result'.reason = reason /\ result'.lines = lines
      /\ run' = [run EXCEPT !.pc = "returned"]
  BY <1>9 DEF Returns, Result
<1>2. ExecutionTypes'
  BY <1>1 DEF ExecutionInv, ExecutionTypes
<1>3. ProcessSound'
  BY <1>1 DEF ExecutionInv, ExecutionTypes, ProcessSound, HasChild, Executing
<1>4. ResultIsOfItsProcess'
  BY <1>1 DEF ExecutionInv, ExecutionTypes, ResultIsOfItsProcess, HasChild
<1> QED BY <1>2, <1>3, <1>4 DEF ExecutionInv

\* An AI CLI returns when its process was waited for and its output scanned.
LEMMA AICLISound ==
    ASSUME ExecutionInv, AICLIReturns
    PROVE  ExecutionInv'
<1>1. /\ AI /\ run.pc = "collect" /\ Returns(AICLIResult) /\ UNCHANGED child
  BY DEF AICLIReturns
<1>2. /\ child.state = "exited" /\ run.kept <= child.wrote /\ run.kind = "ai_cli"
      /\ run.interrupted => run.ctx \in {"deadline", "canceled"}
      /\ child.signal # "none" => run.interrupted
      /\ child.code \in {-1, 0, 1} /\ Executing
  BY <1>1 DEF ExecutionInv, ExecutionTypes, ProcessSound, AI, Executing
<1>3. ASSUME NEW outcome \in {"completed", "partial_completed", "failed"}, NEW reason,
             AICLIResult \in Result(outcome, reason, run.kept),
             outcome = "failed" => reason # "",
             outcome = "completed" => child.code = 0 /\ child.signal = "none",
             outcome = "partial_completed" => run.ctx = "deadline",
             reason = "exit_nonzero" => child.code > 0
      PROVE  ExecutionInv'
  BY <1>1, <1>2, <1>3, ReturnsSound
<1>4. CASE run.interrupted /\ run.ctx = "deadline"
  <2>1. AICLIResult = PartialResult("timeout", run.kept)
    BY <1>4 DEF AICLIResult
  <2> QED BY <1>3, <1>4, <2>1, ResultParts
<1>5. CASE run.interrupted /\ run.ctx = "canceled"
  <2>1. AICLIResult = FailedResult("canceled", run.kept)
    BY <1>5 DEF AICLIResult
  <2> QED BY <1>3, <1>5, <2>1, ResultParts
<1>6. CASE ~run.interrupted /\ child.code # 0
  <2>1. AICLIResult = FailedResult(ExitReason(child.code), run.kept)
    BY <1>6 DEF AICLIResult
  <2> QED BY <1>2, <1>3, <1>6, <2>1, ResultParts, ExitReasons
<1>7. CASE ~run.interrupted /\ child.code = 0
  <2>1. AICLIResult = CompletedResult(run.kept)
    BY <1>7 DEF AICLIResult
  <2> QED BY <1>2, <1>3, <1>7, <2>1, ResultParts
<1> QED BY <1>2, <1>4, <1>5, <1>6, <1>7

\* A command returns when nobody has its output open any more.
LEMMA CommandSound ==
    ASSUME ExecutionInv, CommandReturns
    PROVE  ExecutionInv'
<1>1. Commanding /\ run.reaped /\ Returns(CommandResult) /\ UNCHANGED child
  BY DEF CommandReturns
<1>2. /\ child.state = "exited" /\ run.kind = "command" /\ child.wrote \in Nat
      /\ child.signal # "none" => run.interrupted
      /\ child.code \in {-1, 0, 1} /\ Executing
  BY <1>1 DEF ExecutionInv, ExecutionTypes, ProcessSound, Commanding, Executing
<1>3. ASSUME NEW outcome \in {"completed", "failed"}, NEW reason,
             CommandResult \in Result(outcome, reason, child.wrote),
             outcome = "failed" => reason # "",
             outcome = "completed" => child.code = 0 /\ child.signal = "none",
             reason = "exit_nonzero" => child.code > 0
      PROVE  ExecutionInv'
  <2>1. outcome \in {"completed", "partial_completed", "failed"} /\ outcome # "partial_completed"
    BY <1>3
  <2>2. HasChild =>
              /\ child.state = "exited"
              /\ outcome = "completed" => child.code = 0 /\ child.signal = "none"
              /\ outcome = "partial_completed" => run.ctx = "deadline"
              /\ reason = "exit_nonzero" => child.code > 0
              /\ child.wrote <= child.wrote
              /\ run.kind = "command" => child.wrote = child.wrote
    <3>1. child.wrote <= child.wrote
      BY <1>2
    <3> QED BY <1>2, <1>3, <2>1, <3>1
  <2> QED BY <1>1, <1>2, <1>3, <2>1, <2>2, ReturnsSound
<1>4. CASE run.ctx = "deadline"
  <2>1. CommandResult = FailedResult("timeout", child.wrote)
    BY <1>4 DEF CommandResult
  <2> QED BY <1>3, <2>1, ResultParts
<1>5. CASE run.ctx # "deadline" /\ child.code # 0
  <2>1. CommandResult = FailedResult(ExitReason(child.code), child.wrote)
    BY <1>5 DEF CommandResult
  <2> QED BY <1>2, <1>3, <1>5, <2>1, ResultParts, ExitReasons
<1>6. CASE run.ctx # "deadline" /\ child.code = 0 /\ run.interrupted
  <2>1. CommandResult = FailedResult("start_failed", child.wrote)
    BY <1>6 DEF CommandResult
  <2> QED BY <1>3, <2>1, ResultParts
<1>7. CASE run.ctx # "deadline" /\ child.code = 0 /\ ~run.interrupted
  <2>1. CommandResult = CompletedResult(child.wrote)
    BY <1>7 DEF CommandResult
  <2> QED BY <1>2, <1>3, <1>7, <2>1, ResultParts
<1> QED BY <1>4, <1>5, <1>6, <1>7

\* An HTTP request ends with an answer or with its context; it has no process.
LEMMA ProviderSound ==
    ASSUME ExecutionInv, ProviderAnswers \/ ProviderRequestEnds
    PROVE  ExecutionInv'
<1>1. run.pc = "post" /\ UNCHANGED child /\ ~HasChild /\ Executing
  BY DEF ProviderAnswers, ProviderRequestEnds, ExecutionInv, ProcessSound, Executing
<1>2. ASSUME NEW reason, reason # "", Returns(FailedResult(reason, 0))
      PROVE  ExecutionInv'
  <2>1. FailedResult(reason, 0) \in Result("failed", reason, 0)
    BY ResultParts
  <2> QED BY <1>1, <1>2, <2>1, ReturnsSound
<1>3. ASSUME Returns(CompletedResult(1))
      PROVE  ExecutionInv'
  <2>1. CompletedResult(1) \in Result("completed", "", 1)
    BY ResultParts
  <2> QED BY <1>1, <1>3, <2>1, ReturnsSound
<1> QED BY <1>2, <1>3 DEF ProviderAnswers, ProviderRequestEnds

\* What happens before the executor returns, and what the child does.
LEMMA ExecutionGoesOn ==
    ASSUME ExecutionInv, ExecutionTypes', ProcessSound', run.pc # "returned", run'.pc # "returned"
    PROVE  ExecutionInv'
BY DEF ExecutionInv, ResultIsOfItsProcess

\* An execution begins by giving up at once, or with a child or a request.
LEMMA BeginsSound ==
    ASSUME ExecutionInv, run.pc = "idle", NEW kind \in Kind, NEW skill \in SkillMatch
    PROVE  /\ ExecuteWithoutSkill(kind, skill) => ExecutionInv'
           /\ \A fault \in FaultsOf[kind] : ExecuteAtOnce(kind, skill, fault) => ExecutionInv'
           /\ StartCommand(kind, skill) => ExecutionInv'
           /\ PostToProvider(skill) => ExecutionInv'
<1> DEFINE Start(k, pc) == [NoRun EXCEPT !.kind = k, !.skill = skill, !.pc = pc]
           Run == [pc : {"idle", "select", "grace", "kill", "collect", "post", "returned"},
                   kind : Kind, skill : SkillMatch, ctx : {"live", "deadline", "canceled"},
                   scan : {"reads", "posts", "done"}, open : BOOLEAN,
                   fetched : Nat, kept : Nat, reaped : BOOLEAN, interrupted : BOOLEAN]
           Child == [state : {"none", "runs", "exited"}, code : {-1, 0, 1},
                     signal : {"none", "term", "kill"}, wrote : Nat, heir : BOOLEAN]
<1>1. ASSUME NEW k \in Kind, NEW pc \in {"select", "post", "returned"}, run' = Start(k, pc),
             child' \in Child
      PROVE  /\ ExecutionTypes' /\ run'.pc = pc /\ run'.kind = k
             /\ run'.kept = 0 /\ run'.fetched = 0 /\ run'.reaped = FALSE /\ run'.interrupted = FALSE
  <2>1. /\ NoRun \in Run
        /\ NoRun.kept = 0 /\ NoRun.fetched = 0 /\ NoRun.reaped = FALSE /\ NoRun.interrupted = FALSE
    <3>1. "echo" \in Kind /\ "plain" \in SkillMatch
      BY DEF Kind, FaultsOf, SkillMatch
    <3> QED BY <3>1 DEF NoRun
  <2>2. pc \in {"idle", "select", "grace", "kill", "collect", "post", "returned"}
    BY <1>1
  <2>3. Start(k, pc) \in Run
    BY <2>1, <2>2
  <2>4. /\ Start(k, pc).pc = pc /\ Start(k, pc).kind = k
        /\ Start(k, pc).kept = 0 /\ Start(k, pc).fetched = 0
        /\ Start(k, pc).reaped = FALSE /\ Start(k, pc).interrupted = FALSE
    BY <2>1
  <2> HIDE DEF Start
  <2> QED BY <1>1, <2>3, <2>4 DEF ExecutionTypes
<1>2. ~HasChild /\ child \in Child /\ child = NoChild
  BY DEF ExecutionInv, ExecutionTypes, ProcessSound
<1> HIDE DEF Start
<1>3. ASSUME NEW k \in Kind, run' = Start(k, "returned"), UNCHANGED child,
             result'.outcome \in {"completed", "missing_fields", "failed"}
      PROVE  ExecutionInv'
  <2>1. /\ ExecutionTypes' /\ run'.pc = "returned"
        /\ run'.kept = 0 /\ run'.fetched = 0 /\ run'.reaped = FALSE /\ run'.interrupted = FALSE
    BY <1>1, <1>2, <1>3
  <2>3. ProcessSound'
    BY <1>2, <1>3, <2>1 DEF ProcessSound, HasChild, Executing
  <2>2. ResultIsOfItsProcess'
    BY <1>2, <1>3 DEF ResultIsOfItsProcess, HasChild
  <2> QED BY <2>1, <2>2, <2>3 DEF ExecutionInv
<1>4. ASSUME ExecuteWithoutSkill(kind, skill)
      PROVE  ExecutionInv'
  <2>1. FailedResult(skill, 0) \in Result("failed", skill, 0)
    BY ResultParts
  <2>2. FailedResult(skill, 0).outcome = "failed"
    BY <2>1 DEF Result
  <2> QED BY <1>3, <1>4, <2>2 DEF ExecuteWithoutSkill, Begins, Start
<1>5. ASSUME NEW fault \in FaultsOf[kind], ExecuteAtOnce(kind, skill, fault)
      PROVE  ExecutionInv'
  BY <1>3, <1>5, ResultsOfFaults DEF ExecuteAtOnce, Begins, Start
<1>6. ASSUME StartCommand(kind, skill)
      PROVE  ExecutionInv'
  <2>1. /\ run' = Start(kind, "select") /\ kind \in {"command", "ai_cli"}
        /\ child' = [NoChild EXCEPT !.state = "runs"]
    BY <1>6 DEF StartCommand, Begins, Start
  <2>2. child' \in Child /\ child'.state = "runs" /\ child'.signal = "none" /\ child'.wrote = 0
    BY <2>1 DEF NoChild
  <2>3. /\ ExecutionTypes' /\ run'.pc = "select" /\ run'.kind = kind
        /\ run'.kept = 0 /\ run'.fetched = 0 /\ run'.reaped = FALSE /\ run'.interrupted = FALSE
    BY <1>1, <2>1, <2>2
  <2>4. ProcessSound'
    BY <2>1, <2>2, <2>3 DEF ProcessSound, HasChild, Executing
  <2> QED BY <2>3, <2>4, ExecutionGoesOn
<1>7. ASSUME PostToProvider(skill)
      PROVE  ExecutionInv'
  <2>1. run' = Start("llm", "post") /\ UNCHANGED child /\ "llm" \in Kind
    BY <1>7 DEF PostToProvider, Begins, Kind, FaultsOf, Start
  <2>2. /\ ExecutionTypes' /\ run'.pc = "post" /\ run'.kind = "llm"
        /\ run'.kept = 0 /\ run'.fetched = 0 /\ run'.reaped = FALSE /\ run'.interrupted = FALSE
    BY <1>1, <1>2, <2>1
  <2>3. ProcessSound'
    <3>1. child' = NoChild /\ child'.state = "none" /\ child'.wrote = 0 /\ child'.signal = "none"
      BY <1>2, <2>1 DEF NoChild
    <3> QED BY <2>2, <3>1 DEF ProcessSound, HasChild, Executing
  <2> QED BY <2>2, <2>3, ExecutionGoesOn
<1> QED BY <1>4, <1>5, <1>6, <1>7

\* The scanner of an AI CLI's output stays behind what the process wrote.
LEMMA ScannerSound ==
    ASSUME ExecutionInv, FetchOutput \/ ScanLine \/ ReadbackAnswered \/ ScanEnds
    PROVE  ExecutionInv'
<1>1. /\ UNCHANGED <<child, result>> /\ Executing /\ run.kind = "ai_cli"
  BY DEF FetchOutput, ScanLine, ReadbackAnswered, ScanEnds, AI
<1>2. ASSUME ExecutionTypes', run' = [run EXCEPT !.fetched = run'.fetched, !.kept = run'.kept, !.scan = run'.scan],
             run'.kept <= run'.fetched, run'.fetched <= child.wrote
      PROVE  ExecutionInv'
  <2>1. /\ run'.pc = run.pc /\ run'.kind = run.kind /\ run'.ctx = run.ctx
        /\ run'.reaped = run.reaped /\ run'.interrupted = run.interrupted
    BY <1>2 DEF ExecutionInv, ExecutionTypes
  <2>2. ProcessSound'
    BY <1>1, <1>2, <2>1 DEF ExecutionInv, ProcessSound, HasChild, Executing
  <2>3. run.pc # "returned" /\ run'.pc # "returned"
    BY <1>1, <2>1 DEF Executing
  <2> QED BY <1>2, <2>2, <2>3, ExecutionGoesOn
<1>3. /\ run.fetched \in Nat /\ run.kept \in Nat /\ child.wrote \in Nat
      /\ run.kept <= run.fetched /\ run.fetched <= child.wrote
  BY DEF ExecutionInv, ExecutionTypes, ProcessSound
<1>4. CASE FetchOutput
  <2>1. PICK upto \in (run.fetched + 1)..child.wrote : run' = [run EXCEPT !.fetched = upto]
    BY <1>4 DEF FetchOutput
  <2>2. ExecutionTypes' /\ run'.fetched = upto /\ run'.kept = run.kept /\ run'.scan = run.scan
    BY <1>1, <1>3, <2>1 DEF ExecutionInv, ExecutionTypes
  <2>3. run' = [run EXCEPT !.fetched = upto, !.kept = run.kept, !.scan = run.scan]
    BY <2>1 DEF ExecutionInv, ExecutionTypes
  <2>4. run'.kept <= run'.fetched /\ run'.fetched <= child.wrote
    BY <1>3, <2>2
  <2> QED BY <1>2, <2>2, <2>3, <2>4
<1>5. CASE ScanLine
  <2>1. PICK scan \in {"reads", "posts", "done"} :
          run' = [run EXCEPT !.kept = run.kept + 1, !.scan = scan] \/ run' = [run EXCEPT !.scan = scan]
    BY <1>5 DEF ScanLine
  <2>2. /\ ExecutionTypes' /\ run'.fetched = run.fetched /\ run'.scan = scan
        /\ run'.kept \in {run.kept, run.kept + 1}
    <3>1. CASE run' = [run EXCEPT !.kept = run.kept + 1, !.scan = scan]
      <4>1. run.kept + 1 \in Nat
        BY <1>3
      <4>2. ExecutionTypes'
        <5>1. child' = child /\ ExecutionTypes
          BY <1>1 DEF ExecutionInv
        <5> DEFINE kept == run.kept + 1
        <5>2. kept \in Nat /\ run' = [run EXCEPT !.kept = kept, !.scan = scan]
          BY <3>1, <4>1
        <5> HIDE DEF kept
        <5>3. run' \in [pc : {"idle", "select", "grace", "kill", "collect", "post", "returned"},
                        kind : Kind, skill : SkillMatch, ctx : {"live", "deadline", "canceled"},
                        scan : {"reads", "posts", "done"}, open : BOOLEAN,
                        fetched : Nat, kept : Nat, reaped : BOOLEAN, interrupted : BOOLEAN]
          BY <5>1, <5>2 DEF ExecutionTypes
        <5> QED BY ONLY <5>1, <5>3 DEF ExecutionTypes
      <4>3. run'.kept = run.kept + 1 /\ run'.fetched = run.fetched /\ run'.scan = scan
        BY <3>1 DEF ExecutionInv, ExecutionTypes
      <4> QED BY <4>2, <4>3
    <3>2. CASE run' = [run EXCEPT !.scan = scan]
      BY <1>1, <1>3, <3>2 DEF ExecutionInv, ExecutionTypes
    <3> QED BY <2>1, <3>1, <3>2
  <2>3. run' = [run EXCEPT !.fetched = run.fetched, !.kept = run'.kept, !.scan = scan]
    BY <2>1 DEF ExecutionInv, ExecutionTypes
  <2>4. run.kept < run.fetched
    BY <1>5 DEF ScanLine
  <2> QED BY <1>2, <1>3, <2>2, <2>3, <2>4
<1>6. CASE ReadbackAnswered \/ ScanEnds
  <2>1. PICK scan \in {"reads", "posts", "done"} : run' = [run EXCEPT !.scan = scan]
    BY <1>6 DEF ReadbackAnswered, ScanEnds
  <2>2. ExecutionTypes' /\ run'.fetched = run.fetched /\ run'.kept = run.kept /\ run'.scan = scan
    BY <1>1, <2>1 DEF ExecutionInv, ExecutionTypes
  <2>3. run' = [run EXCEPT !.fetched = run.fetched, !.kept = run.kept, !.scan = scan]
    BY <2>1 DEF ExecutionInv, ExecutionTypes
  <2> QED BY <1>2, <1>3, <2>2, <2>3
<1> QED BY <1>4, <1>5, <1>6

\* Waiting for a process that has ended, and the end of a context.
LEMMA WaitsSound ==
    ASSUME ExecutionInv,
           WaitReturns \/ CommandEnded \/ ReapCommand
              \/ \E cause \in {"deadline", "canceled"} : ContextEnds(cause)
    PROVE  ExecutionInv'
<1>1. /\ UNCHANGED <<child, result>> /\ Executing
  BY DEF WaitReturns, CommandEnded, ReapCommand, ContextEnds, AI, Commanding
<1>2. CASE WaitReturns
  <2>1. ExecutionTypes' /\ run'.pc # "returned"
    BY <1>1, <1>2 DEF WaitReturns, ExecutionInv, ExecutionTypes, Executing
  <2>2. ProcessSound'
    BY <1>1, <1>2 DEF WaitReturns, ExecutionInv, ExecutionTypes, ProcessSound, HasChild, Executing
  <2> QED BY <1>1, <2>1, <2>2, ExecutionGoesOn DEF Executing
<1>3. CASE CommandEnded
  <2>1. ExecutionTypes' /\ run'.pc # "returned"
    BY <1>1, <1>3 DEF CommandEnded, ExecutionInv, ExecutionTypes
  <2>3. run'.interrupted = (run.pc # "select") /\ run'.pc = "collect"
    BY <1>3 DEF CommandEnded, ExecutionInv, ExecutionTypes
  <2>2. ProcessSound'
    BY <1>1, <1>3, <2>3 DEF CommandEnded, AI, ExecutionInv, ExecutionTypes, ProcessSound, HasChild, Executing
  <2> QED BY <1>1, <2>1, <2>2, ExecutionGoesOn DEF Executing
<1>4. CASE ReapCommand
  <2>1. ExecutionTypes' /\ run'.pc # "returned"
    BY <1>1, <1>4 DEF ReapCommand, ExecutionInv, ExecutionTypes, Executing
  <2>2. ProcessSound'
    BY <1>1, <1>4 DEF ReapCommand, ExecutionInv, ExecutionTypes, ProcessSound, HasChild, Executing
  <2> QED BY <1>1, <2>1, <2>2, ExecutionGoesOn DEF Executing
<1>5. ASSUME NEW cause \in {"deadline", "canceled"}, ContextEnds(cause)
      PROVE  ExecutionInv'
  <2>1. ExecutionTypes' /\ run'.pc # "returned"
    BY <1>1, <1>5 DEF ContextEnds, ExecutionInv, ExecutionTypes, Executing
  <2>2. ProcessSound'
    BY <1>1, <1>5 DEF ContextEnds, ExecutionInv, ExecutionTypes, ProcessSound, HasChild, Executing
  <2> QED BY <1>1, <2>1, <2>2, ExecutionGoesOn DEF Executing
<1> QED BY <1>2, <1>3, <1>4, <1>5

\* A signal is sent only once the context has ended.
LEMMA SignalsSound ==
    ASSUME ExecutionInv, TerminateAICLIProcess \/ GraceRunsOut \/ KillCommand
    PROVE  ExecutionInv'
<1>1. /\ UNCHANGED result /\ Executing
      /\ \E signal \in {"term", "kill"} : Signaled(signal)
  BY DEF TerminateAICLIProcess, GraceRunsOut, KillCommand, AI, Commanding
<1>2. /\ child' \in [state : {"none", "runs", "exited"}, code : {-1, 0, 1},
                     signal : {"none", "term", "kill"}, wrote : Nat, heir : BOOLEAN]
      /\ child'.state = child.state /\ child'.wrote = child.wrote
      /\ child.state # "runs" => child' = child
  BY <1>1 DEF Signaled, ExecutionInv, ExecutionTypes
<1>3. ExecutionTypes' /\ run'.pc # "returned"
  <2>1. ExecutionTypes /\ run.pc # "returned"
    BY <1>1 DEF ExecutionInv, Executing
  <2>2. \/ run' = [run EXCEPT !.pc = "grace"] \/ run' = [run EXCEPT !.pc = "kill"]
        \/ run' = [run EXCEPT !.interrupted = TRUE]
    BY DEF TerminateAICLIProcess, GraceRunsOut, KillCommand
  <2> QED BY ONLY <1>2, <2>1, <2>2 DEF ExecutionTypes
<1>4. ProcessSound'
  BY <1>1, <1>2 DEF TerminateAICLIProcess, GraceRunsOut, KillCommand, AI, Commanding, ExecutionInv,
       ExecutionTypes, ProcessSound, HasChild, Executing
<1> QED BY <1>1, <1>3, <1>4, ExecutionGoesOn DEF Executing

\* What the child does, before or after the executor has returned.
LEMMA ChildSound ==
    ASSUME ExecutionInv,
           ChildWrites \/ ChildForks \/ HeirEnds \/ \E code \in {-1, 0, 1} : ChildExits(code)
    PROVE  ExecutionInv'
<1>1. UNCHANGED <<run, result>>
  BY DEF ChildWrites, ChildForks, HeirEnds, ChildExits, ChildOnly
<1>2. /\ child' \in [state : {"none", "runs", "exited"}, code : {-1, 0, 1},
                     signal : {"none", "term", "kill"}, wrote : Nat, heir : BOOLEAN]
      /\ child.wrote <= child'.wrote /\ child'.signal = child.signal
      /\ child'.state = child.state \/ (child.state = "runs" /\ child'.state = "exited")
      /\ child.state # "runs" => child'.wrote = child.wrote /\ child'.code = child.code
      /\ child.state = "none" => child' = child
  <2>1. child.state = "none" => ~child.heir
    BY DEF ExecutionInv, ProcessSound, HasChild, NoChild
  <2>2. /\ child \in [state : {"none", "runs", "exited"}, code : {-1, 0, 1},
                  signal : {"none", "term", "kill"}, wrote : Nat, heir : BOOLEAN]
        /\ child.wrote <= child.wrote
    BY DEF ExecutionInv, ExecutionTypes
  <2>3. CASE ChildWrites
    BY <2>2, <2>3 DEF ChildWrites
  <2>4. CASE ChildForks
    <3>1. child.state = "runs" /\ child' = [child EXCEPT !.heir = TRUE]
      BY <2>4 DEF ChildForks
    <3> QED BY <2>2, <3>1
  <2>5. CASE HeirEnds
    <3>1. child.state # "none" /\ child' = [child EXCEPT !.heir = FALSE]
      BY <2>1, <2>5 DEF HeirEnds
    <3> QED BY <2>2, <3>1
  <2>6. ASSUME NEW code \in {-1, 0, 1}, ChildExits(code)
        PROVE  /\ child' = [child EXCEPT !.state = "exited", !.code = code]
               /\ child.state = "runs"
    BY <2>6 DEF ChildExits
  <2>7. CASE \E code \in {-1, 0, 1} : ChildExits(code)
    BY <2>2, <2>6, <2>7
  <2> QED BY <2>3, <2>4, <2>5, <2>7
<1>3. ExecutionTypes'
  BY <1>1, <1>2 DEF ExecutionInv, ExecutionTypes
<1>4. ProcessSound'
  BY <1>1, <1>2 DEF ExecutionInv, ExecutionTypes, ProcessSound, HasChild, Executing
<1>5. ResultIsOfItsProcess'
  BY <1>1, <1>2 DEF ExecutionInv, ResultIsOfItsProcess, HasChild
<1> QED BY <1>3, <1>4, <1>5 DEF ExecutionInv

\* Each step of an execution.
LEMMA ExecutionStep == ExecutionInv /\ [ExecutionNext]_executionVars => ExecutionInv'
<1> SUFFICES ASSUME ExecutionInv, [ExecutionNext]_executionVars PROVE ExecutionInv'
  OBVIOUS
<1>1. ASSUME NEW kind \in Kind, NEW skill \in SkillMatch,
             \/ ExecuteWithoutSkill(kind, skill)
             \/ \E fault \in FaultsOf[kind] : ExecuteAtOnce(kind, skill, fault)
             \/ StartCommand(kind, skill)
      PROVE  ExecutionInv'
  <2>1. run.pc = "idle"
    BY <1>1 DEF ExecuteWithoutSkill, ExecuteAtOnce, StartCommand
  <2> QED BY <1>1, <2>1, BeginsSound
<1>2. ASSUME NEW skill \in SkillMatch, PostToProvider(skill)
      PROVE  ExecutionInv'
  <2>1. run.pc = "idle" /\ "llm" \in Kind
    BY <1>2 DEF PostToProvider, Kind, FaultsOf
  <2> QED BY <1>2, <2>1, BeginsSound
<1>3. CASE ProviderAnswers \/ ProviderRequestEnds
  BY <1>3, ProviderSound
<1>4. CASE AICLIReturns
  BY <1>4, AICLISound
<1>5. CASE CommandReturns
  BY <1>5, CommandSound
<1>6. CASE NextMessage
  <2>1. ExecutionInit'
    BY <1>6 DEF NextMessage, ExecutionInit, NoRun, NoChild, NoResult
  <2> QED BY <2>1, ExecutionInitInv, PTL
<1>7. CASE UNCHANGED executionVars
  BY <1>7 DEF executionVars, ExecutionInv, ExecutionTypes, ProcessSound, ResultIsOfItsProcess,
       HasChild, Executing
<1> QED BY <1>1, <1>2, <1>3, <1>4, <1>5, <1>6, <1>7, ScannerSound, WaitsSound, SignalsSound, ChildSound
     DEF ExecutionNext, ExecutorNext

\* A result tells of the process that was run for it (executor.go and the
\* executors): it is reported once that has ended, as completed only if the
\* process exited with 0 and nobody had sent it a signal, as partial only if
\* its time had run out, with output that the process wrote.
THEOREM ResultOfItsProcess == ExecutionSpec => []ResultIsOfItsProcess
<1>1. ExecutionInv => ResultIsOfItsProcess
  BY DEF ExecutionInv
<1> QED BY <1>1, ExecutionInitInv, ExecutionStep, PTL DEF ExecutionSpec

-----------------------------------------------------------------------------
(* The status console.                                                     *)

\* What the proofs need of the console's types: its other fields are copied.
ConsoleTypes ==
    /\ now \in DOMAIN History
    /\ polls \in [1..MaxPolls -> {None, Asked, Failed} \cup DOMAIN History]
    /\ DOMAIN console = {"worker", "done", "stop", "quit", "shown", "told", "focus", "previous",
                         "open", "index", "offset"}
    /\ console.worker \in {"running", "returned"}
    /\ console.done \in BOOLEAN /\ console.stop \in BOOLEAN
    /\ console.quit \in {"no", "quit", "killed"}
    /\ console.shown \in 0..Len(History)
    /\ console.told \in ServerView
    /\ console.index \in Nat

ConsoleInv ==
    /\ ConsoleTypes
    /\ console.done => console.worker = "returned"
    /\ QuitsWithWorker
    /\ ShowsOneView

\* The views of the history.
LEMMA ViewsOfHistory ==
    /\ 1 \in DOMAIN History /\ DOMAIN History = 1..Len(History) /\ Len(History) \in Nat
    /\ \A i \in DOMAIN History :
          /\ History[i] \in ServerView
          /\ History[i].attempts \in Seq(STRING) /\ History[i].artifacts \in Nat
    /\ NothingYet \in ServerView
<1>1. History \in Seq(ServerView) /\ History # <<>>
  BY ConsoleAssumption
<1>2. NothingYet \in ServerView
  BY DEF NothingYet, ServerView
<1>3. \A i \in DOMAIN History : History[i] \in ServerView
  BY <1>1
<1> QED BY <1>1, <1>2, <1>3 DEF ServerView

\* It holds of a console that was not drawn yet.
LEMMA ConsoleInitInv == ConsoleInit => ConsoleInv
<1> SUFFICES ASSUME ConsoleInit PROVE ConsoleInv
  OBVIOUS
<1>1. ConsoleTypes
  BY ViewsOfHistory, ConsoleAssumption DEF ConsoleInit, ConsoleTypes, None, Asked, Failed
<1>2. QuitsWithWorker /\ (console.done => console.worker = "returned")
  BY DEF ConsoleInit, QuitsWithWorker
<1>3. ShowsOneView
  BY DEF ConsoleInit, ShowsOneView, ShownView, Artifacts, NothingYet
<1> QED BY <1>1, <1>2, <1>3 DEF ConsoleInv

\* A selection put back into a list lies in it.
LEMMA ClampBounds ==
    ASSUME NEW n \in Int, NEW high \in Nat
    PROVE  Clamp(n, high) \in 0..high
BY DEF Clamp

\* The end of the worker and the user's stop, in whichever order they come.
LEMMA StopSound ==
    ASSUME ConsoleInv, WorkerReturns \/ WorkerDone \/ StopWorkerKey \/ ProgramKilled
    PROVE  ConsoleInv'
<1>1. /\ UNCHANGED <<now, polls>>
      /\ console'.shown = console.shown /\ console'.told = console.told
      /\ console'.index = console.index
  BY DEF ConsoleInv, ConsoleTypes, WorkerReturns, WorkerDone, StopWorkerKey, ProgramKilled
<1>2. ConsoleTypes'
  BY <1>1 DEF ConsoleInv, ConsoleTypes, WorkerReturns, WorkerDone, StopWorkerKey, ProgramKilled
<1>3. QuitsWithWorker' /\ (console.done => console.worker = "returned")'
  <2>1. CASE WorkerReturns
    BY <2>1 DEF ConsoleInv, ConsoleTypes, QuitsWithWorker, WorkerReturns
  <2>2. CASE WorkerDone
    BY <2>2 DEF ConsoleInv, ConsoleTypes, QuitsWithWorker, WorkerDone, Running
  <2>3. CASE StopWorkerKey
    BY <2>3 DEF ConsoleInv, ConsoleTypes, QuitsWithWorker, StopWorkerKey, Running
  <2>4. CASE ProgramKilled
    BY <2>4 DEF ConsoleInv, ConsoleTypes, QuitsWithWorker, ProgramKilled, Running
  <2> QED BY <2>1, <2>2, <2>3, <2>4
<1>4. ShowsOneView'
  BY <1>1 DEF ConsoleInv, ShowsOneView, ShownView, Artifacts
<1> QED BY <1>2, <1>3, <1>4 DEF ConsoleInv

\* Steps that concern neither the end nor what is shown.
LEMMA ConsoleGoesOn ==
    ASSUME ConsoleInv, ConsoleTypes',
           console'.worker = console.worker, console'.done = console.done,
           console'.stop = console.stop, console'.quit = console.quit,
           console'.shown = console.shown, console'.told = console.told,
           IF Artifacts = 0 THEN console'.index = 0 ELSE console'.index < Artifacts
    PROVE  ConsoleInv'
BY DEF ConsoleInv, QuitsWithWorker, ShowsOneView, ShownView, Artifacts

\* Polls that are asked and answered, and a server that moves on.
LEMMA PollsSound ==
    ASSUME ConsoleInv,
           \/ AskServer \/ ServerMoves
           \/ \E p \in 1..MaxPolls : AnswerPoll(p) \/ AskFails(p) \/ ShowError(p)
    PROVE  ConsoleInv'
<1>1. UNCHANGED console
  BY DEF AskServer, ServerMoves, AnswerPoll, AskFails, ShowError
<1>2. now' \in DOMAIN History
  BY ViewsOfHistory DEF AskServer, ServerMoves, AnswerPoll, AskFails, ShowError, ConsoleInv, ConsoleTypes
<1>3. polls' \in [1..MaxPolls -> {None, Asked, Failed} \cup DOMAIN History]
  BY DEF AskServer, ServerMoves, AnswerPoll, AskFails, ShowError, ConsoleInv, ConsoleTypes
<1>4. ConsoleTypes'
  BY <1>1, <1>2, <1>3 DEF ConsoleInv, ConsoleTypes
<1>5. IF Artifacts = 0 THEN console.index = 0 ELSE console.index < Artifacts
  BY DEF ConsoleInv, ShowsOneView
<1> QED BY <1>1, <1>4, <1>5, ConsoleGoesOn

\* The log's last word on the attempts of a view that is shown.
LEMMA ObservedIsShown ==
    ASSUME NEW told \in ServerView, NEW view \in ServerView
    PROVE  /\ Observe(told, view) \in ServerView
           /\ \A i \in DOMAIN view.attempts : Observe(told, view).attempts[i] = view.attempts[i]
<1> DEFINE rest == SubSeq(told.attempts, Len(view.attempts) + 1, Len(told.attempts))
<1>1. view.attempts \in Seq(STRING) /\ told.attempts \in Seq(STRING)
  BY DEF ServerView
<1>2. rest \in Seq(STRING)
  <2>1. \A i \in (Len(view.attempts) + 1)..Len(told.attempts) : i \in 1..Len(told.attempts)
    BY <1>1
  <2> QED BY <1>1, <2>1
<1> HIDE DEF rest
<1>3. /\ view.attempts \o rest \in Seq(STRING)
      /\ \A i \in DOMAIN view.attempts : (view.attempts \o rest)[i] = view.attempts[i]
  BY <1>1, <1>2
<1>4. Observe(told, view).attempts = view.attempts \o rest
  BY DEF Observe, rest
<1>5. Observe(told, view) \in ServerView
  BY <1>3 DEF Observe, rest, ServerView
<1> QED BY <1>3, <1>4, <1>5

\* A snapshot is shown, which may be older and have a shorter list.
LEMMA SnapshotSound ==
    ASSUME ConsoleInv, NEW p \in 1..MaxPolls, ShowSnapshot(p)
    PROVE  ConsoleInv'
<1> DEFINE view == History[polls[p]]
           seen == [console EXCEPT !.shown = polls[p], !.told = Observe(@, view)]
<1>1. /\ polls[p] \in DOMAIN History /\ view \in ServerView /\ view.artifacts \in Nat
      /\ console' = ClampSelections(seen, view.artifacts)
      /\ polls' = [polls EXCEPT ![p] = None] /\ UNCHANGED now
  BY ViewsOfHistory DEF ShowSnapshot
<1>2. /\ DOMAIN seen = DOMAIN console /\ seen.shown = polls[p]
      /\ seen.told = Observe(console.told, view)
      /\ seen.worker = console.worker /\ seen.done = console.done /\ seen.stop = console.stop
      /\ seen.quit = console.quit /\ seen.index = console.index
  BY DEF ConsoleInv, ConsoleTypes
<1>3. PICK index, offset :
        /\ index \in Nat /\ console' = [seen EXCEPT !.index = index, !.offset = offset]
        /\ IF view.artifacts = 0 THEN index = 0 ELSE index < view.artifacts
  <2>1. CASE view.artifacts = 0
    BY <1>1, <2>1 DEF ClampSelections
  <2>2. CASE view.artifacts # 0
    <3>1. Clamp(seen.index, view.artifacts - 1) \in 0..(view.artifacts - 1)
      BY <1>1, <1>2, <2>2, ClampBounds DEF ConsoleInv, ConsoleTypes
    <3>2. console' = [seen EXCEPT !.index = Clamp(seen.index, view.artifacts - 1),
                                  !.offset = Clamp(seen.offset, view.artifacts - 1)]
      BY <1>1, <2>2 DEF ClampSelections
    <3> DEFINE index == Clamp(seen.index, view.artifacts - 1)
               offset == Clamp(seen.offset, view.artifacts - 1)
    <3>3. index \in Nat /\ index < view.artifacts
      BY <1>1, <3>1
    <3>4. console' = [seen EXCEPT !.index = index, !.offset = offset]
      BY <3>2
    <3> HIDE DEF index, offset, seen
    <3> QED BY <2>2, <3>3, <3>4
  <2> QED BY <2>1, <2>2
<1> HIDE DEF seen
<1>4. /\ DOMAIN console' = DOMAIN console /\ console'.shown = polls[p]
      /\ console'.told = Observe(console.told, view) /\ console'.index = index
      /\ console'.worker = console.worker /\ console'.done = console.done
      /\ console'.stop = console.stop /\ console'.quit = console.quit
  BY <1>2, <1>3 DEF ConsoleInv, ConsoleTypes
<1>5. /\ console.told \in ServerView /\ polls[p] \in 1..Len(History)
  BY <1>1, ViewsOfHistory DEF ConsoleInv, ConsoleTypes
<1>6. /\ Observe(console.told, view) \in ServerView
      /\ \A i \in DOMAIN view.attempts : Observe(console.told, view).attempts[i] = view.attempts[i]
  BY <1>1, <1>5, ObservedIsShown
<1>7. ShownView' = view
  BY <1>4, <1>5 DEF ShownView
<1>8. ConsoleTypes'
  BY <1>1, <1>3, <1>4, <1>5, <1>6 DEF ConsoleInv, ConsoleTypes
<1>9. ShowsOneView'
  BY <1>3, <1>4, <1>6, <1>7 DEF ShowsOneView, Artifacts
<1>10. QuitsWithWorker' /\ (console'.done => console'.worker = "returned")
  BY <1>4 DEF ConsoleInv, QuitsWithWorker
<1> QED BY <1>8, <1>9, <1>10 DEF ConsoleInv

\* The keys that move the selection: it stays in the list that is shown.
LEMMA SelectionSound ==
    ASSUME ConsoleInv,
           \/ OpenSelectedArtifact \/ ScrollHome \/ ScrollEnd
           \/ \E delta \in {-6, -1, 1, 6} : ScrollFocused(delta)
    PROVE  ConsoleInv'
<1> DEFINE Selects(c) == /\ DOMAIN c = DOMAIN console
                         /\ c.worker = console.worker /\ c.done = console.done /\ c.stop = console.stop
                         /\ c.quit = console.quit /\ c.shown = console.shown /\ c.told = console.told
                         /\ c.index \in Nat
                         /\ IF Artifacts = 0 THEN c.index = 0 ELSE c.index < Artifacts
<1>1. Artifacts \in Nat
  BY ViewsOfHistory DEF ConsoleInv, ConsoleTypes, Artifacts, ShownView, NothingYet
<1>2. Selects(console)
  BY DEF ConsoleInv, ConsoleTypes, ShowsOneView
<1>3. ASSUME NEW c, Key(c), Selects(c)
      PROVE  ConsoleInv'
  <2>1. console' = c /\ UNCHANGED <<now, polls>>
    BY <1>3 DEF Key
  <2>2. ConsoleTypes'
    BY <1>3, <2>1 DEF ConsoleInv, ConsoleTypes
  <2> QED BY <1>3, <2>1, <2>2, ConsoleGoesOn
<1>4. ASSUME NEW n \in Int, Artifacts > 0
      PROVE  Clamp(n, Artifacts - 1) \in Nat /\ Clamp(n, Artifacts - 1) < Artifacts
  <2>1. Clamp(n, Artifacts - 1) \in 0..(Artifacts - 1)
    BY <1>1, <1>4, ClampBounds
  <2> QED BY <1>1, <2>1
<1>5. CASE OpenSelectedArtifact
  <2> DEFINE index == Clamp(console.index, Artifacts - 1)
             c == [console EXCEPT !.open = TRUE, !.offset = 0, !.index = index]
  <2>1. Key(c) /\ Artifacts > 0
    BY <1>5 DEF OpenSelectedArtifact
  <2>2. index \in Nat /\ index < Artifacts
    BY <1>2, <1>4, <2>1
  <2> HIDE DEF index
  <2>3. Selects(c)
    BY <1>1, <1>2, <2>1, <2>2 DEF ConsoleInv, ConsoleTypes
  <2> QED BY <1>3, <2>1, <2>3
<1>6. ASSUME NEW index \in Nat, NEW offset, index = 0 \/ (Artifacts > 0 /\ index < Artifacts)
      PROVE  Selects([console EXCEPT !.index = index, !.offset = offset])
  BY <1>1, <1>2, <1>6 DEF ConsoleInv, ConsoleTypes
<1>7. ASSUME NEW offset
      PROVE  Selects([console EXCEPT !.offset = offset])
  BY <1>1, <1>2 DEF ConsoleInv, ConsoleTypes
<1>8. CASE ScrollHome
  <2>1. Selects([console EXCEPT !.index = 0, !.offset = 0])
    BY <1>6
  <2>2. Selects([console EXCEPT !.offset = 0])
    BY <1>7
  <2> HIDE DEF Selects
  <2> QED BY <1>3, <1>8, <2>1, <2>2 DEF ScrollHome
<1>9. CASE ScrollEnd
  <2>1. CASE console.open
    BY <1>3, <1>7, <1>9, <2>1 DEF ScrollEnd
  <2>2. CASE ~console.open
    <3>1. /\ Artifacts > 0
          /\ Key([console EXCEPT !.index = Artifacts - 1, !.offset = Clamp(Artifacts - Page, Artifacts)])
      BY <1>9, <2>2 DEF ScrollEnd
    <3>2. Artifacts - 1 \in Nat /\ Artifacts - 1 < Artifacts
      BY <1>1, <3>1
    <3>3. Selects([console EXCEPT !.index = Artifacts - 1, !.offset = Clamp(Artifacts - Page, Artifacts)])
      BY <1>6, <3>1, <3>2
    <3> QED BY <1>3, <3>1, <3>3
  <2> QED BY <2>1, <2>2
<1>10. ASSUME NEW delta \in {-6, -1, 1, 6}, ScrollFocused(delta)
       PROVE  ConsoleInv'
  <2>1. CASE console.open
    BY <1>3, <1>7, <1>10, <2>1 DEF ScrollFocused
  <2>2. CASE ~console.open /\ Artifacts = 0
    <3>1. Key([console EXCEPT !.index = 0, !.offset = 0])
      BY <1>10, <2>2 DEF ScrollFocused, ClampSelections
    <3> QED BY <1>3, <1>6, <3>1
  <2>3. CASE ~console.open /\ Artifacts # 0
    <3> DEFINE index == Clamp(console.index + delta, Artifacts - 1)
               c == [console EXCEPT !.index = index]
    <3>1. Key(InWindow(c))
      BY <1>10, <2>3 DEF ScrollFocused
    <3>2. index \in Nat /\ index < Artifacts /\ Artifacts > 0
      BY <1>1, <1>2, <1>4, <2>3
    <3> HIDE DEF index
    <3>3. Selects(c)
      BY <1>2, <3>2 DEF ConsoleInv, ConsoleTypes
    <3>4. PICK offset : InWindow(c) = [c EXCEPT !.offset = offset]
      BY DEF InWindow
    <3>5. Selects(InWindow(c))
      <4> HIDE DEF c
      <4> QED BY <3>3, <3>4 DEF ConsoleInv, ConsoleTypes
    <3> QED BY <1>3, <3>1, <3>5
  <2> QED BY <2>1, <2>2, <2>3
<1> QED BY <1>5, <1>8, <1>9, <1>10

\* The other keys change what is focused and whether the viewer is open.
LEMMA FocusSound ==
    ASSUME ConsoleInv,
           \/ ToggleHelp \/ CloseOverlay \/ MoveFocus(1) \/ MoveFocus(-1)
           \/ \E i \in DOMAIN Tabs : SelectTab(i)
    PROVE  ConsoleInv'
<1> DEFINE Looks(c) == /\ DOMAIN c = DOMAIN console
                       /\ c.worker = console.worker /\ c.done = console.done /\ c.stop = console.stop
                       /\ c.quit = console.quit /\ c.shown = console.shown /\ c.told = console.told
                       /\ c.index = console.index
<1>1. ASSUME NEW c, Key(c), Looks(c)
      PROVE  ConsoleInv'
  <2>1. console' = c /\ UNCHANGED <<now, polls>>
    BY <1>1 DEF Key
  <2>2. ConsoleTypes'
    BY <1>1, <2>1 DEF ConsoleInv, ConsoleTypes
  <2>3. IF Artifacts = 0 THEN console.index = 0 ELSE console.index < Artifacts
    BY DEF ConsoleInv, ShowsOneView
  <2> QED BY <1>1, <2>1, <2>2, <2>3, ConsoleGoesOn
<1>2. Looks(console)
  OBVIOUS
<1>3. \A focus : Looks([console EXCEPT !.focus = focus])
  BY DEF ConsoleInv, ConsoleTypes
<1>4. \A focus, previous : Looks([console EXCEPT !.focus = focus, !.previous = previous])
  BY DEF ConsoleInv, ConsoleTypes
<1>5. \A open : Looks([console EXCEPT !.open = open])
  BY DEF ConsoleInv, ConsoleTypes
<1> HIDE DEF Looks
<1>6. CASE ToggleHelp
  BY <1>1, <1>3, <1>4, <1>6 DEF ToggleHelp
<1>7. CASE CloseOverlay
  BY <1>1, <1>2, <1>3, <1>5, <1>7 DEF CloseOverlay
<1>8. CASE MoveFocus(1) \/ MoveFocus(-1)
  <2>1. \E focus : Key([console EXCEPT !.focus = focus])
    BY <1>8 DEF MoveFocus
  <2> QED BY <1>1, <1>3, <2>1
<1>9. CASE \E i \in DOMAIN Tabs : SelectTab(i)
  BY <1>1, <1>3, <1>9 DEF SelectTab
<1> QED BY <1>6, <1>7, <1>8, <1>9

\* Each step of the console.
LEMMA ConsoleStep == ConsoleInv /\ [ConsoleNext]_consoleVars => ConsoleInv'
<1> SUFFICES ASSUME ConsoleInv, [ConsoleNext]_consoleVars PROVE ConsoleInv'
  OBVIOUS
<1>1. CASE UNCHANGED consoleVars
  BY <1>1 DEF consoleVars, ConsoleInv, ConsoleTypes, QuitsWithWorker, ShowsOneView, ShownView, Artifacts
<1>2. CASE HandleKey
  BY <1>2, StopSound, PollsSound, SelectionSound, FocusSound DEF HandleKey
<1> QED BY <1>1, <1>2, StopSound, PollsSound, SnapshotSound DEF ConsoleNext

\* The console is what its last answer and its worker make it, whatever answers
\* are late, fail or come out of order.
THEOREM ConsoleInvHolds == ConsoleSpec => []ConsoleInv
BY ConsoleInitInv, ConsoleStep, PTL DEF ConsoleSpec

\* Stopping is a handshake (worker_status_tui.go): in whichever order the key q
\* and the end of the worker reach the event loop, the console quits when it
\* has seen both, and leaves no worker running.
THEOREM ConsoleQuitsWithWorker == ConsoleSpec => []QuitsWithWorker
<1>1. ConsoleInv => QuitsWithWorker
  BY DEF ConsoleInv
<1> QED BY <1>1, ConsoleInvHolds, PTL

\* Polls overtake each other, and an older list may follow a newer one: still
\* the log's last word on each attempt shown is the state shown, and the
\* selected artifact is one of the list shown.
THEOREM ConsoleShowsOneView == ConsoleSpec => []ShowsOneView
<1>1. ConsoleInv => ShowsOneView
  BY DEF ConsoleInv
<1> QED BY <1>1, ConsoleInvHolds, PTL

-----------------------------------------------------------------------------
(* The processes that share a home directory.                              *)

\* Where a process has loaded its config, unless it takes none, and where it
\* has the names it advertises.
Configured == {"resolve", "build", "start", "config", "register", "first beat", "running"}
Named == {"register", "first beat", "running"}

\* Names that leave none of the first skills out, or are not those of skills.
NamesSound(q, names) ==
    \/ \A s \in RegisteredFirst : SkillNames[s] \subseteq names
    \/ names \in {q.options.capabilities, FallbackNames}

\* A process writes, and goes by, a config that was saved (configs); a worker
\* keeps the skills that were there.
ProcSound(q, configs) ==
    /\ DOMAIN q = {"pc", "inv", "options", "wizard", "source", "loaded", "names", "advertised"}
    /\ q.pc = "write" => q.options \in configs
    /\ q.loaded # NoOptions => q.loaded \in configs
    /\ q.pc \in Configured /\ q.source # "flags" => q.loaded \in configs
    /\ q.pc \in Named => NamesSound(q, q.names)
    /\ q.pc = "running" => NamesSound(q, q.advertised)

\* A config file that is whole was saved as it is.
ConfigSound ==
    /\ config.is = "whole" => config.value \in saved
    /\ \A c \in saved : ConfigDefaults(c) = c

\* A registry that loads has the first skills, and so has one to be written.
RegistrySound ==
    /\ registry.is = "whole" => RegisteredFirst \subseteq registry.value
    /\ registry.is = "absent" => RegisteredFirst = {}
    /\ \A r \in Registrars :
          /\ DOMAIN registrars[r] = {"pc", "skills"}
          /\ registrars[r].pc # "idle" => RegisteredFirst \subseteq registrars[r].skills
    /\ DOMAIN registrars = Registrars

SetupInv ==
    /\ ConfigSound
    /\ RegistrySound
    /\ DOMAIN procs = Procs
    /\ \A p \in Procs : ProcSound(procs[p], saved)

\* The defaults of a config are filled in once and for all.
LEMMA DefaultsOnce ==
    ASSUME NEW c
    PROVE  ConfigDefaults(ConfigDefaults(c)) = ConfigDefaults(c)
<1> DEFINE d == ConfigDefaults(c)
           e == ConfigDefaults(d)
<1>1. \A f \in DOMAIN c :
         d[f] = CASE f = "server" -> Default(c.server, DefaultServer)
                  [] f = "backend" -> Default(c.backend, AutoBackend)
                  [] f = "dir" -> Default(c.dir, DefaultDir)
                  [] f = "capabilities" -> (IF c.capabilities = {} THEN DefaultCapabilities ELSE c.capabilities)
                  [] OTHER -> c[f]
  BY DEF ConfigDefaults
<1>2. \A f \in DOMAIN d :
         e[f] = CASE f = "server" -> Default(d.server, DefaultServer)
                  [] f = "backend" -> Default(d.backend, AutoBackend)
                  [] f = "dir" -> Default(d.dir, DefaultDir)
                  [] f = "capabilities" -> (IF d.capabilities = {} THEN DefaultCapabilities ELSE d.capabilities)
                  [] OTHER -> d[f]
  BY DEF ConfigDefaults
<1>3. DOMAIN d = DOMAIN c /\ DOMAIN e = DOMAIN d
  BY DEF ConfigDefaults
<1>4. d = [f \in DOMAIN d |-> d[f]] /\ e = [f \in DOMAIN e |-> e[f]]
  BY DEF ConfigDefaults
<1> HIDE DEF d, e
<1>5. \A f \in DOMAIN d : e[f] = d[f]
  BY <1>1, <1>2, <1>3 DEF Default
<1>6. e = d
  BY <1>3, <1>4, <1>5
<1> QED BY <1>6 DEF d, e

\* What a file can be.
LEMMA FilesAre ==
    ASSUME NEW v
    PROVE  /\ NoFile.is = "absent" /\ Empty.is = "empty" /\ Torn.is = "torn"
           /\ Whole(v).is = "whole" /\ Whole(v).value = v
BY DEF NoFile, Empty, Torn, Whole

\* It holds of the files that are there at first.
LEMMA SetupInitInv == SetupInit => SetupInv
<1> SUFFICES ASSUME SetupInit PROVE SetupInv
  OBVIOUS
<1>1. ConfigSound
  BY FilesAre DEF SetupInit, ConfigSound
<1>2. RegistrySound
  BY FilesAre DEF SetupInit, RegistrySound, NoRegistrar
<1>3. ProcSound(NoProcess, saved)
  BY DEF ProcSound, NoProcess, Configured, Named
<1> QED BY <1>1, <1>2, <1>3 DEF SetupInit, SetupInv

\* A process that has ended is sound, and so is one that goes on to another
\* place, with the config that it has.
LEMMA EndedSound ==
    ASSUME NEW configs
    PROVE  ProcSound(NoProcess, configs)
BY DEF ProcSound, NoProcess, Configured, Named

\* A process that goes on with the config it has, before it has any names.
LEMMA GoesOnSound ==
    ASSUME NEW configs, NEW q, NEW r, ProcSound(q, configs), DOMAIN r = DOMAIN q,
           r.loaded = q.loaded, r.source = q.source,
           r.pc \notin {"write"} \cup Named,
           r.pc \in Configured => q.pc \in Configured \/ q.source = "flags" \/ q.loaded # NoOptions
    PROVE  ProcSound(r, configs)
BY DEF ProcSound, Named

\* Further configs that are saved change nothing for a process.
LEMMA MoreConfigs ==
    ASSUME NEW configs, NEW more, configs \subseteq more, NEW q, ProcSound(q, configs)
    PROVE  ProcSound(q, more)
BY DEF ProcSound

\* A step of one process.
LEMMA ProcessStep ==
    ASSUME SetupInv, NEW p \in Procs, NEW q, Become(p, q), ProcSound(q, saved'),
           saved \subseteq saved', ConfigSound', RegistrySound'
    PROVE  SetupInv'
<1>1. procs' = [procs EXCEPT ![p] = q] /\ DOMAIN procs = Procs
  BY DEF Become, SetupInv
<1>2. ASSUME NEW r \in Procs
      PROVE  ProcSound(procs'[r], saved')
  <2>1. CASE r = p
    BY <1>1, <2>1
  <2>2. CASE r # p
    <3>1. procs'[r] = procs[r] /\ ProcSound(procs[r], saved)
      BY <1>1, <2>2 DEF SetupInv
    <3> QED BY <3>1, MoreConfigs
  <2> QED BY <2>1, <2>2
<1> QED BY <1>1, <1>2 DEF SetupInv

\* One that touches no file.
LEMMA QuietStep ==
    ASSUME SetupInv, NEW p \in Procs, NEW q, Become(p, q), ProcSound(q, saved), Touch(homeFiles)
    PROVE  SetupInv'
<1>1. UNCHANGED <<config, registry, saved, registrars>>
  BY DEF Touch, homeFiles
<1>2. ConfigSound' /\ RegistrySound'
  BY <1>1 DEF SetupInv, ConfigSound, RegistrySound
<1>3. saved' = saved
  BY <1>1
<1>4. ProcSound(q, saved') /\ saved \subseteq saved'
  BY <1>3
<1> QED BY <1>2, <1>4, ProcessStep

\* A process that sets out.
LEMMA BeginsSetupSound ==
    ASSUME SetupInv, NEW p \in Procs, NEW i \in Invocations, BeginSetup(p, i) \/ BeginJoin(p, i)
    PROVE  SetupInv'
<1>1. ASSUME NEW pc \in {"discover", "load", "resolve"}, NEW source, NEW q, DOMAIN q = DOMAIN NoProcess,
             q.pc = pc, q.source = source, q.loaded = NoOptions, pc = "resolve" => source = "flags",
             Become(p, q), Touch(homeFiles)
      PROVE  SetupInv'
  <2>1. ProcSound(q, saved)
    BY <1>1 DEF ProcSound, NoProcess, Configured, Named
  <2> QED BY <1>1, <2>1, QuietStep
<1>2. /\ NoProcess.loaded = NoOptions
      /\ {"pc", "inv", "options", "source", "loaded"} \subseteq DOMAIN NoProcess
  BY DEF NoProcess
<1>3. CASE BeginSetup(p, i)
  <2> DEFINE q == [NoProcess EXCEPT !.pc = "discover", !.inv = i, !.source = "setup",
                                    !.options = i.options]
  <2>1. Become(p, q) /\ Touch(homeFiles)
    BY <1>3 DEF BeginSetup
  <2>2. DOMAIN q = DOMAIN NoProcess /\ q.pc = "discover" /\ q.source = "setup" /\ q.loaded = NoOptions
    BY <1>2
  <2> HIDE DEF q
  <2> QED BY <1>1, <2>1, <2>2
<1>4. CASE BeginJoin(p, i)
  <2> DEFINE b == [NoProcess EXCEPT !.inv = i, !.options = i.options]
             q(pc, source) == [b EXCEPT !.pc = pc, !.source = source]
  <2>1. /\ Touch(homeFiles)
        /\ \/ Become(p, q("discover", "first run"))
           \/ Become(p, q("load", "config"))
           \/ Become(p, q("resolve", "flags"))
    BY <1>4 DEF BeginJoin
  <2>2. ASSUME NEW pc, NEW source
        PROVE  /\ DOMAIN q(pc, source) = DOMAIN NoProcess /\ q(pc, source).pc = pc
               /\ q(pc, source).source = source /\ q(pc, source).loaded = NoOptions
    BY <1>2
  <2> HIDE DEF q
  <2>3. ASSUME NEW pc \in {"discover", "load", "resolve"}, NEW source, Become(p, q(pc, source)),
               pc = "resolve" => source = "flags"
        PROVE  SetupInv'
    <3> DEFINE r == q(pc, source)
    <3>1. /\ DOMAIN r = DOMAIN NoProcess /\ r.pc = pc /\ r.source = source /\ r.loaded = NoOptions
          /\ Become(p, r)
      BY <2>2, <2>3
    <3> HIDE DEF r
    <3> QED BY <1>1, <2>1, <2>3, <3>1
  <2>4. CASE Become(p, q("discover", "first run"))
    BY <2>3, <2>4
  <2>5. CASE Become(p, q("load", "config"))
    BY <2>3, <2>5
  <2>6. CASE Become(p, q("resolve", "flags"))
    BY <2>3, <2>6
  <2> QED BY <2>1, <2>4, <2>5, <2>6
<1> QED BY <1>3, <1>4

\* A process that goes on to another place, where it has not to write yet.
LEMMA AdvancesSound ==
    ASSUME SetupInv, NEW p \in Procs, NEW pc, pc \notin {"write"} \cup Named, NEW options,
           pc \in Configured =>
              procs[p].pc \in Configured \/ procs[p].source = "flags" \/ procs[p].loaded # NoOptions
    PROVE  ProcSound([procs[p] EXCEPT !.pc = pc, !.options = options], saved)
<1> DEFINE r == [procs[p] EXCEPT !.pc = pc, !.options = options]
<1>1. ProcSound(procs[p], saved)
  BY DEF SetupInv
<1>2. /\ DOMAIN r = DOMAIN procs[p] /\ r.loaded = procs[p].loaded /\ r.source = procs[p].source
      /\ r.pc = pc
  BY <1>1 DEF ProcSound
<1> HIDE DEF r
<1>3. ProcSound(r, saved)
  BY <1>1, <1>2, GoesOnSound
<1> QED BY <1>3 DEF r

\* Discovery, the wizards, and what join makes of config and flags.
LEMMA ChoosesSound ==
    ASSUME SetupInv, NEW p \in Procs,
           \/ \E ready : DiscoverForSetup(p, ready) \/ ResolveJoinOptions(p, ready)
           \/ \E typed : RunTextWizard(p, typed)
           \/ OpenJoinWizard(p)
           \/ \E key, text : WizardKey(p, key, text)
    PROVE  SetupInv'
<1>1. ASSUME Fail(p), Touch(homeFiles)
      PROVE  SetupInv'
  BY <1>1, EndedSound, QuietStep DEF Fail
<1>2. ASSUME NEW pc, NEW options, Advance(p, pc, options), Touch(homeFiles),
             pc \notin {"write"} \cup Named,
             pc \in Configured =>
                procs[p].pc \in Configured \/ procs[p].source = "flags" \/ procs[p].loaded # NoOptions
      PROVE  SetupInv'
  BY <1>2, AdvancesSound, QuietStep DEF Advance
<1>3. /\ AfterWizard(p) \in {"build", "persist"}
      /\ AfterWizard(p) = "build" => procs[p].source = "flags" \/ procs[p].loaded # NoOptions
  BY DEF AfterWizard
<1>4. ASSUME NEW ready, DiscoverForSetup(p, ready)
      PROVE  SetupInv'
  <2> DEFINE options == ApplySetupDefaults(DiscoverSetupServer(procs[p].options, procs[p].inv, ready))
             pc == IF SetupChooses(options, procs[p].inv) THEN "choose" ELSE "persist"
  <2>1. Advance(p, pc, options) /\ Touch(homeFiles)
    BY <1>4 DEF DiscoverForSetup
  <2>2. pc \in {"choose", "persist"}
    OBVIOUS
  <2> HIDE DEF pc, options
  <2> QED BY <1>2, <2>1, <2>2 DEF Named, Configured
<1>5. ASSUME NEW ready, ResolveJoinOptions(p, ready)
      PROVE  SetupInv'
  <2> DEFINE i == procs[p].inv
             base == IF procs[p].source = "flags" THEN i.options ELSE procs[p].loaded
             options == DiscoverJoinServer(ApplyJoinFlagOverrides(base, i), i, ready)
             pc == IF i.wizard THEN "choose" ELSE "build"
  <2>1. Advance(p, pc, options) /\ Touch(homeFiles)
    BY <1>5 DEF ResolveJoinOptions
  <2>2. procs[p].pc \in Configured
    BY <1>5 DEF ResolveJoinOptions, Is, Configured
  <2>3. pc \in {"choose", "build"}
    OBVIOUS
  <2> HIDE DEF pc, options
  <2> QED BY <1>2, <2>1, <2>2, <2>3 DEF Named
<1>6. ASSUME NEW typed, RunTextWizard(p, typed)
      PROVE  SetupInv'
  <2>1. Fail(p) \/ \E options : Advance(p, AfterWizard(p), options)
    BY <1>6 DEF RunTextWizard
  <2>2. Touch(homeFiles)
    BY <1>6 DEF RunTextWizard
  <2> QED BY <1>1, <1>2, <1>3, <2>1, <2>2 DEF Named, Configured
<1>7. ASSUME NEW q, Become(p, q), Touch(homeFiles), DOMAIN q = DOMAIN procs[p],
             q.loaded = procs[p].loaded, q.source = procs[p].source,
             q.pc \in {"wizard", AfterWizard(p)}
      PROVE  SetupInv'
  <2>1. ProcSound(procs[p], saved)
    BY DEF SetupInv
  <2>2. q.pc \in {"wizard", "build", "persist"}
    BY <1>3, <1>7
  <2>3. q.pc \in Configured => procs[p].source = "flags" \/ procs[p].loaded # NoOptions
    BY <1>3, <1>7 DEF Configured
  <2>4. ProcSound(q, saved)
    BY <1>7, <2>1, <2>2, <2>3, GoesOnSound DEF Named
  <2> QED BY <1>7, <2>4, QuietStep
<1>8. DOMAIN procs[p] = {"pc", "inv", "options", "wizard", "source", "loaded", "names", "advertised"}
  BY DEF SetupInv, ProcSound
<1>9. CASE OpenJoinWizard(p)
  <2> DEFINE q == [procs[p] EXCEPT !.pc = "wizard", !.wizard = OpenWizard(procs[p].options)]
  <2>1. Become(p, q) /\ Touch(homeFiles)
    BY <1>9 DEF OpenJoinWizard
  <2>2. DOMAIN q = DOMAIN procs[p] /\ q.loaded = procs[p].loaded /\ q.source = procs[p].source /\ q.pc = "wizard"
    BY <1>8
  <2> HIDE DEF q
  <2> QED BY <1>7, <2>1, <2>2
<1>10. ASSUME NEW key, NEW text, WizardKey(p, key, text)
       PROVE  SetupInv'
  <2>1. /\ Is(p, "wizard") /\ Touch(homeFiles)
        /\ \/ \E wizard, options : Become(p, [procs[p] EXCEPT !.pc = AfterWizard(p), !.wizard = wizard,
                                                              !.options = options])
           \/ \E wizard : Become(p, [procs[p] EXCEPT !.wizard = wizard])
    BY <1>10 DEF WizardKey
  <2>2. ASSUME NEW wizard, NEW options,
               Become(p, [procs[p] EXCEPT !.pc = AfterWizard(p), !.wizard = wizard, !.options = options])
        PROVE  SetupInv'
    <3> DEFINE q == [procs[p] EXCEPT !.pc = AfterWizard(p), !.wizard = wizard, !.options = options]
    <3>1. /\ DOMAIN q = DOMAIN procs[p] /\ q.loaded = procs[p].loaded /\ q.source = procs[p].source
          /\ q.pc = AfterWizard(p)
      BY <1>8
    <3>2. Become(p, q)
      BY <2>2
    <3> HIDE DEF q
    <3> QED BY <1>7, <2>1, <3>1, <3>2
  <2>3. ASSUME NEW wizard, Become(p, [procs[p] EXCEPT !.wizard = wizard])
        PROVE  SetupInv'
    <3> DEFINE q == [procs[p] EXCEPT !.wizard = wizard]
    <3>1. /\ DOMAIN q = DOMAIN procs[p] /\ q.loaded = procs[p].loaded /\ q.source = procs[p].source
          /\ q.pc = "wizard"
      BY <1>8, <2>1 DEF Is
    <3>2. Become(p, q)
      BY <2>3
    <3> HIDE DEF q
    <3> QED BY <1>7, <2>1, <3>1, <3>2
  <2> QED BY <2>1, <2>2, <2>3
<1> QED BY <1>4, <1>5, <1>6, <1>9, <1>10

\* The default skill is written, which is no config.
LEMMA SkillSound ==
    ASSUME SetupInv, NEW p \in Procs, EnsureSkill(p) \/ WriteSkill(p)
    PROVE  SetupInv'
<1>1. UNCHANGED <<config, registry, saved, registrars>>
  BY DEF EnsureSkill, WriteSkill, Touch
<1>2. ConfigSound' /\ RegistrySound' /\ saved' = saved
  BY <1>1 DEF SetupInv, ConfigSound, RegistrySound
<1>3. \/ Fail(p)
      \/ \E options : Advance(p, "save", options) \/ Advance(p, "skill", options)
  BY DEF EnsureSkill, WriteSkill
<1>4. ASSUME NEW q, Become(p, q), ProcSound(q, saved)
      PROVE  SetupInv'
  BY <1>2, <1>4, ProcessStep
<1>5. CASE Fail(p)
  BY <1>4, <1>5, EndedSound DEF Fail
<1>6. ASSUME NEW options, Advance(p, "save", options) \/ Advance(p, "skill", options)
      PROVE  SetupInv'
  BY <1>4, <1>6, AdvancesSound DEF Advance, Named, Configured
<1> QED BY <1>3, <1>5, <1>6

\* The config is put down as saved, and the file is truncated.
LEMMA TruncateSound ==
    ASSUME SetupInv, NEW p \in Procs, TruncateConfig(p)
    PROVE  SetupInv'
<1> DEFINE c == ConfigDefaults(procs[p].options)
           q == [procs[p] EXCEPT !.pc = "write", !.options = c]
<1>1. /\ config' = Empty /\ saved' = saved \cup {c} /\ Become(p, q) /\ UNCHANGED <<registry, registrars>>
  BY DEF TruncateConfig, Advance, Touch
<1>2. ConfigDefaults(c) = c
  BY DefaultsOnce
<1>3. ProcSound(procs[p], saved)
  BY DEF SetupInv
<1>4. /\ DOMAIN q = DOMAIN procs[p] /\ q.loaded = procs[p].loaded /\ q.pc = "write" /\ q.options = c
  BY <1>3 DEF ProcSound
<1> HIDE DEF q, c
<1>5. ProcSound(q, saved')
  BY <1>1, <1>3, <1>4 DEF ProcSound, Configured, Named
<1>6. ConfigSound'
  BY <1>1, <1>2, FilesAre DEF SetupInv, ConfigSound
<1>7. RegistrySound' /\ saved \subseteq saved'
  BY <1>1 DEF SetupInv, RegistrySound
<1> QED BY <1>1, <1>5, <1>6, <1>7, ProcessStep

\* The config is written, whole or over that of another process.
LEMMA WriteSound ==
    ASSUME SetupInv, NEW p \in Procs, WriteConfig(p)
    PROVE  SetupInv'
<1>1. /\ procs[p].options \in saved /\ ProcSound(procs[p], saved)
  BY DEF WriteConfig, Is, SetupInv, ProcSound
<1>2. /\ config' \in {config, Torn, Whole(procs[p].options)}
      /\ UNCHANGED <<registry, saved, registrars>>
  BY DEF WriteConfig, Written, Touch
<1>3. ConfigSound' /\ RegistrySound' /\ saved' = saved
  <2>1. config'.is = "whole" => config'.value \in saved
    BY <1>1, <1>2, FilesAre DEF SetupInv, ConfigSound
  <2> QED BY <1>2, <2>1 DEF SetupInv, ConfigSound, RegistrySound
<1>4. ASSUME NEW q, Become(p, q), ProcSound(q, saved)
      PROVE  SetupInv'
  BY <1>3, <1>4, ProcessStep
<1>5. CASE Fail(p)
  BY <1>4, <1>5, EndedSound DEF Fail
<1>6. CASE ~Fail(p)
  <2> DEFINE q == [procs[p] EXCEPT !.pc = "resolve", !.loaded = procs[p].options]
  <2>1. Become(p, q)
    BY <1>6 DEF WriteConfig
  <2>2. DOMAIN q = DOMAIN procs[p] /\ q.pc = "resolve" /\ q.loaded = procs[p].options
    BY <1>1 DEF ProcSound
  <2> HIDE DEF q
  <2>3. ProcSound(q, saved)
    BY <1>1, <2>2 DEF ProcSound, Named
  <2> QED BY <1>4, <2>1, <2>3
<1> QED BY <1>5, <1>6

\* What is loaded is what was saved: its defaults have been filled in.
LEMMA LoadSound ==
    ASSUME SetupInv, NEW p \in Procs, LoadConfig(p)
    PROVE  SetupInv'
<1> DEFINE c == ConfigDefaults(config.value)
           q == [procs[p] EXCEPT !.pc = "resolve", !.options = c, !.loaded = c]
<1>1. ProcSound(procs[p], saved) /\ Touch(homeFiles)
  BY DEF LoadConfig, SetupInv
<1>2. CASE Fail(p)
  BY <1>1, <1>2, EndedSound, QuietStep DEF Fail
<1>3. CASE ~Fail(p)
  <2>1. config.is = "whole" /\ Become(p, q)
    BY <1>3 DEF LoadConfig
  <2>2. c \in saved
    BY <2>1 DEF SetupInv, ConfigSound
  <2>3. DOMAIN q = DOMAIN procs[p] /\ q.pc = "resolve" /\ q.loaded = c
    BY <1>1 DEF ProcSound
  <2> HIDE DEF q, c
  <2>4. ProcSound(q, saved)
    BY <1>1, <2>2, <2>3 DEF ProcSound, Named
  <2> QED BY <1>1, <2>1, <2>4, QuietStep
<1> QED BY <1>2, <1>3

\* The names of the skills that load are sound.
LEMMA SkillsAreNamed ==
    ASSUME SetupInv, NEW dir, SkillsLoad(dir), NEW q
    PROVE  NamesSound(q, NamesOfSkills(dir))
<1>1. RegisteredFirst \subseteq registry.value \/ RegisteredFirst = {}
  BY DEF SetupInv, RegistrySound, SkillsLoad, RegistryLoads
<1>2. \A s \in RegisteredFirst : SkillNames[s] \subseteq NamesOfSkills(dir)
  BY <1>1 DEF NamesOfSkills
<1> QED BY <1>2 DEF NamesSound

\* From the start of the worker to its first heartbeat.
LEMMA StartSound ==
    ASSUME SetupInv, NEW p \in Procs,
           BuildJoinEnvironment(p) \/ LoadSkills(p) \/ ConfigFromEnv(p) \/ RegisterWorker(p) \/ Ends(p)
    PROVE  SetupInv'
<1>1. ProcSound(procs[p], saved) /\ Touch(homeFiles)
  BY DEF BuildJoinEnvironment, LoadSkills, ConfigFromEnv, RegisterWorker, Ends, SetupInv
<1>2. CASE Fail(p)
  BY <1>1, <1>2, EndedSound, QuietStep DEF Fail
<1>3. CASE (BuildJoinEnvironment(p) \/ LoadSkills(p)) /\ ~Fail(p)
  <2>1. procs[p].pc \in Configured
    BY <1>3 DEF BuildJoinEnvironment, LoadSkills, Is, Configured
  <2>2. \E options : Advance(p, "start", options) \/ Advance(p, "config", options)
    BY <1>3 DEF BuildJoinEnvironment, LoadSkills
  <2>3. "start" \notin {"write"} \cup Named /\ "config" \notin {"write"} \cup Named
    BY DEF Named
  <2> QED BY <1>1, <2>1, <2>2, <2>3, AdvancesSound, QuietStep DEF Advance
<1>4. CASE ConfigFromEnv(p)
  <2> DEFINE o == procs[p].options
             names == IF o.capabilities # {} THEN o.capabilities
                      ELSE IF SkillsLoad(o.dir) THEN NamesOfSkills(o.dir) ELSE FallbackNames
             q == [procs[p] EXCEPT !.pc = "register", !.names = names]
  <2>1. Become(p, q) /\ procs[p].pc \in Configured
    BY <1>4 DEF ConfigFromEnv, Is, Configured
  <2>2. /\ DOMAIN q = DOMAIN procs[p] /\ q.pc = "register" /\ q.names = names /\ q.options = procs[p].options
        /\ q.loaded = procs[p].loaded /\ q.source = procs[p].source
    BY <1>1 DEF ProcSound
  <2> HIDE DEF q
  <2>3. NamesSound(q, names)
    <3>1. CASE o.capabilities # {}
      BY <2>2, <3>1 DEF NamesSound
    <3>2. CASE o.capabilities = {} /\ SkillsLoad(o.dir)
      BY <3>2, SkillsAreNamed
    <3>3. CASE o.capabilities = {} /\ ~SkillsLoad(o.dir)
      BY <3>3 DEF NamesSound
    <3> QED BY <3>1, <3>2, <3>3
  <2> HIDE DEF names
  <2>4. ProcSound(q, saved)
    BY <1>1, <2>1, <2>2, <2>3 DEF ProcSound
  <2> QED BY <1>1, <2>1, <2>4, QuietStep
<1>5. CASE RegisterWorker(p)
  <2> DEFINE q == [procs[p] EXCEPT !.pc = "first beat", !.advertised = procs[p].names]
  <2>1. Become(p, q) /\ procs[p].pc = "register"
    BY <1>5 DEF RegisterWorker, Is
  <2>2. /\ DOMAIN q = DOMAIN procs[p] /\ q.pc = "first beat" /\ q.names = procs[p].names
        /\ q.options = procs[p].options /\ q.loaded = procs[p].loaded /\ q.source = procs[p].source
    BY <1>1 DEF ProcSound
  <2> HIDE DEF q
  <2>3. ProcSound(q, saved)
    BY <1>1, <2>1, <2>2 DEF ProcSound, NamesSound, Configured, Named
  <2> QED BY <1>1, <2>1, <2>3, QuietStep
<1> QED BY <1>2, <1>3, <1>4, <1>5 DEF Ends

\* A heartbeat keeps the names that it has, or takes those of skills that load.
LEMMA HeartbeatSound ==
    ASSUME SetupInv, NEW p \in Procs, Heartbeat(p)
    PROVE  SetupInv'
<1> DEFINE b == Refresh(procs[p])
           q == [b EXCEPT !.pc = "running", !.advertised = b.names]
<1>1. /\ Become(p, q) /\ Touch(homeFiles) /\ procs[p].pc \in {"first beat", "running"}
  BY DEF Heartbeat
<1>2. ProcSound(procs[p], saved)
  BY DEF SetupInv
<1>3. /\ DOMAIN b = DOMAIN procs[p] /\ b.options = procs[p].options
      /\ b.loaded = procs[p].loaded /\ b.source = procs[p].source
      /\ NamesSound(b, b.names)
  <2>1. CASE SkillsLoad(procs[p].options.dir)
    <3> DEFINE names == NamesOfSkills(procs[p].options.dir)
    <3>1. b = [procs[p] EXCEPT !.names = names]
      BY <2>1 DEF Refresh
    <3>2. NamesSound(b, names)
      BY <2>1, SkillsAreNamed
    <3> HIDE DEF names, b
    <3> QED BY <1>2, <3>1, <3>2 DEF ProcSound
  <2>2. CASE ~SkillsLoad(procs[p].options.dir)
    <3>1. b = procs[p]
      BY <2>2 DEF Refresh
    <3>2. NamesSound(procs[p], procs[p].names)
      BY <1>1, <1>2 DEF ProcSound, Named
    <3> QED BY <3>1, <3>2
  <2> QED BY <2>1, <2>2
<1> HIDE DEF b
<1>4. /\ DOMAIN q = DOMAIN procs[p] /\ q.pc = "running" /\ q.names = b.names /\ q.advertised = b.names
      /\ q.options = b.options /\ q.loaded = procs[p].loaded /\ q.source = procs[p].source
  BY <1>2, <1>3 DEF ProcSound
<1> HIDE DEF q
<1>5. NamesSound(q, b.names)
  BY <1>3, <1>4 DEF NamesSound
<1>6. ProcSound(q, saved)
  BY <1>1, <1>2, <1>4, <1>5 DEF ProcSound, Configured
<1> QED BY <1>1, <1>6, QuietStep

\* The registry as the registrars rewrite it, and what uninstall removes.
LEMMA RegistrarsSound ==
    ASSUME SetupInv,
           \/ \E r \in Registrars :
                 \/ \E s \in Skills : LoadRegistry(r, s)
                 \/ TruncateRegistry(r) \/ WriteRegistry(r) \/ RegistrarEnds(r)
           \/ Purge
    PROVE  SetupInv'
<1>1. /\ UNCHANGED <<saved, procs>> /\ config' \in {config, NoFile}
  BY DEF LoadRegistry, TruncateRegistry, WriteRegistry, RegistrarEnds, Purge, homeFiles
<1>2. ConfigSound'
  BY <1>1, FilesAre DEF SetupInv, ConfigSound
<1>3. ASSUME NEW r \in Registrars, NEW s \in Skills, LoadRegistry(r, s)
      PROVE  RegistrySound'
  <2>1. RegisteredFirst \subseteq registry.value \cup {s}
    BY <1>3 DEF LoadRegistry, RegistryLoads, SetupInv, RegistrySound
  <2>2. /\ registry' = registry
        /\ registrars' = [registrars EXCEPT ![r] = [pc |-> "save", skills |-> registry.value \cup {s}]]
    BY <1>3 DEF LoadRegistry, homeFiles
  <2> QED BY <2>1, <2>2 DEF SetupInv, RegistrySound
<1>4. ASSUME NEW r \in Registrars, TruncateRegistry(r)
      PROVE  RegistrySound'
  <2>1. /\ registry' = Empty /\ registrars[r].pc = "save" /\ registrars' = [registrars EXCEPT ![r].pc = "write"]
    BY <1>4 DEF TruncateRegistry
  <2> QED BY <2>1, FilesAre DEF SetupInv, RegistrySound
<1>5. ASSUME NEW r \in Registrars, WriteRegistry(r)
      PROVE  RegistrySound'
  <2>1. /\ registry' \in {registry, Torn, Whole(registrars[r].skills)} /\ registrars[r].pc = "write"
        /\ registrars' = [registrars EXCEPT ![r] = NoRegistrar]
    BY <1>5 DEF WriteRegistry, Written
  <2>2. DOMAIN NoRegistrar = {"pc", "skills"} /\ NoRegistrar.pc = "idle"
    BY DEF NoRegistrar
  <2> QED BY <2>1, <2>2, FilesAre DEF SetupInv, RegistrySound
<1>6. ASSUME NEW r \in Registrars, RegistrarEnds(r)
      PROVE  RegistrySound'
  <2>1. registry' = registry /\ registrars' = [registrars EXCEPT ![r] = NoRegistrar]
    BY <1>6 DEF RegistrarEnds, homeFiles
  <2>2. DOMAIN NoRegistrar = {"pc", "skills"} /\ NoRegistrar.pc = "idle"
    BY DEF NoRegistrar
  <2> QED BY <2>1, <2>2 DEF SetupInv, RegistrySound
<1>7. ASSUME Purge
      PROVE  RegistrySound'
  <2>1. registry' = registry /\ registrars' = registrars
    BY <1>7 DEF Purge
  <2> QED BY <2>1 DEF SetupInv, RegistrySound
<1>8. RegistrySound'
  <2>1. CASE Purge
    BY <1>7, <2>1
  <2>2. ASSUME NEW r \in Registrars,
               \/ \E s \in Skills : LoadRegistry(r, s)
               \/ TruncateRegistry(r) \/ WriteRegistry(r) \/ RegistrarEnds(r)
        PROVE  RegistrySound'
    BY <1>3, <1>4, <1>5, <1>6, <2>2
  <2> QED BY <2>1, <2>2
<1> QED BY <1>1, <1>2, <1>8 DEF SetupInv

\* Each step of a process that shares the directory.
LEMMA SetupStep == SetupInv /\ [SetupNext]_setupVars => SetupInv'
<1> SUFFICES ASSUME SetupInv, [SetupNext]_setupVars PROVE SetupInv'
  OBVIOUS
<1>1. CASE UNCHANGED setupVars
  BY <1>1 DEF setupVars, homeFiles, SetupInv, ConfigSound, RegistrySound
<1>2. ASSUME NEW p \in Procs, SetupSteps(p)
      PROVE  SetupInv'
  BY <1>2, ChoosesSound, SkillSound, TruncateSound, WriteSound, LoadSound, StartSound DEF SetupSteps
<1>3. ASSUME NEW p \in Procs, WorkerSteps(p)
      PROVE  SetupInv'
  BY <1>3, StartSound, HeartbeatSound DEF WorkerSteps
<1> QED BY <1>1, <1>2, <1>3, BeginsSetupSound, RegistrarsSound DEF SetupNext, ProcNext, RegistrarNext

\* Every process goes by a config that was saved and keeps the skills that were
\* there, however processes start, stop and overwrite the files.
THEOREM SetupInvHolds == SetupSpec => []SetupInv
BY SetupInitInv, SetupStep, PTL DEF SetupSpec

\* Nothing locks the config (config.go, setup_commands.go), but whatever setups
\* overlap, crash half way or are purged meanwhile, a worker starts from a
\* config only if one of them set out to save that very config.
THEOREM WorkerStartsAsConfigured == SetupSpec => []StartsAsConfigured
<1>1. SetupInv => StartsAsConfigured
  BY DEF SetupInv, ProcSound, StartsAsConfigured, Started, Configured
<1> QED BY <1>1, SetupInvHolds, PTL

\* However the registry is rewritten, torn or left empty (skill register), a
\* worker goes on advertising the skills that were registered before, or the
\* capabilities it was configured with.
THEOREM RegisteredSkillsStay == SetupSpec => []SkillsStayAdvertised
<1>1. SetupInv => SkillsStayAdvertised
  BY DEF SetupInv, ProcSound, NamesSound, SkillsStayAdvertised, Is, Named
<1> QED BY <1>1, SetupInvHolds, PTL

-----------------------------------------------------------------------------
(* The CLI of the backend.                                                 *)

\* What the backends' proof asks of the invocations: the command that one gives,
\* if any, is not the CLI of a backend.
CommandsAreOwn ==
    /\ Blank \notin Known /\ AutoBackend \notin Known
    /\ \A i \in Invocations : /\ {"backend", "command"} \subseteq DOMAIN i.options
                              /\ i.options.command \notin Known

\* Settings whose command fits their backend, and those without a CLI.
Fits(o) ==
    /\ {"backend", "command"} \subseteq DOMAIN o
    /\ o.command \in Known => o.command = o.backend
Commandless(o) ==
    /\ {"backend", "command"} \subseteq DOMAIN o
    /\ o.command \notin Known

\* The invocations that RunsItsBackend excepts.
Excepted(i) == "backend" \in Given(i) \/ (i.setup /\ i.wizard)

StartPlaces == {"start", "config", "register", "first beat", "running"}

\* By the place a process has come to: no command until a wizard chose one, which
\* is then that of the backend it chose, in what is saved and in what is started.
BackendSound(q) ==
    /\ q.pc # "idle" => q.inv \in Invocations
    /\ q.pc # "idle" => q.source \in {"setup", "first run", "config", "flags"}
    /\ q.pc \in {"discover", "persist", "skill", "save", "write"} => q.source # "flags"
    /\ q.source = "config" => ~q.inv.wizard
    /\ q.source = "first run" /\ q.inv.wizard => q.inv.setup
    /\ q.pc = "load" => q.source = "config"
    /\ q.pc = "resolve" => /\ q.source \in {"config", "first run", "flags"}
                           /\ q.source # "flags" => q.loaded # NoOptions
    /\ q.pc = "discover" => Commandless(q.options)
    /\ q.pc \in {"choose", "wizard"} =>
          Commandless(q.options) \/ (q.loaded # NoOptions /\ Excepted(q.inv))
    /\ q.pc \in {"persist", "skill", "save", "write"} => Fits(q.options)
    /\ q.pc \in {"build"} \cup StartPlaces => Excepted(q.inv) \/ Fits(q.options)

SavedFit(configs) == \A c \in configs : Fits(c) /\ c.backend # Blank

BackendInv ==
    /\ SetupInv
    /\ SavedFit(saved)
    /\ \A p \in Procs : BackendSound(procs[p])

\* One process goes on, and what is saved is what it saved.
LEMMA BackendStep ==
    ASSUME BackendInv, SetupInv', NEW p \in Procs, NEW q, Become(p, q), BackendSound(q),
           SavedFit(saved')
    PROVE  BackendInv'
<1>1. procs' = [procs EXCEPT ![p] = q] /\ DOMAIN procs = Procs
  BY DEF Become, BackendInv, SetupInv
<1>2. ASSUME NEW r \in Procs PROVE BackendSound(procs'[r])
  <2>1. CASE r = p
    BY <1>1, <2>1
  <2>2. CASE r # p
    BY <1>1, <2>2 DEF BackendInv
  <2> QED BY <2>1, <2>2
<1> QED BY <1>2 DEF BackendInv

\* The steps that save nothing.
LEMMA BackendStays ==
    ASSUME BackendInv, SetupInv', NEW p \in Procs, NEW q, Become(p, q), BackendSound(q),
           saved' = saved
    PROVE  BackendInv'
BY BackendStep DEF BackendInv

\* A process that has ended.
LEMMA BackendEnds ==
    ASSUME BackendInv, SetupInv', NEW p \in Procs, Fail(p), saved' = saved
    PROVE  BackendInv'
<1>1. BackendSound(NoProcess)
  BY DEF NoProcess, BackendSound, StartPlaces
<1> QED BY <1>1, BackendStays DEF Fail

\* What is chosen fits: a wizard sets the command to the backend it chose.
LEMMA WizardsFit ==
    ASSUME NEW base, Commandless(base), NEW backend, NEW model
    PROVE  Fits(WizardResult(base, backend, model))
<1> DEFINE command == Default(base.command, backend)
           o == WizardResult(base, backend, model)
<1>1. {"backend", "command"} \subseteq DOMAIN o
  BY DEF Commandless, WizardResult
<1>2. o.backend = backend /\ o.command = command
  BY DEF Commandless, WizardResult
<1>3. command \in Known => command = backend
  BY DEF Default, Commandless
<1> QED BY <1>1, <1>2, <1>3 DEF Fits

\* Settings without the CLI of a backend fit any backend.
LEMMA CommandlessFits ==
    ASSUME NEW o, Commandless(o)
    PROVE  Fits(o)
BY DEF Commandless, Fits

\* A process goes on, with settings that fit the place.
LEMMA BackendAdvances ==
    ASSUME BackendInv, SetupInv', saved' = saved, NEW p \in Procs, procs[p].pc # "idle",
           NEW pc, NEW o, Advance(p, pc, o), pc \notin {"idle", "load", "resolve", "discover"},
           pc \in {"choose", "wizard"} =>
              Commandless(o) \/ (procs[p].loaded # NoOptions /\ Excepted(procs[p].inv)),
           pc \in {"persist", "skill", "save", "write"} =>
              Fits(o) /\ procs[p].source # "flags",
           pc \in {"build"} \cup StartPlaces => Excepted(procs[p].inv) \/ Fits(o)
    PROVE  BackendInv'
<1> DEFINE q == [procs[p] EXCEPT !.pc = pc, !.options = o]
<1>1. BackendSound(procs[p])
  BY DEF BackendInv
<1>2. DOMAIN procs[p] = {"pc", "inv", "options", "wizard", "source", "loaded", "names", "advertised"}
  BY DEF BackendInv, SetupInv, ProcSound
<1>3. /\ q.pc = pc /\ q.options = o /\ q.inv = procs[p].inv /\ q.source = procs[p].source
      /\ q.loaded = procs[p].loaded
  BY <1>2
<1>4. Become(p, q)
  BY DEF Advance
<1> HIDE DEF q
<1>5. BackendSound(q)
  BY <1>1, <1>3 DEF BackendSound
<1> QED BY <1>4, <1>5, BackendStays

\* An invocation brings no CLI of a backend; the config, if there is one, is
\* loaded when no wizard is asked for.
LEMMA BackendBegins ==
    ASSUME CommandsAreOwn, BackendInv, SetupInv', NEW p \in Procs, NEW i \in Invocations,
           BeginSetup(p, i) \/ BeginJoin(p, i)
    PROVE  BackendInv'
<1>1. saved' = saved
  BY DEF BeginSetup, BeginJoin, Touch, homeFiles
<1>2. /\ NoProcess.loaded = NoOptions
      /\ DOMAIN NoProcess = {"pc", "inv", "options", "wizard", "source", "loaded", "names",
                             "advertised"}
  BY DEF NoProcess
<1>3. Commandless(i.options)
  BY DEF CommandsAreOwn, Commandless
<1>4. ASSUME NEW q, Become(p, q), q.inv = i, q.options = i.options,
             \/ q.pc = "discover" /\ q.source = "setup"
             \/ q.pc = "discover" /\ q.source = "first run" /\ (i.wizard => i.setup)
             \/ q.pc = "load" /\ q.source = "config" /\ ~i.wizard
             \/ q.pc = "resolve" /\ q.source = "flags"
      PROVE  BackendInv'
  <2>1. BackendSound(q)
    BY <1>3, <1>4 DEF BackendSound, StartPlaces
  <2> QED BY <1>1, <1>4, <2>1, BackendStays
<1>5. CASE BeginSetup(p, i)
  <2> DEFINE q == [NoProcess EXCEPT !.pc = "discover", !.inv = i, !.source = "setup",
                                    !.options = i.options]
  <2>1. Become(p, q)
    BY <1>5 DEF BeginSetup
  <2>2. q.inv = i /\ q.options = i.options /\ q.pc = "discover" /\ q.source = "setup"
    BY <1>2
  <2> HIDE DEF q
  <2> QED BY <1>4, <2>1, <2>2
<1>6. CASE BeginJoin(p, i)
  <2> DEFINE b == [NoProcess EXCEPT !.inv = i, !.options = i.options]
             q(pc, source) == [b EXCEPT !.pc = pc, !.source = source]
  <2>1. \E pc, source :
          /\ Become(p, q(pc, source))
          /\ \/ pc = "discover" /\ source = "first run" /\ (i.wizard => i.setup)
             \/ pc = "load" /\ source = "config" /\ ~i.wizard
             \/ pc = "resolve" /\ source = "flags"
    BY <1>6 DEF BeginJoin, ShouldSetupBeforeJoin
  <2>2. ASSUME NEW pc, NEW source
        PROVE  /\ q(pc, source).pc = pc /\ q(pc, source).source = source
               /\ q(pc, source).inv = i /\ q(pc, source).options = i.options
    BY <1>2
  <2> HIDE DEF q
  <2>3. PICK pc, source :
          /\ Become(p, q(pc, source))
          /\ \/ pc = "discover" /\ source = "first run" /\ (i.wizard => i.setup)
             \/ pc = "load" /\ source = "config" /\ ~i.wizard
             \/ pc = "resolve" /\ source = "flags"
    BY <2>1
  <2> DEFINE r == q(pc, source)
  <2>4. Become(p, r) /\ r.pc = pc /\ r.source = source /\ r.inv = i /\ r.options = i.options
    BY <2>2, <2>3
  <2> HIDE DEF r
  <2> QED BY <1>4, <2>3, <2>4
<1> QED BY <1>5, <1>6

\* Discovery changes the server; the defaults give no command.
LEMMA BackendDiscovers ==
    ASSUME BackendInv, SetupInv', NEW p \in Procs, NEW ready, DiscoverForSetup(p, ready)
    PROVE  BackendInv'
<1> DEFINE a == procs[p].options
           b == DiscoverSetupServer(a, procs[p].inv, ready)
           o == ApplySetupDefaults(b)
           pc == IF SetupChooses(o, procs[p].inv) THEN "choose" ELSE "persist"
<1>1. /\ Advance(p, pc, o) /\ saved' = saved /\ procs[p].pc = "discover"
  BY DEF DiscoverForSetup, Is, Touch, homeFiles
<1>2. Commandless(a) /\ procs[p].source # "flags"
  BY <1>1 DEF BackendInv, BackendSound
<1>3. Commandless(b)
  BY <1>2 DEF Commandless, DiscoverSetupServer
<1> HIDE DEF b
<1>4. Commandless(o)
  BY <1>3 DEF Commandless, ApplySetupDefaults
<1>5. Fits(o)
  BY <1>4, CommandlessFits
<1>6. pc \in {"choose", "persist"}
  OBVIOUS
<1> HIDE DEF o, pc
<1> QED BY <1>1, <1>2, <1>4, <1>5, <1>6, BackendAdvances DEF StartPlaces

\* What join makes of config and flags: the command is that of the config, or
\* none of a backend.
LEMMA BackendResolves ==
    ASSUME CommandsAreOwn, BackendInv, SetupInv', NEW p \in Procs, NEW ready,
           ResolveJoinOptions(p, ready)
    PROVE  BackendInv'
<1> DEFINE i == procs[p].inv
           base == IF procs[p].source = "flags" THEN i.options ELSE procs[p].loaded
           a == ApplyJoinFlagOverrides(base, i)
           o == DiscoverJoinServer(a, i, ready)
           pc == IF i.wizard THEN "choose" ELSE "build"
<1>1. /\ Advance(p, pc, o) /\ saved' = saved /\ procs[p].pc = "resolve"
  BY DEF ResolveJoinOptions, Is, Touch, homeFiles
<1>2. BackendSound(procs[p]) /\ ProcSound(procs[p], saved) /\ SavedFit(saved)
  BY DEF BackendInv, SetupInv
<1>3. i \in Invocations /\ Commandless(i.options)
  BY <1>1, <1>2 DEF BackendSound, CommandsAreOwn, Commandless
<1>4. procs[p].source # "flags" => procs[p].loaded # NoOptions /\ Fits(procs[p].loaded)
  BY <1>1, <1>2 DEF BackendSound, ProcSound, Configured, SavedFit
<1>5. /\ DOMAIN a = Setting
      /\ a.backend = IF "backend" \in Given(i) THEN i.options.backend ELSE base.backend
      /\ a.command = IF "command" \in Given(i) THEN i.options.command ELSE base.command
  BY DEF ApplyJoinFlagOverrides, Setting
<1>6. procs[p].source = "flags" => Commandless(a)
  BY <1>3, <1>5 DEF Commandless, Setting
<1>7. Excepted(i) \/ Fits(a)
  <2>1. CASE procs[p].source = "flags"
    BY <1>6, <2>1, CommandlessFits
  <2>2. CASE procs[p].source # "flags" /\ "backend" \notin Given(i)
    BY <1>3, <1>4, <1>5, <2>2 DEF Fits, Commandless, Setting
  <2> QED BY <2>1, <2>2 DEF Excepted
<1> HIDE DEF a
<1>8. /\ procs[p].source = "flags" => Commandless(o)
      /\ Excepted(i) \/ Fits(o)
  BY <1>6, <1>7 DEF Commandless, Fits, DiscoverJoinServer
<1>9. i.wizard /\ procs[p].source # "flags" => procs[p].loaded # NoOptions /\ Excepted(i)
  BY <1>1, <1>2, <1>4 DEF BackendSound, Excepted
<1>10. pc \in {"choose", "build"} /\ (pc = "choose" => i.wizard)
  OBVIOUS
<1> HIDE DEF o, pc
<1> QED BY <1>1, <1>8, <1>9, <1>10, BackendAdvances

\* The wizards.
LEMMA BackendChooses ==
    ASSUME BackendInv, SetupInv', NEW p \in Procs,
           \/ \E typed : RunTextWizard(p, typed)
           \/ OpenJoinWizard(p)
           \/ \E key, text : WizardKey(p, key, text)
    PROVE  BackendInv'
<1>1. saved' = saved /\ procs[p].pc \in {"choose", "wizard"}
  BY DEF RunTextWizard, OpenJoinWizard, WizardKey, Is, Touch, homeFiles
<1>2. BackendSound(procs[p])
  BY DEF BackendInv
<1>3. Commandless(procs[p].options) \/ (procs[p].loaded # NoOptions /\ Excepted(procs[p].inv))
  BY <1>1, <1>2 DEF BackendSound
<1>4. /\ AfterWizard(p) \in {"build", "persist"}
      /\ AfterWizard(p) = "persist" => procs[p].source # "flags"
      /\ Commandless(procs[p].options) \/ (AfterWizard(p) = "build" /\ Excepted(procs[p].inv))
  BY <1>3 DEF AfterWizard
<1>5. DOMAIN procs[p] = {"pc", "inv", "options", "wizard", "source", "loaded", "names", "advertised"}
  BY DEF BackendInv, SetupInv, ProcSound
<1>6. ASSUME NEW b, NEW model,
             NEW q, Become(p, q), q.pc = AfterWizard(p), q.inv = procs[p].inv,
             q.source = procs[p].source, q.loaded = procs[p].loaded,
             q.options = WizardResult(procs[p].options, b, model)
      PROVE  BackendInv'
  <2>1. Fits(q.options) \/ (q.pc = "build" /\ Excepted(q.inv))
    BY <1>4, <1>6, WizardsFit
  <2>2. BackendSound(q)
    BY <1>1, <1>2, <1>4, <1>6, <2>1 DEF BackendSound, StartPlaces
  <2> QED BY <1>1, <1>6, <2>2, BackendStays
<1>7. ASSUME NEW q, Become(p, q), q.pc \in {"choose", "wizard"}, q.inv = procs[p].inv,
             q.source = procs[p].source, q.loaded = procs[p].loaded,
             q.options = procs[p].options
      PROVE  BackendInv'
  <2>1. BackendSound(q)
    BY <1>1, <1>2, <1>3, <1>7 DEF BackendSound, StartPlaces
  <2> QED BY <1>1, <1>7, <2>1, BackendStays
<1>8. ASSUME NEW typed, RunTextWizard(p, typed)
      PROVE  BackendInv'
  <2>1. CASE Fail(p)
    BY <1>1, <2>1, BackendEnds
  <2>2. CASE ~Fail(p)
    <3>1. PICK o \in TextChoices(procs[p].options, procs[p].inv, typed) : Advance(p, AfterWizard(p), o)
      BY <1>8, <2>2 DEF RunTextWizard
    <3>2. \E b, model : o = WizardResult(procs[p].options, b, model)
      BY <3>1 DEF TextChoices
    <3>3. PICK b, model : o = WizardResult(procs[p].options, b, model)
      BY <3>2
    <3> DEFINE q == [procs[p] EXCEPT !.pc = AfterWizard(p), !.options = o]
    <3>4. /\ q.pc = AfterWizard(p) /\ q.options = o /\ q.inv = procs[p].inv
          /\ q.source = procs[p].source /\ q.loaded = procs[p].loaded
      BY <1>5
    <3>5. Become(p, q)
      BY <3>1 DEF Advance
    <3> HIDE DEF q
    <3> QED BY <1>6, <3>3, <3>4, <3>5
  <2> QED BY <2>1, <2>2
<1>9. CASE OpenJoinWizard(p)
  <2> DEFINE q == [procs[p] EXCEPT !.pc = "wizard", !.wizard = OpenWizard(procs[p].options)]
  <2>1. Become(p, q)
    BY <1>9 DEF OpenJoinWizard
  <2>2. /\ q.pc = "wizard" /\ q.options = procs[p].options /\ q.inv = procs[p].inv
        /\ q.source = procs[p].source /\ q.loaded = procs[p].loaded
    BY <1>5
  <2> HIDE DEF q
  <2> QED BY <1>7, <2>1, <2>2
<1>10. ASSUME NEW key, NEW text, WizardKey(p, key, text)
       PROVE  BackendInv'
  <2> DEFINE w == procs[p].wizard
             o == procs[p].options
             r == [procs[p] EXCEPT !.pc = AfterWizard(p), !.wizard = NoWizard,
                      !.options = WizardResult(o, Usable[w.worker], ResolvedModel(w, o))]
             q(v) == [procs[p] EXCEPT !.wizard = v]
  <2>1. procs[p].pc = "wizard" /\ (Become(p, r) \/ \E v : Become(p, q(v)))
    BY <1>10 DEF WizardKey, Is
  <2>2. CASE Become(p, r)
    <3>1. /\ r.pc = AfterWizard(p) /\ r.inv = procs[p].inv
          /\ r.source = procs[p].source /\ r.loaded = procs[p].loaded
          /\ r.options = WizardResult(o, Usable[w.worker], ResolvedModel(w, o))
      BY <1>5
    <3> HIDE DEF r
    <3> QED BY <1>6, <2>2, <3>1
  <2>3. ASSUME NEW v, Become(p, q(v))
        PROVE  BackendInv'
    <3>1. /\ q(v).pc = procs[p].pc /\ q(v).inv = procs[p].inv
          /\ q(v).source = procs[p].source /\ q(v).loaded = procs[p].loaded
          /\ q(v).options = procs[p].options
      BY <1>5
    <3> HIDE DEF q
    <3> QED BY <1>7, <2>1, <2>3, <3>1
  <2> QED BY <2>1, <2>2, <2>3
<1> QED BY <1>8, <1>9, <1>10

\* A config takes over the command, and a backend that is known.
LEMMA BackendSkill ==
    ASSUME BackendInv, CommandsAreOwn, SetupInv', NEW p \in Procs, EnsureSkill(p) \/ WriteSkill(p)
    PROVE  BackendInv'
<1> DEFINE o == procs[p].options
           a == WithDefaults(o, p)
           c == WorkerConfigFromJoinOptions(o, p)
<1>1. saved' = saved /\ procs[p].pc \in {"persist", "skill"}
  BY DEF EnsureSkill, WriteSkill, Is, Touch
<1>2. Fits(o) /\ procs[p].source # "flags"
  BY <1>1 DEF BackendInv, BackendSound
<1>3. Fits(a)
  <2>1. /\ {"backend", "command"} \subseteq DOMAIN a /\ a.command = o.command
        /\ o.backend \notin {Blank, AutoBackend} => a.backend = o.backend
    BY <1>2 DEF Fits, WithDefaults
  <2> QED BY <1>2, <2>1 DEF Fits, CommandsAreOwn
<1> HIDE DEF a
<1>4. Fits(c)
  <2>1. /\ {"backend", "command"} \subseteq DOMAIN c /\ c.command = a.command
        /\ c.backend = a.backend
    BY <1>3 DEF a, Fits, WorkerConfigFromJoinOptions
  <2> QED BY <1>3, <2>1 DEF Fits
<1>5. \/ Fail(p)
      \/ \E pc \in {"save", "skill"} : Advance(p, pc, c) \/ Advance(p, pc, o)
  BY DEF EnsureSkill, WriteSkill
<1> HIDE DEF c
<1>6. ASSUME NEW pc \in {"save", "skill"}, Advance(p, pc, c) \/ Advance(p, pc, o)
      PROVE  BackendInv'
  BY <1>1, <1>2, <1>4, <1>6, BackendAdvances DEF StartPlaces
<1> QED BY <1>1, <1>5, <1>6, BackendEnds

\* What is saved fits, and has a backend.
LEMMA BackendTruncates ==
    ASSUME BackendInv, CommandsAreOwn, SetupInv', NEW p \in Procs, TruncateConfig(p)
    PROVE  BackendInv'
<1> DEFINE o == procs[p].options
           c == ConfigDefaults(o)
           q == [procs[p] EXCEPT !.pc = "write", !.options = c]
<1>1. Become(p, q) /\ saved' = saved \cup {c} /\ procs[p].pc = "save"
  BY DEF TruncateConfig, Advance, Is
<1>2. BackendSound(procs[p]) /\ Fits(o)
  BY <1>1 DEF BackendInv, BackendSound
<1>3. Fits(c) /\ c.backend # Blank
  <2>1. /\ {"backend", "command"} \subseteq DOMAIN c /\ c.command = o.command
        /\ c.backend = Default(o.backend, AutoBackend)
    BY <1>2 DEF Fits, ConfigDefaults
  <2>2. AutoBackend # Blank
    BY DEF AutoBackend, Blank
  <2> QED BY <1>2, <2>1, <2>2 DEF Fits, Default, CommandsAreOwn
<1>4. DOMAIN procs[p] = {"pc", "inv", "options", "wizard", "source", "loaded", "names", "advertised"}
  BY DEF BackendInv, SetupInv, ProcSound
<1>5. /\ q.pc = "write" /\ q.options = c /\ q.inv = procs[p].inv /\ q.source = procs[p].source
  BY <1>4
<1> HIDE DEF q, c
<1>6. BackendSound(q)
  BY <1>1, <1>2, <1>3, <1>5 DEF BackendSound, StartPlaces
<1>7. SavedFit(saved')
  BY <1>1, <1>3 DEF BackendInv, SavedFit
<1> QED BY <1>1, <1>6, <1>7, BackendStep

\* A process goes by a config that was saved.
LEMMA BackendLoads ==
    ASSUME BackendInv, SetupInv', NEW p \in Procs, WriteConfig(p) \/ LoadConfig(p)
    PROVE  BackendInv'
<1>1. /\ saved' = saved /\ SavedFit(saved) /\ procs[p].pc \in {"write", "load"}
      /\ BackendSound(procs[p]) /\ ProcSound(procs[p], saved)
  BY DEF WriteConfig, LoadConfig, Is, Touch, homeFiles, BackendInv, SetupInv
<1>2. DOMAIN procs[p] = {"pc", "inv", "options", "wizard", "source", "loaded", "names", "advertised"}
  BY <1>1 DEF ProcSound
<1>3. ASSUME NEW c \in saved, NEW q, Become(p, q), q.pc = "resolve", q.loaded = c,
             q.inv = procs[p].inv, q.source = procs[p].source,
             procs[p].source \in {"first run", "config"}
      PROVE  BackendInv'
  <2>1. c # NoOptions
    BY <1>1 DEF SavedFit, NoOptions
  <2>2. BackendSound(q)
    BY <1>1, <1>3, <2>1 DEF BackendSound, StartPlaces
  <2> QED BY <1>1, <1>3, <2>2, BackendStays
<1>4. CASE WriteConfig(p) /\ ~Fail(p)
  <2> DEFINE q == [procs[p] EXCEPT !.pc = "resolve", !.loaded = procs[p].options]
  <2>1. Become(p, q) /\ procs[p].pc = "write" /\ procs[p].source # "setup"
    BY <1>4 DEF WriteConfig, Is
  <2>2. /\ q.pc = "resolve" /\ q.loaded = procs[p].options /\ q.inv = procs[p].inv
        /\ q.source = procs[p].source
    BY <1>2
  <2> HIDE DEF q
  <2>3. procs[p].options \in saved
    BY <1>1, <2>1 DEF ProcSound
  <2>4. procs[p].source \in {"first run", "config"}
    BY <1>1, <2>1 DEF BackendSound
  <2> QED BY <1>3, <2>1, <2>2, <2>3, <2>4
<1>5. CASE LoadConfig(p) /\ ~Fail(p)
  <2> DEFINE c == ConfigDefaults(config.value)
             q == [procs[p] EXCEPT !.pc = "resolve", !.options = c, !.loaded = c]
  <2>1. Become(p, q) /\ procs[p].pc = "load" /\ config.is = "whole"
    BY <1>5 DEF LoadConfig, Is
  <2>2. c \in saved
    BY <2>1 DEF BackendInv, SetupInv, ConfigSound
  <2>3. q.pc = "resolve" /\ q.loaded = c /\ q.inv = procs[p].inv /\ q.source = procs[p].source
    BY <1>2
  <2> HIDE DEF q, c
  <2>4. procs[p].source \in {"first run", "config"}
    BY <1>1, <2>1 DEF BackendSound
  <2> QED BY <1>3, <2>1, <2>2, <2>3, <2>4
<1> QED BY <1>1, <1>4, <1>5, BackendEnds

\* The worker is started with the command of its config, or that of the backend.
LEMMA BackendBuilds ==
    ASSUME BackendInv, CommandsAreOwn, SetupInv', NEW p \in Procs, BuildJoinEnvironment(p)
    PROVE  BackendInv'
<1> DEFINE o == procs[p].options
           a == WithDefaults(o, p)
           e == JoinEnvironment(o, p)
<1>1. /\ saved' = saved /\ procs[p].pc = "build" /\ (Fail(p) \/ Advance(p, "start", e))
  BY DEF BuildJoinEnvironment, Is, Touch, homeFiles
<1>2. Excepted(procs[p].inv) \/ Fits(o)
  BY <1>1 DEF BackendInv, BackendSound
<1>3. ASSUME Fits(o)
      PROVE  Fits(e)
  <2>1. /\ {"backend", "command"} \subseteq DOMAIN a /\ a.command = o.command
        /\ o.backend \notin {Blank, AutoBackend} => a.backend = o.backend
    BY <1>3 DEF Fits, WithDefaults
  <2>2. /\ {"backend", "command"} \subseteq DOMAIN e /\ e.backend = a.backend
        /\ e.command = Default(a.command, a.backend)
    BY <2>1 DEF JoinEnvironment
  <2> HIDE DEF a, e
  <2> QED BY <1>3, <2>1, <2>2 DEF Fits, Default, CommandsAreOwn
<1>4. CASE Advance(p, "start", e)
  <2> HIDE DEF e
  <2> QED BY <1>1, <1>2, <1>3, <1>4, BackendAdvances
<1> QED BY <1>1, <1>4, BackendEnds

\* A worker that was started keeps its settings.
LEMMA BackendWorks ==
    ASSUME BackendInv, SetupInv', NEW p \in Procs, WorkerSteps(p)
    PROVE  BackendInv'
<1>1. saved' = saved /\ BackendSound(procs[p])
  BY DEF WorkerSteps, LoadSkills, ConfigFromEnv, RegisterWorker, Heartbeat, Ends, Touch, homeFiles,
         BackendInv
<1>2. DOMAIN procs[p] = {"pc", "inv", "options", "wizard", "source", "loaded", "names", "advertised"}
  BY DEF BackendInv, SetupInv, ProcSound
<1>3. ASSUME NEW q, Become(p, q), q.pc \in StartPlaces, procs[p].pc \in StartPlaces,
             q.inv = procs[p].inv, q.source = procs[p].source, q.loaded = procs[p].loaded,
             q.options = procs[p].options
      PROVE  BackendInv'
  <2>1. BackendSound(q)
    BY <1>1, <1>3 DEF BackendSound, StartPlaces
  <2> QED BY <1>1, <1>3, <2>1, BackendStays
<1>4. CASE LoadSkills(p) /\ ~Fail(p)
  <2> DEFINE q == [procs[p] EXCEPT !.pc = "config", !.options = procs[p].options]
  <2>1. Become(p, q) /\ procs[p].pc = "start"
    BY <1>4 DEF LoadSkills, Advance, Is
  <2>2. /\ q.pc = "config" /\ q.inv = procs[p].inv /\ q.source = procs[p].source
        /\ q.loaded = procs[p].loaded /\ q.options = procs[p].options
    BY <1>2
  <2> HIDE DEF q
  <2> QED BY <1>3, <2>1, <2>2 DEF StartPlaces
<1>5. CASE ConfigFromEnv(p)
  <2> DEFINE o == procs[p].options
             names == IF o.capabilities # {} THEN o.capabilities
                      ELSE IF SkillsLoad(o.dir) THEN NamesOfSkills(o.dir) ELSE FallbackNames
             q == [procs[p] EXCEPT !.pc = "register", !.names = names]
  <2>1. Become(p, q) /\ procs[p].pc = "config"
    BY <1>5 DEF ConfigFromEnv, Is
  <2>2. /\ q.pc = "register" /\ q.inv = procs[p].inv /\ q.source = procs[p].source
        /\ q.loaded = procs[p].loaded /\ q.options = procs[p].options
    BY <1>2
  <2> HIDE DEF q
  <2> QED BY <1>3, <2>1, <2>2 DEF StartPlaces
<1>6. CASE RegisterWorker(p)
  <2> DEFINE q == [procs[p] EXCEPT !.pc = "first beat", !.advertised = procs[p].names]
  <2>1. Become(p, q) /\ procs[p].pc = "register"
    BY <1>6 DEF RegisterWorker, Is
  <2>2. /\ q.pc = "first beat" /\ q.inv = procs[p].inv /\ q.source = procs[p].source
        /\ q.loaded = procs[p].loaded /\ q.options = procs[p].options
    BY <1>2
  <2> HIDE DEF q
  <2> QED BY <1>3, <2>1, <2>2 DEF StartPlaces
<1>7. CASE Heartbeat(p)
  <2> DEFINE b == Refresh(procs[p])
             q == [b EXCEPT !.pc = "running", !.advertised = b.names]
  <2>1. Become(p, q) /\ procs[p].pc \in {"first beat", "running"}
    BY <1>7 DEF Heartbeat
  <2>2. /\ DOMAIN b = DOMAIN procs[p] /\ b.inv = procs[p].inv /\ b.source = procs[p].source
        /\ b.loaded = procs[p].loaded /\ b.options = procs[p].options
    BY <1>2 DEF Refresh
  <2> HIDE DEF b
  <2>3. /\ q.pc = "running" /\ q.inv = b.inv /\ q.source = b.source /\ q.loaded = b.loaded
        /\ q.options = b.options
    BY <1>2, <2>2
  <2> HIDE DEF q
  <2> QED BY <1>3, <2>1, <2>2, <2>3 DEF StartPlaces
<1> QED BY <1>1, <1>4, <1>5, <1>6, <1>7, BackendEnds DEF WorkerSteps, Ends

\* No process runs yet, and nothing is saved.
LEMMA BackendInitInv == SetupInit => BackendInv
<1> SUFFICES ASSUME SetupInit PROVE BackendInv
  OBVIOUS
<1>1. BackendSound(NoProcess)
  BY DEF NoProcess, BackendSound, StartPlaces
<1> QED BY <1>1, SetupInitInv DEF SetupInit, BackendInv, SavedFit

\* Every step keeps it: those of processes as above, and registrars and a purge
\* change neither the processes nor what was saved.
LEMMA BackendNextInv == CommandsAreOwn /\ BackendInv /\ [SetupNext]_setupVars => BackendInv'
<1> SUFFICES ASSUME CommandsAreOwn, BackendInv, [SetupNext]_setupVars PROVE BackendInv'
  OBVIOUS
<1>1. SetupInv'
  BY SetupStep DEF BackendInv
<1>2. ASSUME procs' = procs, saved' = saved
      PROVE  BackendInv'
  BY <1>1, <1>2 DEF BackendInv
<1>3. CASE UNCHANGED setupVars
  BY <1>2, <1>3 DEF setupVars, homeFiles
<1>4. ASSUME NEW r \in Registrars,
             \/ \E s \in Skills : LoadRegistry(r, s)
             \/ TruncateRegistry(r) \/ WriteRegistry(r) \/ RegistrarEnds(r)
      PROVE  BackendInv'
  BY <1>2, <1>4 DEF LoadRegistry, TruncateRegistry, WriteRegistry, RegistrarEnds, homeFiles
<1>5. CASE Purge
  BY <1>2, <1>5 DEF Purge
<1>6. ASSUME NEW p \in Procs, SetupSteps(p)
      PROVE  BackendInv'
  BY <1>1, <1>6, BackendDiscovers, BackendResolves, BackendChooses, BackendSkill, BackendTruncates,
     BackendLoads, BackendBuilds DEF SetupSteps
<1>7. ASSUME NEW p \in Procs, NEW i \in Invocations, BeginSetup(p, i) \/ BeginJoin(p, i)
      PROVE  BackendInv'
  BY <1>1, <1>7, BackendBegins
<1>8. ASSUME NEW p \in Procs, WorkerSteps(p)
      PROVE  BackendInv'
  BY <1>1, <1>8, BackendWorks
<1> QED BY <1>3, <1>4, <1>5, <1>6, <1>7, <1>8 DEF SetupNext, ProcNext, RegistrarNext

\* Whichever sources its settings came from, a worker runs the CLI of the backend
\* it names, where no invocation gives the CLI of a backend as its command.
THEOREM WorkerRunsItsBackend ==
    ASSUME CommandsAreOwn
    PROVE  SetupSpec => []RunsItsBackend
<1>1. BackendInv => RunsItsBackend
  BY DEF BackendInv, BackendSound, RunsItsBackend, Excepted, Fits, StartPlaces, Started
<1>2. SetupInit => BackendInv
  BY BackendInitInv
<1>3. BackendInv /\ [SetupNext]_setupVars => BackendInv'
  BY BackendNextInv
<1> QED BY <1>1, <1>2, <1>3, PTL DEF SetupSpec

-----------------------------------------------------------------------------
(* The A2A interface.                                                      *)

\* References are generated in their order, so that a message with one of them
\* comes after every task it names, unless that had its reference from somebody
\* or was named before it existed.
Issued == {TaskRef[n] : n \in 1..issued}

TaskSound(m) ==
    /\ tasks[m].correlation \in Nat
    /\ tasks[m].correlation \in Present \cup foretold \cup {NoRef}
    /\ m \notin picked =>
          /\ m \in Issued
          /\ tasks[m].correlation \in Present \ (picked \cup foretold) => tasks[m].correlation <= m

\* An artifact is filed under the correlation of its message.
Filed(a) ==
    /\ a.msg \in Present
    /\ a.task = IF tasks[a.msg].correlation # NoRef THEN tasks[a.msg].correlation ELSE -a.msg

A2AInv ==
    /\ DOMAIN tasks = TaskRefs
    /\ \A m \in TaskRefs : DOMAIN tasks[m] = {"state", "correlation", "capability"}
    /\ issued \in 0..MaxTasks
    /\ answered \subseteq Present
    /\ \A m \in Present : TaskSound(m)
    /\ \A a \in produced : Filed(a)

\* What the references are.
LEMMA RefsAre ==
    /\ TaskRefs \subseteq Nat \ {NoRef} /\ Contexts \subseteq Nat \ {NoRef}
    /\ Present \subseteq TaskRefs
BY A2AAssumption DEF TaskRefs, Generated, NoRef, Present

\* The next reference is later than all before it.
LEMMA NextIsLater ==
    ASSUME A2AInv, NEW m \in NextTaskRef
    PROVE  /\ issued + 1 \in 1..MaxTasks /\ m = TaskRef[issued + 1]
           /\ \A n \in Issued : n \in Nat /\ m \in Nat /\ n < m
<1>1. issued \in Nat /\ issued + 1 \in 1..MaxTasks /\ m = TaskRef[issued + 1]
  BY A2AAssumption DEF NextTaskRef, A2AInv
<1>2. ASSUME NEW i \in 1..issued
      PROVE  TaskRef[i] \in Nat /\ m \in Nat /\ TaskRef[i] < m
  <2>1. i \in 1..MaxTasks /\ i < issued + 1 /\ MaxTasks \in Nat
    BY <1>1, <1>2, A2AAssumption
  <2> QED BY <1>1, <2>1, A2AAssumption
<1> QED BY <1>1, <1>2 DEF Issued

\* It holds before there is a task.
LEMMA A2AInitInv == A2AInit => A2AInv
BY A2AAssumption DEF A2AInit, A2AInv, NoTask, Present

\* A new message, which takes the next reference or one of somebody's choice, or
\* is refused because there is one with that reference.
LEMMA NewTask ==
    ASSUME A2AInv, NEW chosen \in ChosenRefs \cup {NoRef}, NEW m,
           NEW q, DOMAIN q = {"state", "correlation", "capability"}, q.state = "available",
           q.correlation \in Nat,
           m \in Present \/ q.correlation \in Present \cup foretold' \cup {NoRef},
           Enters(chosen, m, q), UNCHANGED produced,
           foretold \subseteq foretold', answered' \subseteq answered \cup {m}
    PROVE  A2AInv'
<1>1. m \in TaskRefs /\ (chosen = NoRef => m \in NextTaskRef)
  BY A2AAssumption DEF Enters, NextTaskRef, TaskRefs, Generated
<1>2. issued' \in 0..MaxTasks /\ Issued \subseteq Issued'
  <2>1. CASE chosen # NoRef
    BY <2>1 DEF Enters, A2AInv, Issued
  <2>2. CASE chosen = NoRef
    <3>1. issued' = issued + 1 /\ issued \in Nat /\ issued + 1 \in 1..MaxTasks
      BY <1>1, <2>2, NextIsLater, A2AAssumption DEF Enters, A2AInv
    <3> QED BY <3>1, A2AAssumption DEF Issued
  <2> QED BY <2>1, <2>2
<1>3. CASE m \in Present
  <2>1. UNCHANGED <<tasks, picked>> /\ Present' = Present
    BY <1>3 DEF Enters, Present
  <2>2. ASSUME NEW n \in Present
        PROVE  TaskSound(n)'
    <3>1. TaskSound(n)
      BY <2>2 DEF A2AInv
    <3> QED BY <1>2, <2>1, <3>1 DEF TaskSound
  <2>3. ASSUME NEW a \in produced
        PROVE  Filed(a)'
    BY <2>1 DEF A2AInv, Filed
  <2>4. answered' \subseteq Present'
    BY <1>3, <2>1 DEF A2AInv
  <2> QED BY <1>2, <2>1, <2>2, <2>3, <2>4 DEF A2AInv
<1>4. CASE m \notin Present
  <2>1. /\ tasks'[m] = q /\ DOMAIN tasks' = TaskRefs
        /\ \A n \in TaskRefs \ {m} : tasks'[n] = tasks[n]
        /\ picked' = IF chosen # NoRef THEN picked \cup {m} ELSE picked
    BY <1>1, <1>4 DEF A2AInv, Enters
  <2>2. Present' = Present \cup {m}
    BY <1>1, <2>1 DEF Present
  <2>3. TaskSound(m)'
    <3>1. ASSUME m \notin picked'
          PROVE  /\ m \in Issued'
                 /\ q.correlation \in Present' \ (picked' \cup foretold') => q.correlation <= m
      <4>1. chosen = NoRef /\ m \in NextTaskRef
        BY <1>1, <2>1, <3>1
      <4>2. m \in Issued'
        <5>1. issued' = issued + 1 /\ m = TaskRef[issued + 1] /\ issued + 1 \in 1..(issued + 1)
          BY <4>1, NextIsLater DEF Enters, A2AInv
        <5> QED BY <5>1 DEF Issued
      <4>3. CASE q.correlation = m
        BY <4>2, <4>3
      <4>4. CASE q.correlation \in Present \ (picked \cup foretold)
        <5>1. q.correlation \in Issued
          BY <4>4 DEF A2AInv, TaskSound
        <5> QED BY <4>1, <4>2, <5>1, NextIsLater
      <4> QED BY <2>1, <2>2, <4>1, <4>2, <4>3, <4>4
    <3> QED BY <1>4, <2>1, <2>2, <3>1 DEF TaskSound
  <2>4. ASSUME NEW n \in Present
        PROVE  TaskSound(n)'
    <3>1. TaskSound(n) /\ n # m /\ tasks'[n] = tasks[n]
      BY <1>4, <2>1, <2>4, RefsAre DEF A2AInv
    <3>2. tasks[n].correlation = m => m \in foretold
      BY <1>1, <1>4, <3>1, RefsAre DEF TaskSound
    <3> QED BY <1>2, <2>1, <2>2, <3>1, <3>2 DEF TaskSound
  <2>5. ASSUME NEW a \in produced
        PROVE  Filed(a)'
    <3>1. Filed(a) /\ a.msg # m /\ a.msg \in TaskRefs
      BY <1>4, <2>5, RefsAre DEF A2AInv, Filed
    <3> QED BY <2>1, <2>2, <3>1 DEF Filed
  <2>6. \A n \in TaskRefs : DOMAIN tasks'[n] = {"state", "correlation", "capability"}
    BY <2>1 DEF A2AInv
  <2>7. answered' \subseteq Present'
    BY <2>2 DEF A2AInv
  <2> QED BY <1>2, <2>1, <2>2, <2>3, <2>4, <2>5, <2>6, <2>7 DEF A2AInv
<1> QED BY <1>3, <1>4

\* A message of an agent, which may name any task or context.
LEMMA SendSound ==
    ASSUME A2AInv, NEW r \in AgentRequests, SendMessage(r)
    PROVE  A2AInv'
<1>1. r.ref \in ChosenRefs \cup {NoRef} /\ CorrelationRef(r) \in Nat
  <2>1. /\ r.task \in TaskRefs \cup {NoRef} /\ r.context \in Contexts \cup {NoRef}
        /\ r.ref \in ChosenRefs \cup {NoRef}
    BY A2AAssumption
  <2>2. TaskRefs \cup {NoRef} \subseteq Nat /\ Contexts \cup {NoRef} \subseteq Nat
    BY RefsAre DEF NoRef
  <2>3. r.task \in Nat /\ r.context \in Nat
    BY <2>1, <2>2
  <2> QED BY <2>1, <2>3 DEF CorrelationRef
<1>2. CASE UNCHANGED <<issued, tasks, answered, foretold, picked>>
  BY <1>2 DEF SendMessage, A2AInv, Present, TaskSound, Filed, Issued
<1>3. ASSUME NEW m \in TaskRefs,
             Enters(r.ref, m, [state |-> "available", correlation |-> CorrelationRef(r),
                               capability |-> Capability(r)]),
             IF m \in Present THEN UNCHANGED <<answered, foretold>>
             ELSE /\ answered' = answered \cup {m}
                  /\ foretold' = foretold \cup ({CorrelationRef(r)} \ (Present \cup {NoRef})),
             UNCHANGED produced
      PROVE  A2AInv'
  <2> DEFINE q == [state |-> "available", correlation |-> CorrelationRef(r),
                   capability |-> Capability(r)]
  <2>1. /\ DOMAIN q = {"state", "correlation", "capability"} /\ q.state = "available"
        /\ q.correlation \in Nat /\ q.correlation = CorrelationRef(r)
    BY <1>1
  <2>2. /\ m \in Present \/ q.correlation \in Present \cup foretold' \cup {NoRef}
        /\ foretold \subseteq foretold' /\ answered' \subseteq answered \cup {m}
    BY <1>3, <2>1
  <2>3. Enters(r.ref, m, q)
    BY <1>3
  <2> HIDE DEF q
  <2> QED BY <1>1, <1>3, <2>1, <2>2, <2>3, NewTask
<1> QED BY <1>2, <1>3 DEF SendMessage

\* What else happens to the ledger.
LEMMA LedgerSound ==
    ASSUME A2AInv, NEW m \in Present, MessageMoves(m) \/ MessageBegets(m) \/ RegisterArtifact(m)
    PROVE  A2AInv'
<1>1. m \in TaskRefs /\ DOMAIN tasks[m] = {"state", "correlation", "capability"} /\ TaskSound(m)
  BY RefsAre DEF A2AInv
<1>2. CASE MessageMoves(m)
  <2>1. PICK state \in Moves(tasks[m].state) : tasks' = [tasks EXCEPT ![m].state = state]
    BY <1>2 DEF MessageMoves
  <2>2. state # "absent" /\ UNCHANGED <<issued, produced, answered, picked, foretold>>
    BY <1>2, <2>1 DEF Moves, MessageMoves
  <2>3. /\ DOMAIN tasks' = TaskRefs
        /\ \A n \in TaskRefs : /\ DOMAIN tasks'[n] = {"state", "correlation", "capability"}
                               /\ tasks'[n].correlation = tasks[n].correlation
                               /\ tasks'[n].state = IF n = m THEN state ELSE tasks[n].state
    BY <1>1, <2>1 DEF A2AInv
  <2>4. Present' = Present /\ Issued' = Issued
    BY <2>2, <2>3 DEF Present, Issued
  <2>5. ASSUME NEW n \in Present
        PROVE  TaskSound(n)'
    BY <2>2, <2>3, <2>4, RefsAre DEF A2AInv, TaskSound
  <2>6. ASSUME NEW a \in produced
        PROVE  Filed(a)'
    BY <2>3, <2>4, RefsAre DEF A2AInv, Filed
  <2> QED BY <2>2, <2>3, <2>4, <2>5, <2>6 DEF A2AInv
<1>3. CASE MessageBegets(m)
  <2> DEFINE q == [tasks[m] EXCEPT !.state = "available"]
  <2>1. PICK n \in TaskRefs, chosen \in ChosenRefs \cup {NoRef} : Enters(chosen, n, q)
    BY <1>3 DEF MessageBegets
  <2>2. UNCHANGED <<produced, answered, foretold>>
    BY <1>3 DEF MessageBegets
  <2>3. /\ DOMAIN q = {"state", "correlation", "capability"} /\ q.state = "available"
        /\ q.correlation \in Nat /\ q.correlation \in Present \cup foretold' \cup {NoRef}
    BY <1>1, <2>2 DEF TaskSound
  <2> HIDE DEF q
  <2> QED BY <2>1, <2>2, <2>3, NewTask
<1>4. CASE RegisterArtifact(m)
  <2> DEFINE b == [msg |-> m, task |-> IF tasks[m].correlation # NoRef THEN tasks[m].correlation ELSE -m]
  <2>1. produced' = produced \cup {b} /\ UNCHANGED <<issued, tasks, answered, picked, foretold>>
    BY <1>4 DEF RegisterArtifact
  <2>2. Filed(b)
    BY DEF Filed
  <2> HIDE DEF b
  <2>3. Present' = Present /\ Issued' = Issued
    BY <2>1 DEF Present, Issued
  <2>4. \A a \in produced' : Filed(a)'
    BY <2>1, <2>2, <2>3 DEF A2AInv, Filed
  <2> QED BY <2>1, <2>3, <2>4 DEF A2AInv, TaskSound
<1> QED BY <1>2, <1>3, <1>4

\* Each request of an agent and each step of the ledger.
LEMMA A2AStep == A2AInv /\ [A2ANext]_a2aVars => A2AInv'
<1> SUFFICES ASSUME A2AInv, [A2ANext]_a2aVars PROVE A2AInv'
  OBVIOUS
<1>1. CASE UNCHANGED <<issued, tasks, produced, answered, picked, foretold>>
  BY <1>1 DEF A2AInv, Present, TaskSound, Filed, Issued
<1>2. ASSUME NEW r \in AgentRequests, SendMessage(r) \/ GetTask(r) \/ Refuse(r)
      PROVE  A2AInv'
  BY <1>1, <1>2, SendSound DEF GetTask, Refuse
<1> QED BY <1>1, <1>2, LedgerSound DEF A2ANext, a2aVars

\* Of natural numbers one is the smallest: of the intervals up to each of them,
\* one contains no other.
LEMMA OneIsSmallest ==
    ASSUME NEW S, S \subseteq Nat, NEW s \in S
    PROVE  \E m \in S : \A n \in S : m <= n
<1> DEFINE Upto == {0..n : n \in {k \in S : k <= s}}
<1>1. IsWellFoundedOn(StrictSubsetOrdering(0..s), SUBSET (0..s))
  <2>1. IsFiniteSet(0..s)
    BY FS_Interval
  <2> QED BY <2>1, FS_StrictSubsetOrderingWellFounded, FS_FiniteSubsetsOfFinite
<1>2. Upto \subseteq SUBSET (0..s) /\ 0..s \in Upto
  OBVIOUS
<1>3. PICK i \in Upto : \A j \in Upto : <<j, i>> \notin StrictSubsetOrdering(0..s)
  <2> HIDE DEF Upto
  <2> QED BY <1>1, <1>2, WFMin
<1>4. PICK m \in {k \in S : k <= s} : i = 0..m
  BY <1>3
<1>5. ASSUME NEW n \in S, n < m
      PROVE  FALSE
  <2>1. 0..n \in Upto /\ 0..n \subseteq 0..m /\ m \in 0..m /\ m \notin 0..n
    BY <1>4, <1>5
  <2> HIDE DEF Upto
  <2>2. 0..n \in SUBSET (0..s) /\ 0..m \in SUBSET (0..s) /\ 0..n # 0..m
    BY <1>2, <1>3, <1>4, <2>1
  <2>3. <<0..n, 0..m>> \in StrictSubsetOrdering(0..s)
    BY <2>1, <2>2 DEF StrictSubsetOrdering
  <2> QED BY <1>3, <1>4, <2>1, <2>3
<1> QED BY <1>4, <1>5

\* Asking for a task finds that, or a message with a chosen reference before it.
LEMMA TaskIsFound ==
    ASSUME A2AInv, NEW t \in answered \ (picked \cup foretold)
    PROVE  FindTaskMessage(t) \in Present \cap ({t} \cup {c \in picked : c < t})
<1> DEFINE found == {m \in Present : m = t \/ tasks[m].correlation = t}
<1>1. t \in found /\ found \subseteq Nat /\ found \subseteq Present
  BY RefsAre DEF A2AInv
<1>2. ASSUME NEW m \in found, m \notin picked
      PROVE  t <= m
  BY <1>1, <1>2 DEF A2AInv, TaskSound
<1> HIDE DEF found
<1>3. \E m \in found : \A n \in found : m <= n
  BY <1>1, OneIsSmallest
<1> DEFINE first == CHOOSE m \in found : \A n \in found : m <= n
<1>4. first \in found /\ \A n \in found : first <= n
  BY <1>3
<1>5. FindTaskMessage(t) = first
  BY <1>1 DEF FindTaskMessage, found
<1> HIDE DEF first
<1>6. first <= t /\ (first \notin picked => t <= first)
  BY <1>1, <1>2, <1>4
<1>7. first = t \/ (first \in picked /\ first < t)
  BY <1>1, <1>4, <1>6
<1> QED BY <1>1, <1>4, <1>5, <1>7

\* A task shows the artifacts of its message and of its conversation.
LEMMA ArtifactsAreItsOwn ==
    ASSUME A2AInv, NEW m \in Present, NEW a \in produced
    PROVE  a \in ArtifactsFromSnapshot(m) <=>
               \/ a.msg = m
               \/ /\ tasks[m].correlation # NoRef
                  /\ tasks[a.msg].correlation = tasks[m].correlation
<1>1. Filed(a) /\ a.msg \in Nat \ {NoRef} /\ tasks[m].correlation \in Nat
  BY RefsAre DEF A2AInv, Filed, TaskSound
<1>2. a.task = tasks[m].correlation <=>
          tasks[m].correlation # NoRef /\ tasks[a.msg].correlation = tasks[m].correlation
  BY <1>1 DEF Filed, NoRef
<1> QED BY <1>2 DEF ArtifactsFromSnapshot

\* The task that an agent was given stays its own (adapter.go): asking for it
\* answers with its own message, or with one whose chosen reference sorts before
\* it; whichever it is, with the artifacts of that message and its conversation.
THEOREM AgentsTaskStaysOwn == A2ASpec => []TaskStaysOwn
<1>1. A2AInv => TaskStaysOwn
  BY TaskIsFound, ArtifactsAreItsOwn DEF TaskStaysOwn
<1> QED BY <1>1, A2AInitInv, A2AStep, PTL DEF A2ASpec
==============================================================================
