--------------------------- MODULE HandoffProofs ---------------------------
(***************************************************************************)
(* Handoff keeps its types and its ledger sound, for any endpoints,        *)
(* messages, attempts, limits and requests: first the operations of the    *)
(* ledger store, then the handlers composed of them.                       *)
(*                                                                         *)
(* Soundness is kept because a ledger only grows: saved messages keep      *)
(* their request, attempts keep the message and the epoch they were        *)
(* claimed with, reports and dead letters stay.  What Sound says of a      *)
(* record then stays true of it in every later store, also of a copy that  *)
(* is written back late.                                                   *)
(***************************************************************************)
EXTENDS Handoff, TLAPS

Grows(S, T) ==
    /\ \A m \in MessageRefs :
          Saved(S, m) => Saved(T, m) /\ T.requests[m] = S.requests[m]
    /\ \A a \in AttemptRefs :
          Exists(S, a) => /\ Exists(T, a)
                          /\ T.attempts[a].msg = S.attempts[a].msg
                          /\ T.attempts[a].epoch = S.attempts[a].epoch
    /\ \A a \in AttemptRefs : S.checkpoints[a].reported \subseteq T.checkpoints[a].reported
    /\ S.deadLetters \subseteq T.deadLetters

WithAttempts(S, F) == [S EXCEPT !.attempts = F]
WithMessages(S, F) == [S EXCEPT !.messages = F]

\* The types that lemmas need of the parts of a store.
LEMMA StoreParts ==
    ASSUME NEW S \in Store
    PROVE  /\ S.requests \in [MessageRefs -> Request \cup {NoRequest}]
           /\ S.messages \in [MessageRefs -> Message]
           /\ S.attempts \in [AttemptRefs -> Attempt]
           /\ S.checkpoints \in [AttemptRefs -> Checkpoints]
           /\ S.deadLetters \in SUBSET DeadLetter
BY DEF Store

\* The markers of absence are no refs.
LEMMA RefsDiffer == NoMessage \notin MessageRefs /\ NoAttempt \notin AttemptRefs
BY RoutingAssumption, StoreAssumption DEF NoMessage

-----------------------------------------------------------------------------
\* A completion that was ever recorded stays recorded.
LEMMA CompletionStays ==
    ASSUME NEW S \in Store, NEW T \in Store, Sound(S), Grows(S, T),
           NEW m \in MessageRefs, CompletionRecorded(S, m)
    PROVE  CompletionRecorded(T, m)
<1>1. PICK a \in AttemptRefs : /\ S.attempts[a].msg = m
                               /\ "completed" \in S.checkpoints[a].reported
  BY DEF CompletionRecorded
<1>2. Exists(S, a)
  BY <1>1, RefsDiffer DEF Sound, AttemptFounded
<1>3. T.attempts[a].msg = m /\ "completed" \in T.checkpoints[a].reported
  BY <1>1, <1>2 DEF Grows
<1> QED BY <1>3 DEF CompletionRecorded

\* A sound record, in the ledger or a copy of it, stays sound as it is.
LEMMA RecordStays ==
    ASSUME NEW S \in Store, NEW T \in Store, Sound(S), Grows(S, T),
           NEW m \in MessageRefs, NEW rec \in Message, RecordSound(S, m, rec)
    PROVE  RecordSound(T, m, rec)
<1>1. RecordLinked(T, m, rec)
  <2>1. CASE rec.attempt = NoAttempt
    BY <2>1 DEF RecordSound, RecordLinked
  <2>2. CASE rec.attempt # NoAttempt
    <3>1. rec.attempt \in AttemptRefs
      BY <2>2 DEF Message
    <3>2. S.attempts[rec.attempt].msg = m /\ S.attempts[rec.attempt].epoch = rec.redelivery + 1
      BY <2>2 DEF RecordSound, RecordLinked
    <3>3. Exists(S, rec.attempt)
      BY <3>1, <3>2, RefsDiffer DEF Sound, AttemptFounded
    <3> QED BY <3>1, <3>2, <3>3 DEF Grows, RecordSound, RecordLinked
  <2> QED BY <2>1, <2>2
<1>2. RecordStateBacked(T, m, rec)
  BY DEF RecordSound, RecordStateBacked, DeadLettered, Grows
<1>3. RecordCompletionBacked(T, m, rec)
  BY CompletionStays DEF RecordSound, RecordCompletionBacked
<1> QED BY <1>1, <1>2, <1>3 DEF RecordSound

\* An attempt stays founded where it keeps its message.
LEMMA FoundationStays ==
    ASSUME NEW S \in Store, NEW T \in Store, Sound(S), Grows(S, T),
           NEW a \in AttemptRefs, Exists(S, a)
    PROVE  AttemptFounded(T, a)
<1>1. /\ S.attempts[a].msg \in MessageRefs
      /\ Saved(S, S.attempts[a].msg)
      /\ DependenciesRecorded(S, a)
  BY DEF Sound, AttemptFounded
<1>2. /\ Exists(T, a)
      /\ T.attempts[a].msg = S.attempts[a].msg
      /\ Saved(T, T.attempts[a].msg)
      /\ T.requests[T.attempts[a].msg] = S.requests[S.attempts[a].msg]
  BY <1>1 DEF Grows
<1>3. S.requests[S.attempts[a].msg].dependsOn \subseteq MessageRefs
  BY <1>1 DEF Sound, Request
<1>4. DependenciesRecorded(T, a)
  BY <1>1, <1>2, <1>3, CompletionStays DEF DependenciesRecorded
<1> QED BY <1>1, <1>2, <1>4 DEF AttemptFounded

\* So a store that grew is sound if what is new in it is.
LEMMA GrowthIsSound ==
    ASSUME NEW S \in Store, NEW T \in Store, Sound(S), Grows(S, T),
           \A m \in MessageRefs :
               \/ T.messages[m] = S.messages[m]
               \/ /\ RecordSound(T, m, T.messages[m])
                  /\ Saved(T, m) => T.requests[m] \in Request,
           \A a \in AttemptRefs : ~Exists(S, a) => AttemptFounded(T, a),
           \A d \in T.deadLetters : d \in S.deadLetters \/ Saved(T, d.msg)
    PROVE  Sound(T)
<1>1. ASSUME NEW m \in MessageRefs
      PROVE  RecordSound(T, m, T.messages[m]) /\ (Saved(T, m) => T.requests[m] \in Request)
  <2>1. CASE T.messages[m] = S.messages[m]
    <3>1. S.messages[m] \in Message /\ RecordSound(S, m, S.messages[m])
      BY StoreParts DEF Sound
    <3>2. RecordSound(T, m, T.messages[m])
      BY <2>1, <3>1, RecordStays
    <3> QED BY <2>1, <3>2 DEF Sound, Grows, Saved
  <2> QED BY <2>1
<1>2. ASSUME NEW a \in AttemptRefs PROVE AttemptFounded(T, a)
  BY FoundationStays
<1>3. ASSUME NEW d \in T.deadLetters PROVE Saved(T, d.msg)
  <2>1. CASE d \in S.deadLetters
    <3>1. d.msg \in MessageRefs
      BY <2>1, StoreParts DEF DeadLetter
    <3> QED BY <2>1, <3>1 DEF Sound, Grows
  <2> QED BY <2>1
<1> QED BY <1>1, <1>2, <1>3 DEF Sound

-----------------------------------------------------------------------------
(* The ways in which operations change a store.                            *)

Kept(S, T) == T \in Store /\ Sound(T) /\ Grows(S, T)

\* Attempts change in anything but what they are attempts of.
LEMMA AttemptsChange ==
    ASSUME NEW S \in Store, Sound(S), NEW F \in [AttemptRefs -> Attempt],
           \A a \in AttemptRefs : /\ F[a].msg = S.attempts[a].msg
                                  /\ F[a].epoch = S.attempts[a].epoch
                                  /\ F[a].state = "absent" <=> ~Exists(S, a)
    PROVE  Kept(S, WithAttempts(S, F))
<1> DEFINE T == WithAttempts(S, F)
<1>1. /\ T \in Store /\ T.attempts = F
      /\ T.requests = S.requests /\ T.messages = S.messages
      /\ T.checkpoints = S.checkpoints /\ T.deadLetters = S.deadLetters
  BY DEF WithAttempts, Store
<1> HIDE DEF T
<1>2. Grows(S, T)
  BY <1>1 DEF Grows, Exists, Saved
<1>3. \A a \in AttemptRefs : ~Exists(S, a) => AttemptFounded(T, a)
  BY <1>1 DEF AttemptFounded, Sound, Exists
<1>4. \A d \in T.deadLetters : d \in S.deadLetters
  BY <1>1
<1>5. Sound(T)
  BY <1>1, <1>2, <1>3, <1>4, GrowthIsSound
<1> QED BY <1>1, <1>2, <1>5 DEF Kept, T

\* Saved messages get other sound records.
LEMMA MessagesChange ==
    ASSUME NEW S \in Store, Sound(S), NEW F \in [MessageRefs -> Message],
           \A m \in MessageRefs : \/ F[m] = S.messages[m]
                                  \/ /\ Saved(S, m) /\ F[m].state # "absent"
                                     /\ RecordSound(S, m, F[m])
    PROVE  Kept(S, WithMessages(S, F))
<1> DEFINE T == WithMessages(S, F)
<1>1. /\ T \in Store /\ T.messages = F
      /\ T.requests = S.requests /\ T.attempts = S.attempts
      /\ T.checkpoints = S.checkpoints /\ T.deadLetters = S.deadLetters
  BY DEF WithMessages, Store
<1> HIDE DEF T
<1>2. Grows(S, T)
  BY <1>1 DEF Grows, Exists, Saved
<1>3. ASSUME NEW m \in MessageRefs, T.messages[m] # S.messages[m]
      PROVE  RecordSound(T, m, T.messages[m]) /\ T.requests[m] \in Request
  <2>1. RecordSound(S, m, F[m]) /\ Saved(S, m)
    BY <1>1, <1>3
  <2>2. RecordSound(T, m, F[m])
    BY <1>1, <1>2, <2>1, RecordStays
  <2> QED BY <1>1, <2>1, <2>2 DEF Sound
<1>4. \A a \in AttemptRefs : ~Exists(S, a) => AttemptFounded(T, a)
  BY <1>1 DEF AttemptFounded, Sound, Exists
<1>5. \A d \in T.deadLetters : d \in S.deadLetters
  BY <1>1
<1>6. Sound(T)
  BY <1>1, <1>2, <1>3, <1>4, <1>5, GrowthIsSound
<1> QED BY <1>1, <1>2, <1>6 DEF Kept, T

\* A saved checkpoint is on record and changes nothing else.
LEMMA CheckpointKept ==
    ASSUME NEW S \in Store, Sound(S), NEW a \in AttemptRefs, NEW s \in AttemptState
    PROVE  LET T == SaveCheckpoint(S, a, s)
           IN  /\ Kept(S, T)
               /\ s \in T.checkpoints[a].reported
               /\ T.attempts = S.attempts /\ T.messages = S.messages
               /\ T.requests = S.requests
               /\ T.checkpoints[a].count \in Nat
<1> DEFINE T == SaveCheckpoint(S, a, s)
<1>1. /\ T.requests = S.requests /\ T.messages = S.messages
      /\ T.attempts = S.attempts /\ T.deadLetters = S.deadLetters
      /\ T.checkpoints = [S.checkpoints EXCEPT ![a] =
            [count |-> @.count + 1, reported |-> @.reported \cup {s}]]
  BY DEF SaveCheckpoint, Store
<1>2. T.checkpoints \in [AttemptRefs -> Checkpoints]
  BY <1>1, StoreParts DEF Checkpoints
<1>3. T \in Store
  BY <1>2 DEF SaveCheckpoint, Store
<1> HIDE DEF T
<1>4. Grows(S, T)
  BY <1>1, StoreParts DEF Grows, Exists, Saved, Checkpoints
<1>5. \A b \in AttemptRefs : ~Exists(S, b) => AttemptFounded(T, b)
  BY <1>1 DEF AttemptFounded, Sound, Exists
<1>6. Sound(T)
  BY <1>1, <1>3, <1>4, <1>5, GrowthIsSound
<1>7. s \in T.checkpoints[a].reported /\ T.checkpoints[a].count \in Nat
  BY <1>1, <1>2, StoreParts DEF Checkpoints
<1> QED BY <1>1, <1>3, <1>4, <1>6, <1>7 DEF Kept, T

\* New messages, in refs that no message has.
LEMMA MessagesArrive ==
    ASSUME NEW S \in Store, Sound(S), NEW N \in SUBSET MessageRefs,
           \A m \in N : ~Saved(S, m), NEW R \in [N -> Request]
    PROVE  Kept(S, [S EXCEPT
               !.requests = [m \in MessageRefs |-> IF m \in N THEN R[m] ELSE @[m]],
               !.messages = [m \in MessageRefs |->
                   IF m \in N THEN [AbsentMessage EXCEPT !.state = "available"] ELSE @[m]]])
<1> DEFINE new == [AbsentMessage EXCEPT !.state = "available"]
           T == [S EXCEPT
               !.requests = [m \in MessageRefs |-> IF m \in N THEN R[m] ELSE @[m]],
               !.messages = [m \in MessageRefs |-> IF m \in N THEN new ELSE @[m]]]
<1>1. /\ T.requests = [m \in MessageRefs |-> IF m \in N THEN R[m] ELSE S.requests[m]]
      /\ T.messages = [m \in MessageRefs |-> IF m \in N THEN new ELSE S.messages[m]]
      /\ T.attempts = S.attempts
      /\ T.checkpoints = S.checkpoints /\ T.deadLetters = S.deadLetters
  BY DEF Store
<1>2. /\ new \in Message /\ new.state = "available"
      /\ new.attempt = NoAttempt /\ new.redelivery = 0
  BY DEF Message, AbsentMessage, MessageState
<1>3. T \in Store
  <2>1. T.messages \in [MessageRefs -> Message]
    BY <1>1, <1>2, StoreParts
  <2>2. T.requests \in [MessageRefs -> Request \cup {NoRequest}]
    BY <1>1, StoreParts
  <2> QED BY <1>1, <2>1, <2>2 DEF Store
<1> HIDE DEF T, new
<1>4. Grows(S, T)
  BY <1>1, <1>2 DEF Grows, Exists, Saved
<1>5. ASSUME NEW m \in MessageRefs, T.messages[m] # S.messages[m]
      PROVE  RecordSound(T, m, T.messages[m]) /\ T.requests[m] \in Request
  <2>1. m \in N
    BY <1>1, <1>5
  <2>2. T.messages[m] = new /\ T.requests[m] \in Request
    BY <1>1, <2>1
  <2> QED BY <1>2, <2>2, StoreAssumption
          DEF RecordSound, RecordLinked, RecordStateBacked, RecordCompletionBacked
<1>6. \A a \in AttemptRefs : ~Exists(S, a) => AttemptFounded(T, a)
  BY <1>1 DEF AttemptFounded, Sound, Exists
<1>7. Sound(T)
  BY <1>1, <1>3, <1>4, <1>5, <1>6, GrowthIsSound
<1> QED BY <1>3, <1>4, <1>7 DEF Kept, T, new

-----------------------------------------------------------------------------
(* Claims, takeovers, dead letters and reconciling.                        *)

\* The dependencies of m have all been completed at some time.
Founded(S, m) == \A d \in S.requests[m].dependsOn : CompletionRecorded(S, d)

\* What the code checks before a claim says as much.
LEMMA CompletedIsRecorded ==
    ASSUME NEW S \in Store, Sound(S), NEW m \in MessageRefs, Saved(S, m),
           MessageDependenciesCompleted(S.requests[m], StateOf(S))
    PROVE  Founded(S, m)
<1>1. S.requests[m].dependsOn \subseteq MessageRefs
  BY DEF Sound, Request
<1> QED BY <1>1 DEF Founded, Sound, RecordSound, RecordCompletionBacked,
                    MessageDependenciesCompleted, StateOf

\* A claim makes a new attempt, of a message whose dependencies completed, and
\* points the message to it.
LEMMA ClaimAtKept ==
    ASSUME NEW S \in Store, Sound(S),
           NEW m \in MessageRefs, NEW e \in Endpoints, NEW a \in AttemptRefs,
           ~Exists(S, a), Saved(S, m), Founded(S, m),
           NEW n \in Nat, n <= MaxRedelivery
    PROVE  Kept(S, ClaimAt(S, m, e, a, n))
<1> DEFINE T == ClaimAt(S, m, e, a, n)
           att == [state |-> "claimed", msg |-> m, ep |-> e, lease |-> LeaseTicks,
                   rev |-> 1, epoch |-> n + 1]
           rec == [state |-> "claimed", attempt |-> a, redelivery |-> n]
<1>1. /\ T.attempts = [S.attempts EXCEPT ![a] = att]
      /\ T.messages = [S.messages EXCEPT ![m] = rec]
      /\ T.requests = S.requests
      /\ T.checkpoints = S.checkpoints /\ T.deadLetters = S.deadLetters
  BY DEF ClaimAt, Store
<1>2. att \in Attempt
  BY StoreAssumption DEF Attempt, AttemptState, Countdown, Expired
<1>3. rec \in Message
  BY DEF Message, MessageState
<1>4. T \in Store
  BY <1>2, <1>3, StoreParts DEF ClaimAt, Store
<1>5. T.attempts[a].msg = m /\ T.attempts[a].epoch = n + 1 /\ Exists(T, a)
  BY <1>1, StoreParts DEF Exists
<1>6. T.messages[m].state = "claimed" /\ T.messages[m] = rec
  BY <1>1, StoreParts
<1> HIDE DEF T
<1>7. Grows(S, T)
  BY <1>1, <1>6, StoreParts DEF Grows, Exists, Saved
<1>8. ASSUME NEW k \in MessageRefs, T.messages[k] # S.messages[k]
      PROVE  RecordSound(T, k, T.messages[k]) /\ T.requests[k] \in Request
  <2>1. k = m
    BY <1>1, <1>8, StoreParts
  <2>2. rec.state = "claimed" /\ rec.attempt = a /\ rec.redelivery = n
    OBVIOUS
  <2>3. RecordSound(T, m, rec)
    BY <2>2, <1>5, RefsDiffer
       DEF RecordSound, RecordLinked, RecordStateBacked, RecordCompletionBacked
  <2>4. S.requests[m] \in Request
    BY DEF Sound
  <2> QED BY <2>1, <2>3, <2>4, <1>1, <1>6
<1>9. ASSUME NEW b \in AttemptRefs, ~Exists(S, b) PROVE AttemptFounded(T, b)
  <2>1. CASE b = a
    <3>1. S.requests[m].dependsOn \subseteq MessageRefs
      BY DEF Sound, Request
    <3>2. DependenciesRecorded(T, a)
      BY <1>1, <1>4, <1>5, <1>7, <3>1, CompletionStays DEF DependenciesRecorded, Founded
    <3>3. Saved(T, m)
      BY <1>6 DEF Saved
    <3> QED BY <2>1, <3>2, <3>3, <1>5 DEF AttemptFounded
  <2>2. CASE b # a
    BY <2>2, <1>1, <1>9, StoreParts DEF AttemptFounded, Sound, Exists
  <2> QED BY <2>1, <2>2
<1>10. Sound(T)
  BY <1>1, <1>4, <1>7, <1>8, <1>9, GrowthIsSound
<1> QED BY <1>4, <1>7, <1>10 DEF Kept, T

\* What two operations keep, one after the other, both together keep.
LEMMA KeptTransitive ==
    ASSUME NEW S \in Store, NEW T, NEW U, Kept(S, T), Kept(T, U)
    PROVE  Kept(S, U)
<1>1. T \in Store /\ U \in Store /\ Sound(U) /\ Grows(S, T) /\ Grows(T, U)
  BY DEF Kept
<1>2. \A a \in AttemptRefs :
        S.checkpoints[a].reported \subseteq U.checkpoints[a].reported
  BY <1>1 DEF Grows
<1>3. Grows(S, U)
  BY <1>1, <1>2 DEF Grows
<1> QED BY <1>1, <1>3 DEF Kept

\* Only a message that was claimed points to an attempt.
LEMMA CurrentExists ==
    ASSUME NEW S \in Store, Sound(S), NEW m \in MessageRefs, HasCurrentAttempt(S, m)
    PROVE  LET a == S.messages[m].attempt
           IN  /\ a \in AttemptRefs /\ Exists(S, a)
               /\ S.attempts[a].msg = m /\ Saved(S, m)
<1> DEFINE a == S.messages[m].attempt
<1>1. a \in AttemptRefs
  BY StoreParts DEF HasCurrentAttempt, Message
<1>2. S.attempts[a].msg = m
  BY DEF HasCurrentAttempt, Sound, RecordSound, RecordLinked
<1>3. Exists(S, a)
  BY <1>1, <1>2, RefsDiffer DEF Sound, AttemptFounded
<1>4. Saved(S, m)
  BY <1>1, <1>2, <1>3 DEF Sound, AttemptFounded
<1> QED BY <1>1, <1>2, <1>3, <1>4

\* A dead-lettered message has its dead letter, at the limit of redeliveries.
LEMMA DeadLetterKept ==
    ASSUME NEW S \in Store, Sound(S), NEW m \in MessageRefs,
           HasCurrentAttempt(S, m), OutOfRedeliveries(S, m)
    PROVE  Kept(S, DeadLetterMessage(S, m))
<1> DEFINE T == DeadLetterMessage(S, m)
           cur == S.messages[m].attempt
           letter == [msg |-> m, attempt |-> cur, redelivery |-> S.messages[m].redelivery,
                      checkpoint |-> S.checkpoints[cur].count]
           att == [S.attempts[cur] EXCEPT !.state = "orphaned"]
           rec == [S.messages[m] EXCEPT !.state = "dead_lettered"]
<1>1. /\ cur \in AttemptRefs /\ Exists(S, cur)
      /\ S.attempts[cur].msg = m /\ Saved(S, m)
  BY CurrentExists
<1>2. /\ T.attempts = [S.attempts EXCEPT ![cur] = att]
      /\ T.messages = [S.messages EXCEPT ![m] = rec]
      /\ T.requests = S.requests /\ T.checkpoints = S.checkpoints
      /\ T.deadLetters = S.deadLetters \cup {letter}
  BY DEF DeadLetterMessage, Store
<1>3. /\ att \in Attempt /\ att.state = "orphaned"
      /\ att.msg = m /\ att.epoch = S.attempts[cur].epoch
  BY <1>1, StoreParts DEF Attempt, AttemptState
<1>4. /\ rec \in Message /\ rec.state = "dead_lettered" /\ rec.attempt = cur
      /\ rec.redelivery = S.messages[m].redelivery
  BY StoreParts DEF Message, MessageState
<1>5. letter \in DeadLetter
  BY <1>1, StoreParts DEF DeadLetter, Message, Checkpoints
<1> DEFINE F == [S.attempts EXCEPT ![cur] = att]
           G == [S.messages EXCEPT ![m] = rec]
           D == S.deadLetters \cup {letter}
<1>6. T \in Store
  <2>1. T = [S EXCEPT !.attempts = F, !.messages = G, !.deadLetters = D]
    BY DEF DeadLetterMessage
  <2> HIDE DEF T, att, rec, letter, cur
  <2>2. F \in [AttemptRefs -> Attempt]
    BY <1>3, StoreParts
  <2>3. G \in [MessageRefs -> Message]
    BY <1>4, StoreParts
  <2>4. D \in SUBSET DeadLetter
    BY <1>5, StoreParts
  <2> HIDE DEF F, G, D
  <2> QED BY <2>1, <2>2, <2>3, <2>4 DEF Store
<1>7. letter.msg = m /\ letter.attempt = cur
  OBVIOUS
<1> HIDE DEF T, att, rec, letter
<1>8. Grows(S, T)
  BY <1>1, <1>2, <1>3, <1>4, StoreParts DEF Grows, Exists, Saved
<1>9. T.messages[m] = rec
  BY <1>2, StoreParts
<1>10. RecordSound(T, m, rec)
  <2>1. S.messages[m] \in Message /\ RecordSound(S, m, S.messages[m])
    BY StoreParts DEF Sound
  <2>2. RecordLinked(T, m, rec)
    BY <2>1, <1>4, <1>6, <1>8, RecordStays DEF RecordSound, RecordLinked
  <2>3. rec.redelivery = MaxRedelivery
    BY <2>1, <1>4, StoreAssumption
       DEF OutOfRedeliveries, RecordSound, RecordLinked, Message
  <2>4. DeadLettered(T, m, rec)
    BY <2>3, <1>2, <1>4, <1>7 DEF DeadLettered
  <2> QED BY <2>2, <2>4, <1>4 DEF RecordSound, RecordStateBacked, RecordCompletionBacked
<1>11. \A k \in MessageRefs :
          \/ T.messages[k] = S.messages[k]
          \/ RecordSound(T, k, T.messages[k]) /\ (Saved(T, k) => T.requests[k] \in Request)
  BY <1>1, <1>2, <1>9, <1>10, StoreParts DEF Sound
<1>12. \A b \in AttemptRefs : ~Exists(S, b) => AttemptFounded(T, b)
  BY <1>1, <1>2, StoreParts DEF AttemptFounded, Sound, Exists
<1>13. \A d \in T.deadLetters : d \in S.deadLetters \/ Saved(T, d.msg)
  BY <1>1, <1>2, <1>7, <1>8 DEF Grows
<1>14. Sound(T)
  BY <1>6, <1>8, <1>11, <1>12, <1>13, GrowthIsSound
<1> QED BY <1>6, <1>8, <1>14 DEF Kept, T

\* Orphaning an attempt changes its state alone.
LEMMA OrphanCurrentKept ==
    ASSUME NEW S \in Store, Sound(S), NEW m \in MessageRefs, HasCurrentAttempt(S, m)
    PROVE  /\ Kept(S, OrphanCurrent(S, m))
           /\ OrphanCurrent(S, m).messages = S.messages
           /\ OrphanCurrent(S, m).requests = S.requests
           /\ \A a \in AttemptRefs : Exists(OrphanCurrent(S, m), a) <=> Exists(S, a)
<1> DEFINE cur == S.messages[m].attempt
           F == [S.attempts EXCEPT ![cur] = [S.attempts[cur] EXCEPT !.state = "orphaned"]]
<1>1. cur \in AttemptRefs /\ Exists(S, cur)
  BY CurrentExists
<1>2. F \in [AttemptRefs -> Attempt]
  BY <1>1, StoreParts DEF Attempt, AttemptState
<1>3. \A a \in AttemptRefs : /\ F[a].msg = S.attempts[a].msg
                             /\ F[a].epoch = S.attempts[a].epoch
                             /\ F[a].state = "absent" <=> ~Exists(S, a)
  BY <1>1, StoreParts DEF Exists, Attempt
<1>4. OrphanCurrent(S, m) = WithAttempts(S, F)
  BY DEF OrphanCurrent, WithAttempts
<1> HIDE DEF F
<1>5. Kept(S, WithAttempts(S, F))
  BY <1>2, <1>3, AttemptsChange
<1>6. /\ WithAttempts(S, F).messages = S.messages
      /\ WithAttempts(S, F).requests = S.requests
      /\ WithAttempts(S, F).attempts = F
  BY DEF WithAttempts, Store
<1> QED BY <1>3, <1>4, <1>5, <1>6 DEF Exists

\* A message that stays linked may change to any state that needs no more.
LEMMA StateChange ==
    ASSUME NEW S \in Store, NEW m \in MessageRefs, NEW rec \in Message,
           RecordSound(S, m, rec), NEW s \in MessageState,
           s \notin {"available", "dead_lettered", "completed"},
           s \in {"claimed", "takeover_candidate"} => rec.attempt # NoAttempt
    PROVE  /\ [rec EXCEPT !.state = s] \in Message
           /\ [rec EXCEPT !.state = s].state # "absent"
           /\ RecordSound(S, m, [rec EXCEPT !.state = s])
<1> DEFINE new == [rec EXCEPT !.state = s]
<1>1. /\ new \in Message /\ new.state = s /\ new.attempt = rec.attempt
      /\ new.redelivery = rec.redelivery
  BY DEF Message
<1>2. s # "absent"
  BY DEF MessageState
<1> HIDE DEF new
<1>3. RecordSound(S, m, new)
  BY <1>1, <1>2 DEF RecordSound, RecordLinked, RecordStateBacked, RecordCompletionBacked
<1> QED BY <1>1, <1>2, <1>3 DEF new

\* Reconciling orphans the expired owners and puts their messages up for
\* takeover, each still with its attempt.
LEMMA ReconcileKept ==
    ASSUME NEW S \in Store, Sound(S)
    PROVE  Kept(S, ReconcileStore(S))
<1> DEFINE expired == {m \in MessageRefs : LeaseRanOut(S, m)}
           owners == {S.messages[m].attempt : m \in expired}
           F == [a \in AttemptRefs |->
                   IF a \in owners THEN [S.attempts[a] EXCEPT !.state = "orphaned"]
                   ELSE S.attempts[a]]
           G == [m \in MessageRefs |->
                   IF m \in expired THEN [S.messages[m] EXCEPT !.state = "takeover_candidate"]
                   ELSE S.messages[m]]
           S1 == WithAttempts(S, F)
<1>1. \A a \in owners : a \in AttemptRefs /\ Exists(S, a)
  BY CurrentExists DEF LeaseRanOut
<1>2. F \in [AttemptRefs -> Attempt]
  BY StoreParts DEF Attempt, AttemptState
<1>3. \A a \in AttemptRefs : /\ F[a].msg = S.attempts[a].msg
                             /\ F[a].epoch = S.attempts[a].epoch
                             /\ F[a].state = "absent" <=> ~Exists(S, a)
  BY <1>1, StoreParts DEF Exists, Attempt
<1>4. ReconcileStore(S) = WithMessages(S1, G)
  BY DEF ReconcileStore, WithMessages, WithAttempts, Store
<1> HIDE DEF F
<1>5. Kept(S, S1)
  BY <1>2, <1>3, AttemptsChange
<1>6. S1.messages = S.messages
  BY DEF WithAttempts, Store
<1> HIDE DEF S1
<1>7. \A m \in MessageRefs : S1.messages[m] \in Message /\ RecordSound(S1, m, S1.messages[m])
  BY <1>5, StoreParts DEF Kept, Sound
<1>8. ASSUME NEW m \in MessageRefs, m \in expired
      PROVE  /\ Saved(S1, m) /\ G[m] \in Message /\ G[m].state # "absent"
             /\ RecordSound(S1, m, G[m])
  <2>1. S.messages[m].attempt # NoAttempt /\ Saved(S1, m)
    BY <1>6, <1>8 DEF LeaseRanOut, HasCurrentAttempt, Saved
  <2>2. "takeover_candidate" \in MessageState
    BY DEF MessageState
  <2>3. S1 \in Store
    BY <1>5 DEF Kept
  <2> QED BY <2>1, <2>2, <2>3, <1>6, <1>7, <1>8, StateChange
<1>9. G \in [MessageRefs -> Message]
  BY <1>8, StoreParts
<1>10. \A m \in MessageRefs : \/ G[m] = S1.messages[m]
                              \/ /\ Saved(S1, m) /\ G[m].state # "absent"
                                 /\ RecordSound(S1, m, G[m])
  BY <1>6, <1>8
<1> HIDE DEF G
<1>11. Kept(S1, WithMessages(S1, G))
  BY <1>5, <1>9, <1>10, MessagesChange DEF Kept
<1> QED BY <1>4, <1>5, <1>11, KeptTransitive DEF Kept

\* Time changes leases alone.
LEMMA TickKept ==
    ASSUME NEW S \in Store, Sound(S)
    PROVE  Kept(S, TickStore(S))
<1> DEFINE F == [a \in AttemptRefs |-> [S.attempts[a] EXCEPT !.lease = Elapse(@)]]
<1>1. F \in [AttemptRefs -> Attempt]
  BY StoreParts, StoreAssumption DEF Attempt, Elapse, Countdown, Expired
<1>2. \A a \in AttemptRefs : /\ F[a].msg = S.attempts[a].msg
                             /\ F[a].epoch = S.attempts[a].epoch
                             /\ F[a].state = "absent" <=> ~Exists(S, a)
  BY StoreParts DEF Exists, Attempt
<1>3. TickStore(S) = WithAttempts(S, F)
  BY DEF TickStore, WithAttempts
<1> HIDE DEF F
<1> QED BY <1>1, <1>2, <1>3, AttemptsChange

\* A first claim is at the redelivery count the message has.
LEMMA ClaimAvailableKept ==
    ASSUME NEW S \in Store, Sound(S),
           NEW m \in MessageRefs, NEW e \in Endpoints, NEW a \in AttemptRefs,
           ~Exists(S, a), Saved(S, m), Founded(S, m)
    PROVE  Kept(S, ClaimAvailableMessage(S, m, e, a))
<1>1. S.messages[m].redelivery \in Nat /\ S.messages[m].redelivery <= MaxRedelivery
  BY StoreParts DEF Message, Sound, RecordSound, RecordLinked
<1> QED BY <1>1, ClaimAtKept DEF ClaimAvailableMessage

\* A takeover is one redelivery more, which the limit still allows.
LEMMA TakeoverKept ==
    ASSUME NEW S \in Store, Sound(S),
           NEW m \in MessageRefs, NEW e \in Endpoints, NEW a \in AttemptRefs,
           ~Exists(S, a), Saved(S, m), Founded(S, m), ~OutOfRedeliveries(S, m)
    PROVE  Kept(S, TakeoverMessage(S, m, e, a))
<1>1. /\ S.messages[m].redelivery + 1 \in Nat
      /\ S.messages[m].redelivery + 1 <= MaxRedelivery
  BY StoreParts, StoreAssumption DEF Message, OutOfRedeliveries
<1> QED BY <1>1, ClaimAtKept DEF TakeoverMessage

\* Whatever a claim of a message comes to, it keeps the ledger.
LEMMA ClaimMessageKept ==
    ASSUME NEW S \in Store, Sound(S),
           NEW m \in MessageRefs, NEW e \in Endpoints, NEW a \in AttemptRefs,
           Saved(S, m), Founded(S, m), Grants(S, m) => ~Exists(S, a)
    PROVE  Kept(S, ClaimMessageStore(S, m, e, a))
<1>1. CASE S.messages[m].state = "available"
  BY <1>1, ClaimAvailableKept DEF ClaimMessageStore, Grants
<1>2. CASE S.messages[m].state # "available" /\ ~(IsTakeoverCandidate(S, m) \/ LeaseRanOut(S, m))
  BY <1>2 DEF ClaimMessageStore, Kept, Grows
<1>3. CASE /\ S.messages[m].state # "available"
           /\ IsTakeoverCandidate(S, m) \/ LeaseRanOut(S, m)
  <2>1. HasCurrentAttempt(S, m)
    BY <1>3 DEF IsTakeoverCandidate, LeaseRanOut
  <2>2. CASE OutOfRedeliveries(S, m)
    BY <2>1, <2>2, <1>3, DeadLetterKept DEF ClaimMessageStore
  <2>3. CASE ~OutOfRedeliveries(S, m) /\ IsTakeoverCandidate(S, m)
    BY <2>3, <1>3, TakeoverKept DEF ClaimMessageStore, Grants
  <2>4. CASE ~OutOfRedeliveries(S, m) /\ ~IsTakeoverCandidate(S, m)
    <3> DEFINE T == OrphanCurrent(S, m)
    <3>1. /\ Kept(S, T) /\ T.messages = S.messages /\ T.requests = S.requests
          /\ ~Exists(T, a)
      BY <2>1, <2>4, <1>3, OrphanCurrentKept DEF Grants
    <3>2. ClaimMessageStore(S, m, e, a) = TakeoverMessage(T, m, e, a)
      BY <2>4, <1>3 DEF ClaimMessageStore
    <3> HIDE DEF T
    <3>3. T \in Store /\ Sound(T) /\ Grows(S, T)
      BY <3>1 DEF Kept
    <3>4. Saved(T, m) /\ ~OutOfRedeliveries(T, m)
      BY <3>1, <2>4 DEF Saved, OutOfRedeliveries
    <3>5. S.requests[m].dependsOn \subseteq MessageRefs
      BY DEF Sound, Request
    <3>6. Founded(T, m)
      BY <3>1, <3>3, <3>5, CompletionStays DEF Founded
    <3>7. Kept(T, TakeoverMessage(T, m, e, a))
      BY <3>1, <3>3, <3>4, <3>6, TakeoverKept
    <3> QED BY <3>1, <3>2, <3>7, KeptTransitive DEF Kept
  <2> QED BY <2>2, <2>3, <2>4
<1> QED BY <1>1, <1>2, <1>3

\* So does whatever claiming the next eligible message comes to.
LEMMA ClaimNextKept ==
    ASSUME NEW S \in Store, Sound(S),
           NEW m \in MessageRefs, NEW e \in Endpoints, NEW a \in AttemptRefs,
           S.messages[m].state \in {"available", "takeover_candidate"},
           Founded(S, m), Grants(S, m) => ~Exists(S, a)
    PROVE  Kept(S, ClaimNextStore(S, m, e, a))
<1>1. Saved(S, m)
  BY DEF Saved
<1>2. CASE S.messages[m].state = "available"
  BY <1>1, <1>2, ClaimAvailableKept DEF ClaimNextStore, Grants
<1>3. CASE S.messages[m].state = "takeover_candidate"
  <2>1. HasCurrentAttempt(S, m)
    BY <1>3, StoreParts DEF HasCurrentAttempt, Sound, RecordSound, RecordStateBacked
  <2>2. CASE OutOfRedeliveries(S, m)
    BY <2>1, <2>2, <1>3, DeadLetterKept DEF ClaimNextStore
  <2>3. CASE ~OutOfRedeliveries(S, m)
    BY <2>1, <2>3, <1>1, <1>3, TakeoverKept DEF ClaimNextStore, Grants, IsTakeoverCandidate
  <2> QED BY <2>2, <2>3
<1> QED BY <1>2, <1>3

-----------------------------------------------------------------------------
(* The handlers.                                                           *)

Inv == TypeOK /\ Sound(store)

-----------------------------------------------------------------------------
(* The registry.                                                           *)

\* Registering, heartbeats, advertising and time leave a well-typed registry.
LEMMA RegistryTyped ==
    ASSUME RegistryTypeOK, RegistryNext \/ RegistryTick \/ UNCHANGED endpoints
    PROVE  RegistryTypeOK'
<1>1. Registrations \cup Heartbeats \subseteq ConnectionState
  BY RegistryAssumption DEF ConnectionState
<1>2. CapabilitySets \subseteq SUBSET Capabilities
  BY RegistryAssumption
<1>3. HeartbeatTicks \in Nat /\ HeartbeatTicks \in Countdown(HeartbeatTicks)
  <2>1. HeartbeatTicks \in Nat
    BY RegistryAssumption
  <2> QED BY <2>1 DEF Countdown, Expired
<1>4. ASSUME NEW e \in Endpoints, NEW conn \in Registrations, NEW names \in CapabilitySets,
             RegisterEndpoint(e, conn, names)
      PROVE  RegistryTypeOK'
  BY <1>1, <1>2, <1>3, <1>4 DEF RegistryTypeOK, RegisterEndpoint, Endpoint
<1>5. ASSUME NEW e \in Endpoints, NEW conn \in Heartbeats, HeartbeatEndpoint(e, conn)
      PROVE  RegistryTypeOK'
  BY <1>1, <1>3, <1>5 DEF RegistryTypeOK, HeartbeatEndpoint, Endpoint
<1>6. ASSUME NEW e \in Endpoints, NEW names \in CapabilitySets, AdvertiseCapabilities(e, names)
      PROVE  RegistryTypeOK'
  BY <1>2, <1>6 DEF RegistryTypeOK, AdvertiseCapabilities, Endpoint
<1>7. CASE RegistryTick
  BY <1>3, <1>7 DEF RegistryTypeOK, RegistryTick, Endpoint, Elapse,
                       Countdown, Expired
<1>8. CASE UNCHANGED endpoints
  BY <1>8 DEF RegistryTypeOK
<1> QED BY <1>4, <1>5, <1>6, <1>7, <1>8 DEF RegistryNext

-----------------------------------------------------------------------------
(* The handlers, as functions of the ledger.                               *)

\* A message saved under a fresh ref is available and has no attempt.
LEMMA SaveMessageKept ==
    ASSUME NEW S \in Store, Sound(S), NEW m \in MessageRefs, ~Saved(S, m),
           NEW r \in Request
    PROVE  Kept(S, SaveMessage(S, m, r))
<1> DEFINE R == [n \in {m} |-> r]
           new == [AbsentMessage EXCEPT !.state = "available"]
           F == [n \in MessageRefs |-> IF n \in {m} THEN R[n] ELSE S.requests[n]]
           G == [n \in MessageRefs |-> IF n \in {m} THEN new ELSE S.messages[n]]
<1>1. [S.requests EXCEPT ![m] = r] = F
  BY StoreParts
<1>2. [S.messages EXCEPT ![m] = new] = G
  BY StoreParts
<1>3. SaveMessage(S, m, r) = [S EXCEPT !.requests = F, !.messages = G]
  BY <1>1, <1>2 DEF SaveMessage
<1>4. Kept(S, [S EXCEPT !.requests = F, !.messages = G])
  BY MessagesArrive
<1> QED BY <1>3, <1>4

\* Writing back an attempt, with whatever state but none.
LEMMA UpdateAttemptKept ==
    ASSUME NEW S \in Store, Sound(S), NEW a \in AttemptRefs, Exists(S, a),
           NEW att \in Attempt, att.state # "absent",
           att.msg = S.attempts[a].msg, att.epoch = S.attempts[a].epoch
    PROVE  /\ Kept(S, UpdateAttempt(S, a, att))
           /\ UpdateAttempt(S, a, att).messages = S.messages
<1> DEFINE F == [S.attempts EXCEPT ![a] = att]
<1>1. F \in [AttemptRefs -> Attempt]
  BY StoreParts
<1>2. \A b \in AttemptRefs : /\ F[b].msg = S.attempts[b].msg
                             /\ F[b].epoch = S.attempts[b].epoch
                             /\ F[b].state = "absent" <=> ~Exists(S, b)
  BY StoreParts DEF Exists
<1>3. UpdateAttempt(S, a, att) = WithAttempts(S, F)
  BY DEF UpdateAttempt, WithAttempts
<1>4. UpdateAttempt(S, a, att).messages = S.messages
  BY DEF UpdateAttempt, Store
<1> HIDE DEF F
<1> QED BY <1>1, <1>2, <1>3, <1>4, AttemptsChange

\* The lease of an attempt, granted or not yet, may be set to any other.
LEMMA LeaseKept ==
    ASSUME NEW S \in Store, Sound(S), NEW a \in AttemptRefs, NEW l \in Countdown(LeaseTicks)
    PROVE  LET T == UpdateAttempt(S, a, [S.attempts[a] EXCEPT !.lease = l])
           IN  Kept(S, T) /\ \A b \in AttemptRefs : T.attempts[b].state = S.attempts[b].state
<1> DEFINE att == [S.attempts[a] EXCEPT !.lease = l]
           F == [S.attempts EXCEPT ![a] = att]
<1>1. /\ att \in Attempt /\ att.msg = S.attempts[a].msg
      /\ att.epoch = S.attempts[a].epoch /\ att.state = S.attempts[a].state
  BY StoreParts DEF Attempt
<1>2. UpdateAttempt(S, a, att) = WithAttempts(S, F) /\ WithAttempts(S, F).attempts = F
  BY DEF UpdateAttempt, WithAttempts, Store
<1> HIDE DEF att
<1>3. F \in [AttemptRefs -> Attempt]
  BY <1>1, StoreParts
<1>4. \A b \in AttemptRefs : /\ F[b].msg = S.attempts[b].msg
                             /\ F[b].epoch = S.attempts[b].epoch
                             /\ F[b].state = S.attempts[b].state
  BY <1>1, StoreParts
<1> HIDE DEF F
<1>5. Kept(S, WithAttempts(S, F))
  BY <1>3, <1>4, AttemptsChange DEF Exists
<1> QED BY <1>2, <1>4, <1>5 DEF att

\* A saved message may be written back as any sound record.
LEMMA UpdateMessageKept ==
    ASSUME NEW S \in Store, Sound(S), NEW m \in MessageRefs, Saved(S, m),
           NEW rec \in Message, rec.state # "absent", RecordSound(S, m, rec)
    PROVE  Kept(S, UpdateMessage(S, m, rec))
<1> DEFINE G == [S.messages EXCEPT ![m] = rec]
<1>1. G \in [MessageRefs -> Message]
  BY StoreParts
<1>2. \A n \in MessageRefs : \/ G[n] = S.messages[n]
                             \/ /\ Saved(S, n) /\ G[n].state # "absent"
                                /\ RecordSound(S, n, G[n])
  BY StoreParts
<1>3. UpdateMessage(S, m, rec) = WithMessages(S, G)
  BY DEF UpdateMessage, WithMessages
<1> HIDE DEF G
<1> QED BY <1>1, <1>2, <1>3, MessagesChange

\* The message of an attempt that reported s may take the state that means.
LEMMA ReportedState ==
    ASSUME NEW S \in Store, NEW m \in MessageRefs, NEW rec \in Message,
           rec.state # "absent", RecordSound(S, m, rec),
           NEW s \in CheckpointState, s = "completed" => CompletionRecorded(S, m)
    PROVE  LET new == [rec EXCEPT !.state = MessageStateAfter(s, @)]
           IN  new \in Message /\ new.state # "absent" /\ RecordSound(S, m, new)
<1> DEFINE t == MessageStateAfter(s, rec.state)
           new == [rec EXCEPT !.state = t]
<1>1. t \in {"processing", "input_required", "failed", "completed", rec.state}
      /\ (t = "completed" => s = "completed" \/ t = rec.state)
  BY DEF MessageStateAfter
<1> HIDE DEF t
<1>2. /\ new \in Message /\ new.state = t /\ new.attempt = rec.attempt
      /\ new.redelivery = rec.redelivery
  BY <1>1 DEF Message, MessageState
<1> HIDE DEF new
<1>3. t # "absent"
  BY <1>1
<1>4. RecordSound(S, m, new)
  <2>1. CASE t = rec.state
    BY <2>1, <1>2 DEF RecordSound, RecordLinked, RecordStateBacked, DeadLettered,
                      RecordCompletionBacked
  <2>2. CASE t # rec.state
    BY <2>2, <1>1, <1>2 DEF RecordSound, RecordLinked, RecordStateBacked,
                      RecordCompletionBacked
  <2> QED BY <2>1, <2>2
<1> QED BY <1>2, <1>3, <1>4 DEF new, t

\* A checkpoint is recorded, then its attempt and its message follow it.
LEMMA CheckpointStoreKept ==
    ASSUME NEW S \in Store, Sound(S), NEW a \in AttemptRefs, Exists(S, a),
           NEW s \in CheckpointState
    PROVE  /\ Kept(S, CheckpointStore(S, a, s))
           /\ CheckpointStore(S, a, s).requests = S.requests
           /\ \A n \in MessageRefs : Saved(CheckpointStore(S, a, s), n) <=> Saved(S, n)
<1> DEFINE m == S.attempts[a].msg
           S1 == SaveCheckpoint(S, a, s)
           att == [S.attempts[a] EXCEPT !.state = s, !.rev = S1.checkpoints[a].count]
           S2 == UpdateAttempt(S1, a, att)
           rec == [S.messages[m] EXCEPT !.state = MessageStateAfter(s, @)]
           S3 == UpdateMessage(S2, m, rec)
<1>1. m \in MessageRefs /\ Saved(S, m)
  BY DEF Sound, AttemptFounded
<1>2. s \in AttemptState /\ s # "absent"
  BY DEF CheckpointState, AttemptState
<1>3. /\ Kept(S, S1) /\ s \in S1.checkpoints[a].reported
      /\ S1.attempts = S.attempts /\ S1.messages = S.messages
      /\ S1.requests = S.requests /\ S1.checkpoints[a].count \in Nat
  BY <1>2, CheckpointKept
<1>4. S1 \in Store /\ Sound(S1)
  BY <1>3 DEF Kept
<1>5. CheckpointStore(S, a, s) = S3
  BY DEF CheckpointStore
<1> HIDE DEF S1
<1>6. /\ att \in Attempt /\ att.state = s
      /\ att.msg = m /\ att.epoch = S.attempts[a].epoch
  <2> DEFINE old == S.attempts[a]
             c == S1.checkpoints[a].count
  <2>1. att = [old EXCEPT !.state = s, !.rev = c]
    OBVIOUS
  <2>2. old \in Attempt /\ c \in Nat
    BY <1>3, StoreParts
  <2>3. old.msg = m /\ old.epoch = S.attempts[a].epoch
    OBVIOUS
  <2> HIDE DEF old, c, att, m
  <2> QED BY <2>1, <2>2, <2>3, <1>2 DEF Attempt
<1> HIDE DEF att
<1>7. Kept(S1, S2) /\ S2.messages = S1.messages
  BY <1>2, <1>3, <1>4, <1>6, UpdateAttemptKept DEF Exists
<1>8. S2.attempts[a].msg = m /\ s \in S2.checkpoints[a].reported /\ S2.requests = S1.requests
  BY <1>3, <1>4, <1>6 DEF UpdateAttempt, Store
<1>9. S2 \in Store /\ Sound(S2)
  BY <1>7 DEF Kept
<1> HIDE DEF S2
<1>10. /\ S.messages[m] \in Message /\ S.messages[m].state # "absent"
       /\ RecordSound(S2, m, S.messages[m]) /\ Saved(S2, m)
  BY <1>1, <1>3, <1>7, <1>9, StoreParts DEF Sound, Saved
<1>11. s = "completed" => CompletionRecorded(S2, m)
  BY <1>8 DEF CompletionRecorded
<1>12. rec \in Message /\ rec.state # "absent" /\ RecordSound(S2, m, rec)
  BY <1>1, <1>9, <1>10, <1>11, ReportedState
<1> HIDE DEF rec
<1>13. Kept(S2, S3)
  BY <1>1, <1>9, <1>10, <1>12, UpdateMessageKept
<1>14. S3.requests = S.requests /\ S3.messages = [S.messages EXCEPT ![m] = rec]
  BY <1>3, <1>7, <1>8, <1>9 DEF UpdateMessage, Store
<1> HIDE DEF S3, m
<1>15. Kept(S, S3)
  BY <1>3, <1>4, <1>7, <1>13, KeptTransitive
<1>16. \A n \in MessageRefs : Saved(S3, n) <=> Saved(S, n)
  BY <1>1, <1>12, <1>14, StoreParts DEF Saved
<1> QED BY <1>5, <1>14, <1>15, <1>16

-----------------------------------------------------------------------------
(* Each action keeps the ledger.                                           *)

\* A message is saved, for a sender or as a replay.
LEMMA IngressKept ==
    ASSUME Inv, NEW m \in MessageRefs, NEW r \in Request, IngressMessage(m, r)
    PROVE  Kept(store, store')
BY SaveMessageKept DEF Inv, TypeOK, IngressMessage

\* A claim of a message by its ref, whatever it comes to.
LEMMA ClaimKept ==
    ASSUME Inv, NEW e \in Endpoints, NEW m \in MessageRefs, NEW a \in AttemptRefs,
           ClaimMessage(e, m, a)
    PROVE  Kept(store, store')
<1>1. Founded(store, m) /\ Saved(store, m)
  BY CompletedIsRecorded DEF Inv, TypeOK, ClaimMessage, MayClaim
<1> QED BY <1>1, ClaimMessageKept DEF Inv, TypeOK, ClaimMessage

\* A claim-next reconciles the ledger, then claims what is eligible in that.
LEMMA ClaimNextMessageKept ==
    ASSUME Inv, NEW e \in Endpoints, NEW m \in MessageRefs, NEW a \in AttemptRefs,
           ClaimNextMessage(e, m, a)
    PROVE  Kept(store, store')
<1> DEFINE S == ReconcileStore(store)
<1>1. Kept(store, S)
  BY ReconcileKept DEF Inv, TypeOK
<1>2. /\ NextFor(S, m, e) /\ store' = ClaimNextStore(S, m, e, a)
      /\ Grants(S, m) => ~Exists(S, a)
  BY DEF ClaimNextMessage
<1> HIDE DEF S
<1>3. /\ S.messages[m].state \in {"available", "takeover_candidate"}
      /\ MessageDependenciesCompleted(S.requests[m], StateOf(S))
  BY <1>2 DEF NextFor, IsNext, IsFirst, Eligible
<1>4. S \in Store /\ Sound(S)
  BY <1>1 DEF Kept
<1>5. Founded(S, m)
  BY <1>3, <1>4, CompletedIsRecorded DEF Saved
<1>6. Kept(S, store')
  BY <1>2, <1>3, <1>4, <1>5, ClaimNextKept
<1> QED BY <1>1, <1>6, KeptTransitive DEF Inv, TypeOK

\* A refresh changes the lease alone.
LEMMA RefreshKept ==
    ASSUME Inv, NEW a \in AttemptRefs, RefreshLease(a)
    PROVE  Kept(store, store')
<1> DEFINE att == [store.attempts[a] EXCEPT !.lease = LeaseTicks]
<1>1. LeaseTicks \in Countdown(LeaseTicks)
  BY StoreAssumption DEF Countdown, Expired
<1>2. Exists(store, a)
  BY DEF RefreshLease, Live, Open, Exists
<1>3. /\ att \in Attempt /\ att.msg = store.attempts[a].msg
      /\ att.epoch = store.attempts[a].epoch /\ att.state # "absent"
  BY <1>1, <1>2, StoreParts DEF Attempt, Exists, Inv, TypeOK
<1>4. store' = UpdateAttempt(store, a, att)
  BY DEF RefreshLease
<1> HIDE DEF att
<1> QED BY <1>2, <1>3, <1>4, UpdateAttemptKept DEF Inv, TypeOK

\* A follow-up is a request, whatever the message it follows.
LEMMA FollowUpTyped ==
    ASSUME NEW r \in Request, NEW m \in MessageRefs, NEW t \in Tasks
    PROVE  FollowUpRequest(r, m, t) \in Request
<1>1. FollowUpRequest(r, m, t) =
        [r EXCEPT !.dependsOn = IF r.dependsOn = {} THEN {m} ELSE r.dependsOn, !.task = t]
  BY DEF FollowUpRequest
<1> DEFINE d == IF r.dependsOn = {} THEN {m} ELSE r.dependsOn
<1>2. d \in SUBSET MessageRefs
  BY DEF Request
<1> HIDE DEF d
<1>3. [r EXCEPT !.dependsOn = d, !.task = t] \in Request
  BY <1>2 DEF Request
<1> QED BY <1>1, <1>3 DEF d

\* A completion is a checkpoint, followed by new messages of the same task.
LEMMA CompleteKept ==
    ASSUME Inv, NEW a \in AttemptRefs, NEW follow \in FollowUps,
           CompleteAttempt(a, follow)
    PROVE  Kept(store, store')
<1> DEFINE m == store.attempts[a].msg
           done == CheckpointStore(store, a, "completed")
           N == DOMAIN follow
           R == [n \in N |-> FollowUpRequest(follow[n], m, store.requests[m].task)]
<1>1. Exists(store, a)
  BY DEF CompleteAttempt, Live, Open, Exists
<1>2. /\ Kept(store, done) /\ done.requests = store.requests
      /\ \A n \in MessageRefs : Saved(done, n) <=> Saved(store, n)
  BY <1>1, CheckpointStoreKept DEF Inv, TypeOK, CheckpointState, AttemptState
<1>3. N \in SUBSET MessageRefs /\ \A n \in N : follow[n] \in Request
  BY HandoffAssumption DEF FollowUps
<1>4. m \in MessageRefs /\ store.requests[m] \in Request
  BY <1>1 DEF Inv, Sound, AttemptFounded
<1>5. R \in [N -> Request]
  <2>1. store.requests[m].task \in Tasks
    BY <1>4 DEF Request
  <2> HIDE DEF N, m
  <2> QED BY <2>1, <1>3, <1>4, FollowUpTyped
<1>6. \A n \in N : ~Saved(done, n)
  BY <1>2, <1>3 DEF CompleteAttempt
<1>7. store' = [done EXCEPT
         !.requests = [n \in MessageRefs |-> IF n \in N THEN R[n] ELSE @[n]],
         !.messages = [n \in MessageRefs |->
             IF n \in N THEN [AbsentMessage EXCEPT !.state = "available"] ELSE @[n]]]
  BY DEF CompleteAttempt
<1> HIDE DEF done, N, R, m
<1>8. Kept(done, store')
  BY <1>2, <1>3, <1>5, <1>6, <1>7, MessagesArrive DEF Kept
<1> QED BY <1>2, <1>8, KeptTransitive DEF Inv, TypeOK

\* A canceled task: its unfinished messages and their open attempts with them.
LEMMA CancelKept ==
    ASSUME Inv, NEW t \in Tasks, CancelTask(t)
    PROVE  Kept(store, store')
<1> DEFINE dropped == {a \in AttemptRefs : Open(store, a)
                          /\ \E m \in ToCancel(t) : store.messages[m].attempt = a}
           F == [a \in AttemptRefs |->
                   IF a \in dropped THEN [store.attempts[a] EXCEPT !.state = "canceled"]
                   ELSE store.attempts[a]]
           G == [m \in MessageRefs |->
                   IF m \in ToCancel(t) THEN [store.messages[m] EXCEPT !.state = "canceled"]
                   ELSE store.messages[m]]
           S == WithAttempts(store, F)
<1>1. store \in Store /\ Sound(store)
  BY DEF Inv, TypeOK
<1>2. \A a \in dropped : Exists(store, a)
  BY DEF Open, Exists
<1>3. F \in [AttemptRefs -> Attempt]
  BY <1>1, StoreParts DEF Attempt, AttemptState
<1>4. \A a \in AttemptRefs : /\ F[a].msg = store.attempts[a].msg
                             /\ F[a].epoch = store.attempts[a].epoch
                             /\ F[a].state = "absent" <=> ~Exists(store, a)
  BY <1>1, <1>2, StoreParts DEF Exists, Attempt
<1>5. store' = WithMessages(S, G)
  BY <1>1 DEF CancelTask, WithMessages, WithAttempts, Store
<1> HIDE DEF F
<1>6. Kept(store, S)
  BY <1>1, <1>3, <1>4, AttemptsChange
<1>7. S.messages = store.messages
  BY <1>1 DEF WithAttempts, Store
<1> HIDE DEF S
<1>8. \A m \in MessageRefs : S.messages[m] \in Message /\ RecordSound(S, m, S.messages[m])
  BY <1>6, StoreParts DEF Kept, Sound
<1>9. ASSUME NEW m \in MessageRefs, m \in ToCancel(t)
      PROVE  /\ Saved(S, m) /\ G[m] \in Message /\ G[m].state # "absent"
             /\ RecordSound(S, m, G[m])
  <2>1. Saved(S, m)
    BY <1>7, <1>9 DEF ToCancel, OfTask, Saved
  <2>2. S \in Store /\ "canceled" \in MessageState
    BY <1>6 DEF Kept, MessageState
  <2>3. G[m] = [S.messages[m] EXCEPT !.state = "canceled"]
    BY <1>7, <1>9
  <2> HIDE DEF G
  <2> QED BY <2>1, <2>2, <2>3, <1>8, StateChange
<1>10. G \in [MessageRefs -> Message]
  BY <1>1, <1>9, StoreParts
<1>11. \A m \in MessageRefs : \/ G[m] = S.messages[m]
                              \/ /\ Saved(S, m) /\ G[m].state # "absent"
                                 /\ RecordSound(S, m, G[m])
  BY <1>7, <1>9
<1> HIDE DEF G
<1>12. Kept(S, WithMessages(S, G))
  BY <1>6, <1>10, <1>11, MessagesChange DEF Kept
<1> QED BY <1>1, <1>5, <1>6, <1>12, KeptTransitive

\* A retried message waits again, with no attempt.
LEMMA RetryKept ==
    ASSUME Inv, NEW t \in Tasks, RetryTask(t)
    PROVE  Kept(store, store')
<1> DEFINE new(m) == [store.messages[m] EXCEPT !.state = "available", !.attempt = NoAttempt]
           G == [m \in MessageRefs |-> IF m \in ToRetry(t) THEN new(m) ELSE store.messages[m]]
<1>1. store \in Store /\ Sound(store)
  BY DEF Inv, TypeOK
<1>2. store' = WithMessages(store, G)
  BY DEF RetryTask, WithMessages
<1>3. ASSUME NEW m \in MessageRefs
      PROVE  /\ new(m) \in Message /\ new(m).state = "available"
             /\ new(m).attempt = NoAttempt /\ new(m).redelivery = store.messages[m].redelivery
  <2> DEFINE old == store.messages[m]
  <2>1. old \in Message
    BY <1>1, StoreParts
  <2>2. new(m) = [old EXCEPT !.state = "available", !.attempt = NoAttempt]
    OBVIOUS
  <2>3. old.redelivery = store.messages[m].redelivery
    OBVIOUS
  <2> HIDE DEF old, new
  <2> QED BY <2>1, <2>2, <2>3 DEF Message, MessageState
<1>4. ASSUME NEW m \in MessageRefs PROVE RecordSound(store, m, new(m))
  <2>1. store.messages[m].redelivery <= MaxRedelivery
    BY <1>1 DEF Sound, RecordSound, RecordLinked
  <2> HIDE DEF new
  <2> QED BY <2>1, <1>3
          DEF RecordSound, RecordLinked, RecordStateBacked, RecordCompletionBacked
<1> HIDE DEF new
<1>5. G \in [MessageRefs -> Message]
  BY <1>1, <1>3, StoreParts
<1>6. \A m \in MessageRefs : \/ G[m] = store.messages[m]
                             \/ /\ Saved(store, m) /\ G[m].state # "absent"
                                /\ RecordSound(store, m, G[m])
  BY <1>3, <1>4 DEF ToRetry, OfTask
<1> HIDE DEF G
<1> QED BY <1>1, <1>2, <1>5, <1>6, MessagesChange

\* A dead letter's message was saved, so its request can be sent again.
LEMMA ReplayKept ==
    ASSUME Inv, NEW d \in store.deadLetters, NEW m \in MessageRefs,
           ReplayDeadLetter(d, m)
    PROVE  Kept(store, store')
<1>1. d.msg \in MessageRefs
  BY StoreParts DEF Inv, TypeOK, DeadLetter
<1>2. store.requests[d.msg] \in Request
  BY <1>1 DEF Inv, Sound
<1> QED BY <1>2, IngressKept DEF ReplayDeadLetter

-----------------------------------------------------------------------------
(* The inductive invariant.                                                *)

\* The empty ledger is sound.
LEMMA InitInv == Init => Inv
<1> SUFFICES ASSUME Init PROVE Inv
  OBVIOUS
<1>1. Expired \in Countdown(HeartbeatTicks) /\ Expired \in Countdown(LeaseTicks)
  <2>1. HeartbeatTicks \in Nat /\ LeaseTicks \in Nat
    BY RegistryAssumption, StoreAssumption
  <2> QED BY <2>1 DEF Countdown, Expired
<1>2. RegistryTypeOK
  <2>1. Unregistered \in Endpoint
    BY <1>1 DEF Unregistered, Endpoint
  <2> QED BY <2>1 DEF Init, RegistryInit, RegistryTypeOK
<1>3. store \in Store
  <2>1. AbsentMessage \in Message
    BY DEF AbsentMessage, Message
  <2>2. AbsentAttempt \in Attempt
    BY <1>1 DEF AbsentAttempt, Attempt
  <2>3. [count |-> 0, reported |-> {}] \in Checkpoints
    BY DEF Checkpoints
  <2> QED BY <2>1, <2>2, <2>3 DEF Init, EmptyStore, Store
<1>4. Sound(store)
  <2>1. \A m \in MessageRefs : store.messages[m] = AbsentMessage
    BY DEF Init, EmptyStore
  <2>2. \A a \in AttemptRefs : store.attempts[a] = AbsentAttempt
    BY DEF Init, EmptyStore
  <2>3. store.deadLetters = {}
    BY DEF Init, EmptyStore
  <2>4. \A m \in MessageRefs : RecordSound(store, m, AbsentMessage)
    BY StoreAssumption
       DEF RecordSound, RecordLinked, RecordStateBacked, RecordCompletionBacked, AbsentMessage
  <2>5. \A a \in AttemptRefs : AttemptFounded(store, a)
    BY <2>2 DEF AttemptFounded, Exists, AbsentAttempt
  <2>6. \A m \in MessageRefs : ~Saved(store, m)
    BY <2>1 DEF Saved, AbsentMessage
  <2> QED BY <2>1, <2>3, <2>4, <2>5, <2>6 DEF Sound
<1> QED BY <1>2, <1>3, <1>4 DEF Inv, TypeOK

\* No action of the ledger undoes anything Sound rests on.
LEMMA StoreNext ==
    ASSUME Inv, [Next]_vars
    PROVE  Kept(store, store')
<1>1. store \in Store /\ Sound(store)
  BY DEF Inv, TypeOK
<1>2. CASE UNCHANGED store
  BY <1>1, <1>2 DEF Kept, Grows
<1>3. ASSUME NEW m \in MessageRefs, NEW r \in Requests, IngressMessage(m, r)
      PROVE  Kept(store, store')
  BY <1>3, IngressKept, HandoffAssumption
<1>4. CASE WorkerNext
  <2>1. ASSUME NEW e \in Endpoints, NEW m \in MessageRefs, NEW a \in AttemptRefs,
               ClaimMessage(e, m, a) \/ ClaimNextMessage(e, m, a)
        PROVE  Kept(store, store')
    BY <2>1, ClaimKept, ClaimNextMessageKept
  <2>2. ASSUME NEW e \in Endpoints, ClaimNothing(e)
        PROVE  Kept(store, store')
    BY <1>1, <2>2, ReconcileKept DEF ClaimNothing
  <2>3. ASSUME NEW a \in AttemptRefs, NEW report \in Reports, SubmitCheckpoint(a, report)
        PROVE  Kept(store, store')
    <3>1. Exists(store, a)
      BY <2>3 DEF SubmitCheckpoint, Live, Open, Exists
    <3>2. report \in CheckpointState
      BY HandoffAssumption
    <3> QED BY <1>1, <2>3, <3>1, <3>2, CheckpointStoreKept DEF SubmitCheckpoint
  <2>4. ASSUME NEW a \in AttemptRefs, RefreshLease(a)
        PROVE  Kept(store, store')
    BY <2>4, RefreshKept
  <2>5. ASSUME NEW a \in AttemptRefs, NEW follow \in FollowUps, CompleteAttempt(a, follow)
        PROVE  Kept(store, store')
    BY <2>5, CompleteKept
  <2> QED BY <1>4, <2>1, <2>2, <2>3, <2>4, <2>5 DEF WorkerNext
<1>5. CASE OperatorNext
  BY <1>5, CancelKept, RetryKept, ReplayKept DEF OperatorNext
<1>6. CASE ReconcileExpiredClaims
  BY <1>1, <1>6, ReconcileKept DEF ReconcileExpiredClaims
<1>7. CASE Tick
  BY <1>1, <1>7, TickKept DEF Tick
<1> QED BY <1>2, <1>3, <1>4, <1>5, <1>6, <1>7 DEF Next, vars

\* The registry changes by its own actions and by time alone.
LEMMA RegistryKept ==
    ASSUME Inv, [Next]_vars
    PROVE  RegistryTypeOK'
<1>1. RegistryNext \/ RegistryTick \/ UNCHANGED endpoints
  BY DEF Next, vars, WorkerNext, OperatorNext, IngressMessage, ClaimMessage,
         ClaimNextMessage, ClaimNothing, SubmitCheckpoint, RefreshLease,
         CompleteAttempt, CancelTask, RetryTask, ReplayDeadLetter,
         ReconcileExpiredClaims, Tick
<1> QED BY <1>1, RegistryTyped DEF Inv, TypeOK

\* Types and soundness together are inductive.
LEMMA NextInv == Inv /\ [Next]_vars => Inv'
BY StoreNext, RegistryKept DEF Inv, TypeOK, Kept

\* Every reachable state of the handoff protocol is well typed and its ledger
\* sound, for any endpoints, messages, attempts and limits.
THEOREM SoundLedger == Spec => []Inv
<1> QED BY InitInv, NextInv, PTL DEF Spec

-----------------------------------------------------------------------------
(* The safety properties of Handoff, each a part of Inv.                   *)

\* No handler leaves a value of the wrong kind in the ledger or the registry.
THEOREM TypesHold == Spec => []TypeOK
<1>1. Inv => TypeOK
  BY DEF Inv
<1> QED BY <1>1, SoundLedger, PTL

\* Claims, takeovers, retries and cancels keep a message and its attempt in
\* step, and no message is redelivered more often than the limit.
THEOREM LinkHolds == Spec => []CurrentAttemptLink
<1>1. Inv => CurrentAttemptLink
  BY DEF Inv, Sound, RecordSound, CurrentAttemptLink
<1> QED BY <1>1, SoundLedger, PTL

\* Every message in state claimed or takeover_candidate has its attempt, and
\* every dead-lettered one its dead letter.
THEOREM StatesAreBacked == Spec => []StateIsBacked
<1>1. Inv => StateIsBacked
  BY DEF Inv, Sound, RecordSound, StateIsBacked
<1> QED BY <1>1, SoundLedger, PTL

\* No completed message without a checkpoint that reported completed.
THEOREM EvidenceHolds == Spec => []CompletedHasEvidence
<1>1. Inv => CompletedHasEvidence
  BY DEF Inv, Sound, RecordSound, CompletedHasEvidence
<1> QED BY <1>1, SoundLedger, PTL

\* No message was ever claimed before its dependencies had completed.
THEOREM DependenciesHold == Spec => []DependenciesCameFirst
<1>1. Inv => DependenciesCameFirst
  BY DEF Inv, Sound, AttemptFounded, DependenciesCameFirst
<1> QED BY <1>1, SoundLedger, PTL

-----------------------------------------------------------------------------
(***************************************************************************)
(* Who owns a message: what Handoff promises of an attempt that lost its   *)
(* message, and, where nobody retries, of the one attempt that has it.     *)
(*                                                                         *)
(* Sound, shown of every ledger above, says nothing of leases and open     *)
(* attempts.  Fenced adds that an orphaned attempt is past its lease and   *)
(* that the messages and dead letters that need one have an orphaned       *)
(* attempt; Owned, that an open attempt is the current one of a message    *)
(* that is worked on.  Each is inductive together with what precedes it.   *)
(* The step relations ClosedKept and CompletedKept carry the action        *)
(* properties.                                                             *)
(***************************************************************************)

Fenced(S) ==
    /\ \A a \in AttemptRefs :
          S.attempts[a].state = "orphaned" => S.attempts[a].lease = Expired
    /\ \A m \in MessageRefs :
          S.messages[m].state \in {"takeover_candidate", "dead_lettered"} =>
              S.attempts[S.messages[m].attempt].state = "orphaned"
    /\ \A d \in S.deadLetters :
          /\ S.attempts[d.attempt].state = "orphaned"
          /\ d.checkpoint = S.checkpoints[d.attempt].count

\* The states of a message that some attempt may be working on.
Working == {"claimed", "processing", "input_required"}

Owned(S) ==
    /\ \A a \in AttemptRefs :
          Open(S, a) => /\ S.messages[S.attempts[a].msg].attempt = a
                        /\ S.messages[S.attempts[a].msg].state \in Working
    /\ \A a \in AttemptRefs :
          S.attempts[a].state = "completed" =>
              S.messages[S.attempts[a].msg].state = "completed"
    /\ \A m \in MessageRefs :
          ~HasCurrentAttempt(S, m) => S.messages[m].redelivery = 0

\* A closed attempt is done with: it stays closed, and orphaned if it was; its
\* lease is never extended and it gets no more checkpoints.
ClosedKept(S, T) ==
    \A a \in AttemptRefs :
        Exists(S, a) /\ ~Open(S, a) =>
            /\ Exists(T, a) /\ ~Open(T, a)
            /\ S.attempts[a].state = "orphaned" => T.attempts[a].state = "orphaned"
            /\ T.attempts[a].lease <= S.attempts[a].lease
            /\ T.checkpoints[a] = S.checkpoints[a]

\* What is completed stays as it is.
CompletedKept(S, T) ==
    /\ \A m \in MessageRefs :
          S.messages[m].state = "completed" => T.messages[m] = S.messages[m]
    /\ \A a \in AttemptRefs :
          S.attempts[a].state = "completed" => T.attempts[a].state = "completed"

-----------------------------------------------------------------------------
(* Fencing: the operations of the store.                                   *)

Guarded(S, T) == Fenced(T) /\ ClosedKept(S, T)

\* A ledger that leaves closed attempts alone stays fenced, if what is new in
\* it is.
LEMMA FenceStays ==
    ASSUME NEW S \in Store, NEW T \in Store, Sound(S), Fenced(S), ClosedKept(S, T),
           \A a \in AttemptRefs :
               T.attempts[a].state = "orphaned" =>
                   S.attempts[a].state = "orphaned" \/ T.attempts[a].lease = Expired,
           \A m \in MessageRefs :
               T.messages[m].state \in {"takeover_candidate", "dead_lettered"} =>
                   \/ T.messages[m] = S.messages[m]
                   \/ T.attempts[T.messages[m].attempt].state = "orphaned",
           \A d \in T.deadLetters :
               \/ d \in S.deadLetters
               \/ /\ T.attempts[d.attempt].state = "orphaned"
                  /\ d.checkpoint = T.checkpoints[d.attempt].count
    PROVE  Fenced(T)
<1>1. ASSUME NEW a \in AttemptRefs, S.attempts[a].state = "orphaned"
      PROVE  /\ T.attempts[a].state = "orphaned" /\ T.attempts[a].lease = Expired
             /\ T.checkpoints[a] = S.checkpoints[a]
  <2>1. Exists(S, a) /\ ~Open(S, a)
    BY <1>1 DEF Exists, Open, ClosedState
  <2>2. /\ T.attempts[a].state = "orphaned" /\ T.checkpoints[a] = S.checkpoints[a]
        /\ T.attempts[a].lease <= S.attempts[a].lease
    BY <1>1, <2>1 DEF ClosedKept
  <2>3. S.attempts[a].lease = Expired
    BY <1>1 DEF Fenced
  <2>4. T.attempts[a].lease \in Countdown(LeaseTicks)
    BY StoreParts DEF Attempt
  <2>5. T.attempts[a].lease = Expired
    BY <2>2, <2>3, <2>4, StoreAssumption DEF Countdown, Expired
  <2> QED BY <2>2, <2>5
<1>2. ASSUME NEW m \in MessageRefs,
             T.messages[m].state \in {"takeover_candidate", "dead_lettered"}
      PROVE  T.attempts[T.messages[m].attempt].state = "orphaned"
  <2>1. CASE T.messages[m] = S.messages[m]
    <3>1. S.attempts[S.messages[m].attempt].state = "orphaned"
      BY <1>2, <2>1 DEF Fenced
    <3>2. S.messages[m].attempt \in AttemptRefs
      BY <1>2, <2>1, StoreParts
         DEF Sound, RecordSound, RecordStateBacked, DeadLettered, Message, DeadLetter
    <3> QED BY <2>1, <3>1, <3>2, <1>1
  <2> QED BY <1>2, <2>1
<1>3. ASSUME NEW d \in S.deadLetters
      PROVE  /\ T.attempts[d.attempt].state = "orphaned"
             /\ d.checkpoint = T.checkpoints[d.attempt].count
  <2>1. d.attempt \in AttemptRefs
    BY StoreParts DEF DeadLetter
  <2> QED BY <2>1, <1>1 DEF Fenced
<1>4. \A a \in AttemptRefs :
          T.attempts[a].state = "orphaned" => T.attempts[a].lease = Expired
  BY <1>1
<1> QED BY <1>2, <1>3, <1>4 DEF Fenced

\* What is guarded in two operations is guarded in both together.
LEMMA ClosedTransitive ==
    ASSUME NEW S \in Store, NEW T \in Store, NEW U \in Store,
           ClosedKept(S, T), ClosedKept(T, U)
    PROVE  ClosedKept(S, U)
<1> SUFFICES ASSUME NEW a \in AttemptRefs, Exists(S, a), ~Open(S, a)
             PROVE  /\ Exists(U, a) /\ ~Open(U, a)
                    /\ S.attempts[a].state = "orphaned" => U.attempts[a].state = "orphaned"
                    /\ U.attempts[a].lease <= S.attempts[a].lease
                    /\ U.checkpoints[a] = S.checkpoints[a]
  BY DEF ClosedKept
<1>1. /\ Exists(T, a) /\ ~Open(T, a)
      /\ S.attempts[a].state = "orphaned" => T.attempts[a].state = "orphaned"
      /\ T.attempts[a].lease <= S.attempts[a].lease
      /\ T.checkpoints[a] = S.checkpoints[a]
  BY DEF ClosedKept
<1>2. /\ Exists(U, a) /\ ~Open(U, a)
      /\ T.attempts[a].state = "orphaned" => U.attempts[a].state = "orphaned"
      /\ U.attempts[a].lease <= T.attempts[a].lease
      /\ U.checkpoints[a] = T.checkpoints[a]
  BY <1>1 DEF ClosedKept
<1>3. /\ S.attempts[a].lease \in Int /\ T.attempts[a].lease \in Int
      /\ U.attempts[a].lease \in Int
  <2>1. Countdown(LeaseTicks) \subseteq Int
    BY StoreAssumption DEF Countdown, Expired
  <2> QED BY <2>1, StoreParts DEF Attempt
<1> QED BY <1>1, <1>2, <1>3

\* Nothing else is needed where attempts, checkpoints and dead letters are as
\* they were, and no message went to a state that wants an orphan.
LEMMA MessagesGuarded ==
    ASSUME NEW S \in Store, NEW T \in Store, Sound(S), Fenced(S),
           T.attempts = S.attempts, T.checkpoints = S.checkpoints,
           T.deadLetters = S.deadLetters,
           \A m \in MessageRefs :
               \/ T.messages[m].state \notin {"takeover_candidate", "dead_lettered"}
               \/ T.messages[m] = S.messages[m]
    PROVE  Guarded(S, T)
<1>1. \A a \in AttemptRefs : S.attempts[a].lease <= S.attempts[a].lease
  <2>1. Countdown(LeaseTicks) \subseteq Int
    BY StoreAssumption DEF Countdown, Expired
  <2> QED BY <2>1, StoreParts DEF Attempt
<1>2. ClosedKept(S, T)
  BY <1>1 DEF ClosedKept, Exists, Open
<1> QED BY <1>2, FenceStays DEF Guarded

\* A claim writes an attempt and a message of the kinds the ledger holds.
LEMMA ClaimAtTyped ==
    ASSUME NEW S \in Store, NEW m \in MessageRefs, NEW e \in Endpoints,
           NEW a \in AttemptRefs, NEW n \in Nat
    PROVE  ClaimAt(S, m, e, a, n) \in Store
<1> DEFINE att == [state |-> "claimed", msg |-> m, ep |-> e, lease |-> LeaseTicks,
                   rev |-> 1, epoch |-> n + 1]
           rec == [state |-> "claimed", attempt |-> a, redelivery |-> n]
<1>1. att \in Attempt
  BY StoreAssumption DEF Attempt, AttemptState, Countdown, Expired
<1>2. rec \in Message
  BY DEF Message, MessageState
<1> QED BY <1>1, <1>2, StoreParts DEF ClaimAt, Store

\* A granted attempt is one that never existed.
LEMMA ClaimAtGuarded ==
    ASSUME NEW S \in Store, Sound(S), Fenced(S),
           NEW m \in MessageRefs, NEW e \in Endpoints, NEW a \in AttemptRefs,
           ~Exists(S, a), NEW n \in Nat
    PROVE  Guarded(S, ClaimAt(S, m, e, a, n))
<1> DEFINE T == ClaimAt(S, m, e, a, n)
<1>1. /\ T.attempts = [S.attempts EXCEPT ![a] =
            [state |-> "claimed", msg |-> m, ep |-> e, lease |-> LeaseTicks,
             rev |-> 1, epoch |-> n + 1]]
      /\ T.messages = [S.messages EXCEPT ![m] =
            [state |-> "claimed", attempt |-> a, redelivery |-> n]]
      /\ T.checkpoints = S.checkpoints /\ T.deadLetters = S.deadLetters
  BY DEF ClaimAt, Store
<1>2. T.attempts[a].state = "claimed" /\ T.messages[m].state = "claimed"
  BY <1>1, StoreParts
<1>3. \A b \in AttemptRefs : b # a => T.attempts[b] = S.attempts[b]
  BY <1>1, StoreParts
<1>4. \A k \in MessageRefs : k # m => T.messages[k] = S.messages[k]
  BY <1>1, StoreParts
<1>5. T \in Store /\ T.checkpoints = S.checkpoints /\ T.deadLetters = S.deadLetters
  BY <1>1, ClaimAtTyped
<1> HIDE DEF T
<1>6. \A b \in AttemptRefs : S.attempts[b].lease <= S.attempts[b].lease
  <2>1. Countdown(LeaseTicks) \subseteq Int
    BY StoreAssumption DEF Countdown, Expired
  <2> QED BY <2>1, StoreParts DEF Attempt
<1>7. ClosedKept(S, T)
  BY <1>3, <1>5, <1>6 DEF ClosedKept, Exists, Open
<1>8. Fenced(T)
  <2>1. \A b \in AttemptRefs :
          T.attempts[b].state = "orphaned" => S.attempts[b].state = "orphaned"
    BY <1>2, <1>3
  <2>2. \A k \in MessageRefs :
          T.messages[k].state \in {"takeover_candidate", "dead_lettered"} =>
              T.messages[k] = S.messages[k]
    BY <1>2, <1>4
  <2> QED BY <2>1, <2>2, <1>5, <1>7, FenceStays
<1> QED BY <1>7, <1>8 DEF Guarded, T

\* Attempts may change while they are open, and be orphaned past their lease.
LEMMA AttemptsGuarded ==
    ASSUME NEW S \in Store, NEW T \in Store, T.checkpoints = S.checkpoints,
           \A a \in AttemptRefs :
               \/ T.attempts[a] = S.attempts[a]
               \/ Open(S, a) /\ T.attempts[a].state # "orphaned"
               \/ /\ Exists(S, a) /\ S.attempts[a].lease = Expired
                  /\ T.attempts[a].state = "orphaned" /\ T.attempts[a].lease = Expired
    PROVE  /\ ClosedKept(S, T)
           /\ \A a \in AttemptRefs :
                 T.attempts[a].state = "orphaned" =>
                     S.attempts[a].state = "orphaned" \/ T.attempts[a].lease = Expired
<1>1. \A a \in AttemptRefs : S.attempts[a].lease <= S.attempts[a].lease
  <2>1. Countdown(LeaseTicks) \subseteq Int
    BY StoreAssumption DEF Countdown, Expired
  <2> QED BY <2>1, StoreParts DEF Attempt
<1>2. ASSUME NEW a \in AttemptRefs, Exists(S, a), ~Open(S, a)
      PROVE  /\ Exists(T, a) /\ ~Open(T, a)
             /\ S.attempts[a].state = "orphaned" => T.attempts[a].state = "orphaned"
             /\ T.attempts[a].lease <= S.attempts[a].lease
  <2>1. CASE T.attempts[a] = S.attempts[a]
    BY <1>1, <1>2, <2>1 DEF Exists, Open
  <2>2. CASE /\ S.attempts[a].lease = Expired
             /\ T.attempts[a].state = "orphaned" /\ T.attempts[a].lease = Expired
    BY <1>1, <2>2 DEF Exists, Open, ClosedState
  <2> QED BY <1>2, <2>1, <2>2
<1> QED BY <1>2 DEF ClosedKept

\* A dead letter closes the ledger over an attempt past its lease.
LEMMA DeadLetterGuarded ==
    ASSUME NEW S \in Store, Sound(S), Fenced(S), NEW m \in MessageRefs,
           HasCurrentAttempt(S, m), S.attempts[S.messages[m].attempt].lease = Expired,
           DeadLetterMessage(S, m) \in Store
    PROVE  Guarded(S, DeadLetterMessage(S, m))
<1> DEFINE T == DeadLetterMessage(S, m)
           cur == S.messages[m].attempt
           letter == [msg |-> m, attempt |-> cur, redelivery |-> S.messages[m].redelivery,
                      checkpoint |-> S.checkpoints[cur].count]
<1>1. cur \in AttemptRefs /\ Exists(S, cur)
  BY CurrentExists
<1>2. /\ T.attempts = [S.attempts EXCEPT ![cur] = [S.attempts[cur] EXCEPT !.state = "orphaned"]]
      /\ T.messages = [S.messages EXCEPT ![m] = [S.messages[m] EXCEPT !.state = "dead_lettered"]]
      /\ T.checkpoints = S.checkpoints /\ T.deadLetters = S.deadLetters \cup {letter}
  BY DEF DeadLetterMessage, Store
<1>3. T.attempts[cur].state = "orphaned" /\ T.attempts[cur].lease = Expired
  BY <1>1, <1>2, StoreParts DEF Attempt
<1>4. T.messages[m].attempt = cur
  BY <1>2, StoreParts DEF Message
<1>5. \A a \in AttemptRefs : a # cur => T.attempts[a] = S.attempts[a]
  BY <1>2, StoreParts
<1>6. \A k \in MessageRefs : k # m => T.messages[k] = S.messages[k]
  BY <1>2, StoreParts
<1>7. /\ T \in Store /\ T.checkpoints = S.checkpoints
      /\ \A d \in T.deadLetters : d \in S.deadLetters \/ d = letter
  BY <1>2
<1>8. letter.attempt = cur /\ letter.checkpoint = S.checkpoints[cur].count
  OBVIOUS
<1> HIDE DEF T, letter, cur
<1>9. S.attempts[cur].lease = Expired
  BY DEF cur
<1>10. /\ ClosedKept(S, T)
       /\ \A a \in AttemptRefs :
             T.attempts[a].state = "orphaned" =>
                 S.attempts[a].state = "orphaned" \/ T.attempts[a].lease = Expired
  BY <1>1, <1>3, <1>5, <1>7, <1>9, AttemptsGuarded
<1>11. \A k \in MessageRefs :
          \/ T.messages[k] = S.messages[k]
          \/ T.attempts[T.messages[k].attempt].state = "orphaned"
  BY <1>3, <1>4, <1>6
<1>12. \A d \in T.deadLetters :
          \/ d \in S.deadLetters
          \/ /\ T.attempts[d.attempt].state = "orphaned"
             /\ d.checkpoint = T.checkpoints[d.attempt].count
  BY <1>3, <1>7, <1>8
<1>13. Fenced(T)
  BY <1>7, <1>10, <1>11, <1>12, FenceStays
<1> QED BY <1>10, <1>13 DEF Guarded, T

\* The owner of an expired claim is orphaned before another takes over.
LEMMA OrphanCurrentGuarded ==
    ASSUME NEW S \in Store, Sound(S), Fenced(S), NEW m \in MessageRefs, LeaseRanOut(S, m)
    PROVE  Guarded(S, OrphanCurrent(S, m))
<1> DEFINE T == OrphanCurrent(S, m)
           cur == S.messages[m].attempt
<1>1. cur \in AttemptRefs /\ Exists(S, cur) /\ S.attempts[cur].lease = Expired
  BY CurrentExists DEF LeaseRanOut
<1>2. T \in Store
  BY OrphanCurrentKept DEF LeaseRanOut, Kept
<1>3. /\ T.attempts = [S.attempts EXCEPT ![cur] = [S.attempts[cur] EXCEPT !.state = "orphaned"]]
      /\ T.messages = S.messages
      /\ T.checkpoints = S.checkpoints /\ T.deadLetters = S.deadLetters
  BY DEF OrphanCurrent, Store
<1>4. T.attempts[cur].state = "orphaned" /\ T.attempts[cur].lease = Expired
  BY <1>1, <1>3, StoreParts DEF Attempt
<1>5. \A a \in AttemptRefs : a # cur => T.attempts[a] = S.attempts[a]
  BY <1>3, StoreParts
<1> HIDE DEF T, cur
<1>6. /\ ClosedKept(S, T)
      /\ \A a \in AttemptRefs :
            T.attempts[a].state = "orphaned" =>
                S.attempts[a].state = "orphaned" \/ T.attempts[a].lease = Expired
  BY <1>1, <1>2, <1>3, <1>4, <1>5, AttemptsGuarded
<1>7. Fenced(T)
  BY <1>2, <1>3, <1>6, FenceStays
<1> QED BY <1>6, <1>7 DEF Guarded, T

\* Reconciling orphans exactly the owners of what it puts up for takeover.
LEMMA ReconcileGuarded ==
    ASSUME NEW S \in Store, Sound(S), Fenced(S)
    PROVE  Guarded(S, ReconcileStore(S))
<1> DEFINE T == ReconcileStore(S)
           expired == {m \in MessageRefs : LeaseRanOut(S, m)}
           owners == {S.messages[m].attempt : m \in expired}
<1>1. T \in Store
  BY ReconcileKept DEF Kept
<1>2. /\ T.attempts = [a \in AttemptRefs |->
            IF a \in owners THEN [S.attempts[a] EXCEPT !.state = "orphaned"] ELSE S.attempts[a]]
      /\ T.messages = [m \in MessageRefs |->
            IF m \in expired THEN [S.messages[m] EXCEPT !.state = "takeover_candidate"]
            ELSE S.messages[m]]
      /\ T.checkpoints = S.checkpoints /\ T.deadLetters = S.deadLetters
  BY DEF ReconcileStore, Store
<1>3. ASSUME NEW a \in owners
      PROVE  a \in AttemptRefs /\ Exists(S, a) /\ S.attempts[a].lease = Expired
  BY CurrentExists DEF LeaseRanOut
<1>4. ASSUME NEW a \in owners
      PROVE  T.attempts[a].state = "orphaned" /\ T.attempts[a].lease = Expired
  BY <1>2, <1>3, StoreParts DEF Attempt
<1>5. \A a \in AttemptRefs : a \notin owners => T.attempts[a] = S.attempts[a]
  BY <1>2
<1>6. ASSUME NEW m \in MessageRefs, m \in expired
      PROVE  T.messages[m].attempt \in owners
  BY <1>2, <1>6, StoreParts DEF Message
<1>7. \A m \in MessageRefs : m \notin expired => T.messages[m] = S.messages[m]
  BY <1>2
<1>8. T.checkpoints = S.checkpoints /\ T.deadLetters = S.deadLetters
  BY <1>2
<1> HIDE DEF T, owners, expired
<1>9. /\ ClosedKept(S, T)
      /\ \A a \in AttemptRefs :
            T.attempts[a].state = "orphaned" =>
                S.attempts[a].state = "orphaned" \/ T.attempts[a].lease = Expired
  BY <1>1, <1>3, <1>4, <1>5, <1>8, AttemptsGuarded
<1>10. Fenced(T)
  BY <1>1, <1>4, <1>6, <1>7, <1>8, <1>9, FenceStays
<1> QED BY <1>9, <1>10 DEF Guarded, T

\* Time only takes from a lease.
LEMMA TickGuarded ==
    ASSUME NEW S \in Store, Sound(S), Fenced(S)
    PROVE  Guarded(S, TickStore(S))
<1> DEFINE T == TickStore(S)
<1>1. T \in Store
  BY TickKept DEF Kept
<1>2. /\ T.attempts = [a \in AttemptRefs |->
            [S.attempts[a] EXCEPT !.lease = Elapse(S.attempts[a].lease)]]
      /\ T.messages = S.messages /\ T.checkpoints = S.checkpoints
      /\ T.deadLetters = S.deadLetters
  BY DEF TickStore, Store
<1>3. ASSUME NEW a \in AttemptRefs
      PROVE  /\ T.attempts[a].state = S.attempts[a].state
             /\ T.attempts[a].lease = Elapse(S.attempts[a].lease)
  BY <1>2, StoreParts DEF Attempt
<1>4. ASSUME NEW l \in Countdown(LeaseTicks)
      PROVE  Elapse(l) <= l /\ (l = Expired => Elapse(l) = Expired)
  BY StoreAssumption DEF Countdown, Elapse, Expired
<1>5. \A a \in AttemptRefs : S.attempts[a].lease \in Countdown(LeaseTicks)
  BY StoreParts DEF Attempt
<1> HIDE DEF T
<1>6. ClosedKept(S, T)
  BY <1>2, <1>3, <1>4, <1>5 DEF ClosedKept, Exists, Open
<1>7. Fenced(T)
  BY <1>1, <1>2, <1>3, <1>6, FenceStays
<1> QED BY <1>6, <1>7 DEF Guarded, T

\* An open attempt may be written back in any state but orphaned.
LEMMA UpdateAttemptGuarded ==
    ASSUME NEW S \in Store, Sound(S), Fenced(S), NEW a \in AttemptRefs, Open(S, a),
           NEW att \in Attempt, att.state # "orphaned"
    PROVE  Guarded(S, UpdateAttempt(S, a, att))
<1> DEFINE T == UpdateAttempt(S, a, att)
<1>1. /\ T \in Store
      /\ T.attempts = [S.attempts EXCEPT ![a] = att]
      /\ T.messages = S.messages /\ T.checkpoints = S.checkpoints
      /\ T.deadLetters = S.deadLetters
  BY StoreParts DEF UpdateAttempt, Store
<1>2. \A b \in AttemptRefs : \/ T.attempts[b] = S.attempts[b]
                             \/ Open(S, b) /\ T.attempts[b].state # "orphaned"
  BY <1>1, StoreParts
<1> HIDE DEF T
<1>3. /\ ClosedKept(S, T)
      /\ \A b \in AttemptRefs :
            T.attempts[b].state = "orphaned" =>
                S.attempts[b].state = "orphaned" \/ T.attempts[b].lease = Expired
  BY <1>1, <1>2, AttemptsGuarded
<1>4. Fenced(T)
  BY <1>1, <1>3, FenceStays
<1> QED BY <1>3, <1>4 DEF Guarded, T

\* Guarded in two operations, one after the other.
LEMMA GuardedTransitive ==
    ASSUME NEW S \in Store, NEW T \in Store, NEW U \in Store,
           Guarded(S, T), Guarded(T, U)
    PROVE  Guarded(S, U)
BY ClosedTransitive DEF Guarded

\* What a checkpoint writes, in parts that later lemmas use as well.
LEMMA CheckpointParts ==
    ASSUME NEW S \in Store, Sound(S), NEW a \in AttemptRefs, Exists(S, a),
           NEW s \in CheckpointState
    PROVE  LET T == CheckpointStore(S, a, s)
               m == S.attempts[a].msg
           IN  /\ T \in Store /\ m \in MessageRefs
               /\ T.attempts[a].state = s /\ T.attempts[a].msg = m
               /\ \A b \in AttemptRefs : b # a => T.attempts[b] = S.attempts[b]
               /\ T.messages[m].state = MessageStateAfter(s, S.messages[m].state)
               /\ T.messages[m].attempt = S.messages[m].attempt
               /\ T.messages[m].redelivery = S.messages[m].redelivery
               /\ \A n \in MessageRefs : n # m => T.messages[n] = S.messages[n]
               /\ T.requests = S.requests /\ T.deadLetters = S.deadLetters
               /\ \A b \in AttemptRefs : b # a => T.checkpoints[b] = S.checkpoints[b]
<1> DEFINE T == CheckpointStore(S, a, s)
           S1 == SaveCheckpoint(S, a, s)
           m == S.attempts[a].msg
           c == S1.checkpoints[a].count
           att == [S.attempts[a] EXCEPT !.state = s, !.rev = c]
           rec == [S.messages[m] EXCEPT !.state = MessageStateAfter(s, S.messages[m].state)]
<1>1. T \in Store
  BY CheckpointStoreKept DEF Kept
<1>2. m \in MessageRefs
  BY DEF Sound, AttemptFounded
<1>3. /\ T.attempts = [S.attempts EXCEPT ![a] = att]
      /\ T.messages = [S.messages EXCEPT ![m] = rec]
      /\ T.requests = S.requests /\ T.deadLetters = S.deadLetters
      /\ T.checkpoints = [S.checkpoints EXCEPT ![a] =
            [count |-> @.count + 1, reported |-> @.reported \cup {s}]]
  BY DEF CheckpointStore, SaveCheckpoint, UpdateAttempt, UpdateMessage, Store
<1>4. att.state = s /\ att.msg = m
  BY StoreParts DEF Attempt
<1>5. /\ rec.state = MessageStateAfter(s, S.messages[m].state)
      /\ rec.attempt = S.messages[m].attempt /\ rec.redelivery = S.messages[m].redelivery
  BY <1>2, StoreParts DEF Message
<1> HIDE DEF T, att, rec
<1>6. T.attempts[a] = att /\ \A b \in AttemptRefs : b # a => T.attempts[b] = S.attempts[b]
  BY <1>3, StoreParts
<1>7. T.messages[m] = rec /\ \A n \in MessageRefs : n # m => T.messages[n] = S.messages[n]
  BY <1>2, <1>3, StoreParts
<1>8. \A b \in AttemptRefs : b # a => T.checkpoints[b] = S.checkpoints[b]
  BY <1>3, StoreParts
<1> QED BY <1>1, <1>2, <1>3, <1>4, <1>5, <1>6, <1>7, <1>8 DEF T

\* A report of a live attempt makes no message wait for a takeover.
LEMMA CheckpointGuarded ==
    ASSUME NEW S \in Store, Sound(S), Fenced(S), NEW a \in AttemptRefs, Open(S, a),
           NEW s \in CheckpointState
    PROVE  Guarded(S, CheckpointStore(S, a, s))
<1> DEFINE T == CheckpointStore(S, a, s)
           m == S.attempts[a].msg
<1>1. Exists(S, a)
  BY DEF Open, Exists
<1>2. /\ T \in Store /\ m \in MessageRefs
      /\ T.attempts[a].state = s
      /\ \A b \in AttemptRefs : b # a => T.attempts[b] = S.attempts[b]
      /\ T.messages[m].state = MessageStateAfter(s, S.messages[m].state)
      /\ T.messages[m].attempt = S.messages[m].attempt
      /\ \A n \in MessageRefs : n # m => T.messages[n] = S.messages[n]
      /\ T.deadLetters = S.deadLetters
      /\ \A b \in AttemptRefs : b # a => T.checkpoints[b] = S.checkpoints[b]
  BY <1>1, CheckpointParts
<1> HIDE DEF T, m
<1>3. s # "orphaned"
  BY DEF CheckpointState
<1>4. \A b \in AttemptRefs : S.attempts[b].lease <= S.attempts[b].lease
  <2>1. Countdown(LeaseTicks) \subseteq Int
    BY StoreAssumption DEF Countdown, Expired
  <2> QED BY <2>1, StoreParts DEF Attempt
<1>5. ClosedKept(S, T)
  BY <1>2, <1>4 DEF ClosedKept, Exists, Open
<1>6. ASSUME NEW n \in MessageRefs,
             T.messages[n].state \in {"takeover_candidate", "dead_lettered"}
      PROVE  T.attempts[T.messages[n].attempt].state = "orphaned"
  <2>1. /\ S.messages[n].state = T.messages[n].state
        /\ S.messages[n].attempt = T.messages[n].attempt
    BY <1>2, <1>6 DEF MessageStateAfter
  <2>2. S.attempts[S.messages[n].attempt].state = "orphaned"
    BY <1>6, <2>1 DEF Fenced
  <2>3. S.messages[n].attempt \in AttemptRefs
    BY <1>6, <2>1, StoreParts
       DEF Sound, RecordSound, RecordStateBacked, DeadLettered, Message, DeadLetter
  <2> QED BY <1>2, <2>1, <2>2, <2>3 DEF Open, ClosedState
<1>7. Fenced(T)
  BY <1>2, <1>3, <1>5, <1>6, FenceStays
<1> QED BY <1>5, <1>7 DEF Guarded, T

\* A message up for takeover has an attempt past its lease.
LEMMA CandidateExpired ==
    ASSUME NEW S \in Store, Sound(S), Fenced(S), NEW m \in MessageRefs,
           IsTakeoverCandidate(S, m)
    PROVE  S.attempts[S.messages[m].attempt].lease = Expired
<1>1. S.messages[m].attempt \in AttemptRefs
  BY CurrentExists DEF IsTakeoverCandidate
<1> QED BY <1>1 DEF Fenced, IsTakeoverCandidate

\* A claim takes a message only from an owner that is fenced.
LEMMA ClaimMessageGuarded ==
    ASSUME NEW S \in Store, Sound(S), Fenced(S),
           NEW m \in MessageRefs, NEW e \in Endpoints, NEW a \in AttemptRefs,
           Grants(S, m) => ~Exists(S, a)
    PROVE  Guarded(S, ClaimMessageStore(S, m, e, a))
<1>1. /\ S.messages[m].redelivery \in Nat
      /\ S.messages[m].redelivery + 1 \in Nat
  BY StoreParts DEF Message
<1>2. Guarded(S, S)
  BY MessagesGuarded
<1>3. CASE S.messages[m].state = "available"
  BY <1>1, <1>3, ClaimAtGuarded DEF ClaimMessageStore, Grants, ClaimAvailableMessage
<1>4. CASE S.messages[m].state # "available" /\ ~(IsTakeoverCandidate(S, m) \/ LeaseRanOut(S, m))
  BY <1>2, <1>4 DEF ClaimMessageStore
<1>5. CASE /\ S.messages[m].state # "available"
           /\ IsTakeoverCandidate(S, m) \/ LeaseRanOut(S, m)
  <2>1. HasCurrentAttempt(S, m) /\ S.attempts[S.messages[m].attempt].lease = Expired
    BY <1>5, CandidateExpired DEF IsTakeoverCandidate, LeaseRanOut
  <2>2. CASE OutOfRedeliveries(S, m)
    <3>1. DeadLetterMessage(S, m) \in Store
      BY <2>1, <2>2, DeadLetterKept DEF Kept
    <3> QED BY <2>1, <2>2, <3>1, <1>5, DeadLetterGuarded DEF ClaimMessageStore
  <2>3. CASE ~OutOfRedeliveries(S, m) /\ IsTakeoverCandidate(S, m)
    BY <2>3, <1>1, <1>5, ClaimAtGuarded DEF ClaimMessageStore, Grants, TakeoverMessage
  <2>4. CASE ~OutOfRedeliveries(S, m) /\ ~IsTakeoverCandidate(S, m)
    <3> DEFINE T == OrphanCurrent(S, m)
               U == ClaimAt(T, m, e, a, T.messages[m].redelivery + 1)
    <3>1. /\ T \in Store /\ Sound(T) /\ T.messages = S.messages /\ ~Exists(T, a)
      BY <2>1, <2>4, <1>5, OrphanCurrentKept DEF Grants, Kept
    <3>2. Guarded(S, T)
      BY <2>4, <1>5, OrphanCurrentGuarded
    <3>3. ClaimMessageStore(S, m, e, a) = U
      BY <2>4, <1>5 DEF ClaimMessageStore, TakeoverMessage
    <3> HIDE DEF T
    <3>4. Fenced(T) /\ T.messages[m].redelivery + 1 \in Nat
      BY <3>1, <3>2, <1>1 DEF Guarded
    <3>5. Guarded(T, U) /\ U \in Store
      BY <3>1, <3>4, ClaimAtGuarded, ClaimAtTyped
    <3> QED BY <3>1, <3>2, <3>3, <3>5, GuardedTransitive
  <2> QED BY <2>2, <2>3, <2>4
<1> QED BY <1>3, <1>4, <1>5

\* So does the claim of the next eligible message.
LEMMA ClaimNextGuarded ==
    ASSUME NEW S \in Store, Sound(S), Fenced(S),
           NEW m \in MessageRefs, NEW e \in Endpoints, NEW a \in AttemptRefs,
           S.messages[m].state \in {"available", "takeover_candidate"},
           Grants(S, m) => ~Exists(S, a)
    PROVE  Guarded(S, ClaimNextStore(S, m, e, a))
<1>1. /\ S.messages[m].redelivery \in Nat
      /\ S.messages[m].redelivery + 1 \in Nat
  BY StoreParts DEF Message
<1>2. CASE S.messages[m].state = "available"
  BY <1>1, <1>2, ClaimAtGuarded DEF ClaimNextStore, Grants, ClaimAvailableMessage
<1>3. CASE S.messages[m].state = "takeover_candidate"
  <2>1. HasCurrentAttempt(S, m)
    BY <1>3, StoreParts DEF HasCurrentAttempt, Sound, RecordSound, RecordStateBacked
  <2>2. S.attempts[S.messages[m].attempt].lease = Expired
    BY <1>3, <2>1, CandidateExpired DEF IsTakeoverCandidate
  <2>3. CASE OutOfRedeliveries(S, m)
    <3>1. DeadLetterMessage(S, m) \in Store
      BY <2>1, <2>3, DeadLetterKept DEF Kept
    <3> QED BY <2>1, <2>2, <2>3, <3>1, <1>3, DeadLetterGuarded DEF ClaimNextStore
  <2>4. CASE ~OutOfRedeliveries(S, m)
    BY <2>1, <2>4, <1>1, <1>3, ClaimAtGuarded
       DEF ClaimNextStore, Grants, TakeoverMessage, IsTakeoverCandidate
  <2> QED BY <2>3, <2>4
<1> QED BY <1>2, <1>3

-----------------------------------------------------------------------------
(* Fencing: the actions.                                                   *)

\* A reconciled ledger, and a claim in it.
LEMMA ClaimNextMessageGuarded ==
    ASSUME Inv, Fenced(store), NEW e \in Endpoints, NEW m \in MessageRefs,
           NEW a \in AttemptRefs, ClaimNextMessage(e, m, a), store' \in Store
    PROVE  Guarded(store, store')
<1> DEFINE S == ReconcileStore(store)
<1>1. store \in Store /\ Sound(store)
  BY DEF Inv, TypeOK
<1>2. S \in Store /\ Sound(S) /\ Guarded(store, S)
  BY <1>1, ReconcileKept, ReconcileGuarded DEF Kept
<1>3. /\ NextFor(S, m, e) /\ store' = ClaimNextStore(S, m, e, a)
      /\ Grants(S, m) => ~Exists(S, a)
  BY DEF ClaimNextMessage
<1> HIDE DEF S
<1>4. S.messages[m].state \in {"available", "takeover_candidate"}
  BY <1>3 DEF NextFor, IsNext, IsFirst, Eligible
<1>5. Guarded(S, store')
  BY <1>2, <1>3, <1>4, ClaimNextGuarded DEF Guarded
<1> QED BY <1>1, <1>2, <1>5, GuardedTransitive

\* A completion closes its own attempt; what follows are new messages.
LEMMA CompleteGuarded ==
    ASSUME Inv, Fenced(store), NEW a \in AttemptRefs, NEW follow \in FollowUps,
           CompleteAttempt(a, follow), store' \in Store
    PROVE  Guarded(store, store')
<1> DEFINE S == CheckpointStore(store, a, "completed")
<1>1. store \in Store /\ Sound(store) /\ Open(store, a) /\ Exists(store, a)
  BY DEF Inv, TypeOK, CompleteAttempt, Live, Open, Exists
<1>2. "completed" \in CheckpointState
  BY DEF CheckpointState, AttemptState
<1>3. S \in Store /\ Sound(S) /\ Guarded(store, S)
  BY <1>1, <1>2, CheckpointGuarded, CheckpointStoreKept DEF Kept
<1>4. /\ store'.attempts = S.attempts /\ store'.checkpoints = S.checkpoints
      /\ store'.deadLetters = S.deadLetters
      /\ \A n \in MessageRefs :
            \/ store'.messages[n] = [AbsentMessage EXCEPT !.state = "available"]
            \/ store'.messages[n] = S.messages[n]
  BY <1>3 DEF CompleteAttempt, Store
<1>5. [AbsentMessage EXCEPT !.state = "available"].state = "available"
  BY DEF AbsentMessage
<1> HIDE DEF S
<1>6. Guarded(S, store')
  BY <1>3, <1>4, <1>5, MessagesGuarded DEF Guarded
<1> QED BY <1>1, <1>3, <1>6, GuardedTransitive

\* A cancel closes the open attempts of the messages it cancels.
LEMMA CancelGuarded ==
    ASSUME Inv, Fenced(store), NEW t \in Tasks, CancelTask(t), store' \in Store
    PROVE  Guarded(store, store')
<1>1. store \in Store /\ Sound(store)
  BY DEF Inv, TypeOK
<1> DEFINE dropped == {a \in AttemptRefs : Open(store, a)
                          /\ \E m \in ToCancel(t) : store.messages[m].attempt = a}
<1>2. /\ store'.checkpoints = store.checkpoints /\ store'.deadLetters = store.deadLetters
      /\ store'.attempts = [a \in AttemptRefs |->
            IF a \in dropped THEN [store.attempts[a] EXCEPT !.state = "canceled"]
            ELSE store.attempts[a]]
      /\ store'.messages = [m \in MessageRefs |->
            IF m \in ToCancel(t) THEN [store.messages[m] EXCEPT !.state = "canceled"]
            ELSE store.messages[m]]
  BY <1>1 DEF CancelTask, Store
<1>3. \A a \in AttemptRefs :
        \/ store'.attempts[a] = store.attempts[a]
        \/ Open(store, a) /\ store'.attempts[a].state # "orphaned"
  BY <1>1, <1>2, StoreParts DEF Attempt
<1>4. \A m \in MessageRefs :
        \/ store'.messages[m] = store.messages[m]
        \/ store'.messages[m].state = "canceled"
  BY <1>1, <1>2, StoreParts DEF Message
<1>5. /\ ClosedKept(store, store')
      /\ \A a \in AttemptRefs :
            store'.attempts[a].state = "orphaned" =>
                store.attempts[a].state = "orphaned" \/ store'.attempts[a].lease = Expired
  BY <1>1, <1>2, <1>3, AttemptsGuarded
<1>6. Fenced(store')
  BY <1>1, <1>2, <1>4, <1>5, FenceStays
<1> QED BY <1>5, <1>6 DEF Guarded

\* No action reopens, extends or adds to a closed attempt.
LEMMA GuardedNext ==
    ASSUME Inv, Fenced(store), [Next]_vars
    PROVE  Guarded(store, store')
<1>1. store \in Store /\ Sound(store) /\ store' \in Store
  BY StoreNext DEF Inv, TypeOK, Kept
<1>2. CASE UNCHANGED store
  BY <1>1, <1>2, MessagesGuarded
<1>3. ASSUME NEW m \in MessageRefs, NEW r \in Request, IngressMessage(m, r)
      PROVE  Guarded(store, store')
  <2>1. /\ store'.attempts = store.attempts /\ store'.checkpoints = store.checkpoints
        /\ store'.deadLetters = store.deadLetters
        /\ store'.messages =
              [store.messages EXCEPT ![m] = [AbsentMessage EXCEPT !.state = "available"]]
    BY <1>1, <1>3 DEF IngressMessage, SaveMessage, Store
  <2>2. \A n \in MessageRefs :
          \/ store'.messages[n].state = "available"
          \/ store'.messages[n] = store.messages[n]
    BY <1>1, <2>1, StoreParts DEF AbsentMessage
  <2> QED BY <1>1, <2>1, <2>2, MessagesGuarded
<1>4. CASE WorkerNext
  <2>1. ASSUME NEW e \in Endpoints, NEW m \in MessageRefs, NEW a \in AttemptRefs,
               ClaimMessage(e, m, a) \/ ClaimNextMessage(e, m, a)
        PROVE  Guarded(store, store')
    BY <1>1, <2>1, ClaimMessageGuarded, ClaimNextMessageGuarded DEF ClaimMessage
  <2>2. ASSUME NEW e \in Endpoints, ClaimNothing(e)
        PROVE  Guarded(store, store')
    BY <1>1, <2>2, ReconcileGuarded DEF ClaimNothing
  <2>3. ASSUME NEW a \in AttemptRefs, NEW report \in Reports, SubmitCheckpoint(a, report)
        PROVE  Guarded(store, store')
    <3>1. report \in CheckpointState
      BY HandoffAssumption
    <3> QED BY <1>1, <2>3, <3>1, CheckpointGuarded DEF SubmitCheckpoint, Live
  <2>4. ASSUME NEW a \in AttemptRefs, RefreshLease(a)
        PROVE  Guarded(store, store')
    <3> DEFINE att == [store.attempts[a] EXCEPT !.lease = LeaseTicks]
    <3>1. LeaseTicks \in Countdown(LeaseTicks)
      BY StoreAssumption DEF Countdown, Expired
    <3>2. att \in Attempt /\ att.state = store.attempts[a].state
      BY <1>1, <3>1, StoreParts DEF Attempt
    <3>3. Open(store, a) /\ store' = UpdateAttempt(store, a, att)
      BY <2>4 DEF RefreshLease, Live
    <3> HIDE DEF att
    <3>4. att.state # "orphaned"
      BY <3>2, <3>3 DEF Open, ClosedState
    <3> QED BY <1>1, <3>2, <3>3, <3>4, UpdateAttemptGuarded
  <2>5. ASSUME NEW a \in AttemptRefs, NEW follow \in FollowUps, CompleteAttempt(a, follow)
        PROVE  Guarded(store, store')
    BY <1>1, <2>5, CompleteGuarded
  <2> QED BY <1>4, <2>1, <2>2, <2>3, <2>4, <2>5 DEF WorkerNext
<1>5. CASE OperatorNext
  <2>1. ASSUME NEW t \in Tasks, CancelTask(t)
        PROVE  Guarded(store, store')
    BY <1>1, <2>1, CancelGuarded
  <2>2. ASSUME NEW t \in Tasks, RetryTask(t)
        PROVE  Guarded(store, store')
    <3>1. /\ store'.attempts = store.attempts /\ store'.checkpoints = store.checkpoints
          /\ store'.deadLetters = store.deadLetters
          /\ store'.messages = [m \in MessageRefs |->
                IF m \in ToRetry(t)
                THEN [store.messages[m] EXCEPT !.state = "available", !.attempt = NoAttempt]
                ELSE store.messages[m]]
      BY <1>1, <2>2 DEF RetryTask, Store
    <3>2. \A m \in MessageRefs :
            \/ store'.messages[m].state = "available"
            \/ store'.messages[m] = store.messages[m]
      <4>1. ASSUME NEW m \in MessageRefs
            PROVE  [store.messages[m] EXCEPT !.state = "available",
                                             !.attempt = NoAttempt].state = "available"
        BY <1>1, StoreParts DEF Message
      <4> QED BY <3>1, <4>1
    <3> QED BY <1>1, <3>1, <3>2, MessagesGuarded
  <2>3. ASSUME NEW d \in store.deadLetters, NEW m \in MessageRefs, ReplayDeadLetter(d, m)
        PROVE  Guarded(store, store')
    <3>1. d.msg \in MessageRefs
      BY <1>1, StoreParts DEF DeadLetter
    <3>2. store.requests[d.msg] \in Request
      BY <1>1, <3>1 DEF Sound
    <3> QED BY <2>3, <3>2, <1>3 DEF ReplayDeadLetter
  <2> QED BY <1>5, <2>1, <2>2, <2>3 DEF OperatorNext
<1>6. CASE ReconcileExpiredClaims
  BY <1>1, <1>6, ReconcileGuarded DEF ReconcileExpiredClaims
<1>7. CASE Tick
  BY <1>1, <1>7, TickGuarded DEF Tick
<1>8. Requests \subseteq Request
  BY HandoffAssumption
<1> QED BY <1>2, <1>3, <1>4, <1>5, <1>6, <1>7, <1>8 DEF Next, vars

\* Nobody is fenced in the empty ledger.
LEMMA InitFenced == Init => Fenced(store)
<1> SUFFICES ASSUME Init PROVE Fenced(store)
  OBVIOUS
<1>1. /\ \A m \in MessageRefs : store.messages[m].state = "absent"
      /\ \A a \in AttemptRefs : store.attempts[a].state = "absent"
      /\ store.deadLetters = {}
  BY DEF Init, EmptyStore, AbsentMessage, AbsentAttempt
<1> QED BY <1>1 DEF Fenced

\* What reconcile and dead-lettering take from an owner stays fenced.
THEOREM FenceHolds == Spec => [](Inv /\ Fenced(store))
<1>1. Init => Inv /\ Fenced(store)
  BY InitInv, InitFenced
<1>2. Inv /\ Fenced(store) /\ [Next]_vars => Inv' /\ Fenced(store)'
  BY NextInv, GuardedNext DEF Guarded
<1> QED BY <1>1, <1>2, PTL DEF Spec

\* A message up for takeover or dead-lettered has an orphaned attempt past its
\* lease, and a dead letter names the last checkpoint of the attempt it is for.
THEOREM OrphansAreFenced == Spec => []OrphanedIsFenced
<1>1. Inv /\ Fenced(store) => OrphanedIsFenced
  <2> SUFFICES ASSUME Inv, Fenced(store) PROVE OrphanedIsFenced
    OBVIOUS
  <2>1. ASSUME NEW m \in MessageRefs,
               store.messages[m].state \in {"takeover_candidate", "dead_lettered"}
        PROVE  store.messages[m].attempt \in AttemptRefs
    BY <2>1, StoreParts
       DEF Inv, TypeOK, Sound, RecordSound, RecordStateBacked, DeadLettered, Message, DeadLetter
  <2> QED BY <2>1 DEF Fenced, OrphanedIsFenced
<1> QED BY <1>1, FenceHolds, PTL

\* No late checkpoint, lease refresh, completion or cancel opens an attempt
\* that a takeover, a cancel or a terminal checkpoint closed.
THEOREM ClosedHolds == Spec => ClosedStaysClosed
<1>1. Inv /\ Fenced(store) /\ [Next]_vars =>
        [\A a \in AttemptRefs :
            Exists(store, a) /\ ~Open(store, a) => ~Open(store, a)']_vars
  BY GuardedNext DEF Guarded, ClosedKept, Open
<1> QED BY <1>1, FenceHolds, PTL DEF Spec, ClosedStaysClosed

-----------------------------------------------------------------------------
(* Ownership: the operations of the store.                                 *)

Settled(S, T) == Owned(T) /\ CompletedKept(S, T)

\* Ownership stays where open attempts stay what they were, on messages that
\* still point to them and are still worked on, and no attempt is completed.
LEMMA OwnershipStays ==
    ASSUME NEW S \in Store, NEW T \in Store, Owned(S),
           \A a \in AttemptRefs :
               Open(T, a) =>
                   /\ Open(S, a) /\ T.attempts[a].msg = S.attempts[a].msg
                   /\ T.messages[S.attempts[a].msg].attempt = S.messages[S.attempts[a].msg].attempt
                   /\ T.messages[S.attempts[a].msg].state \in Working,
           \A a \in AttemptRefs :
               /\ T.attempts[a].state = "completed" <=> S.attempts[a].state = "completed"
               /\ T.attempts[a].state = "completed" => T.attempts[a].msg = S.attempts[a].msg,
           \A a \in AttemptRefs :
               S.attempts[a].state = "completed" => S.attempts[a].msg \in MessageRefs,
           \A m \in MessageRefs :
               S.messages[m].state = "completed" => T.messages[m] = S.messages[m],
           \A m \in MessageRefs :
               ~HasCurrentAttempt(T, m) => T.messages[m].redelivery = 0
    PROVE  Settled(S, T)
<1>1. \A a \in AttemptRefs :
        Open(T, a) => /\ T.messages[T.attempts[a].msg].attempt = a
                      /\ T.messages[T.attempts[a].msg].state \in Working
  BY DEF Owned
<1>2. \A a \in AttemptRefs :
        T.attempts[a].state = "completed" => T.messages[T.attempts[a].msg].state = "completed"
  BY DEF Owned
<1> QED BY <1>1, <1>2 DEF Settled, Owned, CompletedKept

\* The message of an attempt is one of the messages.
LEMMA MessageOfAttempt ==
    ASSUME NEW S \in Store, Sound(S), NEW a \in AttemptRefs, Exists(S, a)
    PROVE  S.attempts[a].msg \in MessageRefs /\ Saved(S, S.attempts[a].msg)
BY DEF Sound, AttemptFounded

\* New messages have no attempts.
LEMMA ArrivalsSettled ==
    ASSUME NEW S \in Store, NEW T \in Store, Sound(S), Owned(S),
           T.attempts = S.attempts,
           \A m \in MessageRefs :
               \/ T.messages[m] = S.messages[m]
               \/ /\ ~Saved(S, m)
                  /\ T.messages[m] = [AbsentMessage EXCEPT !.state = "available"]
    PROVE  Settled(S, T)
<1>1. [AbsentMessage EXCEPT !.state = "available"].redelivery = 0
  BY DEF AbsentMessage
<1>2. ASSUME NEW a \in AttemptRefs, Exists(S, a)
      PROVE  /\ S.attempts[a].msg \in MessageRefs
             /\ T.messages[S.attempts[a].msg] = S.messages[S.attempts[a].msg]
  BY <1>2, MessageOfAttempt
<1>3. \A a \in AttemptRefs : Open(S, a) \/ S.attempts[a].state = "completed" => Exists(S, a)
  BY DEF Open, Exists
<1>4. \A m \in MessageRefs :
        S.messages[m].state = "completed" => T.messages[m] = S.messages[m]
  BY DEF Saved
<1>5. \A m \in MessageRefs : ~HasCurrentAttempt(T, m) => T.messages[m].redelivery = 0
  BY <1>1 DEF Owned, HasCurrentAttempt
<1>6. ASSUME NEW a \in AttemptRefs, Open(T, a)
      PROVE  /\ Open(S, a) /\ T.attempts[a].msg = S.attempts[a].msg
             /\ T.messages[S.attempts[a].msg].attempt = S.messages[S.attempts[a].msg].attempt
             /\ T.messages[S.attempts[a].msg].state \in Working
  BY <1>2, <1>3, <1>6 DEF Owned, Open
<1> QED BY <1>2, <1>3, <1>4, <1>5, <1>6, OwnershipStays

\* Attempts may be closed, other than by completing, with their messages put
\* in any state that no open or completed attempt is left to contradict.
LEMMA ClosingSettled ==
    ASSUME NEW S \in Store, NEW T \in Store, Sound(S), Owned(S),
           \A a \in AttemptRefs :
               \/ /\ T.attempts[a].state = S.attempts[a].state
                  /\ T.attempts[a].msg = S.attempts[a].msg
               \/ /\ S.attempts[a].state # "completed"
                  /\ T.attempts[a].state \in {"orphaned", "canceled"},
           \A m \in MessageRefs :
               /\ T.messages[m].attempt = S.messages[m].attempt
               /\ T.messages[m].redelivery = S.messages[m].redelivery
               /\ \/ T.messages[m] = S.messages[m]
                  \/ /\ S.messages[m].state # "completed"
                     /\ HasCurrentAttempt(S, m) => ~Open(T, S.messages[m].attempt)
    PROVE  Settled(S, T)
<1>1. ASSUME NEW a \in AttemptRefs, Open(T, a)
      PROVE  /\ Open(S, a) /\ T.attempts[a].msg = S.attempts[a].msg
             /\ T.messages[S.attempts[a].msg].attempt = S.messages[S.attempts[a].msg].attempt
             /\ T.messages[S.attempts[a].msg].state \in Working
  <2>1. Open(S, a) /\ T.attempts[a].msg = S.attempts[a].msg
    BY <1>1 DEF Open, ClosedState
  <2>2. S.attempts[a].msg \in MessageRefs
    BY <2>1, MessageOfAttempt DEF Open, Exists
  <2>3. S.messages[S.attempts[a].msg].attempt = a /\ S.messages[S.attempts[a].msg].state \in Working
    BY <2>1 DEF Owned
  <2>4. HasCurrentAttempt(S, S.attempts[a].msg)
    BY <2>3, StoreAssumption DEF HasCurrentAttempt
  <2> QED BY <2>1, <2>2, <2>3, <2>4, <1>1
<1>2. \A a \in AttemptRefs :
        /\ T.attempts[a].state = "completed" <=> S.attempts[a].state = "completed"
        /\ T.attempts[a].state = "completed" => T.attempts[a].msg = S.attempts[a].msg
  OBVIOUS
<1>3. \A a \in AttemptRefs :
        S.attempts[a].state = "completed" => S.attempts[a].msg \in MessageRefs
  BY MessageOfAttempt DEF Exists
<1>4. \A m \in MessageRefs : ~HasCurrentAttempt(T, m) => T.messages[m].redelivery = 0
  BY DEF Owned, HasCurrentAttempt
<1> QED BY <1>1, <1>2, <1>3, <1>4, OwnershipStays

\* A claim of a message nobody has open makes its new attempt the owner.
LEMMA ClaimAtSettled ==
    ASSUME NEW S \in Store, Sound(S), Owned(S),
           NEW m \in MessageRefs, NEW e \in Endpoints, NEW a \in AttemptRefs,
           ~Exists(S, a), NEW n \in Nat, S.messages[m].state # "completed",
           HasCurrentAttempt(S, m) => ~Open(S, S.messages[m].attempt)
    PROVE  Settled(S, ClaimAt(S, m, e, a, n))
<1> DEFINE T == ClaimAt(S, m, e, a, n)
<1>1. /\ T.attempts = [S.attempts EXCEPT ![a] =
            [state |-> "claimed", msg |-> m, ep |-> e, lease |-> LeaseTicks,
             rev |-> 1, epoch |-> n + 1]]
      /\ T.messages = [S.messages EXCEPT ![m] =
            [state |-> "claimed", attempt |-> a, redelivery |-> n]]
  BY DEF ClaimAt, Store
<1>2. /\ T.attempts[a].state = "claimed" /\ T.attempts[a].msg = m
      /\ T.messages[m].state = "claimed" /\ T.messages[m].attempt = a
  BY <1>1, StoreParts
<1>3. \A b \in AttemptRefs : b # a => T.attempts[b] = S.attempts[b]
  BY <1>1, StoreParts
<1>4. \A k \in MessageRefs : k # m => T.messages[k] = S.messages[k]
  BY <1>1, StoreParts
<1> HIDE DEF T
<1>5. ASSUME NEW b \in AttemptRefs, Open(S, b)
      PROVE  S.attempts[b].msg \in MessageRefs \ {m}
  <2>1. S.attempts[b].msg \in MessageRefs
    BY <1>5, MessageOfAttempt DEF Open, Exists
  <2>2. S.messages[S.attempts[b].msg].attempt = b
    BY <1>5 DEF Owned
  <2> QED BY <1>5, <2>1, <2>2, StoreAssumption DEF HasCurrentAttempt
<1>6. \A b \in AttemptRefs :
        S.attempts[b].state = "completed" => S.attempts[b].msg \in MessageRefs \ {m}
  BY MessageOfAttempt DEF Exists, Owned
<1>7. ASSUME NEW b \in AttemptRefs, Open(T, b)
      PROVE  T.messages[T.attempts[b].msg].attempt = b /\ T.messages[T.attempts[b].msg].state \in Working
  <2>1. CASE b = a
    BY <1>2, <2>1 DEF Working
  <2>2. CASE b # a
    <3>1. Open(S, b) /\ T.attempts[b] = S.attempts[b]
      BY <1>3, <1>7, <2>2 DEF Open
    <3> QED BY <3>1, <1>4, <1>5 DEF Owned
  <2> QED BY <2>1, <2>2
<1>8. ASSUME NEW b \in AttemptRefs, T.attempts[b].state = "completed"
      PROVE  T.messages[T.attempts[b].msg].state = "completed"
  BY <1>2, <1>3, <1>4, <1>6, <1>8 DEF Owned
<1>9. \A k \in MessageRefs : ~HasCurrentAttempt(T, k) => T.messages[k].redelivery = 0
  BY <1>2, <1>4, StoreAssumption DEF Owned, HasCurrentAttempt
<1>10. CompletedKept(S, T)
  BY <1>3, <1>4 DEF CompletedKept, Exists
<1> QED BY <1>7, <1>8, <1>9, <1>10 DEF Settled, Owned, T

\* What is settled in two operations is settled in both together.
LEMMA SettledTransitive ==
    ASSUME NEW S, NEW T, NEW U, Settled(S, T), Settled(T, U)
    PROVE  Settled(S, U)
<1>1. \A m \in MessageRefs :
        S.messages[m].state = "completed" => U.messages[m] = S.messages[m]
  BY DEF Settled, CompletedKept
<1>2. \A a \in AttemptRefs :
        S.attempts[a].state = "completed" => U.attempts[a].state = "completed"
  BY DEF Settled, CompletedKept
<1> QED BY <1>1, <1>2 DEF Settled, CompletedKept

\* The current attempt of a message that is not completed is not completed.
LEMMA CurrentNotCompleted ==
    ASSUME NEW S \in Store, Sound(S), Owned(S), NEW m \in MessageRefs,
           HasCurrentAttempt(S, m), S.messages[m].state # "completed"
    PROVE  S.attempts[S.messages[m].attempt].state # "completed"
BY CurrentExists DEF Owned

\* A dead letter closes the attempt it is for.
LEMMA DeadLetterSettled ==
    ASSUME NEW S \in Store, Sound(S), Owned(S), NEW m \in MessageRefs,
           HasCurrentAttempt(S, m), S.messages[m].state # "completed",
           DeadLetterMessage(S, m) \in Store
    PROVE  Settled(S, DeadLetterMessage(S, m))
<1> DEFINE T == DeadLetterMessage(S, m)
           cur == S.messages[m].attempt
<1>1. cur \in AttemptRefs /\ S.attempts[cur].state # "completed"
  BY CurrentExists, CurrentNotCompleted
<1>2. /\ T.attempts = [S.attempts EXCEPT ![cur] = [S.attempts[cur] EXCEPT !.state = "orphaned"]]
      /\ T.messages = [S.messages EXCEPT ![m] = [S.messages[m] EXCEPT !.state = "dead_lettered"]]
  BY DEF DeadLetterMessage, Store
<1>3. T.attempts[cur].state = "orphaned"
  BY <1>1, <1>2, StoreParts DEF Attempt
<1>4. \A a \in AttemptRefs : a # cur => T.attempts[a] = S.attempts[a]
  BY <1>2, StoreParts
<1>5. /\ T.messages[m].attempt = cur
      /\ T.messages[m].redelivery = S.messages[m].redelivery
  BY <1>2, StoreParts DEF Message
<1>6. \A k \in MessageRefs : k # m => T.messages[k] = S.messages[k]
  BY <1>2, StoreParts
<1> HIDE DEF T
<1>7. ~Open(T, cur)
  BY <1>3 DEF Open, ClosedState
<1> QED BY <1>1, <1>3, <1>4, <1>5, <1>6, <1>7, ClosingSettled DEF T

\* Orphaning the owner of an expired claim leaves the message without one.
LEMMA OrphanCurrentSettled ==
    ASSUME NEW S \in Store, Sound(S), Owned(S), NEW m \in MessageRefs, LeaseRanOut(S, m)
    PROVE  /\ Settled(S, OrphanCurrent(S, m))
           /\ ~Open(OrphanCurrent(S, m), S.messages[m].attempt)
<1> DEFINE T == OrphanCurrent(S, m)
           cur == S.messages[m].attempt
<1>1. cur \in AttemptRefs /\ S.attempts[cur].state # "completed"
  BY CurrentExists, CurrentNotCompleted DEF LeaseRanOut
<1>2. /\ T.attempts = [S.attempts EXCEPT ![cur] = [S.attempts[cur] EXCEPT !.state = "orphaned"]]
      /\ T.messages = S.messages /\ T \in Store
  BY OrphanCurrentKept DEF OrphanCurrent, Store, LeaseRanOut, Kept
<1>3. T.attempts[cur].state = "orphaned"
  BY <1>1, <1>2, StoreParts DEF Attempt
<1>4. \A a \in AttemptRefs : a # cur => T.attempts[a] = S.attempts[a]
  BY <1>2, StoreParts
<1> HIDE DEF T
<1>5. ~Open(T, cur)
  BY <1>3 DEF Open, ClosedState
<1>6. Settled(S, T)
  BY <1>1, <1>2, <1>3, <1>4, ClosingSettled
<1> QED BY <1>5, <1>6 DEF T

\* Reconciling puts up for takeover only what it takes from its owner.
LEMMA ReconcileSettled ==
    ASSUME NEW S \in Store, Sound(S), Owned(S)
    PROVE  Settled(S, ReconcileStore(S))
<1> DEFINE T == ReconcileStore(S)
           expired == {m \in MessageRefs : LeaseRanOut(S, m)}
           owners == {S.messages[m].attempt : m \in expired}
<1>1. T \in Store
  BY ReconcileKept DEF Kept
<1>2. /\ T.attempts = [a \in AttemptRefs |->
            IF a \in owners THEN [S.attempts[a] EXCEPT !.state = "orphaned"] ELSE S.attempts[a]]
      /\ T.messages = [m \in MessageRefs |->
            IF m \in expired THEN [S.messages[m] EXCEPT !.state = "takeover_candidate"]
            ELSE S.messages[m]]
  BY DEF ReconcileStore, Store
<1>3. ASSUME NEW a \in owners
      PROVE  a \in AttemptRefs /\ S.attempts[a].state # "completed"
  BY CurrentExists, CurrentNotCompleted DEF LeaseRanOut
<1>4. ASSUME NEW a \in owners
      PROVE  T.attempts[a].state = "orphaned"
  BY <1>2, <1>3, StoreParts DEF Attempt
<1>5. \A a \in AttemptRefs : a \notin owners => T.attempts[a] = S.attempts[a]
  BY <1>2
<1>6. ASSUME NEW m \in MessageRefs, m \in expired
      PROVE  /\ T.messages[m].attempt = S.messages[m].attempt
             /\ T.messages[m].redelivery = S.messages[m].redelivery
  BY <1>2, <1>6, StoreParts DEF Message
<1>7. \A m \in MessageRefs : m \notin expired => T.messages[m] = S.messages[m]
  BY <1>2
<1>8. \A m \in expired : S.messages[m].state # "completed" /\ S.messages[m].attempt \in owners
  BY DEF LeaseRanOut
<1> HIDE DEF T, owners, expired
<1>9. \A a \in owners : ~Open(T, a)
  BY <1>4 DEF Open, ClosedState
<1> QED BY <1>1, <1>3, <1>4, <1>5, <1>6, <1>7, <1>8, <1>9, ClosingSettled DEF T

\* A report of the owner of a message, and the message with it.
LEMMA CheckpointSettled ==
    ASSUME NEW S \in Store, Sound(S), Owned(S), NEW a \in AttemptRefs, Open(S, a),
           NEW s \in CheckpointState
    PROVE  Settled(S, CheckpointStore(S, a, s))
<1> DEFINE T == CheckpointStore(S, a, s)
           m == S.attempts[a].msg
<1>1. Exists(S, a)
  BY DEF Open, Exists
<1>2. /\ T \in Store /\ m \in MessageRefs
      /\ T.attempts[a].state = s /\ T.attempts[a].msg = m
      /\ \A b \in AttemptRefs : b # a => T.attempts[b] = S.attempts[b]
      /\ T.messages[m].state = MessageStateAfter(s, S.messages[m].state)
      /\ T.messages[m].attempt = S.messages[m].attempt
      /\ T.messages[m].redelivery = S.messages[m].redelivery
      /\ \A n \in MessageRefs : n # m => T.messages[n] = S.messages[n]
  BY <1>1, CheckpointParts
<1>3. S.messages[m].attempt = a /\ S.messages[m].state \in Working
  BY DEF Owned
<1> HIDE DEF T
<1>4. ASSUME NEW b \in AttemptRefs, b # a, Open(S, b) \/ S.attempts[b].state = "completed"
      PROVE  S.attempts[b].msg \in MessageRefs \ {m}
  <2>1. S.attempts[b].msg \in MessageRefs
    BY <1>4, MessageOfAttempt DEF Open, Exists
  <2> QED BY <2>1, <1>3, <1>4 DEF Owned, Working
<1>5. ASSUME NEW b \in AttemptRefs, Open(T, b)
      PROVE  T.messages[T.attempts[b].msg].attempt = b /\ T.messages[T.attempts[b].msg].state \in Working
  <2>1. CASE b = a
    <3>1. s \notin {"completed", "failed"}
      BY <1>2, <1>5, <2>1 DEF Open, ClosedState
    <3>2. T.messages[m].state \in Working
      BY <3>1, <1>2, <1>3 DEF MessageStateAfter, Working
    <3> QED BY <2>1, <3>2, <1>2, <1>3
  <2>2. CASE b # a
    <3>1. Open(S, b) /\ T.attempts[b] = S.attempts[b]
      BY <1>2, <1>5, <2>2 DEF Open
    <3>2. T.messages[S.attempts[b].msg] = S.messages[S.attempts[b].msg]
      BY <3>1, <2>2, <1>2, <1>4
    <3> QED BY <3>1, <3>2 DEF Owned
  <2> QED BY <2>1, <2>2
<1>6. ASSUME NEW b \in AttemptRefs, T.attempts[b].state = "completed"
      PROVE  T.messages[T.attempts[b].msg].state = "completed"
  <2>1. CASE b = a
    BY <1>2, <1>6, <2>1 DEF MessageStateAfter
  <2>2. CASE b # a
    <3>1. S.attempts[b].state = "completed" /\ T.attempts[b] = S.attempts[b]
      BY <1>2, <1>6, <2>2
    <3>2. T.messages[S.attempts[b].msg] = S.messages[S.attempts[b].msg]
      BY <3>1, <2>2, <1>2, <1>4
    <3> QED BY <3>1, <3>2 DEF Owned
  <2> QED BY <2>1, <2>2
<1>7. ASSUME NEW k \in MessageRefs, ~HasCurrentAttempt(T, k)
      PROVE  T.messages[k].redelivery = 0
  <2>1. /\ T.messages[k].attempt = S.messages[k].attempt
        /\ T.messages[k].redelivery = S.messages[k].redelivery
    <3>1. CASE k = m
      BY <1>2, <3>1
    <3>2. CASE k # m
      BY <1>2, <3>2
    <3> QED BY <3>1, <3>2
  <2> QED BY <1>7, <2>1 DEF Owned, HasCurrentAttempt
<1>8. CompletedKept(S, T)
  BY <1>2, <1>3 DEF CompletedKept, Open, ClosedState, Working
<1> QED BY <1>5, <1>6, <1>7, <1>8 DEF Settled, Owned, T

\* The attempt of a message up for takeover is closed.
LEMMA CandidateClosed ==
    ASSUME NEW S \in Store, Sound(S), Fenced(S), NEW m \in MessageRefs,
           S.messages[m].state \in {"available", "takeover_candidate"}
    PROVE  HasCurrentAttempt(S, m) => ~Open(S, S.messages[m].attempt)
BY DEF Fenced, Sound, RecordSound, RecordStateBacked, HasCurrentAttempt, Open, ClosedState

\* A claim takes a message that nobody has open, or closes who has it.
LEMMA ClaimMessageSettled ==
    ASSUME NEW S \in Store, Sound(S), Fenced(S), Owned(S),
           NEW m \in MessageRefs, NEW e \in Endpoints, NEW a \in AttemptRefs,
           Grants(S, m) => ~Exists(S, a)
    PROVE  Settled(S, ClaimMessageStore(S, m, e, a))
<1>1. /\ S.messages[m].redelivery \in Nat
      /\ S.messages[m].redelivery + 1 \in Nat
  BY StoreParts DEF Message
<1>2. CASE S.messages[m].state = "available"
  BY <1>1, <1>2, CandidateClosed, ClaimAtSettled
     DEF ClaimMessageStore, Grants, ClaimAvailableMessage
<1>3. CASE S.messages[m].state # "available" /\ ~(IsTakeoverCandidate(S, m) \/ LeaseRanOut(S, m))
  BY <1>3 DEF ClaimMessageStore, Settled, CompletedKept
<1>4. CASE /\ S.messages[m].state # "available"
           /\ IsTakeoverCandidate(S, m) \/ LeaseRanOut(S, m)
  <2>1. HasCurrentAttempt(S, m) /\ S.messages[m].state # "completed"
    BY <1>4 DEF IsTakeoverCandidate, LeaseRanOut
  <2>2. CASE OutOfRedeliveries(S, m)
    <3>1. DeadLetterMessage(S, m) \in Store
      BY <2>1, <2>2, DeadLetterKept DEF Kept
    <3> QED BY <2>1, <2>2, <3>1, <1>4, DeadLetterSettled DEF ClaimMessageStore
  <2>3. CASE ~OutOfRedeliveries(S, m) /\ IsTakeoverCandidate(S, m)
    <3>1. ~Open(S, S.messages[m].attempt)
      BY <2>1, <2>3, CandidateClosed DEF IsTakeoverCandidate
    <3> QED BY <2>1, <2>3, <3>1, <1>1, <1>4, ClaimAtSettled
            DEF ClaimMessageStore, Grants, TakeoverMessage
  <2>4. CASE ~OutOfRedeliveries(S, m) /\ ~IsTakeoverCandidate(S, m)
    <3> DEFINE T == OrphanCurrent(S, m)
               U == ClaimAt(T, m, e, a, T.messages[m].redelivery + 1)
    <3>1. /\ T \in Store /\ Sound(T) /\ T.messages = S.messages /\ ~Exists(T, a)
      BY <2>1, <2>4, <1>4, OrphanCurrentKept DEF Grants, Kept
    <3>2. Settled(S, T) /\ ~Open(T, S.messages[m].attempt)
      BY <2>4, <1>4, OrphanCurrentSettled
    <3>3. ClaimMessageStore(S, m, e, a) = U
      BY <2>4, <1>4 DEF ClaimMessageStore, TakeoverMessage
    <3> HIDE DEF T
    <3>4. Owned(T) /\ T.messages[m].redelivery + 1 \in Nat
      BY <3>1, <3>2, <1>1 DEF Settled
    <3>5. Settled(T, U)
      BY <3>1, <3>2, <3>4, <2>1, ClaimAtSettled
    <3> QED BY <3>2, <3>3, <3>5, SettledTransitive
  <2> QED BY <2>2, <2>3, <2>4
<1> QED BY <1>2, <1>3, <1>4

\* So does the claim of the next eligible message.
LEMMA ClaimNextSettled ==
    ASSUME NEW S \in Store, Sound(S), Fenced(S), Owned(S),
           NEW m \in MessageRefs, NEW e \in Endpoints, NEW a \in AttemptRefs,
           S.messages[m].state \in {"available", "takeover_candidate"},
           Grants(S, m) => ~Exists(S, a)
    PROVE  Settled(S, ClaimNextStore(S, m, e, a))
<1>1. /\ S.messages[m].redelivery \in Nat
      /\ S.messages[m].redelivery + 1 \in Nat
  BY StoreParts DEF Message
<1>2. /\ S.messages[m].state # "completed"
      /\ HasCurrentAttempt(S, m) => ~Open(S, S.messages[m].attempt)
  BY CandidateClosed
<1>3. CASE S.messages[m].state = "available"
  BY <1>1, <1>2, <1>3, ClaimAtSettled DEF ClaimNextStore, Grants, ClaimAvailableMessage
<1>4. CASE S.messages[m].state = "takeover_candidate"
  <2>1. HasCurrentAttempt(S, m)
    BY <1>4, StoreParts DEF HasCurrentAttempt, Sound, RecordSound, RecordStateBacked
  <2>2. CASE OutOfRedeliveries(S, m)
    <3>1. DeadLetterMessage(S, m) \in Store
      BY <2>1, <2>2, DeadLetterKept DEF Kept
    <3> QED BY <2>1, <2>2, <3>1, <1>2, <1>4, DeadLetterSettled DEF ClaimNextStore
  <2>3. CASE ~OutOfRedeliveries(S, m)
    BY <2>1, <2>3, <1>1, <1>2, <1>4, ClaimAtSettled
       DEF ClaimNextStore, Grants, TakeoverMessage, IsTakeoverCandidate
  <2> QED BY <2>2, <2>3
<1> QED BY <1>3, <1>4

-----------------------------------------------------------------------------
(* Ownership: the actions, where no operator retries.  A retry takes a     *)
(* message from its attempt without closing that.                          *)

OwnershipInv == Inv /\ Fenced(store) /\ Owned(store)

\* A reconciled ledger, and a claim in it.
LEMMA ClaimNextMessageSettled ==
    ASSUME OwnershipInv, NEW e \in Endpoints, NEW m \in MessageRefs,
           NEW a \in AttemptRefs, ClaimNextMessage(e, m, a)
    PROVE  Settled(store, store')
<1> DEFINE S == ReconcileStore(store)
<1>1. store \in Store /\ Sound(store) /\ Fenced(store) /\ Owned(store)
  BY DEF OwnershipInv, Inv, TypeOK
<1>2. S \in Store /\ Sound(S) /\ Guarded(store, S) /\ Settled(store, S)
  BY <1>1, ReconcileKept, ReconcileGuarded, ReconcileSettled DEF Kept
<1>3. /\ NextFor(S, m, e) /\ store' = ClaimNextStore(S, m, e, a)
      /\ Grants(S, m) => ~Exists(S, a)
  BY DEF ClaimNextMessage
<1> HIDE DEF S
<1>4. S.messages[m].state \in {"available", "takeover_candidate"}
  BY <1>3 DEF NextFor, IsNext, IsFirst, Eligible
<1>5. Settled(S, store')
  BY <1>2, <1>3, <1>4, ClaimNextSettled DEF Guarded, Settled
<1> QED BY <1>2, <1>5, SettledTransitive

\* A completion is the owner's report, followed by new messages.
LEMMA CompleteSettled ==
    ASSUME OwnershipInv, NEW a \in AttemptRefs, NEW follow \in FollowUps,
           CompleteAttempt(a, follow), store' \in Store
    PROVE  Settled(store, store')
<1> DEFINE S == CheckpointStore(store, a, "completed")
<1>1. /\ store \in Store /\ Sound(store) /\ Owned(store)
      /\ Open(store, a) /\ Exists(store, a)
  BY DEF OwnershipInv, Inv, TypeOK, CompleteAttempt, Live, Open, Exists
<1>2. "completed" \in CheckpointState
  BY DEF CheckpointState, AttemptState
<1>3. /\ S \in Store /\ Sound(S) /\ Settled(store, S)
      /\ \A n \in MessageRefs : Saved(S, n) <=> Saved(store, n)
  BY <1>1, <1>2, CheckpointSettled, CheckpointStoreKept DEF Kept
<1>4. /\ store'.attempts = S.attempts
      /\ store'.messages = [n \in MessageRefs |->
            IF n \in DOMAIN follow THEN [AbsentMessage EXCEPT !.state = "available"]
            ELSE S.messages[n]]
      /\ \A n \in DOMAIN follow : ~Saved(store, n)
  BY <1>3 DEF CompleteAttempt, Store
<1> HIDE DEF S
<1>5. Settled(S, store')
  BY <1>3, <1>4, ArrivalsSettled DEF Settled
<1> QED BY <1>3, <1>5, SettledTransitive

\* A cancel closes the owners of the messages it cancels.
LEMMA CancelSettled ==
    ASSUME OwnershipInv, NEW t \in Tasks, CancelTask(t), store' \in Store
    PROVE  Settled(store, store')
<1> DEFINE dropped == {a \in AttemptRefs : Open(store, a)
                          /\ \E m \in ToCancel(t) : store.messages[m].attempt = a}
<1>1. store \in Store /\ Sound(store) /\ Owned(store)
  BY DEF OwnershipInv, Inv, TypeOK
<1>2. /\ store'.attempts = [a \in AttemptRefs |->
            IF a \in dropped THEN [store.attempts[a] EXCEPT !.state = "canceled"]
            ELSE store.attempts[a]]
      /\ store'.messages = [m \in MessageRefs |->
            IF m \in ToCancel(t) THEN [store.messages[m] EXCEPT !.state = "canceled"]
            ELSE store.messages[m]]
  BY <1>1 DEF CancelTask, Store
<1>3. \A a \in dropped : /\ a \in AttemptRefs /\ store.attempts[a].state # "completed"
                         /\ store'.attempts[a].state = "canceled"
  BY <1>1, <1>2, StoreParts DEF Attempt, Open, ClosedState
<1>4. \A a \in AttemptRefs : a \notin dropped => store'.attempts[a] = store.attempts[a]
  BY <1>2
<1>5. \A m \in ToCancel(t) :
        /\ m \in MessageRefs /\ store.messages[m].state # "completed"
        /\ store'.messages[m].attempt = store.messages[m].attempt
        /\ store'.messages[m].redelivery = store.messages[m].redelivery
  BY <1>1, <1>2, StoreParts DEF Message, ToCancel
<1>6. \A m \in MessageRefs : m \notin ToCancel(t) => store'.messages[m] = store.messages[m]
  BY <1>2
<1>7. ASSUME NEW m \in ToCancel(t), HasCurrentAttempt(store, m)
      PROVE  ~Open(store', store.messages[m].attempt)
  <2>1. store.messages[m].attempt \in AttemptRefs
    BY <1>1, <1>5, <1>7, CurrentExists
  <2>2. CASE store.messages[m].attempt \in dropped
    BY <2>2, <1>3 DEF Open, ClosedState
  <2>3. CASE store.messages[m].attempt \notin dropped
    BY <2>1, <2>3, <1>4 DEF Open
  <2> QED BY <2>2, <2>3
<1> HIDE DEF dropped
<1> QED BY <1>1, <1>3, <1>4, <1>5, <1>6, <1>7, ClosingSettled

\* Every step but a retry keeps the owners and what is completed.
LEMMA SettledNext ==
    ASSUME "retry" \notin Commands, OwnershipInv, [Next]_vars
    PROVE  Settled(store, store')
<1>1. /\ store \in Store /\ Sound(store) /\ store' \in Store
      /\ Fenced(store) /\ Owned(store)
  BY StoreNext DEF OwnershipInv, Inv, TypeOK, Kept
<1>2. CASE UNCHANGED store
  BY <1>1, <1>2, ArrivalsSettled
<1>3. ASSUME NEW m \in MessageRefs, NEW r \in Request, IngressMessage(m, r)
      PROVE  Settled(store, store')
  <2>1. /\ store'.attempts = store.attempts /\ ~Saved(store, m)
        /\ store'.messages =
              [store.messages EXCEPT ![m] = [AbsentMessage EXCEPT !.state = "available"]]
    BY <1>1, <1>3 DEF IngressMessage, SaveMessage, Store
  <2>2. \A n \in MessageRefs :
          \/ store'.messages[n] = store.messages[n]
          \/ /\ ~Saved(store, n)
             /\ store'.messages[n] = [AbsentMessage EXCEPT !.state = "available"]
    BY <1>1, <2>1, StoreParts
  <2> QED BY <1>1, <2>1, <2>2, ArrivalsSettled
<1>4. CASE WorkerNext
  <2>1. ASSUME NEW e \in Endpoints, NEW m \in MessageRefs, NEW a \in AttemptRefs,
               ClaimMessage(e, m, a) \/ ClaimNextMessage(e, m, a)
        PROVE  Settled(store, store')
    BY <1>1, <2>1, ClaimMessageSettled, ClaimNextMessageSettled DEF ClaimMessage
  <2>2. ASSUME NEW e \in Endpoints, ClaimNothing(e)
        PROVE  Settled(store, store')
    BY <1>1, <2>2, ReconcileSettled DEF ClaimNothing
  <2>3. ASSUME NEW a \in AttemptRefs, NEW report \in Reports, SubmitCheckpoint(a, report)
        PROVE  Settled(store, store')
    <3>1. report \in CheckpointState
      BY HandoffAssumption
    <3> QED BY <1>1, <2>3, <3>1, CheckpointSettled DEF SubmitCheckpoint, Live
  <2>4. ASSUME NEW a \in AttemptRefs, RefreshLease(a)
        PROVE  Settled(store, store')
    <3>1. /\ store'.messages = store.messages
          /\ store'.attempts =
                [store.attempts EXCEPT ![a] = [store.attempts[a] EXCEPT !.lease = LeaseTicks]]
      BY <1>1, <2>4 DEF RefreshLease, UpdateAttempt, Store
    <3>2. \A b \in AttemptRefs : /\ store'.attempts[b].state = store.attempts[b].state
                                 /\ store'.attempts[b].msg = store.attempts[b].msg
      BY <1>1, <3>1, StoreParts DEF Attempt
    <3> QED BY <1>1, <3>1, <3>2, ClosingSettled
  <2>5. ASSUME NEW a \in AttemptRefs, NEW follow \in FollowUps, CompleteAttempt(a, follow)
        PROVE  Settled(store, store')
    BY <1>1, <2>5, CompleteSettled
  <2> QED BY <1>4, <2>1, <2>2, <2>3, <2>4, <2>5 DEF WorkerNext
<1>5. CASE OperatorNext
  <2>1. ASSUME NEW t \in Tasks, CancelTask(t)
        PROVE  Settled(store, store')
    BY <1>1, <2>1, CancelSettled
  <2>2. ASSUME NEW d \in store.deadLetters, NEW m \in MessageRefs, ReplayDeadLetter(d, m)
        PROVE  Settled(store, store')
    <3>1. d.msg \in MessageRefs
      BY <1>1, StoreParts DEF DeadLetter
    <3>2. store.requests[d.msg] \in Request
      BY <1>1, <3>1 DEF Sound
    <3> QED BY <2>2, <3>2, <1>3 DEF ReplayDeadLetter
  <2> QED BY <1>5, <2>1, <2>2 DEF OperatorNext, RetryTask
<1>6. CASE ReconcileExpiredClaims
  BY <1>1, <1>6, ReconcileSettled DEF ReconcileExpiredClaims
<1>7. CASE Tick
  <2>1. /\ store'.messages = store.messages
        /\ store'.attempts = [a \in AttemptRefs |->
              [store.attempts[a] EXCEPT !.lease = Elapse(store.attempts[a].lease)]]
    BY <1>1, <1>7 DEF Tick, TickStore, Store
  <2>2. \A b \in AttemptRefs : /\ store'.attempts[b].state = store.attempts[b].state
                               /\ store'.attempts[b].msg = store.attempts[b].msg
    BY <1>1, <2>1, StoreParts DEF Attempt
  <2> QED BY <1>1, <2>1, <2>2, ClosingSettled
<1>8. Requests \subseteq Request
  BY HandoffAssumption
<1> QED BY <1>2, <1>3, <1>4, <1>5, <1>6, <1>7, <1>8 DEF Next, vars

\* Nobody owns anything in the empty ledger.
LEMMA InitOwned == Init => Owned(store)
<1> SUFFICES ASSUME Init PROVE Owned(store)
  OBVIOUS
<1>1. /\ \A m \in MessageRefs : store.messages[m].redelivery = 0
      /\ \A a \in AttemptRefs : store.attempts[a].state = "absent"
  BY DEF Init, EmptyStore, AbsentMessage, AbsentAttempt
<1> QED BY <1>1 DEF Owned, Open

\* Where no operator retries, ownership is kept.
THEOREM OwnershipHolds ==
    ASSUME "retry" \notin Commands
    PROVE  Spec => []OwnershipInv
<1>1. Init => OwnershipInv
  BY InitInv, InitFenced, InitOwned DEF OwnershipInv
<1>2. OwnershipInv /\ [Next]_vars => OwnershipInv'
  BY NextInv, GuardedNext, SettledNext DEF OwnershipInv, Guarded, Settled
<1> QED BY <1>1, <1>2, PTL DEF Spec

\* Where no operator retries, the one attempt that is open on a message is the
\* one the message points to: claims, takeovers, reconcile, cancels and reports
\* never leave a second worker that would be accepted as its owner.
THEOREM OneOwner ==
    ASSUME "retry" \notin Commands
    PROVE  Spec => []SoleOwner
<1>1. OwnershipInv => SoleOwner
  BY DEF OwnershipInv, Owned, SoleOwner
<1> QED BY <1>1, OwnershipHolds, PTL

\* Where no operator retries, what is completed stays completed, the message as
\* well as the attempt that did it: no late report, takeover or cancel undoes it.
THEOREM CompletionHolds ==
    ASSUME "retry" \notin Commands
    PROVE  Spec => CompletedStaysCompleted
<1>1. OwnershipInv /\ [Next]_vars =>
        [/\ \A m \in MessageRefs :
               store.messages[m].state = "completed" => store'.messages[m] = store.messages[m]
         /\ \A a \in AttemptRefs :
               store.attempts[a].state = "completed" => store'.attempts[a].state = "completed"]_vars
  BY SettledNext DEF Settled, CompletedKept
<1> QED BY <1>1, OwnershipHolds, PTL DEF Spec, CompletedStaysCompleted
=============================================================================
