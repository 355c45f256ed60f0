----------------------------- MODULE StepsProofs -----------------------------
(***************************************************************************)
(* What the interleaving of requests cannot break: the ledger stays sound  *)
(* in HandoffSteps, whatever the handlers in flight hold copies of, and    *)
(* whenever the server restarts.                                           *)
(*                                                                         *)
(* The argument is that a copy goes stale only in ways that do not matter. *)
(* CallSound says, by the place a call has come to, what its copies are    *)
(* good for: the attempt it is about exists and the copy has that          *)
(* attempt's message and epoch, which never change; the copy of a message  *)
(* is a record that would be sound in the ledger as it is now; and what    *)
(* the call reported is on record.  All of this stays true while the       *)
(* ledger grows (HandoffProofs), so each write-back finds it true.         *)
(***************************************************************************)
EXTENDS HandoffSteps, HandoffProofs

\* The state of an attempt that no worker had to report.
OnRecord(S, a, s) ==
    s \in {"absent", "claimed", "orphaned", "canceled"} \cup S.checkpoints[a].reported

Reported(S) == \A a \in AttemptRefs : OnRecord(S, a, S.attempts[a].state)

\* A message record that may be written back.
RecordFit(S, m, rec) == rec.state # "absent" /\ RecordSound(S, m, rec)

\* The places where a call is about an attempt that its worker owned; those
\* where it holds the attempt itself; those where its checkpoint is saved.
OwnerPlaces == {"save", "attempt", "read", "message", "reread", "reread_message",
                "close", "finish", "follow", "lease"}
HoldingPlaces == {"save", "attempt", "reread_message", "close", "lease", "cancel_attempt"}
ReportedPlaces == {"attempt", "read", "message", "reread", "reread_message", "close", "finish"}

\* What a call may rely on in ledger S.
CallSound(S, c) ==
    /\ c.pc \in OwnerPlaces \cup {"cancel_read", "cancel_attempt"} =>
          c.a \in AttemptRefs /\ Exists(S, c.a)
    /\ c.pc \in OwnerPlaces \cup {"cancel_attempt"} => c.att.msg = S.attempts[c.a].msg
    /\ c.pc \in HoldingPlaces =>
          c.att.epoch = S.attempts[c.a].epoch /\ c.att.state # "absent"
    /\ c.pc \in HoldingPlaces \ {"save", "cancel_attempt"} => OnRecord(S, c.a, c.att.state)
    /\ c.pc \in ReportedPlaces => c.report \in S.checkpoints[c.a].reported
    /\ c.pc \in {"reread", "reread_message", "close", "finish"} => c.report = "completed"
    /\ c.completing => c.report = "completed"
    /\ c.pc \in {"message", "close", "finish"} => RecordFit(S, c.att.msg, c.msg)
    /\ c.pc \in {"claim", "reconcile", "next"} => c.att.ep \in Endpoints
    /\ c.pc = "claim" =>
          /\ c.att.msg \in MessageRefs /\ Saved(S, c.att.msg)
          /\ Founded(S, c.att.msg)
    /\ \A m \in MessageRefs :
          c.todo[m] = AbsentMessage \/ (Saved(S, m) /\ RecordFit(S, m, c.todo[m]))

StepsInv ==
    /\ Inv
    /\ calls \in [Handlers -> Call]
    /\ Reported(store)
    /\ \A h \in Handlers : CallSound(store, calls[h])

-----------------------------------------------------------------------------
(* Calls.                                                                  *)

\* The parts of a call, with their types.
LEMMA CallParts ==
    ASSUME NEW c \in Call
    PROVE  /\ c.pc \in Step /\ c.a \in AttemptRefs \cup {NoAttempt}
           /\ c.report \in CheckpointState /\ c.completing \in BOOLEAN
           /\ c.left \in 0..MaxFollowUps /\ c.att \in Attempt /\ c.msg \in Message
           /\ c.names \in SUBSET Capabilities
           /\ c.online \in [Endpoints -> SUBSET Capabilities]
           /\ c.todo \in [MessageRefs -> Message]
BY DEF Call

\* What a call relies on stays true while the ledger grows.
LEMMA CallStays ==
    ASSUME NEW S \in Store, NEW T \in Store, Sound(S), Grows(S, T),
           NEW c \in Call, CallSound(S, c)
    PROVE  CallSound(T, c)
<1>1. ASSUME NEW m \in MessageRefs, NEW rec \in Message, RecordFit(S, m, rec)
      PROVE  RecordFit(T, m, rec)
  BY <1>1, RecordStays DEF RecordFit
<1>2. c.msg \in Message /\ c.todo \in [MessageRefs -> Message]
  BY CallParts
<1>3. ASSUME c.pc \in OwnerPlaces \cup {"cancel_attempt"}
      PROVE  /\ c.a \in AttemptRefs /\ Exists(S, c.a)
             /\ c.att.msg = S.attempts[c.a].msg /\ c.att.msg \in MessageRefs
             /\ Exists(T, c.a) /\ T.attempts[c.a].msg = S.attempts[c.a].msg
             /\ T.attempts[c.a].epoch = S.attempts[c.a].epoch
  BY <1>3 DEF CallSound, Grows, Sound, AttemptFounded
<1>4. c.pc = "cancel_read" => c.a \in AttemptRefs /\ Exists(T, c.a)
  BY DEF CallSound, Grows
<1>5. ASSUME c.pc \in HoldingPlaces
      PROVE  c.att.epoch = T.attempts[c.a].epoch /\ c.att.state # "absent"
  BY <1>3, <1>5 DEF CallSound, HoldingPlaces, OwnerPlaces
<1>6. ASSUME c.pc \in HoldingPlaces \ {"save", "cancel_attempt"}
      PROVE  OnRecord(T, c.a, c.att.state)
  BY <1>3, <1>6 DEF CallSound, HoldingPlaces, OwnerPlaces, OnRecord, Grows
<1>7. ASSUME c.pc \in ReportedPlaces
      PROVE  c.report \in T.checkpoints[c.a].reported
  BY <1>3, <1>7 DEF CallSound, ReportedPlaces, OwnerPlaces, Grows
<1>8. ASSUME c.pc \in {"message", "close", "finish"}
      PROVE  RecordFit(T, c.att.msg, c.msg)
  BY <1>1, <1>2, <1>3, <1>8 DEF CallSound, OwnerPlaces
<1>9. ASSUME c.pc = "claim"
      PROVE  /\ c.att.msg \in MessageRefs /\ Saved(T, c.att.msg)
             /\ Founded(T, c.att.msg)
  <2>1. /\ c.att.msg \in MessageRefs /\ Saved(S, c.att.msg) /\ Founded(S, c.att.msg)
    BY <1>9 DEF CallSound
  <2>2. Saved(T, c.att.msg) /\ T.requests[c.att.msg] = S.requests[c.att.msg]
    BY <2>1 DEF Grows
  <2>3. S.requests[c.att.msg].dependsOn \subseteq MessageRefs
    BY <2>1 DEF Sound, Request
  <2> QED BY <2>1, <2>2, <2>3, CompletionStays DEF Founded
<1>10. ASSUME NEW m \in MessageRefs
       PROVE  c.todo[m] = AbsentMessage \/ (Saved(T, m) /\ RecordFit(T, m, c.todo[m]))
  BY <1>1, <1>2 DEF CallSound, Grows
<1> QED BY <1>3, <1>4, <1>5, <1>6, <1>7, <1>8, <1>9, <1>10 DEF CallSound

\* A step from a sound ledger leads to one that has grown from it.
Onward == StepsInv' /\ Grows(store, store')

\* One handler took a step; what it left the ledger and its call as is sound,
\* and the other handlers rely on nothing that changed.
LEMMA HandlerStep ==
    ASSUME StepsInv, RegistryTypeOK', Kept(store, store'), Reported(store'),
           NEW h \in Handlers, NEW d \in Call, CallSound(store', d), Continue(h, d)
    PROVE  Onward
<1>1. store \in Store /\ Sound(store) /\ store' \in Store /\ Sound(store') /\ Grows(store, store')
  BY DEF StepsInv, Inv, TypeOK, Kept
<1>2. calls' = [calls EXCEPT ![h] = d] /\ calls \in [Handlers -> Call]
  BY DEF Continue, StepsInv
<1>3. calls' \in [Handlers -> Call]
  BY <1>2
<1>4. ASSUME NEW g \in Handlers
      PROVE  CallSound(store', calls'[g])
  <2>1. CASE g = h
    BY <1>2, <2>1
  <2>2. CASE g # h
    <3>1. calls[g] \in Call /\ CallSound(store, calls[g]) /\ calls'[g] = calls[g]
      BY <1>2, <2>2 DEF StepsInv
    <3> QED BY <1>1, <3>1, CallStays
  <2> QED BY <2>1, <2>2
<1> QED BY <1>1, <1>3, <1>4 DEF Onward, StepsInv, Inv, TypeOK, Reported, OnRecord

\* An idle handler holds nothing.
LEMMA IdleParts ==
    /\ Idle \in Call /\ Idle.pc = "idle" /\ Idle.completing = FALSE
    /\ \A m \in MessageRefs : Idle.todo[m] = AbsentMessage
<1>1. AbsentAttempt \in Attempt
  BY StoreAssumption DEF AbsentAttempt, Attempt, Countdown, Expired
<1>2. AbsentMessage \in Message
  BY DEF AbsentMessage, Message
<1>3. EmptyStore.messages = [m \in MessageRefs |-> AbsentMessage]
  BY DEF EmptyStore
<1>4. "claimed" \in CheckpointState /\ 0 \in 0..MaxFollowUps
  BY HandoffAssumption DEF CheckpointState, AttemptState
<1>5. [e \in Endpoints |-> {}] \in [Endpoints -> SUBSET Capabilities]
  OBVIOUS
<1>6. EmptyStore.messages \in [MessageRefs -> Message]
  BY <1>2, <1>3
<1> HIDE DEF AbsentAttempt, AbsentMessage, EmptyStore
<1>7. Idle \in Call
  BY <1>1, <1>2, <1>4, <1>5, <1>6 DEF Idle, Call, Step
<1> QED BY <1>3, <1>7 DEF Idle

\* So any ledger will do for it.
LEMMA IdleSound ==
    ASSUME NEW S PROVE CallSound(S, Idle)
BY IdleParts DEF CallSound, OwnerPlaces, HoldingPlaces, ReportedPlaces

-----------------------------------------------------------------------------
(* The states of attempts.                                                 *)

\* No operation of the store but a write-back puts an attempt in a state that
\* its worker should have reported.
Relabels(S, T) ==
    \A a \in AttemptRefs :
        T.attempts[a].state \in {S.attempts[a].state, "claimed", "orphaned", "canceled"}

\* An attempt that is not relabelled keeps the report behind its state.
LEMMA ReportedStays ==
    ASSUME NEW S, NEW T, Reported(S), Relabels(S, T), Grows(S, T)
    PROVE  Reported(T)
BY DEF Reported, OnRecord, Relabels, Grows

\* The operations, one by one: a claim labels its attempt claimed.
LEMMA ClaimAtRelabels ==
    ASSUME NEW S \in Store, NEW m \in MessageRefs, NEW e \in Endpoints,
           NEW a \in AttemptRefs, NEW n
    PROVE  Relabels(S, ClaimAt(S, m, e, a, n))
<1> DEFINE att == [state |-> "claimed", msg |-> m, ep |-> e, lease |-> LeaseTicks,
                   rev |-> 1, epoch |-> n + 1]
<1>1. ClaimAt(S, m, e, a, n).attempts = [S.attempts EXCEPT ![a] = att]
  BY DEF ClaimAt, Store
<1>2. att.state = "claimed"
  OBVIOUS
<1> HIDE DEF att
<1> QED BY <1>1, <1>2, StoreParts DEF Relabels

\* Losing an owner labels its attempt orphaned, whether or not the message goes on.
LEMMA OrphaningRelabels ==
    ASSUME NEW S \in Store, NEW m \in MessageRefs
    PROVE  /\ Relabels(S, OrphanCurrent(S, m))
           /\ Relabels(S, DeadLetterMessage(S, m))
<1> DEFINE cur == S.messages[m].attempt
           F == [S.attempts EXCEPT ![cur] = [S.attempts[cur] EXCEPT !.state = "orphaned"]]
<1>1. OrphanCurrent(S, m).attempts = F /\ DeadLetterMessage(S, m).attempts = F
  BY DEF OrphanCurrent, DeadLetterMessage, Store
<1>2. \A a \in AttemptRefs : F[a].state \in {S.attempts[a].state, "orphaned"}
  BY StoreParts DEF Attempt
<1> HIDE DEF F
<1> QED BY <1>1, <1>2 DEF Relabels

\* So does reconciling, for every owner whose lease ran out.
LEMMA ReconcileRelabels ==
    ASSUME NEW S \in Store
    PROVE  Relabels(S, ReconcileStore(S))
<1> DEFINE owners == {S.messages[m].attempt : m \in {m \in MessageRefs : LeaseRanOut(S, m)}}
<1>1. ReconcileStore(S).attempts = [a \in AttemptRefs |->
        IF a \in owners THEN [S.attempts[a] EXCEPT !.state = "orphaned"] ELSE S.attempts[a]]
  BY DEF ReconcileStore, Store
<1>2. \A a \in AttemptRefs : [S.attempts[a] EXCEPT !.state = "orphaned"].state = "orphaned"
  BY StoreParts DEF Attempt
<1> HIDE DEF owners
<1> QED BY <1>1, <1>2 DEF Relabels

\* Time labels nothing.
LEMMA TickRelabels ==
    ASSUME NEW S \in Store
    PROVE  Relabels(S, TickStore(S))
<1>1. TickStore(S).attempts = [a \in AttemptRefs |->
        [S.attempts[a] EXCEPT !.lease = Elapse(S.attempts[a].lease)]]
  BY DEF TickStore, Store
<1>2. \A a \in AttemptRefs :
        [S.attempts[a] EXCEPT !.lease = Elapse(S.attempts[a].lease)].state = S.attempts[a].state
  BY StoreParts DEF Attempt
<1> QED BY <1>1, <1>2 DEF Relabels

\* Neither way of claiming labels an attempt with a report.
LEMMA ClaimRelabels ==
    ASSUME NEW S \in Store, NEW m \in MessageRefs, NEW e \in Endpoints, NEW a \in AttemptRefs
    PROVE  /\ Relabels(S, ClaimMessageStore(S, m, e, a))
           /\ Relabels(S, ClaimNextStore(S, m, e, a))
<1>1. Relabels(S, S)
  BY DEF Relabels
<1>2. Relabels(S, ClaimAvailableMessage(S, m, e, a)) /\ Relabels(S, TakeoverMessage(S, m, e, a))
  BY ClaimAtRelabels DEF ClaimAvailableMessage, TakeoverMessage
<1>3. Relabels(S, DeadLetterMessage(S, m))
  BY OrphaningRelabels
<1>4. CASE ~LeaseRanOut(S, m)
  BY <1>1, <1>2, <1>3, <1>4 DEF ClaimMessageStore, ClaimNextStore
<1>5. CASE LeaseRanOut(S, m)
  <2> DEFINE R == OrphanCurrent(S, m)
  <2>1. Relabels(S, TakeoverMessage(R, m, e, a))
    <3> DEFINE n == R.messages[m].redelivery + 1
               att == [state |-> "claimed", msg |-> m, ep |-> e, lease |-> LeaseTicks,
                       rev |-> 1, epoch |-> n + 1]
               cur == S.messages[m].attempt
    <3>1. Relabels(S, R)
      BY OrphaningRelabels
    <3>2. R.attempts = [S.attempts EXCEPT ![cur] = [S.attempts[cur] EXCEPT !.state = "orphaned"]]
      BY DEF OrphanCurrent, Store
    <3>3. TakeoverMessage(R, m, e, a).attempts = [R.attempts EXCEPT ![a] = att]
      BY DEF TakeoverMessage, ClaimAt, OrphanCurrent, Store
    <3>4. att.state = "claimed"
      OBVIOUS
    <3> HIDE DEF att, n, R
    <3>5. DOMAIN R.attempts = AttemptRefs
      BY <3>2, StoreParts
    <3>6. \A b \in AttemptRefs :
            TakeoverMessage(R, m, e, a).attempts[b].state \in {R.attempts[b].state, "claimed"}
      BY <3>3, <3>4, <3>5
    <3> QED BY <3>1, <3>6 DEF Relabels
  <2> QED BY <1>1, <1>2, <1>3, <2>1 DEF ClaimMessageStore, ClaimNextStore
<1> QED BY <1>4, <1>5

\* The lease of an attempt just granted is the one its request fixed.
LEMMA GrantedKept ==
    ASSUME NEW S \in Store, Sound(S), NEW a \in AttemptRefs, NEW l \in Countdown(LeaseTicks)
    PROVE  Kept(S, Granted(S, a, l)) /\ Relabels(S, Granted(S, a, l))
BY LeaseKept DEF Granted, Relabels

\* An attempt may be written back in a state that is on record.
LEMMA WriteBackKept ==
    ASSUME NEW S \in Store, Sound(S), Reported(S), NEW a \in AttemptRefs, Exists(S, a),
           NEW att \in Attempt, att.state # "absent", att.msg = S.attempts[a].msg,
           att.epoch = S.attempts[a].epoch, OnRecord(S, a, att.state)
    PROVE  /\ Kept(S, UpdateAttempt(S, a, att)) /\ Reported(UpdateAttempt(S, a, att))
           /\ UpdateAttempt(S, a, att).checkpoints = S.checkpoints
           /\ UpdateAttempt(S, a, att).attempts[a] = att
<1> DEFINE T == UpdateAttempt(S, a, att)
<1>1. Kept(S, T)
  BY UpdateAttemptKept
<1>2. T.attempts = [S.attempts EXCEPT ![a] = att] /\ T.checkpoints = S.checkpoints
  BY DEF UpdateAttempt, Store
<1>3. T.attempts[a] = att /\ \A b \in AttemptRefs : b # a => T.attempts[b] = S.attempts[b]
  BY <1>2, StoreParts
<1> HIDE DEF T
<1>4. Reported(T)
  BY <1>2, <1>3 DEF Reported, OnRecord
<1> QED BY <1>1, <1>2, <1>3, <1>4 DEF T

\* Writing back a message touches no attempt.
LEMMA WriteMessageKept ==
    ASSUME NEW S \in Store, Sound(S), Reported(S), NEW m \in MessageRefs, Saved(S, m),
           NEW rec \in Message, RecordFit(S, m, rec)
    PROVE  Kept(S, UpdateMessage(S, m, rec)) /\ Reported(UpdateMessage(S, m, rec))
<1> DEFINE T == UpdateMessage(S, m, rec)
<1>1. Kept(S, T)
  BY UpdateMessageKept DEF RecordFit
<1>2. T.attempts = S.attempts /\ T.checkpoints = S.checkpoints
  BY DEF UpdateMessage, Store
<1> QED BY <1>1, <1>2 DEF Reported, OnRecord

-----------------------------------------------------------------------------
(* The steps of a handler: it reads, or writes what its copies allow.      *)

\* A step that only reads.
LEMMA ReadStep ==
    ASSUME StepsInv, ReadOnly, NEW h \in Handlers, NEW d \in Call, CallSound(store, d),
           Continue(h, d)
    PROVE  Onward
<1>1. store' = store /\ RegistryTypeOK'
  BY DEF ReadOnly, StepsInv, Inv, TypeOK, RegistryTypeOK
<1>2. Kept(store, store)
  BY DEF StepsInv, Inv, TypeOK, Kept, Grows
<1> QED BY <1>1, <1>2, HandlerStep DEF StepsInv

\* A step that writes a ledger kept sound.
LEMMA WriteStep ==
    ASSUME StepsInv, NEW S, Write(S), Kept(store, S), Reported(S),
           NEW h \in Handlers, NEW d \in Call, CallSound(S, d), Continue(h, d)
    PROVE  Onward
<1>1. store' = S /\ RegistryTypeOK'
  BY DEF Write, StepsInv, Inv, TypeOK, RegistryTypeOK
<1> QED BY <1>1, HandlerStep

\* What the invariant says of one handler's call.
LEMMA CallOf ==
    ASSUME StepsInv, NEW h \in Handlers
    PROVE  /\ calls[h] \in Call /\ CallSound(store, calls[h])
           /\ store \in Store /\ Sound(store) /\ Reported(store) /\ Inv
BY DEF StepsInv, Inv, TypeOK

\* What a call about an owned attempt may rely on.
LEMMA OwnerParts ==
    ASSUME NEW S \in Store, Sound(S), NEW c \in Call, CallSound(S, c),
           c.pc \in OwnerPlaces \cup {"cancel_attempt"}
    PROVE  /\ c.a \in AttemptRefs /\ Exists(S, c.a)
           /\ c.att.msg = S.attempts[c.a].msg
           /\ c.att.msg \in MessageRefs /\ Saved(S, c.att.msg)
BY DEF CallSound, Sound, AttemptFounded

\* A checkpoint begins with a copy of its attempt, which exists.
LEMMA BeginCheckpointSound ==
    ASSUME StepsInv, NEW h \in Handlers, NEW a \in AttemptRefs,
           NEW report \in CheckpointState, NEW completing \in BOOLEAN,
           NEW left \in 0..MaxFollowUps, completing => report = "completed",
           BeginCheckpoint(h, a, report, completing, left)
    PROVE  Onward
<1> DEFINE d == [Idle EXCEPT !.pc = "save", !.a = a, !.report = report,
                             !.completing = completing, !.left = left,
                             !.att = store.attempts[a]]
<1>1. /\ store.attempts[a] \in Attempt /\ Exists(store, a)
      /\ Continue(h, d) /\ ReadOnly
  BY CallOf, StoreParts DEF BeginCheckpoint, Live, Open, Exists
<1>2. d \in Call
  BY <1>1, IdleParts DEF Call, Step
<1>3. /\ d.pc = "save" /\ d.a = a /\ d.att = store.attempts[a] /\ d.completing = completing
      /\ d.report = report /\ d.todo = Idle.todo
  BY IdleParts DEF Call
<1> HIDE DEF d
<1>4. CallSound(store, d)
  BY <1>1, <1>3, IdleParts
     DEF CallSound, OwnerPlaces, HoldingPlaces, ReportedPlaces, Exists
<1> QED BY <1>1, <1>2, <1>4, ReadStep

\* The checkpoint is recorded, before anything else says what it reports.
LEMMA SaveTheCheckpointSound ==
    ASSUME StepsInv, NEW h \in Handlers, SaveTheCheckpoint(h)
    PROVE  Onward
<1> DEFINE c == calls[h]
           S == SaveCheckpoint(store, c.a, c.report)
           n == store.checkpoints[c.a].count + 1
           att == [c.att EXCEPT !.state = c.report, !.rev = n]
           d == [c EXCEPT !.pc = "attempt", !.att = att]
<1>1. /\ c \in Call /\ CallSound(store, c) /\ c.pc = "save"
      /\ store \in Store /\ Sound(store) /\ Reported(store)
  BY CallOf DEF SaveTheCheckpoint, At
<1>2. c.a \in AttemptRefs /\ Exists(store, c.a) /\ c.att.msg = store.attempts[c.a].msg
  BY <1>1, OwnerParts DEF OwnerPlaces
<1>3. c.report \in CheckpointState /\ c.report \in AttemptState /\ c.report # "absent"
  BY <1>1, CallParts DEF CheckpointState, AttemptState
<1>4. /\ Kept(store, S) /\ c.report \in S.checkpoints[c.a].reported
      /\ S.attempts = store.attempts
  BY <1>1, <1>2, <1>3, CheckpointKept
<1>5. n \in Nat
  BY <1>1, <1>2, StoreParts DEF Checkpoints
<1>6. Write(S) /\ Continue(h, d)
  <2>1. To(c, "attempt") = [c EXCEPT !.pc = "attempt"]
    BY DEF To
  <2>2. [To(c, "attempt") EXCEPT !.att.state = c.report, !.att.rev = n] = d
    BY <1>1, <2>1, CallParts DEF Call, Attempt
  <2> QED BY <2>2 DEF SaveTheCheckpoint
<1>7. /\ att \in Attempt /\ att.state = c.report /\ att.msg = c.att.msg
      /\ att.epoch = c.att.epoch
  <2> DEFINE old == c.att
             r == c.report
  <2>1. old \in Attempt /\ r \in AttemptState
    BY <1>1, <1>3, CallParts
  <2>2. att = [old EXCEPT !.state = r, !.rev = n]
    OBVIOUS
  <2> HIDE DEF old, r, att, n
  <2>3. /\ att \in Attempt /\ att.state = r /\ att.msg = old.msg /\ att.epoch = old.epoch
    BY <2>1, <2>2, <1>5 DEF Attempt
  <2> QED BY <2>3 DEF old, r
<1> HIDE DEF S, att, n, c
<1>8. /\ d \in Call /\ d.pc = "attempt" /\ d.att = att /\ d.a = c.a
      /\ d.report = c.report /\ d.completing = c.completing /\ d.todo = c.todo
  BY <1>1, <1>7 DEF Call, Step
<1> HIDE DEF d
<1>9. Reported(S)
  BY <1>1, <1>4, ReportedStays DEF Relabels, Kept
<1>10. CallSound(S, c)
  BY <1>1, <1>4, CallStays DEF Kept
<1>11. CallSound(S, d)
  BY <1>2, <1>3, <1>4, <1>7, <1>8, <1>10, <1>1
     DEF CallSound, OwnerPlaces, HoldingPlaces, ReportedPlaces, OnRecord
<1> QED BY <1>4, <1>6, <1>8, <1>9, <1>11, WriteStep

\* The attempt is written back late, under a report that is on record by now.
LEMMA WriteAttemptSound ==
    ASSUME StepsInv, NEW h \in Handlers, WriteAttempt(h) \/ CloseAttempt(h)
    PROVE  Onward
<1> DEFINE c == calls[h]
           S == UpdateAttempt(store, c.a, c.att)
           att == [AbsentAttempt EXCEPT !.msg = c.att.msg]
           pc == IF c.pc = "attempt" THEN "read" ELSE "finish"
           d == [c EXCEPT !.pc = pc, !.att = att]
<1>1. /\ c \in Call /\ CallSound(store, c) /\ c.pc \in {"attempt", "close"}
      /\ store \in Store /\ Sound(store) /\ Reported(store)
  BY CallOf DEF WriteAttempt, CloseAttempt, At
<1>2. /\ c.a \in AttemptRefs /\ Exists(store, c.a) /\ c.att.msg = store.attempts[c.a].msg
      /\ c.att.msg \in MessageRefs
  BY <1>1, OwnerParts DEF OwnerPlaces
<1>3. /\ c.att \in Attempt /\ c.att.state # "absent"
      /\ c.att.epoch = store.attempts[c.a].epoch /\ OnRecord(store, c.a, c.att.state)
  BY <1>1, CallParts DEF CallSound, HoldingPlaces
<1>4. Kept(store, S) /\ Reported(S) /\ S.attempts[c.a] = c.att
  BY <1>1, <1>2, <1>3, WriteBackKept
<1>5. Write(S) /\ Continue(h, d)
  <2>1. /\ To(c, pc) = [c EXCEPT !.pc = pc] /\ OnlyMessageRef(c.att) = att
    BY DEF To, OnlyMessageRef
  <2>2. [To(c, pc) EXCEPT !.att = OnlyMessageRef(@)] = d
    BY <1>1, <2>1 DEF Call
  <2> QED BY <1>1, <2>2 DEF WriteAttempt, CloseAttempt, At
<1>6. att \in Attempt /\ att.msg = c.att.msg
  BY <1>2, StoreAssumption DEF Attempt, AbsentAttempt, Countdown, Expired
<1>7. pc \in Step /\ (c.pc = "attempt" <=> pc = "read") /\ (c.pc = "close" <=> pc = "finish")
  BY <1>1 DEF Step
<1> HIDE DEF S, att, c, pc
<1>8. /\ d \in Call /\ d.pc = pc /\ d.att = att /\ d.a = c.a /\ d.msg = c.msg
      /\ d.report = c.report /\ d.completing = c.completing /\ d.todo = c.todo
  BY <1>1, <1>6, <1>7 DEF Call
<1> HIDE DEF d
<1>9. CallSound(S, c)
  BY <1>1, <1>4, CallStays DEF Kept
<1>10. CallSound(S, d)
  BY <1>1, <1>6, <1>7, <1>8, <1>9
     DEF CallSound, OwnerPlaces, HoldingPlaces, ReportedPlaces
<1> QED BY <1>4, <1>5, <1>8, <1>10, WriteStep

\* The message is read: what is read is sound, and stays so while it is held.
LEMMA ReadMessageSound ==
    ASSUME StepsInv, NEW h \in Handlers, ReadMessage(h)
    PROVE  Onward
<1> DEFINE c == calls[h]
           rec == store.messages[c.att.msg]
           d == [c EXCEPT !.pc = "message", !.msg = rec]
<1>1. /\ c \in Call /\ CallSound(store, c) /\ c.pc = "read"
      /\ store \in Store /\ Sound(store)
  BY CallOf DEF ReadMessage, At
<1>2. c.att.msg \in MessageRefs /\ Saved(store, c.att.msg)
  BY <1>1, OwnerParts DEF OwnerPlaces
<1>3. rec \in Message /\ RecordFit(store, c.att.msg, rec)
  BY <1>1, <1>2, StoreParts DEF RecordFit, Saved, Sound
<1>4. ReadOnly /\ Continue(h, d)
  <2>1. To(c, "message") = [c EXCEPT !.pc = "message"]
    BY DEF To
  <2>2. [To(c, "message") EXCEPT !.msg = rec] = d
    BY <1>1, <2>1 DEF Call
  <2> QED BY <2>2 DEF ReadMessage
<1> HIDE DEF rec, c
<1>5. /\ d \in Call /\ d.pc = "message" /\ d.att = c.att /\ d.a = c.a /\ d.msg = rec
      /\ d.report = c.report /\ d.completing = c.completing /\ d.todo = c.todo
  BY <1>1, <1>3 DEF Call, Step
<1> HIDE DEF d
<1>6. CallSound(store, d)
  BY <1>1, <1>3, <1>5 DEF CallSound, OwnerPlaces, HoldingPlaces, ReportedPlaces
<1> QED BY <1>4, <1>5, <1>6, ReadStep

\* The message is written back late, in the state its attempt reported.
LEMMA WriteMessageSound ==
    ASSUME StepsInv, NEW h \in Handlers, WriteMessage(h)
    PROVE  Onward
<1> DEFINE c == calls[h]
           m == c.att.msg
           rec == [c.msg EXCEPT !.state = MessageStateAfter(c.report, @)]
           S == UpdateMessage(store, m, rec)
           d == IF c.completing THEN [c EXCEPT !.pc = "reread"] ELSE Idle
<1>1. /\ c \in Call /\ CallSound(store, c) /\ c.pc = "message"
      /\ store \in Store /\ Sound(store) /\ Reported(store)
  BY CallOf DEF WriteMessage, At
<1>2. /\ c.a \in AttemptRefs /\ store.attempts[c.a].msg = m
      /\ m \in MessageRefs /\ Saved(store, m)
  BY <1>1, OwnerParts DEF OwnerPlaces
<1>3. /\ c.msg \in Message /\ c.msg.state # "absent" /\ RecordSound(store, m, c.msg)
      /\ c.report \in CheckpointState /\ c.report \in store.checkpoints[c.a].reported
  BY <1>1, CallParts DEF CallSound, RecordFit, ReportedPlaces
<1>4. c.report = "completed" => CompletionRecorded(store, m)
  BY <1>2, <1>3 DEF CompletionRecorded
<1>5. rec \in Message /\ RecordFit(store, m, rec)
  BY <1>1, <1>2, <1>3, <1>4, ReportedState DEF RecordFit
<1>6. Write(S) /\ Continue(h, d)
  BY <1>1 DEF WriteMessage, At, To
<1> HIDE DEF rec
<1>7. Kept(store, S) /\ Reported(S)
  BY <1>1, <1>2, <1>5, WriteMessageKept
<1>8. CallSound(S, c)
  BY <1>1, <1>7, CallStays DEF Kept
<1> HIDE DEF S, c, m
<1>9. d \in Call /\ CallSound(S, d)
  <2>1. CASE c.completing
    <3>1. /\ d \in Call /\ d.pc = "reread" /\ d.att = c.att /\ d.a = c.a
          /\ d.report = c.report /\ d.completing = c.completing /\ d.todo = c.todo
      BY <1>1, <2>1 DEF Call, Step
    <3> HIDE DEF d
    <3> QED BY <1>1, <1>8, <2>1, <3>1 DEF CallSound, OwnerPlaces, HoldingPlaces, ReportedPlaces
  <2>2. CASE ~c.completing
    BY <2>2, IdleParts, IdleSound
  <2> QED BY <2>1, <2>2
<1> HIDE DEF d
<1> QED BY <1>6, <1>7, <1>9, WriteStep

\* A completion reads its attempt once more, and closes it with its report on record.
LEMMA RereadAttemptSound ==
    ASSUME StepsInv, NEW h \in Handlers, RereadAttempt(h)
    PROVE  Onward
<1> DEFINE c == calls[h]
           old == store.attempts[c.a]
           att == [old EXCEPT !.state = "completed"]
           d == [c EXCEPT !.pc = "reread_message", !.att = att]
<1>1. /\ c \in Call /\ CallSound(store, c) /\ c.pc = "reread"
      /\ store \in Store /\ Sound(store)
  BY CallOf DEF RereadAttempt, At
<1>2. c.a \in AttemptRefs /\ old \in Attempt
  BY <1>1, OwnerParts, StoreParts DEF OwnerPlaces
<1>3. ReadOnly /\ Continue(h, d)
  <2>1. To(c, "reread_message") = [c EXCEPT !.pc = "reread_message"]
    BY DEF To
  <2>2. [To(c, "reread_message") EXCEPT !.att = att] = d
    BY <1>1, <2>1 DEF Call
  <2> QED BY <2>2 DEF RereadAttempt
<1>4. "completed" \in AttemptState
  BY DEF AttemptState
<1> HIDE DEF c
<1>5. /\ att \in Attempt /\ att.state = "completed" /\ att.msg = store.attempts[c.a].msg
      /\ att.epoch = store.attempts[c.a].epoch
  BY <1>2, <1>4 DEF Attempt
<1> HIDE DEF att
<1>6. /\ d \in Call /\ d.pc = "reread_message" /\ d.att = att /\ d.a = c.a
      /\ d.report = c.report /\ d.completing = c.completing /\ d.todo = c.todo
  BY <1>1, <1>5 DEF Call, Step
<1> HIDE DEF d
<1>7. CallSound(store, d)
  BY <1>1, <1>5, <1>6
     DEF CallSound, OwnerPlaces, HoldingPlaces, ReportedPlaces, OnRecord
<1> QED BY <1>3, <1>6, <1>7, ReadStep

\* It reads its message once more.
LEMMA RereadMessageSound ==
    ASSUME StepsInv, NEW h \in Handlers, RereadMessage(h)
    PROVE  Onward
<1> DEFINE c == calls[h]
           m == c.att.msg
           old == store.messages[m]
           rec == [old EXCEPT !.state = "completed"]
           d == [c EXCEPT !.pc = "close", !.msg = rec]
<1>1. /\ c \in Call /\ CallSound(store, c) /\ c.pc = "reread_message"
      /\ store \in Store /\ Sound(store)
  BY CallOf DEF RereadMessage, At
<1>2. /\ c.a \in AttemptRefs /\ store.attempts[c.a].msg = m
      /\ m \in MessageRefs /\ Saved(store, m)
  BY <1>1, OwnerParts DEF OwnerPlaces
<1>3. CompletionRecorded(store, m)
  BY <1>1, <1>2 DEF CallSound, ReportedPlaces, CompletionRecorded
<1>4. old \in Message /\ old.state # "absent" /\ RecordSound(store, m, old)
  BY <1>1, <1>2, StoreParts DEF Saved, Sound
<1>5. ReadOnly /\ Continue(h, d)
  <2>1. To(c, "close") = [c EXCEPT !.pc = "close"]
    BY DEF To
  <2>2. [To(c, "close") EXCEPT !.msg = rec] = d
    BY <1>1, <2>1 DEF Call
  <2> QED BY <2>2 DEF RereadMessage
<1>6. "completed" \in CheckpointState /\ MessageStateAfter("completed", old.state) = "completed"
  BY DEF CheckpointState, AttemptState, MessageStateAfter
<1> HIDE DEF c, old
<1>7. rec \in Message /\ RecordFit(store, m, rec)
  BY <1>1, <1>2, <1>3, <1>4, <1>6, ReportedState DEF RecordFit
<1> HIDE DEF rec
<1>8. /\ d \in Call /\ d.pc = "close" /\ d.att = c.att /\ d.a = c.a /\ d.msg = rec
      /\ d.report = c.report /\ d.completing = c.completing /\ d.todo = c.todo
  BY <1>1, <1>7 DEF Call, Step
<1> HIDE DEF d
<1>9. CallSound(store, d)
  BY <1>1, <1>7, <1>8 DEF CallSound, OwnerPlaces, HoldingPlaces, ReportedPlaces
<1> QED BY <1>5, <1>8, <1>9, ReadStep

\* It closes the message, of which its attempt reported the completion.
LEMMA CloseMessageSound ==
    ASSUME StepsInv, NEW h \in Handlers, CloseMessage(h)
    PROVE  Onward
<1> DEFINE c == calls[h]
           S == UpdateMessage(store, c.att.msg, c.msg)
           d == IF c.left > 0 THEN [c EXCEPT !.pc = "follow"] ELSE Idle
<1>1. /\ c \in Call /\ CallSound(store, c) /\ c.pc = "finish"
      /\ store \in Store /\ Sound(store) /\ Reported(store)
  BY CallOf DEF CloseMessage, At
<1>2. c.att.msg \in MessageRefs /\ Saved(store, c.att.msg)
  BY <1>1, OwnerParts DEF OwnerPlaces
<1>3. c.msg \in Message /\ RecordFit(store, c.att.msg, c.msg)
  BY <1>1, CallParts DEF CallSound
<1>4. Write(S) /\ Continue(h, d)
  BY DEF CloseMessage, To
<1>5. Kept(store, S) /\ Reported(S)
  BY <1>1, <1>2, <1>3, WriteMessageKept
<1>6. CallSound(S, c)
  BY <1>1, <1>5, CallStays DEF Kept
<1> HIDE DEF S, c
<1>7. d \in Call /\ CallSound(S, d)
  <2>1. CASE c.left > 0
    <3>1. /\ d \in Call /\ d.pc = "follow" /\ d.att = c.att /\ d.a = c.a
          /\ d.report = c.report /\ d.completing = c.completing /\ d.todo = c.todo
      BY <1>1, <2>1 DEF Call, Step
    <3> HIDE DEF d
    <3> QED BY <1>1, <1>6, <3>1 DEF CallSound, OwnerPlaces, HoldingPlaces, ReportedPlaces
  <2>2. CASE ~(c.left > 0)
    BY <2>2, IdleParts, IdleSound
  <2> QED BY <2>1, <2>2
<1> HIDE DEF d
<1> QED BY <1>4, <1>5, <1>7, WriteStep

\* A follow-up is saved under a fresh ref, in the task of the message it follows.
LEMMA SubmitFollowUpSound ==
    ASSUME StepsInv, NEW h \in Handlers, NEW n \in MessageRefs, NEW r \in Requests,
           SubmitFollowUp(h, n, r)
    PROVE  Onward
<1> DEFINE c == calls[h]
           m == c.att.msg
           req == FollowUpRequest(r, m, store.requests[m].task)
           d == IF c.left > 1 THEN [c EXCEPT !.left = c.left - 1] ELSE Idle
<1>1. /\ c \in Call /\ CallSound(store, c) /\ c.pc = "follow"
      /\ store \in Store /\ Sound(store) /\ Reported(store) /\ Inv
  BY CallOf DEF SubmitFollowUp, At
<1>2. m \in MessageRefs /\ Saved(store, m)
  BY <1>1, OwnerParts DEF OwnerPlaces
<1>3. req \in Request
  <2>1. store.requests[m].task \in Tasks
    BY <1>1, <1>2 DEF Sound, Request
  <2> QED BY <1>2, <2>1, FollowUpTyped, HandoffAssumption
<1>4. IngressMessage(n, req) /\ Continue(h, d)
  BY DEF SubmitFollowUp
<1>5. Kept(store, store') /\ store'.attempts = store.attempts
  BY <1>1, <1>3, <1>4, IngressKept DEF IngressMessage, SaveMessage, Store
<1>6. Reported(store')
  BY <1>1, <1>5, ReportedStays DEF Relabels, Kept
<1>7. CallSound(store', c)
  BY <1>1, <1>5, CallStays DEF Kept
<1>8. RegistryTypeOK'
  BY <1>1, <1>4 DEF IngressMessage, Inv, TypeOK, RegistryTypeOK
<1> HIDE DEF c
<1>9. d \in Call /\ CallSound(store', d)
  <2>1. CASE c.left > 1
    <3>1. c.left - 1 \in 0..MaxFollowUps
      BY <1>1, <2>1, HandoffAssumption, CallParts
    <3>2. /\ d \in Call /\ d.pc = "follow" /\ d.att = c.att /\ d.a = c.a
          /\ d.report = c.report /\ d.completing = c.completing /\ d.todo = c.todo
      BY <1>1, <2>1, <3>1 DEF Call, Step
    <3> HIDE DEF d
    <3> QED BY <1>1, <1>7, <3>2 DEF CallSound, OwnerPlaces, HoldingPlaces, ReportedPlaces
  <2>2. CASE ~(c.left > 1)
    BY <2>2, IdleParts, IdleSound
  <2> QED BY <2>1, <2>2
<1> HIDE DEF d
<1> QED BY <1>4, <1>5, <1>6, <1>8, <1>9, HandlerStep

\* A refresh begins with a copy of an open attempt.
LEMMA BeginRefreshSound ==
    ASSUME StepsInv, NEW h \in Handlers, NEW a \in AttemptRefs, BeginRefresh(h, a)
    PROVE  Onward
<1> DEFINE old == store.attempts[a]
           att == [old EXCEPT !.lease = LeaseTicks]
           d == [Idle EXCEPT !.pc = "lease", !.a = a, !.att = att]
<1>1. /\ old \in Attempt /\ Exists(store, a) /\ OnRecord(store, a, old.state)
      /\ Continue(h, d) /\ ReadOnly
  BY CallOf, StoreParts DEF BeginRefresh, Live, Open, Exists, Reported
<1>2. LeaseTicks \in Countdown(LeaseTicks)
  BY StoreAssumption DEF Countdown, Expired
<1>3. att \in Attempt /\ att.state = old.state /\ att.msg = old.msg /\ att.epoch = old.epoch
  BY <1>1, <1>2 DEF Attempt
<1> HIDE DEF att
<1>4. /\ d \in Call /\ d.pc = "lease" /\ d.a = a /\ d.att = att
      /\ d.completing = FALSE /\ d.todo = Idle.todo
  BY <1>3, IdleParts DEF Call, Step
<1> HIDE DEF d
<1>5. CallSound(store, d)
  BY <1>1, <1>3, <1>4, IdleParts
     DEF CallSound, OwnerPlaces, HoldingPlaces, ReportedPlaces, Exists
<1> QED BY <1>1, <1>4, <1>5, ReadStep

\* The copy is written back late, with a new lease and the state it was read with.
LEMMA WriteLeaseSound ==
    ASSUME StepsInv, NEW h \in Handlers, WriteLease(h)
    PROVE  Onward
<1> DEFINE c == calls[h]
           S == UpdateAttempt(store, c.a, c.att)
<1>1. /\ c \in Call /\ CallSound(store, c) /\ c.pc = "lease"
      /\ store \in Store /\ Sound(store) /\ Reported(store)
  BY CallOf DEF WriteLease, At
<1>2. /\ c.a \in AttemptRefs /\ Exists(store, c.a) /\ c.att.msg = store.attempts[c.a].msg
      /\ c.att \in Attempt /\ c.att.state # "absent"
      /\ c.att.epoch = store.attempts[c.a].epoch /\ OnRecord(store, c.a, c.att.state)
  BY <1>1, OwnerParts, CallParts DEF CallSound, OwnerPlaces, HoldingPlaces
<1>3. Kept(store, S) /\ Reported(S)
  BY <1>1, <1>2, WriteBackKept
<1> QED BY <1>3, IdleParts, IdleSound, WriteStep DEF WriteLease

\* A request that ends without a write leaves everything as it is.
LEMMA NothingDone ==
    ASSUME StepsInv, NEW h \in Handlers, FollowUpRefused(h) \/ FindNothing(h)
    PROVE  Onward
<1>1. ReadOnly /\ Continue(h, Idle)
  BY DEF FollowUpRefused, FindNothing
<1> QED BY <1>1, IdleParts, IdleSound, ReadStep

-----------------------------------------------------------------------------
(* Claims.                                                                 *)

\* The attempt that a claim will make, of a message or of none yet.
LEMMA ClaimantParts ==
    ASSUME NEW m \in MessageRefs \cup {NoMessage}, NEW e \in Endpoints
    PROVE  /\ Claimant(m, e) \in Attempt
           /\ Claimant(m, e).msg = m /\ Claimant(m, e).ep = e
<1>1. LeaseTicks \in Countdown(LeaseTicks)
  BY StoreAssumption DEF Countdown, Expired
<1>2. AbsentAttempt \in Attempt
  BY StoreAssumption DEF AbsentAttempt, Attempt, Countdown, Expired
<1> QED BY <1>1, <1>2 DEF Attempt, Claimant

\* A claim is checked against a message whose dependencies have completed.
LEMMA BeginClaimSound ==
    ASSUME StepsInv, NEW h \in Handlers, NEW e \in Endpoints, NEW m \in MessageRefs,
           BeginClaim(h, e, m)
    PROVE  Onward
<1> DEFINE att == Claimant(m, e)
           d == [Idle EXCEPT !.pc = "claim", !.att = att]
<1>1. /\ store \in Store /\ Sound(store) /\ Saved(store, m) /\ Founded(store, m)
      /\ ReadOnly /\ Continue(h, d)
  BY CallOf, CompletedIsRecorded DEF BeginClaim, MayClaim
<1>2. att \in Attempt /\ att.msg = m /\ att.ep = e
  BY ClaimantParts
<1> HIDE DEF att
<1>3. /\ d \in Call /\ d.pc = "claim" /\ d.att = att /\ d.completing = FALSE
      /\ d.todo = Idle.todo
  BY <1>2, IdleParts DEF Call, Step
<1> HIDE DEF d
<1>4. CallSound(store, d)
  BY <1>1, <1>2, <1>3, IdleParts DEF CallSound, OwnerPlaces, HoldingPlaces, ReportedPlaces
<1> QED BY <1>1, <1>3, <1>4, ReadStep

\* What a claim leaves, with the lease of the attempt it may have granted.
LEMMA ClaimWritten ==
    ASSUME NEW S \in Store, Reported(S), NEW T, Kept(S, T), Relabels(S, T),
           NEW a \in AttemptRefs, NEW l \in Countdown(LeaseTicks)
    PROVE  /\ Kept(S, T) /\ Reported(T)
           /\ Kept(S, Granted(T, a, l)) /\ Reported(Granted(T, a, l))
<1>1. T \in Store /\ Sound(T) /\ Reported(T)
  BY ReportedStays DEF Kept
<1>2. Kept(T, Granted(T, a, l)) /\ Relabels(T, Granted(T, a, l))
  BY <1>1, GrantedKept
<1>3. Reported(Granted(T, a, l))
  BY <1>1, <1>2, ReportedStays DEF Kept
<1> QED BY <1>1, <1>2, <1>3, KeptTransitive

\* The dependencies that had completed when it was checked did complete.
LEMMA CommitClaimSound ==
    ASSUME StepsInv, NEW h \in Handlers, NEW a \in AttemptRefs, CommitClaim(h, a)
    PROVE  Onward
<1> DEFINE att == calls[h].att
           T == ClaimMessageStore(store, att.msg, att.ep, a)
<1>1. /\ calls[h] \in Call /\ CallSound(store, calls[h]) /\ calls[h].pc = "claim"
      /\ store \in Store /\ Sound(store) /\ Reported(store)
  BY CallOf DEF CommitClaim, At
<1>2. /\ att.msg \in MessageRefs /\ att.ep \in Endpoints /\ att.lease \in Countdown(LeaseTicks)
      /\ Saved(store, att.msg) /\ Founded(store, att.msg)
  BY <1>1, CallParts DEF CallSound, Attempt
<1>3. /\ Grants(store, att.msg) => ~Exists(store, a)
      /\ Write(T) \/ Write(Granted(T, a, att.lease))
      /\ Continue(h, Idle)
  BY DEF CommitClaim
<1>4. Kept(store, T) /\ Relabels(store, T)
  BY <1>1, <1>2, <1>3, ClaimMessageKept, ClaimRelabels
<1> HIDE DEF T, att
<1>5. /\ Kept(store, T) /\ Reported(T)
      /\ Kept(store, Granted(T, a, att.lease)) /\ Reported(Granted(T, a, att.lease))
  BY <1>1, <1>2, <1>4, ClaimWritten
<1> QED BY <1>3, <1>5, IdleParts, IdleSound, WriteStep

\* A claim-next has chosen no message yet.
LEMMA BeginClaimNextSound ==
    ASSUME StepsInv, NEW h \in Handlers, NEW e \in Endpoints, BeginClaimNext(h, e)
    PROVE  Onward
<1> DEFINE att == Claimant(NoMessage, e)
           names == endpoints[e].names
           d == [Idle EXCEPT !.pc = "reconcile", !.names = names, !.att = att]
<1>1. ReadOnly /\ Continue(h, d)
  BY DEF BeginClaimNext
<1>2. att \in Attempt /\ att.ep = e
  BY ClaimantParts
<1>3. names \in SUBSET Capabilities
  BY DEF StepsInv, Inv, TypeOK, RegistryTypeOK, Endpoint
<1> HIDE DEF att, names
<1>4. /\ d \in Call /\ d.pc = "reconcile" /\ d.att = att /\ d.completing = FALSE
      /\ d.todo = Idle.todo
  BY <1>2, <1>3, IdleParts DEF Call, Step
<1> HIDE DEF d
<1>5. CallSound(store, d)
  BY <1>2, <1>4, IdleParts DEF CallSound, OwnerPlaces, HoldingPlaces, ReportedPlaces
<1> QED BY <1>1, <1>4, <1>5, ReadStep

\* It reconciles the ledger, and reads who is online.
LEMMA ReconcileFirstSound ==
    ASSUME StepsInv, NEW h \in Handlers, ReconcileFirst(h)
    PROVE  Onward
<1> DEFINE c == calls[h]
           S == ReconcileStore(store)
           online == OnlineEndpoints
           d == [c EXCEPT !.pc = "next", !.online = online]
<1>1. /\ c \in Call /\ CallSound(store, c) /\ c.pc = "reconcile"
      /\ store \in Store /\ Sound(store) /\ Reported(store)
  BY CallOf DEF ReconcileFirst, At
<1>2. online \in [Endpoints -> SUBSET Capabilities]
  BY DEF StepsInv, Inv, TypeOK, RegistryTypeOK, Endpoint, OnlineEndpoints
<1>3. Write(S) /\ Continue(h, d)
  <2>1. To(c, "next") = [c EXCEPT !.pc = "next"]
    BY DEF To
  <2>2. [To(c, "next") EXCEPT !.online = online] = d
    BY <1>1, <2>1 DEF Call
  <2> QED BY <2>2 DEF ReconcileFirst
<1>4. Kept(store, S) /\ Relabels(store, S)
  BY <1>1, ReconcileKept, ReconcileRelabels
<1>5. Reported(S) /\ CallSound(S, c)
  BY <1>1, <1>4, ReportedStays, CallStays DEF Kept
<1> HIDE DEF S, c, online
<1>6. /\ d \in Call /\ d.pc = "next" /\ d.att = c.att
      /\ d.completing = c.completing /\ d.report = c.report /\ d.todo = c.todo
  BY <1>1, <1>2 DEF Call, Step
<1> HIDE DEF d
<1>7. CallSound(S, d)
  BY <1>1, <1>5, <1>6 DEF CallSound, OwnerPlaces, HoldingPlaces, ReportedPlaces
<1> QED BY <1>3, <1>4, <1>5, <1>6, <1>7, WriteStep

\* Then it claims what is eligible in the ledger as it is by now.
LEMMA CommitClaimNextSound ==
    ASSUME StepsInv, NEW h \in Handlers, NEW m \in MessageRefs, NEW a \in AttemptRefs,
           CommitClaimNext(h, m, a)
    PROVE  Onward
<1> DEFINE att == calls[h].att
           T == ClaimNextStore(store, m, att.ep, a)
<1>1. /\ calls[h] \in Call /\ CallSound(store, calls[h]) /\ calls[h].pc = "next"
      /\ store \in Store /\ Sound(store) /\ Reported(store)
  BY CallOf DEF CommitClaimNext, At
<1>2. att.ep \in Endpoints /\ att.lease \in Countdown(LeaseTicks)
  BY <1>1, CallParts DEF CallSound, Attempt
<1>3. /\ Grants(store, m) => ~Exists(store, a)
      /\ Write(T) \/ Write(Granted(T, a, att.lease))
      /\ Continue(h, Idle)
  BY DEF CommitClaimNext
<1>4. /\ store.messages[m].state \in {"available", "takeover_candidate"}
      /\ MessageDependenciesCompleted(store.requests[m], StateOf(store))
  BY DEF CommitClaimNext, IsNext, IsFirst, Eligible
<1>5. Founded(store, m)
  BY <1>1, <1>4, CompletedIsRecorded DEF Saved
<1>6. Kept(store, T) /\ Relabels(store, T)
  BY <1>1, <1>2, <1>3, <1>4, <1>5, ClaimNextKept, ClaimRelabels
<1> HIDE DEF T, att
<1>7. /\ Kept(store, T) /\ Reported(T)
      /\ Kept(store, Granted(T, a, att.lease)) /\ Reported(Granted(T, a, att.lease))
  BY <1>1, <1>2, <1>6, ClaimWritten
<1> QED BY <1>3, <1>7, IdleParts, IdleSound, WriteStep

-----------------------------------------------------------------------------
(* Task commands.                                                          *)

\* A command's snapshot holds sound records, for it was just read.
LEMMA CopiesParts ==
    ASSUME NEW M \in SUBSET MessageRefs, store \in Store, Sound(store),
           \A m \in M : Saved(store, m)
    PROVE  /\ Copies(M) \in [MessageRefs -> Message]
           /\ \A m \in MessageRefs :
                 \/ Copies(M)[m] = AbsentMessage
                 \/ Saved(store, m) /\ RecordFit(store, m, Copies(M)[m])
<1>1. AbsentMessage \in Message
  BY DEF AbsentMessage, Message
<1>2. \A m \in M : /\ store.messages[m] \in Message
                   /\ RecordFit(store, m, store.messages[m])
  BY StoreParts DEF Sound, Saved, RecordFit
<1> QED BY <1>1, <1>2 DEF Copies

\* What is left of the snapshot, after a message was taken from it or none.
LEMMA RestSound ==
    ASSUME NEW S, NEW c \in Call, CallSound(S, c), NEW pc \in {"cancel", "retry"}
    PROVE  Rest(c, pc) \in Call /\ CallSound(S, Rest(c, pc))
<1>1. CASE Listed(c.todo) = {}
  BY <1>1, IdleParts, IdleSound DEF Rest
<1>2. CASE Listed(c.todo) # {}
  <2> DEFINE d == [Idle EXCEPT !.pc = pc, !.todo = c.todo]
  <2>1. Rest(c, pc) = d
    BY <1>2 DEF Rest
  <2>2. d \in Call /\ d.pc = pc /\ d.todo = c.todo /\ d.completing = FALSE
    BY IdleParts, CallParts DEF Call, Step
  <2> HIDE DEF d
  <2> QED BY <2>1, <2>2 DEF CallSound, OwnerPlaces, HoldingPlaces, ReportedPlaces
<1> QED BY <1>1, <1>2

\* A message is taken from the snapshot.
LEMMA WithoutSound ==
    ASSUME NEW S, NEW c \in Call, CallSound(S, c), NEW m \in MessageRefs
    PROVE  LET next == [c EXCEPT !.todo = Without(@, m)]
           IN  next \in Call /\ CallSound(S, next) /\ next.pc = c.pc
<1> DEFINE todo == [c.todo EXCEPT ![m] = AbsentMessage]
           next == [c EXCEPT !.todo = todo]
<1>1. /\ todo \in [MessageRefs -> Message]
      /\ \A n \in MessageRefs : todo[n] = AbsentMessage \/ todo[n] = c.todo[n]
  <2>1. AbsentMessage \in Message
    BY DEF AbsentMessage, Message
  <2> QED BY <2>1, CallParts
<1>2. [c EXCEPT !.todo = Without(@, m)] = next
  BY DEF Without
<1> HIDE DEF todo
<1>3. /\ next \in Call /\ next.pc = c.pc /\ next.a = c.a /\ next.att = c.att
      /\ next.msg = c.msg /\ next.report = c.report
      /\ next.completing = c.completing /\ next.todo = todo
  BY <1>1 DEF Call
<1> HIDE DEF next
<1>4. CallSound(S, next)
  BY <1>1, <1>3 DEF CallSound
<1> QED BY <1>2, <1>3, <1>4

\* A command reads the messages of its task.
LEMMA BeginCommandSound ==
    ASSUME StepsInv, NEW h \in Handlers, NEW t \in Tasks, BeginCancel(h, t) \/ BeginRetry(h, t)
    PROVE  Onward
<1> DEFINE M == IF BeginCancel(h, t) THEN ToCancel(t) ELSE ToRetry(t)
           pc == IF BeginCancel(h, t) THEN "cancel" ELSE "retry"
           todo == Copies(M)
           d == [Idle EXCEPT !.pc = pc, !.todo = todo]
<1>1. ReadOnly /\ Continue(h, d)
  BY DEF BeginCancel, BeginRetry
<1>2. M \in SUBSET MessageRefs /\ \A m \in M : Saved(store, m)
  BY DEF ToCancel, ToRetry, OfTask
<1>3. pc \in {"cancel", "retry"}
  OBVIOUS
<1> HIDE DEF M, pc
<1>4. /\ todo \in [MessageRefs -> Message]
      /\ \A m \in MessageRefs :
            todo[m] = AbsentMessage \/ (Saved(store, m) /\ RecordFit(store, m, todo[m]))
  BY <1>2, CopiesParts, CallOf
<1> HIDE DEF todo
<1>5. d \in Call /\ d.pc = pc /\ d.todo = todo /\ d.completing = FALSE
  BY <1>3, <1>4, IdleParts DEF Call, Step
<1> HIDE DEF d
<1>6. CallSound(store, d)
  BY <1>3, <1>4, <1>5 DEF CallSound, OwnerPlaces, HoldingPlaces, ReportedPlaces
<1> QED BY <1>1, <1>5, <1>6, ReadStep

\* A listed message is written back canceled; then comes its attempt, if any.
LEMMA CancelMessageSound ==
    ASSUME StepsInv, NEW h \in Handlers, NEW m \in MessageRefs, CancelMessage(h, m)
    PROVE  Onward
<1> DEFINE c == calls[h]
           old == c.todo[m]
           rec == [old EXCEPT !.state = "canceled"]
           next == [c EXCEPT !.todo = Without(@, m)]
           S == UpdateMessage(store, m, rec)
           d == IF old.attempt = NoAttempt THEN Rest(next, "cancel")
                ELSE [To(next, "cancel_read") EXCEPT !.a = old.attempt]
<1>1. /\ c \in Call /\ CallSound(store, c) /\ c.pc = "cancel"
      /\ store \in Store /\ Sound(store) /\ Reported(store)
  BY CallOf DEF CancelMessage, At
<1>2. old \in Message /\ Saved(store, m) /\ RecordFit(store, m, old)
  <2>1. old # AbsentMessage
    BY DEF CancelMessage, IsFirst, Listed
  <2> QED BY <1>1, <2>1, CallParts DEF CallSound
<1>3. Write(S) /\ Continue(h, d)
  BY DEF CancelMessage
<1>4. next \in Call /\ CallSound(store, next) /\ next.pc = "cancel"
  BY <1>1, WithoutSound
<1>5. rec \in Message /\ RecordFit(store, m, rec)
  <2>1. "canceled" \in MessageState
    BY DEF MessageState
  <2> HIDE DEF old
  <2> QED BY <1>1, <1>2, <2>1, StateChange DEF RecordFit
<1> HIDE DEF rec
<1>6. Kept(store, S) /\ Reported(S)
  BY <1>1, <1>2, <1>5, WriteMessageKept
<1>7. CallSound(S, next)
  BY <1>1, <1>4, <1>6, CallStays DEF Kept
<1>8. old.attempt # NoAttempt => old.attempt \in AttemptRefs /\ Exists(S, old.attempt)
  <2>1. old.attempt # NoAttempt =>
          /\ old.attempt \in AttemptRefs /\ store.attempts[old.attempt].msg = m
    BY <1>2 DEF Message, RecordFit, RecordSound, RecordLinked
  <2>2. old.attempt # NoAttempt => Exists(store, old.attempt)
    BY <1>1, <2>1, RoutingAssumption DEF Sound, AttemptFounded, NoMessage
  <2> QED BY <1>6, <2>1, <2>2 DEF Kept, Grows
<1> HIDE DEF S, next, c, old
<1>9. d \in Call /\ CallSound(S, d)
  <2>1. CASE old.attempt = NoAttempt
    BY <1>4, <1>7, <2>1, RestSound
  <2>2. CASE old.attempt # NoAttempt
    <3> DEFINE a == old.attempt
               d1 == [next EXCEPT !.pc = "cancel_read", !.a = a]
    <3>1. d = d1
      BY <1>4, <2>2 DEF To, Call
    <3>2. a \in AttemptRefs /\ Exists(S, a)
      BY <1>8, <2>2
    <3> HIDE DEF a, d
    <3>3. /\ d1 \in Call /\ d1.pc = "cancel_read" /\ d1.a = a /\ d1.todo = next.todo
          /\ d1.completing = next.completing /\ d1.report = next.report
      BY <1>4, <3>2 DEF Call, Step
    <3> HIDE DEF d1
    <3>4. CallSound(S, d1)
      BY <1>4, <1>7, <3>2, <3>3 DEF CallSound, OwnerPlaces, HoldingPlaces, ReportedPlaces
    <3> QED BY <3>1, <3>3, <3>4
  <2> QED BY <2>1, <2>2
<1> HIDE DEF d
<1> QED BY <1>3, <1>6, <1>9, WriteStep

\* The attempt is read, to be canceled if it is open.
LEMMA ReadOpenAttemptSound ==
    ASSUME StepsInv, NEW h \in Handlers, ReadOpenAttempt(h)
    PROVE  Onward
<1> DEFINE c == calls[h]
           att == store.attempts[c.a]
           d == IF Open(store, c.a) THEN [c EXCEPT !.pc = "cancel_attempt", !.att = att]
                ELSE Rest(c, "cancel")
<1>1. /\ c \in Call /\ CallSound(store, c) /\ c.pc = "cancel_read"
      /\ store \in Store /\ Sound(store)
  BY CallOf DEF ReadOpenAttempt, At
<1>2. c.a \in AttemptRefs /\ Exists(store, c.a) /\ att \in Attempt
  BY <1>1, StoreParts DEF CallSound
<1>3. ReadOnly /\ Continue(h, d)
  <2>1. To(c, "cancel_attempt") = [c EXCEPT !.pc = "cancel_attempt"]
    BY DEF To
  <2>2. [To(c, "cancel_attempt") EXCEPT !.att = att]
          = [c EXCEPT !.pc = "cancel_attempt", !.att = att]
    BY <1>1, <2>1 DEF Call
  <2> QED BY <2>2 DEF ReadOpenAttempt
<1>4. d \in Call /\ CallSound(store, d)
  <2>1. CASE Open(store, c.a)
    <3>1. att.msg = store.attempts[c.a].msg /\ att.epoch = store.attempts[c.a].epoch
          /\ att.state # "absent"
      BY <1>2 DEF Exists
    <3> HIDE DEF att, c
    <3> DEFINE d1 == [c EXCEPT !.pc = "cancel_attempt", !.att = att]
    <3>2. /\ d1 \in Call /\ d1.pc = "cancel_attempt" /\ d1.a = c.a /\ d1.att = att
          /\ d1.completing = c.completing /\ d1.report = c.report /\ d1.todo = c.todo
      BY <1>1, <1>2 DEF Call, Step
    <3>3. d = d1
      BY <2>1
    <3> HIDE DEF d1, d
    <3>4. CallSound(store, d1)
      BY <1>1, <1>2, <3>1, <3>2 DEF CallSound, OwnerPlaces, HoldingPlaces, ReportedPlaces
    <3> QED BY <3>2, <3>3, <3>4
  <2>2. CASE ~Open(store, c.a)
    BY <1>1, <2>2, RestSound
  <2> QED BY <2>1, <2>2
<1> HIDE DEF d
<1> QED BY <1>3, <1>4, ReadStep

\* The attempt that was read open is written back canceled, whatever its
\* worker has made of it since.
LEMMA CancelAttemptSound ==
    ASSUME StepsInv, NEW h \in Handlers, CancelAttempt(h)
    PROVE  Onward
<1> DEFINE c == calls[h]
           old == c.att
           att == [old EXCEPT !.state = "canceled"]
           S == UpdateAttempt(store, c.a, att)
           d == Rest(c, "cancel")
<1>1. /\ c \in Call /\ CallSound(store, c) /\ c.pc = "cancel_attempt"
      /\ store \in Store /\ Sound(store) /\ Reported(store)
  BY CallOf DEF CancelAttempt, At
<1>2. /\ c.a \in AttemptRefs /\ Exists(store, c.a) /\ old.msg = store.attempts[c.a].msg
      /\ old.epoch = store.attempts[c.a].epoch /\ old \in Attempt
  BY <1>1, OwnerParts, CallParts DEF CallSound, HoldingPlaces
<1>3. Write(S) /\ Continue(h, d)
  BY DEF CancelAttempt
<1>4. "canceled" \in AttemptState
  BY DEF AttemptState
<1> HIDE DEF old
<1>5. /\ att \in Attempt /\ att.state = "canceled" /\ att.msg = old.msg
      /\ att.epoch = old.epoch
  BY <1>2, <1>4 DEF Attempt
<1> HIDE DEF att
<1>6. Kept(store, S) /\ Reported(S)
  BY <1>1, <1>2, <1>5, WriteBackKept DEF OnRecord
<1>7. CallSound(S, c)
  BY <1>1, <1>6, CallStays DEF Kept
<1>8. d \in Call /\ CallSound(S, d)
  BY <1>1, <1>7, RestSound
<1> HIDE DEF S, d, c
<1> QED BY <1>3, <1>6, <1>8, WriteStep

\* A listed message is offered again, without an attempt.
LEMMA RetryMessageSound ==
    ASSUME StepsInv, NEW h \in Handlers, NEW m \in MessageRefs, RetryMessage(h, m)
    PROVE  Onward
<1> DEFINE c == calls[h]
           old == c.todo[m]
           rec == [old EXCEPT !.state = "available", !.attempt = NoAttempt]
           next == [c EXCEPT !.todo = Without(@, m)]
           S == UpdateMessage(store, m, rec)
           d == Rest(next, "retry")
<1>1. /\ c \in Call /\ CallSound(store, c) /\ c.pc = "retry"
      /\ store \in Store /\ Sound(store) /\ Reported(store)
  BY CallOf DEF RetryMessage, At
<1>2. old \in Message /\ Saved(store, m) /\ RecordFit(store, m, old)
  <2>1. old # AbsentMessage
    BY DEF RetryMessage, IsFirst, Listed
  <2> QED BY <1>1, <2>1, CallParts DEF CallSound
<1>3. Write(S) /\ Continue(h, d)
  BY DEF RetryMessage
<1>4. next \in Call /\ CallSound(store, next)
  BY <1>1, WithoutSound
<1> HIDE DEF next, old
<1>5. /\ rec \in Message /\ rec.state = "available" /\ rec.attempt = NoAttempt
      /\ rec.redelivery = old.redelivery
  BY <1>2 DEF Message, MessageState
<1> HIDE DEF rec
<1>6. RecordFit(store, m, rec)
  BY <1>2, <1>5
     DEF RecordFit, RecordSound, RecordLinked, RecordStateBacked, RecordCompletionBacked
<1>7. Kept(store, S) /\ Reported(S)
  BY <1>1, <1>2, <1>5, <1>6, WriteMessageKept
<1>8. CallSound(S, next)
  BY <1>1, <1>4, <1>7, CallStays DEF Kept
<1>9. d \in Call /\ CallSound(S, d)
  BY <1>4, <1>8, RestSound
<1> HIDE DEF S, d
<1> QED BY <1>3, <1>7, <1>9, WriteStep

-----------------------------------------------------------------------------
(* What is no handler's step.                                              *)

\* The registry, ingress, replay and the reconcile loop run beside the
\* handlers, and disturb no copy they hold.
LEMMA BackgroundSound ==
    ASSUME StepsInv, Background, UNCHANGED calls
    PROVE  Onward
<1>1. Inv /\ store \in Store /\ Sound(store) /\ Reported(store)
  BY DEF StepsInv, Inv, TypeOK
<1>2. [Next]_vars
  BY DEF Background, Next, OperatorNext
<1>3. Kept(store, store') /\ RegistryTypeOK'
  BY <1>1, <1>2, StoreNext, RegistryKept
<1>4. Relabels(store, store')
  <2>1. CASE store'.attempts = store.attempts
    BY <2>1 DEF Relabels
  <2>2. CASE RegistryNext /\ UNCHANGED store
    BY <2>1, <2>2
  <2>3. ASSUME NEW m \in MessageRefs, NEW r, IngressMessage(m, r)
        PROVE  store'.attempts = store.attempts
    BY <1>1, <2>3 DEF IngressMessage, SaveMessage, Store
  <2>4. ASSUME NEW d \in store.deadLetters, NEW m \in MessageRefs, ReplayDeadLetter(d, m)
        PROVE  store'.attempts = store.attempts
    BY <2>3, <2>4 DEF ReplayDeadLetter
  <2>5. CASE ReconcileExpiredClaims
    BY <1>1, <2>5, ReconcileRelabels DEF ReconcileExpiredClaims
  <2> QED BY <2>1, <2>2, <2>3, <2>4, <2>5 DEF Background
<1>5. Reported(store')
  BY <1>1, <1>3, <1>4, ReportedStays DEF Kept
<1>6. \A h \in Handlers : CallSound(store', calls[h])
  BY <1>1, <1>3, CallStays DEF StepsInv, Kept
<1> QED BY <1>3, <1>5, <1>6 DEF Onward, StepsInv, Inv, TypeOK, Kept, Reported, OnRecord

\* A copy whose lease has run down is good for what it was good for.
LEMMA CopyTicks ==
    ASSUME NEW S, NEW c \in Call, CallSound(S, c)
    PROVE  LET d == [c EXCEPT !.att.lease = Elapse(@)]
           IN  d \in Call /\ CallSound(S, d)
<1> DEFINE old == c.att
           att == [old EXCEPT !.lease = Elapse(old.lease)]
           d == [c EXCEPT !.att = att]
<1>1. old \in Attempt
  BY CallParts
<1>2. Elapse(old.lease) \in Countdown(LeaseTicks)
  BY <1>1, StoreAssumption DEF Attempt, Countdown, Expired, Elapse
<1>3. [c EXCEPT !.att.lease = Elapse(@)] = d
  OBVIOUS
<1> HIDE DEF old
<1>4. /\ att \in Attempt /\ att.msg = old.msg /\ att.epoch = old.epoch
      /\ att.state = old.state /\ att.ep = old.ep
  BY <1>1, <1>2 DEF Attempt
<1> HIDE DEF att
<1>5. /\ d \in Call /\ d.pc = c.pc /\ d.a = c.a /\ d.att = att /\ d.msg = c.msg
      /\ d.report = c.report /\ d.completing = c.completing /\ d.todo = c.todo
  BY <1>4 DEF Call
<1> HIDE DEF d
<1>6. CallSound(S, d)
  BY <1>4, <1>5 DEF CallSound, old
<1> QED BY <1>3, <1>5, <1>6

\* Time passes for the ledger and for the copies of it.
LEMMA StepsTickSound ==
    ASSUME StepsInv, StepsTick
    PROVE  Onward
<1>1. store \in Store /\ Sound(store) /\ Reported(store) /\ RegistryTypeOK
  BY DEF StepsInv, Inv, TypeOK
<1>2. /\ store' = TickStore(store) /\ RegistryTick
      /\ calls' = [h \in Handlers |-> [calls[h] EXCEPT !.att.lease = Elapse(@)]]
  BY DEF StepsTick, Tick, CopiesTick
<1>3. Kept(store, store') /\ Relabels(store, store')
  BY <1>1, <1>2, TickKept, TickRelabels
<1>4. Reported(store')
  BY <1>1, <1>3, ReportedStays DEF Kept
<1>5. RegistryTypeOK'
  BY <1>1, <1>2, RegistryTyped
<1>6. ASSUME NEW h \in Handlers
      PROVE  calls'[h] \in Call /\ CallSound(store', calls'[h])
  <2>1. calls[h] \in Call /\ CallSound(store', calls[h])
    BY <1>1, <1>3, CallStays DEF StepsInv, Kept
  <2>2. calls'[h] = [calls[h] EXCEPT !.att.lease = Elapse(@)]
    BY <1>2
  <2> QED BY <2>1, <2>2, CopyTicks
<1>7. calls' \in [Handlers -> Call]
  <2>1. calls' = [h \in Handlers |-> calls'[h]]
    BY <1>2
  <2> QED BY <2>1, <1>6
<1> QED BY <1>3, <1>4, <1>5, <1>6, <1>7
        DEF Onward, StepsInv, Inv, TypeOK, Kept, Reported, OnRecord

\* After a restart no handler holds anything; the ledger is as it was.
LEMMA CrashSound ==
    ASSUME StepsInv, Crash
    PROVE  Onward
<1>1. store' = store /\ endpoints' = endpoints /\ calls' = [h \in Handlers |-> Idle]
  BY DEF Crash, ReadOnly
<1>2. Inv'
  BY <1>1 DEF StepsInv, Inv, TypeOK, RegistryTypeOK
<1>3. calls' \in [Handlers -> Call] /\ \A h \in Handlers : calls'[h] = Idle
  BY <1>1, IdleParts
<1>4. Grows(store, store')
  BY <1>1 DEF Grows
<1> QED BY <1>1, <1>2, <1>3, <1>4, IdleSound DEF Onward, StepsInv, Reported, OnRecord

-----------------------------------------------------------------------------
(* The invariant.                                                          *)

\* It holds of an empty ledger and idle handlers.
LEMMA StepsInitInv == StepsInit => StepsInv
<1> SUFFICES ASSUME StepsInit PROVE StepsInv
  OBVIOUS
<1>1. Inv
  BY InitInv DEF StepsInit
<1>2. calls \in [Handlers -> Call] /\ \A h \in Handlers : calls[h] = Idle
  BY IdleParts DEF StepsInit
<1>3. Reported(store)
  <2>1. \A a \in AttemptRefs : store.attempts[a] = AbsentAttempt
    BY DEF StepsInit, Init, EmptyStore
  <2> QED BY <2>1 DEF Reported, OnRecord, AbsentAttempt
<1> QED BY <1>1, <1>2, <1>3, IdleSound DEF StepsInv

\* It survives every step of every handler: one that begins a request,
LEMMA BeginInv ==
    ASSUME StepsInv, NEW h \in Handlers, Begin(h)
    PROVE  Onward
<1>1. ASSUME NEW a \in AttemptRefs, NEW report \in Reports,
             BeginCheckpoint(h, a, report, FALSE, 0)
      PROVE  Onward
  <2>1. report \in CheckpointState /\ 0 \in 0..MaxFollowUps
    BY HandoffAssumption
  <2> QED BY <1>1, <2>1, BeginCheckpointSound
<1>2. ASSUME NEW a \in AttemptRefs, NEW left \in 0..MaxFollowUps,
             BeginCheckpoint(h, a, "completed", TRUE, left)
      PROVE  Onward
  <2>1. "completed" \in CheckpointState
    BY DEF CheckpointState, AttemptState
  <2> QED BY <1>2, <2>1, BeginCheckpointSound
<1> QED BY <1>1, <1>2, BeginRefreshSound, BeginClaimNextSound, BeginClaimSound,
           BeginCommandSound DEF Begin

\* and one that goes on with it.
LEMMA ProceedInv ==
    ASSUME StepsInv, NEW h \in Handlers, Proceed(h)
    PROVE  Onward
<1>1. ASSUME NEW n \in MessageRefs, NEW r \in Requests, SubmitFollowUp(h, n, r)
      PROVE  Onward
  BY <1>1, SubmitFollowUpSound
<1>2. ASSUME NEW a \in AttemptRefs, NEW m \in MessageRefs, CommitClaimNext(h, m, a)
      PROVE  Onward
  BY <1>2, CommitClaimNextSound
<1> QED BY <1>1, <1>2, SaveTheCheckpointSound, WriteAttemptSound, ReadMessageSound,
           WriteMessageSound, RereadAttemptSound, RereadMessageSound, CloseMessageSound,
           NothingDone, WriteLeaseSound, CommitClaimSound, ReconcileFirstSound,
           CancelMessageSound, RetryMessageSound, ReadOpenAttemptSound,
           CancelAttemptSound DEF Proceed

\* So it is inductive.
LEMMA StepsOnward == StepsInv /\ [StepsNext]_StepVars => Onward
<1> SUFFICES ASSUME StepsInv, [StepsNext]_StepVars PROVE Onward
  OBVIOUS
<1>1. CASE UNCHANGED StepVars
  BY <1>1 DEF Onward, Grows, StepVars, StepsInv, Inv, TypeOK, RegistryTypeOK, Reported, OnRecord
<1>2. CASE StepsNext
  BY <1>2, BeginInv, ProceedInv, BackgroundSound, StepsTickSound, CrashSound DEF StepsNext
<1> QED BY <1>1, <1>2

LEMMA StepsNextInv == StepsInv /\ [StepsNext]_StepVars => StepsInv'
BY StepsOnward DEF Onward

\* However requests interleave and whenever the server restarts, the ledger is
\* sound and every copy in flight is safe to write back where its handler will,
\* for any number of handlers, endpoints, messages and attempts.
THEOREM StepsHold == StepsSpec => []StepsInv
<1> QED BY StepsInitInv, StepsNextInv, PTL DEF StepsSpec

-----------------------------------------------------------------------------
(* The safety properties that interleaving leaves intact.                  *)

\* No value of the wrong kind is ever in the ledger, the registry or a call.
THEOREM StepsTypesHold == StepsSpec => []StepsTypeOK
<1>1. StepsInv => StepsTypeOK
  BY DEF StepsInv, Inv, StepsTypeOK
<1> QED BY <1>1, StepsHold, PTL

\* A write-back of a stale copy never makes up progress: an attempt is in a
\* state its worker reports only if a checkpoint of that attempt reported it.
THEOREM ReportsHold == StepsSpec => []ReportedStateIsOnRecord
<1>1. StepsInv => ReportedStateIsOnRecord
  BY DEF StepsInv, Reported, OnRecord, ReportedStateIsOnRecord
<1> QED BY <1>1, StepsHold, PTL

\* Interleaved writes keep a message and the attempt it points to in step.
THEOREM StepsLinkHolds == StepsSpec => []CurrentAttemptLink
<1>1. StepsInv => CurrentAttemptLink
  BY DEF StepsInv, Inv, Sound, RecordSound, CurrentAttemptLink
<1> QED BY <1>1, StepsHold, PTL

\* They leave no message claimed without an attempt, and none dead-lettered
\* without its letter.
THEOREM StepsStatesAreBacked == StepsSpec => []StateIsBacked
<1>1. StepsInv => StateIsBacked
  BY DEF StepsInv, Inv, Sound, RecordSound, StateIsBacked
<1> QED BY <1>1, StepsHold, PTL

\* They complete no message without a checkpoint that reported completed.
THEOREM StepsEvidenceHolds == StepsSpec => []CompletedHasEvidence
<1>1. StepsInv => CompletedHasEvidence
  BY DEF StepsInv, Inv, Sound, RecordSound, CompletedHasEvidence
<1> QED BY <1>1, StepsHold, PTL
=============================================================================
