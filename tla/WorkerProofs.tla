---------------------------- MODULE WorkerProofs ----------------------------
(***************************************************************************)
(* What a worker may believe: Worker's safety properties, for any number   *)
(* of messages, attempts, other endpoints and requests on their way.       *)
(*                                                                         *)
(* Two arguments meet.  What the worker was told stays true: a state that  *)
(* was reported stays reported, and an attempt that is no longer live is   *)
(* never live again (Retains).  And what it holds stays its own as long as *)
(* it refreshes in time: between its refreshes nobody shortens the lease,  *)
(* and nobody closes the attempt but a cancel, since no request of its own *)
(* that would is under way while it executes.                              *)
(*                                                                         *)
(* A canceled attempt stays canceled because its message does (Dropped),   *)
(* and that because only open attempts change messages, each its own       *)
(* (Owned).  Nobody retries here.                                          *)
(***************************************************************************)
EXTENDS Worker, HandoffProofs

-----------------------------------------------------------------------------
(* The ledger.                                                             *)

\* The message of an attempt that was canceled is canceled.
Dropped(S) ==
    \A a \in AttemptRefs :
        S.attempts[a].state = "canceled" => S.messages[S.attempts[a].msg].state = "canceled"

\* An attempt that is live stays so, with as much of its lease at least, or is
\* canceled.
StaysHeld(S, T, a) ==
    Live(S, a) =>
        \/ T.attempts[a].state = "canceled"
        \/ Open(T, a) /\ T.attempts[a].lease >= S.attempts[a].lease

\* What a step that takes no time leaves to the attempts, to all but those in
\* `reported` that were reported as closed.
Retains(S, T, reported) ==
    /\ \A a \in AttemptRefs : Exists(S, a) /\ ~Live(S, a) => ~Live(T, a)
    /\ \A a \in AttemptRefs :
          S.attempts[a].state = "canceled" => T.attempts[a].state = "canceled"
    /\ \A a \in AttemptRefs \ reported : StaysHeld(S, T, a)

LedgerSound(S) == S \in Store /\ Sound(S) /\ Fenced(S) /\ Owned(S) /\ Dropped(S)

\* A step of the server from one ledger to another.
Serves(S, T, reported) == LedgerSound(T) /\ Grows(S, T) /\ Retains(S, T, reported)

\* The part of it that HandoffProofs does not show.
Steady(S, T, reported) == Dropped(T) /\ Retains(S, T, reported)

\* A step is steady if it leaves each attempt alone, claims it, orphans it past
\* its lease, cancels it and its message, renews it, or reports it as closed.
LEMMA SteadyStep ==
    ASSUME NEW S \in Store, NEW T \in Store, Sound(S), Dropped(S), NEW reported,
           \A a \in AttemptRefs :
               \/ T.attempts[a] = S.attempts[a]
               \/ ~Exists(S, a) /\ T.attempts[a].state # "canceled"
               \/ /\ S.attempts[a].state # "canceled" /\ S.attempts[a].lease = Expired
                  /\ T.attempts[a].state = "orphaned"
               \/ /\ Open(S, a) /\ T.attempts[a].state = "canceled"
                  /\ T.messages[T.attempts[a].msg].state = "canceled"
               \/ /\ Live(S, a) /\ Open(T, a)
                  /\ T.attempts[a].lease >= S.attempts[a].lease
               \/ Live(S, a) /\ a \in reported /\ T.attempts[a].state = "completed"
               \/ Live(S, a) /\ a \in reported /\ T.attempts[a].state = "failed",
           \A m \in MessageRefs :
               S.messages[m].state = "canceled" => T.messages[m].state = "canceled"
    PROVE  Steady(S, T, reported)
<1>1. \A a \in AttemptRefs : S.attempts[a].lease >= S.attempts[a].lease
  <2>1. Countdown(LeaseTicks) \subseteq Int
    BY StoreAssumption DEF Countdown, Expired
  <2> QED BY <2>1, StoreParts DEF Attempt
<1>2. ASSUME NEW a \in AttemptRefs, Exists(S, a), ~Live(S, a)
      PROVE  ~Live(T, a)
  BY <1>2 DEF Live, Open, ClosedState
<1>3. ASSUME NEW a \in AttemptRefs, S.attempts[a].state = "canceled"
      PROVE  T.attempts[a].state = "canceled"
  BY <1>3 DEF Live, Open, ClosedState, Exists
<1>4. ASSUME NEW a \in AttemptRefs \ reported
      PROVE  StaysHeld(S, T, a)
  BY <1>1, <1>4 DEF StaysHeld, Live, Open, Exists
<1>5. ASSUME NEW a \in AttemptRefs, T.attempts[a].state = "canceled"
      PROVE  T.messages[T.attempts[a].msg].state = "canceled"
  <2>1. CASE T.attempts[a] = S.attempts[a]
    <3>1. S.attempts[a].msg \in MessageRefs
      BY <1>5, <2>1 DEF Sound, AttemptFounded, Exists
    <3> QED BY <1>5, <2>1, <3>1 DEF Dropped
  <2> QED BY <1>5, <2>1 DEF Live, Open, ClosedState
<1> QED BY <1>2, <1>3, <1>4, <1>5 DEF Steady, Retains, Dropped

\* Two steady operations in a row are one.
LEMMA SteadyTransitive ==
    ASSUME NEW S \in Store, NEW T \in Store, NEW U \in Store, Grows(S, T),
           NEW B, NEW C, Steady(S, T, B), Steady(T, U, C)
    PROVE  Steady(S, U, B \cup C)
<1>1. ASSUME NEW a \in AttemptRefs, Exists(S, a), ~Live(S, a)
      PROVE  ~Live(U, a)
  BY <1>1 DEF Steady, Retains, Grows
<1>2. \A a \in AttemptRefs :
        S.attempts[a].state = "canceled" => U.attempts[a].state = "canceled"
  BY DEF Steady, Retains
<1>3. ASSUME NEW a \in AttemptRefs \ (B \cup C), Live(S, a)
      PROVE  \/ U.attempts[a].state = "canceled"
             \/ Open(U, a) /\ U.attempts[a].lease >= S.attempts[a].lease
  <2>1. /\ S.attempts[a].lease \in Expired..LeaseTicks
        /\ T.attempts[a].lease \in Expired..LeaseTicks
        /\ U.attempts[a].lease \in Expired..LeaseTicks
        /\ S.attempts[a].lease # Expired
    BY <1>3, StoreParts DEF Attempt, Countdown, Live
  <2>2. CASE T.attempts[a].state = "canceled"
    BY <2>2 DEF Steady, Retains
  <2>3. CASE Open(T, a) /\ T.attempts[a].lease >= S.attempts[a].lease
    <3>1. Live(T, a)
      BY <2>1, <2>3, StoreAssumption DEF Live, Expired
    <3>2. StaysHeld(T, U, a)
      BY DEF Steady, Retains
    <3> QED BY <2>1, <2>3, <3>1, <3>2, StoreAssumption DEF StaysHeld, Expired
  <2>4. StaysHeld(S, T, a)
    BY DEF Steady, Retains
  <2> QED BY <1>3, <2>2, <2>3, <2>4 DEF StaysHeld
<1> QED BY <1>1, <1>2, <1>3 DEF Steady, Retains, StaysHeld

-----------------------------------------------------------------------------
(* The worker.                                                             *)

AttemptOperation == DOMAIN ReportOf \cup {"refresh", "attach", "complete"}
\* The requests that close an attempt.
Closing == {"fail", "complete"}

\* What an outcome claims of the attempt it is about.
Claims(S, a, outcome) ==
    LET reported == S.checkpoints[a].reported IN
    /\ outcome = "completed" => "completed" \in reported
    /\ outcome = "blocked" => "blocked_missing_fields" \in reported
    /\ outcome = "failed" => "failed" \in reported
    /\ outcome = "dropped" => ~Live(S, a)

Granted(S, a) == a \in AttemptRefs /\ Exists(S, a)

\* What a request may rely on, and what its answer tells for good.
CallSound(S, c) ==
    /\ c.op \in AttemptOperation => Granted(S, c.a)
    /\ c.got # NoAttempt => c.op = "claim" /\ Granted(S, c.got)
    /\ c.answer = "ok" /\ c.op \in DOMAIN ReportOf =>
          ReportOf[c.op] \in S.checkpoints[c.a].reported
    /\ c.answer = "ok" /\ c.op = "complete" => "completed" \in S.checkpoints[c.a].reported
    /\ c.answer = "refused" /\ c.op \in AttemptOperation => ~Live(S, c.a)
    /\ c.answer # "none" => c.op # "none"

\* The request that the loop waits for, by its place, where that is about the
\* attempt of its claim.
OperationAt ==
    [ack |-> "ack", first_refresh |-> "refresh", report_error |-> "fail", attach |-> "attach",
     progress |-> "progress", complete |-> "complete", block |-> "block", fail |-> "fail"]
\* Those where it waits for another, and those where it has a claim and its
\* keeper runs, or ran.
UnclaimedPlaces == {"register", "first_beat", "advertise", "claim", "offline"}
KeptPlaces == {"execute", "report_error", "attach", "progress", "complete", "block", "fail", "settle"}

LoopSound ==
    /\ main.pc \in DOMAIN OperationAt =>
          calls["main"].op = OperationAt[main.pc] /\ calls["main"].a = main.a
    /\ main.pc \in UnclaimedPlaces => calls["main"].op \notin AttemptOperation
    /\ main.pc \in {"off", "idle", "execute", "settle", "stop"} => calls["main"] = NoCall
    /\ calls["main"].op = "claim" => main.pc = "claim"
    /\ main.pc \in DOMAIN OperationAt \cup KeptPlaces => Granted(store, main.a)
    /\ main.pc \in {"progress", "complete"} => main.result = "completed"
    /\ main.pc = "block" => main.result = "blocked"
    /\ main.pc = "fail" => main.result = "failed"
    /\ main.pc = "settle" => Claims(store, main.a, main.result)

ThreadsSound ==
    /\ calls["keeper"] # NoCall =>
          keeper.on /\ calls["keeper"].op = "refresh" /\ calls["keeper"].a = main.a
    /\ calls["reporter"] # NoCall =>
          reporter.on /\ calls["reporter"].op = "progress" /\ calls["reporter"].a = main.a
    /\ calls["heart"].op \in {"none", "online"}
    /\ keeper.on => keeper.err = "none"
    /\ keeper.on \/ keeper.err # "none" => main.pc \in KeptPlaces
    /\ reporter.on => main.pc \in {"execute", "report_error"}
    /\ keeper.err = "refused" => ~Live(store, main.a)

\* No request under way would close the attempt that the loop was granted.
Unthreatened ==
    \A r \in strays :
        r.op \in Closing =>
            /\ main.pc \in {"ack", "first_refresh", "execute"} => r.a # main.a
            /\ main.pc = "claim" => r.a # calls["main"].got

\* The lease is the worker's, with so much of it left, unless it was canceled.
Holds(left) ==
    \/ store.attempts[main.a].state = "canceled"
    \/ Open(store, main.a) /\ store.attempts[main.a].lease >= left

Refreshed(t) == calls[t].op = "refresh" /\ calls[t].answer = "ok"

Timely ==
    /\ main.pc = "first_refresh" /\ Refreshed("main") =>
          calls["main"].left = LeaseTicks /\ Holds(LeaseTicks)
    /\ main.pc = "execute" /\ Refreshed("keeper") =>
          calls["keeper"].left = LeaseTicks /\ Holds(LeaseTicks)
    /\ main.pc = "execute" /\ ~Canceled => keeper.on /\ Holds(keeper.timer)

WorkerInv ==
    /\ WorkerTypeOK
    /\ LedgerSound(store)
    /\ \A t \in Thread : CallSound(store, calls[t])
    /\ \A r \in strays : r.op \in AttemptOperation => Granted(store, r.a)
    /\ LoopSound
    /\ ThreadsSound
    /\ Unthreatened
    /\ last.outcome # "none" => Granted(store, last.a) /\ Claims(store, last.a, last.outcome)
    /\ main.prompt => Timely

-----------------------------------------------------------------------------
(* The operations of the store, and what the server makes of them.         *)

\* A step that keeps the ledger in each of the ways known of it serves.
LEMMA ServedBy ==
    ASSUME NEW S, NEW T, NEW reported, Kept(S, T), Guarded(S, T), Settled(S, T),
           Steady(S, T, reported)
    PROVE  Serves(S, T, reported)
BY DEF Kept, Guarded, Settled, Steady, Serves, LedgerSound

\* Two steps of the server in a row.
LEMMA ServesTransitive ==
    ASSUME NEW S, NEW T, NEW U, LedgerSound(S), NEW B, NEW C, Serves(S, T, B), Serves(T, U, C)
    PROVE  Serves(S, U, B \cup C)
<1>1. S \in Store /\ Sound(S) /\ Kept(S, T) /\ Kept(T, U) /\ T \in Store /\ U \in Store
  BY DEF Serves, LedgerSound, Kept
<1>2. Grows(S, U)
  BY <1>1, KeptTransitive DEF Kept
<1>3. Steady(S, U, B \cup C)
  BY <1>1, SteadyTransitive DEF Serves, LedgerSound, Steady, Kept
<1> QED BY <1>2, <1>3 DEF Serves, Steady

\* A step that changes messages alone, none of them canceled, serves.
LEMMA MessagesSteady ==
    ASSUME NEW S \in Store, NEW T \in Store, Sound(S), Dropped(S),
           T.attempts = S.attempts,
           \A m \in MessageRefs :
               S.messages[m].state = "canceled" => T.messages[m] = S.messages[m]
    PROVE  Steady(S, T, {})
BY SteadyStep

\* A claim makes an attempt that was not there, and its message was not canceled.
LEMMA ClaimAtSteady ==
    ASSUME NEW S \in Store, Sound(S), Dropped(S),
           NEW m \in MessageRefs, NEW e \in Endpoints, NEW a \in AttemptRefs,
           ~Exists(S, a), NEW n \in Nat, S.messages[m].state # "canceled"
    PROVE  Steady(S, ClaimAt(S, m, e, a, n), {})
<1> DEFINE T == ClaimAt(S, m, e, a, n)
<1>1. T \in Store
  BY ClaimAtTyped
<1>2. /\ T.attempts = [S.attempts EXCEPT ![a] =
            [state |-> "claimed", msg |-> m, ep |-> e, lease |-> LeaseTicks,
             rev |-> 1, epoch |-> n + 1]]
      /\ T.messages = [S.messages EXCEPT ![m] =
            [state |-> "claimed", attempt |-> a, redelivery |-> n]]
  BY DEF ClaimAt, Store
<1>3. T.attempts[a].state = "claimed"
  BY <1>2, StoreParts
<1>4. \A b \in AttemptRefs : b # a => T.attempts[b] = S.attempts[b]
  BY <1>2, StoreParts
<1>5. \A k \in MessageRefs : k # m => T.messages[k] = S.messages[k]
  BY <1>2, StoreParts
<1> HIDE DEF T
<1>6. \A k \in MessageRefs : S.messages[k].state = "canceled" => T.messages[k].state = "canceled"
  BY <1>5
<1> QED BY <1>1, <1>3, <1>4, <1>6, SteadyStep DEF T

\* The current attempt of a message that is not canceled is not canceled.
LEMMA CurrentNotCanceled ==
    ASSUME NEW S \in Store, Sound(S), Dropped(S), NEW m \in MessageRefs,
           HasCurrentAttempt(S, m), S.messages[m].state # "canceled"
    PROVE  S.attempts[S.messages[m].attempt].state # "canceled"
BY CurrentExists DEF Dropped

\* A dead letter orphans an attempt past its lease.
LEMMA DeadLetterSteady ==
    ASSUME NEW S \in Store, Sound(S), Dropped(S), NEW m \in MessageRefs,
           HasCurrentAttempt(S, m), S.messages[m].state # "canceled",
           S.attempts[S.messages[m].attempt].lease = Expired,
           DeadLetterMessage(S, m) \in Store
    PROVE  Steady(S, DeadLetterMessage(S, m), {})
<1> DEFINE T == DeadLetterMessage(S, m)
           cur == S.messages[m].attempt
<1>1. cur \in AttemptRefs /\ S.attempts[cur].state # "canceled"
  BY CurrentExists, CurrentNotCanceled
<1>2. /\ T.attempts = [S.attempts EXCEPT ![cur] = [S.attempts[cur] EXCEPT !.state = "orphaned"]]
      /\ T.messages = [S.messages EXCEPT ![m] = [S.messages[m] EXCEPT !.state = "dead_lettered"]]
  BY DEF DeadLetterMessage, Store
<1>3. T.attempts[cur].state = "orphaned"
  BY <1>1, <1>2, StoreParts DEF Attempt
<1>4. \A a \in AttemptRefs : a # cur => T.attempts[a] = S.attempts[a]
  BY <1>2, StoreParts
<1>5. \A k \in MessageRefs : k # m => T.messages[k] = S.messages[k]
  BY <1>2, StoreParts
<1> HIDE DEF T, cur
<1>6. S.attempts[cur].lease = Expired
  BY DEF cur
<1>7. \A k \in MessageRefs : S.messages[k].state = "canceled" => T.messages[k].state = "canceled"
  BY <1>5
<1>8. T \in Store
  BY DEF T
<1> QED BY <1>1, <1>3, <1>4, <1>6, <1>7, <1>8, SteadyStep DEF T

\* So does reconciling, of the messages that are worked on.
LEMMA ReconcileServes ==
    ASSUME NEW S, LedgerSound(S)
    PROVE  Serves(S, ReconcileStore(S), {})
<1> DEFINE T == ReconcileStore(S)
           expired == {m \in MessageRefs : LeaseRanOut(S, m)}
           owners == {S.messages[m].attempt : m \in expired}
<1>1. S \in Store /\ Sound(S) /\ Fenced(S) /\ Owned(S) /\ Dropped(S)
  BY DEF LedgerSound
<1>2. Kept(S, T) /\ Guarded(S, T) /\ Settled(S, T)
  BY <1>1, ReconcileKept, ReconcileGuarded, ReconcileSettled
<1>3. /\ T.attempts = [a \in AttemptRefs |->
            IF a \in owners THEN [S.attempts[a] EXCEPT !.state = "orphaned"] ELSE S.attempts[a]]
      /\ T.messages = [m \in MessageRefs |->
            IF m \in expired THEN [S.messages[m] EXCEPT !.state = "takeover_candidate"]
            ELSE S.messages[m]]
  BY <1>1 DEF ReconcileStore, Store
<1>4. ASSUME NEW a \in owners
      PROVE  /\ a \in AttemptRefs /\ S.attempts[a].state # "canceled"
             /\ S.attempts[a].lease = Expired
  <2>1. PICK m \in MessageRefs : LeaseRanOut(S, m) /\ S.messages[m].attempt = a
    OBVIOUS
  <2> QED BY <1>1, <2>1, CurrentExists, CurrentNotCanceled DEF LeaseRanOut
<1>5. ASSUME NEW a \in owners PROVE T.attempts[a].state = "orphaned"
  BY <1>1, <1>3, <1>4, StoreParts DEF Attempt
<1>6. \A a \in AttemptRefs : a \notin owners => T.attempts[a] = S.attempts[a]
  BY <1>3
<1>7. \A m \in MessageRefs : S.messages[m].state = "canceled" => T.messages[m] = S.messages[m]
  BY <1>3 DEF LeaseRanOut
<1> HIDE DEF T, owners, expired
<1>8. \A a \in AttemptRefs :
        \/ T.attempts[a] = S.attempts[a]
        \/ /\ S.attempts[a].state # "canceled" /\ S.attempts[a].lease = Expired
           /\ T.attempts[a].state = "orphaned"
  BY <1>4, <1>5, <1>6
<1>9. \A m \in MessageRefs : S.messages[m].state = "canceled" => T.messages[m].state = "canceled"
  BY <1>7
<1>10. Steady(S, T, {})
  <2>1. T \in Store
    BY <1>2 DEF Kept
  <2> QED BY <1>1, <1>8, <1>9, <2>1, SteadyStep
<1>11. Serves(S, T, {})
  BY <1>2, <1>10, ServedBy
<1> QED BY <1>11 DEF T

\* The claim of the next eligible message; if it grants the attempt ref it was
\* given, that was free before.
LEMMA ClaimNextServes ==
    ASSUME NEW S, LedgerSound(S),
           NEW m \in MessageRefs, NEW e \in Endpoints, NEW a \in AttemptRefs,
           S.messages[m].state \in {"available", "takeover_candidate"},
           MessageDependenciesCompleted(S.requests[m], StateOf(S)),
           Grants(S, m) => ~Exists(S, a)
    PROVE  /\ Serves(S, ClaimNextStore(S, m, e, a), {})
           /\ Grants(S, m) => Exists(ClaimNextStore(S, m, e, a), a)
<1>1. S \in Store /\ Sound(S) /\ Fenced(S) /\ Owned(S) /\ Dropped(S)
  BY DEF LedgerSound
<1>2. Founded(S, m)
  BY <1>1, CompletedIsRecorded DEF Saved
<1>3. /\ Kept(S, ClaimNextStore(S, m, e, a))
      /\ Guarded(S, ClaimNextStore(S, m, e, a))
      /\ Settled(S, ClaimNextStore(S, m, e, a))
  BY <1>1, <1>2, ClaimNextKept, ClaimNextGuarded, ClaimNextSettled
<1>4. /\ S.messages[m].redelivery \in Nat
      /\ S.messages[m].redelivery + 1 \in Nat
  BY <1>1, StoreParts DEF Message
<1>5. ASSUME NEW n \in Nat, ~Exists(S, a), ClaimNextStore(S, m, e, a) = ClaimAt(S, m, e, a, n)
      PROVE  /\ Steady(S, ClaimNextStore(S, m, e, a), {})
             /\ Exists(ClaimNextStore(S, m, e, a), a)
  <2>1. Steady(S, ClaimAt(S, m, e, a, n), {})
    BY <1>1, <1>5, ClaimAtSteady
  <2>2. ClaimAt(S, m, e, a, n).attempts = [S.attempts EXCEPT ![a] =
            [state |-> "claimed", msg |-> m, ep |-> e, lease |-> LeaseTicks,
             rev |-> 1, epoch |-> n + 1]]
    BY <1>1 DEF ClaimAt, Store
  <2>3. Exists(ClaimAt(S, m, e, a, n), a)
    BY <1>1, <2>2, StoreParts DEF Exists
  <2> QED BY <1>5, <2>1, <2>3
<1>6. CASE S.messages[m].state = "available"
  <2>1. Grants(S, m) /\ ClaimNextStore(S, m, e, a) = ClaimAt(S, m, e, a, S.messages[m].redelivery)
    BY <1>6 DEF Grants, ClaimNextStore, ClaimAvailableMessage
  <2> QED BY <2>1, <1>3, <1>4, <1>5, ServedBy
<1>7. CASE S.messages[m].state = "takeover_candidate"
  <2>1. HasCurrentAttempt(S, m) /\ IsTakeoverCandidate(S, m)
    BY <1>1, <1>7, StoreParts
       DEF HasCurrentAttempt, IsTakeoverCandidate, Sound, RecordSound, RecordStateBacked
  <2>2. CASE OutOfRedeliveries(S, m)
    <3>1. ClaimNextStore(S, m, e, a) = DeadLetterMessage(S, m)
      BY <1>7, <2>1, <2>2 DEF ClaimNextStore
    <3>2. S.attempts[S.messages[m].attempt].lease = Expired
      BY <1>1, <2>1, CandidateExpired
    <3>3. DeadLetterMessage(S, m) \in Store
      BY <1>3, <3>1 DEF Kept
    <3>4. Steady(S, DeadLetterMessage(S, m), {})
      BY <1>1, <1>7, <2>1, <3>2, <3>3, DeadLetterSteady
    <3>5. ~Grants(S, m)
      BY <1>7, <2>2 DEF Grants
    <3> QED BY <1>3, <3>1, <3>4, <3>5, ServedBy
  <2>3. CASE ~OutOfRedeliveries(S, m)
    <3>1. /\ Grants(S, m)
          /\ ClaimNextStore(S, m, e, a) = ClaimAt(S, m, e, a, S.messages[m].redelivery + 1)
      BY <1>7, <2>1, <2>3 DEF Grants, ClaimNextStore, TakeoverMessage
    <3> QED BY <3>1, <1>3, <1>4, <1>5, ServedBy
  <2> QED BY <2>2, <2>3
<1> QED BY <1>6, <1>7

\* A claim-next request, that reconciles the ledger first.
LEMMA ClaimNextMessageServes ==
    ASSUME LedgerSound(store), NEW e \in Endpoints, NEW m \in MessageRefs,
           NEW a \in AttemptRefs, ClaimNextMessage(e, m, a)
    PROVE  /\ Serves(store, store', {})
           /\ Grants(ReconcileStore(store), m) => ~Exists(store, a) /\ Exists(store', a)
<1> DEFINE S == ReconcileStore(store)
<1>1. Serves(store, S, {})
  BY ReconcileServes
<1>2. /\ NextFor(S, m, e) /\ store' = ClaimNextStore(S, m, e, a)
      /\ Grants(S, m) => ~Exists(S, a)
  BY DEF ClaimNextMessage
<1>3. \A b \in AttemptRefs : Exists(store, b) => Exists(S, b)
  BY <1>1 DEF Serves, Grows
<1> HIDE DEF S
<1>4. /\ S.messages[m].state \in {"available", "takeover_candidate"}
      /\ MessageDependenciesCompleted(S.requests[m], StateOf(S))
  BY <1>2 DEF NextFor, IsNext, IsFirst, Eligible
<1>5. /\ Serves(S, store', {})
      /\ Grants(S, m) => Exists(store', a)
  BY <1>1, <1>2, <1>4, ClaimNextServes DEF Serves
<1>6. Serves(store, store', {} \cup {})
  BY <1>1, <1>5, ServesTransitive
<1> QED BY <1>2, <1>3, <1>5, <1>6 DEF S

\* What closes an attempt, of the states that a worker reports.
Closed(a, report) == IF report \in {"failed", "completed"} THEN {a} ELSE {}

\* A report of a live attempt: it keeps its lease, and is on record for good.
LEMMA CheckpointServes ==
    ASSUME NEW S, LedgerSound(S), NEW a \in AttemptRefs, Live(S, a),
           NEW s \in {"claimed", "in_progress", "blocked_missing_fields", "failed", "completed"}
    PROVE  LET T == CheckpointStore(S, a, s)
           IN  Serves(S, T, Closed(a, s)) /\ s \in T.checkpoints[a].reported
<1> DEFINE T == CheckpointStore(S, a, s)
           m == S.attempts[a].msg
<1>1. S \in Store /\ Sound(S) /\ Fenced(S) /\ Owned(S) /\ Dropped(S)
  BY DEF LedgerSound
<1>2. Open(S, a) /\ Exists(S, a) /\ s \in CheckpointState
  BY DEF Live, Open, Exists, CheckpointState, AttemptState
<1>3. Kept(S, T) /\ Guarded(S, T) /\ Settled(S, T)
  BY <1>1, <1>2, CheckpointStoreKept, CheckpointGuarded, CheckpointSettled
<1>4. /\ T \in Store /\ m \in MessageRefs
      /\ T.attempts[a].state = s
      /\ \A b \in AttemptRefs : b # a => T.attempts[b] = S.attempts[b]
      /\ \A n \in MessageRefs : n # m => T.messages[n] = S.messages[n]
  BY <1>1, <1>2, CheckpointParts
<1>5. /\ T.attempts = [S.attempts EXCEPT ![a] =
            [S.attempts[a] EXCEPT !.state = s, !.rev = SaveCheckpoint(S, a, s).checkpoints[a].count]]
      /\ T.checkpoints = [S.checkpoints EXCEPT ![a] =
            [count |-> @.count + 1, reported |-> @.reported \cup {s}]]
  BY <1>1 DEF CheckpointStore, SaveCheckpoint, UpdateAttempt, UpdateMessage, Store
<1>6. T.attempts[a].lease = S.attempts[a].lease /\ s \in T.checkpoints[a].reported
  BY <1>1, <1>5, StoreParts DEF Attempt
<1>7. S.attempts[a].lease >= S.attempts[a].lease
  <2>1. Countdown(LeaseTicks) \subseteq Int
    BY StoreAssumption DEF Countdown, Expired
  <2> QED BY <1>1, <2>1, StoreParts DEF Attempt
<1>8. S.messages[m].state # "canceled"
  BY <1>1, <1>2 DEF Owned, Working
<1> HIDE DEF T
<1>9. \A n \in MessageRefs : S.messages[n].state = "canceled" => T.messages[n].state = "canceled"
  BY <1>4, <1>8
<1>10. \/ Live(S, a) /\ Open(T, a) /\ T.attempts[a].lease >= S.attempts[a].lease
       \/ Live(S, a) /\ a \in Closed(a, s) /\ T.attempts[a].state = "completed"
       \/ Live(S, a) /\ a \in Closed(a, s) /\ T.attempts[a].state = "failed"
  BY <1>4, <1>6, <1>7 DEF Open, ClosedState, Closed
<1>11. Steady(S, T, Closed(a, s))
  BY <1>1, <1>4, <1>9, <1>10, SteadyStep
<1>12. Serves(S, T, Closed(a, s))
  BY <1>3, <1>11, ServedBy
<1> QED BY <1>6, <1>12 DEF T

\* A completion without follow-ups is a report and nothing else.
LEMMA CompleteServes ==
    ASSUME LedgerSound(store), NEW a \in AttemptRefs,
           CompleteAttempt(a, [m \in {} |-> NoRequest])
    PROVE  Serves(store, store', {a}) /\ "completed" \in store'.checkpoints[a].reported
<1> DEFINE T == CheckpointStore(store, a, "completed")
<1>1. Live(store, a)
  BY DEF CompleteAttempt
<1>2. Serves(store, T, Closed(a, "completed")) /\ "completed" \in T.checkpoints[a].reported
  BY <1>1, CheckpointServes
<1>3. T \in Store
  BY <1>2 DEF Serves, LedgerSound
<1>4. store' = [T EXCEPT
         !.requests = [n \in MessageRefs |->
             IF n \in {} THEN FollowUpRequest([m \in {} |-> NoRequest][n], store.attempts[a].msg,
                                              store.requests[store.attempts[a].msg].task)
             ELSE T.requests[n]],
         !.messages = [n \in MessageRefs |->
             IF n \in {} THEN [AbsentMessage EXCEPT !.state = "available"] ELSE T.messages[n]]]
  BY DEF CompleteAttempt
<1> HIDE DEF T
<1>5. store' = T
  BY <1>3, <1>4 DEF Store
<1> QED BY <1>2, <1>5 DEF Closed

\* A refresh gives a live attempt a whole lease.
LEMMA RefreshServes ==
    ASSUME LedgerSound(store), RegistryTypeOK, NEW a \in AttemptRefs, RefreshLease(a)
    PROVE  /\ Serves(store, store', {})
           /\ Open(store', a) /\ store'.attempts[a].lease = LeaseTicks
<1> DEFINE att == [store.attempts[a] EXCEPT !.lease = LeaseTicks]
<1>1. store \in Store /\ Sound(store) /\ Fenced(store) /\ Owned(store) /\ Dropped(store) /\ Inv
  BY DEF LedgerSound, Inv, TypeOK
<1>2. LeaseTicks \in Countdown(LeaseTicks)
  BY StoreAssumption DEF Countdown, Expired
<1>3. att \in Attempt /\ att.state = store.attempts[a].state /\ att.msg = store.attempts[a].msg
      /\ att.lease = LeaseTicks
  BY <1>1, <1>2, StoreParts DEF Attempt
<1>4. Live(store, a) /\ Open(store, a) /\ store' = UpdateAttempt(store, a, att)
  BY DEF RefreshLease, Live
<1>5. /\ store'.attempts = [store.attempts EXCEPT ![a] = att]
      /\ store'.messages = store.messages
  BY <1>1, <1>4 DEF UpdateAttempt, Store
<1>6. LeaseTicks >= store.attempts[a].lease
  BY <1>1, StoreParts, StoreAssumption DEF Attempt, Countdown, Expired
<1> HIDE DEF att
<1>7. store'.attempts[a] = att /\ \A b \in AttemptRefs : b # a => store'.attempts[b] = store.attempts[b]
  BY <1>1, <1>5, StoreParts
<1>8. Open(store', a) /\ store'.attempts[a].lease = LeaseTicks
  BY <1>3, <1>4, <1>7 DEF Open
<1>9. Kept(store, store')
  BY <1>1, RefreshKept
<1>10. Guarded(store, store')
  <2>1. att.state # "orphaned"
    BY <1>3, <1>4 DEF Open, ClosedState
  <2> QED BY <1>1, <1>3, <1>4, <2>1, UpdateAttemptGuarded
<1>11. Settled(store, store')
  <2>1. \A b \in AttemptRefs : /\ store'.attempts[b].state = store.attempts[b].state
                               /\ store'.attempts[b].msg = store.attempts[b].msg
    BY <1>3, <1>7
  <2> QED BY <1>1, <1>5, <1>9, <2>1, ClosingSettled DEF Kept
<1>12. Steady(store, store', {})
  <2>1. /\ Live(store, a) /\ Open(store', a)
        /\ store'.attempts[a].lease >= store.attempts[a].lease
    BY <1>4, <1>6, <1>8
  <2> QED BY <1>1, <1>5, <1>7, <1>9, <2>1, SteadyStep DEF Kept
<1> QED BY <1>8, <1>9, <1>10, <1>11, <1>12, ServedBy

\* A message that arrives has no attempt and was not canceled.
LEMMA IngressServes ==
    ASSUME LedgerSound(store), RegistryTypeOK, NEW m \in MessageRefs, NEW r \in Requests,
           IngressMessage(m, r)
    PROVE  Serves(store, store', {})
<1>1. store \in Store /\ Sound(store) /\ Fenced(store) /\ Owned(store) /\ Dropped(store) /\ Inv
  BY DEF LedgerSound, Inv, TypeOK
<1>2. r \in Request
  BY HandoffAssumption
<1>3. Kept(store, store')
  BY <1>1, <1>2, IngressKept
<1>4. /\ store'.attempts = store.attempts /\ store'.checkpoints = store.checkpoints
      /\ store'.deadLetters = store.deadLetters /\ ~Saved(store, m)
      /\ store'.messages =
            [store.messages EXCEPT ![m] = [AbsentMessage EXCEPT !.state = "available"]]
  BY <1>1 DEF IngressMessage, SaveMessage, Store
<1>5. \A n \in MessageRefs :
        \/ store'.messages[n] = store.messages[n]
        \/ /\ ~Saved(store, n)
           /\ store'.messages[n] = [AbsentMessage EXCEPT !.state = "available"]
  BY <1>1, <1>4, StoreParts
<1>6. \A n \in MessageRefs :
        \/ store'.messages[n].state \notin {"takeover_candidate", "dead_lettered"}
        \/ store'.messages[n] = store.messages[n]
  BY <1>5 DEF AbsentMessage
<1>7. \A n \in MessageRefs :
        store.messages[n].state = "canceled" => store'.messages[n] = store.messages[n]
  BY <1>5 DEF Saved
<1>8. Guarded(store, store')
  BY <1>1, <1>3, <1>4, <1>6, MessagesGuarded DEF Kept
<1>9. Settled(store, store')
  BY <1>1, <1>3, <1>4, <1>5, ArrivalsSettled DEF Kept
<1>10. Steady(store, store', {})
  BY <1>1, <1>3, <1>4, <1>7, MessagesSteady DEF Kept
<1> QED BY <1>3, <1>8, <1>9, <1>10, ServedBy

\* A cancel takes messages from their attempts, and closes both.
LEMMA CancelServes ==
    ASSUME LedgerSound(store), RegistryTypeOK, NEW t \in Tasks, CancelTask(t)
    PROVE  Serves(store, store', {})
<1> DEFINE dropped == {a \in AttemptRefs : Open(store, a)
                          /\ \E m \in ToCancel(t) : store.messages[m].attempt = a}
<1>1. /\ store \in Store /\ Sound(store) /\ Fenced(store) /\ Owned(store) /\ Dropped(store)
      /\ Inv /\ OwnershipInv
  BY DEF LedgerSound, Inv, TypeOK, OwnershipInv
<1>2. Kept(store, store') /\ store' \in Store
  BY <1>1, CancelKept DEF Kept
<1>3. Guarded(store, store') /\ Settled(store, store')
  BY <1>1, <1>2, CancelGuarded, CancelSettled
<1>4. /\ store'.attempts = [a \in AttemptRefs |->
            IF a \in dropped THEN [store.attempts[a] EXCEPT !.state = "canceled"]
            ELSE store.attempts[a]]
      /\ store'.messages = [m \in MessageRefs |->
            IF m \in ToCancel(t) THEN [store.messages[m] EXCEPT !.state = "canceled"]
            ELSE store.messages[m]]
  BY <1>1 DEF CancelTask, Store
<1>5. \A m \in ToCancel(t) : m \in MessageRefs /\ store'.messages[m].state = "canceled"
  BY <1>1, <1>4, StoreParts DEF Message, ToCancel
<1>6. \A m \in MessageRefs : m \notin ToCancel(t) => store'.messages[m] = store.messages[m]
  BY <1>4
<1>7. ASSUME NEW a \in dropped
      PROVE  /\ Open(store, a) /\ store'.attempts[a].state = "canceled"
             /\ store'.messages[store'.attempts[a].msg].state = "canceled"
  <2>1. PICK m \in ToCancel(t) : store.messages[m].attempt = a
    OBVIOUS
  <2>2. m \in MessageRefs /\ HasCurrentAttempt(store, m)
    BY <1>5, <2>1, StoreAssumption DEF HasCurrentAttempt
  <2>3. store.attempts[a].msg = m
    BY <1>1, <2>1, <2>2, CurrentExists
  <2>4. store'.attempts[a].state = "canceled" /\ store'.attempts[a].msg = store.attempts[a].msg
    BY <1>1, <1>4, StoreParts DEF Attempt
  <2> QED BY <1>5, <2>3, <2>4
<1>8. \A a \in AttemptRefs : a \notin dropped => store'.attempts[a] = store.attempts[a]
  BY <1>4
<1> HIDE DEF dropped
<1>9. \A m \in MessageRefs :
        store.messages[m].state = "canceled" => store'.messages[m].state = "canceled"
  BY <1>5, <1>6
<1>10. \A a \in AttemptRefs :
         \/ store'.attempts[a] = store.attempts[a]
         \/ /\ Open(store, a) /\ store'.attempts[a].state = "canceled"
            /\ store'.messages[store'.attempts[a].msg].state = "canceled"
  BY <1>7, <1>8
<1>11. Steady(store, store', {})
  BY <1>1, <1>2, <1>9, <1>10, SteadyStep
<1> QED BY <1>2, <1>3, <1>11, ServedBy

\* Time takes a tick from every lease, and nothing else: what was over is over.
LEMMA TickServes ==
    ASSUME NEW S, LedgerSound(S)
    PROVE  LET T == TickStore(S)
           IN  /\ Serves(S, T, AttemptRefs)
               /\ \A a \in AttemptRefs : /\ T.attempts[a].state = S.attempts[a].state
                                         /\ T.attempts[a].lease = Elapse(S.attempts[a].lease)
<1> DEFINE T == TickStore(S)
<1>1. S \in Store /\ Sound(S) /\ Fenced(S) /\ Owned(S) /\ Dropped(S)
  BY DEF LedgerSound
<1>2. Kept(S, T) /\ Guarded(S, T)
  BY <1>1, TickKept, TickGuarded
<1>3. /\ T.messages = S.messages
      /\ T.attempts = [a \in AttemptRefs |->
            [S.attempts[a] EXCEPT !.lease = Elapse(S.attempts[a].lease)]]
  BY <1>1 DEF TickStore, Store
<1>4. \A a \in AttemptRefs : /\ T.attempts[a].state = S.attempts[a].state
                             /\ T.attempts[a].msg = S.attempts[a].msg
                             /\ T.attempts[a].lease = Elapse(S.attempts[a].lease)
  BY <1>1, <1>3, StoreParts DEF Attempt
<1> HIDE DEF T
<1>5. Settled(S, T)
  BY <1>1, <1>2, <1>3, <1>4, ClosingSettled DEF Kept
<1>6. Steady(S, T, AttemptRefs)
  <2>1. \A a \in AttemptRefs : ~Live(S, a) => ~Live(T, a)
    BY <1>4 DEF Live, Open, Elapse
  <2> QED BY <1>1, <1>3, <1>4, <2>1 DEF Steady, Retains, Dropped
<1>7. Serves(S, T, AttemptRefs)
  BY <1>2, <1>5, <1>6, ServedBy
<1> QED BY <1>4, <1>7 DEF T

\* Nothing happened.
LEMMA StutterServes ==
    ASSUME NEW S, LedgerSound(S)
    PROVE  Serves(S, S, {})
<1>1. S \in Store /\ Sound(S) /\ Dropped(S)
  BY DEF LedgerSound
<1>2. Steady(S, S, {})
  BY <1>1, MessagesSteady
<1> QED BY <1>2 DEF Serves, Grows, Steady

-----------------------------------------------------------------------------
(* Requests.                                                               *)

\* The requests that report a state of the attempt, and those about one at all.
LEMMA ReportsOfOperations ==
    /\ DOMAIN ReportOf = {"ack", "progress", "block", "fail"}
    /\ ReportOf["ack"] = "claimed" /\ ReportOf["progress"] = "in_progress"
    /\ ReportOf["block"] = "blocked_missing_fields" /\ ReportOf["fail"] = "failed"
    /\ AttemptOperation = {"ack", "progress", "block", "fail", "refresh", "attach", "complete"}
BY DEF ReportOf, AttemptOperation

\* What the server did with a request that it accepted, and the answer it gave.
LEMMA AcceptServes ==
    ASSUME LedgerSound(store), RegistryTypeOK, NEW op \in Operation, NEW a,
           op \in AttemptOperation => Granted(store, a),
           NEW got \in AttemptRefs \cup {NoAttempt}, op # "claim" => got = NoAttempt,
           Accepts(op, a, got)
    PROVE  /\ RegistryTypeOK'
           /\ Serves(store, store', IF op \in Closing THEN {a} ELSE {})
           /\ op \in DOMAIN ReportOf => ReportOf[op] \in store'.checkpoints[a].reported
           /\ op = "complete" => "completed" \in store'.checkpoints[a].reported
           /\ op = "refresh" => Open(store', a) /\ store'.attempts[a].lease = LeaseTicks
           /\ got # NoAttempt => ~Exists(store, got) /\ Granted(store', got)
<1>1. /\ op \in {"ack", "progress", "block", "fail", "refresh", "attach", "complete",
                 "register", "online", "offline", "advertise", "claim"}
      /\ Me \in Endpoints /\ Skills \in SUBSET Capabilities
  BY ReportsOfOperations, WorkerAssumption, RegistryAssumption DEF Operation
<1>2. Serves(store, store, {})
  BY StutterServes
<1>3. CASE op \in {"ack", "progress", "block", "fail"}
  <2>1. /\ Granted(store, a) /\ got = NoAttempt
        /\ Live(store, a) /\ store' = CheckpointStore(store, a, ReportOf[op])
        /\ UNCHANGED endpoints
    BY <1>3, ReportsOfOperations DEF Accepts, SubmitCheckpoint
  <2>2. /\ ReportOf[op] \in {"claimed", "in_progress", "blocked_missing_fields", "failed", "completed"}
        /\ Closed(a, ReportOf[op]) = IF op \in Closing THEN {a} ELSE {}
    BY <1>3, ReportsOfOperations DEF Closed, Closing
  <2>3. /\ Serves(store, store', IF op \in Closing THEN {a} ELSE {})
        /\ ReportOf[op] \in store'.checkpoints[a].reported
    BY <2>1, <2>2, CheckpointServes DEF Granted
  <2> QED BY <1>3, <2>1, <2>3 DEF RegistryTypeOK
<1>4. CASE op = "refresh"
  <2>1. Granted(store, a) /\ got = NoAttempt /\ RefreshLease(a) /\ UNCHANGED endpoints
    BY <1>4, ReportsOfOperations DEF Accepts, RefreshLease
  <2>2. /\ Serves(store, store', {})
        /\ Open(store', a) /\ store'.attempts[a].lease = LeaseTicks
    BY <2>1, RefreshServes DEF Granted
  <2>3. RegistryTypeOK'
    BY <2>1 DEF RegistryTypeOK
  <2> QED BY <1>4, <2>1, <2>2, <2>3, ReportsOfOperations DEF Closing
<1>5. CASE op = "complete"
  <2>1. /\ Granted(store, a) /\ got = NoAttempt
        /\ CompleteAttempt(a, [m \in {} |-> NoRequest])
    BY <1>5, ReportsOfOperations DEF Accepts
  <2>2. Serves(store, store', {a}) /\ "completed" \in store'.checkpoints[a].reported
    BY <2>1, CompleteServes DEF Granted
  <2>3. UNCHANGED endpoints
    BY <2>1 DEF CompleteAttempt
  <2>4. RegistryTypeOK'
    BY <2>3 DEF RegistryTypeOK
  <2> QED BY <1>5, <2>1, <2>2, <2>4, ReportsOfOperations DEF Closing
<1>6. CASE op = "attach"
  <2>1. got = NoAttempt /\ UNCHANGED <<endpoints, store>>
    BY <1>6, ReportsOfOperations DEF Accepts, Stays
  <2> QED BY <1>6, <2>1, <1>2, ReportsOfOperations DEF Closing, RegistryTypeOK
<1>7. CASE op \in {"register", "online", "offline", "advertise"}
  <2>1. /\ got = NoAttempt /\ UNCHANGED store
        /\ \/ RegisterEndpoint(Me, "online", Skills)
           \/ HeartbeatEndpoint(Me, "online") \/ HeartbeatEndpoint(Me, "offline")
           \/ AdvertiseCapabilities(Me, Skills)
    BY <1>7, ReportsOfOperations DEF Accepts
  <2>2. HeartbeatTicks \in Countdown(HeartbeatTicks)
    <3>1. HeartbeatTicks \in Nat
      BY RegistryAssumption
    <3> QED BY <3>1 DEF Countdown, Expired
  <2>3. RegistryTypeOK'
    <3>1. CASE RegisterEndpoint(Me, "online", Skills)
      BY <1>1, <2>2, <3>1 DEF RegistryTypeOK, RegisterEndpoint, Endpoint, ConnectionState
    <3>2. ASSUME NEW conn \in {"online", "offline"}, HeartbeatEndpoint(Me, conn)
          PROVE  RegistryTypeOK'
      BY <1>1, <2>2, <3>2 DEF RegistryTypeOK, HeartbeatEndpoint, Endpoint, ConnectionState
    <3>3. CASE AdvertiseCapabilities(Me, Skills)
      BY <1>1, <3>3 DEF RegistryTypeOK, AdvertiseCapabilities, Endpoint
    <3> QED BY <2>1, <3>1, <3>2, <3>3
  <2> QED BY <1>7, <2>1, <2>3, <1>2, ReportsOfOperations DEF Closing
<1>8. CASE op = "claim"
  <2>1. /\ op \notin Closing /\ op \notin DOMAIN ReportOf
    BY <1>8, ReportsOfOperations DEF Closing
  <2>2. \/ got = NoAttempt /\ ClaimNothing(Me)
        \/ \E m \in MessageRefs, b \in AttemptRefs :
              got = NoAttempt /\ ClaimNextMessage(Me, m, b)
        \/ \E m \in MessageRefs :
              /\ got \in AttemptRefs
              /\ Grants(ReconcileStore(store), m) /\ ClaimNextMessage(Me, m, got)
    BY <1>8, ReportsOfOperations DEF Accepts
  <2>3. UNCHANGED endpoints
    BY <2>2 DEF ClaimNothing, ClaimNextMessage
  <2>4. ClaimNothing(Me) => Serves(store, store', {})
    BY ReconcileServes DEF ClaimNothing
  <2>5. ASSUME NEW m \in MessageRefs, NEW b \in AttemptRefs,
               got = NoAttempt, ClaimNextMessage(Me, m, b)
        PROVE  Serves(store, store', {})
    BY <1>1, <2>5, ClaimNextMessageServes
  <2>6. ASSUME NEW m \in MessageRefs, got \in AttemptRefs,
               Grants(ReconcileStore(store), m), ClaimNextMessage(Me, m, got)
        PROVE  Serves(store, store', {}) /\ ~Exists(store, got) /\ Granted(store', got)
    BY <1>1, <2>6, ClaimNextMessageServes DEF Granted
  <2>7. RegistryTypeOK'
    BY <2>3 DEF RegistryTypeOK
  <2>8. /\ Serves(store, store', {})
        /\ got # NoAttempt => ~Exists(store, got) /\ Granted(store', got)
    BY <2>2, <2>4, <2>5, <2>6
  <2> QED BY <1>8, <2>1, <2>7, <2>8
<1> QED BY <1>1, <1>3, <1>4, <1>5, <1>6, <1>7, <1>8

\* A refusal is the server's word that the attempt is not live.
LEMMA RefusedIsOver ==
    ASSUME NEW op \in AttemptOperation, NEW a, Refuses(op, a)
    PROVE  ~Live(store, a)
BY ReportsOfOperations DEF Refuses

-----------------------------------------------------------------------------
(* What stays true while the server serves.                                *)

\* An attempt that was granted stays on record.
LEMMA GrantStays ==
    ASSUME NEW S, NEW T, NEW B, Serves(S, T, B), NEW a, Granted(S, a)
    PROVE  Granted(T, a)
BY DEF Serves, Grows, Granted

\* What an outcome claims of an attempt stays true of it.
LEMMA ClaimsStay ==
    ASSUME NEW S, NEW T, NEW B, Serves(S, T, B), NEW a, Granted(S, a), NEW o, Claims(S, a, o)
    PROVE  Claims(T, a, o)
BY DEF Serves, Grows, Retains, Granted, Claims

\* What a request relies on, and what its answer told, stays true.
LEMMA CallStays ==
    ASSUME NEW S, NEW T, NEW B, Serves(S, T, B), NEW c, CallSound(S, c)
    PROVE  CallSound(T, c)
<1>1. c.op \in DOMAIN ReportOf \cup {"complete"} => c.op \in AttemptOperation
  BY DEF AttemptOperation
<1> QED BY <1>1, GrantStays DEF CallSound, Serves, Grows, Retains, Granted

-----------------------------------------------------------------------------
(* The worker's own steps, which leave the server as it is.                *)

\* The requests by name.
LEMMA OperationsAre ==
    /\ Operation = {"ack", "progress", "block", "fail", "register", "online", "offline",
                    "advertise", "claim", "refresh", "attach", "complete"}
    /\ AttemptOperation \subseteq Operation
BY ReportsOfOperations DEF Operation

\* The places of the loop and their requests by name.
LEMMA PlacesAre ==
    /\ DOMAIN OperationAt = {"ack", "first_refresh", "report_error", "attach", "progress",
                             "complete", "block", "fail"}
    /\ OperationAt["ack"] = "ack" /\ OperationAt["first_refresh"] = "refresh"
    /\ OperationAt["report_error"] = "fail" /\ OperationAt["attach"] = "attach"
    /\ OperationAt["progress"] = "progress" /\ OperationAt["complete"] = "complete"
    /\ OperationAt["block"] = "block" /\ OperationAt["fail"] = "fail"
BY DEF OperationAt

\* A request that was just sent.
LEMMA SentIs ==
    ASSUME NEW op \in Operation, NEW a \in AttemptRefs \cup {NoAttempt}
    PROVE  LET c == Sent(op, a)
           IN  /\ c \in Call /\ c.op = op /\ c.a = a /\ c.answer = "pending"
               /\ c.got = NoAttempt /\ c # NoCall
<1>1. Expired \in Countdown(LeaseTicks)
  <2>1. LeaseTicks \in Nat
    BY StoreAssumption
  <2> QED BY <2>1 DEF Countdown, Expired
<1> QED BY <1>1 DEF Sent, NoCall, Call

\* No request.
LEMMA NoCallIs ==
    /\ NoCall \in Call /\ NoCall.op = "none" /\ NoCall.answer = "none"
    /\ NoCall.got = NoAttempt /\ NoCall.a = NoAttempt
<1>1. Expired \in Countdown(LeaseTicks)
  <2>1. LeaseTicks \in Nat
    BY StoreAssumption
  <2> QED BY <2>1 DEF Countdown, Expired
<1> QED BY <1>1 DEF NoCall, Call

\* A request that was just sent, about an attempt that was granted if any, and
\* no request at all, are sound.
LEMMA SentSound ==
    ASSUME NEW S, NEW op \in Operation, NEW a \in AttemptRefs \cup {NoAttempt},
           op \in AttemptOperation => Granted(S, a)
    PROVE  CallSound(S, Sent(op, a)) /\ CallSound(S, NoCall)
BY SentIs, NoCallIs, ReportsOfOperations, OperationsAre DEF CallSound

\* What is left behind by threads that stop waiting is what they had sent.
LEMMA LeftBehind ==
    ASSUME WorkerInv, NEW ts \in SUBSET Thread, LeavesBehind(ts)
    PROVE  /\ strays' \subseteq Stray
           /\ \A r \in strays' \ strays :
                 /\ r.op \in AttemptOperation => Granted(store, r.a)
                 /\ \E t \in ts : Waiting(t) /\ r.op = calls[t].op /\ r.a = calls[t].a
<1> DEFINE sent == {[op |-> calls[t].op, a |-> calls[t].a] : t \in {u \in ts : Waiting(u)}}
<1>1. PICK arrive \in SUBSET {r \in sent : r.op \in Effective} : strays' = strays \cup arrive
  BY DEF LeavesBehind
<1>2. strays \subseteq Stray /\ calls \in [Thread -> Call]
  BY DEF WorkerInv, WorkerTypeOK
<1>3. ASSUME NEW r \in arrive
      PROVE  /\ r \in Stray
             /\ r.op \in AttemptOperation => Granted(store, r.a)
             /\ \E t \in ts : Waiting(t) /\ r.op = calls[t].op /\ r.a = calls[t].a
  <2>1. PICK t \in ts : Waiting(t) /\ r = [op |-> calls[t].op, a |-> calls[t].a]
    OBVIOUS
  <2>2. calls[t] \in Call /\ CallSound(store, calls[t]) /\ r.op \in Operation
    BY <1>2 DEF WorkerInv, Effective
  <2> QED BY <2>1, <2>2 DEF Call, Stray, CallSound
<1> HIDE DEF sent
<1>4. arrive \subseteq Stray /\ strays' \ strays \subseteq arrive
  BY <1>1, <1>3
<1> QED BY <1>1, <1>2, <1>3, <1>4

\* The loop goes from one place to another, but not to its executor; it may stop
\* the other threads on its way.  What it must see to.
LEMMA ProcessMoves ==
    ASSUME WorkerInv, main' \in Main, main'.pc # "execute", Stays,
           calls' \in [Thread -> Call], CallSound(store, calls'["main"]),
           calls'["main"].got = NoAttempt, calls'["main"].answer # "ok",
           main'.pc \in DOMAIN OperationAt =>
               calls'["main"].op = OperationAt[main'.pc] /\ calls'["main"].a = main'.a,
           main'.pc \in UnclaimedPlaces => calls'["main"].op \notin AttemptOperation,
           calls'["main"].op = "claim" => main'.pc = "claim",
           main'.pc \in {"off", "idle", "settle", "stop"} => calls'["main"] = NoCall,
           main'.pc \in DOMAIN OperationAt \cup KeptPlaces => Granted(store, main'.a),
           main'.pc \in {"progress", "complete"} => main'.result = "completed",
           main'.pc = "block" => main'.result = "blocked",
           main'.pc = "fail" => main'.result = "failed",
           main'.pc = "settle" => Claims(store, main'.a, main'.result),
           IF main'.pc \in KeptPlaces
           THEN /\ main'.a = main.a /\ main.pc \in KeptPlaces
                /\ keeper' = keeper /\ calls'["keeper"] = calls["keeper"]
           ELSE /\ keeper' \in Keeper /\ ~keeper'.on /\ keeper'.err = "none"
                /\ calls'["keeper"] = NoCall,
           \/ /\ main'.pc = "report_error" /\ reporter' = reporter
              /\ calls'["reporter"] = calls["reporter"]
           \/ reporter' \in Reporter /\ ~reporter'.on /\ calls'["reporter"] = NoCall,
           heart' \in Heart, calls'["heart"] \in {calls["heart"], NoCall},
           last' \in Last,
           last'.outcome # "none" =>
               Granted(store, last'.a) /\ Claims(store, last'.a, last'.outcome),
           strays' \subseteq Stray,
           \A r \in strays' \ strays :
               /\ r.op \in AttemptOperation => Granted(store, r.a)
               /\ r.op \in Closing => main'.pc \notin {"ack", "first_refresh"},
           main'.pc \in {"ack", "first_refresh"} =>
               IF main.pc = "claim" THEN main'.a = calls["main"].got
               ELSE main.pc \in {"ack", "first_refresh"} /\ main'.a = main.a
    PROVE  WorkerInv'
<1>1. UNCHANGED <<endpoints, store>>
  BY DEF Stays
<1>2. calls \in [Thread -> Call] /\ Thread = {"main", "keeper", "reporter", "heart"}
  BY DEF WorkerInv, WorkerTypeOK, Thread
<1>3. WorkerTypeOK'
  BY <1>1, <1>2 DEF WorkerInv, WorkerTypeOK, TypeOK, RegistryTypeOK
<1>4. CallSound(store, NoCall)
  BY NoCallIs, ReportsOfOperations DEF CallSound
<1>5. \A t \in Thread : CallSound(store', calls'[t])
  BY <1>1, <1>2, <1>4 DEF WorkerInv
<1>6. LoopSound'
  BY <1>1, <1>2 DEF LoopSound, UnclaimedPlaces, KeptPlaces
<1>7. ThreadsSound'
  BY <1>1, <1>2, NoCallIs DEF WorkerInv, ThreadsSound, KeptPlaces
<1>8. Unthreatened'
  <2>1. \A r \in strays' : r.op \in Closing => r.a \in AttemptRefs
    BY ReportsOfOperations DEF WorkerInv, Closing, Granted
  <2>2. \A r \in strays' : r.op \in Closing => r.a # NoAttempt
    BY <2>1, StoreAssumption
  <2> QED BY <1>1, <1>2, <2>2 DEF WorkerInv, Unthreatened
<1>9. Timely'
  BY <1>1, <1>2 DEF Timely, Refreshed
<1>10. /\ LedgerSound(store)'
       /\ \A r \in strays' : r.op \in AttemptOperation => Granted(store', r.a)
       /\ last'.outcome # "none" =>
             Granted(store', last'.a) /\ Claims(store', last'.a, last'.outcome)
  BY <1>1 DEF WorkerInv
<1> QED BY <1>3, <1>5, <1>6, <1>7, <1>8, <1>9, <1>10 DEF WorkerInv

\* The same for the loop alone.
LEMMA LoopMoves ==
    ASSUME WorkerInv, main' \in Main, main'.pc # "execute",
           Stays, UNCHANGED <<keeper, reporter, strays>>,
           NEW c \in Call, calls' = [calls EXCEPT !["main"] = c],
           heart' \in Heart, last' \in Last,
           last'.outcome # "none" =>
               Granted(store, last'.a) /\ Claims(store, last'.a, last'.outcome),
           CallSound(store, c), c.got = NoAttempt, c.answer # "ok",
           main'.pc \in DOMAIN OperationAt => c.op = OperationAt[main'.pc] /\ c.a = main'.a,
           main'.pc \in UnclaimedPlaces => c.op \notin AttemptOperation,
           c.op = "claim" => main'.pc = "claim",
           main'.pc \in {"off", "idle", "settle", "stop"} => c = NoCall,
           main'.pc \in DOMAIN OperationAt \cup KeptPlaces => Granted(store, main'.a),
           main'.pc \in {"progress", "complete"} => main'.result = "completed",
           main'.pc = "block" => main'.result = "blocked",
           main'.pc = "fail" => main'.result = "failed",
           main'.pc = "settle" => Claims(store, main'.a, main'.result),
           IF main.pc \in KeptPlaces THEN main'.a = main.a /\ main'.pc \in KeptPlaces
                                     ELSE main'.pc \notin KeptPlaces,
           reporter.on => main'.pc = "report_error",
           main'.pc \in {"ack", "first_refresh"} =>
               IF main.pc = "claim" THEN main'.a = calls["main"].got
               ELSE main.pc \in {"ack", "first_refresh"} /\ main'.a = main.a
    PROVE  WorkerInv'
<1>1. calls \in [Thread -> Call] /\ Thread = {"main", "keeper", "reporter", "heart"}
      /\ keeper \in Keeper /\ reporter \in Reporter /\ strays \subseteq Stray
  BY DEF WorkerInv, WorkerTypeOK, Thread
<1>2. /\ calls' \in [Thread -> Call]
      /\ calls'["main"] = c
      /\ calls'["keeper"] = calls["keeper"] /\ calls'["reporter"] = calls["reporter"]
      /\ calls'["heart"] = calls["heart"]
  BY <1>1
<1>3. /\ keeper.on => main.pc \in KeptPlaces /\ keeper.err = "none"
      /\ keeper.err # "none" => main.pc \in KeptPlaces
      /\ calls["keeper"] # NoCall => keeper.on
      /\ calls["reporter"] # NoCall => reporter.on
  BY DEF WorkerInv, ThreadsSound
<1> QED BY <1>1, <1>2, <1>3, ProcessMoves

\* A step of the loop alone leaves the other threads and its last claim alone.
LEMMA OnlyMain ==
    ASSUME WorkerInv, MainOnly
    PROVE  /\ Stays /\ UNCHANGED <<keeper, reporter, strays>>
           /\ last' \in Last /\ heart' \in Heart
           /\ last'.outcome # "none" =>
                 Granted(store, last'.a) /\ Claims(store, last'.a, last'.outcome)
BY DEF WorkerInv, WorkerTypeOK, MainOnly

\* The loop's record, spelled out.
LEMMA MainParts ==
    ASSUME WorkerInv
    PROVE  /\ main = [pc |-> main.pc, a |-> main.a, result |-> main.result, prompt |-> main.prompt]
           /\ main.pc \in MainStep /\ main.a \in AttemptRefs \cup {NoAttempt}
           /\ main.result \in Outcome /\ main.prompt \in BOOLEAN
           /\ reporter.on => main.pc \in {"execute", "report_error"}
           /\ NoAttempt \notin AttemptRefs
<1>1. main \in Main
  BY DEF WorkerInv, WorkerTypeOK
<1> QED BY <1>1, StoreAssumption DEF Main, WorkerInv, ThreadsSound

\* The loop sends the next request about its claim.
LEMMA ProceedsKeeps ==
    ASSUME WorkerInv, NEW from \in MainStep, NEW pc \in DOMAIN OperationAt,
           Proceeds(from, pc, OperationAt[pc]),
           \/ from = "ack" /\ pc = "first_refresh"
           \/ from = "attach" /\ pc = "progress" /\ main.result = "completed"
           \/ from = "attach" /\ pc = "block" /\ main.result = "blocked"
           \/ from = "attach" /\ pc = "fail" /\ main.result = "failed"
           \/ from = "progress" /\ pc = "complete"
    PROVE  WorkerInv'
<1> DEFINE c == Sent(OperationAt[pc], main.a)
<1>1. /\ main.pc = from /\ main' = [main EXCEPT !.pc = pc]
      /\ calls' = [calls EXCEPT !["main"] = c] /\ MainOnly
  BY DEF Proceeds, Goes, Ask
<1>2. /\ Granted(store, main.a)
      /\ main.pc \in {"progress", "complete"} => main.result = "completed"
  BY <1>1, PlacesAre DEF WorkerInv, LoopSound
<1>3. main' \in Main /\ main'.pc = pc /\ main'.a = main.a /\ main'.result = main.result
  BY <1>1, MainParts, PlacesAre DEF Main, MainStep
<1>4. OperationAt[pc] \in Operation /\ OperationAt[pc] # "claim"
  BY PlacesAre, OperationsAre
<1>5. /\ c \in Call /\ c.op = OperationAt[pc] /\ c.a = main.a /\ c.answer = "pending"
      /\ c.got = NoAttempt /\ c.op # "claim"
  BY <1>4, MainParts, SentIs
<1>6. CallSound(store, c)
  BY <1>2, <1>4, MainParts, SentSound
<1> HIDE DEF c
<1>7. pc \in MainStep \ {"execute"}
  BY PlacesAre DEF MainStep
<1>8. /\ pc \notin UnclaimedPlaces /\ pc \notin {"off", "idle", "settle", "stop"}
      /\ pc \in {"progress", "complete"} => main.result = "completed"
      /\ pc = "block" => main.result = "blocked"
      /\ pc = "fail" => main.result = "failed"
      /\ IF main.pc \in KeptPlaces THEN pc \in KeptPlaces ELSE pc \notin KeptPlaces
      /\ ~reporter.on
      /\ pc \in {"ack", "first_refresh"} => main.pc = "ack"
  BY <1>1, <1>2, MainParts DEF UnclaimedPlaces, KeptPlaces
<1> QED BY <1>1, <1>2, <1>3, <1>5, <1>6, <1>7, <1>8, MainParts, OnlyMain, LoopMoves

\* The requests before the first message, and after the last.
LEMMA RegisterKeeps ==
    ASSUME WorkerInv, StartWorker \/ Register
    PROVE  WorkerInv'
<1>1. PICK pc \in {"register", "first_beat", "advertise"},
           op \in {"register", "online", "advertise"},
           a \in AttemptRefs \cup {NoAttempt} :
         /\ main.pc \in {"off", "register", "first_beat"} /\ main' = [main EXCEPT !.pc = pc]
         /\ calls' = [calls EXCEPT !["main"] = Sent(op, a)] /\ MainOnly
  <2>1. main.a \in AttemptRefs \cup {NoAttempt}
    BY MainParts
  <2>2. CASE StartWorker
    <3>1. /\ main.pc = "off" /\ main' = [main EXCEPT !.pc = "register"]
          /\ calls' = [calls EXCEPT !["main"] = Sent("register", NoAttempt)] /\ MainOnly
      BY <2>2 DEF StartWorker, Goes, Ask
    <3> QED BY <3>1
  <2>3. CASE Proceeds("register", "first_beat", "online")
    BY <2>1, <2>3 DEF Proceeds, Goes, Ask
  <2>4. CASE Proceeds("first_beat", "advertise", "advertise")
    BY <2>1, <2>4 DEF Proceeds, Goes, Ask
  <2> QED BY <2>2, <2>3, <2>4 DEF Register
<1> DEFINE c == Sent(op, a)
<1>2. main' \in Main /\ main'.pc = pc /\ main'.a = main.a /\ main'.result = main.result
  BY <1>1, MainParts, PlacesAre DEF Main, MainStep
<1>3. op \in Operation /\ op \notin AttemptOperation
  BY OperationsAre, ReportsOfOperations
<1>4. c \in Call /\ c.op = op /\ c.answer = "pending" /\ c.got = NoAttempt
  BY <1>3, SentIs
<1>5. CallSound(store, c)
  BY <1>3, SentSound
<1> HIDE DEF c
<1> QED BY <1>1, <1>2, <1>3, <1>4, <1>5, MainParts, PlacesAre, OnlyMain, LoopMoves
        DEF UnclaimedPlaces, KeptPlaces, c

\* The loop is at rest again: it has lost its claim, or never had one.
LEMMA RestKeeps ==
    ASSUME WorkerInv, GiveUpRegistering \/ ClaimEmpty \/ LeaveLoop \/ Exit
    PROVE  WorkerInv'
<1>1. PICK pc \in {"off", "idle", "stop"} :
         /\ main' = [pc |-> pc, a |-> NoAttempt, result |-> "none", prompt |-> TRUE]
         /\ calls' = [calls EXCEPT !["main"] = NoCall] /\ MainOnly
         /\ main.pc \notin KeptPlaces
  BY DEF GiveUpRegistering, ClaimEmpty, LeaveLoop, Exit, Off, Idling, Hang, KeptPlaces
<1>2. main' \in Main /\ main'.pc = pc /\ main'.a = NoAttempt /\ main'.result = "none"
  BY <1>1 DEF Main, MainStep, Outcome
<1>3. CallSound(store, NoCall)
  BY NoCallIs, ReportsOfOperations DEF CallSound
<1> QED BY <1>1, <1>2, <1>3, MainParts, PlacesAre, NoCallIs, ReportsOfOperations, OnlyMain, LoopMoves
        DEF UnclaimedPlaces, KeptPlaces

\* The attempt it was granted becomes its claim.
LEMMA AcknowledgeKeeps ==
    ASSUME WorkerInv, AcknowledgeClaim
    PROVE  WorkerInv'
<1>1. PICK a : a = calls["main"].got
  OBVIOUS
<1> DEFINE c == Sent("ack", a)
<1>2. /\ main.pc = "claim" /\ main' = [main EXCEPT !.pc = "ack", !.a = a]
      /\ calls' = [calls EXCEPT !["main"] = c] /\ MainOnly /\ a # NoAttempt
  BY <1>1 DEF AcknowledgeClaim, Ask
<1>3. Granted(store, a)
  BY <1>1, <1>2 DEF WorkerInv, CallSound, Thread
<1>4. a \in AttemptRefs /\ "ack" \in Operation
  BY <1>3, OperationsAre DEF Granted
<1>5. main' \in Main /\ main'.pc = "ack" /\ main'.a = a /\ main'.result = main.result
  BY <1>2, <1>4, MainParts DEF Main, MainStep
<1>6. c \in Call /\ c.op = "ack" /\ c.a = a /\ c.answer = "pending" /\ c.got = NoAttempt
  BY <1>4, SentIs
<1>7. CallSound(store, c)
  BY <1>3, <1>4, SentSound
<1> HIDE DEF c
<1> QED BY <1>1, <1>2, <1>3, <1>4, <1>5, <1>6, <1>7, MainParts, PlacesAre, OnlyMain, LoopMoves
        DEF UnclaimedPlaces, KeptPlaces

\* An executor's failure is reported while the keeper still runs.
LEMMA ExecutorFailsKeeps ==
    ASSUME WorkerInv, ExecutorFails
    PROVE  WorkerInv'
<1> DEFINE c == Sent("fail", main.a)
<1>1. /\ main.pc = "execute" /\ main' = [main EXCEPT !.pc = "report_error"]
      /\ calls' = [calls EXCEPT !["main"] = c] /\ MainOnly
  BY DEF ExecutorFails, Goes, Ask
<1>2. main' \in Main /\ main'.pc = "report_error" /\ main'.a = main.a /\ main'.result = main.result
  BY <1>1, MainParts, PlacesAre DEF Main, MainStep
<1>3. Granted(store, main.a)
  BY <1>1 DEF WorkerInv, LoopSound, KeptPlaces
<1>4. "fail" \in Operation
  BY OperationsAre
<1>5. c \in Call /\ c.op = "fail" /\ c.a = main.a /\ c.answer = "pending" /\ c.got = NoAttempt
  BY <1>4, MainParts, SentIs
<1>6. CallSound(store, c)
  BY <1>3, <1>4, MainParts, SentSound
<1> HIDE DEF c
<1> QED BY <1>1, <1>2, <1>3, <1>5, <1>6, MainParts, PlacesAre, OnlyMain, LoopMoves
        DEF UnclaimedPlaces, KeptPlaces

\* What an answer to the loop's last report says of its claim.
LEMMA SettlesKeeps ==
    ASSUME WorkerInv, ReportAccepted \/ ReportFails
    PROVE  WorkerInv'
<1>1. PICK result \in {main.result, "dropped", "error"} :
         /\ main.pc \in {"attach", "progress", "complete", "block", "fail"}
         /\ main' = [main EXCEPT !.pc = "settle", !.result = result]
         /\ calls' = [calls EXCEPT !["main"] = NoCall] /\ MainOnly
         /\ \/ /\ main.pc \in {"complete", "block", "fail"} /\ calls["main"].answer = "ok"
               /\ result = main.result
            \/ calls["main"].answer = "refused" /\ result = "dropped"
            \/ result = "error"
  <2>1. CASE ReportAccepted
    BY <2>1 DEF ReportAccepted, Settles, Heard, Hang
  <2>2. CASE ReportFails /\ Heard("main", "refused")
    BY <2>2 DEF ReportFails, Settles, Heard, Hang
  <2>3. CASE ReportFails /\ ~Heard("main", "refused")
    BY <2>3 DEF ReportFails, Settles, Heard, Hang
  <2> QED BY <2>1, <2>2, <2>3
<1>2. /\ calls["main"].op = OperationAt[main.pc] /\ calls["main"].a = main.a
      /\ Granted(store, main.a) /\ CallSound(store, calls["main"])
      /\ main.pc = "complete" => main.result = "completed"
      /\ main.pc = "block" => main.result = "blocked"
      /\ main.pc = "fail" => main.result = "failed"
  BY <1>1, PlacesAre DEF WorkerInv, LoopSound, Thread
<1>3. Claims(store, main.a, result) /\ result \in Outcome
  <2>1. CASE calls["main"].answer = "ok" /\ main.pc \in {"complete", "block", "fail"}
                /\ result = main.result
    BY <1>2, <2>1, PlacesAre, ReportsOfOperations DEF CallSound, Claims, Outcome
  <2>2. CASE calls["main"].answer = "refused" /\ result = "dropped"
    BY <1>1, <1>2, <2>2, PlacesAre, ReportsOfOperations DEF CallSound, Claims, Outcome
  <2>3. CASE result = "error"
    BY <2>3 DEF Claims, Outcome
  <2> QED BY <1>1, <2>1, <2>2, <2>3
<1>4. main' \in Main /\ main'.pc = "settle" /\ main'.a = main.a /\ main'.result = result
  BY <1>1, <1>3, MainParts, PlacesAre DEF Main, MainStep
<1>5. CallSound(store, NoCall)
  BY NoCallIs, ReportsOfOperations DEF CallSound
<1> QED BY <1>1, <1>2, <1>3, <1>4, <1>5, MainParts, PlacesAre, NoCallIs, OnlyMain, LoopMoves
        DEF UnclaimedPlaces, KeptPlaces

\* No request waits for anything.
LEMMA NoCallSound ==
    ASSUME NEW S
    PROVE  CallSound(S, NoCall)
BY NoCallIs, ReportsOfOperations DEF CallSound

\* Registered, the worker starts its heartbeat loop.
LEMMA StartHeartbeatKeeps ==
    ASSUME WorkerInv, StartHeartbeat
    PROVE  WorkerInv'
<1>1. /\ main.pc = "advertise" /\ calls' = [calls EXCEPT !["main"] = NoCall]
      /\ Stays /\ UNCHANGED <<keeper, reporter, strays, last>>
      /\ main' = [pc |-> "idle", a |-> NoAttempt, result |-> "none", prompt |-> TRUE]
      /\ heart' = [on |-> TRUE, failed |-> FALSE]
  BY DEF StartHeartbeat, Hang, Idling, Off
<1>2. main' \in Main /\ main'.pc = "idle" /\ main'.a = NoAttempt /\ heart' \in Heart
  BY <1>1 DEF Main, MainStep, Outcome, Heart
<1>3. /\ last' \in Last
      /\ last'.outcome # "none" =>
            Granted(store, last'.a) /\ Claims(store, last'.a, last'.outcome)
  BY <1>1 DEF WorkerInv, WorkerTypeOK
<1> QED BY <1>1, <1>2, <1>3, MainParts, PlacesAre, NoCallIs, NoCallSound, LoopMoves
        DEF UnclaimedPlaces, KeptPlaces

\* It asks for a message, and forgets what became of the last.
LEMMA PollKeeps ==
    ASSUME WorkerInv, Poll
    PROVE  WorkerInv'
<1> DEFINE c == Sent("claim", NoAttempt)
<1>1. /\ main.pc = "idle" /\ calls' = [calls EXCEPT !["main"] = c]
      /\ Stays /\ UNCHANGED <<keeper, reporter, heart, strays>>
      /\ main' = [main EXCEPT !.pc = "claim"] /\ last' = Nothing
  BY DEF Poll, Goes, Ask
<1>2. main' \in Main /\ main'.pc = "claim" /\ main'.a = main.a
  BY <1>1, MainParts DEF Main, MainStep
<1>3. last' \in Last /\ last'.outcome = "none" /\ heart' \in Heart
  BY <1>1 DEF WorkerInv, WorkerTypeOK, Last, Nothing, Outcome
<1>4. "claim" \in Operation /\ "claim" \notin AttemptOperation
  BY OperationsAre, ReportsOfOperations
<1>5. c \in Call /\ c.op = "claim" /\ c.answer = "pending" /\ c.got = NoAttempt
  BY <1>4, SentIs
<1>6. CallSound(store, c)
  BY <1>4, SentSound
<1> HIDE DEF c
<1> QED BY <1>1, <1>2, <1>3, <1>4, <1>5, <1>6, MainParts, PlacesAre, LoopMoves
        DEF UnclaimedPlaces, KeptPlaces

\* A claim whose first refresh is refused is dropped: it is no longer live.
LEMMA FirstRefreshFailsKeeps ==
    ASSUME WorkerInv, FirstRefreshFails
    PROVE  WorkerInv'
<1>1. /\ main.pc = "first_refresh" /\ calls' = [calls EXCEPT !["main"] = NoCall]
      /\ Stays /\ UNCHANGED <<keeper, reporter, heart, strays>>
      /\ \/ /\ calls["main"].answer = "refused"
            /\ main' = [pc |-> "idle", a |-> NoAttempt, result |-> "none", prompt |-> TRUE]
            /\ last' = [a |-> main.a, result |-> "none", outcome |-> "dropped"]
         \/ /\ main' = [pc |-> "stop", a |-> NoAttempt, result |-> "none", prompt |-> TRUE]
            /\ last' = [a |-> main.a, result |-> "none", outcome |-> "error"]
  <2>1. CASE Heard("main", "refused")
    BY <2>1 DEF FirstRefreshFails, Hang, Off, Heard
  <2>2. CASE ~Heard("main", "refused")
    BY <2>2 DEF FirstRefreshFails, Hang, Off
  <2> QED BY <2>1, <2>2
<1>2. /\ main' \in Main /\ main'.pc \in {"idle", "stop"} /\ main'.a = NoAttempt
      /\ last' \in Last /\ heart' \in Heart
  <2>1. heart' \in Heart
    BY <1>1 DEF WorkerInv, WorkerTypeOK
  <2>2. PICK pc \in {"idle", "stop"} :
           main' = [pc |-> pc, a |-> NoAttempt, result |-> "none", prompt |-> TRUE]
    BY <1>1
  <2>3. main' \in Main /\ main'.pc = pc /\ main'.a = NoAttempt
    BY <2>2 DEF Main, MainStep, Outcome
  <2>4. last' \in Last
    BY <1>1, MainParts DEF Outcome, Last
  <2> QED BY <2>1, <2>3, <2>4
<1>3. /\ Granted(store, main.a) /\ calls["main"].op = "refresh" /\ calls["main"].a = main.a
      /\ CallSound(store, calls["main"]) /\ last'.a = main.a
      /\ last'.outcome = "dropped" => calls["main"].answer = "refused"
      /\ last'.outcome \in {"dropped", "error"}
  BY <1>1, PlacesAre DEF WorkerInv, LoopSound, Thread
<1>4. Claims(store, last'.a, last'.outcome)
  BY <1>3, ReportsOfOperations DEF CallSound, Claims
<1> QED BY <1>1, <1>2, <1>3, <1>4, MainParts, PlacesAre, NoCallIs, NoCallSound, LoopMoves
        DEF UnclaimedPlaces, KeptPlaces

\* The executor is done: the loop stops the reporter, whose last request may
\* be left behind, and goes on to what follows, or to settle with an error.
LEMMA StopReporterKeeps ==
    ASSUME WorkerInv, NEW pc \in {"attach", "progress", "fail", "settle"}, NEW result \in Outcome,
           NEW op \in {"attach", "progress", "fail", "none"},
           StopReporter(pc, result, op), main.pc \in {"execute", "report_error"},
           IF pc = "settle" THEN result = "error" /\ op = "none" ELSE op = pc,
           pc = "progress" => result = "completed",
           pc = "fail" => result = "failed"
    PROVE  WorkerInv'
<1> DEFINE c == IF op = "none" THEN NoCall ELSE Sent(op, main.a)
<1>1. /\ main' = [main EXCEPT !.pc = pc, !.result = result]
      /\ calls' = [calls EXCEPT !["reporter"] = NoCall, !["main"] = c]
      /\ reporter' = NoReporter /\ Stays /\ UNCHANGED <<keeper, heart, last>>
  BY DEF StopReporter
<1>2. Granted(store, main.a)
  BY DEF WorkerInv, LoopSound, KeptPlaces
<1>3. main' \in Main /\ main'.pc = pc /\ main'.a = main.a /\ main'.result = result
  BY <1>1, MainParts DEF Main, MainStep
<1>4. /\ c \in Call /\ CallSound(store, c) /\ c.got = NoAttempt /\ c.answer # "ok"
      /\ c.op # "claim"
      /\ pc # "settle" => c.op = OperationAt[pc] /\ c.a = main.a
      /\ pc = "settle" => c = NoCall
  <2>1. CASE op = "none"
    BY <2>1, NoCallIs, NoCallSound
  <2>2. CASE op # "none"
    <3>1. op \in Operation /\ OperationAt[op] = op
      BY <2>2, OperationsAre, PlacesAre
    <3> QED BY <1>2, <2>2, <3>1, MainParts, SentIs, SentSound
  <2> QED BY <2>1, <2>2
<1> HIDE DEF c
<1>5. /\ calls \in [Thread -> Call] /\ Thread = {"main", "keeper", "reporter", "heart"}
      /\ heart \in Heart /\ last \in Last
      /\ last.outcome # "none" => Granted(store, last.a) /\ Claims(store, last.a, last.outcome)
  BY DEF WorkerInv, WorkerTypeOK, Thread
<1>6. /\ calls' \in [Thread -> Call] /\ calls'["main"] = c /\ calls'["reporter"] = NoCall
      /\ calls'["keeper"] = calls["keeper"] /\ calls'["heart"] = calls["heart"]
  BY <1>1, <1>4, <1>5, NoCallIs
<1>7. reporter' \in Reporter /\ ~reporter'.on
  BY <1>1, WorkerAssumption DEF NoReporter, Reporter
<1>8. LeavesBehind({"reporter"})
  BY DEF StopReporter
<1>9. /\ strays' \subseteq Stray
      /\ \A r \in strays' \ strays : r.op \in AttemptOperation => Granted(store, r.a)
  BY <1>5, <1>8, LeftBehind
<1>10. pc = "settle" => Claims(store, main.a, result)
  BY DEF Claims
<1>11. pc \in KeptPlaces /\ pc \notin UnclaimedPlaces /\ main.pc \in KeptPlaces
  BY DEF KeptPlaces, UnclaimedPlaces
<1> QED BY <1>1, <1>2, <1>3, <1>4, <1>5, <1>6, <1>7, <1>9, <1>10, <1>11, PlacesAre, ProcessMoves

\* So it is with an executor that returns, and with one whose failure was told.
LEMMA ExecutorReturnsKeeps ==
    ASSUME WorkerInv, ExecutorReturns \/ ReportedError
    PROVE  WorkerInv'
<1>1. {"completed", "blocked", "failed", "error"} \subseteq Outcome
  BY DEF Outcome
<1> QED BY <1>1, StopReporterKeeps DEF ExecutorReturns, ReportedError

\* The loop settles what became of its claim, and stops its keeper.
LEMMA SettleKeeps ==
    ASSUME WorkerInv, Settle
    PROVE  WorkerInv'
<1>1. PICK err \in KeeperErrors, pc \in {"stop", "idle"} :
         /\ main' = [pc |-> pc, a |-> NoAttempt, result |-> "none", prompt |-> TRUE]
         /\ last' = [a |-> main.a, result |-> main.result,
                     outcome |-> CASE err = "refused" -> "dropped"
                                   [] err = "broken" -> "error"
                                   [] OTHER -> main.result]
  BY DEF Settle, Off
<1> DEFINE outcome == last'.outcome
<1>2. /\ main.pc = "settle" /\ keeper' = NoKeeper /\ LeavesBehind({"keeper"})
      /\ calls' = [calls EXCEPT !["keeper"] = NoCall]
      /\ Stays /\ UNCHANGED <<reporter, heart>>
  BY DEF Settle, Hang
<1>3. /\ calls \in [Thread -> Call] /\ Thread = {"main", "keeper", "reporter", "heart"}
      /\ heart \in Heart /\ reporter \in Reporter
  BY DEF WorkerInv, WorkerTypeOK, Thread
<1>4. /\ calls["main"] = NoCall /\ Granted(store, main.a)
      /\ Claims(store, main.a, main.result)
      /\ ~reporter.on /\ calls["reporter"] = NoCall
  BY <1>2 DEF WorkerInv, LoopSound, ThreadsSound, KeptPlaces
<1>5. err = "refused" => ~Live(store, main.a)
  <2>1. /\ keeper.err = "refused" => ~Live(store, main.a)
        /\ calls["keeper"] # NoCall =>
              calls["keeper"].op = "refresh" /\ calls["keeper"].a = main.a
        /\ CallSound(store, calls["keeper"])
    BY <1>3 DEF WorkerInv, ThreadsSound
  <2>2. calls["keeper"].answer = "refused" => ~Live(store, main.a)
    BY <2>1, NoCallIs, ReportsOfOperations DEF CallSound
  <2> QED BY <2>1, <2>2 DEF KeeperErrors, Heard
<1>6. /\ Claims(store, main.a, outcome) /\ outcome \in Outcome
      /\ last' \in Last /\ last'.a = main.a /\ last'.outcome = outcome
  <2>1. Claims(store, main.a, outcome) /\ outcome \in Outcome
    BY <1>1, <1>4, <1>5, MainParts DEF Claims, Outcome
  <2> QED BY <1>1, <2>1, MainParts DEF Last
<1>7. main' \in Main /\ main'.pc = pc /\ main'.a = NoAttempt
  BY <1>1 DEF Main, MainStep, Outcome
<1>8. /\ calls' \in [Thread -> Call] /\ calls'["main"] = NoCall /\ calls'["reporter"] = NoCall
      /\ calls'["keeper"] = NoCall /\ calls'["heart"] = calls["heart"]
  BY <1>2, <1>3, <1>4, NoCallIs
<1>9. keeper' \in Keeper /\ ~keeper'.on /\ keeper'.err = "none"
  BY <1>2, StoreAssumption DEF NoKeeper, Keeper
<1>10. /\ strays' \subseteq Stray
       /\ \A r \in strays' \ strays : r.op \in AttemptOperation => Granted(store, r.a)
  BY <1>2, <1>3, LeftBehind
<1>11. pc \notin KeptPlaces /\ pc \notin UnclaimedPlaces
  BY DEF KeptPlaces, UnclaimedPlaces
<1> QED BY <1>2, <1>3, <1>4, <1>6, <1>7, <1>8, <1>9, <1>10, <1>11, NoCallIs, NoCallSound,
        PlacesAre, ProcessMoves

\* The worker says that it goes offline, once its loop has stopped.
LEMMA MarkOfflineKeeps ==
    ASSUME WorkerInv, MarkOffline
    PROVE  WorkerInv'
<1> DEFINE c == Sent("offline", NoAttempt)
<1>1. /\ main.pc = "stop" /\ main' = [main EXCEPT !.pc = "offline"] /\ heart' = NoHeart
      /\ calls' = [calls EXCEPT !["heart"] = NoCall, !["main"] = c]
      /\ LeavesBehind({"heart"}) /\ Stays /\ UNCHANGED <<keeper, reporter, last>>
  BY DEF MarkOffline, Goes
<1>2. /\ calls \in [Thread -> Call] /\ Thread = {"main", "keeper", "reporter", "heart"}
      /\ keeper \in Keeper /\ reporter \in Reporter /\ last \in Last
      /\ last.outcome # "none" => Granted(store, last.a) /\ Claims(store, last.a, last.outcome)
  BY DEF WorkerInv, WorkerTypeOK, Thread
<1>3. /\ ~keeper.on /\ keeper.err = "none" /\ ~reporter.on
      /\ calls["keeper"] = NoCall /\ calls["reporter"] = NoCall
  BY <1>1 DEF WorkerInv, ThreadsSound, KeptPlaces
<1>4. main' \in Main /\ main'.pc = "offline"
  BY <1>1, MainParts DEF Main, MainStep
<1>5. "offline" \in Operation /\ "offline" \notin AttemptOperation
  BY OperationsAre, ReportsOfOperations
<1>6. c \in Call /\ c.op = "offline" /\ c.answer = "pending" /\ c.got = NoAttempt
  BY <1>5, SentIs
<1>7. CallSound(store, c)
  BY <1>5, SentSound
<1> HIDE DEF c
<1>8. /\ calls' \in [Thread -> Call] /\ calls'["main"] = c /\ calls'["reporter"] = NoCall
      /\ calls'["keeper"] = NoCall /\ calls'["heart"] = NoCall
  BY <1>1, <1>2, <1>3, <1>6, NoCallIs
<1>9. heart' \in Heart
  BY <1>1 DEF NoHeart, Heart
<1>10. /\ strays' \subseteq Stray
       /\ \A r \in strays' \ strays : r.op \in AttemptOperation => Granted(store, r.a)
  BY <1>1, <1>2, LeftBehind
<1>11. "offline" \notin KeptPlaces
  BY DEF KeptPlaces
<1> QED BY <1>1, <1>2, <1>3, <1>4, <1>5, <1>6, <1>7, <1>8, <1>9, <1>10, <1>11, PlacesAre,
        ProcessMoves

\* A process that dies leaves everything it had sent behind.
LEMMA KillKeeps ==
    ASSUME WorkerInv, Kill
    PROVE  WorkerInv'
<1>1. /\ main' = [pc |-> "off", a |-> NoAttempt, result |-> "none", prompt |-> TRUE]
      /\ keeper' = NoKeeper /\ reporter' = NoReporter /\ heart' = NoHeart /\ last' = Nothing
      /\ LeavesBehind(Thread) /\ Stays
      /\ calls' = [t \in Thread |-> IF t \in Thread THEN NoCall ELSE calls[t]]
  BY DEF Kill, Off, HangAll
<1>2. main' \in Main /\ main'.pc = "off"
  BY <1>1 DEF Main, MainStep, Outcome
<1>3. \A t \in Thread : calls'[t] = NoCall
  BY <1>1
<1>4. /\ calls' \in [Thread -> Call]
      /\ calls'["main"] = NoCall /\ calls'["reporter"] = NoCall
      /\ calls'["keeper"] = NoCall /\ calls'["heart"] = NoCall
  BY <1>1, <1>3, NoCallIs DEF Thread
<1>5. keeper' \in Keeper /\ ~keeper'.on /\ keeper'.err = "none"
  BY <1>1, StoreAssumption DEF NoKeeper, Keeper
<1>6. reporter' \in Reporter /\ ~reporter'.on
  BY <1>1, WorkerAssumption DEF NoReporter, Reporter
<1>7. heart' \in Heart /\ last' \in Last /\ last'.outcome = "none"
  BY <1>1 DEF NoHeart, Heart, Nothing, Last, Outcome
<1>8. /\ strays' \subseteq Stray
      /\ \A r \in strays' \ strays : r.op \in AttemptOperation => Granted(store, r.a)
  BY <1>1, LeftBehind
<1>9. "off" \notin KeptPlaces /\ "off" \notin UnclaimedPlaces
  BY DEF KeptPlaces, UnclaimedPlaces
<1> QED BY <1>1, <1>2, <1>4, <1>5, <1>6, <1>7, <1>8, <1>9, NoCallIs, NoCallSound, PlacesAre,
        ProcessMoves

-----------------------------------------------------------------------------
(* The other threads, and the time that their refreshes gain.              *)

\* Half of what is left of a lease is not more than is left of it.
LEMMA IntervalIsShorter ==
    ASSUME NEW left \in Countdown(LeaseTicks)
    PROVE  /\ LeaseRefreshInterval(left) \in 0..LeaseTicks
           /\ LeaseRefreshInterval(LeaseTicks) <= LeaseTicks
<1>1. LeaseTicks \in Nat /\ left \in -1..LeaseTicks
  BY StoreAssumption DEF Countdown, Expired
<1>2. ASSUME NEW n \in Int, n > 0
      PROVE  n \div 2 \in 0..n
  BY <1>2
<1> QED BY <1>1, <1>2 DEF LeaseRefreshInterval

\* A lease that is held with so much left is held with less.
LEMMA HoldsLess ==
    ASSUME WorkerInv, main.a \in AttemptRefs, NEW n \in Int, NEW k \in Int, k <= n, Holds(n)
    PROVE  Holds(k)
<1>1. store.attempts[main.a].lease \in Int
  <2>1. Countdown(LeaseTicks) \subseteq Int
    BY StoreAssumption DEF Countdown, Expired
  <2>2. store \in Store
    BY DEF WorkerInv, LedgerSound
  <2> QED BY <2>1, <2>2, StoreParts DEF Attempt
<1> QED BY <1>1 DEF Holds

\* The keeper, the reporter or the heartbeat loop moves: what it must see to.
LEMMA ThreadMoves ==
    ASSUME WorkerInv, Stays, UNCHANGED <<main, last>>,
           keeper' \in Keeper, reporter' \in Reporter, heart' \in Heart,
           calls' \in [Thread -> Call], calls'["main"] = calls["main"],
           \A t \in Thread : CallSound(store, calls'[t]),
           ThreadsSound', strays' \subseteq Stray,
           \A r \in strays' \ strays :
               (r.op \in AttemptOperation => Granted(store, r.a)) /\ r.op \notin Closing,
           main.prompt => Timely'
    PROVE  WorkerInv'
<1>1. UNCHANGED <<endpoints, store>>
  BY DEF Stays
<1>2. WorkerTypeOK'
  BY <1>1 DEF WorkerInv, WorkerTypeOK, TypeOK, RegistryTypeOK
<1>3. LoopSound'
  BY <1>1 DEF WorkerInv, LoopSound
<1>4. Unthreatened'
  BY DEF WorkerInv, Unthreatened
<1>5. /\ LedgerSound(store)'
      /\ \A t \in Thread : CallSound(store', calls'[t])
      /\ \A r \in strays' : r.op \in AttemptOperation => Granted(store', r.a)
      /\ last'.outcome # "none" =>
            Granted(store', last'.a) /\ Claims(store', last'.a, last'.outcome)
  BY <1>1 DEF WorkerInv
<1> QED BY <1>2, <1>3, <1>4, <1>5 DEF WorkerInv

\* What the threads' variables are.
LEMMA ThreadParts ==
    ASSUME WorkerInv
    PROVE  /\ keeper \in Keeper /\ reporter \in Reporter /\ heart \in Heart /\ strays \subseteq Stray
           /\ calls \in [Thread -> Call] /\ Thread = {"main", "keeper", "reporter", "heart"}
           /\ \A t \in Thread : CallSound(store, calls[t])
           /\ ThreadsSound
           /\ main.pc \in KeptPlaces => Granted(store, main.a) /\ main.a \in AttemptRefs
BY DEF WorkerInv, WorkerTypeOK, Thread, LoopSound, Granted

\* A refresh that was only just sent does not tell anything yet.
LEMMA KeeperFiresKeeps ==
    ASSUME WorkerInv, KeeperFires
    PROVE  WorkerInv'
<1> DEFINE c == Sent("refresh", main.a)
<1>1. /\ keeper.on /\ calls' = [calls EXCEPT !["keeper"] = c]
      /\ Stays /\ UNCHANGED <<main, keeper, reporter, heart, last, strays, store>>
  BY DEF KeeperFires, Ask, threads, Stays
<1>2. main.pc \in KeptPlaces /\ Granted(store, main.a)
  BY <1>1, ThreadParts DEF ThreadsSound
<1>3. "refresh" \in Operation
  BY OperationsAre
<1>4. c \in Call /\ c.op = "refresh" /\ c.a = main.a /\ c.answer = "pending"
  BY <1>3, MainParts, SentIs
<1>5. CallSound(store, c)
  BY <1>2, <1>3, MainParts, SentSound
<1> HIDE DEF c
<1>6. /\ calls' \in [Thread -> Call] /\ calls'["main"] = calls["main"]
      /\ calls'["keeper"] = c /\ calls'["reporter"] = calls["reporter"]
      /\ calls'["heart"] = calls["heart"]
      /\ \A t \in Thread : CallSound(store, calls'[t])
  BY <1>1, <1>4, <1>5, ThreadParts
<1>7. ThreadsSound'
  BY <1>1, <1>4, <1>6, ThreadParts DEF ThreadsSound
<1>8. Timely => Timely'
  BY <1>1, <1>4, <1>6 DEF Timely, Refreshed, Holds, Canceled
<1>9. main.prompt => Timely
  BY DEF WorkerInv
<1> QED BY <1>1, <1>6, <1>7, <1>8, <1>9, ThreadParts, ThreadMoves

\* A keeper that was answered in time has the next refresh before it in time;
\* one that was refused knows that the attempt is over.
LEMMA KeeperHearsKeeps ==
    ASSUME WorkerInv, KeeperHears
    PROVE  WorkerInv'
<1>1. /\ keeper.on /\ calls' = [calls EXCEPT !["keeper"] = NoCall]
      /\ Stays /\ UNCHANGED <<main, reporter, heart, last, strays, store>>
  BY DEF KeeperHears, Hang, Stays
<1>2. /\ main.pc \in KeptPlaces /\ Granted(store, main.a) /\ main.a \in AttemptRefs
      /\ keeper.err = "none"
  BY <1>1, ThreadParts DEF ThreadsSound
<1>3. /\ calls' \in [Thread -> Call] /\ calls'["main"] = calls["main"]
      /\ calls'["keeper"] = NoCall /\ calls'["reporter"] = calls["reporter"]
      /\ calls'["heart"] = calls["heart"]
      /\ \A t \in Thread : CallSound(store, calls'[t])
  BY <1>1, ThreadParts, NoCallIs, NoCallSound
<1>4. calls["keeper"].answer # "none" =>
        /\ calls["keeper"].op = "refresh" /\ calls["keeper"].a = main.a
        /\ CallSound(store, calls["keeper"]) /\ calls["keeper"].left \in Countdown(LeaseTicks)
  BY ThreadParts, NoCallIs DEF ThreadsSound, Call
<1>5. main.prompt => Timely
  BY DEF WorkerInv
<1>6. CASE Heard("keeper", "ok")
               /\ keeper' = [keeper EXCEPT !.timer = LeaseRefreshInterval(calls["keeper"].left)]
  <2>1. PICK n : n = LeaseRefreshInterval(calls["keeper"].left)
    OBVIOUS
  <2>2. /\ n \in 0..LeaseTicks
        /\ calls["keeper"].left = LeaseTicks => n <= LeaseTicks
        /\ calls["keeper"].op = "refresh" /\ calls["keeper"].answer = "ok"
    BY <1>4, <1>6, <2>1, IntervalIsShorter DEF Heard
  <2>3. keeper' = [keeper EXCEPT !.timer = n]
    BY <1>6, <2>1
  <2>4. keeper' \in Keeper /\ keeper'.on /\ keeper'.err = "none" /\ keeper'.timer = n
    BY <1>1, <1>2, <2>2, <2>3, ThreadParts DEF Keeper
  <2>5. ThreadsSound'
    BY <1>1, <1>2, <1>3, <2>4, ThreadParts DEF ThreadsSound
  <2>6. Holds(n)' <=> Holds(n)
    BY <1>1 DEF Holds
  <2>7. main.pc = "execute" /\ main.prompt => Holds(n)
    <3>1. LeaseTicks \in Nat
      BY StoreAssumption
    <3> QED BY <1>2, <1>5, <2>2, <3>1, HoldsLess DEF Timely, Refreshed
  <2>8. main.prompt => Timely'
    <3>1. main.prompt /\ main'.pc = "first_refresh" /\ Refreshed("main")' =>
              calls'["main"].left = LeaseTicks /\ Holds(LeaseTicks)'
      BY <1>1, <1>3, <1>5 DEF Timely, Refreshed, Holds
    <3>2. ~Refreshed("keeper")'
      BY <1>3, NoCallIs DEF Refreshed
    <3>3. main.prompt /\ main'.pc = "execute" => keeper'.on /\ Holds(keeper.timer)'
      BY <1>1, <2>4, <2>6, <2>7 DEF Holds
    <3> QED BY <3>1, <3>2, <3>3 DEF Timely
  <2> QED BY <1>1, <1>3, <2>4, <2>5, <2>8, ThreadParts, ThreadMoves
<1>7. CASE Failed("keeper")
               /\ keeper' = [keeper EXCEPT !.on = FALSE, !.err = calls["keeper"].answer]
  <2>1. calls["keeper"].answer \in {"refused", "broken"}
    BY <1>7 DEF Failed
  <2>2. keeper' \in Keeper /\ ~keeper'.on /\ keeper'.err = calls["keeper"].answer
    BY <1>7, <2>1, ThreadParts DEF Keeper
  <2>3. keeper'.err = "refused" => ~Live(store, main.a)
    BY <1>4, <2>1, <2>2, ReportsOfOperations DEF CallSound
  <2>4. ThreadsSound'
    BY <1>1, <1>2, <1>3, <2>2, <2>3, ThreadParts DEF ThreadsSound
  <2>5. main.prompt => Timely'
    BY <1>1, <1>3, <1>5, <2>1, <2>2, NoCallIs DEF Timely, Refreshed, Holds, Canceled
  <2> QED BY <1>1, <1>3, <2>2, <2>4, <2>5, ThreadParts, ThreadMoves
<1> QED BY <1>6, <1>7 DEF KeeperHears

\* A progress report is about the claim, and never closes it.
LEMMA ReporterFiresKeeps ==
    ASSUME WorkerInv, ReporterFires
    PROVE  WorkerInv'
<1> DEFINE c == Sent("progress", main.a)
<1>1. /\ reporter.on /\ reporter.sent < MaxProgress
      /\ reporter' = [reporter EXCEPT !.sent = reporter.sent + 1]
      /\ calls' = [calls EXCEPT !["reporter"] = c]
      /\ Stays /\ UNCHANGED <<main, keeper, heart, last, strays, store>>
  BY DEF ReporterFires, Ask, Stays
<1>2. main.pc \in KeptPlaces /\ Granted(store, main.a)
  BY <1>1, ThreadParts DEF ThreadsSound, KeptPlaces
<1>3. "progress" \in Operation
  BY OperationsAre
<1>4. c \in Call /\ c.op = "progress" /\ c.a = main.a
  BY <1>3, MainParts, SentIs
<1>5. CallSound(store, c)
  BY <1>2, <1>3, MainParts, SentSound
<1> HIDE DEF c
<1>6. reporter' \in Reporter /\ reporter'.on
  BY <1>1, ThreadParts, WorkerAssumption DEF Reporter
<1>7. /\ calls' \in [Thread -> Call] /\ calls'["main"] = calls["main"]
      /\ calls'["keeper"] = calls["keeper"] /\ calls'["reporter"] = c
      /\ calls'["heart"] = calls["heart"]
      /\ \A t \in Thread : CallSound(store, calls'[t])
  BY <1>1, <1>4, <1>5, ThreadParts
<1>8. ThreadsSound'
  BY <1>1, <1>4, <1>6, <1>7, ThreadParts DEF ThreadsSound
<1>9. main.prompt => Timely'
  BY <1>1, <1>7 DEF WorkerInv, Timely, Refreshed, Holds, Canceled
<1> QED BY <1>1, <1>6, <1>7, <1>8, <1>9, ThreadParts, ThreadMoves

\* One that is not waited for may still arrive.
LEMMA ReporterHearsKeeps ==
    ASSUME WorkerInv, ReporterHears
    PROVE  WorkerInv'
<1>1. /\ reporter.on /\ calls' = [calls EXCEPT !["reporter"] = NoCall]
      /\ LeavesBehind({"reporter"})
      /\ Stays /\ UNCHANGED <<main, keeper, reporter, heart, last, store>>
  BY DEF ReporterHears, Hang, Stays, threads
<1>2. /\ strays' \subseteq Stray
      /\ \A r \in strays' \ strays :
            /\ r.op \in AttemptOperation => Granted(store, r.a)
            /\ r.op = calls["reporter"].op /\ Waiting("reporter")
  BY <1>1, ThreadParts, LeftBehind
<1>3. \A r \in strays' \ strays : r.op = "progress"
  BY <1>2, ThreadParts, NoCallIs DEF ThreadsSound, Waiting
<1>4. /\ calls' \in [Thread -> Call] /\ calls'["main"] = calls["main"]
      /\ calls'["keeper"] = calls["keeper"] /\ calls'["reporter"] = NoCall
      /\ calls'["heart"] = calls["heart"]
      /\ \A t \in Thread : CallSound(store, calls'[t])
  BY <1>1, ThreadParts, NoCallIs, NoCallSound
<1>5. ThreadsSound'
  BY <1>1, <1>4, ThreadParts DEF ThreadsSound
<1>6. main.prompt => Timely'
  BY <1>1, <1>4 DEF WorkerInv, Timely, Refreshed, Holds, Canceled
<1>7. "progress" \notin Closing
  BY DEF Closing
<1> QED BY <1>1, <1>2, <1>3, <1>4, <1>5, <1>6, <1>7, ThreadParts, ThreadMoves

\* Heartbeats are about the endpoint alone.
LEMMA BeatKeeps ==
    ASSUME WorkerInv, HeartNext
    PROVE  WorkerInv'
<1>1. /\ Stays /\ UNCHANGED <<main, keeper, reporter, last, strays, store>>
      /\ heart' \in Heart
      /\ \/ calls' = [calls EXCEPT !["heart"] = Sent("online", NoAttempt)]
         \/ calls' = [calls EXCEPT !["heart"] = NoCall]
  <2>1. CASE Beat
    BY <2>1, ThreadParts DEF Beat, Ask, Stays, threads
  <2>2. CASE BeatHeard
    BY <2>2, ThreadParts DEF BeatHeard, Hang, Stays, Heart
  <2> QED BY <2>1, <2>2 DEF HeartNext
<1>2. PICK c \in {Sent("online", NoAttempt), NoCall} : calls' = [calls EXCEPT !["heart"] = c]
  BY <1>1
<1>3. c \in Call /\ c.op \in {"none", "online"} /\ CallSound(store, c)
  <2>1. "online" \in Operation /\ "online" \notin AttemptOperation
    BY OperationsAre, ReportsOfOperations
  <2> QED BY <2>1, SentIs, SentSound, NoCallIs, NoCallSound
<1>4. /\ calls' \in [Thread -> Call] /\ calls'["main"] = calls["main"]
      /\ calls'["keeper"] = calls["keeper"] /\ calls'["reporter"] = calls["reporter"]
      /\ calls'["heart"] = c
      /\ \A t \in Thread : CallSound(store, calls'[t])
  BY <1>2, <1>3, ThreadParts
<1>5. ThreadsSound'
  BY <1>1, <1>3, <1>4, ThreadParts DEF ThreadsSound
<1>6. main.prompt => Timely'
  BY <1>1, <1>4 DEF WorkerInv, Timely, Refreshed, Holds, Canceled
<1> QED BY <1>1, <1>4, <1>5, <1>6, ThreadParts, ThreadMoves

\* The executor starts under a lease that was just refreshed, and its keeper
\* with less time than that.
LEMMA ExecuteKeeps ==
    ASSUME WorkerInv, Execute
    PROVE  WorkerInv'
<1>1. PICK n : n = LeaseRefreshInterval(calls["main"].left)
  OBVIOUS
<1>2. /\ main.pc = "first_refresh" /\ calls["main"].answer = "ok"
      /\ main' = [main EXCEPT !.pc = "execute"]
      /\ keeper' = [on |-> TRUE, timer |-> n, err |-> "none"]
      /\ reporter' = [on |-> TRUE, sent |-> 0]
      /\ calls' = [calls EXCEPT !["main"] = NoCall]
      /\ Stays /\ UNCHANGED <<endpoints, store, heart, strays, last>>
  BY <1>1 DEF Execute, Heard, Goes, Hang, Stays
<1>3. /\ calls["main"].op = "refresh" /\ calls["main"].a = main.a
      /\ Granted(store, main.a) /\ main.a \in AttemptRefs
      /\ calls["main"].left \in Countdown(LeaseTicks)
  BY <1>2, PlacesAre, ThreadParts DEF WorkerInv, LoopSound, Call, Granted
<1>4. n \in 0..LeaseTicks /\ (calls["main"].left = LeaseTicks => n <= LeaseTicks)
  BY <1>1, <1>3, IntervalIsShorter
<1>5. /\ main' \in Main /\ main'.pc = "execute" /\ main'.a = main.a
      /\ main'.prompt = main.prompt
  BY <1>2, MainParts DEF Main, MainStep
<1>6. /\ keeper' \in Keeper /\ keeper'.on /\ keeper'.err = "none" /\ keeper'.timer = n
      /\ reporter' \in Reporter /\ reporter'.on
  BY <1>2, <1>4, WorkerAssumption DEF Keeper, Reporter
<1>7. /\ calls["keeper"] = NoCall /\ calls["reporter"] = NoCall
      /\ calls["heart"].op \in {"none", "online"}
  BY <1>2, ThreadParts, MainParts DEF ThreadsSound, KeptPlaces
<1>8. /\ calls' \in [Thread -> Call] /\ calls'["main"] = NoCall
      /\ calls'["keeper"] = NoCall /\ calls'["reporter"] = NoCall
      /\ calls'["heart"] = calls["heart"]
      /\ \A t \in Thread : CallSound(store, calls'[t])
  BY <1>2, <1>7, ThreadParts, NoCallIs, NoCallSound
<1>9. WorkerTypeOK'
  BY <1>2, <1>5, <1>6, <1>8 DEF WorkerInv, WorkerTypeOK, TypeOK, RegistryTypeOK
<1>10. LoopSound'
  BY <1>2, <1>3, <1>5, <1>8, PlacesAre, NoCallIs DEF LoopSound, UnclaimedPlaces
<1>11. ThreadsSound'
  BY <1>5, <1>6, <1>7, <1>8 DEF ThreadsSound, KeptPlaces
<1>12. Unthreatened'
  BY <1>2, <1>5 DEF WorkerInv, Unthreatened
<1>13. main.prompt => Timely'
  <2>1. main.prompt => Holds(LeaseTicks) /\ calls["main"].left = LeaseTicks
    BY <1>2, <1>3 DEF WorkerInv, Timely, Refreshed
  <2>2. LeaseTicks \in Nat
    BY StoreAssumption
  <2>3. main.prompt => Holds(n)
    BY <1>3, <1>4, <2>1, <2>2, HoldsLess
  <2>4. main.prompt => Holds(keeper.timer)'
    BY <1>2, <1>5, <1>6, <2>3 DEF Holds
  <2>5. ~Refreshed("keeper")' /\ ~Refreshed("main")'
    BY <1>8, NoCallIs DEF Refreshed
  <2> QED BY <1>5, <1>6, <2>4, <2>5 DEF Timely
<1>14. /\ LedgerSound(store)'
       /\ \A t \in Thread : CallSound(store', calls'[t])
       /\ \A r \in strays' : r.op \in AttemptOperation => Granted(store', r.a)
       /\ last'.outcome # "none" =>
             Granted(store', last'.a) /\ Claims(store', last'.a, last'.outcome)
  BY <1>2, <1>8 DEF WorkerInv
<1> QED BY <1>5, <1>9, <1>10, <1>11, <1>12, <1>13, <1>14 DEF WorkerInv

\* Every step of the worker's process.
LEMMA ProcessKeeps ==
    ASSUME WorkerInv, ProcessNext
    PROVE  WorkerInv'
<1>1. CASE LoopNext
  <2>1. CASE FirstRefresh \/ Report
    <3>1. \/ Proceeds("ack", "first_refresh", "refresh")
          \/ main.result = "completed" /\ Proceeds("attach", "progress", "progress")
          \/ main.result = "blocked" /\ Proceeds("attach", "block", "block")
          \/ main.result = "failed" /\ Proceeds("attach", "fail", "fail")
          \/ Proceeds("progress", "complete", "complete")
      BY <2>1 DEF FirstRefresh, Report
    <3>2. {"ack", "attach", "progress"} \subseteq MainStep
      BY DEF MainStep
    <3> QED BY <3>1, <3>2, PlacesAre, ProceedsKeeps
  <2> QED BY <1>1, <2>1, RegisterKeeps, StartHeartbeatKeeps, RestKeeps, PollKeeps,
          AcknowledgeKeeps, ExecuteKeeps, FirstRefreshFailsKeeps, SettlesKeeps,
          ExecutorReturnsKeeps, SettleKeeps, MarkOfflineKeeps DEF LoopNext
<1>2. CASE ExecutorNext \/ KeeperNext \/ ReporterNext \/ HeartNext \/ Kill
  BY <1>2, ExecutorReturnsKeeps, ExecutorFailsKeeps, KeeperFiresKeeps, KeeperHearsKeeps,
     ReporterFiresKeeps, ReporterHearsKeeps, BeatKeeps, KillKeeps
     DEF ExecutorNext, KeeperNext, ReporterNext
<1> QED BY <1>1, <1>2 DEF ProcessNext

-----------------------------------------------------------------------------
(* The server's steps, as the worker sees them.                            *)

\* A lease that is held stays so, through a step that does not report it closed.
LEMMA HoldsStays ==
    ASSUME WorkerInv, Granted(store, main.a), NEW B, Serves(store, store', B), main.a \notin B,
           UNCHANGED main, NEW n \in Nat, Holds(n)
    PROVE  Holds(n)'
<1> DEFINE a == main.a
<1>1. a \in AttemptRefs /\ a \notin B /\ main'.a = a
  BY DEF Granted
<1>2. /\ store.attempts[a].state = "canceled" => store'.attempts[a].state = "canceled"
      /\ StaysHeld(store, store', a)
  BY <1>1 DEF Serves, Retains
<1>3. /\ store.attempts[a].lease \in Countdown(LeaseTicks)
      /\ store'.attempts[a].lease \in Countdown(LeaseTicks)
  BY <1>1, StoreParts DEF Attempt, WorkerInv, LedgerSound, Serves
<1>4. Countdown(LeaseTicks) \subseteq Int
  BY StoreAssumption DEF Countdown, Expired
<1>5. \/ store.attempts[a].state = "canceled"
      \/ Open(store, a) /\ store.attempts[a].lease >= n
  BY DEF Holds
<1> HIDE DEF a
<1>6. \/ store'.attempts[a].state = "canceled"
      \/ Open(store', a) /\ store'.attempts[a].lease >= n
  BY <1>2, <1>3, <1>4, <1>5 DEF StaysHeld, Live, Expired
<1> QED BY <1>1, <1>6 DEF Holds

\* A thread hears of its request: what the answer may say.
Answered(t) ==
    /\ Waiting(t)
    /\ calls'[t].op = calls[t].op /\ calls'[t].a = calls[t].a
    /\ CallSound(store', calls'[t])
    /\ calls'[t].got \in {calls[t].got, NoAttempt} \/ ~Exists(store, calls'[t].got)
    /\ Refreshed(t)' =>
          /\ calls'[t].left = LeaseTicks
          /\ Open(store', calls[t].a) /\ store'.attempts[calls[t].a].lease = LeaseTicks

\* The server serves, and answers, or a connection breaks.
LEMMA WireMoves ==
    ASSUME WorkerInv, RegistryTypeOK', NEW B, Serves(store, store', B), UNCHANGED threads,
           calls' \in [Thread -> Call], \A t \in Thread : calls'[t] = calls[t] \/ Answered(t),
           main.pc \in {"first_refresh", "execute"} => main.a \notin B,
           strays' \subseteq Stray,
           \A r \in strays' \ strays :
               /\ r.op \in AttemptOperation => Granted(store, r.a)
               /\ r.op \in Closing => main.pc \notin {"claim", "ack", "first_refresh", "execute"}
    PROVE  WorkerInv'
<1>1. UNCHANGED <<main, keeper, reporter, heart, last>>
  BY DEF threads
<1>2. WorkerTypeOK'
  BY <1>1 DEF WorkerInv, WorkerTypeOK, TypeOK, Serves, LedgerSound
<1>3. \A t \in Thread : CallSound(store', calls'[t])
  BY ThreadParts, CallStays DEF Answered
<1>4. \A r \in strays' : r.op \in AttemptOperation => Granted(store', r.a)
  BY GrantStays DEF WorkerInv
<1>5. \A t \in Thread : /\ calls'[t].op = calls[t].op /\ calls'[t].a = calls[t].a
                        /\ calls[t] = NoCall <=> calls'[t] = NoCall
  <2>1. ASSUME NEW t \in Thread, Answered(t)
        PROVE  calls[t] # NoCall /\ calls'[t] # NoCall
    <3>1. calls[t].answer = "pending" /\ CallSound(store, calls[t])
      BY <2>1, ThreadParts DEF Answered, Waiting
    <3>2. calls[t].op # "none"
      BY <3>1 DEF CallSound
    <3> QED BY <2>1, <3>1, <3>2, NoCallIs DEF Answered
  <2> QED BY <2>1 DEF Answered
<1>6. Thread = {"main", "keeper", "reporter", "heart"}
  BY DEF Thread
<1>7. LoopSound'
  <2>1. main.pc = "settle" => Claims(store', main.a, main.result)
    BY ClaimsStay DEF WorkerInv, LoopSound, KeptPlaces
  <2>2. main.pc \in DOMAIN OperationAt \cup KeptPlaces => Granted(store', main.a)
    BY GrantStays DEF WorkerInv, LoopSound
  <2> QED BY <1>1, <1>5, <1>6, <2>1, <2>2 DEF WorkerInv, LoopSound
<1>8. ThreadsSound'
  <2>1. keeper.err = "refused" => ~Live(store', main.a)
    <3>1. keeper.err = "refused" => Granted(store, main.a) /\ ~Live(store, main.a)
      BY ThreadParts DEF ThreadsSound
    <3> QED BY <3>1 DEF Serves, Retains, Granted
  <2> QED BY <1>1, <1>5, <1>6, <2>1 DEF WorkerInv, ThreadsSound
<1>9. Unthreatened'
  <2>1. \A r \in strays' : r.op \in Closing => Granted(store, r.a) /\ r.a \in AttemptRefs
    BY ReportsOfOperations DEF WorkerInv, Closing, Granted
  <2>2. ASSUME NEW r \in strays', r.op \in Closing, main.pc = "claim"
        PROVE  r.a # calls'["main"].got
    <3>1. r.a # calls["main"].got
      BY <2>2 DEF WorkerInv, Unthreatened
    <3>2. Granted(store, r.a) /\ r.a # NoAttempt
      BY <2>1, <2>2, StoreAssumption
    <3> QED BY <1>6, <3>1, <3>2 DEF Answered, Granted
  <2>3. ASSUME NEW r \in strays', r.op \in Closing,
               main.pc \in {"ack", "first_refresh", "execute"}
        PROVE  r.a # main.a
    BY <2>3 DEF WorkerInv, Unthreatened
  <2> QED BY <1>1, <2>2, <2>3 DEF Unthreatened
<1>10. last'.outcome # "none" => Granted(store', last'.a) /\ Claims(store', last'.a, last'.outcome)
  BY <1>1, GrantStays, ClaimsStay DEF WorkerInv
<1>11. main.prompt => Timely'
  <2>1. SUFFICES ASSUME main.prompt PROVE Timely'
    OBVIOUS
  <2>2. Timely /\ LoopSound /\ ThreadsSound
    BY <2>1 DEF WorkerInv
  <2>3. LeaseTicks \in Nat /\ keeper.timer \in Nat
    <3>1. keeper.timer \in 0..LeaseTicks
      BY ThreadParts DEF Keeper
    <3> QED BY <3>1, StoreAssumption
  <2>4. main.pc \in {"first_refresh", "execute"} => Granted(store, main.a) /\ main.a \notin B
    BY <2>2, PlacesAre DEF LoopSound, KeptPlaces
  <2>5. ASSUME main.pc = "first_refresh", Refreshed("main")'
        PROVE  calls'["main"].left = LeaseTicks /\ Holds(LeaseTicks)'
    <3>1. CASE calls'["main"] = calls["main"]
      BY <1>1, <2>2, <2>3, <2>4, <2>5, <3>1, HoldsStays DEF Timely, Refreshed
    <3>2. CASE Answered("main")
      <4>1. calls["main"].a = main.a /\ LeaseTicks >= LeaseTicks
        BY <2>2, <2>3, <2>5, PlacesAre DEF LoopSound
      <4> QED BY <1>1, <2>5, <3>2, <4>1 DEF Answered, Holds
    <3> QED BY <1>6, <3>1, <3>2
  <2>6. ASSUME main.pc = "execute", Refreshed("keeper")'
        PROVE  calls'["keeper"].left = LeaseTicks /\ Holds(LeaseTicks)'
    <3>1. CASE calls'["keeper"] = calls["keeper"]
      BY <1>1, <2>2, <2>3, <2>4, <2>6, <3>1, HoldsStays DEF Timely, Refreshed
    <3>2. CASE Answered("keeper")
      <4>1. calls["keeper"] # NoCall
        BY <1>5, <1>6, <2>6, NoCallIs DEF Refreshed
      <4>2. calls["keeper"].a = main.a /\ LeaseTicks >= LeaseTicks
        BY <2>2, <2>3, <4>1 DEF ThreadsSound
      <4> QED BY <1>1, <2>6, <3>2, <4>2 DEF Answered, Holds
    <3> QED BY <1>6, <3>1, <3>2
  <2>7. ASSUME main.pc = "execute", ~Canceled
        PROVE  keeper.on /\ Holds(keeper.timer)'
    <3>1. PICK n \in Nat : n = keeper.timer
      BY <2>3
    <3>2. keeper.on /\ Holds(n)
      BY <2>2, <2>7, <3>1 DEF Timely
    <3>3. Holds(n)'
      BY <1>1, <2>4, <2>7, <3>2, HoldsStays
    <3> QED BY <1>1, <3>1, <3>2, <3>3 DEF Holds
  <2>8. Canceled' <=> Canceled
    BY <1>1 DEF Canceled
  <2> QED BY <1>1, <2>5, <2>6, <2>7, <2>8 DEF Timely
<1>12. LedgerSound(store')
  BY DEF Serves
<1> QED BY <1>1, <1>2, <1>3, <1>4, <1>7, <1>8, <1>9, <1>10, <1>11, <1>12 DEF WorkerInv

\* The server serves a request that a thread waits for, and answers it.
LEMMA ServeKeeps ==
    ASSUME WorkerInv, NEW t \in Thread, Serve(t)
    PROVE  WorkerInv'
<1> DEFINE c == calls[t]
<1>1. PICK got \in AttemptRefs \cup {NoAttempt} :
         /\ c.op # "claim" => got = NoAttempt
         /\ Accepts(c.op, c.a, got)
         /\ calls' = [calls EXCEPT ![t].answer = "ok", ![t].got = got,
                          ![t].left = IF c.op = "refresh" THEN LeaseTicks ELSE @]
  BY DEF Serve
<1>2. /\ c.answer = "pending" /\ UNCHANGED threads /\ UNCHANGED strays
      /\ c \in Call /\ CallSound(store, c) /\ calls \in [Thread -> Call]
  BY ThreadParts DEF Serve, Waiting
<1>3. /\ c.op \in Operation /\ c.a \in AttemptRefs \cup {NoAttempt}
      /\ c.op \in AttemptOperation => Granted(store, c.a)
  BY <1>2 DEF CallSound, Call
<1>4. LedgerSound(store) /\ RegistryTypeOK
  BY DEF WorkerInv, WorkerTypeOK, TypeOK
<1> DEFINE B == IF c.op \in Closing THEN {c.a} ELSE {}
<1>5. /\ RegistryTypeOK'
      /\ Serves(store, store', B)
      /\ c.op \in DOMAIN ReportOf => ReportOf[c.op] \in store'.checkpoints[c.a].reported
      /\ c.op = "complete" => "completed" \in store'.checkpoints[c.a].reported
      /\ c.op = "refresh" => Open(store', c.a) /\ store'.attempts[c.a].lease = LeaseTicks
      /\ got # NoAttempt => ~Exists(store, got) /\ Granted(store', got)
  BY <1>1, <1>3, <1>4, AcceptServes
<1>6. PICK d \in Call :
         /\ calls' = [calls EXCEPT ![t] = d]
         /\ d.op = c.op /\ d.a = c.a /\ d.answer = "ok" /\ d.got = got
         /\ c.op = "refresh" => d.left = LeaseTicks
  <2>1. LeaseTicks \in Countdown(LeaseTicks)
    BY StoreAssumption DEF Countdown, Expired
  <2> DEFINE d == [c EXCEPT !.answer = "ok", !.got = got,
                            !.left = IF c.op = "refresh" THEN LeaseTicks ELSE @]
  <2>2. calls' = [calls EXCEPT ![t] = d]
    BY <1>1
  <2>3. /\ d \in Call /\ d.op = c.op /\ d.a = c.a /\ d.answer = "ok" /\ d.got = got
        /\ c.op = "refresh" => d.left = LeaseTicks
    BY <1>2, <2>1 DEF Call
  <2> QED BY <2>2, <2>3
<1>7. /\ calls' \in [Thread -> Call] /\ calls'[t] = d
      /\ \A u \in Thread \ {t} : calls'[u] = calls[u]
  BY <1>2, <1>6
<1>8. CallSound(store', d)
  <2>1. c.op \in AttemptOperation => Granted(store', c.a)
    BY <1>3, <1>5, GrantStays
  <2>2. got # NoAttempt => c.op = "claim"
    BY <1>1
  <2>3. c.op # "none"
    BY <1>2 DEF CallSound
  <2> QED BY <1>5, <1>6, <2>1, <2>2, <2>3 DEF CallSound
<1>9. Answered(t)
  BY <1>2, <1>5, <1>6, <1>7, <1>8 DEF Answered, Waiting, Refreshed
<1>10. main.pc \in {"first_refresh", "execute"} => main.a \notin B
  <2>1. CASE t = "main"
    BY <1>2, <2>1, PlacesAre, NoCallIs DEF WorkerInv, LoopSound, Closing
  <2>2. CASE t # "main"
    <3>1. c.op \in {"refresh", "progress", "online", "none"}
      BY <2>2, ThreadParts, NoCallIs DEF ThreadsSound
    <3> QED BY <3>1 DEF Closing
  <2> QED BY <2>1, <2>2
<1>11. /\ strays' \subseteq Stray /\ strays' \ strays = {}
  BY <1>2, ThreadParts
<1> HIDE DEF B, c
<1> QED BY <1>2, <1>5, <1>7, <1>9, <1>10, <1>11, WireMoves

\* It refuses one, or the connection breaks: nothing is served.
LEMMA RefuseKeeps ==
    ASSUME WorkerInv, NEW t \in Thread, Refuse(t) \/ Break(t)
    PROVE  WorkerInv'
<1> DEFINE c == calls[t]
<1>1. /\ c.answer = "pending" /\ UNCHANGED threads /\ Stays
      /\ c \in Call /\ CallSound(store, c) /\ calls \in [Thread -> Call]
  BY ThreadParts DEF Refuse, Break, Waiting
<1>2. PICK answer \in {"refused", "broken"} :
         /\ calls' = [calls EXCEPT ![t] = [c EXCEPT !.answer = answer]]
         /\ answer = "refused" => Refuses(c.op, c.a)
  <2>1. CASE Refuse(t)
    BY <2>1 DEF Refuse
  <2>2. CASE Break(t)
    BY <2>2 DEF Break
  <2> QED BY <2>1, <2>2
<1>3. PICK d \in Call :
         /\ calls' = [calls EXCEPT ![t] = d]
         /\ d.op = c.op /\ d.a = c.a /\ d.answer = answer /\ d.got = c.got
  <2> DEFINE d == [c EXCEPT !.answer = answer]
  <2>1. d \in Call /\ d.op = c.op /\ d.a = c.a /\ d.answer = answer /\ d.got = c.got
    BY <1>1 DEF Call
  <2>2. calls' = [calls EXCEPT ![t] = d]
    BY <1>2
  <2> QED BY <2>1, <2>2
<1>4. /\ calls' \in [Thread -> Call] /\ calls'[t] = d
      /\ \A u \in Thread \ {t} : calls'[u] = calls[u]
  BY <1>1, <1>3
<1>5. /\ UNCHANGED <<endpoints, store>> /\ Serves(store, store, {}) /\ RegistryTypeOK'
  BY <1>1, StutterServes DEF Stays, WorkerInv, WorkerTypeOK, TypeOK, RegistryTypeOK
<1>6. CallSound(store', d)
  BY <1>1, <1>2, <1>3, <1>5, RefusedIsOver DEF CallSound
<1>7. Answered(t)
  BY <1>1, <1>2, <1>3, <1>4, <1>6 DEF Answered, Waiting, Refreshed
<1>8. /\ strays' \subseteq Stray
      /\ \A r \in strays' \ strays :
            /\ r.op \in AttemptOperation => Granted(store, r.a)
            /\ r.op = c.op
  <2>1. CASE Refuse(t)
    BY <2>1, ThreadParts DEF Refuse
  <2>2. CASE Break(t)
    BY <2>2, LeftBehind DEF Break
  <2> QED BY <2>1, <2>2
<1>9. c.op \in Closing => main.pc \notin {"claim", "ack", "first_refresh", "execute"}
  <2>1. CASE t = "main"
    BY <1>1, <2>1, PlacesAre, NoCallIs, ReportsOfOperations
       DEF WorkerInv, LoopSound, Closing, UnclaimedPlaces
  <2>2. CASE t # "main"
    <3>1. c.op \in {"refresh", "progress", "online", "none"}
      BY <2>2, ThreadParts, NoCallIs DEF ThreadsSound
    <3> QED BY <3>1 DEF Closing
  <2> QED BY <2>1, <2>2
<1> HIDE DEF c
<1> QED BY <1>1, <1>4, <1>5, <1>7, <1>8, <1>9, WireMoves

\* A request that nobody waits for is served, or refused.
LEMMA ServeStrayKeeps ==
    ASSUME WorkerInv, ServeStray
    PROVE  WorkerInv'
<1>1. PICK r \in strays :
         /\ \/ \E got \in AttemptRefs \cup {NoAttempt} :
                  (r.op # "claim" => got = NoAttempt) /\ Accepts(r.op, r.a, got)
            \/ Stays
         /\ strays' = strays \ {r} /\ UNCHANGED <<threads, calls>>
  BY DEF ServeStray
<1>2. /\ r.op \in Operation /\ LedgerSound(store) /\ RegistryTypeOK
      /\ r.op \in AttemptOperation => Granted(store, r.a)
  BY ThreadParts DEF Stray, WorkerInv, WorkerTypeOK, TypeOK
<1> DEFINE B == IF r.op \in Closing THEN {r.a} ELSE {}
<1>3. RegistryTypeOK' /\ (Serves(store, store', B) \/ Serves(store, store', {}))
  <2>1. ASSUME NEW got \in AttemptRefs \cup {NoAttempt},
               r.op # "claim" => got = NoAttempt, Accepts(r.op, r.a, got)
        PROVE  RegistryTypeOK' /\ Serves(store, store', B)
    BY <1>2, <2>1, AcceptServes
  <2>2. CASE Stays
    BY <1>2, <2>2, StutterServes DEF Stays, RegistryTypeOK
  <2> QED BY <1>1, <2>1, <2>2
<1>4. main.pc \in {"first_refresh", "execute"} => main.a \notin B
  BY DEF WorkerInv, Unthreatened
<1>5. /\ strays' \subseteq Stray /\ strays' \ strays = {}
      /\ calls' \in [Thread -> Call] /\ \A t \in Thread : calls'[t] = calls[t]
      /\ UNCHANGED threads
  BY <1>1, ThreadParts
<1> HIDE DEF B
<1>6. CASE Serves(store, store', B)
  BY <1>3, <1>4, <1>5, <1>6, WireMoves
<1>7. CASE Serves(store, store', {})
  BY <1>3, <1>5, <1>7, WireMoves
<1> QED BY <1>3, <1>6, <1>7

\* The others send, take over, cancel and reconcile.
LEMMA OthersKeep ==
    ASSUME WorkerInv, OthersNext
    PROVE  WorkerInv'
<1>1. LedgerSound(store) /\ RegistryTypeOK
  BY DEF WorkerInv, WorkerTypeOK, TypeOK
<1>2. ASSUME NEW m \in MessageRefs, NEW r \in Requests, IngressMessage(m, r)
      PROVE  Serves(store, store', {}) /\ UNCHANGED endpoints
  BY <1>1, <1>2, IngressServes DEF IngressMessage
<1>3. ASSUME NEW e \in Endpoints, NEW m \in MessageRefs, NEW a \in AttemptRefs,
             ClaimNextMessage(e, m, a)
      PROVE  Serves(store, store', {}) /\ UNCHANGED endpoints
  BY <1>1, <1>3, ClaimNextMessageServes DEF ClaimNextMessage
<1>4. ASSUME NEW t \in Tasks, CancelTask(t)
      PROVE  Serves(store, store', {}) /\ UNCHANGED endpoints
  BY <1>1, <1>4, CancelServes DEF CancelTask
<1>5. ASSUME ReconcileExpiredClaims
      PROVE  Serves(store, store', {}) /\ UNCHANGED endpoints
  BY <1>1, <1>5, ReconcileServes DEF ReconcileExpiredClaims
<1>6. Serves(store, store', {}) /\ UNCHANGED endpoints
  BY <1>2, <1>3, <1>4, <1>5 DEF OthersNext
<1>7. /\ RegistryTypeOK' /\ UNCHANGED threads
      /\ strays' \subseteq Stray /\ strays' \ strays = {}
      /\ calls' \in [Thread -> Call] /\ \A t \in Thread : calls'[t] = calls[t]
  BY <1>1, <1>6, ThreadParts DEF OthersNext, RegistryTypeOK
<1> QED BY <1>6, <1>7, WireMoves

\* Time passes: a keeper that is due in so many ticks still holds the lease for
\* as many, one tick later.
LEMMA SystemTickKeeps ==
    ASSUME WorkerInv, Tick, WorkerTick
    PROVE  WorkerInv'
<1>1. /\ LedgerSound(store) /\ RegistryTypeOK
      /\ store' = TickStore(store) /\ RegistryTick
  BY DEF WorkerInv, WorkerTypeOK, TypeOK, Tick
<1>2. /\ Serves(store, store', AttemptRefs)
      /\ \A a \in AttemptRefs : /\ store'.attempts[a].state = store.attempts[a].state
                                /\ store'.attempts[a].lease = Elapse(store.attempts[a].lease)
  BY <1>1, TickServes
<1>3. RegistryTypeOK'
  BY <1>1, RegistryTyped
<1>4. /\ keeper' = [keeper EXCEPT !.timer = IF keeper.timer = 0 THEN 0 ELSE keeper.timer - 1]
      /\ calls' = [t \in Thread |-> [calls[t] EXCEPT !.left = Elapse(calls[t].left)]]
      /\ main' = [main EXCEPT !.prompt = main.prompt /\ ~Overdue]
      /\ UNCHANGED <<reporter, heart, strays, last>>
  BY DEF WorkerTick
<1>5. /\ keeper' \in Keeper /\ keeper'.on = keeper.on /\ keeper'.err = keeper.err
      /\ keeper.timer # 0 => keeper'.timer = keeper.timer - 1
  BY <1>4, ThreadParts, StoreAssumption DEF Keeper
<1>6. /\ main' \in Main /\ main'.pc = main.pc /\ main'.a = main.a /\ main'.result = main.result
      /\ main'.prompt <=> main.prompt /\ ~Overdue
  <2>1. (main.prompt /\ ~Overdue) \in BOOLEAN
    OBVIOUS
  <2>2. main \in Main
    BY DEF WorkerInv, WorkerTypeOK
  <2> QED BY <1>4, <2>1, <2>2 DEF Main
<1>7. ASSUME NEW t \in Thread
      PROVE  /\ calls'[t] \in Call
             /\ calls'[t].op = calls[t].op /\ calls'[t].a = calls[t].a
             /\ calls'[t].answer = calls[t].answer /\ calls'[t].got = calls[t].got
             /\ calls[t] = NoCall => calls'[t] = NoCall
  <2> DEFINE c == calls[t]
             l == Elapse(c.left)
  <2>1. c \in Call /\ calls'[t] = [c EXCEPT !.left = l]
    BY <1>4, ThreadParts
  <2>2. l \in Countdown(LeaseTicks) /\ (c.left = Expired => l = Expired)
    BY <2>1, StoreAssumption DEF Call, Countdown, Expired, Elapse
  <2>3. c = NoCall => c.left = Expired /\ calls'[t] = NoCall
    BY <2>1, <2>2 DEF NoCall
  <2> HIDE DEF l
  <2> QED BY <2>1, <2>2, <2>3 DEF Call
<1>8. calls' \in [Thread -> Call]
  BY <1>4, <1>7
<1>9. WorkerTypeOK'
  BY <1>2, <1>3, <1>4, <1>5, <1>6, <1>8
     DEF WorkerInv, WorkerTypeOK, TypeOK, Serves, LedgerSound
<1>10. \A t \in Thread : CallSound(store', calls'[t])
  <2>1. \A t \in Thread : CallSound(store', calls[t])
    BY <1>2, ThreadParts, CallStays
  <2> QED BY <1>7, <2>1 DEF CallSound
<1>11. \A r \in strays' : r.op \in AttemptOperation => Granted(store', r.a)
  BY <1>2, <1>4, GrantStays DEF WorkerInv
<1>12. Thread = {"main", "keeper", "reporter", "heart"}
  BY DEF Thread
<1>13. LoopSound'
  <2>1. main.pc = "settle" => Claims(store', main.a, main.result)
    BY <1>2, ClaimsStay DEF WorkerInv, LoopSound, KeptPlaces
  <2>2. main.pc \in DOMAIN OperationAt \cup KeptPlaces => Granted(store', main.a)
    BY <1>2, GrantStays DEF WorkerInv, LoopSound
  <2> QED BY <1>6, <1>7, <1>12, <2>1, <2>2 DEF WorkerInv, LoopSound
<1>14. ThreadsSound'
  <2>1. keeper.err = "refused" => ~Live(store', main.a)
    <3>1. keeper.err = "refused" => Granted(store, main.a) /\ ~Live(store, main.a)
      BY ThreadParts DEF ThreadsSound
    <3> QED BY <1>2, <3>1 DEF Serves, Retains, Granted
  <2> QED BY <1>4, <1>5, <1>6, <1>7, <1>12, <2>1 DEF WorkerInv, ThreadsSound
<1>15. Unthreatened'
  BY <1>4, <1>6, <1>7, <1>12 DEF WorkerInv, Unthreatened
<1>16. last'.outcome # "none" => Granted(store', last'.a) /\ Claims(store', last'.a, last'.outcome)
  BY <1>2, <1>4, GrantStays, ClaimsStay DEF WorkerInv
<1>17. main'.prompt => Timely'
  <2>1. SUFFICES ASSUME main'.prompt PROVE Timely'
    OBVIOUS
  <2>2. Timely /\ ~Overdue
    BY <1>6, <2>1 DEF WorkerInv
  <2>3. calls["main"] = NoCall /\ calls["keeper"] = NoCall /\ (keeper.on => keeper.timer # 0)
    BY <2>2 DEF Overdue
  <2>4. ~Refreshed("main")' /\ ~Refreshed("keeper")'
    BY <1>7, <1>12, <2>3, NoCallIs DEF Refreshed
  <2>5. ASSUME main.pc = "execute", ~Canceled
        PROVE  keeper.on /\ Holds(keeper.timer)'
    <3>1. keeper.on /\ Holds(keeper.timer) /\ main.a \in AttemptRefs
      BY <2>2, <2>5, ThreadParts DEF Timely, KeptPlaces
    <3>2. keeper.timer \in 1..LeaseTicks /\ keeper'.timer = keeper.timer - 1
      BY <1>5, <2>3, <3>1, ThreadParts, StoreAssumption DEF Keeper
    <3>3. store.attempts[main.a].lease \in Countdown(LeaseTicks)
      BY <1>1, <3>1, StoreParts DEF LedgerSound, Attempt
    <3>4. CASE store.attempts[main.a].state = "canceled"
      BY <1>2, <1>6, <3>1, <3>4 DEF Holds
    <3>5. CASE Open(store, main.a) /\ store.attempts[main.a].lease >= keeper.timer
      <4>1. store'.attempts[main.a].lease = store.attempts[main.a].lease - 1
        BY <1>2, <3>1, <3>2, <3>3, <3>5, StoreAssumption DEF Elapse, Countdown, Expired
      <4>2. store'.attempts[main.a].lease >= keeper'.timer
        BY <3>2, <3>3, <3>5, <4>1, StoreAssumption DEF Countdown, Expired
      <4>3. Open(store', main.a)
        BY <1>2, <3>1, <3>5 DEF Open
      <4> QED BY <1>6, <3>1, <4>2, <4>3 DEF Holds, Open
    <3> QED BY <3>1, <3>4, <3>5 DEF Holds
  <2> QED BY <1>5, <1>6, <2>4, <2>5 DEF Timely, Canceled
<1>18. LedgerSound(store')
  BY <1>2 DEF Serves
<1> QED BY <1>4, <1>9, <1>10, <1>11, <1>13, <1>14, <1>15, <1>16, <1>17, <1>18 DEF WorkerInv

-----------------------------------------------------------------------------
(* The theorems.                                                           *)

\* A worker that is off has been told nothing, and holds nothing.
LEMMA SystemInitSound == SystemInit => WorkerInv
<1> SUFFICES ASSUME SystemInit PROVE WorkerInv
  OBVIOUS
<1>1. Init /\ WorkerInit
  BY DEF SystemInit
<1>2. TypeOK /\ Sound(store) /\ Fenced(store) /\ Owned(store)
  BY <1>1, InitInv, InitFenced, InitOwned DEF Inv
<1>3. Dropped(store)
  BY <1>1 DEF Init, EmptyStore, AbsentAttempt, Dropped
<1>4. /\ main = [pc |-> "off", a |-> NoAttempt, result |-> "none", prompt |-> TRUE]
      /\ keeper = NoKeeper /\ reporter = NoReporter /\ heart = NoHeart
      /\ calls = [t \in Thread |-> NoCall] /\ strays = {} /\ last = Nothing
  BY <1>1 DEF WorkerInit, Off
<1>5. main \in Main /\ main.pc = "off"
  BY <1>4 DEF Main, MainStep, Outcome
<1>6. calls \in [Thread -> Call] /\ \A t \in Thread : calls[t] = NoCall
  BY <1>4, NoCallIs
<1>7. keeper \in Keeper /\ ~keeper.on /\ keeper.err = "none"
  BY <1>4, StoreAssumption DEF NoKeeper, Keeper
<1>8. reporter \in Reporter /\ ~reporter.on
  BY <1>4, WorkerAssumption DEF NoReporter, Reporter
<1>9. heart \in Heart /\ last \in Last /\ last.outcome = "none"
  BY <1>4 DEF NoHeart, Heart, Nothing, Last, Outcome
<1>10. WorkerTypeOK
  BY <1>2, <1>4, <1>5, <1>6, <1>7, <1>8, <1>9 DEF WorkerTypeOK
<1>11. LoopSound
  BY <1>5, <1>6, PlacesAre, NoCallIs DEF LoopSound, UnclaimedPlaces, KeptPlaces, Thread
<1>12. ThreadsSound
  BY <1>6, <1>7, <1>8, NoCallIs DEF ThreadsSound, Thread
<1>13. Unthreatened /\ Timely
  BY <1>4, <1>5 DEF Unthreatened, Timely
<1> QED BY <1>2, <1>3, <1>4, <1>6, <1>9, <1>10, <1>11, <1>12, <1>13, NoCallSound
        DEF WorkerInv, LedgerSound, TypeOK

\* Every step of the system keeps the invariant.
LEMMA SystemNextSound == WorkerInv /\ [SystemNext]_workerVars => WorkerInv'
<1> SUFFICES ASSUME WorkerInv, [SystemNext]_workerVars PROVE WorkerInv'
  OBVIOUS
<1>1. ASSUME NEW t \in Thread, Answer(t) PROVE WorkerInv'
  BY <1>1, ServeKeeps, RefuseKeeps DEF Answer
<1>2. CASE UNCHANGED workerVars
  <2>1. /\ UNCHANGED <<endpoints, store, main, keeper, reporter, heart, last, calls, strays>>
    BY <1>2 DEF workerVars, threads
  <2>2. WorkerTypeOK'
    BY <2>1 DEF WorkerInv, WorkerTypeOK, TypeOK, RegistryTypeOK
  <2>3. LoopSound' /\ ThreadsSound' /\ Unthreatened' /\ (main.prompt => Timely')
    BY <2>1 DEF WorkerInv, LoopSound, ThreadsSound, Unthreatened, Timely, Refreshed, Holds, Canceled
  <2> QED BY <2>1, <2>2, <2>3 DEF WorkerInv
<1> QED BY <1>1, <1>2, ProcessKeeps, ServeStrayKeeps, OthersKeep, SystemTickKeeps
        DEF SystemNext, WireNext

\* What a worker was told stays true, and its claim is its own while it
\* refreshes in time.
THEOREM WorkerHolds == SystemSpec => []WorkerInv
<1>1. SystemInit => WorkerInv
  BY SystemInitSound
<1>2. WorkerInv /\ [SystemNext]_workerVars => WorkerInv'
  BY SystemNextSound
<1> QED BY <1>1, <1>2, PTL DEF SystemSpec

\* The worker's goroutines, its requests and the strays stay in their types.
THEOREM WorkerTypesHold == SystemSpec => []WorkerTypeOK
<1>1. WorkerInv => WorkerTypeOK
  BY DEF WorkerInv
<1> QED BY <1>1, WorkerHolds, PTL

\* What the runtime says became of a claim is what the ledger holds, whatever
\* was lost, delayed or served twice on the way (executeClaim's outcome).
THEOREM OutcomesAreTrue == SystemSpec => []OutcomeIsTrue
<1>1. WorkerInv => OutcomeIsTrue
  BY DEF WorkerInv, Claims, OutcomeIsTrue
<1> QED BY <1>1, WorkerHolds, PTL

\* A worker whose refreshes are answered before time passes does not lose its
\* claim to the lease, nor to a request of its own (maintainLease).
THEOREM TimelyWorkersKeep == SystemSpec => []TimelyWorkerKeepsClaim
<1>1. WorkerInv => TimelyWorkerKeepsClaim
  <2> SUFFICES ASSUME WorkerInv, main.pc = "execute", main.prompt, ~Canceled
               PROVE  Live(store, main.a) \/ store.attempts[main.a].state = "canceled"
    BY DEF TimelyWorkerKeepsClaim
  <2>1. Holds(keeper.timer)
    BY DEF WorkerInv, Timely
  <2>2. main.a \in AttemptRefs /\ keeper.timer \in 0..LeaseTicks
    BY ThreadParts DEF KeptPlaces, Keeper
  <2>3. store.attempts[main.a].lease \in Countdown(LeaseTicks)
    BY <2>2, StoreParts DEF Attempt, WorkerInv, LedgerSound
  <2> QED BY <2>1, <2>2, <2>3, StoreAssumption DEF Holds, Live, Countdown, Expired
<1> QED BY <1>1, WorkerHolds, PTL
=============================================================================
