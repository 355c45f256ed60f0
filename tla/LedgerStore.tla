---------------------------- MODULE LedgerStore ----------------------------
(***************************************************************************)
(* The in-memory ledger (infrastructure/memory/store.go, claim_next.go):   *)
(* messages, attempts, checkpoints and dead letters, and the operations    *)
(* the store performs on them under its mutex.  Every operation is a       *)
(* function from a store to a store, so that the module of the service     *)
(* composes a handler from them, atomically or step by step.               *)
(***************************************************************************)
EXTENDS EndpointRegistry

CONSTANTS AttemptRefs,     \* attempt refs the allocator can hand out
          NoAttempt,       \* the empty AttemptRef of a message
          NoRequest,       \* in place of the request of a message not saved
          LeaseTicks,      \* AttemptLeaseDuration, in ticks
          MaxRedelivery    \* takeovers of a message before it is dead-lettered

ASSUME StoreAssumption ==
    /\ NoAttempt \notin AttemptRefs
    /\ NoRequest \notin Request
    /\ LeaseTicks \in Nat
    /\ MaxRedelivery \in Nat

MessageState == {"available", "claimed", "processing", "takeover_candidate",
                 "input_required", "completed", "failed", "dead_lettered",
                 "canceled"}
AttemptState == {"claimed", "validating", "blocked_missing_fields",
                 "in_progress", "retrying", "orphaned", "completed", "failed",
                 "canceled"}
ClosedState == {"completed", "failed", "orphaned", "canceled"}

NoMessage == 0
Message == [state : MessageState \cup {"absent"},
            attempt : AttemptRefs \cup {NoAttempt},
            redelivery : Nat]
Attempt == [state : AttemptState \cup {"absent"},
            msg : MessageRefs \cup {NoMessage},
            ep : Endpoints \cup {NoEndpoint},
            lease : Countdown(LeaseTicks),
            rev : Nat,
            epoch : Nat]
\* Of an attempt's checkpoints: how many there are, and the states reported.
Checkpoints == [count : Nat, reported : SUBSET AttemptState]
DeadLetter == [msg : MessageRefs, attempt : AttemptRefs,
               redelivery : Nat, checkpoint : Nat]

Store == [requests : [MessageRefs -> Request \cup {NoRequest}],
          messages : [MessageRefs -> Message],
          attempts : [AttemptRefs -> Attempt],
          checkpoints : [AttemptRefs -> Checkpoints],
          deadLetters : SUBSET DeadLetter]

AbsentMessage == [state |-> "absent", attempt |-> NoAttempt, redelivery |-> 0]
AbsentAttempt == [state |-> "absent", msg |-> NoMessage, ep |-> NoEndpoint,
                  lease |-> Expired, rev |-> 0, epoch |-> 0]
EmptyStore == [requests |-> [m \in MessageRefs |-> NoRequest],
               messages |-> [m \in MessageRefs |-> AbsentMessage],
               attempts |-> [a \in AttemptRefs |-> AbsentAttempt],
               checkpoints |-> [a \in AttemptRefs |-> [count |-> 0, reported |-> {}]],
               deadLetters |-> {}]

Saved(S, m) == S.messages[m].state # "absent"
Exists(S, a) == S.attempts[a].state # "absent"
Open(S, a) == S.attempts[a].state \notin ClosedState \cup {"absent"}
StateOf(S) == [m \in MessageRefs |-> S.messages[m].state]

-----------------------------------------------------------------------------
SaveMessage(S, m, r) ==
    [S EXCEPT !.requests[m] = r,
              !.messages[m] = [AbsentMessage EXCEPT !.state = "available"]]
UpdateMessage(S, m, record) == [S EXCEPT !.messages[m] = record]
UpdateAttempt(S, a, record) == [S EXCEPT !.attempts[a] = record]
SaveCheckpoint(S, a, s) ==
    [S EXCEPT !.checkpoints[a] = [count |-> @.count + 1, reported |-> @.reported \cup {s}]]

\* Message m goes to endpoint e as attempt a, at redelivery count n.
ClaimAt(S, m, e, a, n) ==
    [S EXCEPT
       !.attempts[a] = [state |-> "claimed", msg |-> m, ep |-> e,
                        lease |-> LeaseTicks, rev |-> 1, epoch |-> n + 1],
       !.messages[m] = [state |-> "claimed", attempt |-> a, redelivery |-> n]]

ClaimAvailableMessage(S, m, e, a) == ClaimAt(S, m, e, a, S.messages[m].redelivery)
\* Mutant: the redelivery is counted after the epoch was taken from it.
TakeoverAtOldEpoch(S, m, e, a) ==
    [ClaimAt(S, m, e, a, S.messages[m].redelivery)
        EXCEPT !.messages[m].redelivery = @ + 1]

TakeoverMessage(S, m, e, a) == ClaimAt(S, m, e, a, S.messages[m].redelivery + 1)

DeadLetterMessage(S, m) ==
    LET cur == S.messages[m].attempt
    IN  [S EXCEPT
           !.attempts[cur].state = "orphaned",
           !.messages[m].state = "dead_lettered",
           !.deadLetters = @ \cup
               {[msg |-> m, attempt |-> cur,
                 redelivery |-> S.messages[m].redelivery,
                 checkpoint |-> S.checkpoints[cur].count]}]

HasCurrentAttempt(S, m) == S.messages[m].attempt # NoAttempt
\* Mutants: a lease that ends now counts as over; only claimed messages expire.
LeaseEnds(S, m) ==
    /\ S.messages[m].state \in {"claimed", "processing"}
    /\ HasCurrentAttempt(S, m)
    /\ S.attempts[S.messages[m].attempt].lease \in {Expired, 0}
ClaimRanOut(S, m) ==
    /\ S.messages[m].state = "claimed"
    /\ HasCurrentAttempt(S, m)
    /\ S.attempts[S.messages[m].attempt].lease = Expired

LeaseRanOut(S, m) ==
    /\ S.messages[m].state \in {"claimed", "processing"}
    /\ HasCurrentAttempt(S, m)
    /\ S.attempts[S.messages[m].attempt].lease = Expired
IsTakeoverCandidate(S, m) ==
    /\ S.messages[m].state = "takeover_candidate"
    /\ HasCurrentAttempt(S, m)
\* Mutant: one takeover too many.
PastRedeliveries(S, m) == S.messages[m].redelivery > MaxRedelivery

OutOfRedeliveries(S, m) == S.messages[m].redelivery >= MaxRedelivery

OrphanCurrent(S, m) == [S EXCEPT !.attempts[S.messages[m].attempt].state = "orphaned"]

\* Mutant: the takeover of an expired claim leaves its owner as it is.
ClaimLeavingOwner(S, m, e, a) ==
    IF S.messages[m].state = "available" THEN ClaimAvailableMessage(S, m, e, a)
    ELSE IF ~(IsTakeoverCandidate(S, m) \/ LeaseRanOut(S, m)) THEN S
    ELSE IF OutOfRedeliveries(S, m) THEN DeadLetterMessage(S, m)
    ELSE TakeoverMessage(S, m, e, a)

\* The state changes of ClaimMessage; where the code answers with an error
\* and writes nothing the store is unchanged.
ClaimMessageStore(S, m, e, a) ==
    IF S.messages[m].state = "available" THEN ClaimAvailableMessage(S, m, e, a)
    ELSE IF ~(IsTakeoverCandidate(S, m) \/ LeaseRanOut(S, m)) THEN S
    ELSE IF OutOfRedeliveries(S, m) THEN DeadLetterMessage(S, m)
    ELSE IF IsTakeoverCandidate(S, m) THEN TakeoverMessage(S, m, e, a)
    ELSE TakeoverMessage(OrphanCurrent(S, m), m, e, a)

\* Does that call use up the attempt ref it was given?
Grants(S, m) ==
    \/ S.messages[m].state = "available"
    \/ (IsTakeoverCandidate(S, m) \/ LeaseRanOut(S, m)) /\ ~OutOfRedeliveries(S, m)

ReconcileStore(S) ==
    LET expired == {m \in MessageRefs : LeaseRanOut(S, m)}
        owners  == {S.messages[m].attempt : m \in expired}
    IN  [S EXCEPT
           !.attempts = [a \in AttemptRefs |->
               IF a \in owners THEN [@[a] EXCEPT !.state = "orphaned"] ELSE @[a]],
           !.messages = [m \in MessageRefs |->
               IF m \in expired THEN [@[m] EXCEPT !.state = "takeover_candidate"]
               ELSE @[m]]]

\* nextEligibleMessage: the refs in state s that e may claim, given what the
\* caller read of the registry.
Eligible(S, s, e, names, online) ==
    {m \in MessageRefs :
        /\ S.messages[m].state = s
        /\ MessageClaimableByEndpoint(S.requests[m], e, names,
                                      PreferredEndpointOnline(online, S.requests[m]))
        /\ MessageDependenciesCompleted(S.requests[m], StateOf(S))}
IsFirst(m, refs) == m \in refs /\ \A n \in refs : m <= n

\* ClaimNextMessage: takeover candidates first, and only one message per call.
IsNext(S, m, e, names, online) ==
    LET candidates == Eligible(S, "takeover_candidate", e, names, online)
    IN  IF candidates # {} THEN IsFirst(m, candidates)
        ELSE IsFirst(m, Eligible(S, "available", e, names, online))

ClaimNextStore(S, m, e, a) ==
    IF S.messages[m].state = "available" THEN ClaimAvailableMessage(S, m, e, a)
    ELSE IF ~HasCurrentAttempt(S, m) THEN S
    ELSE IF OutOfRedeliveries(S, m) THEN DeadLetterMessage(S, m)
    ELSE TakeoverMessage(S, m, e, a)

TickStore(S) ==
    [S EXCEPT !.attempts =
        [a \in AttemptRefs |-> [S.attempts[a] EXCEPT !.lease = Elapse(@)]]]

-----------------------------------------------------------------------------
(* Consistency of a store, stated of a message record where it is one that *)
(* a handler may be holding a copy of.                                     *)

\* The attempt a record points to is an attempt of that message, claimed at
\* the redelivery count of the record.
RecordLinked(S, m, rec) ==
    /\ rec.redelivery <= MaxRedelivery
    /\ rec.attempt # NoAttempt =>
          /\ S.attempts[rec.attempt].msg = m
          /\ S.attempts[rec.attempt].epoch = rec.redelivery + 1

DeadLettered(S, m, rec) ==
    /\ rec.redelivery = MaxRedelivery
    /\ \E d \in S.deadLetters : d.msg = m /\ d.attempt = rec.attempt

RecordStateBacked(S, m, rec) ==
    /\ rec.state \in {"absent", "available"} => rec.attempt = NoAttempt
    /\ rec.state \in {"claimed", "takeover_candidate"} => rec.attempt # NoAttempt
    /\ rec.state = "dead_lettered" => DeadLettered(S, m, rec)

CompletionRecorded(S, m) ==
    \E a \in AttemptRefs : /\ S.attempts[a].msg = m
                           /\ "completed" \in S.checkpoints[a].reported

RecordCompletionBacked(S, m, rec) ==
    rec.state = "completed" => CompletionRecorded(S, m)

\* An attempt is one of a saved message, whose dependencies had completed.
DependenciesRecorded(S, a) ==
    \A d \in S.requests[S.attempts[a].msg].dependsOn : CompletionRecorded(S, d)
AttemptFounded(S, a) ==
    IF Exists(S, a)
    THEN /\ S.attempts[a].msg \in MessageRefs
         /\ Saved(S, S.attempts[a].msg)
         /\ DependenciesRecorded(S, a)
    ELSE S.attempts[a].msg = NoMessage

RecordSound(S, m, rec) ==
    /\ RecordLinked(S, m, rec)
    /\ RecordStateBacked(S, m, rec)
    /\ RecordCompletionBacked(S, m, rec)

\* All of it: what every operation of the store keeps.
Sound(S) ==
    /\ \A m \in MessageRefs : /\ RecordSound(S, m, S.messages[m])
                              /\ Saved(S, m) => S.requests[m] \in Request
    /\ \A a \in AttemptRefs : AttemptFounded(S, a)
    /\ \A d \in S.deadLetters : Saved(S, d.msg)
=============================================================================
