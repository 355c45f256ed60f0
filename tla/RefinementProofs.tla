--------------------------- MODULE RefinementProofs ---------------------------
(***************************************************************************)
(* Three other accounts of the ledger, for any endpoints, messages,        *)
(* attempts and limits: where no operator retries, Handoff implements      *)
(* WorkQueue; on every ledger of Handoff the SQL store does what the       *)
(* memory store does; and requests served one at a time, each in its       *)
(* several calls of the store, are the atomic handlers of Handoff.         *)
(*                                                                         *)
(* The mapping of HandoffRefinement reads the variable `store`; here it is *)
(* a view of any ledger, so that a handler that goes through several of    *)
(* them is followed one operation at a time.  Move is what WorkQueue lets  *)
(* one item do.                                                            *)
(***************************************************************************)
EXTENDS HandoffRefinement, HandoffStores, HandoffSerial, StepsProofs, FiniteSetTheorems

HeldIn(S, m) ==
    /\ S.messages[m].state \in Working
    /\ HasCurrentAttempt(S, m)
    /\ Open(S, S.messages[m].attempt)

PhaseIn(S, m) ==
    CASE S.messages[m].state = "absent" -> "absent"
      [] S.messages[m].state = "available" -> "ready"
      [] S.messages[m].state = "completed" -> "done"
      [] S.messages[m].state = "dead_lettered" -> "dead"
      [] S.messages[m].state \in {"failed", "canceled"} -> "parked"
      [] S.messages[m].state = "takeover_candidate" -> "lost"
      [] OTHER -> IF HeldIn(S, m) THEN "held" ELSE "lost"

HolderIn(S, m) == IF HeldIn(S, m) THEN S.messages[m].attempt ELSE NoAttempt
GrantsIn(S, m) == IF HasCurrentAttempt(S, m) THEN S.messages[m].redelivery + 1 ELSE 0
SpentIn(S) == {a \in AttemptRefs : Exists(S, a)}

SameView(S, T, m) ==
    /\ PhaseIn(T, m) = PhaseIn(S, m)
    /\ HolderIn(T, m) = HolderIn(S, m)
    /\ GrantsIn(T, m) = GrantsIn(S, m)

\* The item is granted anew.
GrantedAnew(S, T, m) ==
    /\ PhaseIn(S, m) \in {"ready", "lost", "held"} /\ PhaseIn(T, m) = "held"
    /\ GrantsIn(T, m) = GrantsIn(S, m) + 1 /\ GrantsIn(T, m) <= MaxRedelivery + 1
    /\ HolderIn(T, m) \in SpentIn(T) \ SpentIn(S)

\* The item is let go of, in phase p.
Released(S, T, m, p) ==
    /\ PhaseIn(T, m) = p /\ HolderIn(T, m) = NoAttempt
    /\ GrantsIn(T, m) = GrantsIn(S, m)

Buried(S, T, m) ==
    /\ Released(S, T, m, "dead")
    /\ PhaseIn(S, m) \in {"held", "lost"} /\ GrantsIn(S, m) = MaxRedelivery + 1

Submitted(S, T, m) ==
    /\ PhaseIn(S, m) = "absent" /\ PhaseIn(T, m) = "ready"
    /\ HolderIn(T, m) = NoAttempt /\ GrantsIn(T, m) = 0

Move(S, T, m) ==
    \/ SameView(S, T, m)
    \/ Submitted(S, T, m)
    \/ GrantedAnew(S, T, m)
    \/ Released(S, T, m, "lost") /\ PhaseIn(S, m) = "held"
    \/ Released(S, T, m, "done") /\ PhaseIn(S, m) = "held"
    \/ Released(S, T, m, "parked") /\ PhaseIn(S, m) \notin {"absent", "done"}
    \/ Buried(S, T, m)

-----------------------------------------------------------------------------
(* The view of one message.                                                *)

\* Its phase, state by state.
LEMMA PhaseParts ==
    ASSUME NEW S \in Store, NEW m \in MessageRefs
    PROVE  /\ S.messages[m].state = "absent" <=> PhaseIn(S, m) = "absent"
           /\ S.messages[m].state = "available" <=> PhaseIn(S, m) = "ready"
           /\ S.messages[m].state = "completed" <=> PhaseIn(S, m) = "done"
           /\ S.messages[m].state = "dead_lettered" => PhaseIn(S, m) = "dead"
           /\ S.messages[m].state \in {"failed", "canceled"} => PhaseIn(S, m) = "parked"
           /\ S.messages[m].state = "takeover_candidate" => PhaseIn(S, m) = "lost"
           /\ S.messages[m].state \in Working =>
                 PhaseIn(S, m) = IF HeldIn(S, m) THEN "held" ELSE "lost"
<1>1. S.messages[m].state \in MessageState \cup {"absent"}
  BY StoreParts DEF Message
<1> QED BY <1>1 DEF PhaseIn, Working, MessageState

\* It is the same where the message is, and its attempt is as open as before.
LEMMA ViewStays ==
    ASSUME NEW S \in Store, NEW T \in Store, NEW m \in MessageRefs,
           T.messages[m] = S.messages[m],
           HasCurrentAttempt(S, m) =>
               (Open(T, S.messages[m].attempt) <=> Open(S, S.messages[m].attempt))
    PROVE  SameView(S, T, m)
<1>1. HeldIn(T, m) <=> HeldIn(S, m)
  BY DEF HeldIn, HasCurrentAttempt
<1> QED BY <1>1 DEF SameView, PhaseIn, HolderIn, GrantsIn, HasCurrentAttempt

\* Letting go: the state is one that nobody holds, and the counts are the same.
LEMMA ReleasedParts ==
    ASSUME NEW S \in Store, NEW T \in Store, NEW m \in MessageRefs,
           T.messages[m].attempt = S.messages[m].attempt,
           T.messages[m].redelivery = S.messages[m].redelivery,
           ~HeldIn(T, m)
    PROVE  Released(S, T, m, PhaseIn(T, m))
BY DEF Released, HolderIn, GrantsIn, HasCurrentAttempt

\* A message that an operation leaves alone, with the attempts made for it.
LEMMA OthersStay ==
    ASSUME NEW S \in Store, NEW T \in Store, Sound(S), NEW m \in MessageRefs,
           T.messages[m] = S.messages[m],
           \A a \in AttemptRefs :
               Exists(S, a) /\ S.attempts[a].msg = m => (Open(T, a) <=> Open(S, a))
    PROVE  SameView(S, T, m)
BY CurrentExists, ViewStays

-----------------------------------------------------------------------------
(* The operations of the store, item by item.                              *)

\* A loss, or nothing: what happens to an item before it is granted again.
Loosened(S, T, m) ==
    SameView(S, T, m) \/ (Released(S, T, m, "lost") /\ PhaseIn(S, m) = "held")

\* An item that was loosened before it was moved was moved as well.
LEMMA MoveLoosened ==
    ASSUME NEW S \in Store, NEW R \in Store, NEW T \in Store, NEW m \in MessageRefs,
           Loosened(S, R, m), SpentIn(R) = SpentIn(S),
           SameView(R, T, m) \/ GrantedAnew(R, T, m) \/ Buried(R, T, m)
    PROVE  Move(S, T, m)
BY DEF Move, Loosened, SameView, Released, GrantedAnew, Buried

\* An item that is not done may be granted to an attempt that never existed.
LEMMA ClaimAtMoves ==
    ASSUME NEW S \in Store, Sound(S),
           NEW m \in MessageRefs, NEW e \in Endpoints, NEW a \in AttemptRefs,
           ~Exists(S, a), PhaseIn(S, m) \in {"ready", "lost", "held"},
           NEW n \in Nat, n = GrantsIn(S, m), n <= MaxRedelivery
    PROVE  LET T == ClaimAt(S, m, e, a, n)
           IN  GrantedAnew(S, T, m) /\ \A k \in MessageRefs : k # m => SameView(S, T, k)
<1> DEFINE T == ClaimAt(S, m, e, a, n)
<1>1. /\ T.attempts = [S.attempts EXCEPT ![a] =
            [state |-> "claimed", msg |-> m, ep |-> e, lease |-> LeaseTicks,
             rev |-> 1, epoch |-> n + 1]]
      /\ T.messages = [S.messages EXCEPT ![m] =
            [state |-> "claimed", attempt |-> a, redelivery |-> n]]
  BY DEF ClaimAt, Store
<1>2. T.attempts[a].state = "claimed"
  BY <1>1, StoreParts
<1>3. /\ T.messages[m].state = "claimed" /\ T.messages[m].attempt = a
      /\ T.messages[m].redelivery = n
  BY <1>1, StoreParts
<1>4. \A b \in AttemptRefs : b # a => T.attempts[b] = S.attempts[b]
  BY <1>1, StoreParts
<1>5. \A k \in MessageRefs : k # m => T.messages[k] = S.messages[k]
  BY <1>1, StoreParts
<1>6. T \in Store
  BY ClaimAtTyped
<1> HIDE DEF T
<1>7. ASSUME NEW k \in MessageRefs, k # m
      PROVE  SameView(S, T, k)
  <2>1. \A b \in AttemptRefs : Exists(S, b) => (Open(T, b) <=> Open(S, b))
    BY <1>4 DEF Open
  <2> QED BY <2>1, <1>5, <1>6, <1>7, OthersStay
<1>8. Open(T, a) /\ Exists(T, a) /\ HasCurrentAttempt(T, m)
  BY <1>2, <1>3, StoreAssumption DEF Open, Exists, ClosedState, HasCurrentAttempt
<1>9. HeldIn(T, m)
  BY <1>3, <1>8 DEF HeldIn, Working
<1>10. PhaseIn(T, m) = "held"
  BY <1>3, <1>6, <1>9, PhaseParts DEF Working
<1>11. GrantsIn(T, m) = n + 1 /\ HolderIn(T, m) = a
  BY <1>3, <1>8, <1>9 DEF GrantsIn, HolderIn
<1>12. a \in SpentIn(T) \ SpentIn(S)
  BY <1>8 DEF SpentIn
<1>13. n + 1 <= MaxRedelivery + 1
  BY StoreAssumption
<1> QED BY <1>7, <1>10, <1>11, <1>12, <1>13 DEF GrantedAnew, T

\* A dead letter buries an item that was granted as often as the limit allows.
LEMMA DeadLetterMoves ==
    ASSUME NEW S \in Store, Sound(S), NEW m \in MessageRefs,
           HasCurrentAttempt(S, m), OutOfRedeliveries(S, m),
           PhaseIn(S, m) \in {"held", "lost"}
    PROVE  LET T == DeadLetterMessage(S, m)
           IN  Buried(S, T, m) /\ \A k \in MessageRefs : k # m => SameView(S, T, k)
<1> DEFINE T == DeadLetterMessage(S, m)
           cur == S.messages[m].attempt
<1>1. cur \in AttemptRefs /\ S.attempts[cur].msg = m
  BY CurrentExists
<1>2. /\ T.attempts = [S.attempts EXCEPT ![cur] = [S.attempts[cur] EXCEPT !.state = "orphaned"]]
      /\ T.messages = [S.messages EXCEPT ![m] = [S.messages[m] EXCEPT !.state = "dead_lettered"]]
      /\ T \in Store
  BY DeadLetterKept DEF DeadLetterMessage, Store, Kept
<1>3. \A a \in AttemptRefs : a # cur => T.attempts[a] = S.attempts[a]
  BY <1>2, StoreParts
<1>4. /\ T.messages[m].state = "dead_lettered" /\ T.messages[m].attempt = cur
      /\ T.messages[m].redelivery = S.messages[m].redelivery
  BY <1>2, StoreParts DEF Message
<1>5. \A k \in MessageRefs : k # m => T.messages[k] = S.messages[k]
  BY <1>2, StoreParts
<1> HIDE DEF T
<1>6. ASSUME NEW k \in MessageRefs, k # m
      PROVE  SameView(S, T, k)
  <2>1. \A a \in AttemptRefs : S.attempts[a].msg = k => (Open(T, a) <=> Open(S, a))
    BY <1>1, <1>3, <1>6 DEF Open
  <2> QED BY <2>1, <1>2, <1>5, <1>6, OthersStay
<1>7. ~HeldIn(T, m) /\ PhaseIn(T, m) = "dead"
  BY <1>2, <1>4, PhaseParts DEF HeldIn, Working
<1>8. Released(S, T, m, "dead")
  <2>1. /\ T.messages[m].attempt = S.messages[m].attempt
        /\ T.messages[m].redelivery = S.messages[m].redelivery
    BY <1>4
  <2>2. Released(S, T, m, PhaseIn(T, m))
    BY <2>1, <1>2, <1>7, ReleasedParts
  <2> QED BY <2>2, <1>7
<1>9. S.messages[m].redelivery = MaxRedelivery
  <2> DEFINE n == S.messages[m].redelivery
  <2>1. n \in Nat /\ n <= MaxRedelivery /\ n >= MaxRedelivery
    BY StoreParts DEF Message, Sound, RecordSound, RecordLinked, OutOfRedeliveries
  <2> HIDE DEF n
  <2>2. n = MaxRedelivery
    BY <2>1, StoreAssumption
  <2> QED BY <2>2 DEF n
<1>10. GrantsIn(S, m) = MaxRedelivery + 1
  BY <1>9 DEF GrantsIn
<1> QED BY <1>6, <1>8, <1>10 DEF Buried, T

\* Orphaning an owner whose lease ran out loses its item, if it was still held.
LEMMA OrphanCurrentMoves ==
    ASSUME NEW S \in Store, Sound(S), NEW m \in MessageRefs, LeaseRanOut(S, m)
    PROVE  LET T == OrphanCurrent(S, m)
           IN  /\ Loosened(S, T, m) /\ PhaseIn(T, m) = "lost" /\ SpentIn(T) = SpentIn(S)
               /\ \A k \in MessageRefs : k # m => SameView(S, T, k)
<1> DEFINE T == OrphanCurrent(S, m)
           cur == S.messages[m].attempt
<1>1. cur \in AttemptRefs /\ S.attempts[cur].msg = m
  BY CurrentExists DEF LeaseRanOut
<1>2. /\ T.attempts = [S.attempts EXCEPT ![cur] = [S.attempts[cur] EXCEPT !.state = "orphaned"]]
      /\ T.messages = S.messages /\ T \in Store
      /\ \A a \in AttemptRefs : Exists(T, a) <=> Exists(S, a)
  BY OrphanCurrentKept DEF OrphanCurrent, Store, LeaseRanOut, Kept
<1>3. T.attempts[cur].state = "orphaned"
  BY <1>1, <1>2, StoreParts DEF Attempt
<1>4. \A a \in AttemptRefs : a # cur => T.attempts[a] = S.attempts[a]
  BY <1>2, StoreParts
<1> HIDE DEF T
<1>5. ~HeldIn(T, m)
  BY <1>2, <1>3 DEF HeldIn, Open, ClosedState
<1>6. S.messages[m].state \in Working
  BY DEF LeaseRanOut, Working
<1>7. PhaseIn(T, m) = "lost"
  BY <1>2, <1>5, <1>6, PhaseParts
<1>8. Released(S, T, m, "lost")
  BY <1>2, <1>5, <1>7, ReleasedParts
<1>9. HeldIn(S, m) \/ SameView(S, T, m)
  BY <1>6, <1>7, <1>8, PhaseParts DEF SameView, Released, HolderIn
<1>10. Loosened(S, T, m)
  BY <1>6, <1>8, <1>9, PhaseParts DEF Loosened
<1>11. ASSUME NEW k \in MessageRefs, k # m
       PROVE  SameView(S, T, k)
  <2>1. \A a \in AttemptRefs : S.attempts[a].msg = k => (Open(T, a) <=> Open(S, a))
    BY <1>1, <1>4, <1>11 DEF Open
  <2> QED BY <2>1, <1>2, <1>11, OthersStay
<1> QED BY <1>2, <1>7, <1>10, <1>11 DEF SpentIn, T

\* Reconciling loses items and does nothing else.
LEMMA ReconcileMoves ==
    ASSUME NEW S \in Store, Sound(S)
    PROVE  LET T == ReconcileStore(S)
           IN  SpentIn(T) = SpentIn(S) /\ \A m \in MessageRefs : Loosened(S, T, m)
<1> DEFINE T == ReconcileStore(S)
           expired == {m \in MessageRefs : LeaseRanOut(S, m)}
           owners == {S.messages[m].attempt : m \in expired}
<1>1. T \in Store
  BY ReconcileKept DEF Kept
<1>2. /\ T.attempts = [a \in AttemptRefs |->
            IF a \in owners THEN [S.attempts[a] EXCEPT !.state = "orphaned"] ELSE S.attempts[a]]
      /\ T.messages = [m \in MessageRefs |->
            IF m \in expired THEN [S.messages[m] EXCEPT !.state = "takeover_candidate"]
            ELSE S.messages[m]]
  BY DEF ReconcileStore, Store
<1>3. ASSUME NEW a \in owners
      PROVE  /\ a \in AttemptRefs /\ Exists(S, a)
             /\ S.attempts[a].msg \in expired
             /\ T.attempts[a].state = "orphaned"
  <2>1. PICK m \in expired : a = S.messages[m].attempt
    BY <1>3
  <2>2. a \in AttemptRefs /\ Exists(S, a) /\ S.attempts[a].msg = m
    BY <2>1, CurrentExists DEF LeaseRanOut
  <2>3. S.attempts[a] \in Attempt
    BY <2>2, StoreParts
  <2>4. T.attempts[a] = [S.attempts[a] EXCEPT !.state = "orphaned"]
    BY <1>2, <1>3, <2>2
  <2> HIDE DEF T, owners, expired
  <2> QED BY <2>1, <2>2, <2>3, <2>4 DEF Attempt
<1>4. \A a \in AttemptRefs : a \notin owners => T.attempts[a] = S.attempts[a]
  BY <1>2
<1>5. ASSUME NEW m \in expired
      PROVE  /\ T.messages[m].attempt = S.messages[m].attempt
             /\ T.messages[m].redelivery = S.messages[m].redelivery
             /\ T.messages[m].state = "takeover_candidate"
             /\ m \in MessageRefs /\ S.messages[m].state \in Working
  <2>1. m \in MessageRefs /\ S.messages[m].state \in Working
    BY <1>5 DEF LeaseRanOut, Working
  <2>2. S.messages[m] \in Message
    BY <2>1, StoreParts
  <2>3. T.messages[m] = [S.messages[m] EXCEPT !.state = "takeover_candidate"]
    BY <1>2, <1>5, <2>1
  <2> HIDE DEF T, owners, expired
  <2> QED BY <2>1, <2>2, <2>3 DEF Message
<1>6. \A m \in MessageRefs : m \notin expired => T.messages[m] = S.messages[m]
  BY <1>2
<1> HIDE DEF T, owners, expired
<1>7. SpentIn(T) = SpentIn(S)
  BY <1>3, <1>4 DEF SpentIn, Exists
<1>8. ASSUME NEW m \in expired
      PROVE  Loosened(S, T, m)
  <2>1. ~HeldIn(T, m) /\ PhaseIn(T, m) = "lost"
    BY <1>1, <1>5, PhaseParts DEF HeldIn, Working
  <2>2. Released(S, T, m, "lost")
    BY <2>1, <1>1, <1>5, ReleasedParts
  <2>3. HeldIn(S, m) => PhaseIn(S, m) = "held"
    BY <1>5, PhaseParts
  <2>4. ~HeldIn(S, m) => SameView(S, T, m)
    BY <2>1, <2>2, <1>5, PhaseParts DEF SameView, Released, HolderIn
  <2> QED BY <2>2, <2>3, <2>4 DEF Loosened
<1>9. ASSUME NEW m \in MessageRefs, m \notin expired
      PROVE  Loosened(S, T, m)
  <2>1. \A a \in AttemptRefs : S.attempts[a].msg = m => (Open(T, a) <=> Open(S, a))
    BY <1>3, <1>4, <1>9 DEF Open
  <2> QED BY <2>1, <1>1, <1>6, <1>9, OthersStay DEF Loosened
<1> QED BY <1>7, <1>8, <1>9 DEF T

\* The item of an available message was never granted, that of a message with
\* an attempt as often as it was delivered.
LEMMA GrantsParts ==
    ASSUME NEW S \in Store, Sound(S), Owned(S), NEW m \in MessageRefs
    PROVE  /\ S.messages[m].state = "available" =>
                 S.messages[m].redelivery = 0 /\ GrantsIn(S, m) = 0
           /\ HasCurrentAttempt(S, m) =>
                 /\ GrantsIn(S, m) = S.messages[m].redelivery + 1
                 /\ S.messages[m].redelivery + 1 \in Nat
                 /\ ~OutOfRedeliveries(S, m) => GrantsIn(S, m) <= MaxRedelivery
<1>1. S.messages[m].redelivery \in Nat /\ MaxRedelivery \in Nat
  BY StoreParts, StoreAssumption DEF Message
<1>2. S.messages[m].state = "available" => ~HasCurrentAttempt(S, m)
  BY DEF Sound, RecordSound, RecordStateBacked, HasCurrentAttempt
<1>3. ~OutOfRedeliveries(S, m) => S.messages[m].redelivery + 1 <= MaxRedelivery
  BY <1>1 DEF OutOfRedeliveries
<1> QED BY <1>1, <1>2, <1>3 DEF Owned, GrantsIn

\* One operation moved one item, or none.
MovedOne(S, T) ==
    \A k \in MessageRefs : SameView(S, T, k) \/ GrantedAnew(S, T, k) \/ Buried(S, T, k)

\* A claim-next of an eligible message grants its item or buries it.
LEMMA ClaimNextMoves ==
    ASSUME NEW S \in Store, Sound(S), Owned(S),
           NEW m \in MessageRefs, NEW e \in Endpoints, NEW a \in AttemptRefs,
           S.messages[m].state \in {"available", "takeover_candidate"},
           Grants(S, m) => ~Exists(S, a)
    PROVE  MovedOne(S, ClaimNextStore(S, m, e, a))
<1>1. S.messages[m].redelivery \in Nat /\ MaxRedelivery \in Nat /\ 0 <= MaxRedelivery
  BY StoreParts, StoreAssumption DEF Message
<1>2. CASE S.messages[m].state = "available"
  <2>1. PhaseIn(S, m) = "ready" /\ S.messages[m].redelivery = 0 /\ GrantsIn(S, m) = 0
    BY <1>2, GrantsParts, PhaseParts
  <2>2. ClaimNextStore(S, m, e, a) = ClaimAt(S, m, e, a, S.messages[m].redelivery)
    BY <1>2 DEF ClaimNextStore, ClaimAvailableMessage
  <2>3. ~Exists(S, a)
    BY <1>2 DEF Grants
  <2> QED BY <1>1, <2>1, <2>2, <2>3, ClaimAtMoves DEF MovedOne
<1>3. CASE S.messages[m].state = "takeover_candidate"
  <2>1. HasCurrentAttempt(S, m) /\ PhaseIn(S, m) = "lost"
    BY <1>3, StoreParts, PhaseParts
       DEF HasCurrentAttempt, Sound, RecordSound, RecordStateBacked
  <2>2. CASE OutOfRedeliveries(S, m)
    BY <1>3, <2>1, <2>2, DeadLetterMoves DEF ClaimNextStore, MovedOne
  <2>3. CASE ~OutOfRedeliveries(S, m)
    <3>1. /\ ~Exists(S, a)
          /\ ClaimNextStore(S, m, e, a) = ClaimAt(S, m, e, a, S.messages[m].redelivery + 1)
      BY <1>3, <2>1, <2>3 DEF Grants, IsTakeoverCandidate, ClaimNextStore, TakeoverMessage
    <3>2. /\ GrantsIn(S, m) = S.messages[m].redelivery + 1
          /\ S.messages[m].redelivery + 1 \in Nat /\ GrantsIn(S, m) <= MaxRedelivery
      BY <2>1, <2>3, GrantsParts
    <3> QED BY <2>1, <3>1, <3>2, ClaimAtMoves DEF MovedOne
  <2> QED BY <2>2, <2>3
<1> QED BY <1>2, <1>3

\* So does a claim of a message by its ref, after losing what it takes.
LEMMA ClaimMessageMoves ==
    ASSUME NEW S \in Store, Sound(S), Owned(S),
           NEW m \in MessageRefs, NEW e \in Endpoints, NEW a \in AttemptRefs,
           Grants(S, m) => ~Exists(S, a), ClaimMessageStore(S, m, e, a) \in Store
    PROVE  \A k \in MessageRefs : Move(S, ClaimMessageStore(S, m, e, a), k)
<1> DEFINE T == ClaimMessageStore(S, m, e, a)
<1>1. CASE S.messages[m].state = "available" \/ IsTakeoverCandidate(S, m)
  <2>1. S.messages[m].state \in {"available", "takeover_candidate"}
    BY <1>1 DEF IsTakeoverCandidate
  <2>2. T = ClaimNextStore(S, m, e, a)
    BY <1>1 DEF ClaimMessageStore, ClaimNextStore, IsTakeoverCandidate
  <2>3. MovedOne(S, T)
    BY <2>1, <2>2, ClaimNextMoves
  <2> QED BY <2>3 DEF MovedOne, Move
<1>2. CASE ~(\/ S.messages[m].state = "available" \/ IsTakeoverCandidate(S, m)
             \/ LeaseRanOut(S, m))
  BY <1>2 DEF ClaimMessageStore, Move, SameView
<1>3. CASE LeaseRanOut(S, m) /\ OutOfRedeliveries(S, m)
  <2>1. HasCurrentAttempt(S, m) /\ PhaseIn(S, m) \in {"held", "lost"}
    BY <1>3, PhaseParts DEF LeaseRanOut, Working
  <2>2. T = DeadLetterMessage(S, m)
    BY <1>3 DEF ClaimMessageStore, LeaseRanOut
  <2> QED BY <1>3, <2>1, <2>2, DeadLetterMoves DEF Move
<1>4. CASE LeaseRanOut(S, m) /\ ~OutOfRedeliveries(S, m)
  <2> DEFINE R == OrphanCurrent(S, m)
             n == R.messages[m].redelivery + 1
  <2>1. HasCurrentAttempt(S, m)
    BY <1>4 DEF LeaseRanOut
  <2>2. /\ R \in Store /\ Sound(R) /\ R.messages = S.messages /\ ~Exists(R, a)
    BY <1>4, <2>1, OrphanCurrentKept DEF Grants, Kept
  <2>3. /\ Loosened(S, R, m) /\ PhaseIn(R, m) = "lost" /\ SpentIn(R) = SpentIn(S)
        /\ \A k \in MessageRefs : k # m => SameView(S, R, k)
    BY <1>4, OrphanCurrentMoves
  <2>4. T = ClaimAt(R, m, e, a, n)
    BY <1>4 DEF ClaimMessageStore, LeaseRanOut, IsTakeoverCandidate, TakeoverMessage
  <2> HIDE DEF R, T
  <2>5. n = GrantsIn(R, m) /\ n \in Nat /\ n <= MaxRedelivery
    BY <1>4, <2>1, <2>2, GrantsParts DEF GrantsIn, HasCurrentAttempt, OutOfRedeliveries
  <2> HIDE DEF n
  <2>6. GrantedAnew(R, T, m) /\ \A k \in MessageRefs : k # m => SameView(R, T, k)
    BY <2>2, <2>3, <2>4, <2>5, ClaimAtMoves
  <2>7. T \in Store
    BY DEF T
  <2>8. Move(S, T, m)
    BY <2>2, <2>3, <2>6, <2>7, MoveLoosened
  <2>9. \A k \in MessageRefs : k # m => Move(S, T, k)
    BY <2>2, <2>3, <2>6, <2>7, MoveLoosened DEF Loosened
  <2> QED BY <2>8, <2>9 DEF T
<1> QED BY <1>1, <1>2, <1>3, <1>4

\* A report keeps an item, finishes it, parks it or gives it up.
LEMMA CheckpointMoves ==
    ASSUME NEW S \in Store, Sound(S), Owned(S), NEW a \in AttemptRefs, Open(S, a),
           NEW s \in CheckpointState
    PROVE  \A k \in MessageRefs : Move(S, CheckpointStore(S, a, s), k)
<1> DEFINE T == CheckpointStore(S, a, s)
           m == S.attempts[a].msg
<1>1. Exists(S, a)
  BY DEF Open, Exists
<1>2. /\ T \in Store /\ m \in MessageRefs
      /\ T.attempts[a].state = s
      /\ \A b \in AttemptRefs : b # a => T.attempts[b] = S.attempts[b]
      /\ T.messages[m].state = MessageStateAfter(s, S.messages[m].state)
      /\ T.messages[m].attempt = S.messages[m].attempt
      /\ T.messages[m].redelivery = S.messages[m].redelivery
      /\ \A n \in MessageRefs : n # m => T.messages[n] = S.messages[n]
  BY <1>1, CheckpointParts
<1>3. S.messages[m].attempt = a /\ S.messages[m].state \in Working
  BY DEF Owned
<1>4. HasCurrentAttempt(S, m) /\ HasCurrentAttempt(T, m)
  BY <1>2, <1>3, StoreAssumption DEF HasCurrentAttempt
<1>5. HeldIn(S, m) /\ PhaseIn(S, m) = "held"
  BY <1>2, <1>3, <1>4, PhaseParts DEF HeldIn
<1> HIDE DEF T
<1>6. ASSUME NEW k \in MessageRefs, k # m
      PROVE  Move(S, T, k)
  <2>1. \A b \in AttemptRefs : S.attempts[b].msg = k => (Open(T, b) <=> Open(S, b))
    BY <1>2, <1>6 DEF Open
  <2> QED BY <2>1, <1>2, <1>6, OthersStay DEF Move
<1>7. Move(S, T, m)
  <2> HIDE DEF m
  <2>1. CASE s \in {"completed", "failed"}
    <3>1. T.messages[m].state = s
      BY <1>2, <2>1 DEF MessageStateAfter
    <3>2. ~HeldIn(T, m)
      BY <2>1, <3>1 DEF HeldIn, Working
    <3>3. Released(S, T, m, PhaseIn(T, m))
      BY <1>2, <3>2, ReleasedParts
    <3>4. PhaseIn(T, m) = IF s = "completed" THEN "done" ELSE "parked"
      BY <1>2, <2>1, <3>1, PhaseParts
    <3> QED BY <1>5, <3>3, <3>4 DEF Move
  <2>2. CASE s = "canceled"
    <3>1. T.messages[m].state \in Working
      BY <1>2, <1>3, <2>2 DEF MessageStateAfter
    <3>2. ~HeldIn(T, m)
      BY <1>2, <1>3, <2>2 DEF HeldIn, Open, ClosedState
    <3>3. Released(S, T, m, PhaseIn(T, m))
      BY <1>2, <3>2, ReleasedParts
    <3>4. PhaseIn(T, m) = "lost"
      BY <1>2, <3>1, <3>2, PhaseParts
    <3> QED BY <1>5, <3>3, <3>4 DEF Move
  <2>3. CASE s \notin {"completed", "failed", "canceled"}
    <3>1. T.messages[m].state \in Working
      BY <1>2, <1>3, <2>3 DEF MessageStateAfter, Working
    <3>2. Open(T, a)
      BY <1>2, <2>3 DEF Open, ClosedState, CheckpointState, AttemptState
    <3>3. HeldIn(T, m)
      BY <1>2, <1>3, <1>4, <3>1, <3>2 DEF HeldIn
    <3>4. PhaseIn(T, m) = "held"
      BY <1>2, <3>1, <3>3, PhaseParts
    <3>5. SameView(S, T, m)
      BY <1>2, <1>4, <1>5, <3>3, <3>4 DEF SameView, HolderIn, GrantsIn
    <3> QED BY <3>5 DEF Move
  <2> QED BY <2>1, <2>2, <2>3
<1> QED BY <1>6, <1>7 DEF T

\* New messages are submitted items.
LEMMA ArrivalsMove ==
    ASSUME NEW S \in Store, NEW T \in Store, Sound(S),
           T.attempts = S.attempts, NEW m \in MessageRefs,
           \/ T.messages[m] = S.messages[m]
           \/ /\ ~Saved(S, m)
              /\ T.messages[m] = [AbsentMessage EXCEPT !.state = "available"]
    PROVE  SameView(S, T, m) \/ Submitted(S, T, m)
<1>1. CASE T.messages[m] = S.messages[m]
  BY <1>1, ViewStays DEF Open
<1>2. CASE ~Saved(S, m) /\ T.messages[m] = [AbsentMessage EXCEPT !.state = "available"]
  <2>1. T.messages[m].state = "available" /\ T.messages[m].attempt = NoAttempt
    BY <1>2 DEF AbsentMessage
  <2>2. PhaseIn(S, m) = "absent" /\ PhaseIn(T, m) = "ready"
    BY <1>2, <2>1, PhaseParts DEF Saved
  <2> QED BY <2>1, <2>2 DEF Submitted, HolderIn, GrantsIn, HeldIn, HasCurrentAttempt
<1> QED BY <1>1, <1>2

-----------------------------------------------------------------------------
(* The actions, where no operator retries.                                 *)

\* A claim-next loses items as it reconciles, then grants or buries one.
LEMMA ClaimNextMessageMoves ==
    ASSUME OwnershipInv, store' \in Store, NEW e \in Endpoints, NEW m \in MessageRefs,
           NEW a \in AttemptRefs, ClaimNextMessage(e, m, a)
    PROVE  \A k \in MessageRefs : Move(store, store', k)
<1> DEFINE R == ReconcileStore(store)
<1>1. store \in Store /\ Sound(store) /\ Owned(store)
  BY DEF OwnershipInv, Inv, TypeOK
<1>2. /\ R \in Store /\ Sound(R) /\ Owned(R)
      /\ SpentIn(R) = SpentIn(store) /\ \A k \in MessageRefs : Loosened(store, R, k)
  BY <1>1, ReconcileKept, ReconcileSettled, ReconcileMoves DEF Kept, Settled
<1>3. /\ NextFor(R, m, e) /\ store' = ClaimNextStore(R, m, e, a)
      /\ Grants(R, m) => ~Exists(R, a)
  BY DEF ClaimNextMessage
<1> HIDE DEF R
<1>4. R.messages[m].state \in {"available", "takeover_candidate"}
  BY <1>3 DEF NextFor, IsNext, IsFirst, Eligible
<1>5. MovedOne(R, store')
  BY <1>2, <1>3, <1>4, ClaimNextMoves
<1> QED BY <1>1, <1>2, <1>5, MoveLoosened DEF MovedOne

\* A completion finishes one item and submits what follows it.
LEMMA CompleteMoves ==
    ASSUME OwnershipInv, store' \in Store, NEW a \in AttemptRefs, NEW follow \in FollowUps,
           CompleteAttempt(a, follow)
    PROVE  \A k \in MessageRefs : Move(store, store', k)
<1> DEFINE S == CheckpointStore(store, a, "completed")
<1>1. /\ store \in Store /\ Sound(store) /\ Owned(store)
      /\ Open(store, a) /\ Exists(store, a)
  BY DEF OwnershipInv, Inv, TypeOK, CompleteAttempt, Live, Open, Exists
<1>2. "completed" \in CheckpointState
  BY DEF CheckpointState, AttemptState
<1>3. /\ S \in Store /\ Sound(S)
      /\ \A n \in MessageRefs : Saved(S, n) <=> Saved(store, n)
      /\ \A n \in MessageRefs : Move(store, S, n)
  BY <1>1, <1>2, CheckpointMoves, CheckpointStoreKept DEF Kept
<1>4. /\ store'.attempts = S.attempts
      /\ store'.messages = [n \in MessageRefs |->
            IF n \in DOMAIN follow THEN [AbsentMessage EXCEPT !.state = "available"]
            ELSE S.messages[n]]
      /\ \A n \in DOMAIN follow : ~Saved(store, n)
  BY <1>3 DEF CompleteAttempt, Store
<1> HIDE DEF S
<1>5. SpentIn(store') = SpentIn(S)
  BY <1>4 DEF SpentIn, Exists
<1>6. ASSUME NEW k \in MessageRefs
      PROVE  Move(store, store', k)
  <2>1. SameView(S, store', k) \/ Submitted(S, store', k)
    BY <1>3, <1>4, ArrivalsMove
  <2>2. CASE SameView(S, store', k)
    BY <1>3, <1>5, <2>2 DEF Move, SameView, Submitted, GrantedAnew, Released, Buried
  <2>3. CASE Submitted(S, store', k)
    <3>1. PhaseIn(store, k) = "absent"
      BY <1>1, <1>3, <2>3, PhaseParts DEF Submitted, Saved
    <3> QED BY <2>3, <3>1 DEF Move, Submitted
  <2> QED BY <2>1, <2>2, <2>3
<1> QED BY <1>6

\* A canceled message is parked, whoever held it.
LEMMA CancelMoves ==
    ASSUME OwnershipInv, store' \in Store, NEW t \in Tasks, CancelTask(t)
    PROVE  \A k \in MessageRefs : Move(store, store', k)
<1> DEFINE dropped == {a \in AttemptRefs : Open(store, a)
                          /\ \E m \in ToCancel(t) : store.messages[m].attempt = a}
<1>1. store \in Store /\ Sound(store)
  BY DEF OwnershipInv, Inv, TypeOK
<1>2. /\ store'.attempts = [a \in AttemptRefs |->
            IF a \in dropped THEN [store.attempts[a] EXCEPT !.state = "canceled"]
            ELSE store.attempts[a]]
      /\ store'.messages = [m \in MessageRefs |->
            IF m \in ToCancel(t) THEN [store.messages[m] EXCEPT !.state = "canceled"]
            ELSE store.messages[m]]
  BY <1>1 DEF CancelTask, Store
<1>3. ASSUME NEW a \in dropped
      PROVE  store.attempts[a].msg \in ToCancel(t)
  <2>1. PICK m \in ToCancel(t) : store.messages[m].attempt = a
    OBVIOUS
  <2>2. m \in MessageRefs /\ HasCurrentAttempt(store, m)
    BY <2>1, StoreAssumption DEF ToCancel, HasCurrentAttempt
  <2> QED BY <1>1, <2>1, <2>2, CurrentExists
<1>4. \A a \in AttemptRefs : a \notin dropped => store'.attempts[a] = store.attempts[a]
  BY <1>2
<1>5. ASSUME NEW m \in ToCancel(t)
      PROVE  /\ m \in MessageRefs /\ store.messages[m].state \notin {"absent", "completed"}
             /\ store'.messages[m].state = "canceled"
             /\ store'.messages[m].attempt = store.messages[m].attempt
             /\ store'.messages[m].redelivery = store.messages[m].redelivery
  BY <1>1, <1>2, <1>5, StoreParts DEF Message, ToCancel, OfTask, Saved
<1>6. \A m \in MessageRefs : m \notin ToCancel(t) => store'.messages[m] = store.messages[m]
  BY <1>2
<1> HIDE DEF dropped
<1>7. ASSUME NEW m \in ToCancel(t)
      PROVE  Move(store, store', m)
  <2>1. ~HeldIn(store', m) /\ PhaseIn(store', m) = "parked"
    BY <1>5, PhaseParts DEF HeldIn, Working
  <2>2. Released(store, store', m, PhaseIn(store', m))
    BY <1>1, <1>5, <2>1, ReleasedParts
  <2>3. PhaseIn(store, m) \notin {"absent", "done"}
    BY <1>1, <1>5, PhaseParts
  <2> QED BY <2>1, <2>2, <2>3 DEF Move
<1>8. ASSUME NEW m \in MessageRefs, m \notin ToCancel(t)
      PROVE  Move(store, store', m)
  <2>1. \A a \in AttemptRefs :
          store.attempts[a].msg = m => (Open(store', a) <=> Open(store, a))
    BY <1>3, <1>4, <1>8 DEF Open
  <2> QED BY <2>1, <1>1, <1>6, <1>8, OthersStay DEF Move
<1> QED BY <1>7, <1>8

\* Every step but a retry moves each item as the queue allows.
LEMMA NextMoves ==
    ASSUME "retry" \notin Commands, OwnershipInv, store' \in Store, [Next]_vars
    PROVE  \A k \in MessageRefs : Move(store, store', k)
<1>1. store \in Store /\ Sound(store) /\ Owned(store)
  BY DEF OwnershipInv, Inv, TypeOK
<1>2. CASE UNCHANGED store
  BY <1>2 DEF Move, SameView
<1>3. ASSUME NEW m \in MessageRefs, NEW r \in Request, IngressMessage(m, r)
      PROVE  \A k \in MessageRefs : Move(store, store', k)
  <2>1. /\ store'.attempts = store.attempts /\ ~Saved(store, m)
        /\ store'.messages =
              [store.messages EXCEPT ![m] = [AbsentMessage EXCEPT !.state = "available"]]
    BY <1>1, <1>3 DEF IngressMessage, SaveMessage, Store
  <2>2. \A n \in MessageRefs :
          \/ store'.messages[n] = store.messages[n]
          \/ /\ ~Saved(store, n)
             /\ store'.messages[n] = [AbsentMessage EXCEPT !.state = "available"]
    BY <1>1, <2>1, StoreParts
  <2> QED BY <1>1, <2>1, <2>2, ArrivalsMove DEF Move
<1>4. CASE WorkerNext
  <2>1. ASSUME NEW e \in Endpoints, NEW m \in MessageRefs, NEW a \in AttemptRefs,
               ClaimMessage(e, m, a) \/ ClaimNextMessage(e, m, a)
        PROVE  \A k \in MessageRefs : Move(store, store', k)
    BY <1>1, <2>1, ClaimMessageMoves, ClaimNextMessageMoves DEF ClaimMessage
  <2>2. ASSUME NEW e \in Endpoints, ClaimNothing(e)
        PROVE  \A k \in MessageRefs : Move(store, store', k)
    BY <1>1, <2>2, ReconcileMoves DEF ClaimNothing, Loosened, Move
  <2>3. ASSUME NEW a \in AttemptRefs, NEW report \in Reports, SubmitCheckpoint(a, report)
        PROVE  \A k \in MessageRefs : Move(store, store', k)
    <3>1. report \in CheckpointState
      BY HandoffAssumption
    <3> QED BY <1>1, <2>3, <3>1, CheckpointMoves DEF SubmitCheckpoint, Live
  <2>4. ASSUME NEW a \in AttemptRefs, RefreshLease(a)
        PROVE  \A k \in MessageRefs : Move(store, store', k)
    <3>1. /\ store'.messages = store.messages
          /\ store'.attempts =
                [store.attempts EXCEPT ![a] = [store.attempts[a] EXCEPT !.lease = LeaseTicks]]
      BY <1>1, <2>4 DEF RefreshLease, UpdateAttempt, Store
    <3>2. \A b \in AttemptRefs : store'.attempts[b].state = store.attempts[b].state
      BY <1>1, <3>1, StoreParts DEF Attempt
    <3> QED BY <1>1, <3>1, <3>2, OthersStay DEF Move, Open
  <2>5. ASSUME NEW a \in AttemptRefs, NEW follow \in FollowUps, CompleteAttempt(a, follow)
        PROVE  \A k \in MessageRefs : Move(store, store', k)
    BY <2>5, CompleteMoves
  <2> QED BY <1>4, <2>1, <2>2, <2>3, <2>4, <2>5 DEF WorkerNext
<1>5. CASE OperatorNext
  <2>1. ASSUME NEW t \in Tasks, CancelTask(t)
        PROVE  \A k \in MessageRefs : Move(store, store', k)
    BY <2>1, CancelMoves
  <2>2. ASSUME NEW d \in store.deadLetters, NEW m \in MessageRefs, ReplayDeadLetter(d, m)
        PROVE  \A k \in MessageRefs : Move(store, store', k)
    <3>1. d.msg \in MessageRefs
      BY <1>1, StoreParts DEF DeadLetter
    <3>2. store.requests[d.msg] \in Request
      BY <1>1, <3>1 DEF Sound
    <3> QED BY <2>2, <3>2, <1>3 DEF ReplayDeadLetter
  <2> QED BY <1>5, <2>1, <2>2 DEF OperatorNext, RetryTask
<1>6. CASE ReconcileExpiredClaims
  BY <1>1, <1>6, ReconcileMoves DEF ReconcileExpiredClaims, Loosened, Move
<1>7. CASE Tick
  <2>1. /\ store'.messages = store.messages
        /\ store'.attempts = [a \in AttemptRefs |->
              [store.attempts[a] EXCEPT !.lease = Elapse(store.attempts[a].lease)]]
    BY <1>1, <1>7 DEF Tick, TickStore, Store
  <2>2. \A b \in AttemptRefs : store'.attempts[b].state = store.attempts[b].state
    BY <1>1, <2>1, StoreParts DEF Attempt
  <2> QED BY <1>1, <2>1, <2>2, OthersStay DEF Move, Open
<1>8. Requests \subseteq Request
  BY HandoffAssumption
<1> QED BY <1>2, <1>3, <1>4, <1>5, <1>6, <1>7, <1>8 DEF Next, vars

-----------------------------------------------------------------------------
(* The mapping of HandoffRefinement.                                       *)

\* Its state functions are the views of the ledger, before and after a step.
LEMMA MappedView ==
    /\ \A m \in MessageRefs :
          /\ Held(m) <=> HeldIn(store, m)
          /\ PhaseOf(m) = PhaseIn(store, m)
    /\ \A m \in MessageRefs :
          /\ Held(m)' <=> HeldIn(store', m)
          /\ PhaseOf(m)' = PhaseIn(store', m)
<1>1. \A m \in MessageRefs : Held(m) <=> HeldIn(store, m)
  BY DEF Held, HeldIn, Working
<1>2. \A m \in MessageRefs : Held(m)' <=> HeldIn(store', m)
  BY DEF Held, HeldIn, Working, HasCurrentAttempt, Open
<1>3. \A m \in MessageRefs : PhaseOf(m) = PhaseIn(store, m)
  BY <1>1 DEF PhaseOf, PhaseIn
<1>4. \A m \in MessageRefs : PhaseOf(m)' = PhaseIn(store', m)
  BY <1>2 DEF PhaseOf, PhaseIn
<1> QED BY <1>1, <1>2, <1>3, <1>4

\* The empty ledger is the empty queue.
LEMMA InitRefines == Init => Queue!Init
<1> SUFFICES ASSUME Init PROVE Queue!Init
  OBVIOUS
<1>1. /\ \A m \in MessageRefs : /\ store.messages[m].state = "absent"
                                /\ store.messages[m].attempt = NoAttempt
      /\ \A a \in AttemptRefs : ~Exists(store, a)
  BY DEF Init, EmptyStore, AbsentMessage, AbsentAttempt, Exists
<1>2. \A m \in MessageRefs : PhaseOf(m) = "absent" /\ ~Held(m) /\ ~HasCurrentAttempt(store, m)
  BY <1>1 DEF PhaseOf, Held, HasCurrentAttempt
<1> QED BY <1>1, <1>2 DEF Queue!Init

\* Every step of the ledger is a step of the queue.
LEMMA NextRefines ==
    ASSUME "retry" \notin Commands, OwnershipInv, OwnershipInv', [Next]_vars
    PROVE  [Queue!Next]_Queue!vars
<1>1. store' \in Store /\ Sound(store') /\ Grows(store, store')
  BY StoreNext DEF OwnershipInv, Inv, TypeOK, Kept
<1>2. \A i \in MessageRefs : Move(store, store', i)
  BY <1>1, NextMoves
<1>3. SpentIn(store) \subseteq SpentIn(store')
  BY <1>1 DEF Grows, SpentIn
<1>4. ASSUME NEW i \in MessageRefs, NEW j \in MessageRefs, i # j,
             HolderIn(store', i) # NoAttempt
      PROVE  HolderIn(store', i) # HolderIn(store', j)
  <2>1. HasCurrentAttempt(store', i) /\ HolderIn(store', i) = store'.messages[i].attempt
    BY <1>4 DEF HolderIn, HeldIn
  <2>2. store'.attempts[store'.messages[i].attempt].msg = i
    BY <1>1, <2>1, CurrentExists
  <2>3. CASE HolderIn(store', j) = NoAttempt
    BY <1>4, <2>3
  <2>4. CASE HolderIn(store', j) # NoAttempt
    <3>1. HasCurrentAttempt(store', j) /\ HolderIn(store', j) = store'.messages[j].attempt
      BY <2>4 DEF HolderIn, HeldIn
    <3>2. store'.attempts[store'.messages[j].attempt].msg = j
      BY <1>1, <3>1, CurrentExists
    <3> QED BY <2>1, <2>2, <3>1, <3>2, <1>4
  <2> QED BY <2>3, <2>4
<1> QED BY <1>2, <1>3, <1>4, MappedView
        DEF Queue!Next, Queue!vars, Queue!Submit, Queue!Grant, Queue!Lose, Queue!Finish,
            Queue!Park, Queue!Bury, Queue!Keep, Move, SameView, Submitted, GrantedAnew,
            Released, Buried, HolderIn, GrantsIn, SpentIn, HasCurrentAttempt, Exists

\* The ledger implements the work queue: each message is held by at most one
\* attempt at a time, granted a bounded number of times, and lost, finished,
\* parked and buried only as WorkQueue says.
THEOREM LedgerIsWorkQueue ==
    ASSUME "retry" \notin Commands
    PROVE  Spec => ImplementsWorkQueue
<1>1. OwnershipInv /\ OwnershipInv' /\ [Next]_vars => [Queue!Next]_Queue!vars
  BY NextRefines
<1> QED BY <1>1, InitRefines, OwnershipHolds, PTL DEF Spec, ImplementsWorkQueue, Queue!Spec

-----------------------------------------------------------------------------
(* The SQL store.                                                          *)

\* Two functions that both get what they are of a set from what they are of the
\* set without one of its elements are the same on a finite set: induction over
\* its subsets, as the choice of a smallest counterexample.
LEMMA FoldIsUnique ==
    ASSUME NEW Q, IsFiniteSet(Q), NEW f, NEW g,
           f[{}] = g[{}],
           \A s \in SUBSET Q : s # {} =>
               \E x \in s : f[s \ {x}] = g[s \ {x}] => f[s] = g[s]
    PROVE  f[Q] = g[Q]
<1> DEFINE Wrong == {s \in SUBSET Q : f[s] # g[s]}
<1>1. SUFFICES ASSUME Wrong # {} PROVE FALSE
  OBVIOUS
<1>2. IsWellFoundedOn(StrictSubsetOrdering(Q), SUBSET Q)
  BY FS_StrictSubsetOrderingWellFounded, FS_FiniteSubsetsOfFinite
<1>3. PICK s \in Wrong : \A r \in Wrong : <<r, s>> \notin StrictSubsetOrdering(Q)
  <2>1. Wrong \subseteq SUBSET Q
    OBVIOUS
  <2> HIDE DEF Wrong
  <2> QED BY <1>1, <1>2, <2>1, WFMin
<1>4. PICK x \in s : f[s \ {x}] = g[s \ {x}] => f[s] = g[s]
  OBVIOUS
<1>5. s \ {x} \in Wrong
  BY <1>4
<1>6. <<s \ {x}, s>> \in StrictSubsetOrdering(Q)
  BY <1>4 DEF StrictSubsetOrdering
<1> QED BY <1>3, <1>5, <1>6

\* What the SQL of a reconcile makes of the ledger once it went through rows.
ReconciledRows(S, rows) ==
    [S EXCEPT
       !.attempts = [a \in AttemptRefs |->
           IF \E m \in rows : LeaseRanOut(S, m) /\ S.messages[m].attempt = a
           THEN [@[a] EXCEPT !.state = "orphaned"] ELSE @[a]],
       !.messages = [m \in MessageRefs |->
           IF m \in rows /\ LeaseRanOut(S, m)
           THEN [@[m] EXCEPT !.state = "takeover_candidate"] ELSE @[m]]]

ClaimRows(S) == {m \in MessageRefs : S.messages[m].state \in {"claimed", "processing"}}

\* The transaction of one row more.
LEMMA RowReconciled ==
    ASSUME NEW S \in Store, Sound(S), NEW rows \in SUBSET ClaimRows(S), NEW m \in rows
    PROVE  ReconcileRow(m, ReconciledRows(S, rows \ {m})) = ReconciledRows(S, rows)
<1> DEFINE R == ReconciledRows(S, rows \ {m})
           T == ReconciledRows(S, rows)
           cur == S.messages[m].attempt
<1>1. m \in MessageRefs /\ S.messages[m].state \in {"claimed", "processing"}
  BY DEF ClaimRows
<1>2. /\ R \in [requests : {S.requests}, messages : {R.messages}, attempts : {R.attempts},
                checkpoints : {S.checkpoints}, deadLetters : {S.deadLetters}]
      /\ R.attempts = [a \in AttemptRefs |->
            IF \E k \in rows \ {m} : LeaseRanOut(S, k) /\ S.messages[k].attempt = a
            THEN [S.attempts[a] EXCEPT !.state = "orphaned"] ELSE S.attempts[a]]
      /\ R.messages = [k \in MessageRefs |->
            IF k \in rows \ {m} /\ LeaseRanOut(S, k)
            THEN [S.messages[k] EXCEPT !.state = "takeover_candidate"] ELSE S.messages[k]]
  BY DEF ReconciledRows, Store
<1>3. /\ T.requests = S.requests /\ T.checkpoints = S.checkpoints /\ T.deadLetters = S.deadLetters
      /\ T \in [requests : {S.requests}, messages : {T.messages}, attempts : {T.attempts},
                checkpoints : {S.checkpoints}, deadLetters : {S.deadLetters}]
      /\ T.attempts = [a \in AttemptRefs |->
            IF \E k \in rows : LeaseRanOut(S, k) /\ S.messages[k].attempt = a
            THEN [S.attempts[a] EXCEPT !.state = "orphaned"] ELSE S.attempts[a]]
      /\ T.messages = [k \in MessageRefs |->
            IF k \in rows /\ LeaseRanOut(S, k)
            THEN [S.messages[k] EXCEPT !.state = "takeover_candidate"] ELSE S.messages[k]]
  BY DEF ReconciledRows, Store
<1> HIDE DEF R, T
<1>4. R.messages[m] = S.messages[m]
  BY <1>1, <1>2
<1>5. cur \in AttemptRefs => /\ R.attempts[cur].lease = S.attempts[cur].lease
                             /\ Exists(R, cur) <=> Exists(S, cur)
  <2>1. ASSUME NEW k \in rows, LeaseRanOut(S, k)
        PROVE  Exists(S, S.messages[k].attempt)
    BY <2>1, CurrentExists DEF LeaseRanOut, ClaimRows
  <2> QED BY <1>2, <2>1, StoreParts DEF Attempt, Exists
<1>6. cur \in AttemptRefs =>
        [R.attempts[cur] EXCEPT !.state = "orphaned"] = [S.attempts[cur] EXCEPT !.state = "orphaned"]
  BY <1>2, StoreParts DEF Attempt
<1>7. CASE LeaseRanOut(S, m)
  <2>1. cur \in AttemptRefs /\ Exists(S, cur) /\ ~(S.attempts[cur].lease >= 0)
    BY <1>1, <1>7, CurrentExists DEF LeaseRanOut, Expired
  <2>2. ReconcileRow(m, R) =
          UpdateMessage(UpdateAttempt(R, cur, [S.attempts[cur] EXCEPT !.state = "orphaned"]),
                        m, [S.messages[m] EXCEPT !.state = "takeover_candidate"])
    BY <1>4, <1>5, <1>6, <2>1 DEF ReconcileRow, AttemptRow
  <2>3. T.attempts = [R.attempts EXCEPT ![cur] = [S.attempts[cur] EXCEPT !.state = "orphaned"]]
    BY <1>2, <1>3, <1>7, <2>1
  <2>4. T.messages = [R.messages EXCEPT ![m] = [S.messages[m] EXCEPT !.state = "takeover_candidate"]]
    BY <1>1, <1>2, <1>3, <1>7
  <2>5. T = [R EXCEPT !.attempts = T.attempts, !.messages = T.messages]
    BY <1>2, <1>3
  <2> QED BY <2>2, <2>3, <2>4, <2>5 DEF UpdateMessage, UpdateAttempt, R, T
<1>8. CASE ~LeaseRanOut(S, m)
  <2>1. cur \in AttemptRefs => HasCurrentAttempt(S, m)
    BY RefsDiffer DEF HasCurrentAttempt
  <2>2. cur \in AttemptRefs => S.attempts[cur].lease \in Countdown(LeaseTicks)
    BY StoreParts DEF Attempt
  <2>3. cur \in AttemptRefs => S.attempts[cur].lease >= 0
    BY <1>1, <1>8, <2>1, <2>2, StoreAssumption DEF LeaseRanOut, Countdown, Expired
  <2>4. ReconcileRow(m, R) = R
    BY <1>4, <1>5, <2>3 DEF ReconcileRow, AttemptRow
  <2>5. T.attempts = R.attempts /\ T.messages = R.messages
    BY <1>2, <1>3, <1>8
  <2>6. T = R
    BY <1>2, <1>3, <2>5
  <2> QED BY <2>4, <2>6 DEF R, T
<1> QED BY <1>7, <1>8

\* The loop over the rows, in whatever order, comes to what the pass over the
\* map does at once.
LEMMA ReconcilesAgree ==
    ASSUME NEW S \in Store, Sound(S), IsFiniteSet(MessageRefs)
    PROVE  ReconcileTx(S) = ReconcileStore(S)
<1> DEFINE Q == ClaimRows(S)
           pick(s) == CHOOSE x \in s : TRUE
           After(f) == [s \in SUBSET Q |->
               IF s = {} THEN S ELSE ReconcileRow(pick(s), f[s \ {pick(s)}])]
           f == CHOOSE h : h = After(h)
           g == [s \in SUBSET Q |-> ReconciledRows(S, s)]
<1>1. IsFiniteSet(Q)
  BY FS_Subset DEF ClaimRows
<1>2. ReconcileTx(S) = f[Q]
  BY DEF ReconcileTx, FoldSet, MapThenFoldSet, ClaimRows
<1>3. g[{}] = S
  BY DEF ReconciledRows, Store
<1>4. \A s \in SUBSET Q : s # {} => pick(s) \in s
  OBVIOUS
<1>5. \A s \in SUBSET Q : s # {} => g[s] = ReconcileRow(pick(s), g[s \ {pick(s)}])
  BY <1>4, RowReconciled
<1>6. g = After(g)
  BY <1>3, <1>5
<1>7. f = After(f)
  <2> HIDE DEF g
  <2> QED BY <1>6
<1> HIDE DEF f, g
<1>8. f[{}] = g[{}]
  BY <1>3, <1>7
<1>9. \A s \in SUBSET Q : s # {} => f[s] = ReconcileRow(pick(s), f[s \ {pick(s)}])
  BY <1>7
<1>10. f[Q] = g[Q]
  <2>1. \A s \in SUBSET Q : s # {} => \E x \in s : f[s \ {x}] = g[s \ {x}] => f[s] = g[s]
    BY <1>4, <1>5, <1>9
  <2> QED BY <1>1, <1>8, <2>1, FoldIsUnique
<1>11. g[Q] = ReconcileStore(S)
  BY DEF g, ReconciledRows, ReconcileStore, ClaimRows, LeaseRanOut
<1> QED BY <1>2, <1>10, <1>11

-----------------------------------------------------------------------------
\* A takeover candidate has an attempt to take over from, and so has a row for it.
LEMMA RowIsCurrent ==
    ASSUME NEW S \in Store, Sound(S), NEW m \in MessageRefs
    PROVE  /\ AttemptRow(S, S.messages[m].attempt) <=> HasCurrentAttempt(S, m)
           /\ IsTakeoverCandidate(S, m) <=> S.messages[m].state = "takeover_candidate"
           /\ HasCurrentAttempt(S, m) =>
                 (S.attempts[S.messages[m].attempt].lease >= 0 <=>
                  S.attempts[S.messages[m].attempt].lease # Expired)
<1>1. AttemptRow(S, S.messages[m].attempt) <=> HasCurrentAttempt(S, m)
  BY CurrentExists, RefsDiffer DEF AttemptRow, HasCurrentAttempt
<1>2. S.messages[m].state = "takeover_candidate" => HasCurrentAttempt(S, m)
  BY DEF Sound, RecordSound, RecordStateBacked, HasCurrentAttempt
<1>3. ASSUME HasCurrentAttempt(S, m)
      PROVE  S.attempts[S.messages[m].attempt].lease \in Countdown(LeaseTicks)
  BY <1>3, CurrentExists, StoreParts DEF Attempt
<1> QED BY <1>1, <1>2, <1>3, StoreAssumption DEF IsTakeoverCandidate, Countdown, Expired

\* What a claim makes of the ledger, the record given for the SQL to write.
LEMMA ClaimRowIs ==
    ASSUME NEW S \in Store, NEW m \in MessageRefs, NEW e \in Endpoints, NEW a \in AttemptRefs,
           NEW rec \in Message
    PROVE  /\ claimAvailableMessageTx(S, m, rec, e, a) = ClaimAt(S, m, e, a, rec.redelivery)
           /\ takeoverMessageTx(S, m, rec, e, a) = ClaimAt(S, m, e, a, rec.redelivery + 1)
<1> DEFINE Row(n) == [state |-> "claimed", attempt |-> a, redelivery |-> n]
           Att(n) == [state |-> "claimed", msg |-> m, ep |-> e, lease |-> LeaseTicks,
                      rev |-> 1, epoch |-> n + 1]
           more == [rec EXCEPT !.redelivery = @ + 1]
<1>1. ASSUME NEW r, NEW n, r.redelivery = n, NEW row, row = Row(n),
             row = [r EXCEPT !.state = "claimed", !.attempt = a]
      PROVE  claimAvailableMessageTx(S, m, r, e, a) = ClaimAt(S, m, e, a, n)
  <2>1. claimAvailableMessageTx(S, m, r, e, a) =
          UpdateMessage(UpdateAttempt(S, a, Att(n)), m, row)
    BY <1>1 DEF claimAvailableMessageTx
  <2>2. UpdateMessage(UpdateAttempt(S, a, Att(n)), m, row) = ClaimAt(S, m, e, a, n)
    BY <1>1 DEF ClaimAt, UpdateMessage, UpdateAttempt, Store
  <2> QED BY <2>1, <2>2
<1>2. ASSUME NEW r \in Message, NEW row, row = [r EXCEPT !.state = "claimed", !.attempt = a]
      PROVE  row = Row(r.redelivery)
  <2>1. row \in Message
    BY <1>2 DEF Message, MessageState
  <2> QED BY <1>2, <2>1 DEF Message
<1>3. claimAvailableMessageTx(S, m, rec, e, a) = ClaimAt(S, m, e, a, rec.redelivery)
  <2> HIDE DEF Row
  <2> QED BY <1>1, <1>2
<1>4. more \in Message /\ more.redelivery = rec.redelivery + 1
  <2>1. more \in Message
    BY DEF Message
  <2> QED BY <2>1 DEF Message
<1>5. takeoverMessageTx(S, m, rec, e, a) = claimAvailableMessageTx(S, m, more, e, a)
  BY DEF takeoverMessageTx
<1> HIDE DEF more, Row
<1>6. takeoverMessageTx(S, m, rec, e, a) = ClaimAt(S, m, e, a, more.redelivery)
  BY <1>1, <1>2, <1>4, <1>5
<1> QED BY <1>3, <1>4, <1>6

\* The dead letter is the same, in three rows or in three maps.
LEMMA DeadLetterRowIs ==
    ASSUME NEW S \in Store, NEW m \in MessageRefs, S.messages[m].attempt \in AttemptRefs
    PROVE  deadLetterMessageTx(S, m, S.messages[m]) = DeadLetterMessage(S, m)
BY StoreParts DEF deadLetterMessageTx, DeadLetterMessage, UpdateMessage, UpdateAttempt, Store,
        Message, Attempt

\* The claim of a message by its ref.
LEMMA ClaimMessageAgrees ==
    ASSUME NEW S \in Store, Sound(S),
           NEW m \in MessageRefs, NEW e \in Endpoints, NEW a \in AttemptRefs
    PROVE  claimMessageTx(S, m, S.messages[m], e, a) = ClaimMessageStore(S, m, e, a)
<1> DEFINE rec == S.messages[m]
           cur == rec.attempt
           n == rec.redelivery
<1>1. rec \in Message
  BY StoreParts
<1>2. CASE rec.state = "available"
  BY <1>1, <1>2, ClaimRowIs DEF claimMessageTx, ClaimMessageStore, ClaimAvailableMessage
<1>3. CASE rec.state = "takeover_candidate"
  <2>1. AttemptRow(S, cur) /\ cur \in AttemptRefs /\ IsTakeoverCandidate(S, m)
    BY <1>3, RowIsCurrent DEF IsTakeoverCandidate, AttemptRow
  <2>2. claimMessageTx(S, m, rec, e, a) = IF n >= MaxRedelivery THEN DeadLetterMessage(S, m)
                                          ELSE TakeoverMessage(S, m, e, a)
    BY <1>1, <1>3, <2>1, ClaimRowIs, DeadLetterRowIs
    DEF claimMessageTx, claimTakeoverCandidateTx, TakeoverMessage
  <2> QED BY <1>3, <2>1, <2>2 DEF ClaimMessageStore, OutOfRedeliveries
<1>4. CASE rec.state \in {"claimed", "processing"}
  <2>1. ~IsTakeoverCandidate(S, m)
    BY <1>4 DEF IsTakeoverCandidate
  <2>2. CASE ~LeaseRanOut(S, m)
    <3>1. ~AttemptRow(S, cur) \/ S.attempts[cur].lease >= 0
      BY <1>4, <2>2, RowIsCurrent DEF LeaseRanOut
    <3> QED BY <1>4, <2>1, <2>2, <3>1 DEF claimMessageTx, claimExpiredMessageTx, ClaimMessageStore
  <2>3. CASE LeaseRanOut(S, m)
    <3>1. /\ AttemptRow(S, cur) /\ cur \in AttemptRefs
          /\ ~(S.attempts[cur].lease >= 0)
      BY <2>3, RowIsCurrent DEF LeaseRanOut, AttemptRow
    <3>2. OrphanCurrent(S, m) =
            UpdateAttempt(S, cur, [S.attempts[cur] EXCEPT !.state = "orphaned"])
      BY DEF OrphanCurrent, UpdateAttempt, Store
    <3>3. OrphanCurrent(S, m) \in Store /\ OrphanCurrent(S, m).messages[m] = rec
      BY <2>3, OrphanCurrentKept DEF LeaseRanOut, Kept
    <3>4. takeoverMessageTx(OrphanCurrent(S, m), m, rec, e, a) =
            TakeoverMessage(OrphanCurrent(S, m), m, e, a)
      BY <1>1, <3>3, ClaimRowIs DEF TakeoverMessage
    <3>5. deadLetterMessageTx(S, m, rec) = DeadLetterMessage(S, m)
      BY <3>1, DeadLetterRowIs
    <3> QED BY <1>4, <2>1, <2>3, <3>1, <3>2, <3>4, <3>5
            DEF claimMessageTx, claimExpiredMessageTx, ClaimMessageStore, OutOfRedeliveries
  <2> QED BY <2>2, <2>3
<1>5. CASE rec.state \notin {"available", "takeover_candidate", "claimed", "processing"}
  BY <1>5 DEF claimMessageTx, ClaimMessageStore, IsTakeoverCandidate, LeaseRanOut
<1> QED BY <1>2, <1>3, <1>4, <1>5

\* ORDER BY rank and ref, and the smallest ref of the candidates, then of what
\* is available.
LEMMA OrdersAgree ==
    ASSUME NEW S \in Store, NEW m \in MessageRefs, NEW e \in Endpoints, NEW names, NEW online
    PROVE  NextEligible(S, m, e, names, online) <=> IsNext(S, m, e, names, online)
<1> DEFINE C == Eligible(S, "takeover_candidate", e, names, online)
           A == Eligible(S, "available", e, names, online)
           L == {n \in MessageRefs :
                   /\ S.messages[n].state \in {"takeover_candidate", "available"}
                   /\ MessageClaimableByEndpoint(S.requests[n], e, names,
                          PreferredEndpointOnline(online, S.requests[n]))
                   /\ MessageDependenciesCompleted(S.requests[n], StateOf(S))}
<1>1. L = C \cup A
  BY DEF Eligible
<1>2. /\ \A n \in C : n \in Nat /\ SelectionRank(S, n) = 0
      /\ \A n \in A : n \in Nat /\ SelectionRank(S, n) = 1
  BY RoutingAssumption DEF Eligible, SelectionRank
<1>3. NextEligible(S, m, e, names, online) <=>
        m \in C \cup A /\ \A n \in (C \cup A) \ {m} : SelectedBefore(S, m, n)
  BY <1>1 DEF NextEligible
<1>4. IsNext(S, m, e, names, online) <=> IF C # {} THEN IsFirst(m, C) ELSE IsFirst(m, A)
  BY DEF IsNext
<1> HIDE DEF C, A, L
<1>5. \A n, k \in C : SelectedBefore(S, n, k) <=> n < k
  BY <1>2 DEF SelectedBefore
<1>6. \A n, k \in A : SelectedBefore(S, n, k) <=> n < k
  BY <1>2 DEF SelectedBefore
<1>7. \A n \in C, k \in A : SelectedBefore(S, n, k) /\ ~SelectedBefore(S, k, n)
  BY <1>2 DEF SelectedBefore
<1>8. CASE C # {}
  <2>1. m \in C \cup A /\ (\A n \in (C \cup A) \ {m} : SelectedBefore(S, m, n)) <=>
          m \in C /\ \A n \in C \ {m} : m < n
    <3>1. C \cap A = {}
      BY <1>2
    <3> QED BY <1>5, <1>7, <1>8, <3>1
  <2>2. IsFirst(m, C) <=> m \in C /\ \A n \in C \ {m} : m < n
    BY <1>2 DEF IsFirst
  <2> QED BY <1>3, <1>4, <1>8, <2>1, <2>2
<1>9. CASE C = {}
  <2>1. IsFirst(m, A) <=> m \in A /\ \A n \in A \ {m} : m < n
    BY <1>2 DEF IsFirst
  <2> QED BY <1>3, <1>4, <1>6, <1>9, <2>1
<1> QED BY <1>8, <1>9

\* Whatever history led to a ledger, a claim, a claim-next and a reconcile of
\* the sqlite store (claim.go, claim_next.go, reconcile.go) come to the same
\* ledger as those of the memory store (store.go, claim_next.go), where there
\* are finitely many messages, as there are rows in a table.
THEOREM StoresDoTheSame ==
    ASSUME IsFiniteSet(MessageRefs)
    PROVE  Spec => []StoresAgree
<1>1. ASSUME NEW S \in Store, Sound(S)
      PROVE  ClaimsAgree(S) /\ ClaimNextAgrees(S)
  <2>1. ClaimsAgree(S)
    BY <1>1, ClaimMessageAgrees DEF ClaimsAgree
  <2>2. ASSUME NEW m \in MessageRefs, NEW e \in Endpoints, NEW a \in AttemptRefs,
               NextFor(S, m, e)
        PROVE  claimMessageTx(S, m, S.messages[m], e, a) = ClaimNextStore(S, m, e, a)
    <3>1. S.messages[m].state \in {"available", "takeover_candidate"}
      BY <2>2 DEF NextFor, IsNext, IsFirst, Eligible
    <3>2. S.messages[m].state = "takeover_candidate" =>
            HasCurrentAttempt(S, m) /\ IsTakeoverCandidate(S, m)
      BY <1>1, RowIsCurrent DEF IsTakeoverCandidate
    <3>3. ClaimNextStore(S, m, e, a) = ClaimMessageStore(S, m, e, a)
      BY <3>1, <3>2 DEF ClaimNextStore, ClaimMessageStore
    <3> QED BY <1>1, <3>3, ClaimMessageAgrees
  <2> QED BY <1>1, <2>1, <2>2, OrdersAgree DEF ClaimNextAgrees, NextFor
<1>2. Inv => StoresAgree
  <2> SUFFICES ASSUME Inv PROVE StoresAgree
    OBVIOUS
  <2>1. store \in Store /\ Sound(store)
    BY DEF Inv, TypeOK
  <2>2. ReconcileStore(store) \in Store /\ Sound(ReconcileStore(store))
    BY <2>1, ReconcileKept DEF Kept
  <2> QED BY <1>1, <2>1, <2>2, ReconcilesAgree DEF StoresAgree
<1> QED BY <1>2, SoundLedger, PTL

-----------------------------------------------------------------------------
(* Requests served one at a time.                                          *)
(*                                                                         *)
(* Atomic!Next takes its step when the request ends; until then the ledger *)
(* of the atomic model is the one the request found.  Underway says, by    *)
(* the place a request has come to, what it has made of that ledger and    *)
(* what copies it holds; the step that ends the request then finds the     *)
(* whole of its atomic action done.  For completions and task commands,    *)
(* which go through a number of messages, it says it of the part that is   *)
(* done: the follow-ups saved, the messages no longer in the snapshot.     *)

\* The ledger that a completion with these follow-ups leaves.
CompletedStore(S, a, follow) ==
    LET m == S.attempts[a].msg IN
    [CheckpointStore(S, a, "completed") EXCEPT
       !.requests = [n \in MessageRefs |->
           IF n \in DOMAIN follow
           THEN FollowUpRequest(follow[n], m, S.requests[m].task) ELSE @[n]],
       !.messages = [n \in MessageRefs |->
           IF n \in DOMAIN follow
           THEN [AbsentMessage EXCEPT !.state = "available"] ELSE @[n]]]

\* The ledger once messages M and attempts D are canceled, or M is offered again.
CanceledStore(S, M, D) ==
    [S EXCEPT
       !.messages = [m \in MessageRefs |->
           IF m \in M THEN [@[m] EXCEPT !.state = "canceled"] ELSE @[m]],
       !.attempts = [a \in AttemptRefs |->
           IF a \in D THEN [@[a] EXCEPT !.state = "canceled"] ELSE @[a]]]
RetriedStore(S, M) ==
    [S EXCEPT !.messages = [m \in MessageRefs |->
        IF m \in M THEN [@[m] EXCEPT !.state = "available", !.attempt = NoAttempt] ELSE @[m]]]

CanceledBy(S, t) == {m \in MessageRefs :
    Saved(S, m) /\ S.requests[m].task = t /\ S.messages[m].state \notin {"completed", "canceled"}}
RetriedBy(S, t) == {m \in MessageRefs :
    /\ Saved(S, m) /\ S.requests[m].task = t
    /\ S.messages[m].state \in {"failed", "dead_lettered", "input_required", "canceled"}}
OwnersOf(S, M) == {a \in AttemptRefs : Open(S, a) /\ \E m \in M : S.messages[m].attempt = a}

MayClaimIn(S, e, m) ==
    /\ Saved(S, m)
    /\ ~EndpointIsStale(e)
    /\ MessageClaimableByEndpoint(S.requests[m], e, endpoints[e].names,
                                  PreferredEndpointOnline(OnlineEndpoints, S.requests[m]))
    /\ MessageDependenciesCompleted(S.requests[m], StateOf(S))

-----------------------------------------------------------------------------
\* The store's operations are those of the atomic model.
LEMMA AtomicStore ==
    ASSUME NEW S, NEW a, NEW m, NEW e, NEW s
    PROVE  /\ Atomic!Live(S, a) <=> Live(S, a)
           /\ Atomic!Saved(S, m) <=> Saved(S, m)
           /\ Atomic!Exists(S, a) <=> Exists(S, a)
           /\ Atomic!Open(S, a) <=> Open(S, a)
           /\ Atomic!Grants(S, m) <=> Grants(S, m)
           /\ Atomic!CheckpointStore(S, a, s) = CheckpointStore(S, a, s)
           /\ Atomic!ClaimMessageStore(S, m, e, a) = ClaimMessageStore(S, m, e, a)
           /\ Atomic!ClaimNextStore(S, m, e, a) = ClaimNextStore(S, m, e, a)
           /\ Atomic!ReconcileStore(S) = ReconcileStore(S)
           /\ Atomic!TickStore(S) = TickStore(S)
<1>1. Atomic!Open(S, a) <=> Open(S, a)
  BY DEF Atomic!Open, Open, Atomic!ClosedState, ClosedState
<1>2. Atomic!Live(S, a) <=> Live(S, a)
  BY <1>1 DEF Atomic!Live, Live, Atomic!Expired, Expired
<1>3. (Atomic!Saved(S, m) <=> Saved(S, m)) /\ (Atomic!Exists(S, a) <=> Exists(S, a))
  BY DEF Atomic!Saved, Saved, Atomic!Exists, Exists
<1>4. Atomic!CheckpointStore(S, a, s) = CheckpointStore(S, a, s)
  BY DEF Atomic!CheckpointStore, CheckpointStore, Atomic!SaveCheckpoint, SaveCheckpoint,
     Atomic!UpdateMessage, UpdateMessage, Atomic!UpdateAttempt, UpdateAttempt,
     Atomic!MessageStateAfter, MessageStateAfter
<1>5. \A k : Atomic!HasCurrentAttempt(S, k) <=> HasCurrentAttempt(S, k)
  BY DEF Atomic!HasCurrentAttempt, HasCurrentAttempt
<1>6. \A k : Atomic!LeaseRanOut(S, k) <=> LeaseRanOut(S, k)
  BY <1>5 DEF Atomic!LeaseRanOut, LeaseRanOut, Atomic!Expired, Expired
<1>7. Atomic!ReconcileStore(S) = ReconcileStore(S)
  BY <1>6 DEF Atomic!ReconcileStore, ReconcileStore
<1>8. Atomic!IsTakeoverCandidate(S, m) <=> IsTakeoverCandidate(S, m)
  BY <1>5 DEF Atomic!IsTakeoverCandidate, IsTakeoverCandidate
<1>9. Atomic!OutOfRedeliveries(S, m) <=> OutOfRedeliveries(S, m)
  BY DEF Atomic!OutOfRedeliveries, OutOfRedeliveries
<1>10. Atomic!DeadLetterMessage(S, m) = DeadLetterMessage(S, m)
  BY DEF Atomic!DeadLetterMessage, DeadLetterMessage
<1>11. \A R : /\ Atomic!ClaimAvailableMessage(R, m, e, a) = ClaimAvailableMessage(R, m, e, a)
              /\ Atomic!TakeoverMessage(R, m, e, a) = TakeoverMessage(R, m, e, a)
  BY DEF Atomic!ClaimAvailableMessage, ClaimAvailableMessage, Atomic!TakeoverMessage,
     TakeoverMessage, Atomic!ClaimAt, ClaimAt
<1>12. Atomic!OrphanCurrent(S, m) = OrphanCurrent(S, m)
  BY DEF Atomic!OrphanCurrent, OrphanCurrent
<1>13. Atomic!Grants(S, m) <=> Grants(S, m)
  BY <1>6, <1>8, <1>9 DEF Atomic!Grants, Grants
<1>14. Atomic!ClaimMessageStore(S, m, e, a) = ClaimMessageStore(S, m, e, a)
  BY <1>6, <1>8, <1>9, <1>10, <1>11, <1>12 DEF Atomic!ClaimMessageStore, ClaimMessageStore
<1>15. Atomic!ClaimNextStore(S, m, e, a) = ClaimNextStore(S, m, e, a)
  BY <1>5, <1>9, <1>10, <1>11 DEF Atomic!ClaimNextStore, ClaimNextStore
<1>16. Atomic!TickStore(S) = TickStore(S)
  BY DEF Atomic!TickStore, TickStore, Atomic!Elapse, Elapse, Atomic!Expired, Expired
<1> QED BY <1>1, <1>2, <1>3, <1>4, <1>7, <1>13, <1>14, <1>15, <1>16

\* So is what it reads of the registry.
LEMMA AtomicRouting ==
    ASSUME NEW S, NEW e, NEW m, NEW r, NEW n, NEW t, NEW names
    PROVE  /\ Atomic!EndpointIsStale(e) <=> EndpointIsStale(e)
           /\ Atomic!OnlineEndpoints = OnlineEndpoints
           /\ Atomic!IngressRouteAvailable(r) <=> IngressRouteAvailable(r)
           /\ Atomic!IsNext(S, m, e, names, OnlineEndpoints) <=> IsNext(S, m, e, names, OnlineEndpoints)
           /\ Atomic!MayClaim(e, m) <=> MayClaimIn(settled, e, m)
           /\ Atomic!FollowUpRequest(r, n, t) = FollowUpRequest(r, n, t)
<1>1. \A x : Atomic!EndpointIsStale(x) <=> EndpointIsStale(x)
  BY DEF Atomic!EndpointIsStale, EndpointIsStale, Atomic!Expired, Expired
<1>2. Atomic!OnlineEndpoints = OnlineEndpoints
  BY <1>1 DEF Atomic!OnlineEndpoints, OnlineEndpoints
<1>3. \A x, y : Atomic!EndpointCanHandle(x, y) <=> EndpointCanHandle(x, y)
  BY DEF Atomic!EndpointCanHandle, EndpointCanHandle
<1>4. \A q, x : Atomic!MessageTargetsEndpoint(q, x) <=> MessageTargetsEndpoint(q, x)
  BY DEF Atomic!MessageTargetsEndpoint, MessageTargetsEndpoint
<1>5. Atomic!IngressRouteAvailable(r) <=> IngressRouteAvailable(r)
  BY <1>3, <1>4 DEF Atomic!IngressRouteAvailable, IngressRouteAvailable, Atomic!IsRegistered, IsRegistered
<1>6. \A q, x, y, z : Atomic!MessageClaimableByEndpoint(q, x, y, z) <=> MessageClaimableByEndpoint(q, x, y, z)
  BY <1>3, <1>4 DEF Atomic!MessageClaimableByEndpoint, MessageClaimableByEndpoint,
     Atomic!MessageRoutableToEndpoint, MessageRoutableToEndpoint
<1>7. \A o, q : Atomic!PreferredEndpointOnline(o, q) <=> PreferredEndpointOnline(o, q)
  BY <1>3 DEF Atomic!PreferredEndpointOnline, PreferredEndpointOnline
<1>8. \A q, f : Atomic!MessageDependenciesCompleted(q, f) <=> MessageDependenciesCompleted(q, f)
  BY DEF Atomic!MessageDependenciesCompleted, MessageDependenciesCompleted
<1>9. Atomic!MayClaim(e, m) <=> MayClaimIn(settled, e, m)
  BY <1>1, <1>2, <1>6, <1>7, <1>8 DEF Atomic!MayClaim, MayClaimIn, Atomic!Saved, Saved, Atomic!StateOf, StateOf
<1>10. \A s : Atomic!Eligible(S, s, e, names, OnlineEndpoints) = Eligible(S, s, e, names, OnlineEndpoints)
  BY <1>6, <1>7, <1>8 DEF Atomic!Eligible, Eligible, Atomic!StateOf, StateOf
<1>11. Atomic!IsNext(S, m, e, names, OnlineEndpoints) <=> IsNext(S, m, e, names, OnlineEndpoints)
  BY <1>10 DEF Atomic!IsNext, IsNext, Atomic!IsFirst, IsFirst
<1>12. Atomic!FollowUpRequest(r, n, t) = FollowUpRequest(r, n, t)
  BY DEF Atomic!FollowUpRequest, FollowUpRequest
<1> QED BY <1>1, <1>2, <1>5, <1>9, <1>11, <1>12

-----------------------------------------------------------------------------
(* The steps of the atomic model, in terms of the ledger it steps from.    *)

\* What the service does without a handler of its own,
LEMMA AtomicBackground ==
    ASSUME settled = store, settled' = store', Background
    PROVE  Atomic!Next
<1>1. ASSUME RegistryNext, UNCHANGED store
      PROVE  Atomic!Next
  <2>1. Atomic!RegistryNext
    BY <1>1 DEF RegistryNext, Atomic!RegistryNext, Atomic!RegisterEndpoint, RegisterEndpoint,
       Atomic!HeartbeatEndpoint, HeartbeatEndpoint, Atomic!AdvertiseCapabilities,
       AdvertiseCapabilities, Atomic!IsRegistered, IsRegistered, Atomic!EndpointIsStale,
       EndpointIsStale, Atomic!Expired, Expired
  <2> QED BY <1>1, <2>1 DEF Atomic!Next
<1>2. ASSUME NEW m \in MessageRefs, NEW r, IngressMessage(m, r)
      PROVE  Atomic!IngressMessage(m, r)
  BY <1>2, AtomicRouting DEF IngressMessage, Atomic!IngressMessage, Saved, Atomic!Saved,
     SaveMessage, Atomic!SaveMessage, AbsentMessage, Atomic!AbsentMessage
<1>3. ASSUME NEW d \in store.deadLetters, NEW m \in MessageRefs, ReplayDeadLetter(d, m)
      PROVE  Atomic!Next
  BY <1>2, <1>3 DEF ReplayDeadLetter, Atomic!ReplayDeadLetter, Atomic!Next, Atomic!OperatorNext
<1>4. ASSUME ReconcileExpiredClaims
      PROVE  Atomic!Next
  BY <1>4, AtomicStore DEF ReconcileExpiredClaims, Atomic!ReconcileExpiredClaims, Atomic!Next
<1>5. ASSUME NEW m \in MessageRefs, NEW r \in Requests, IngressMessage(m, r)
      PROVE  Atomic!Next
  BY <1>2, <1>5 DEF Atomic!Next
<1> QED BY <1>1, <1>3, <1>4, <1>5 DEF Background

\* and time.
LEMMA AtomicTick ==
    ASSUME settled = store, settled' = store', Tick
    PROVE  Atomic!Next
<1>1. Atomic!RegistryTick
  BY DEF Tick, RegistryTick, Atomic!RegistryTick, Elapse, Atomic!Elapse, Expired, Atomic!Expired
<1> QED BY <1>1, AtomicStore DEF Tick, Atomic!Tick, Atomic!Next

\* A checkpoint,
LEMMA AtomicCheckpoint ==
    ASSUME NEW a \in AttemptRefs, NEW report \in Reports, Live(settled, a),
           settled.checkpoints[a].count < MaxCheckpoints,
           settled' = CheckpointStore(settled, a, report), UNCHANGED endpoints
    PROVE  Atomic!Next
BY AtomicStore DEF Atomic!SubmitCheckpoint, Atomic!WorkerNext, Atomic!Next

\* a refresh of a lease,
LEMMA AtomicRefresh ==
    ASSUME NEW a \in AttemptRefs, Live(settled, a),
           settled' = UpdateAttempt(settled, a, [settled.attempts[a] EXCEPT !.lease = LeaseTicks]),
           UNCHANGED endpoints
    PROVE  Atomic!Next
BY AtomicStore DEF Atomic!RefreshLease, Atomic!WorkerNext, Atomic!Next, UpdateAttempt,
   Atomic!UpdateAttempt

\* a completion with follow-ups that were accepted,
LEMMA AtomicComplete ==
    ASSUME NEW a \in AttemptRefs, Live(settled, a),
           settled.checkpoints[a].count < MaxCheckpoints,
           NEW F \in SUBSET MessageRefs, Cardinality(F) <= MaxFollowUps,
           NEW follow \in [F -> Requests],
           \A n \in F : ~Saved(settled, n) /\ IngressRouteAvailable(follow[n]),
           settled' = CompletedStore(settled, a, follow), UNCHANGED endpoints
    PROVE  Atomic!Next
<1>1. follow \in Atomic!FollowUps
  <2>1. Atomic!Cardinality(F) = Cardinality(F)
    BY DEF Atomic!Cardinality, Cardinality
  <2> DEFINE Small == {G \in SUBSET MessageRefs : Atomic!Cardinality(G) <= MaxFollowUps}
  <2>2. F \in Small
    BY <2>1
  <2>3. [F -> Requests] \in {[refs -> Requests] : refs \in Small}
    BY <2>2
  <2> QED BY <2>3 DEF Atomic!FollowUps
<1>2. \A n \in DOMAIN follow : ~Atomic!Saved(settled, n) /\ Atomic!IngressRouteAvailable(follow[n])
  BY AtomicStore, AtomicRouting
<1>3. \A r, m, t : Atomic!FollowUpRequest(r, m, t) = FollowUpRequest(r, m, t)
  BY AtomicRouting
<1>4. Atomic!CompleteAttempt(a, follow)
  BY <1>2, <1>3, AtomicStore DEF Atomic!CompleteAttempt, CompletedStore, AbsentMessage,
     Atomic!AbsentMessage
<1> QED BY <1>1, <1>4 DEF Atomic!WorkerNext, Atomic!Next

\* claims,
LEMMA AtomicClaim ==
    ASSUME NEW e \in Endpoints, NEW m \in MessageRefs, NEW a \in AttemptRefs,
           MayClaimIn(settled, e, m), Grants(settled, m) => ~Exists(settled, a),
           settled' = ClaimMessageStore(settled, m, e, a), UNCHANGED endpoints
    PROVE  Atomic!Next
<1>1. Atomic!ClaimMessage(e, m, a)
  BY AtomicStore, AtomicRouting DEF Atomic!ClaimMessage
<1> QED BY <1>1 DEF Atomic!WorkerNext, Atomic!Next

\* a claim of the next message,
LEMMA AtomicClaimNext ==
    ASSUME NEW e \in Endpoints, NEW m \in MessageRefs, NEW a \in AttemptRefs,
           NEW S, S = ReconcileStore(settled), ~EndpointIsStale(e),
           IsNext(S, m, e, endpoints[e].names, OnlineEndpoints),
           Grants(S, m) => ~Exists(S, a),
           settled' = ClaimNextStore(S, m, e, a), UNCHANGED endpoints
    PROVE  Atomic!Next
<1>1. Atomic!ClaimNextMessage(e, m, a)
  BY AtomicStore, AtomicRouting DEF Atomic!ClaimNextMessage, Atomic!NextFor
<1> QED BY <1>1 DEF Atomic!WorkerNext, Atomic!Next

\* also one that finds none,
LEMMA AtomicClaimNothing ==
    ASSUME NEW e \in Endpoints, ~EndpointIsStale(e),
           NEW S, S = ReconcileStore(settled),
           \A m \in MessageRefs : ~IsNext(S, m, e, endpoints[e].names, OnlineEndpoints),
           settled' = S, UNCHANGED endpoints
    PROVE  Atomic!Next
<1>1. Atomic!ClaimNothing(e)
  BY AtomicStore, AtomicRouting DEF Atomic!ClaimNothing, Atomic!NextFor
<1> QED BY <1>1 DEF Atomic!WorkerNext, Atomic!Next

\* and the commands on a task.
LEMMA AtomicCancel ==
    ASSUME NEW t \in Tasks, "cancel" \in Commands, NEW M, M = CanceledBy(settled, t), M # {},
           settled' = CanceledStore(settled, M, OwnersOf(settled, M)), UNCHANGED endpoints
    PROVE  Atomic!Next
<1>1. Atomic!ToCancel(t) = M
  BY DEF Atomic!ToCancel, Atomic!OfTask, CanceledBy, Saved, Atomic!Saved
<1>2. OwnersOf(settled, M) = {a \in AttemptRefs : Atomic!Open(settled, a)
          /\ \E m \in Atomic!ToCancel(t) : settled.messages[m].attempt = a}
  BY <1>1, AtomicStore DEF OwnersOf
<1>3. Atomic!CancelTask(t)
  BY <1>1, <1>2 DEF Atomic!CancelTask, CanceledStore
<1> QED BY <1>3 DEF Atomic!OperatorNext, Atomic!Next

\* both of them.
LEMMA AtomicRetry ==
    ASSUME NEW t \in Tasks, "retry" \in Commands, NEW M, M = RetriedBy(settled, t), M # {},
           settled' = RetriedStore(settled, M), UNCHANGED endpoints
    PROVE  Atomic!Next
<1>1. Atomic!ToRetry(t) = M
  BY DEF Atomic!ToRetry, Atomic!OfTask, RetriedBy, Saved, Atomic!Saved
<1>2. Atomic!RetryTask(t)
  BY <1>1 DEF Atomic!RetryTask, RetriedStore
<1> QED BY <1>2 DEF Atomic!OperatorNext, Atomic!Next

-----------------------------------------------------------------------------
(* What a request that is under way has done: S0 is the ledger it found, S *)
(* the ledger now.                                                         *)

AttemptAfter(S0, a, report) ==
    [S0.attempts[a] EXCEPT !.state = report, !.rev = S0.checkpoints[a].count + 1]
AttemptWritten(S0, a, report) ==
    UpdateAttempt(SaveCheckpoint(S0, a, report), a, AttemptAfter(S0, a, report))

MayReport(S0, a) ==
    a \in AttemptRefs /\ Live(S0, a) /\ S0.checkpoints[a].count < MaxCheckpoints

CheckpointUnderway(S0, S, c) ==
    /\ MayReport(S0, c.a)
    /\ IF c.completing THEN c.report = "completed" ELSE c.report \in Reports
    /\ c.att.msg = S0.attempts[c.a].msg
    /\ \/ c.pc = "save" /\ S = S0 /\ c.att = S0.attempts[c.a]
       \/ /\ c.pc = "attempt" /\ S = SaveCheckpoint(S0, c.a, c.report)
          /\ c.att = AttemptAfter(S0, c.a, c.report)
       \/ c.pc = "read" /\ S = AttemptWritten(S0, c.a, c.report)
       \/ /\ c.pc = "message" /\ S = AttemptWritten(S0, c.a, c.report)
          /\ c.msg = S0.messages[c.att.msg]

CompletionUnderway(S0, S, c) ==
    /\ MayReport(S0, c.a)
    /\ c.att.msg = S0.attempts[c.a].msg
    /\ S = CheckpointStore(S0, c.a, "completed")
    /\ \/ c.pc = "reread"
       \/ c.pc = "reread_message" /\ c.att = S.attempts[c.a]
       \/ c.pc = "close" /\ c.att = S.attempts[c.a] /\ c.msg = S.messages[c.att.msg]
       \/ c.pc = "finish" /\ c.msg = S.messages[c.att.msg]

FollowUnderway(S0, S, c) ==
    /\ MayReport(S0, c.a)
    /\ c.pc = "follow" /\ c.left > 0
    /\ c.att.msg = S0.attempts[c.a].msg
    /\ \E F \in SUBSET MessageRefs : \E follow \in [F -> Requests] :
          /\ IsFiniteSet(F) /\ Cardinality(F) + c.left <= MaxFollowUps
          /\ \A n \in F : ~Saved(S0, n) /\ IngressRouteAvailable(follow[n])
          /\ S = CompletedStore(S0, c.a, follow)

RefreshUnderway(S0, S, c) ==
    /\ c.pc = "lease" /\ S = S0
    /\ c.a \in AttemptRefs /\ Live(S0, c.a)
    /\ c.att = [S0.attempts[c.a] EXCEPT !.lease = LeaseTicks]

ClaimUnderway(S0, S, c) ==
    /\ c.att.ep \in Endpoints /\ c.att.lease = LeaseTicks
    /\ \/ c.pc = "claim" /\ S = S0 /\ c.att.msg \in MessageRefs /\ MayClaimIn(S0, c.att.ep, c.att.msg)
       \/ /\ ~EndpointIsStale(c.att.ep) /\ c.names = endpoints[c.att.ep].names
          /\ \/ c.pc = "reconcile" /\ S = S0
             \/ c.pc = "next" /\ S = ReconcileStore(S0) /\ c.online = OnlineEndpoints

\* The messages M of a task, of which those in the snapshot are still to do.
Snapshot(S0, M, todo) ==
    Listed(todo) \subseteq M /\ \A m \in Listed(todo) : todo[m] = S0.messages[m]

CancelDone(S0, S, pc, N, a, att) ==
    \/ pc = "cancel" /\ S = CanceledStore(S0, N, OwnersOf(S0, N))
    \/ /\ pc \in {"cancel_read", "cancel_attempt"} /\ a \in AttemptRefs
       /\ \E m \in N : /\ S0.messages[m].attempt = a
                       /\ S = CanceledStore(S0, N, OwnersOf(S0, N \ {m}))
       /\ pc = "cancel_attempt" => Open(S0, a) /\ att = S0.attempts[a]

CancelUnderway(S0, S, c) ==
    \E t \in Tasks :
       /\ "cancel" \in Commands
       /\ Snapshot(S0, CanceledBy(S0, t), c.todo)
       /\ CancelDone(S0, S, c.pc, CanceledBy(S0, t) \ Listed(c.todo), c.a, c.att)

RetryUnderway(S0, S, c) ==
    \E t \in Tasks :
       /\ "retry" \in Commands
       /\ Snapshot(S0, RetriedBy(S0, t), c.todo)
       /\ c.pc = "retry" /\ S = RetriedStore(S0, RetriedBy(S0, t) \ Listed(c.todo))

Underway(S0, S, c) ==
    \/ CheckpointUnderway(S0, S, c) \/ CompletionUnderway(S0, S, c) \/ FollowUnderway(S0, S, c)
    \/ RefreshUnderway(S0, S, c) \/ ClaimUnderway(S0, S, c)
    \/ CancelUnderway(S0, S, c) \/ RetryUnderway(S0, S, c)

Alone(h) == \A k \in Handlers \ {h} : At(k, "idle")

SerialInv ==
    /\ StepsInv
    /\ settled \in Store /\ Sound(settled)
    /\ Quiet => settled = store
    /\ \A h \in Handlers : ~At(h, "idle") => Alone(h) /\ Underway(settled, store, calls[h])

\* A handler takes a step on its own, and its step in the atomic model.
Turn(h) == Alone(h) /\ settled' = IF Quiet' THEN store' ELSE settled
Agrees == SerialInv' /\ [Atomic!Next]_Atomic!vars

\* The request goes on: nothing has happened yet in the atomic model.
LEMMA GoesOn ==
    ASSUME SerialInv, StepsInv', NEW h \in Handlers, Turn(h), NEW d, Continue(h, d),
           d.pc # "idle", UNCHANGED endpoints, Underway(settled, store', d)
    PROVE  Agrees
<1>1. calls \in [Handlers -> Call] /\ calls' = [calls EXCEPT ![h] = d]
  BY DEF SerialInv, StepsInv, Continue
<1>2. calls'[h] = d /\ \A k \in Handlers : k # h => calls'[k] = calls[k]
  BY <1>1
<1>3. ~Quiet' /\ settled' = settled
  BY <1>2 DEF Quiet, At, Turn
<1>4. \A e : (EndpointIsStale(e) <=> EndpointIsStale(e)') /\ endpoints'[e].names = endpoints[e].names
  BY DEF EndpointIsStale
<1>5. OnlineEndpoints' = OnlineEndpoints
  BY <1>4 DEF OnlineEndpoints
<1>6. \A r : IngressRouteAvailable(r) <=> IngressRouteAvailable(r)'
  BY DEF IngressRouteAvailable, IsRegistered
<1>7. ASSUME NEW S0, NEW S, ClaimUnderway(S0, S, d)
      PROVE  ClaimUnderway(S0, S, d)'
  BY <1>4, <1>5, <1>7 DEF ClaimUnderway, MayClaimIn
<1>8. ASSUME NEW S0, NEW S, FollowUnderway(S0, S, d)
      PROVE  FollowUnderway(S0, S, d)'
  BY <1>6, <1>8 DEF FollowUnderway
<1>9. Underway(settled, store, calls[h])'
  BY <1>2, <1>3, <1>7, <1>8 DEF Underway
<1>10. \A k \in Handlers : ~At(k, "idle")' => k = h
  BY <1>2 DEF Turn, Alone, At
<1>11. Alone(h)'
  BY <1>10 DEF Alone
<1>12. SerialInv'
  BY <1>3, <1>9, <1>10, <1>11 DEF SerialInv
<1> QED BY <1>3, <1>12 DEF Agrees, Atomic!vars

\* The request ends: this must be its step in the atomic model.
LEMMA Ends ==
    ASSUME SerialInv, StepsInv', NEW h \in Handlers, Turn(h), Continue(h, Idle)
    PROVE  settled' = store' /\ (Atomic!Next => Agrees)
<1>1. calls \in [Handlers -> Call] /\ calls' = [calls EXCEPT ![h] = Idle]
  BY DEF SerialInv, StepsInv, Continue
<1>2. calls'[h] = Idle /\ \A k \in Handlers : k # h => calls'[k] = calls[k]
  BY <1>1
<1>3. Quiet' /\ settled' = store'
  BY <1>2, IdleParts DEF Quiet, At, Turn, Alone
<1>4. SerialInv'
  BY <1>3 DEF SerialInv, StepsInv, Inv, TypeOK, Quiet
<1> QED BY <1>3, <1>4 DEF Agrees

\* The place it has come to says which request it is.
LEMMA UnderwayAt ==
    ASSUME NEW S0, NEW S, NEW c, Underway(S0, S, c)
    PROVE  /\ c.pc \in {"save", "attempt", "read", "message"} => CheckpointUnderway(S0, S, c)
           /\ c.pc \in {"reread", "reread_message", "close", "finish"} => CompletionUnderway(S0, S, c)
           /\ c.pc = "follow" => FollowUnderway(S0, S, c)
           /\ c.pc = "lease" => RefreshUnderway(S0, S, c)
           /\ c.pc \in {"claim", "reconcile", "next"} => ClaimUnderway(S0, S, c)
           /\ c.pc \in {"cancel", "cancel_read", "cancel_attempt"} => CancelUnderway(S0, S, c)
           /\ c.pc = "retry" => RetryUnderway(S0, S, c)
BY DEF Underway, CheckpointUnderway, CompletionUnderway, FollowUnderway, RefreshUnderway,
   ClaimUnderway, CancelUnderway, CancelDone, RetryUnderway

\* What the invariant says of the handler whose turn it is.
LEMMA TurnParts ==
    ASSUME SerialInv, NEW h \in Handlers, Turn(h)
    PROVE  /\ calls[h] \in Call
           /\ store \in Store /\ Sound(store) /\ settled \in Store /\ Sound(settled)
           /\ At(h, "idle") => settled = store
           /\ ~At(h, "idle") => Underway(settled, store, calls[h])
BY CallOf DEF SerialInv, Turn, Alone, Quiet

-----------------------------------------------------------------------------
(* Checkpoints, and completions.                                           *)

\* A live attempt was found; nothing is written yet.
LEMMA BeginCheckpointAgrees ==
    ASSUME SerialInv, StepsInv', NEW h \in Handlers, Turn(h), NEW a \in AttemptRefs,
           NEW report \in CheckpointState, NEW completing \in BOOLEAN,
           NEW left \in 0..MaxFollowUps,
           IF completing THEN report = "completed" ELSE report \in Reports,
           BeginCheckpoint(h, a, report, completing, left)
    PROVE  Agrees
<1> DEFINE d == [Idle EXCEPT !.pc = "save", !.a = a, !.report = report,
                             !.completing = completing, !.left = left,
                             !.att = store.attempts[a]]
<1>1. /\ settled = store /\ MayReport(settled, a)
      /\ Continue(h, d) /\ ReadOnly
  BY TurnParts DEF BeginCheckpoint, MayReport
<1>2. /\ d.pc = "save" /\ d.a = a /\ d.att = store.attempts[a] /\ d.completing = completing
      /\ d.report = report
  BY IdleParts DEF Call
<1> HIDE DEF d
<1>3. store' = store /\ UNCHANGED endpoints
  BY <1>1 DEF ReadOnly
<1>4. CheckpointUnderway(settled, store', d)
  BY <1>1, <1>2, <1>3 DEF CheckpointUnderway
<1> QED BY <1>1, <1>2, <1>3, <1>4, GoesOn DEF Underway

\* The checkpoint is saved,
LEMMA SaveTheCheckpointAgrees ==
    ASSUME SerialInv, StepsInv', NEW h \in Handlers, Turn(h), SaveTheCheckpoint(h)
    PROVE  Agrees
<1> DEFINE c == calls[h]
           n == store.checkpoints[c.a].count + 1
           att == [c.att EXCEPT !.state = c.report, !.rev = n]
           d == [c EXCEPT !.pc = "attempt", !.att = att]
<1>1. /\ c \in Call /\ c.pc = "save" /\ Underway(settled, store, c)
  BY TurnParts DEF SaveTheCheckpoint, At
<1>2. CheckpointUnderway(settled, store, c) /\ store = settled /\ c.att = settled.attempts[c.a]
  BY <1>1, UnderwayAt DEF CheckpointUnderway
<1>3. Write(SaveCheckpoint(settled, c.a, c.report)) /\ Continue(h, d)
  <2>1. To(c, "attempt") = [c EXCEPT !.pc = "attempt"]
    BY DEF To
  <2>2. [To(c, "attempt") EXCEPT !.att.state = c.report, !.att.rev = n] = d
    BY <1>1, <2>1, CallParts DEF Call, Attempt
  <2> QED BY <1>2, <2>2 DEF SaveTheCheckpoint
<1>4. att = AttemptAfter(settled, c.a, c.report)
  BY <1>2 DEF AttemptAfter
<1>5. att.msg = c.att.msg
  <2> DEFINE old == c.att
             r == c.report
  <2>1. old \in Attempt
    BY <1>1, CallParts
  <2>2. att = [old EXCEPT !.state = r, !.rev = n]
    OBVIOUS
  <2> HIDE DEF old, r, n, att
  <2>3. att.msg = old.msg
    BY <2>1, <2>2 DEF Attempt
  <2> QED BY <2>3 DEF old
<1> HIDE DEF att, n, c
<1>6. /\ d.pc = "attempt" /\ d.att = att /\ d.a = c.a
      /\ d.report = c.report /\ d.completing = c.completing
  BY <1>1 DEF Call
<1> HIDE DEF d
<1>7. store' = SaveCheckpoint(settled, c.a, c.report) /\ UNCHANGED endpoints
  BY <1>3 DEF Write
<1>8. CheckpointUnderway(settled, store', d)
  BY <1>2, <1>4, <1>5, <1>6, <1>7 DEF CheckpointUnderway
<1> QED BY <1>3, <1>6, <1>7, <1>8, GoesOn DEF Underway

\* What a handler forgets of an attempt when it has written it.
LEMMA RestOfAttempt ==
    ASSUME NEW c \in Call, NEW pc \in Step
    PROVE  LET d == [To(c, pc) EXCEPT !.att = OnlyMessageRef(@)]
           IN  /\ d.pc = pc /\ d.att.msg = c.att.msg /\ d.a = c.a /\ d.report = c.report
               /\ d.completing = c.completing /\ d.msg = c.msg /\ d.left = c.left
<1> DEFINE att == [AbsentAttempt EXCEPT !.msg = c.att.msg]
           d == [c EXCEPT !.pc = pc, !.att = att]
<1>1. att.msg = c.att.msg
  BY DEF AbsentAttempt
<1>2. [To(c, pc) EXCEPT !.att = OnlyMessageRef(@)] = d
  BY DEF To, OnlyMessageRef, Call
<1> HIDE DEF att
<1>3. /\ d.pc = pc /\ d.att = att /\ d.a = c.a /\ d.report = c.report
      /\ d.completing = c.completing /\ d.msg = c.msg /\ d.left = c.left
  BY DEF Call
<1> QED BY <1>1, <1>2, <1>3

\* the attempt written back,
LEMMA WriteAttemptAgrees ==
    ASSUME SerialInv, StepsInv', NEW h \in Handlers, Turn(h), WriteAttempt(h)
    PROVE  Agrees
<1> DEFINE c == calls[h]
           d == [To(c, "read") EXCEPT !.att = OnlyMessageRef(@)]
<1>1. /\ c \in Call /\ c.pc = "attempt" /\ Underway(settled, store, c)
      /\ Continue(h, d) /\ Write(UpdateAttempt(store, c.a, c.att))
  BY TurnParts DEF WriteAttempt, At
<1>2. /\ CheckpointUnderway(settled, store, c)
      /\ store = SaveCheckpoint(settled, c.a, c.report)
      /\ c.att = AttemptAfter(settled, c.a, c.report)
  BY <1>1, UnderwayAt DEF CheckpointUnderway
<1>3. store' = AttemptWritten(settled, c.a, c.report) /\ UNCHANGED endpoints
  BY <1>1, <1>2 DEF Write, AttemptWritten
<1>4. /\ d.pc = "read" /\ d.att.msg = c.att.msg /\ d.a = c.a /\ d.report = c.report
      /\ d.completing = c.completing
  BY <1>1, RestOfAttempt DEF Step
<1> HIDE DEF c, d
<1>5. CheckpointUnderway(settled, store', d)
  BY <1>2, <1>3, <1>4 DEF CheckpointUnderway
<1> QED BY <1>1, <1>3, <1>4, <1>5, GoesOn DEF Underway

\* and its message read.
LEMMA ReadMessageAgrees ==
    ASSUME SerialInv, StepsInv', NEW h \in Handlers, Turn(h), ReadMessage(h)
    PROVE  Agrees
<1> DEFINE c == calls[h]
           msg == store.messages[c.att.msg]
           d == [c EXCEPT !.pc = "message", !.msg = msg]
<1>1. /\ c \in Call /\ c.pc = "read" /\ Underway(settled, store, c)
      /\ ReadOnly
  BY TurnParts DEF ReadMessage, At
<1>2. Continue(h, d)
  <2>1. To(c, "message") = [c EXCEPT !.pc = "message"]
    BY DEF To
  <2> QED BY <1>1, <2>1 DEF ReadMessage, Call
<1>3. /\ CheckpointUnderway(settled, store, c)
      /\ store = AttemptWritten(settled, c.a, c.report)
  BY <1>1, UnderwayAt DEF CheckpointUnderway
<1>4. msg = settled.messages[c.att.msg]
  BY <1>3, TurnParts DEF AttemptWritten, UpdateAttempt, SaveCheckpoint, Store
<1> HIDE DEF msg, c
<1>5. /\ d.pc = "message" /\ d.att = c.att /\ d.a = c.a /\ d.report = c.report
      /\ d.completing = c.completing /\ d.msg = msg
  BY <1>1 DEF Call
<1> HIDE DEF d
<1>6. store' = store /\ UNCHANGED endpoints
  BY <1>1 DEF ReadOnly
<1>7. CheckpointUnderway(settled, store', d)
  BY <1>3, <1>4, <1>5, <1>6 DEF CheckpointUnderway
<1> QED BY <1>2, <1>5, <1>6, <1>7, GoesOn DEF Underway

\* With its message written, a checkpoint is what the atomic model says.
LEMMA WriteMessageAgrees ==
    ASSUME SerialInv, StepsInv', NEW h \in Handlers, Turn(h), WriteMessage(h)
    PROVE  Agrees
<1> DEFINE c == calls[h]
<1>1. /\ c \in Call /\ c.pc = "message" /\ Underway(settled, store, c)
      /\ Write(UpdateMessage(store, c.att.msg,
                   [c.msg EXCEPT !.state = MessageStateAfter(c.report, @)]))
      /\ Continue(h, IF c.completing THEN To(c, "reread") ELSE Idle)
  BY TurnParts DEF WriteMessage, At
<1>2. /\ CheckpointUnderway(settled, store, c)
      /\ store = AttemptWritten(settled, c.a, c.report)
      /\ c.msg = settled.messages[c.att.msg]
  BY <1>1, UnderwayAt DEF CheckpointUnderway
<1>3. MayReport(settled, c.a) /\ c.att.msg = settled.attempts[c.a].msg
  BY <1>2 DEF CheckpointUnderway
<1>4. store' = CheckpointStore(settled, c.a, c.report) /\ UNCHANGED endpoints
  <2>1. SaveCheckpoint(settled, c.a, c.report).checkpoints[c.a].count
           = settled.checkpoints[c.a].count + 1
    BY <1>3, TurnParts DEF SaveCheckpoint, Store, Checkpoints, MayReport
  <2> QED BY <1>1, <1>2, <1>3, <2>1 DEF Write, AttemptWritten, AttemptAfter, CheckpointStore
<1>5. CASE ~c.completing
  <2>1. c.report \in Reports
    BY <1>2, <1>5 DEF CheckpointUnderway
  <2>2. settled' = store' /\ (Atomic!Next => Agrees)
    BY <1>1, <1>5, Ends
  <2> QED BY <1>3, <1>4, <2>1, <2>2, AtomicCheckpoint DEF MayReport
<1>6. CASE c.completing
  <2> DEFINE d == [c EXCEPT !.pc = "reread"]
  <2>1. Continue(h, d)
    BY <1>1, <1>6 DEF To
  <2>2. d.pc = "reread" /\ d.att = c.att /\ d.a = c.a /\ c.report = "completed"
    BY <1>1, <1>2, <1>6 DEF Call, CheckpointUnderway
  <2> HIDE DEF d, c
  <2>3. CompletionUnderway(settled, store', d)
    BY <1>3, <1>4, <2>2 DEF CompletionUnderway
  <2> QED BY <1>4, <2>1, <2>2, <2>3, GoesOn DEF Underway
<1> QED BY <1>5, <1>6

\* What a completion writes after its checkpoint is what the checkpoint wrote.
LEMMA CompletionParts ==
    ASSUME NEW S0 \in Store, Sound(S0), NEW a, MayReport(S0, a)
    PROVE  LET S == CheckpointStore(S0, a, "completed")
               m == S0.attempts[a].msg IN
           /\ m \in MessageRefs /\ Saved(S0, m)
           /\ S.attempts[a].msg = m
           /\ [S.attempts[a] EXCEPT !.state = "completed"] = S.attempts[a]
           /\ [S.messages[m] EXCEPT !.state = "completed"] = S.messages[m]
           /\ S.messages[m].state = "completed"
           /\ \A n \in MessageRefs : n # m => S.messages[n] = S0.messages[n]
           /\ S.requests = S0.requests
           /\ UpdateAttempt(S, a, S.attempts[a]) = S
           /\ UpdateMessage(S, m, S.messages[m]) = S
<1> DEFINE S == CheckpointStore(S0, a, "completed")
           m == S0.attempts[a].msg
           att == AttemptAfter(S0, a, "completed")
           msg == [S0.messages[m] EXCEPT !.state = "completed"]
           count == S0.checkpoints[a].count
<1>1. /\ a \in AttemptRefs /\ m \in MessageRefs /\ Saved(S0, m)
      /\ S0.attempts[a] \in Attempt /\ S0.messages[m] \in Message
      /\ S0.checkpoints[a] \in Checkpoints
  BY StoreParts DEF MayReport, Live, Open, Sound, AttemptFounded, Exists
<1>2. S = [S0 EXCEPT !.checkpoints[a] = [count |-> count + 1,
                         reported |-> S0.checkpoints[a].reported \cup {"completed"}],
                     !.attempts[a] = att, !.messages[m] = msg]
  <2>1. SaveCheckpoint(S0, a, "completed").checkpoints[a].count = count + 1
    BY <1>1 DEF SaveCheckpoint, Store, Checkpoints
  <2>2. MessageStateAfter("completed", S0.messages[m].state) = "completed"
    BY DEF MessageStateAfter
  <2> QED BY <1>1, <2>1, <2>2
          DEF CheckpointStore, SaveCheckpoint, UpdateAttempt, UpdateMessage, AttemptAfter
<1>3. /\ S.attempts = [S0.attempts EXCEPT ![a] = att]
      /\ S.messages = [S0.messages EXCEPT ![m] = msg] /\ S.requests = S0.requests
      /\ S \in [requests : {S.requests}, messages : {S.messages}, attempts : {S.attempts},
                checkpoints : {S.checkpoints}, deadLetters : {S.deadLetters}]
  BY <1>2 DEF Store
<1>4. /\ S.attempts[a] = att /\ S.messages[m] = msg
      /\ S.attempts = [S.attempts EXCEPT ![a] = att]
      /\ S.messages = [S.messages EXCEPT ![m] = msg]
      /\ \A n \in MessageRefs : n # m => S.messages[n] = S0.messages[n]
  BY <1>1, <1>3, StoreParts
<1>5. /\ att.msg = m /\ [att EXCEPT !.state = "completed"] = att
      /\ msg.state = "completed" /\ [msg EXCEPT !.state = "completed"] = msg
  BY <1>1 DEF AttemptAfter, Attempt, Message
<1> HIDE DEF att, msg
<1>6. UpdateAttempt(S, a, S.attempts[a]) = S /\ UpdateMessage(S, m, S.messages[m]) = S
  BY <1>3, <1>4 DEF UpdateAttempt, UpdateMessage
<1> QED BY <1>1, <1>3, <1>4, <1>5, <1>6

\* What a completion leaves of the messages and requests, for the ledger D it makes.
LEMMA CompletionLeaves ==
    ASSUME NEW S0 \in Store, Sound(S0), NEW a, MayReport(S0, a),
           NEW D, D = CheckpointStore(S0, a, "completed"), NEW m, m = S0.attempts[a].msg
    PROVE  /\ m \in MessageRefs /\ Saved(S0, m) /\ D.requests = S0.requests
           /\ D.messages[m].state = "completed"
           /\ \A k \in MessageRefs : k # m => D.messages[k] = S0.messages[k]
<1>1. /\ S0.attempts[a].msg \in MessageRefs /\ Saved(S0, S0.attempts[a].msg)
      /\ D.requests = S0.requests
  BY CompletionParts
<1>2. a \in AttemptRefs /\ Exists(S0, a) /\ "completed" \in CheckpointState
  <2>1. a \in AttemptRefs /\ Exists(S0, a)
    BY DEF MayReport, Live, Open, Exists
  <2>2. "completed" \in CheckpointState
    BY DEF CheckpointState, AttemptState
  <2> QED BY <2>1, <2>2
<1>3. /\ D.messages[m].state = MessageStateAfter("completed", S0.messages[m].state)
      /\ \A k \in MessageRefs : k # m => D.messages[k] = S0.messages[k]
  <2>1. \A s \in CheckpointState : LET T == CheckpointStore(S0, a, s) IN
          /\ T.messages[m].state = MessageStateAfter(s, S0.messages[m].state)
          /\ \A k \in MessageRefs : k # m => T.messages[k] = S0.messages[k]
    BY <1>2, CheckpointParts
  <2> QED BY <1>2, <2>1
<1> QED BY <1>1, <1>3 DEF MessageStateAfter

\* What a completion that is under way may rely on.
LEMMA CompletingParts ==
    ASSUME SerialInv, NEW h \in Handlers, Turn(h),
           calls[h].pc \in {"reread", "reread_message", "close", "finish"}
    PROVE  LET c == calls[h] IN
           /\ c \in Call /\ CompletionUnderway(settled, store, c)
           /\ MayReport(settled, c.a) /\ c.att.msg = settled.attempts[c.a].msg
           /\ store = CheckpointStore(settled, c.a, "completed")
           /\ store.attempts[c.a].msg = c.att.msg
           /\ [store.attempts[c.a] EXCEPT !.state = "completed"] = store.attempts[c.a]
           /\ [store.messages[c.att.msg] EXCEPT !.state = "completed"] = store.messages[c.att.msg]
           /\ UpdateAttempt(store, c.a, store.attempts[c.a]) = store
           /\ UpdateMessage(store, c.att.msg, store.messages[c.att.msg]) = store
<1> DEFINE c == calls[h]
<1>1. /\ c \in Call /\ CompletionUnderway(settled, store, c)
      /\ settled \in Store /\ Sound(settled)
  BY TurnParts, UnderwayAt DEF At
<1>2. /\ MayReport(settled, c.a) /\ c.att.msg = settled.attempts[c.a].msg
      /\ store = CheckpointStore(settled, c.a, "completed")
  BY <1>1 DEF CompletionUnderway
<1> HIDE DEF c
<1>3. LET S == CheckpointStore(settled, c.a, "completed")
          m == settled.attempts[c.a].msg IN
      /\ S.attempts[c.a].msg = m
      /\ [S.attempts[c.a] EXCEPT !.state = "completed"] = S.attempts[c.a]
      /\ [S.messages[m] EXCEPT !.state = "completed"] = S.messages[m]
      /\ UpdateAttempt(S, c.a, S.attempts[c.a]) = S
      /\ UpdateMessage(S, m, S.messages[m]) = S
  BY <1>1, <1>2, CompletionParts
<1>4. /\ store.attempts[c.a].msg = c.att.msg
      /\ [store.attempts[c.a] EXCEPT !.state = "completed"] = store.attempts[c.a]
      /\ [store.messages[c.att.msg] EXCEPT !.state = "completed"] = store.messages[c.att.msg]
      /\ UpdateAttempt(store, c.a, store.attempts[c.a]) = store
      /\ UpdateMessage(store, c.att.msg, store.messages[c.att.msg]) = store
  BY <1>2, <1>3
<1> QED BY <1>1, <1>2, <1>4 DEF c

\* A completion reads its attempt again, as its checkpoint left it,
LEMMA RereadAttemptAgrees ==
    ASSUME SerialInv, StepsInv', NEW h \in Handlers, Turn(h), RereadAttempt(h)
    PROVE  Agrees
<1> DEFINE c == calls[h]
           att == [store.attempts[c.a] EXCEPT !.state = "completed"]
           d == [c EXCEPT !.pc = "reread_message", !.att = att]
<1>1. /\ c \in Call /\ MayReport(settled, c.a)
      /\ store = CheckpointStore(settled, c.a, "completed")
      /\ ReadOnly
  BY CompletingParts DEF RereadAttempt, At
<1>2. att = store.attempts[c.a] /\ att.msg = settled.attempts[c.a].msg
  BY CompletingParts DEF RereadAttempt, At
<1>3. Continue(h, d)
  <2>1. To(c, "reread_message") = [c EXCEPT !.pc = "reread_message"]
    BY DEF To
  <2> QED BY <1>1, <2>1 DEF RereadAttempt, Call
<1> HIDE DEF att, c
<1>4. d.pc = "reread_message" /\ d.att = att /\ d.a = c.a
  BY <1>1 DEF Call
<1> HIDE DEF d
<1>5. store' = store /\ UNCHANGED endpoints
  BY <1>1 DEF ReadOnly
<1>6. CompletionUnderway(settled, store', d)
  BY <1>1, <1>2, <1>4, <1>5 DEF CompletionUnderway
<1> QED BY <1>3, <1>4, <1>5, <1>6, GoesOn DEF Underway

\* and its message;
LEMMA RereadMessageAgrees ==
    ASSUME SerialInv, StepsInv', NEW h \in Handlers, Turn(h), RereadMessage(h)
    PROVE  Agrees
<1> DEFINE c == calls[h]
           msg == [store.messages[c.att.msg] EXCEPT !.state = "completed"]
           d == [c EXCEPT !.pc = "close", !.msg = msg]
<1>1. /\ c \in Call /\ CompletionUnderway(settled, store, c) /\ c.pc = "reread_message"
      /\ MayReport(settled, c.a) /\ c.att.msg = settled.attempts[c.a].msg
      /\ store = CheckpointStore(settled, c.a, "completed")
      /\ ReadOnly
  BY CompletingParts DEF RereadMessage, At
<1>2. msg = store.messages[c.att.msg]
  BY CompletingParts DEF RereadMessage, At
<1>3. Continue(h, d)
  <2>1. To(c, "close") = [c EXCEPT !.pc = "close"]
    BY DEF To
  <2> QED BY <1>1, <2>1 DEF RereadMessage, Call
<1> HIDE DEF msg, c
<1>4. d.pc = "close" /\ d.att = c.att /\ d.msg = msg /\ d.a = c.a
  BY <1>1 DEF Call
<1> HIDE DEF d
<1>5. store' = store /\ UNCHANGED endpoints
  BY <1>1 DEF ReadOnly
<1>6. CompletionUnderway(settled, store', d)
  BY <1>1, <1>2, <1>4, <1>5 DEF CompletionUnderway
<1> QED BY <1>3, <1>4, <1>5, <1>6, GoesOn DEF Underway

\* writing them back changes nothing,
LEMMA CloseAttemptAgrees ==
    ASSUME SerialInv, StepsInv', NEW h \in Handlers, Turn(h), CloseAttempt(h)
    PROVE  Agrees
<1> DEFINE c == calls[h]
           d == [To(c, "finish") EXCEPT !.att = OnlyMessageRef(@)]
<1>1. /\ c \in Call /\ CompletionUnderway(settled, store, c) /\ c.pc = "close"
      /\ MayReport(settled, c.a) /\ c.att.msg = settled.attempts[c.a].msg
      /\ store = CheckpointStore(settled, c.a, "completed")
      /\ Continue(h, d) /\ Write(UpdateAttempt(store, c.a, c.att))
  BY CompletingParts DEF CloseAttempt, At
<1>2. c.att = store.attempts[c.a] /\ c.msg = store.messages[c.att.msg]
  BY <1>1 DEF CompletionUnderway
<1>3. store' = store /\ UNCHANGED endpoints
  BY <1>1, <1>2, CompletingParts DEF Write
<1>4. /\ d.pc = "finish" /\ d.att.msg = c.att.msg /\ d.a = c.a /\ d.msg = c.msg
  BY <1>1, RestOfAttempt DEF Step
<1> HIDE DEF c, d
<1>5. CompletionUnderway(settled, store', d)
  BY <1>1, <1>2, <1>3, <1>4 DEF CompletionUnderway
<1> QED BY <1>1, <1>3, <1>4, <1>5, GoesOn DEF Underway

\* A completion without follow-ups is its checkpoint.
LEMMA NoFollowUps ==
    ASSUME NEW S0 \in Store, Sound(S0), NEW a, MayReport(S0, a), NEW follow, DOMAIN follow = {}
    PROVE  CompletedStore(S0, a, follow) = CheckpointStore(S0, a, "completed")
<1> DEFINE S == CheckpointStore(S0, a, "completed")
<1>1. CheckpointStore(S0, a, "completed") \in Store
  <2>1. a \in AttemptRefs /\ Exists(S0, a) /\ "completed" \in CheckpointState
    BY DEF MayReport, Live, Open, Exists, CheckpointState, AttemptState
  <2> QED BY <2>1, CheckpointStoreKept DEF Kept
<1> HIDE DEF S
<1>2. S \in Store
  BY <1>1 DEF S
<1>3. [n \in MessageRefs |-> S.requests[n]] = S.requests /\ [n \in MessageRefs |-> S.messages[n]] = S.messages
  BY <1>2, StoreParts
<1>4. [S EXCEPT !.requests = [n \in MessageRefs |-> S.requests[n]],
                !.messages = [n \in MessageRefs |-> S.messages[n]]] = S
  BY <1>2, <1>3 DEF Store
<1>5. CompletedStore(S0, a, follow) = [S EXCEPT !.requests = [n \in MessageRefs |-> S.requests[n]],
                !.messages = [n \in MessageRefs |-> S.messages[n]]]
  BY DEF CompletedStore, S
<1> QED BY <1>4, <1>5 DEF S

\* and where no follow-up is to come the completion is done.
LEMMA CloseMessageAgrees ==
    ASSUME SerialInv, StepsInv', NEW h \in Handlers, Turn(h), CloseMessage(h)
    PROVE  Agrees
<1> DEFINE c == calls[h]
           none == [n \in {} |-> NoRequest]
<1>1. /\ c \in Call /\ CompletionUnderway(settled, store, c) /\ c.pc = "finish"
      /\ MayReport(settled, c.a) /\ c.att.msg = settled.attempts[c.a].msg
      /\ store = CheckpointStore(settled, c.a, "completed")
      /\ Write(UpdateMessage(store, c.att.msg, c.msg))
      /\ Continue(h, IF c.left > 0 THEN To(c, "follow") ELSE Idle)
  BY CompletingParts DEF CloseMessage, At
<1>2. c.msg = store.messages[c.att.msg]
  BY <1>1 DEF CompletionUnderway
<1>3. store' = store /\ UNCHANGED endpoints
  BY <1>1, <1>2, CompletingParts DEF Write
<1>4. store' = CompletedStore(settled, c.a, none)
  BY <1>1, <1>3, TurnParts, NoFollowUps
<1>5. {} \in SUBSET MessageRefs /\ none \in [{} -> Requests]
  OBVIOUS
<1>6. IsFiniteSet({}) /\ Cardinality({}) = 0
  BY FS_EmptySet
<1>7. c.left \in 0..MaxFollowUps /\ MaxFollowUps \in Nat
  BY <1>1, CallParts, HandoffAssumption
<1>8. CASE c.left > 0
  <2> DEFINE d == [c EXCEPT !.pc = "follow"]
  <2>1. Continue(h, d)
    BY <1>1, <1>8 DEF To
  <2>2. d.pc = "follow" /\ d.att = c.att /\ d.a = c.a /\ d.left = c.left
    BY <1>1 DEF Call
  <2> HIDE DEF d, c, none
  <2>3. Cardinality({}) + d.left <= MaxFollowUps
    BY <1>6, <1>7, <2>2
  <2>4. \E F \in SUBSET MessageRefs : \E follow \in [F -> Requests] :
          /\ IsFiniteSet(F) /\ Cardinality(F) + d.left <= MaxFollowUps
          /\ \A n \in F : ~Saved(settled, n) /\ IngressRouteAvailable(follow[n])
          /\ store' = CompletedStore(settled, c.a, follow)
    BY <1>4, <1>5, <1>6, <2>3, Zenon
  <2>5. FollowUnderway(settled, store', d)
    BY <1>1, <1>8, <2>2, <2>4 DEF FollowUnderway
  <2> QED BY <1>3, <2>1, <2>2, <2>5, GoesOn DEF Underway
<1>9. CASE ~(c.left > 0)
  <2>1. settled' = store' /\ (Atomic!Next => Agrees)
    BY <1>1, <1>9, Ends
  <2>2. Cardinality({}) <= MaxFollowUps
    BY <1>6, <1>7
  <2>3. /\ c.a \in AttemptRefs /\ Live(settled, c.a)
        /\ settled.checkpoints[c.a].count < MaxCheckpoints
    BY <1>1 DEF MayReport
  <2>4. settled' = CompletedStore(settled, c.a, none)
    BY <1>4, <2>1
  <2> HIDE DEF none, c
  <2>5. Atomic!Next
    BY <1>3, <1>5, <2>2, <2>3, <2>4, AtomicComplete, Zenon
  <2> QED BY <2>1, <2>5
<1> QED BY <1>8, <1>9

\* Each follow-up that is accepted adds to what the completion leaves.
LEMMA OneMoreFollowUp ==
    ASSUME NEW S0 \in Store, Sound(S0), NEW a, MayReport(S0, a),
           NEW F \in SUBSET MessageRefs, NEW follow \in [F -> Requests],
           \A k \in F : ~Saved(S0, k),
           NEW n \in MessageRefs, ~Saved(CompletedStore(S0, a, follow), n), NEW r \in Requests
    PROVE  LET S == CompletedStore(S0, a, follow)
               m == S0.attempts[a].msg
               more == [k \in F \cup {n} |-> IF k = n THEN r ELSE follow[k]]
           IN  /\ n \notin F /\ ~Saved(S0, n)
               /\ SaveMessage(S, n, FollowUpRequest(r, m, S.requests[m].task))
                     = CompletedStore(S0, a, more)
<1> DEFINE D == CheckpointStore(S0, a, "completed")
           S == CompletedStore(S0, a, follow)
           m == S0.attempts[a].msg
           fresh == [AbsentMessage EXCEPT !.state = "available"]
           t == S0.requests[m].task
           Asked(f) == [k \in MessageRefs |->
                          IF k \in DOMAIN f THEN FollowUpRequest(f[k], m, t) ELSE D.requests[k]]
           Shown(f) == [k \in MessageRefs |-> IF k \in DOMAIN f THEN fresh ELSE D.messages[k]]
           more == [k \in F \cup {n} |-> IF k = n THEN r ELSE follow[k]]
<1>1. /\ m \in MessageRefs /\ Saved(S0, m) /\ D.requests = S0.requests
      /\ D.messages[m].state = "completed"
      /\ \A k \in MessageRefs : k # m => D.messages[k] = S0.messages[k]
  BY CompletionLeaves
<1>2. D \in Store
  <2>1. a \in AttemptRefs /\ Exists(S0, a) /\ "completed" \in CheckpointState
    BY DEF MayReport, Live, Open, Exists, CheckpointState, AttemptState
  <2> QED BY <2>1, CheckpointStoreKept DEF Kept
<1>3. /\ S = [D EXCEPT !.requests = Asked(follow), !.messages = Shown(follow)]
      /\ CompletedStore(S0, a, more) = [D EXCEPT !.requests = Asked(more), !.messages = Shown(more)]
  BY DEF CompletedStore
<1>4. fresh.state = "available"
  BY DEF AbsentMessage
<1>5. DOMAIN follow = F /\ DOMAIN more = F \cup {n} /\ more[n] = r
      /\ \A k \in F : k # n => more[k] = follow[k]
  OBVIOUS
<1> HIDE DEF D, fresh, more
<1>6. /\ S.requests = Asked(follow) /\ S.messages = Shown(follow)
      /\ \A q : SaveMessage(S, n, q) =
            [D EXCEPT !.requests = [Asked(follow) EXCEPT ![n] = q],
                      !.messages = [Shown(follow) EXCEPT ![n] = fresh]]
  <2> HIDE DEF S
  <2> DEFINE A == Asked(follow)
             B == Shown(follow)
  <2> HIDE DEF A, B
  <2>1. S = [D EXCEPT !.requests = A, !.messages = B]
    BY <1>3 DEF A, B
  <2>2. /\ S.requests = A /\ S.messages = B
        /\ \A q : [S EXCEPT !.requests[n] = q, !.messages[n] = fresh] =
              [D EXCEPT !.requests = [A EXCEPT ![n] = q], !.messages = [B EXCEPT ![n] = fresh]]
    BY <1>2, <2>1 DEF Store
  <2> QED BY <2>2 DEF A, B, SaveMessage, fresh
<1>7. n \notin F /\ S.messages[n] = D.messages[n] /\ D.messages[n].state = "absent"
  BY <1>4, <1>5, <1>6 DEF Saved
<1>8. n # m /\ ~Saved(S0, n)
  BY <1>1, <1>7 DEF Saved
<1>9. S.requests[m] = S0.requests[m]
  <2>1. m \notin DOMAIN follow
    BY <1>1, <1>5
  <2>2. Asked(follow)[m] = D.requests[m]
    BY <1>1, <2>1
  <2> HIDE DEF S, m
  <2> QED BY <1>1, <1>6, <2>2
<1>10. /\ Asked(more) = [Asked(follow) EXCEPT ![n] = FollowUpRequest(r, m, t)]
       /\ Shown(more) = [Shown(follow) EXCEPT ![n] = fresh]
  BY <1>5, <1>7
<1>11. SaveMessage(S, n, FollowUpRequest(r, m, t)) = CompletedStore(S0, a, more)
  BY <1>3, <1>6, <1>10
<1> QED BY <1>7, <1>8, <1>9, <1>11 DEF more

\* A follow-up is saved: the last one, or one more.
LEMMA SubmitFollowUpAgrees ==
    ASSUME SerialInv, StepsInv', NEW h \in Handlers, Turn(h), NEW n \in MessageRefs,
           NEW r \in Requests, SubmitFollowUp(h, n, r)
    PROVE  Agrees
<1> DEFINE c == calls[h]
           q == FollowUpRequest(r, c.att.msg, store.requests[c.att.msg].task)
<1>1. /\ c \in Call /\ FollowUnderway(settled, store, c)
      /\ IngressRouteAvailable(r) /\ ~Saved(store, n)
      /\ store' = SaveMessage(store, n, q) /\ UNCHANGED endpoints
      /\ Continue(h, IF c.left > 1 THEN [c EXCEPT !.left = @ - 1] ELSE Idle)
  BY TurnParts, UnderwayAt DEF SubmitFollowUp, At, IngressMessage
<1>2. /\ MayReport(settled, c.a) /\ c.left > 0 /\ c.att.msg = settled.attempts[c.a].msg
      /\ c.left \in Nat /\ MaxFollowUps \in Nat /\ c.pc = "follow"
  <2>1. c \in Call /\ FollowUnderway(settled, store, c)
    BY <1>1
  <2>2. c.left \in 0..MaxFollowUps /\ MaxFollowUps \in Nat
    BY ONLY <2>1, CallParts, HandoffAssumption
  <2> QED BY ONLY <2>1, <2>2 DEF FollowUnderway
<1>3. PICK F \in SUBSET MessageRefs : \E follow \in [F -> Requests] :
          /\ IsFiniteSet(F) /\ Cardinality(F) + c.left <= MaxFollowUps
          /\ \A k \in F : ~Saved(settled, k) /\ IngressRouteAvailable(follow[k])
          /\ store = CompletedStore(settled, c.a, follow)
  BY <1>1 DEF FollowUnderway
<1>4. PICK follow \in [F -> Requests] :
          /\ IsFiniteSet(F) /\ Cardinality(F) + c.left <= MaxFollowUps
          /\ \A k \in F : ~Saved(settled, k) /\ IngressRouteAvailable(follow[k])
          /\ store = CompletedStore(settled, c.a, follow)
  BY <1>3
<1> DEFINE G == F \cup {n}
           more == [k \in G |-> IF k = n THEN r ELSE follow[k]]
<1> HIDE DEF c
<1>5. /\ n \notin F /\ ~Saved(settled, n)
      /\ store' = CompletedStore(settled, c.a, more)
  <2>1. ~Saved(CompletedStore(settled, c.a, follow), n)
    BY <1>1, <1>4
  <2>2. LET S == CompletedStore(settled, c.a, follow)
            m == settled.attempts[c.a].msg
        IN  /\ n \notin F /\ ~Saved(settled, n)
            /\ SaveMessage(S, n, FollowUpRequest(r, m, S.requests[m].task))
                  = CompletedStore(settled, c.a, more)
    <3>1. settled \in Store /\ Sound(settled)
      BY TurnParts
    <3>2. MayReport(settled, c.a) /\ \A k \in F : ~Saved(settled, k)
      BY <1>2, <1>4
    <3> HIDE DEF more
    <3>3. more = [k \in F \cup {n} |-> IF k = n THEN r ELSE follow[k]]
      BY DEF more
    <3> QED BY ONLY <2>1, <3>1, <3>2, <3>3, F \in SUBSET MessageRefs, follow \in [F -> Requests],
                    n \in MessageRefs, r \in Requests, OneMoreFollowUp
  <2> HIDE DEF more
  <2>3. SaveMessage(store, n, q) = CompletedStore(settled, c.a, more)
    BY <1>2, <1>4, <2>2
  <2> QED BY <1>1, <2>2, <2>3
<1>6. IsFiniteSet(G) /\ Cardinality(G) = Cardinality(F) + 1 /\ Cardinality(F) \in Nat
  BY <1>4, <1>5, FS_AddElement, FS_CardinalityType
<1>7. G \in SUBSET MessageRefs /\ more \in [G -> Requests]
  OBVIOUS
<1>8. \A k \in G : ~Saved(settled, k) /\ IngressRouteAvailable(more[k])
  BY <1>1, <1>4, <1>5
<1> HIDE DEF more, G
<1>9. CASE c.left > 1
  <2> DEFINE d == [c EXCEPT !.left = c.left - 1]
  <2>1. Continue(h, d)
    BY <1>1, <1>9
  <2>2. d.pc = "follow" /\ d.att = c.att /\ d.a = c.a /\ d.left = c.left - 1
    BY <1>1, <1>2 DEF Call
  <2> HIDE DEF d
  <2>3. Cardinality(G) + d.left <= MaxFollowUps /\ d.left > 0
    BY <1>2, <1>4, <1>6, <1>9, <2>2
  <2>4. \E F2 \in SUBSET MessageRefs : \E follow2 \in [F2 -> Requests] :
          /\ IsFiniteSet(F2) /\ Cardinality(F2) + d.left <= MaxFollowUps
          /\ \A k \in F2 : ~Saved(settled, k) /\ IngressRouteAvailable(follow2[k])
          /\ store' = CompletedStore(settled, c.a, follow2)
    BY <1>5, <1>6, <1>7, <1>8, <2>3, Zenon
  <2>5. FollowUnderway(settled, store', d)
    BY <1>2, <2>2, <2>3, <2>4 DEF FollowUnderway
  <2> QED BY <1>1, <2>1, <2>2, <2>5, GoesOn DEF Underway
<1>10. CASE ~(c.left > 1)
  <2>1. settled' = store' /\ (Atomic!Next => Agrees)
    BY <1>1, <1>10, Ends
  <2>2. Cardinality(G) <= MaxFollowUps
    BY <1>2, <1>4, <1>6
  <2>3. /\ c.a \in AttemptRefs /\ Live(settled, c.a)
        /\ settled.checkpoints[c.a].count < MaxCheckpoints
    BY <1>2 DEF MayReport
  <2>4. settled' = CompletedStore(settled, c.a, more)
    BY <1>5, <2>1
  <2>5. Atomic!Next
    BY <1>1, <1>7, <1>8, <2>2, <2>3, <2>4, AtomicComplete, Zenon
  <2> QED BY <2>1, <2>5
<1> QED BY <1>9, <1>10

\* A follow-up that is refused ends the completion with those before it.
LEMMA FollowUpRefusedAgrees ==
    ASSUME SerialInv, StepsInv', NEW h \in Handlers, Turn(h), FollowUpRefused(h)
    PROVE  Agrees
<1> DEFINE c == calls[h]
<1>1. /\ c \in Call /\ FollowUnderway(settled, store, c)
      /\ store' = store /\ UNCHANGED endpoints /\ Continue(h, Idle)
  BY TurnParts, UnderwayAt DEF FollowUpRefused, At, ReadOnly
<1>2. settled' = store' /\ (Atomic!Next => Agrees)
  BY <1>1, Ends
<1>3. /\ MayReport(settled, c.a) /\ c.left \in Nat /\ MaxFollowUps \in Nat
  BY <1>1, CallParts, HandoffAssumption DEF FollowUnderway
<1>4. PICK F \in SUBSET MessageRefs : \E follow \in [F -> Requests] :
          /\ IsFiniteSet(F) /\ Cardinality(F) + c.left <= MaxFollowUps
          /\ \A k \in F : ~Saved(settled, k) /\ IngressRouteAvailable(follow[k])
          /\ store = CompletedStore(settled, c.a, follow)
  BY <1>1 DEF FollowUnderway
<1>5. PICK follow \in [F -> Requests] :
          /\ IsFiniteSet(F) /\ Cardinality(F) + c.left <= MaxFollowUps
          /\ \A k \in F : ~Saved(settled, k) /\ IngressRouteAvailable(follow[k])
          /\ store = CompletedStore(settled, c.a, follow)
  BY <1>4
<1> HIDE DEF c
<1>6. Cardinality(F) <= MaxFollowUps
  BY <1>3, <1>5, FS_CardinalityType
<1>7. /\ c.a \in AttemptRefs /\ Live(settled, c.a)
      /\ settled.checkpoints[c.a].count < MaxCheckpoints
  BY <1>3 DEF MayReport
<1>8. settled' = CompletedStore(settled, c.a, follow)
  BY <1>1, <1>2, <1>5
<1>9. Atomic!Next
  BY <1>1, <1>5, <1>6, <1>7, <1>8, AtomicComplete, Zenon
<1> QED BY <1>2, <1>9

-----------------------------------------------------------------------------
(* Refreshes and claims.                                                   *)

\* A refresh copies a live attempt,
LEMMA BeginRefreshAgrees ==
    ASSUME SerialInv, StepsInv', NEW h \in Handlers, Turn(h), NEW a \in AttemptRefs,
           BeginRefresh(h, a)
    PROVE  Agrees
<1> DEFINE att == [store.attempts[a] EXCEPT !.lease = LeaseTicks]
           d == [Idle EXCEPT !.pc = "lease", !.a = a, !.att = att]
<1>1. settled = store /\ Live(store, a) /\ Continue(h, d) /\ ReadOnly
  BY TurnParts DEF BeginRefresh
<1>2. att = [settled.attempts[a] EXCEPT !.lease = LeaseTicks]
  BY <1>1
<1> HIDE DEF att
<1>3. d.pc = "lease" /\ d.a = a /\ d.att = att
  BY IdleParts DEF Call
<1> HIDE DEF d
<1>4. store' = store /\ UNCHANGED endpoints
  BY <1>1 DEF ReadOnly
<1>5. RefreshUnderway(settled, store', d)
  BY <1>1, <1>2, <1>3, <1>4 DEF RefreshUnderway
<1> QED BY <1>1, <1>3, <1>4, <1>5, GoesOn DEF Underway

\* and writes it back with a full lease.
LEMMA WriteLeaseAgrees ==
    ASSUME SerialInv, StepsInv', NEW h \in Handlers, Turn(h), WriteLease(h)
    PROVE  Agrees
<1> DEFINE c == calls[h]
<1>1. /\ RefreshUnderway(settled, store, c)
      /\ store' = UpdateAttempt(store, c.a, c.att) /\ UNCHANGED endpoints /\ Continue(h, Idle)
  BY TurnParts, UnderwayAt DEF WriteLease, At, Write
<1>2. settled' = store' /\ (Atomic!Next => Agrees)
  BY <1>1, Ends
<1> HIDE DEF c
<1>3. /\ c.a \in AttemptRefs /\ Live(settled, c.a)
      /\ settled' = UpdateAttempt(settled, c.a, [settled.attempts[c.a] EXCEPT !.lease = LeaseTicks])
  BY <1>1, <1>2 DEF RefreshUnderway
<1> QED BY <1>1, <1>2, <1>3, AtomicRefresh

\* Nothing runs out while a claim is served alone: it grants the full lease.
LEMMA FullLease ==
    ASSUME NEW S \in Store, NEW m \in MessageRefs, NEW e \in Endpoints, NEW a \in AttemptRefs,
           Grants(S, m)
    PROVE  /\ Granted(ClaimMessageStore(S, m, e, a), a, LeaseTicks) = ClaimMessageStore(S, m, e, a)
           /\ IsTakeoverCandidate(S, m) \/ S.messages[m].state = "available" =>
                 Granted(ClaimNextStore(S, m, e, a), a, LeaseTicks) = ClaimNextStore(S, m, e, a)
<1>1. ASSUME NEW R \in Store, NEW n PROVE Granted(ClaimAt(R, m, e, a, n), a, LeaseTicks)
                                             = ClaimAt(R, m, e, a, n)
  <2> DEFINE att == [state |-> "claimed", msg |-> m, ep |-> e,
                     lease |-> LeaseTicks, rev |-> 1, epoch |-> n + 1]
             rec == [state |-> "claimed", attempt |-> a, redelivery |-> n]
             C == [R EXCEPT !.attempts[a] = att, !.messages[m] = rec]
  <2>1. [att EXCEPT !.lease = LeaseTicks] = att
    OBVIOUS
  <2> HIDE DEF att, rec
  <2>2. C.attempts = [R.attempts EXCEPT ![a] = att] /\ C.attempts[a] = att
    BY <1>1, StoreParts DEF Store
  <2>3. [C EXCEPT !.attempts[a] = att] = C
    BY <1>1, <2>2 DEF Store
  <2> QED BY <2>1, <2>2, <2>3 DEF Granted, UpdateAttempt, ClaimAt, att, rec
<1>2. OrphanCurrent(S, m) \in Store \/ ~LeaseRanOut(S, m)
  <2> SUFFICES ASSUME LeaseRanOut(S, m) PROVE OrphanCurrent(S, m) \in Store
    OBVIOUS
  <2>1. S.messages[m].attempt \in AttemptRefs
    BY StoreParts DEF LeaseRanOut, HasCurrentAttempt, Message
  <2>2. "orphaned" \in AttemptState
    BY DEF AttemptState
  <2>3. [S.attempts[S.messages[m].attempt] EXCEPT !.state = "orphaned"] \in Attempt
    BY <2>1, <2>2, StoreParts DEF Attempt
  <2> QED BY <2>1, <2>3 DEF OrphanCurrent, Store
<1>3. \E R \in Store : \E n : ClaimMessageStore(S, m, e, a) = ClaimAt(R, m, e, a, n)
  BY <1>2 DEF Grants, ClaimMessageStore, ClaimAvailableMessage, TakeoverMessage
<1>4. IsTakeoverCandidate(S, m) \/ S.messages[m].state = "available" =>
         \E R \in Store : \E n : ClaimNextStore(S, m, e, a) = ClaimAt(R, m, e, a, n)
  BY DEF Grants, ClaimNextStore, ClaimAvailableMessage, TakeoverMessage, IsTakeoverCandidate
<1> QED BY <1>1, <1>3, <1>4

\* A claim of a message is checked,
LEMMA BeginClaimAgrees ==
    ASSUME SerialInv, StepsInv', NEW h \in Handlers, Turn(h), NEW e \in Endpoints,
           NEW m \in MessageRefs, BeginClaim(h, e, m)
    PROVE  Agrees
<1> DEFINE att == Claimant(m, e)
           d == [Idle EXCEPT !.pc = "claim", !.att = att]
<1>1. settled = store /\ MayClaimIn(settled, e, m) /\ Continue(h, d) /\ ReadOnly
  BY TurnParts DEF BeginClaim, MayClaim, MayClaimIn
<1>2. att.msg = m /\ att.ep = e /\ att.lease = LeaseTicks
  BY DEF Claimant, AbsentAttempt
<1> HIDE DEF att
<1>3. d.pc = "claim" /\ d.att = att
  BY IdleParts DEF Call
<1> HIDE DEF d
<1>4. store' = store /\ UNCHANGED endpoints
  BY <1>1 DEF ReadOnly
<1>5. ClaimUnderway(settled, store', d)
  BY <1>1, <1>2, <1>3, <1>4 DEF ClaimUnderway
<1> QED BY <1>1, <1>3, <1>4, <1>5, GoesOn DEF Underway

\* and then made on the ledger it was checked against.
LEMMA CommitClaimAgrees ==
    ASSUME SerialInv, StepsInv', NEW h \in Handlers, Turn(h), NEW a \in AttemptRefs,
           CommitClaim(h, a)
    PROVE  Agrees
<1> DEFINE m == calls[h].att.msg
           e == calls[h].att.ep
           T == ClaimMessageStore(store, m, e, a)
<1>1. /\ ClaimUnderway(settled, store, calls[h]) /\ calls[h].pc = "claim"
      /\ settled \in Store
  BY TurnParts, UnderwayAt DEF CommitClaim, At
<1>2. /\ store = settled /\ m \in MessageRefs /\ e \in Endpoints /\ MayClaimIn(settled, e, m)
      /\ calls[h].att.lease = LeaseTicks
  BY <1>1 DEF ClaimUnderway
<1>3. /\ Grants(store, m) => ~Exists(store, a) /\ store' = Granted(T, a, LeaseTicks)
      /\ ~Grants(store, m) => store' = T
      /\ UNCHANGED endpoints /\ Continue(h, Idle)
  BY <1>2 DEF CommitClaim, Write
<1> HIDE DEF m, e
<1>4. store' = T
  <2>1. store \in Store
    BY <1>1, <1>2
  <2>2. Grants(store, m) => Granted(T, a, LeaseTicks) = T
    BY <1>2, <2>1, FullLease
  <2> HIDE DEF T
  <2> QED BY <1>3, <2>2
<1>5. settled' = store' /\ (Atomic!Next => Agrees)
  BY <1>3, Ends
<1>6. settled' = ClaimMessageStore(settled, m, e, a)
  BY <1>2, <1>4, <1>5
<1>7. Atomic!Next
  BY <1>2, <1>3, <1>6, AtomicClaim
<1> QED BY <1>5, <1>7

\* A claim of the next message starts from an endpoint that is online,
LEMMA BeginClaimNextAgrees ==
    ASSUME SerialInv, StepsInv', NEW h \in Handlers, Turn(h), NEW e \in Endpoints,
           BeginClaimNext(h, e)
    PROVE  Agrees
<1> DEFINE att == Claimant(NoMessage, e)
           names == endpoints[e].names
           d == [Idle EXCEPT !.pc = "reconcile", !.names = names, !.att = att]
<1>1. settled = store /\ ~EndpointIsStale(e) /\ Continue(h, d) /\ ReadOnly
  BY TurnParts DEF BeginClaimNext
<1>2. att.ep = e /\ att.lease = LeaseTicks
  BY DEF Claimant, AbsentAttempt
<1> HIDE DEF att
<1>3. d.pc = "reconcile" /\ d.att = att /\ d.names = endpoints[e].names
  BY IdleParts DEF Call
<1> HIDE DEF d
<1>4. store' = store /\ UNCHANGED endpoints
  BY <1>1 DEF ReadOnly
<1>5. ClaimUnderway(settled, store', d)
  BY <1>1, <1>2, <1>3, <1>4 DEF ClaimUnderway
<1> QED BY <1>1, <1>3, <1>4, <1>5, GoesOn DEF Underway

\* reconciles,
LEMMA ReconcileFirstAgrees ==
    ASSUME SerialInv, StepsInv', NEW h \in Handlers, Turn(h), ReconcileFirst(h)
    PROVE  Agrees
<1> DEFINE c == calls[h]
           online == OnlineEndpoints
           d == [c EXCEPT !.pc = "next", !.online = online]
<1>1. /\ c \in Call /\ ClaimUnderway(settled, store, c) /\ c.pc = "reconcile"
      /\ store' = ReconcileStore(store) /\ UNCHANGED endpoints
  BY TurnParts, UnderwayAt DEF ReconcileFirst, At, Write
<1>2. Continue(h, d)
  <2>1. To(c, "next") = [c EXCEPT !.pc = "next"]
    BY DEF To
  <2>2. [To(c, "next") EXCEPT !.online = online] = d
    BY <1>1, <2>1 DEF Call
  <2> QED BY <2>2 DEF ReconcileFirst
<1> HIDE DEF c
<1>3. d.pc = "next" /\ d.att = c.att /\ d.names = c.names /\ d.online = OnlineEndpoints
  BY <1>1 DEF Call
<1> HIDE DEF d
<1>4. ClaimUnderway(settled, store', d)
  BY <1>1, <1>3 DEF ClaimUnderway
<1> QED BY <1>1, <1>2, <1>3, <1>4, GoesOn DEF Underway

\* and claims on the reconciled ledger,
LEMMA CommitClaimNextAgrees ==
    ASSUME SerialInv, StepsInv', NEW h \in Handlers, Turn(h), NEW m \in MessageRefs,
           NEW a \in AttemptRefs, CommitClaimNext(h, m, a)
    PROVE  Agrees
<1> DEFINE e == calls[h].att.ep
           T == ClaimNextStore(store, m, e, a)
<1>1. /\ ClaimUnderway(settled, store, calls[h]) /\ calls[h].pc = "next"
      /\ store \in Store
  BY TurnParts, UnderwayAt DEF CommitClaimNext, At
<1>2. /\ store = ReconcileStore(settled) /\ e \in Endpoints /\ ~EndpointIsStale(e)
      /\ calls[h].names = endpoints[e].names /\ calls[h].online = OnlineEndpoints
      /\ calls[h].att.lease = LeaseTicks
  BY <1>1 DEF ClaimUnderway
<1>3. /\ IsNext(store, m, e, endpoints[e].names, OnlineEndpoints)
      /\ Grants(store, m) => ~Exists(store, a) /\ store' = Granted(T, a, LeaseTicks)
      /\ ~Grants(store, m) => store' = T
      /\ UNCHANGED endpoints /\ Continue(h, Idle)
  BY <1>2 DEF CommitClaimNext, Write
<1> HIDE DEF e
<1>4. Grants(store, m) => IsTakeoverCandidate(store, m) \/ store.messages[m].state = "available"
  BY <1>3 DEF IsNext, IsFirst, Eligible, Grants, LeaseRanOut
<1>5. store' = T
  BY <1>1, <1>2, <1>3, <1>4, FullLease
<1>6. settled' = store' /\ (Atomic!Next => Agrees)
  BY <1>3, Ends
<1>7. settled' = ClaimNextStore(store, m, e, a)
  BY <1>5, <1>6
<1>8. Atomic!Next
  BY <1>2, <1>3, <1>7, AtomicClaimNext
<1> QED BY <1>6, <1>8

\* or finds nothing there, as the atomic model would.
LEMMA FindNothingAgrees ==
    ASSUME SerialInv, StepsInv', NEW h \in Handlers, Turn(h), FindNothing(h)
    PROVE  Agrees
<1> DEFINE e == calls[h].att.ep
<1>1. /\ ClaimUnderway(settled, store, calls[h]) /\ calls[h].pc = "next"
      /\ store' = store /\ UNCHANGED endpoints /\ Continue(h, Idle)
  BY TurnParts, UnderwayAt DEF FindNothing, At, ReadOnly
<1>2. /\ store = ReconcileStore(settled) /\ e \in Endpoints /\ ~EndpointIsStale(e)
      /\ calls[h].names = endpoints[e].names /\ calls[h].online = OnlineEndpoints
  BY <1>1 DEF ClaimUnderway
<1>3. \A m \in MessageRefs : ~IsNext(store, m, e, endpoints[e].names, OnlineEndpoints)
  BY <1>2 DEF FindNothing
<1> HIDE DEF e
<1>4. settled' = store' /\ (Atomic!Next => Agrees)
  BY <1>1, Ends
<1>5. settled' = store
  BY <1>1, <1>4
<1>6. Atomic!Next
  BY <1>1, <1>2, <1>3, <1>5, AtomicClaimNothing
<1> QED BY <1>4, <1>6

-----------------------------------------------------------------------------
(* Task commands.                                                          *)

\* A command that has changed no message has changed nothing.
LEMMA NothingChanged ==
    ASSUME NEW S0, S0 \in Store
    PROVE  CanceledStore(S0, {}, {}) = S0 /\ RetriedStore(S0, {}) = S0
<1>1. /\ CanceledStore(S0, {}, {})
            = [S0 EXCEPT !.messages = [k \in MessageRefs |-> S0.messages[k]],
                         !.attempts = [k \in AttemptRefs |-> S0.attempts[k]]]
      /\ RetriedStore(S0, {}) = [S0 EXCEPT !.messages = [k \in MessageRefs |-> S0.messages[k]]]
  BY DEF CanceledStore, RetriedStore
<1>2. /\ [k \in MessageRefs |-> S0.messages[k]] = S0.messages
      /\ [k \in AttemptRefs |-> S0.attempts[k]] = S0.attempts
  BY StoreParts
<1>3. /\ [S0 EXCEPT !.messages = S0.messages, !.attempts = S0.attempts] = S0
      /\ [S0 EXCEPT !.messages = S0.messages] = S0
  BY DEF Store
<1> QED BY <1>1, <1>2, <1>3

\* One more message of the task canceled,
LEMMA OneMoreMessageCanceled ==
    ASSUME NEW S0, S0 \in Store, NEW M, M \subseteq MessageRefs, NEW D, D \subseteq AttemptRefs,
           NEW m \in MessageRefs, NEW rec, rec = [S0.messages[m] EXCEPT !.state = "canceled"]
    PROVE  UpdateMessage(CanceledStore(S0, M, D), m, rec) = CanceledStore(S0, M \cup {m}, D)
<1> DEFINE Canceled(k) == [S0.messages[k] EXCEPT !.state = "canceled"]
           A == [k \in MessageRefs |-> IF k \in M THEN Canceled(k) ELSE S0.messages[k]]
           B == [k \in AttemptRefs |->
                   IF k \in D THEN [S0.attempts[k] EXCEPT !.state = "canceled"] ELSE S0.attempts[k]]
           more == [k \in MessageRefs |-> IF k \in M \cup {m} THEN Canceled(k) ELSE S0.messages[k]]
           C == CanceledStore(S0, M, D)
<1>1. /\ C = [S0 EXCEPT !.messages = A, !.attempts = B]
      /\ CanceledStore(S0, M \cup {m}, D) = [S0 EXCEPT !.messages = more, !.attempts = B]
  BY DEF CanceledStore
<1>2. [A EXCEPT ![m] = rec] = more
  OBVIOUS
<1> HIDE DEF A, B, more, C
<1>3. UpdateMessage(C, m, rec) = [S0 EXCEPT !.messages = [A EXCEPT ![m] = rec], !.attempts = B]
  BY <1>1 DEF UpdateMessage, Store
<1> QED BY <1>1, <1>2, <1>3 DEF C

\* one more attempt,
LEMMA OneMoreAttemptCanceled ==
    ASSUME NEW S0, S0 \in Store, NEW M, M \subseteq MessageRefs, NEW D, D \subseteq AttemptRefs,
           NEW a \in AttemptRefs, NEW att, att = [S0.attempts[a] EXCEPT !.state = "canceled"]
    PROVE  UpdateAttempt(CanceledStore(S0, M, D), a, att) = CanceledStore(S0, M, D \cup {a})
<1> DEFINE Canceled(k) == [S0.attempts[k] EXCEPT !.state = "canceled"]
           A == [k \in MessageRefs |->
                   IF k \in M THEN [S0.messages[k] EXCEPT !.state = "canceled"] ELSE S0.messages[k]]
           B == [k \in AttemptRefs |-> IF k \in D THEN Canceled(k) ELSE S0.attempts[k]]
           more == [k \in AttemptRefs |-> IF k \in D \cup {a} THEN Canceled(k) ELSE S0.attempts[k]]
           C == CanceledStore(S0, M, D)
<1>1. /\ C = [S0 EXCEPT !.messages = A, !.attempts = B]
      /\ CanceledStore(S0, M, D \cup {a}) = [S0 EXCEPT !.messages = A, !.attempts = more]
  BY DEF CanceledStore
<1>2. [B EXCEPT ![a] = att] = more
  OBVIOUS
<1> HIDE DEF A, B, more, C
<1>3. UpdateAttempt(C, a, att) = [S0 EXCEPT !.messages = A, !.attempts = [B EXCEPT ![a] = att]]
  BY <1>1 DEF UpdateAttempt, Store
<1> QED BY <1>1, <1>2, <1>3 DEF C

\* and one more message offered again.
LEMMA OneMoreRetried ==
    ASSUME NEW S0, S0 \in Store, NEW M, M \subseteq MessageRefs, NEW m \in MessageRefs,
           NEW rec, rec = [S0.messages[m] EXCEPT !.state = "available", !.attempt = NoAttempt]
    PROVE  UpdateMessage(RetriedStore(S0, M), m, rec) = RetriedStore(S0, M \cup {m})
<1> DEFINE Back(k) == [S0.messages[k] EXCEPT !.state = "available", !.attempt = NoAttempt]
           A == [k \in MessageRefs |-> IF k \in M THEN Back(k) ELSE S0.messages[k]]
           more == [k \in MessageRefs |-> IF k \in M \cup {m} THEN Back(k) ELSE S0.messages[k]]
           C == RetriedStore(S0, M)
<1>1. C = [S0 EXCEPT !.messages = A] /\ RetriedStore(S0, M \cup {m}) = [S0 EXCEPT !.messages = more]
  BY DEF RetriedStore
<1>2. [A EXCEPT ![m] = rec] = more
  OBVIOUS
<1> HIDE DEF A, more, C
<1>3. UpdateMessage(C, m, rec) = [S0 EXCEPT !.messages = [A EXCEPT ![m] = rec]]
  BY <1>1 DEF UpdateMessage, Store
<1> QED BY <1>1, <1>2, <1>3 DEF C

\* Two messages of a sound ledger do not point to one attempt.
LEMMA OwnAttempt ==
    ASSUME NEW S0, Sound(S0), NEW m \in MessageRefs, NEW n \in MessageRefs, NEW a \in AttemptRefs,
           S0.messages[m].attempt = a, S0.messages[n].attempt = a
    PROVE  m = n
BY StoreAssumption DEF Sound, RecordSound, RecordLinked

\* A command's snapshot is of the messages it will change.
LEMMA SnapshotTaken ==
    ASSUME NEW M \in SUBSET MessageRefs, \A m \in M : Saved(store, m)
    PROVE  Listed(Copies(M)) = M /\ Snapshot(store, M, Copies(M))
<1>1. \A m \in M : store.messages[m] # AbsentMessage
  <2>1. AbsentMessage.state = "absent"
    BY DEF AbsentMessage
  <2> HIDE DEF AbsentMessage
  <2> QED BY <2>1 DEF Saved
<1> DEFINE todo == Copies(M)
<1>2. /\ \A m \in M : todo[m] = store.messages[m]
      /\ \A m \in MessageRefs : m \notin M => todo[m] = AbsentMessage
  BY DEF Copies
<1> HIDE DEF todo
<1>3. Listed(todo) = M
  BY <1>1, <1>2 DEF Listed
<1>4. Snapshot(store, M, todo)
  BY <1>2, <1>3 DEF Snapshot
<1> QED BY <1>3, <1>4 DEF todo

\* A message is taken from it.
LEMMA SnapshotWithout ==
    ASSUME NEW S0, NEW M, NEW todo, NEW m, M \subseteq MessageRefs,
           todo \in [MessageRefs -> Message], Snapshot(S0, M, todo), m \in Listed(todo)
    PROVE  /\ Snapshot(S0, M, Without(todo, m))
           /\ M \ Listed(Without(todo, m)) = (M \ Listed(todo)) \cup {m}
<1>1. m \in MessageRefs /\ m \in M /\ Listed(todo) \subseteq M
  BY DEF Listed, Snapshot
<1>2. /\ Without(todo, m)[m] = AbsentMessage
      /\ \A k \in MessageRefs : k # m => Without(todo, m)[k] = todo[k]
  BY <1>1 DEF Without
<1>3. Listed(Without(todo, m)) = Listed(todo) \ {m}
  BY <1>1, <1>2 DEF Listed
<1> QED BY <1>1, <1>2, <1>3 DEF Snapshot, Listed

\* With the snapshot worked off, the command has done what the atomic model says.
LEMMA CancelGoesOn ==
    ASSUME SerialInv, StepsInv', NEW h \in Handlers, Turn(h), NEW t \in Tasks,
           "cancel" \in Commands, NEW c, Continue(h, Rest(c, "cancel")),
           NEW M, M = CanceledBy(settled, t), M # {}, Snapshot(settled, M, c.todo),
           NEW N, N = M \ Listed(c.todo),
           store' = CanceledStore(settled, N, OwnersOf(settled, N)), UNCHANGED endpoints
    PROVE  Agrees
<1>1. CASE Listed(c.todo) = {}
  <2>1. Continue(h, Idle) /\ N = M
    BY <1>1 DEF Rest
  <2>2. settled' = store' /\ (Atomic!Next => Agrees)
    BY <2>1, Ends
  <2>3. settled' = CanceledStore(settled, M, OwnersOf(settled, M))
    BY <2>1, <2>2
  <2> QED BY <2>2, <2>3, AtomicCancel
<1>2. CASE Listed(c.todo) # {}
  <2> DEFINE d == [Idle EXCEPT !.pc = "cancel", !.todo = c.todo]
  <2>1. Continue(h, d)
    BY <1>2 DEF Rest
  <2>2. d.pc = "cancel" /\ d.todo = c.todo
    BY IdleParts DEF Call
  <2> HIDE DEF d
  <2>3. CancelDone(settled, store', d.pc, N, d.a, d.att)
    BY <2>2 DEF CancelDone
  <2>4. Snapshot(settled, M, d.todo) /\ N = M \ Listed(d.todo)
    BY <2>2
  <2>5. CancelUnderway(settled, store', d)
    BY <2>3, <2>4 DEF CancelUnderway
  <2> QED BY <2>1, <2>2, <2>5, GoesOn DEF Underway
<1> QED BY <1>1, <1>2

\* So it is with a retry.
LEMMA RetryGoesOn ==
    ASSUME SerialInv, StepsInv', NEW h \in Handlers, Turn(h), NEW t \in Tasks,
           "retry" \in Commands, NEW c, Continue(h, Rest(c, "retry")),
           NEW M, M = RetriedBy(settled, t), M # {}, Snapshot(settled, M, c.todo),
           store' = RetriedStore(settled, M \ Listed(c.todo)), UNCHANGED endpoints
    PROVE  Agrees
<1>1. CASE Listed(c.todo) = {}
  <2>1. Continue(h, Idle) /\ M \ Listed(c.todo) = M
    BY <1>1 DEF Rest
  <2>2. settled' = store' /\ (Atomic!Next => Agrees)
    BY <2>1, Ends
  <2>3. settled' = RetriedStore(settled, M)
    BY <2>1, <2>2
  <2> QED BY <2>2, <2>3, AtomicRetry
<1>2. CASE Listed(c.todo) # {}
  <2> DEFINE d == [Idle EXCEPT !.pc = "retry", !.todo = c.todo]
  <2>1. Continue(h, d)
    BY <1>2 DEF Rest
  <2>2. d.pc = "retry" /\ d.todo = c.todo
    BY IdleParts DEF Call
  <2> HIDE DEF d
  <2>3. RetryUnderway(settled, store', d)
    BY <1>2, <2>2 DEF RetryUnderway
  <2> QED BY <2>1, <2>2, <2>3, GoesOn DEF Underway
<1> QED BY <1>1, <1>2

\* A cancel takes its snapshot: none of it is worked off.
LEMMA BeginCancelAgrees ==
    ASSUME SerialInv, StepsInv', NEW h \in Handlers, Turn(h), NEW t \in Tasks, BeginCancel(h, t)
    PROVE  Agrees
<1> DEFINE M == CanceledBy(store, t)
           todo == Copies(M)
           d == [Idle EXCEPT !.pc = "cancel", !.todo = todo]
<1>1. settled = store /\ store \in Store
  BY TurnParts DEF BeginCancel
<1>2. ToCancel(t) = M
  BY DEF ToCancel, OfTask, CanceledBy
<1>3. /\ "cancel" \in Commands /\ Continue(h, d) /\ store' = store /\ UNCHANGED endpoints
  BY <1>2 DEF BeginCancel, ReadOnly
<1>4. M \subseteq MessageRefs /\ \A m \in M : Saved(store, m)
  BY DEF CanceledBy
<1> HIDE DEF M
<1>5. Listed(todo) = M /\ Snapshot(settled, M, todo)
  BY <1>1, <1>4, SnapshotTaken
<1> HIDE DEF todo
<1>6. d.pc = "cancel" /\ d.todo = todo
  BY IdleParts DEF Call
<1> HIDE DEF d
<1>7. M \ Listed(d.todo) = {} /\ OwnersOf(settled, {}) = {}
  BY <1>5, <1>6 DEF OwnersOf
<1>8. CanceledStore(settled, {}, {}) = settled
  BY <1>1, NothingChanged
<1>9. CancelDone(settled, store', d.pc, M \ Listed(d.todo), d.a, d.att)
  BY <1>1, <1>3, <1>6, <1>7, <1>8 DEF CancelDone
<1>10. M = CanceledBy(settled, t) /\ Snapshot(settled, M, d.todo)
  BY <1>1, <1>5, <1>6 DEF M
<1>11. CancelUnderway(settled, store', d)
  BY <1>3, <1>9, <1>10 DEF CancelUnderway
<1> QED BY <1>3, <1>6, <1>11, GoesOn DEF Underway

\* A retry does the same,
LEMMA BeginRetryAgrees ==
    ASSUME SerialInv, StepsInv', NEW h \in Handlers, Turn(h), NEW t \in Tasks, BeginRetry(h, t)
    PROVE  Agrees
<1> DEFINE M == RetriedBy(store, t)
           todo == Copies(M)
           d == [Idle EXCEPT !.pc = "retry", !.todo = todo]
<1>1. settled = store /\ store \in Store
  BY TurnParts DEF BeginRetry
<1>2. ToRetry(t) = M
  BY DEF ToRetry, OfTask, RetriedBy
<1>3. /\ "retry" \in Commands /\ Continue(h, d) /\ store' = store /\ UNCHANGED endpoints
  BY <1>2 DEF BeginRetry, ReadOnly
<1>4. M \subseteq MessageRefs /\ \A m \in M : Saved(store, m)
  BY DEF RetriedBy
<1> HIDE DEF M
<1>5. Listed(todo) = M /\ Snapshot(settled, M, todo)
  BY <1>1, <1>4, SnapshotTaken
<1> HIDE DEF todo
<1>6. d.pc = "retry" /\ d.todo = todo
  BY IdleParts DEF Call
<1> HIDE DEF d
<1>7. M \ Listed(d.todo) = {}
  BY <1>5, <1>6
<1>8. RetriedStore(settled, {}) = settled
  BY <1>1, NothingChanged
<1>9. M = RetriedBy(settled, t) /\ Snapshot(settled, M, d.todo)
  BY <1>1, <1>5, <1>6 DEF M
<1>10. store' = RetriedStore(settled, M \ Listed(d.todo))
  BY <1>1, <1>3, <1>7, <1>8
<1>11. RetryUnderway(settled, store', d)
  BY <1>3, <1>6, <1>9, <1>10 DEF RetryUnderway
<1> QED BY <1>3, <1>6, <1>11, GoesOn DEF Underway

\* and offers one more message again.
LEMMA RetryMessageAgrees ==
    ASSUME SerialInv, StepsInv', NEW h \in Handlers, Turn(h), NEW m \in MessageRefs,
           RetryMessage(h, m)
    PROVE  Agrees
<1> DEFINE c == calls[h]
           old == c.todo
           rec == [old[m] EXCEPT !.state = "available", !.attempt = NoAttempt]
           todo == Without(old, m)
           next == [c EXCEPT !.todo = todo]
<1>1. /\ c \in Call /\ RetryUnderway(settled, store, c) /\ settled \in Store
      /\ Continue(h, Rest(next, "retry")) /\ UNCHANGED endpoints
      /\ store' = UpdateMessage(store, m, rec)
      /\ m \in Listed(old) /\ old \in [MessageRefs -> Message]
  BY TurnParts, CallParts, UnderwayAt DEF RetryMessage, At, Write, IsFirst
<1>2. PICK t \in Tasks : /\ "retry" \in Commands
                         /\ Snapshot(settled, RetriedBy(settled, t), old)
                         /\ store = RetriedStore(settled, RetriedBy(settled, t) \ Listed(old))
  BY <1>1 DEF RetryUnderway
<1> DEFINE M == RetriedBy(settled, t)
           N == M \ Listed(old)
<1>3. M \subseteq MessageRefs
  BY DEF RetriedBy
<1>4. next.todo = todo
  BY <1>1 DEF Call
<1> HIDE DEF M, next, c, old
<1>5. /\ m \in M /\ old[m] = settled.messages[m] /\ Snapshot(settled, M, todo)
      /\ M \ Listed(todo) = N \cup {m}
  <2>1. Snapshot(settled, M, old) /\ m \in Listed(old) /\ old \in [MessageRefs -> Message]
    BY <1>1, <1>2 DEF M
  <2>2. m \in M /\ old[m] = settled.messages[m]
    BY <2>1 DEF Snapshot
  <2>3. /\ Snapshot(settled, M, Without(old, m))
        /\ M \ Listed(Without(old, m)) = (M \ Listed(old)) \cup {m}
    BY <1>3, <2>1, SnapshotWithout
  <2> QED BY <2>2, <2>3
<1>6. rec = [settled.messages[m] EXCEPT !.state = "available", !.attempt = NoAttempt]
  BY <1>5
<1> HIDE DEF rec, N, todo
<1>7. N \subseteq MessageRefs
  BY <1>3 DEF N
<1>8. UpdateMessage(RetriedStore(settled, N), m, rec) = RetriedStore(settled, N \cup {m})
  <2>1. settled \in Store /\ m \in MessageRefs
    BY <1>1
  <2>2. \A back :
          back = [settled.messages[m] EXCEPT !.state = "available", !.attempt = NoAttempt] =>
             UpdateMessage(RetriedStore(settled, N), m, back) = RetriedStore(settled, N \cup {m})
    BY <1>7, <2>1, OneMoreRetried, Zenon
  <2> QED BY <1>6, <2>2, Zenon
<1>9. store' = RetriedStore(settled, M \ Listed(next.todo))
  BY <1>1, <1>2, <1>4, <1>5, <1>8 DEF N, M
<1>10. M = RetriedBy(settled, t) /\ M # {} /\ Snapshot(settled, M, next.todo)
  BY <1>4, <1>5 DEF M
<1> QED BY <1>1, <1>2, <1>9, <1>10, RetryGoesOn

\* The owners of a message and of others; no other message points to its attempt.
LEMMA OwnerOfOneMore ==
    ASSUME NEW S0, NEW N, NEW m, NEW a, S0 \in Store, Sound(S0), N \subseteq MessageRefs,
           m \in MessageRefs, a = S0.messages[m].attempt
    PROVE  /\ a \in AttemptRefs /\ Open(S0, a) => OwnersOf(S0, N \cup {m}) = OwnersOf(S0, N) \cup {a}
           /\ ~(a \in AttemptRefs /\ Open(S0, a)) => OwnersOf(S0, N \cup {m}) = OwnersOf(S0, N)
           /\ a \in AttemptRefs /\ m \notin N =>
                 \A D : CanceledStore(S0, D, OwnersOf(S0, N)).attempts[a] = S0.attempts[a]
<1>1. a \in AttemptRefs /\ m \notin N => a \notin OwnersOf(S0, N)
  BY OwnAttempt DEF OwnersOf
<1>2. /\ a \in AttemptRefs /\ Open(S0, a) => OwnersOf(S0, N \cup {m}) = OwnersOf(S0, N) \cup {a}
      /\ ~(a \in AttemptRefs /\ Open(S0, a)) => OwnersOf(S0, N \cup {m}) = OwnersOf(S0, N)
  BY DEF OwnersOf
<1>3. ASSUME a \in AttemptRefs, m \notin N, NEW D
      PROVE  CanceledStore(S0, D, OwnersOf(S0, N)).attempts[a] = S0.attempts[a]
  <2> DEFINE E == OwnersOf(S0, N)
             B == [k \in AttemptRefs |->
                     IF k \in E THEN [S0.attempts[k] EXCEPT !.state = "canceled"] ELSE S0.attempts[k]]
  <2>1. CanceledStore(S0, D, E).attempts = B
    BY DEF CanceledStore, Store
  <2> HIDE DEF E
  <2>2. B[a] = S0.attempts[a]
    BY <1>1, <1>3 DEF E
  <2> QED BY <2>1, <2>2 DEF E
<1> QED BY <1>2, <1>3

\* A cancel writes one more message; if an attempt had it, that is next.
LEMMA CancelMessageAgrees ==
    ASSUME SerialInv, StepsInv', NEW h \in Handlers, Turn(h), NEW m \in MessageRefs,
           CancelMessage(h, m)
    PROVE  Agrees
<1> DEFINE c == calls[h]
           old == c.todo
           rec == old[m]
           gone == [rec EXCEPT !.state = "canceled"]
           a == rec.attempt
           todo == Without(old, m)
           next == [c EXCEPT !.todo = todo]
           d == [c EXCEPT !.todo = todo, !.pc = "cancel_read", !.a = a]
<1>1. /\ c \in Call /\ CancelUnderway(settled, store, c) /\ c.pc = "cancel"
      /\ settled \in Store /\ Sound(settled) /\ UNCHANGED endpoints
      /\ store' = UpdateMessage(store, m, gone)
      /\ m \in Listed(old) /\ old \in [MessageRefs -> Message]
  BY TurnParts, CallParts, UnderwayAt DEF CancelMessage, At, Write, IsFirst
<1>2. Continue(h, IF a = NoAttempt THEN Rest(next, "cancel") ELSE d)
  <2>1. [To(next, "cancel_read") EXCEPT !.a = a] = d
    BY <1>1 DEF To, Call
  <2> QED BY <2>1 DEF CancelMessage
<1>3. PICK t \in Tasks :
         /\ "cancel" \in Commands
         /\ Snapshot(settled, CanceledBy(settled, t), old)
         /\ CancelDone(settled, store, c.pc, CanceledBy(settled, t) \ Listed(old), c.a, c.att)
  BY <1>1 DEF CancelUnderway
<1> DEFINE M == CanceledBy(settled, t)
           N == M \ Listed(old)
           D == OwnersOf(settled, N)
<1>4. M \subseteq MessageRefs
  BY DEF CanceledBy
<1>5. next.todo = todo /\ d.pc = "cancel_read" /\ d.todo = todo /\ (a # NoAttempt => d.a = a)
  BY <1>1 DEF Call
<1>6. store = CanceledStore(settled, N, D)
  BY <1>1, <1>3 DEF CancelDone
<1>7. Snapshot(settled, M, old) /\ m \in Listed(old) /\ old \in [MessageRefs -> Message]
  BY <1>1, <1>3
<1> HIDE DEF M, next, d, c, old, gone, a
<1>8. /\ m \in M /\ rec = settled.messages[m] /\ Snapshot(settled, M, todo)
      /\ M \ Listed(todo) = N \cup {m}
  <2>1. m \in M /\ old[m] = settled.messages[m]
    BY <1>7 DEF Snapshot
  <2>2. /\ Snapshot(settled, M, Without(old, m))
        /\ M \ Listed(Without(old, m)) = (M \ Listed(old)) \cup {m}
    BY <1>4, <1>7, SnapshotWithout
  <2> QED BY <2>1, <2>2
<1>9. gone = [settled.messages[m] EXCEPT !.state = "canceled"] /\ a = settled.messages[m].attempt
  BY <1>8 DEF gone, a
<1>10. N \subseteq MessageRefs /\ D \subseteq AttemptRefs
  BY <1>4 DEF OwnersOf
<1> HIDE DEF rec, gone, a, todo, N, D
<1>11. a \in AttemptRefs \/ a = NoAttempt
  BY <1>1, <1>9, StoreParts DEF Message
<1>12. store' = CanceledStore(settled, N \cup {m}, D)
  <2>1. UpdateMessage(CanceledStore(settled, N, D), m, gone) = CanceledStore(settled, N \cup {m}, D)
    BY <1>1, <1>8, <1>9, <1>10, OneMoreMessageCanceled
  <2> QED BY <1>1, <1>6, <2>1
<1>13. CASE a = NoAttempt
  <2>1. OwnersOf(settled, N \cup {m}) = D
    <3>1. a \notin AttemptRefs
      BY <1>13, StoreAssumption
    <3> QED BY <1>1, <1>9, <1>10, <3>1, OwnerOfOneMore DEF D
  <2>2. N \cup {m} = M \ Listed(next.todo) /\ Snapshot(settled, M, next.todo) /\ M # {}
    BY <1>5, <1>8
  <2>3. store' = CanceledStore(settled, N \cup {m}, OwnersOf(settled, N \cup {m}))
    BY <1>12, <2>1
  <2>4. M = CanceledBy(settled, t) /\ "cancel" \in Commands
    BY <1>3 DEF M
  <2>5. Continue(h, Rest(next, "cancel"))
    BY <1>2, <1>13
  <2> QED BY <1>1, <2>2, <2>3, <2>4, <2>5, CancelGoesOn
<1>14. CASE a # NoAttempt
  <2>1. a \in AttemptRefs /\ d.a = a /\ Continue(h, d)
    BY <1>2, <1>5, <1>11, <1>14
  <2>2. (N \cup {m}) \ {m} = N
    BY <1>1 DEF N
  <2>3. CancelDone(settled, store', "cancel_read", N \cup {m}, a, d.att)
    BY <1>9, <1>12, <2>1, <2>2 DEF CancelDone, D
  <2>4. M = CanceledBy(settled, t) /\ M \ Listed(d.todo) = N \cup {m} /\ Snapshot(settled, M, d.todo)
    BY <1>5, <1>8 DEF M
  <2>5. CancelUnderway(settled, store', d)
    BY <1>3, <1>5, <2>1, <2>3, <2>4 DEF CancelUnderway
  <2> QED BY <1>1, <1>5, <2>1, <2>5, GoesOn DEF Underway
<1> QED BY <1>13, <1>14

\* No other message of the task points to that attempt, so it is as it was.
LEMMA ReadOpenAttemptAgrees ==
    ASSUME SerialInv, StepsInv', NEW h \in Handlers, Turn(h), ReadOpenAttempt(h)
    PROVE  Agrees
<1> DEFINE c == calls[h]
           a == c.a
           todo == c.todo
           att == store.attempts[a]
           d == [c EXCEPT !.pc = "cancel_attempt", !.att = att]
<1>1. /\ c \in Call /\ CancelUnderway(settled, store, c) /\ c.pc = "cancel_read"
      /\ settled \in Store /\ Sound(settled) /\ UNCHANGED endpoints /\ store' = store
  BY TurnParts, UnderwayAt DEF ReadOpenAttempt, At, ReadOnly
<1>2. Continue(h, IF Open(store, a) THEN d ELSE Rest(c, "cancel"))
  <2>1. [To(c, "cancel_attempt") EXCEPT !.att = att] = d
    BY <1>1 DEF To, Call
  <2> QED BY <2>1 DEF ReadOpenAttempt
<1>3. PICK t \in Tasks :
         /\ "cancel" \in Commands
         /\ Snapshot(settled, CanceledBy(settled, t), todo)
         /\ CancelDone(settled, store, c.pc, CanceledBy(settled, t) \ Listed(todo), a, c.att)
  BY <1>1 DEF CancelUnderway
<1> DEFINE M == CanceledBy(settled, t)
           N == M \ Listed(todo)
<1>4. M \subseteq MessageRefs
  BY DEF CanceledBy
<1>5. d.pc = "cancel_attempt" /\ d.att = att /\ d.a = a /\ d.todo = todo
  BY <1>1 DEF Call
<1>6. a \in AttemptRefs /\ \E k \in N : /\ settled.messages[k].attempt = a
                                        /\ store = CanceledStore(settled, N, OwnersOf(settled, N \ {k}))
  BY <1>1, <1>3 DEF CancelDone
<1>7. M # {} /\ c.todo = todo
  BY <1>6
<1> HIDE DEF N, M, a, c, todo, d
<1>8. PICK k \in N : /\ settled.messages[k].attempt = a
                     /\ store = CanceledStore(settled, N, OwnersOf(settled, N \ {k}))
  BY <1>6
<1>9. /\ N \ {k} \subseteq MessageRefs /\ k \in MessageRefs /\ k \notin N \ {k}
      /\ (N \ {k}) \cup {k} = N
  BY <1>4, <1>8 DEF N
<1>10. att = settled.attempts[a]
  BY <1>1, <1>6, <1>8, <1>9, OwnerOfOneMore
<1>11. Open(store, a) <=> Open(settled, a)
  BY <1>10 DEF Open
<1> HIDE DEF att
<1>12. M = CanceledBy(settled, t) /\ "cancel" \in Commands /\ Snapshot(settled, M, todo)
       /\ N = M \ Listed(todo)
  BY <1>3 DEF M, N
<1>13. CASE Open(store, a)
  <2>1. Continue(h, d)
    BY <1>2, <1>13
  <2>2. CancelDone(settled, store', "cancel_attempt", N, a, att)
    BY <1>1, <1>6, <1>8, <1>10, <1>11, <1>13 DEF CancelDone
  <2>3. CancelUnderway(settled, store', d)
    BY <1>5, <1>12, <2>2 DEF CancelUnderway
  <2> QED BY <1>1, <1>5, <2>1, <2>3, GoesOn DEF Underway
<1>14. CASE ~Open(store, a)
  <2>1. Continue(h, Rest(c, "cancel"))
    BY <1>2, <1>14
  <2>2. OwnersOf(settled, (N \ {k}) \cup {k}) = OwnersOf(settled, N \ {k})
    BY <1>1, <1>8, <1>9, <1>11, <1>14, OwnerOfOneMore
  <2>3. store' = CanceledStore(settled, N, OwnersOf(settled, N))
    BY <1>1, <1>8, <1>9, <2>2
  <2>4. Snapshot(settled, M, c.todo) /\ N = M \ Listed(c.todo)
    BY <1>7, <1>12
  <2> QED BY <1>1, <1>7, <1>12, <2>1, <2>3, <2>4, CancelGoesOn
<1> QED BY <1>13, <1>14

\* It is written back canceled, and the message is dealt with.
LEMMA CancelAttemptAgrees ==
    ASSUME SerialInv, StepsInv', NEW h \in Handlers, Turn(h), CancelAttempt(h)
    PROVE  Agrees
<1> DEFINE c == calls[h]
           a == c.a
           todo == c.todo
           gone == [c.att EXCEPT !.state = "canceled"]
<1>1. /\ c \in Call /\ CancelUnderway(settled, store, c) /\ c.pc = "cancel_attempt"
      /\ settled \in Store /\ Sound(settled) /\ UNCHANGED endpoints
      /\ store' = UpdateAttempt(store, a, gone)
      /\ Continue(h, Rest(c, "cancel"))
  BY TurnParts, UnderwayAt DEF CancelAttempt, At, Write
<1>2. PICK t \in Tasks :
         /\ "cancel" \in Commands
         /\ Snapshot(settled, CanceledBy(settled, t), todo)
         /\ CancelDone(settled, store, c.pc, CanceledBy(settled, t) \ Listed(todo), a, c.att)
  BY <1>1 DEF CancelUnderway
<1> DEFINE M == CanceledBy(settled, t)
           N == M \ Listed(todo)
<1>3. M \subseteq MessageRefs
  BY DEF CanceledBy
<1>4. /\ a \in AttemptRefs /\ Open(settled, a) /\ c.att = settled.attempts[a]
      /\ \E k \in N : /\ settled.messages[k].attempt = a
                      /\ store = CanceledStore(settled, N, OwnersOf(settled, N \ {k}))
  BY <1>1, <1>2 DEF CancelDone
<1>5. gone = [settled.attempts[a] EXCEPT !.state = "canceled"] /\ M # {} /\ c.todo = todo
  BY <1>4
<1> HIDE DEF N, M, a, gone, c, todo
<1>6. PICK k \in N : /\ settled.messages[k].attempt = a
                     /\ store = CanceledStore(settled, N, OwnersOf(settled, N \ {k}))
  BY <1>4
<1> DEFINE D == OwnersOf(settled, N \ {k})
<1>7. /\ N \ {k} \subseteq MessageRefs /\ k \in MessageRefs /\ N \subseteq MessageRefs
      /\ (N \ {k}) \cup {k} = N /\ D \subseteq AttemptRefs
  BY <1>3, <1>6 DEF N, OwnersOf
<1>8. OwnersOf(settled, (N \ {k}) \cup {k}) = D \cup {a}
  BY <1>1, <1>4, <1>6, <1>7, OwnerOfOneMore
<1>9. store = CanceledStore(settled, N, D)
  BY <1>6
<1> HIDE DEF D
<1>10. UpdateAttempt(CanceledStore(settled, N, D), a, gone) = CanceledStore(settled, N, D \cup {a})
  BY <1>1, <1>4, <1>5, <1>7, OneMoreAttemptCanceled
<1>11. store' = CanceledStore(settled, N, OwnersOf(settled, N))
  BY <1>1, <1>7, <1>8, <1>9, <1>10
<1>12. M = CanceledBy(settled, t) /\ "cancel" \in Commands /\ Snapshot(settled, M, c.todo)
       /\ N = M \ Listed(c.todo)
  BY <1>2, <1>5 DEF M, N
<1> QED BY <1>1, <1>5, <1>11, <1>12, CancelGoesOn

-----------------------------------------------------------------------------
(* The whole of it.                                                        *)

\* Beginning a request is a stutter of the atomic model,
LEMMA BeginAgrees ==
    ASSUME SerialInv, StepsInv', NEW h \in Handlers, Turn(h), Begin(h)
    PROVE  Agrees
<1>1. ASSUME NEW a \in AttemptRefs, NEW report \in Reports,
             BeginCheckpoint(h, a, report, FALSE, 0)
      PROVE  Agrees
  <2>1. report \in CheckpointState /\ 0 \in 0..MaxFollowUps /\ FALSE \in BOOLEAN
    BY HandoffAssumption
  <2> QED BY <1>1, <2>1, BeginCheckpointAgrees
<1>2. ASSUME NEW a \in AttemptRefs, NEW left \in 0..MaxFollowUps,
             BeginCheckpoint(h, a, "completed", TRUE, left)
      PROVE  Agrees
  <2>1. "completed" \in CheckpointState /\ TRUE \in BOOLEAN
    BY DEF CheckpointState, AttemptState
  <2> QED BY <1>2, <2>1, BeginCheckpointAgrees
<1>3. ASSUME NEW a \in AttemptRefs, BeginRefresh(h, a)
      PROVE  Agrees
  BY <1>3, BeginRefreshAgrees
<1>4. ASSUME NEW e \in Endpoints, BeginClaimNext(h, e)
      PROVE  Agrees
  BY <1>4, BeginClaimNextAgrees
<1>5. ASSUME NEW e \in Endpoints, NEW m \in MessageRefs, BeginClaim(h, e, m)
      PROVE  Agrees
  BY <1>5, BeginClaimAgrees
<1>6. ASSUME NEW t \in Tasks, BeginCancel(h, t) \/ BeginRetry(h, t)
      PROVE  Agrees
  BY <1>6, BeginCancelAgrees, BeginRetryAgrees
<1> QED BY <1>1, <1>2, <1>3, <1>4, <1>5, <1>6 DEF Begin

\* going on with it a stutter or, at its end, its atomic step.
LEMMA ProceedAgrees ==
    ASSUME SerialInv, StepsInv', NEW h \in Handlers, Turn(h), Proceed(h)
    PROVE  Agrees
<1>1. ASSUME NEW n \in MessageRefs, NEW r \in Requests, SubmitFollowUp(h, n, r)
      PROVE  Agrees
  BY <1>1, SubmitFollowUpAgrees
<1>2. ASSUME NEW a \in AttemptRefs, NEW m \in MessageRefs, CommitClaimNext(h, m, a)
      PROVE  Agrees
  BY <1>2, CommitClaimNextAgrees
<1>3. ASSUME NEW a \in AttemptRefs, CommitClaim(h, a)
      PROVE  Agrees
  BY <1>3, CommitClaimAgrees
<1>4. ASSUME NEW m \in MessageRefs, CancelMessage(h, m) \/ RetryMessage(h, m)
      PROVE  Agrees
  BY <1>4, CancelMessageAgrees, RetryMessageAgrees
<1>5. ASSUME \/ SaveTheCheckpoint(h) \/ WriteAttempt(h) \/ ReadMessage(h) \/ WriteMessage(h)
             \/ RereadAttempt(h) \/ RereadMessage(h) \/ CloseAttempt(h) \/ CloseMessage(h)
      PROVE  Agrees
  BY <1>5, SaveTheCheckpointAgrees, WriteAttemptAgrees, ReadMessageAgrees, WriteMessageAgrees,
     RereadAttemptAgrees, RereadMessageAgrees, CloseAttemptAgrees, CloseMessageAgrees
<1>6. ASSUME \/ FollowUpRefused(h) \/ WriteLease(h) \/ ReconcileFirst(h) \/ FindNothing(h)
             \/ ReadOpenAttempt(h) \/ CancelAttempt(h)
      PROVE  Agrees
  BY <1>6, FollowUpRefusedAgrees, WriteLeaseAgrees, ReconcileFirstAgrees, FindNothingAgrees,
     ReadOpenAttemptAgrees, CancelAttemptAgrees
<1> QED BY <1>1, <1>2, <1>3, <1>4, <1>5, <1>6 DEF Proceed

\* With no request under way, the ledger of both models is the same.
LEMMA QuietAgrees ==
    ASSUME SerialInv, StepsInv', Quiet, \A h \in Handlers : calls'[h].pc = calls[h].pc,
           settled' = IF Quiet' THEN store' ELSE settled,
           settled = store /\ settled' = store' => Atomic!Next
    PROVE  Agrees
<1>1. Quiet'
  BY DEF Quiet, At
<1>2. settled = store /\ settled' = store'
  BY <1>1 DEF SerialInv
<1>3. SerialInv'
  BY <1>1, <1>2 DEF SerialInv, StepsInv, Inv, TypeOK, Quiet
<1> QED BY <1>2, <1>3 DEF Agrees

\* So every step keeps the invariant and is one of the atomic model.
LEMMA SerialNextAgrees ==
    ASSUME SerialInv, [SerialNext]_SerialVars
    PROVE  Agrees
<1>1. ASSUME NEW h \in Handlers, Alone(h), Begin(h) \/ Proceed(h),
             settled' = IF Quiet' THEN store' ELSE settled
      PROVE  Agrees
  <2>1. StepsInv' /\ Turn(h)
    BY <1>1, BeginInv, ProceedInv DEF SerialInv, Turn, Onward
  <2> QED BY <1>1, <2>1, BeginAgrees, ProceedAgrees
<1>2. ASSUME Quiet, Background, UNCHANGED calls, settled' = IF Quiet' THEN store' ELSE settled
      PROVE  Agrees
  <2>1. StepsInv'
    BY <1>2, BackgroundSound DEF SerialInv, Onward
  <2>2. settled = store /\ settled' = store' => Atomic!Next
    BY <1>2, AtomicBackground
  <2> QED BY <1>2, <2>1, <2>2, QuietAgrees
<1>3. ASSUME Quiet, StepsTick, settled' = IF Quiet' THEN store' ELSE settled
      PROVE  Agrees
  <2>1. StepsInv'
    BY <1>3, StepsTickSound DEF SerialInv, Onward
  <2>2. settled = store /\ settled' = store' => Atomic!Next
    BY <1>3, AtomicTick DEF StepsTick
  <2>3. ASSUME NEW h \in Handlers
        PROVE  calls'[h].pc = calls[h].pc
    <3>1. calls[h] \in Call /\ calls'[h] = [calls[h] EXCEPT !.att.lease = Elapse(calls[h].att.lease)]
      BY <1>3, CallOf DEF StepsTick, CopiesTick, SerialInv
    <3> QED BY <3>1 DEF Call
  <2> QED BY <1>3, <2>1, <2>2, <2>3, QuietAgrees
<1>4. CASE UNCHANGED SerialVars
  <2>1. SerialInv'
    <3>1. StepsInv'
      BY <1>4, StepsNextInv DEF SerialInv, SerialVars, StepVars
    <3>2. ASSUME NEW S0, NEW S, NEW c
          PROVE  Underway(S0, S, c) <=> Underway(S0, S, c)'
      BY <1>4 DEF SerialVars, Underway, FollowUnderway, ClaimUnderway, IngressRouteAvailable,
         IsRegistered, MayClaimIn, EndpointIsStale, OnlineEndpoints
    <3> QED BY <1>4, <3>1, <3>2 DEF SerialInv, SerialVars, Quiet, Alone, At
  <2> QED BY <1>4, <2>1 DEF Agrees, SerialVars, Atomic!vars
<1> QED BY <1>1, <1>2, <1>3, <1>4 DEF SerialNext, Alone

\* It starts from an empty ledger with nothing under way.
LEMMA SerialInitInv == SerialInit => SerialInv /\ Atomic!Init
<1> SUFFICES ASSUME SerialInit PROVE SerialInv /\ Atomic!Init
  OBVIOUS
<1>1. StepsInv /\ settled = store
  BY StepsInitInv DEF SerialInit
<1>2. Quiet
  BY IdleParts DEF SerialInit, StepsInit, Quiet, At
<1>3. SerialInv
  BY <1>1, <1>2 DEF SerialInv, StepsInv, Inv, TypeOK, Quiet
<1>4. Atomic!Init
  <2>1. Atomic!EmptyStore = EmptyStore
    BY DEF EmptyStore, Atomic!EmptyStore, AbsentMessage, Atomic!AbsentMessage, AbsentAttempt,
       Atomic!AbsentAttempt, NoMessage, Atomic!NoMessage, Expired, Atomic!Expired
  <2>2. Atomic!RegistryInit
    BY DEF SerialInit, StepsInit, Init, RegistryInit, Atomic!RegistryInit, Unregistered,
       Atomic!Unregistered, Expired, Atomic!Expired
  <2> QED BY <1>1, <2>1, <2>2 DEF SerialInit, StepsInit, Init, Atomic!Init
<1> QED BY <1>3, <1>4

\* Requests that are served one at a time, each in its several calls of the
\* store, leave the ledger as the atomic handlers of Handoff do: what the
\* concurrent model adds is due to interleaving and crashes alone.
THEOREM SerialIsAtomic == SerialSpec => ImplementsHandoff
<1>1. SerialInv /\ [SerialNext]_SerialVars => SerialInv' /\ [Atomic!Next]_Atomic!vars
  BY SerialNextAgrees DEF Agrees
<1> QED BY <1>1, SerialInitInv, PTL DEF SerialSpec, ImplementsHandoff, Atomic!Spec
=============================================================================
