--------------------------- MODULE DeliveryProofs ---------------------------
(***************************************************************************)
(* The broker and the ledger stay in step (Delivery), however deliveries   *)
(* come back, requests interleave and the server restarts.                 *)
(*                                                                         *)
(* The ledger part is as in HandoffProofs: every request keeps the ledger  *)
(* sound, so what a request in flight found in it stays true.  The broker  *)
(* part is who has a grip on a delivery, which claim-next keeps until the  *)
(* delivery is no longer tracked.  Two requests that grip one delivery can *)
(* be told apart from a duplicate: the delivery is settled by then, and    *)
(* the broker hands a settled delivery to nobody.                          *)
(***************************************************************************)
EXTENDS Delivery, HandoffProofs

SettledIn(S, m) ==
    \/ \E a \in AttemptRefs : /\ S.attempts[a].msg = m
                              /\ S.checkpoints[a].reported \cap ClosedState # {}
    \/ \E d \in S.deadLetters : d.msg = m

Judged(D, m) == \E verdict \in Verdict \ {"rejected"} : <<m, verdict>> \in D

StreamSound(B, S, D) ==
    \A m \in MessageRefs :
        /\ B[m].state # "none" => Saved(S, m) /\ Judged(D, m)
        /\ B[m].state = "acked" => SettledIn(S, m)

\* The places where claim-next acts on a delivery, and where it still has to
\* stop tracking it.
HoldPlaces == {"check", "claim", "nak"}
GripPlaces == HoldPlaces \cup {"untrack"}

\* What a request may rely on in ledger S and decisions D.
CallSound(S, D, c) ==
    /\ c.pc \in {"judge", "save"} => c.msg \in MessageRefs /\ c.request \in Request
    /\ c.pc = "judge" => c.quality \in Qualities
    /\ c.pc \in {"save", "publish"} => Judged(D, c.msg)
    /\ c.pc \in {"publish", "settle", "claim"} => c.msg \in MessageRefs /\ Saved(S, c.msg)
    /\ c.pc \in {"fetch", "check", "claim"} => c.ep \in Endpoints
    /\ c.pc \in GripPlaces => c.msg \in MessageRefs
    /\ c.pc = "claim" => Founded(S, c.msg)
    /\ c.pc = "ack" => c.msg \in MessageRefs /\ SettledIn(S, c.msg)
    /\ c.pc = "finish" => c.completing
    /\ c.completing =>
          /\ c.pc \in {"ack", "untrack", "finish", "settle"}
          /\ c.attempt \in AttemptRefs /\ Exists(S, c.attempt)
          /\ c.msg = S.attempts[c.attempt].msg
          /\ "completed" \in S.checkpoints[c.attempt].reported

\* What is tracked was published.  A delivery in somebody's grip is tracked, and in one request's grip only,
\* until it is settled; and even then only one request acts on it.
GripsSound(B, P, C) ==
    /\ \A m \in P : B[m].state # "none"
    /\ \A h \in Handlers :
          C[h].pc \in GripPlaces => C[h].msg \in P \/ B[C[h].msg].state = "acked"
    /\ \A h, k \in Handlers :
          (/\ h # k /\ C[h].msg = C[k].msg
           /\ C[h].pc \in GripPlaces /\ C[k].pc \in GripPlaces) =>
              /\ B[C[h].msg].state = "acked"
              /\ C[h].pc = "untrack" \/ C[k].pc = "untrack"

DeliveryInv ==
    /\ Inv
    /\ DeliveryTypeOK
    /\ StreamSound(stream, store, decisions)
    /\ GripsSound(stream, pending, calls)
    /\ \A h \in Handlers : CallSound(store, decisions, calls[h])

-----------------------------------------------------------------------------
(* What stays true.                                                        *)

\* The ledger never loses what settled a delivery.
LEMMA SettledStays ==
    ASSUME NEW S \in Store, Sound(S), NEW T, Grows(S, T),
           NEW m \in MessageRefs, SettledIn(S, m)
    PROVE  SettledIn(T, m)
<1>1. CASE \E d \in S.deadLetters : d.msg = m
  BY <1>1 DEF Grows, SettledIn
<1>2. ASSUME NEW a \in AttemptRefs, S.attempts[a].msg = m,
             S.checkpoints[a].reported \cap ClosedState # {}
      PROVE  SettledIn(T, m)
  <2>1. Exists(S, a)
    BY <1>2, RoutingAssumption DEF Sound, AttemptFounded, NoMessage
  <2>2. T.attempts[a].msg = m /\ S.checkpoints[a].reported \subseteq T.checkpoints[a].reported
    BY <1>2, <2>1 DEF Grows
  <2> QED BY <1>2, <2>2 DEF SettledIn
<1> QED BY <1>1, <1>2 DEF SettledIn

\* What was judged and saved stays so.
LEMMA StreamStays ==
    ASSUME NEW S \in Store, Sound(S), NEW T, Grows(S, T), NEW B,
           NEW D, NEW E, D \subseteq E, StreamSound(B, S, D)
    PROVE  StreamSound(B, T, E)
<1> SUFFICES ASSUME NEW m \in MessageRefs
             PROVE  /\ B[m].state # "none" => Saved(T, m) /\ Judged(E, m)
                    /\ B[m].state = "acked" => SettledIn(T, m)
  BY DEF StreamSound
<1>1. B[m].state # "none" => Saved(T, m) /\ Judged(E, m)
  BY DEF StreamSound, Grows, Judged
<1>2. B[m].state = "acked" => SettledIn(T, m)
  BY SettledStays DEF StreamSound
<1> QED BY <1>1, <1>2

\* What a request relies on stays true while the ledger grows.
LEMMA CallStays ==
    ASSUME NEW S \in Store, Sound(S), NEW T \in Store, Grows(S, T),
           NEW D, NEW E, D \subseteq E, NEW c, CallSound(S, D, c)
    PROVE  CallSound(T, E, c)
<1>1. c.pc \in {"save", "publish"} => Judged(E, c.msg)
  BY DEF CallSound, Judged
<1>2. c.pc \in {"publish", "settle", "claim"} => c.msg \in MessageRefs /\ Saved(T, c.msg)
  BY DEF CallSound, Grows
<1>3. ASSUME c.pc = "claim"
      PROVE  Founded(T, c.msg)
  <2>1. /\ c.msg \in MessageRefs /\ Saved(S, c.msg) /\ Founded(S, c.msg)
    BY <1>3 DEF CallSound
  <2>2. T.requests[c.msg] = S.requests[c.msg]
    BY <2>1 DEF Grows
  <2>3. S.requests[c.msg].dependsOn \subseteq MessageRefs
    BY <2>1 DEF Sound, Request
  <2> QED BY <2>1, <2>2, <2>3, CompletionStays DEF Founded
<1>4. c.pc = "ack" => c.msg \in MessageRefs /\ SettledIn(T, c.msg)
  BY SettledStays DEF CallSound
<1>5. c.completing =>
        /\ c.attempt \in AttemptRefs /\ Exists(T, c.attempt)
        /\ c.msg = T.attempts[c.attempt].msg
        /\ "completed" \in T.checkpoints[c.attempt].reported
  BY DEF CallSound, Grows
<1> QED BY <1>1, <1>2, <1>3, <1>4, <1>5 DEF CallSound

\* What was published stays so, and what was acked.
StreamGoesOn(B, B2) ==
    \A m \in MessageRefs : /\ B[m].state # "none" => B2[m].state # "none"
                           /\ B[m].state = "acked" => B2[m].state = "acked"

\* One request's next place, and the broker's records of deliveries: the grips
\* stay apart if the request takes none, if it keeps the one it had, and if it
\* comes to untrack one that is settled.
LEMMA GripsStay ==
    ASSUME NEW B, NEW B2, StreamGoesOn(B, B2), NEW P \in SUBSET MessageRefs,
           NEW C \in [Handlers -> Call], NEW h \in Handlers, NEW d \in Call,
           \A k \in Handlers : C[k].pc \in GripPlaces => C[k].msg \in MessageRefs,
           GripsSound(B, P, C),
           \/ d.pc \notin GripPlaces
           \/ d.msg = C[h].msg /\ d.pc \in GripPlaces /\ C[h].pc \in HoldPlaces
           \/ d.pc = "untrack" /\ B2[d.msg].state = "acked"
    PROVE  GripsSound(B2, P, [C EXCEPT ![h] = d])
<1> DEFINE C2 == [C EXCEPT ![h] = d]
<1>1. C2[h] = d /\ \A k \in Handlers : k # h => C2[k] = C[k]
  OBVIOUS
<1> HIDE DEF C2
<1>2. ASSUME NEW k \in Handlers, C2[k].pc \in GripPlaces
      PROVE  C2[k].msg \in P \/ B2[C2[k].msg].state = "acked"
  <2>1. CASE k # h \/ (d.msg = C[h].msg /\ C[h].pc \in HoldPlaces)
    <3>1. C2[k].msg = C[k].msg /\ C[k].pc \in GripPlaces
      BY <1>1, <1>2, <2>1 DEF GripPlaces
    <3>2. C[k].msg \in P \/ B[C[k].msg].state = "acked"
      BY <3>1 DEF GripsSound
    <3> QED BY <3>1, <3>2 DEF StreamGoesOn
  <2>2. CASE k = h /\ d.pc = "untrack" /\ B2[d.msg].state = "acked"
    BY <1>1, <2>2
  <2> QED BY <1>1, <1>2, <2>1, <2>2
<1>3. ASSUME NEW k \in Handlers, NEW l \in Handlers, k # l, C2[k].msg = C2[l].msg,
             C2[k].pc \in GripPlaces, C2[l].pc \in GripPlaces
      PROVE  /\ B2[C2[k].msg].state = "acked"
             /\ C2[k].pc = "untrack" \/ C2[l].pc = "untrack"
  <2>1. CASE d.pc = "untrack" /\ B2[d.msg].state = "acked" /\ (k = h \/ l = h)
    BY <1>1, <1>3, <2>1
  <2>2. CASE (k # h /\ l # h) \/ (d.msg = C[h].msg /\ C[h].pc \in HoldPlaces)
    <3>1. /\ C2[k].msg = C[k].msg /\ C[k].pc \in GripPlaces
          /\ C2[l].msg = C[l].msg /\ C[l].pc \in GripPlaces
      BY <1>1, <1>3, <2>2 DEF GripPlaces
    <3>2. /\ B[C[k].msg].state = "acked" /\ C[k].msg \in MessageRefs
          /\ C[k].pc = "untrack" \/ C[l].pc = "untrack"
      BY <1>3, <3>1 DEF GripsSound
    <3>3. C[k].pc = "untrack" => C2[k].pc = "untrack"
      BY <1>1, <2>2 DEF HoldPlaces
    <3>4. C[l].pc = "untrack" => C2[l].pc = "untrack"
      BY <1>1, <2>2 DEF HoldPlaces
    <3> QED BY <3>1, <3>2, <3>3, <3>4 DEF StreamGoesOn
  <2> QED BY <1>1, <1>3, <2>1, <2>2
<1>4. \A m \in P : B2[m].state # "none"
  BY DEF GripsSound, StreamGoesOn
<1> QED BY <1>2, <1>3, <1>4 DEF GripsSound, C2

-----------------------------------------------------------------------------
(* The steps of a request.                                                 *)

\* What the invariant says of one request.
LEMMA CallOf ==
    ASSUME DeliveryInv, NEW h \in Handlers
    PROVE  /\ calls[h] \in Call /\ CallSound(store, decisions, calls[h])
           /\ store \in Store /\ Sound(store) /\ RegistryTypeOK
           /\ stream \in [MessageRefs -> [state : {"none", "ready", "out", "acked"},
                                          n : 0..MaxDeliver]]
           /\ pending \subseteq MessageRefs /\ decisions \subseteq MessageRefs \X Verdict
           /\ calls \in [Handlers -> Call]
           /\ \A k \in Handlers : calls[k].pc \in GripPlaces => calls[k].msg \in MessageRefs
BY DEF DeliveryInv, DeliveryTypeOK, Inv, TypeOK, CallSound

\* A request moves on: the ledger has grown, and what it now relies on holds.
LEMMA RequestMoves ==
    ASSUME DeliveryInv, Kept(store, store'), RegistryTypeOK',
           NEW h \in Handlers, NEW d \in Call, Continue(h, d),
           CallSound(store', decisions', d),
           decisions \subseteq decisions', decisions' \subseteq MessageRefs \X Verdict,
           stream' \in [MessageRefs -> [state : {"none", "ready", "out", "acked"},
                                        n : 0..MaxDeliver]],
           StreamSound(stream', store', decisions'),
           pending' \subseteq MessageRefs, GripsSound(stream', pending', calls')
    PROVE  DeliveryInv'
<1>1. store \in Store /\ Sound(store) /\ store' \in Store /\ Sound(store') /\ Grows(store, store')
  BY DEF DeliveryInv, Inv, TypeOK, Kept
<1>2. calls' = [calls EXCEPT ![h] = d] /\ calls \in [Handlers -> Call]
  BY CallOf DEF Continue
<1>3. calls' \in [Handlers -> Call]
  BY <1>2
<1>4. ASSUME NEW k \in Handlers
      PROVE  CallSound(store', decisions', calls'[k])
  <2>1. CASE k = h
    BY <1>2, <2>1
  <2>2. CASE k # h
    <3>1. CallSound(store, decisions, calls[k]) /\ calls'[k] = calls[k]
      BY <1>2, <2>2 DEF DeliveryInv
    <3> QED BY <1>1, <3>1, CallStays
  <2> QED BY <2>1, <2>2
<1> QED BY <1>1, <1>3, <1>4 DEF DeliveryInv, DeliveryTypeOK, Inv, TypeOK

\* A step away from the broker, which leaves the grip of the request as it is.
LEMMA LedgerMoves ==
    ASSUME DeliveryInv, Kept(store, store'), UNCHANGED <<endpoints, broker, decisions>>,
           NEW h \in Handlers, NEW d \in Call, Continue(h, d),
           CallSound(store', decisions, d),
           \/ d.pc \notin GripPlaces
           \/ d.msg = calls[h].msg /\ d.pc \in GripPlaces /\ calls[h].pc \in HoldPlaces
    PROVE  DeliveryInv'
<1>1. /\ stream' = stream /\ pending' = pending /\ decisions' = decisions
      /\ endpoints' = endpoints /\ calls' = [calls EXCEPT ![h] = d]
  BY DEF broker, Continue
<1>2. GripsSound(stream', pending', calls')
  BY <1>1, CallOf, GripsStay DEF DeliveryInv, StreamGoesOn
<1>3. StreamSound(stream', store', decisions')
  BY <1>1, StreamStays DEF DeliveryInv, Inv, TypeOK, Kept
<1>4. RegistryTypeOK'
  BY <1>1, CallOf DEF RegistryTypeOK
<1> QED BY <1>1, <1>2, <1>3, <1>4, CallOf, RequestMoves

\* A step that the ledger has no part in.
LEMMA BrokerMoves ==
    ASSUME DeliveryInv, UNCHANGED <<endpoints, store, decisions>>,
           NEW h \in Handlers, NEW d \in Call, Continue(h, d),
           CallSound(store, decisions, d),
           stream' \in [MessageRefs -> [state : {"none", "ready", "out", "acked"},
                                        n : 0..MaxDeliver]],
           StreamSound(stream', store, decisions),
           pending' \subseteq MessageRefs, GripsSound(stream', pending', calls')
    PROVE  DeliveryInv'
<1>1. Kept(store, store') /\ RegistryTypeOK'
  BY DEF Kept, Grows, DeliveryInv, Inv, TypeOK, RegistryTypeOK
<1> QED BY <1>1, CallOf, RequestMoves

\* A ledger that nothing was written to is kept.
LEMMA Unwritten ==
    ASSUME DeliveryInv, UNCHANGED store
    PROVE  Kept(store, store')
BY DEF Kept, Grows, DeliveryInv, Inv, TypeOK

\* An idle handler holds nothing, and relies on nothing.
LEMMA IdleParts ==
    ASSUME NEW S, NEW D
    PROVE  /\ Idle \in Call /\ Idle.pc = "idle" /\ Idle.completing = FALSE
           /\ CallSound(S, D, Idle)
<1>1. Expired \in Countdown(LeaseTicks)
  BY StoreAssumption DEF Countdown, Expired
<1>2. 0 \in 0..MaxFollowUps
  BY HandoffAssumption
<1>3. Idle \in Call /\ Idle.pc = "idle" /\ Idle.completing = FALSE
  BY <1>1, <1>2 DEF Idle, Call
<1> HIDE DEF Idle
<1> QED BY <1>3 DEF CallSound, GripPlaces, HoldPlaces

\* A request that ends.
LEMMA RequestEnds ==
    ASSUME DeliveryInv, Kept(store, store'), UNCHANGED <<endpoints, broker, decisions>>,
           NEW h \in Handlers, Done(h)
    PROVE  DeliveryInv'
BY IdleParts, LedgerMoves DEF Done, GripPlaces, HoldPlaces

\* A call at another place.
LEMMA GotoParts ==
    ASSUME NEW c \in Call,
           NEW pc \in {"judge", "save", "publish", "fetch", "check", "claim", "nak",
                       "untrack", "ack", "settle", "finish"}
    PROVE  LET d == [c EXCEPT !.pc = pc]
           IN  /\ d \in Call /\ d.pc = pc /\ d.msg = c.msg /\ d.request = c.request
               /\ d.quality = c.quality /\ d.ep = c.ep /\ d.names = c.names
               /\ d.lease = c.lease /\ d.attempt = c.attempt
               /\ d.completing = c.completing /\ d.left = c.left
BY DEF Call

\* A message is submitted, by a sender or as the follow-up of a completion.
LEMMA JudgeRequested ==
    ASSUME DeliveryInv, NEW h \in Handlers, NEW m \in MessageRefs, NEW r \in Request,
           NEW q \in Qualities,
           Continue(h, [Idle EXCEPT !.pc = "judge", !.msg = m, !.request = r, !.quality = q]),
           UNCHANGED <<endpoints, store, broker, decisions>>
    PROVE  DeliveryInv'
<1> DEFINE d == [Idle EXCEPT !.pc = "judge", !.msg = m, !.request = r, !.quality = q]
<1>1. /\ d \in Call /\ d.pc = "judge" /\ d.msg = m /\ d.request = r /\ d.quality = q
      /\ d.completing = FALSE
  BY IdleParts DEF Call
<1> HIDE DEF d
<1>2. CallSound(store', decisions, d)
  BY <1>1 DEF CallSound, GripPlaces, HoldPlaces
<1>3. Continue(h, d)
  BY DEF d
<1> QED BY <1>1, <1>2, <1>3, Unwritten, LedgerMoves DEF GripPlaces, HoldPlaces

\* A sender's message.
LEMMA BeginIngressSound ==
    ASSUME DeliveryInv, NEW h \in Handlers, NEW m \in MessageRefs, NEW r \in Requests,
           NEW q \in Qualities, BeginIngress(h, m, r, q)
    PROVE  DeliveryInv'
BY JudgeRequested, HandoffAssumption DEF BeginIngress

\* A follow-up, which belongs to the task of the message it follows.
LEMMA SubmitFollowUpSound ==
    ASSUME DeliveryInv, NEW h \in Handlers, NEW n \in MessageRefs, NEW r \in Requests,
           NEW q \in Qualities, SubmitFollowUp(h, n, r, q)
    PROVE  DeliveryInv'
<1> DEFINE m == calls[h].msg
           req == FollowUpRequest(r, m, store.requests[m].task)
<1>1. m \in MessageRefs /\ Saved(store, m)
  BY CallOf DEF SubmitFollowUp, At, CallSound
<1>2. store.requests[m].task \in Tasks
  BY <1>1, CallOf DEF Sound, Request
<1>3. req \in Request
  BY <1>1, <1>2, FollowUpTyped, HandoffAssumption
<1>4. /\ Continue(h, [Idle EXCEPT !.pc = "judge", !.msg = n, !.request = req, !.quality = q])
      /\ UNCHANGED <<endpoints, store, broker, decisions>>
  <2>1. [Idle EXCEPT !.pc = "judge", !.msg = n, !.quality = q, !.request = req]
          = [Idle EXCEPT !.pc = "judge", !.msg = n, !.request = req, !.quality = q]
    BY IdleParts DEF Call
  <2> QED BY <2>1 DEF SubmitFollowUp
<1> HIDE DEF req
<1> QED BY <1>3, <1>4, JudgeRequested

\* The gate gives one of its verdicts.
LEMMA VerdictTyped ==
    ASSUME NEW q PROVE ValidateMessageWithGate(q) \in Verdict
<1>1. ValidateMessage(q) \in Verdict
  BY DEF ValidateMessage, DecisionStatus, Verdict
<1> QED BY <1>1 DEF ValidateMessageWithGate, Verdict

\* The verdict is recorded, and lets the message through unless it rejects it.
LEMMA SaveDecisionSound ==
    ASSUME DeliveryInv, NEW h \in Handlers, SaveDecision(h)
    PROVE  DeliveryInv'
<1> DEFINE c == calls[h]
           verdict == ValidateMessageWithGate(c.quality)
           d == [c EXCEPT !.pc = "save"]
<1>1. /\ c \in Call /\ CallSound(store, decisions, c) /\ c.pc = "judge"
      /\ c.msg \in MessageRefs /\ c.request \in Request
  BY CallOf DEF SaveDecision, At, CallSound
<1>2. verdict \in Verdict
  BY VerdictTyped
<1>3. /\ decisions' = decisions \cup {<<c.msg, verdict>>}
      /\ UNCHANGED <<endpoints, store, broker>>
      /\ (verdict = "rejected" /\ Continue(h, Idle)) \/ (verdict # "rejected" /\ Continue(h, d))
  BY DEF SaveDecision, Goto, Done
<1> HIDE DEF c, verdict
<1>4. /\ d \in Call /\ d.pc = "save" /\ d.msg = c.msg /\ d.request = c.request
      /\ d.completing = c.completing /\ d.attempt = c.attempt
  <2>1. c \in Call
    BY <1>1
  <2> QED BY ONLY <2>1, GotoParts
<1> HIDE DEF d
<1>5. /\ decisions \subseteq decisions' /\ decisions' \subseteq MessageRefs \X Verdict
      /\ Kept(store, store') /\ store' = store /\ stream' = stream /\ pending' = pending
  BY <1>1, <1>2, <1>3, CallOf, Unwritten DEF broker
<1>6. verdict # "rejected" => CallSound(store', decisions', d)
  <2>1. verdict # "rejected" => Judged(decisions', d.msg)
    BY <1>2, <1>3, <1>4 DEF Judged
  <2> QED BY <1>1, <1>4, <1>5, <2>1 DEF CallSound, GripPlaces, HoldPlaces
<1>7. StreamSound(stream', store', decisions')
  BY <1>5, StreamStays DEF DeliveryInv, Inv, TypeOK, Kept
<1>8. RegistryTypeOK'
  BY <1>3, CallOf DEF RegistryTypeOK
<1>9. ASSUME NEW e \in Call, e.pc \in {"idle", "save"}, Continue(h, e)
      PROVE  GripsSound(stream', pending', calls')
  <2>1. calls' = [calls EXCEPT ![h] = e] /\ e.pc \notin GripPlaces
    BY <1>9 DEF Continue, GripPlaces, HoldPlaces
  <2>2. StreamGoesOn(stream, stream')
    BY <1>5 DEF StreamGoesOn
  <2>3. GripsSound(stream, pending, calls)
    BY DEF DeliveryInv
  <2> QED BY <1>5, <2>1, <2>2, <2>3, CallOf, GripsStay
<1>10. ASSUME NEW e \in Call, e.pc \in {"idle", "save"}, Continue(h, e),
              CallSound(store', decisions', e)
       PROVE  DeliveryInv'
  BY <1>5, <1>7, <1>8, <1>9, <1>10, CallOf, RequestMoves
<1> QED BY <1>3, <1>4, <1>6, <1>10, IdleParts

\* The message is saved, unless its ref is in use.
LEMMA SaveAcceptedSound ==
    ASSUME DeliveryInv, NEW h \in Handlers, SaveAccepted(h)
    PROVE  DeliveryInv'
<1> DEFINE c == calls[h]
           S == SaveMessage(store, c.msg, c.request)
           d == [c EXCEPT !.pc = "publish"]
<1>1. /\ c \in Call /\ CallSound(store, decisions, c) /\ c.pc = "save"
      /\ c.msg \in MessageRefs /\ c.request \in Request /\ Judged(decisions, c.msg)
      /\ store \in Store /\ Sound(store)
  BY CallOf DEF SaveAccepted, At, CallSound
<1>2. UNCHANGED <<endpoints, broker, decisions>>
  BY DEF SaveAccepted
<1>3. CASE Saved(store, c.msg)
  BY <1>2, <1>3, Unwritten, RequestEnds DEF SaveAccepted
<1>4. CASE ~Saved(store, c.msg)
  <2>1. store' = S /\ Continue(h, d)
    BY <1>4 DEF SaveAccepted, Goto
  <2>2. Kept(store, S)
    BY <1>1, <1>4, SaveMessageKept
  <2>3. Saved(S, c.msg)
    BY <1>1 DEF Saved, SaveMessage, Store, AbsentMessage
  <2>4. CallSound(S, decisions, c)
    BY <1>1, <2>2, CallStays DEF Kept
  <2> HIDE DEF S, c
  <2>5. /\ d \in Call /\ d.pc = "publish" /\ d.msg = c.msg
        /\ d.completing = c.completing /\ d.attempt = c.attempt
    <3>1. c \in Call
      BY <1>1
    <3> QED BY ONLY <3>1, GotoParts
  <2> HIDE DEF d
  <2>6. CallSound(S, decisions, d)
    BY <1>1, <2>3, <2>4, <2>5 DEF CallSound, GripPlaces, HoldPlaces
  <2> QED BY <1>2, <2>1, <2>2, <2>5, <2>6, LedgerMoves DEF GripPlaces, HoldPlaces
<1> QED BY <1>3, <1>4

\* Only a message that is judged and saved is published.
LEMMA PublishSound ==
    ASSUME DeliveryInv, NEW h \in Handlers, PublishAcceptedMessage(h)
    PROVE  DeliveryInv'
<1> DEFINE m == calls[h].msg
           old == stream[m]
           new == [old EXCEPT !.state = IF old.state = "none" THEN "ready" ELSE old.state]
<1>1. /\ m \in MessageRefs /\ Saved(store, m) /\ Judged(decisions, m)
  BY CallOf DEF PublishAcceptedMessage, At, CallSound
<1>2. /\ stream' = [stream EXCEPT ![m] = new] /\ Done(h)
      /\ UNCHANGED <<endpoints, store, pending, decisions>>
  BY <1>1, CallOf DEF PublishAcceptedMessage
<1>3. old \in [state : {"none", "ready", "out", "acked"}, n : 0..MaxDeliver]
  BY <1>1, CallOf
<1>4. /\ new \in [state : {"none", "ready", "out", "acked"}, n : 0..MaxDeliver]
      /\ new.state = "acked" <=> old.state = "acked"
      /\ new.state # "none"
  BY <1>3
<1> HIDE DEF new
<1>5. /\ stream' \in [MessageRefs -> [state : {"none", "ready", "out", "acked"}, n : 0..MaxDeliver]]
      /\ stream'[m] = new /\ \A n \in MessageRefs : n # m => stream'[n] = stream[n]
  BY <1>1, <1>2, <1>4, CallOf
<1>6. StreamSound(stream', store, decisions)
  BY <1>1, <1>4, <1>5 DEF DeliveryInv, StreamSound
<1>7. StreamGoesOn(stream, stream')
  BY <1>4, <1>5 DEF StreamGoesOn
<1>8. calls' = [calls EXCEPT ![h] = Idle] /\ Continue(h, Idle) /\ Idle.pc \notin GripPlaces
  BY <1>2, IdleParts DEF Done, Continue, GripPlaces, HoldPlaces
<1>9. GripsSound(stream', pending', calls')
  <2>1. GripsSound(stream, pending, calls) /\ pending' = pending
    BY <1>2 DEF DeliveryInv
  <2> QED BY <1>7, <1>8, <2>1, CallOf, IdleParts, GripsStay
<1> QED BY <1>2, <1>5, <1>6, <1>8, <1>9, CallOf, IdleParts, BrokerMoves

-----------------------------------------------------------------------------
(* Claim-next.                                                             *)

\* It begins with a reconciled ledger, and no delivery yet.
LEMMA BeginClaimNextSound ==
    ASSUME DeliveryInv, NEW h \in Handlers, NEW e \in Endpoints, BeginClaimNext(h, e)
    PROVE  DeliveryInv'
<1> DEFINE names == endpoints[e].names
           d == [Idle EXCEPT !.pc = "fetch", !.ep = e, !.names = names, !.lease = LeaseTicks]
<1>1. names \in SUBSET Capabilities
  BY CallOf DEF DeliveryInv, Inv, TypeOK, RegistryTypeOK, Endpoint
<1>2. LeaseTicks \in Countdown(LeaseTicks)
  BY StoreAssumption DEF Countdown, Expired
<1>3. /\ store' = ReconcileStore(store) /\ Continue(h, d)
      /\ UNCHANGED <<endpoints, broker, decisions>>
  BY DEF BeginClaimNext
<1> HIDE DEF names
<1>4. d \in Call /\ d.pc = "fetch" /\ d.ep = e /\ d.completing = FALSE
  BY <1>1, <1>2, IdleParts DEF Call
<1> HIDE DEF d
<1>5. Kept(store, store')
  BY <1>3, CallOf, ReconcileKept DEF DeliveryInv, Inv, TypeOK
<1>6. CallSound(store', decisions, d)
  BY <1>4 DEF CallSound, GripPlaces, HoldPlaces
<1> QED BY <1>3, <1>4, <1>5, <1>6, LedgerMoves DEF GripPlaces, HoldPlaces

\* What the broker hands out was ready, and so neither new to it nor settled.
LEMMA HandedOutParts ==
    ASSUME DeliveryInv, NEW batch \in SUBSET Fetchable, NEW back,
           stream' = HandedOut(batch, back)
    PROVE  /\ stream' \in [MessageRefs -> [state : {"none", "ready", "out", "acked"},
                                           n : 0..MaxDeliver]]
           /\ StreamSound(stream', store, decisions)
           /\ StreamGoesOn(stream, stream')
           /\ \A m \in batch : stream'[m].state # "none"
<1>1. ASSUME NEW m \in MessageRefs
      PROVE  /\ stream'[m] \in [state : {"none", "ready", "out", "acked"}, n : 0..MaxDeliver]
             /\ stream'[m].state = "acked" <=> stream[m].state = "acked"
             /\ stream'[m].state = "none" <=> stream[m].state = "none"
  <2>1. /\ stream[m] \in [state : {"none", "ready", "out", "acked"}, n : 0..MaxDeliver]
    BY CallOf DEF DeliveryInv, DeliveryTypeOK
  <2>2. CASE m \in batch
    <3>1. stream[m].state = "ready" /\ stream[m].n < MaxDeliver
      BY <2>2 DEF Fetchable
    <3>2. MaxDeliver \in Nat
      BY DeliveryAssumption DEF MaxDeliver, Validated
    <3>3. stream'[m] = [state |-> IF m \in back THEN "ready" ELSE "out", n |-> stream[m].n + 1]
      BY <2>2 DEF HandedOut
    <3> QED BY <2>1, <3>1, <3>2, <3>3
  <2>3. CASE m \notin batch
    BY <2>1, <2>3 DEF HandedOut
  <2> QED BY <2>2, <2>3
<1>2. stream' = [m \in MessageRefs |-> stream'[m]]
  BY DEF HandedOut
<1>3. stream' \in [MessageRefs -> [state : {"none", "ready", "out", "acked"}, n : 0..MaxDeliver]]
  BY <1>1, <1>2
<1>4. StreamSound(stream', store, decisions)
  BY <1>1 DEF DeliveryInv, StreamSound
<1>5. \A m \in batch : m \in MessageRefs /\ stream[m].state # "none"
  BY DEF Fetchable
<1> QED BY <1>1, <1>3, <1>4, <1>5 DEF StreamGoesOn

\* A delivery is taken by one request: nobody has it in their grip, for it is
\* neither tracked nor settled.
LEMMA TrackDeliverySound ==
    ASSUME DeliveryInv, NEW h \in Handlers, NEW batch \in SUBSET Fetchable,
           NEW skipped \in SUBSET batch, NEW m \in batch \ skipped,
           TrackDelivery(h, batch, skipped, m)
    PROVE  DeliveryInv'
<1> DEFINE c == calls[h]
           d == [c EXCEPT !.pc = "check", !.msg = m]
<1>1. /\ c \in Call /\ CallSound(store, decisions, c) /\ c.pc = "fetch"
  BY CallOf DEF TrackDelivery, At
<1>2. /\ m \in MessageRefs /\ m \notin pending /\ stream[m].state = "ready"
      /\ stream' = HandedOut(batch, skipped) /\ pending' = pending \cup {m}
      /\ Continue(h, d) /\ UNCHANGED <<endpoints, store, decisions>>
  BY DEF TrackDelivery, Fetchable
<1> HIDE DEF c
<1>3. /\ d \in Call /\ d.pc = "check" /\ d.msg = m /\ d.ep = c.ep
      /\ d.completing = c.completing
  BY <1>1, <1>2 DEF Call
<1> HIDE DEF d
<1>4. c.completing = FALSE /\ c.ep \in Endpoints
  BY <1>1 DEF CallSound, Call
<1>5. CallSound(store, decisions, d)
  BY <1>2, <1>3, <1>4 DEF CallSound, GripPlaces, HoldPlaces
<1>6. /\ stream' \in [MessageRefs -> [state : {"none", "ready", "out", "acked"}, n : 0..MaxDeliver]]
      /\ StreamSound(stream', store, decisions)
      /\ StreamGoesOn(stream, stream') /\ stream'[m].state # "none"
  BY <1>2, HandedOutParts
<1>7. /\ calls'[h] = d /\ \A k \in Handlers : k # h => calls'[k] = calls[k]
  BY <1>2, CallOf DEF Continue
<1>8. ASSUME NEW k \in Handlers, k # h, calls[k].pc \in GripPlaces
      PROVE  /\ calls[k].msg \in MessageRefs /\ calls[k].msg # m
             /\ calls[k].msg \in pending' \/ stream'[calls[k].msg].state = "acked"
  <2>1. calls[k].msg \in pending \/ stream[calls[k].msg].state = "acked"
    BY <1>8 DEF DeliveryInv, GripsSound
  <2>2. calls[k].msg \in MessageRefs
    BY <1>8, CallOf
  <2> QED BY <1>2, <1>6, <2>1, <2>2 DEF StreamGoesOn
<1>9. ASSUME NEW k \in Handlers, NEW l \in Handlers, k # l, k # h, l # h,
             calls[k].msg = calls[l].msg, calls[k].pc \in GripPlaces, calls[l].pc \in GripPlaces
      PROVE  /\ stream'[calls[k].msg].state = "acked"
             /\ calls[k].pc = "untrack" \/ calls[l].pc = "untrack"
  BY <1>6, <1>8, <1>9 DEF DeliveryInv, GripsSound, StreamGoesOn
<1>10. GripsSound(stream', pending', calls')
  <2>1. \A k \in Handlers :
          calls'[k].pc \in GripPlaces =>
             calls'[k].msg \in pending' \/ stream'[calls'[k].msg].state = "acked"
    BY <1>2, <1>3, <1>7, <1>8
  <2>2. ASSUME NEW k \in Handlers, NEW l \in Handlers, k # l, calls'[k].msg = calls'[l].msg,
               calls'[k].pc \in GripPlaces, calls'[l].pc \in GripPlaces
        PROVE  k # h /\ l # h
    BY <1>3, <1>7, <1>8, <2>2
  <2>3. \A n \in pending' : stream'[n].state # "none"
    BY <1>2, <1>6, CallOf DEF DeliveryInv, GripsSound, StreamGoesOn
  <2> QED BY <1>7, <1>9, <2>1, <2>2, <2>3 DEF GripsSound
<1>11. pending' \subseteq MessageRefs
  BY <1>2, CallOf
<1> QED BY <1>2, <1>3, <1>5, <1>6, <1>10, <1>11, BrokerMoves

\* A batch that is handed out to nobody.
LEMMA BatchEnds ==
    ASSUME DeliveryInv, NEW h \in Handlers, NEW batch \in SUBSET Fetchable, NEW back,
           stream' = HandedOut(batch, back), Done(h),
           UNCHANGED <<endpoints, store, pending, decisions>>
    PROVE  DeliveryInv'
<1>1. /\ stream' \in [MessageRefs -> [state : {"none", "ready", "out", "acked"}, n : 0..MaxDeliver]]
      /\ StreamSound(stream', store, decisions)
      /\ StreamGoesOn(stream, stream')
  BY HandedOutParts
<1>2. calls' = [calls EXCEPT ![h] = Idle] /\ Continue(h, Idle) /\ Idle.pc \notin GripPlaces
  BY IdleParts DEF Done, Continue, GripPlaces, HoldPlaces
<1>3. GripsSound(stream', pending', calls')
  <2>1. GripsSound(stream, pending, calls) /\ pending' = pending
    BY DEF DeliveryInv
  <2>2. /\ pending \in SUBSET MessageRefs /\ calls \in [Handlers -> Call]
        /\ \A k \in Handlers : calls[k].pc \in GripPlaces => calls[k].msg \in MessageRefs
    BY CallOf
  <2>3. Idle \in Call
    BY IdleParts
  <2>4. StreamGoesOn(stream, stream') /\ Idle.pc \notin GripPlaces
    BY <1>1, <1>2
  <2>5. GripsSound(stream', pending, [calls EXCEPT ![h] = Idle])
    <3> HIDE DEF Idle
    <3> QED BY ONLY <2>1, <2>2, <2>3, <2>4, h \in Handlers, GripsStay
  <2> QED BY <1>2, <2>1, <2>5
<1> QED BY <1>1, <1>2, <1>3, CallOf, IdleParts, BrokerMoves

\* A fetch, whatever it brings.
LEMMA FetchSound ==
    ASSUME DeliveryInv, NEW h \in Handlers, Fetch(h)
    PROVE  DeliveryInv'
<1> SUFFICES ASSUME NEW batch \in SUBSET Fetchable, NEW skipped \in SUBSET batch,
                    \/ \E m \in batch \ skipped : \/ TrackDelivery(h, batch, skipped, m)
                                                  \/ RefusePendingDelivery(h, batch, skipped, m)
                    \/ FetchNothingAllowed(h, batch, skipped)
             PROVE  DeliveryInv'
  BY DEF Fetch
<1>2. ASSUME NEW m \in batch \ skipped, TrackDelivery(h, batch, skipped, m)
      PROVE  DeliveryInv'
  BY <1>2, TrackDeliverySound
<1>3. ASSUME NEW m \in batch \ skipped, RefusePendingDelivery(h, batch, skipped, m)
      PROVE  DeliveryInv'
  BY <1>3, BatchEnds DEF RefusePendingDelivery
<1>4. CASE FetchNothingAllowed(h, batch, skipped)
  BY <1>4, BatchEnds DEF FetchNothingAllowed
<1> QED BY <1>2, <1>3, <1>4

\* A request that the broker fails, at any of its places.
LEMMA BrokerFails ==
    ASSUME DeliveryInv, NEW h \in Handlers,
           FetchTimesOut(h) \/ PublishFails(h) \/ AnswerFails(h)
    PROVE  DeliveryInv'
BY Unwritten, RequestEnds DEF FetchTimesOut, PublishFails, AnswerFails

\* A fetched delivery is claimed only if its message is saved and what it
\* depends on has completed.
LEMMA CheckDeliverySound ==
    ASSUME DeliveryInv, NEW h \in Handlers, CheckDelivery(h)
    PROVE  DeliveryInv'
<1> DEFINE c == calls[h]
           r == store.requests[c.msg]
           granted == /\ Saved(store, c.msg)
                      /\ MessageClaimableByEndpoint(r, c.ep, c.names,
                                        PreferredEndpointOnline(OnlineEndpoints, r))
                      /\ MessageDependenciesCompleted(r, StateOf(store))
           next == IF granted THEN "claim" ELSE "nak"
           d == [c EXCEPT !.pc = next]
<1>1. /\ c \in Call /\ CallSound(store, decisions, c) /\ c.pc = "check"
      /\ store \in Store /\ Sound(store)
  BY CallOf DEF CheckDelivery, At
<1>2. Continue(h, d) /\ UNCHANGED <<endpoints, store, broker, decisions>>
  BY DEF CheckDelivery, Goto
<1>3. c.msg \in MessageRefs /\ c.ep \in Endpoints /\ c.completing = FALSE
  BY <1>1 DEF CallSound, GripPlaces, HoldPlaces, Call
<1>4. next = "claim" => Saved(store, c.msg) /\ Founded(store, c.msg)
  BY <1>1, <1>3, CompletedIsRecorded
<1>5. next \in {"claim", "nak"}
  OBVIOUS
<1> HIDE DEF next, granted, r
<1>6. /\ d \in Call /\ d.pc = next /\ d.msg = c.msg /\ d.ep = c.ep /\ d.completing = FALSE
  BY <1>1, <1>3, <1>5 DEF Call
<1>7. CallSound(store', decisions, d)
  BY <1>2, <1>3, <1>4, <1>5, <1>6 DEF CallSound, GripPlaces, HoldPlaces
<1> HIDE DEF d
<1>8. d.msg = calls[h].msg /\ d.pc \in GripPlaces /\ calls[h].pc \in HoldPlaces
  BY <1>1, <1>5, <1>6 DEF GripPlaces, HoldPlaces
<1> QED BY <1>2, <1>6, <1>7, <1>8, Unwritten, LedgerMoves

\* A claim of the fetched message, under the lease fixed when it began.
LEMMA ClaimFetchedSound ==
    ASSUME DeliveryInv, NEW h \in Handlers, NEW a \in AttemptRefs, ClaimFetched(h, a)
    PROVE  DeliveryInv'
<1> DEFINE c == calls[h]
           S == ClaimMessageStore(store, c.msg, c.ep, a)
           T == UpdateAttempt(S, a, [S.attempts[a] EXCEPT !.lease = c.lease])
<1>1. /\ c \in Call /\ CallSound(store, decisions, c) /\ c.pc = "claim"
      /\ store \in Store /\ Sound(store)
  BY CallOf DEF ClaimFetched, At
<1>2. /\ store' = T /\ Done(h) /\ ~Exists(store, a)
      /\ UNCHANGED <<endpoints, broker, decisions>>
  BY DEF ClaimFetched
<1>3. /\ c.msg \in MessageRefs /\ c.ep \in Endpoints /\ c.lease \in Countdown(LeaseTicks)
      /\ Saved(store, c.msg) /\ Founded(store, c.msg)
  BY <1>1 DEF CallSound, Call
<1> HIDE DEF c
<1>4. Kept(store, S)
  BY <1>1, <1>2, <1>3, ClaimMessageKept
<1> HIDE DEF S
<1>5. Kept(S, T)
  BY <1>3, <1>4, LeaseKept DEF Kept
<1> HIDE DEF T
<1>6. Kept(store, store')
  BY <1>1, <1>2, <1>4, <1>5, KeptTransitive
<1> QED BY <1>2, <1>6, RequestEnds

\* A message past its last redelivery is dead-lettered, which settles its
\* delivery.
LEMMA DeadLetterFetchedSound ==
    ASSUME DeliveryInv, NEW h \in Handlers, DeadLetterFetched(h)
    PROVE  DeliveryInv'
<1> DEFINE c == calls[h]
           m == c.msg
           d == [c EXCEPT !.pc = "ack"]
<1>1. /\ c \in Call /\ CallSound(store, decisions, c) /\ c.pc = "claim"
      /\ store \in Store /\ Sound(store)
  BY CallOf DEF DeadLetterFetched, At
<1>2. /\ store' = DeadLetterMessage(store, m) /\ Continue(h, d)
      /\ HasCurrentAttempt(store, m) /\ OutOfRedeliveries(store, m)
      /\ UNCHANGED <<endpoints, broker, decisions>>
  BY DEF DeadLetterFetched, Goto, IsTakeoverCandidate
<1>3. m \in MessageRefs /\ c.completing = FALSE
  BY <1>1 DEF CallSound, Call
<1>4. d \in Call /\ d.pc = "ack" /\ d.msg = m /\ d.completing = FALSE
  BY <1>1, <1>3, GotoParts
<1> HIDE DEF d, m, c
<1>5. Kept(store, store')
  BY <1>1, <1>2, <1>3, DeadLetterKept
<1>6. \E l \in store'.deadLetters : l.msg = m
  <2> DEFINE cur == store.messages[m].attempt
             l == [msg |-> m, attempt |-> cur, redelivery |-> store.messages[m].redelivery,
                   checkpoint |-> store.checkpoints[cur].count]
  <2>1. l \in store'.deadLetters
    BY <1>1, <1>2 DEF DeadLetterMessage, Store
  <2> QED BY <2>1
<1>7. CallSound(store', decisions, d)
  BY <1>3, <1>4, <1>6 DEF CallSound, GripPlaces, HoldPlaces, SettledIn
<1> QED BY <1>2, <1>4, <1>5, <1>7, LedgerMoves DEF GripPlaces, HoldPlaces

\* A claim the ledger refuses is followed by a nak.
LEMMA ClaimRefusedSound ==
    ASSUME DeliveryInv, NEW h \in Handlers, ClaimRefused(h)
    PROVE  DeliveryInv'
<1> DEFINE c == calls[h]
           d == [c EXCEPT !.pc = "nak"]
<1>1. /\ c \in Call /\ CallSound(store, decisions, c) /\ c.pc = "claim"
  BY CallOf DEF ClaimRefused, At
<1>2. Continue(h, d) /\ UNCHANGED <<endpoints, store, broker, decisions>>
  BY DEF ClaimRefused, Goto
<1>3. c.msg \in MessageRefs /\ c.completing = FALSE
  BY <1>1 DEF CallSound, Call
<1>4. d \in Call /\ d.pc = "nak" /\ d.msg = c.msg /\ d.completing = FALSE
  BY <1>1, <1>3, GotoParts
<1>5. d.msg = calls[h].msg /\ d.pc \in GripPlaces /\ calls[h].pc \in HoldPlaces
  BY <1>1, <1>4 DEF GripPlaces, HoldPlaces
<1> HIDE DEF d, c
<1>6. CallSound(store', decisions, d)
  BY <1>2, <1>3, <1>4 DEF CallSound, GripPlaces, HoldPlaces
<1> QED BY <1>2, <1>4, <1>5, <1>6, Unwritten, LedgerMoves

-----------------------------------------------------------------------------
(* Answering the broker.                                                   *)

\* An answer changes one delivery, which nobody had answered, and comes before
\* the delivery is forgotten.
LEMMA AnswerSound ==
    ASSUME DeliveryInv, NEW h \in Handlers, NEW s \in {"ready", "acked"},
           LET m == calls[h].msg IN
             /\ m \in pending /\ stream[m].state # "acked"
             /\ stream' = [stream EXCEPT ![m].state = s]
             /\ s = "acked" => SettledIn(store, m)
             /\ s = "ready" => calls[h].pc \in HoldPlaces,
           calls[h].pc \in {"nak", "ack"}, Goto(h, "untrack"),
           UNCHANGED <<endpoints, store, pending, decisions>>
    PROVE  DeliveryInv'
<1> DEFINE c == calls[h]
           m == c.msg
           d == [c EXCEPT !.pc = "untrack"]
           new == [stream[m] EXCEPT !.state = s]
<1>1. /\ c \in Call /\ CallSound(store, decisions, c)
      /\ m \in pending /\ stream[m].state # "acked" /\ m \in MessageRefs
      /\ stream[m].state # "none" /\ Continue(h, d)
  BY CallOf DEF Goto, DeliveryInv, GripsSound
<1>2. d \in Call /\ d.pc = "untrack" /\ d.msg = m /\ d.attempt = c.attempt /\ d.completing = c.completing
  BY <1>1, GotoParts
<1>3. /\ new \in [state : {"none", "ready", "out", "acked"}, n : 0..MaxDeliver]
      /\ new.state = s /\ stream' = [stream EXCEPT ![m] = new]
  BY <1>1, CallOf
<1>4. (s = "acked" => SettledIn(store, m)) /\ (s = "ready" => c.pc \in HoldPlaces)
  OBVIOUS
<1> HIDE DEF new, d, m
<1>5. /\ stream' \in [MessageRefs -> [state : {"none", "ready", "out", "acked"}, n : 0..MaxDeliver]]
      /\ stream'[m] = new /\ \A n \in MessageRefs : n # m => stream'[n] = stream[n]
  BY <1>1, <1>3, CallOf
<1>6. StreamSound(stream', store, decisions)
  BY <1>1, <1>3, <1>4, <1>5 DEF DeliveryInv, StreamSound
<1>7. StreamGoesOn(stream, stream')
  BY <1>1, <1>3, <1>5 DEF StreamGoesOn
<1>8. CallSound(store, decisions, d)
  BY <1>1, <1>2 DEF m, CallSound, GripPlaces, HoldPlaces
<1>9. calls' = [calls EXCEPT ![h] = d]
  BY <1>1 DEF Continue
<1>10. \/ d.msg = calls[h].msg /\ d.pc \in GripPlaces /\ calls[h].pc \in HoldPlaces
       \/ d.pc = "untrack" /\ stream'[d.msg].state = "acked"
  BY <1>2, <1>3, <1>4, <1>5 DEF m, GripPlaces
<1>11. GripsSound(stream', pending', calls')
  <2>1. GripsSound(stream, pending, calls) /\ pending' = pending
    BY DEF DeliveryInv
  <2> QED BY <1>2, <1>7, <1>9, <1>10, <2>1, CallOf, GripsStay
<1> QED BY <1>1, <1>2, <1>5, <1>6, <1>8, <1>11, CallOf, BrokerMoves

\* A nak gives the delivery back, an ack gives it up: then it is settled.
LEMMA NakDeliverySound ==
    ASSUME DeliveryInv, NEW h \in Handlers, NakDelivery(h) \/ AckDelivery(h)
    PROVE  DeliveryInv'
<1>1. CASE NakDelivery(h)
  BY <1>1, AnswerSound DEF NakDelivery, At, HoldPlaces
<1>2. CASE AckDelivery(h)
  <2>1. SettledIn(store, calls[h].msg)
    BY <1>2, CallOf DEF AckDelivery, At, CallSound
  <2> QED BY <1>2, <2>1, AnswerSound DEF AckDelivery, At
<1> QED BY <1>1, <1>2

\* A delivery that is tracked no more was answered.  Whoever else has it in
\* their grip has it because it is settled.
LEMMA RemovePendingSound ==
    ASSUME DeliveryInv, NEW h \in Handlers, RemovePending(h)
    PROVE  DeliveryInv'
<1> DEFINE c == calls[h]
           m == c.msg
           d == IF c.completing THEN [c EXCEPT !.pc = "finish"] ELSE Idle
<1>1. /\ c \in Call /\ CallSound(store, decisions, c) /\ c.pc = "untrack"
      /\ pending' = pending \ {m} /\ Continue(h, d)
      /\ UNCHANGED <<endpoints, store, stream, decisions>>
  BY CallOf DEF RemovePending, At, Goto, Done
<1>2. d \in Call /\ d.pc \in {"finish", "idle"} /\ CallSound(store, decisions, d)
  <2>1. CASE c.completing
    <3> DEFINE e == [c EXCEPT !.pc = "finish"]
    <3>1. /\ e \in Call /\ e.pc = "finish" /\ e.msg = m /\ e.attempt = c.attempt
          /\ e.completing = c.completing
      BY <1>1, GotoParts
    <3>2. d = e
      BY <2>1
    <3> HIDE DEF e, d
    <3>3. CallSound(store, decisions, e)
      BY <1>1, <2>1, <3>1 DEF CallSound, GripPlaces, HoldPlaces
    <3> QED BY <3>1, <3>2, <3>3
  <2>2. CASE ~c.completing
    BY <2>2, IdleParts
  <2> QED BY <2>1, <2>2
<1> HIDE DEF d
<1>3. /\ calls'[h] = d /\ d.pc \notin GripPlaces
      /\ \A k \in Handlers : k # h => calls'[k] = calls[k]
  BY <1>1, <1>2, CallOf DEF Continue, GripPlaces, HoldPlaces
<1>4. ASSUME NEW k \in Handlers, k # h, calls[k].pc \in GripPlaces
      PROVE  calls[k].msg \in pending' \/ stream'[calls[k].msg].state = "acked"
  <2>1. CASE calls[k].msg = m
    BY <1>1, <1>4, <2>1 DEF DeliveryInv, GripsSound, GripPlaces
  <2>2. CASE calls[k].msg # m
    BY <1>1, <1>4, <2>2 DEF DeliveryInv, GripsSound
  <2> QED BY <2>1, <2>2
<1>5. GripsSound(stream', pending', calls')
  BY <1>1, <1>3, <1>4 DEF DeliveryInv, GripsSound
<1>6. stream' = stream /\ StreamSound(stream, store, decisions) /\ pending' \subseteq MessageRefs
  BY <1>1, CallOf DEF DeliveryInv
<1> QED BY <1>1, <1>2, <1>5, <1>6, CallOf, BrokerMoves

-----------------------------------------------------------------------------
(* Terminal checkpoints.                                                   *)

\* A terminal checkpoint is on record before the delivery is acked for it.
LEMMA BeginTerminalSound ==
    ASSUME DeliveryInv, NEW h \in Handlers, NEW a \in AttemptRefs,
           NEW report \in ClosedState \cap CheckpointState,
           NEW completing \in BOOLEAN, completing => report = "completed",
           NEW left \in 0..MaxFollowUps,
           BeginTerminal(h, a, report, completing, left)
    PROVE  DeliveryInv'
<1> DEFINE m == store.attempts[a].msg
           T == CheckpointStore(store, a, report)
           d == [Idle EXCEPT !.pc = "ack", !.msg = m, !.attempt = a,
                             !.completing = completing, !.left = left]
<1>1. /\ store \in Store /\ Sound(store) /\ Exists(store, a)
      /\ store' = T /\ Continue(h, d) /\ UNCHANGED <<endpoints, broker, decisions>>
  BY CallOf DEF BeginTerminal, Live, Open, Exists
<1>2. m \in MessageRefs
  BY <1>1 DEF Sound, AttemptFounded
<1>3. Kept(store, T)
  BY <1>1, CheckpointStoreKept
<1>4. Exists(T, a) /\ T.attempts[a].msg = m
  BY <1>1, <1>3 DEF Kept, Grows
<1>5. report \in T.checkpoints[a].reported
  <2> DEFINE S1 == SaveCheckpoint(store, a, report)
  <2>1. report \in S1.checkpoints[a].reported
    BY <1>1, CheckpointKept DEF CheckpointState
  <2>2. T.checkpoints = S1.checkpoints
    <3> HIDE DEF m
    <3>1. \A x, y, S2 : UpdateMessage(UpdateAttempt(S1, a, x), y, S2).checkpoints = S1.checkpoints
      BY <1>1 DEF UpdateMessage, UpdateAttempt, SaveCheckpoint, Store
    <3> QED BY <3>1 DEF CheckpointStore
  <2> QED BY <2>1, <2>2
<1> HIDE DEF T, m
<1>6. /\ d \in Call /\ d.pc = "ack" /\ d.msg = m /\ d.attempt = a
      /\ d.completing = completing
  BY <1>2, IdleParts DEF Call
<1>7. SettledIn(T, m)
  BY <1>4, <1>5 DEF SettledIn
<1> HIDE DEF d
<1>8. CallSound(T, decisions, d)
  BY <1>2, <1>4, <1>5, <1>6, <1>7 DEF CallSound, GripPlaces, HoldPlaces
<1> QED BY <1>1, <1>3, <1>6, <1>8, LedgerMoves DEF GripPlaces, HoldPlaces

\* A completion closes its attempt and its message once more, for which its
\* report is evidence still.
LEMMA FinishCompletionSound ==
    ASSUME DeliveryInv, NEW h \in Handlers, FinishCompletion(h)
    PROVE  DeliveryInv'
<1> DEFINE c == calls[h]
           a == c.attempt
           m == c.msg
           att == [store.attempts[a] EXCEPT !.state = "completed"]
           rec == [store.messages[m] EXCEPT !.state = "completed"]
           S == UpdateAttempt(store, a, att)
           d == [c EXCEPT !.pc = "settle"]
<1>1. /\ c \in Call /\ CallSound(store, decisions, c) /\ c.pc = "finish"
      /\ store \in Store /\ Sound(store)
  BY CallOf DEF FinishCompletion, At
<1>2. /\ store' = UpdateMessage(S, m, rec)
      /\ Continue(h, d) \/ Done(h)
      /\ UNCHANGED <<endpoints, broker, decisions>>
  BY DEF FinishCompletion, Goto
<1>3. /\ a \in AttemptRefs /\ Exists(store, a) /\ m = store.attempts[a].msg
      /\ "completed" \in store.checkpoints[a].reported
  BY <1>1 DEF CallSound
<1>4. d \in Call /\ d.pc = "settle" /\ d.msg = m /\ d.attempt = a
      /\ d.completing = c.completing
  BY <1>1, GotoParts
<1> HIDE DEF d
<1>5. m \in MessageRefs /\ Saved(store, m)
  BY <1>1, <1>3 DEF Sound, AttemptFounded
<1>6. /\ att \in Attempt /\ att.state # "absent" /\ att.msg = m
      /\ att.epoch = store.attempts[a].epoch
  BY <1>1, <1>3, StoreParts DEF Attempt, AttemptState
<1> HIDE DEF a, att, c
<1>7. Kept(store, S) /\ S.messages = store.messages
  BY <1>1, <1>3, <1>6, UpdateAttemptKept
<1> HIDE DEF S
<1>8. S \in Store /\ Sound(S) /\ Saved(S, m) /\ CompletionRecorded(S, m)
  BY <1>1, <1>3, <1>5, <1>7 DEF Kept, Grows, CompletionRecorded
<1>9. rec \in Message /\ rec.state # "absent" /\ RecordSound(S, m, rec)
  <2>1. rec = [store.messages[m] EXCEPT !.state = MessageStateAfter("completed", @)]
    BY DEF MessageStateAfter
  <2>2. /\ store.messages[m] \in Message /\ store.messages[m].state # "absent"
        /\ RecordSound(S, m, store.messages[m])
    BY <1>5, <1>7, <1>8, StoreParts DEF Sound, Saved
  <2>3. "completed" \in CheckpointState
    BY DEF CheckpointState, AttemptState
  <2> HIDE DEF rec, m
  <2> QED BY <1>5, <1>8, <2>1, <2>2, <2>3, ReportedState
<1> HIDE DEF rec, m
<1>10. Kept(store, store')
  BY <1>1, <1>2, <1>5, <1>7, <1>8, <1>9, UpdateMessageKept, KeptTransitive
<1>11. CASE Done(h)
  BY <1>2, <1>10, <1>11, RequestEnds
<1>12. CASE Continue(h, d)
  <2>1. CallSound(store', decisions, c)
    BY <1>1, <1>10, CallStays DEF Kept
  <2>2. Saved(store', m)
    BY <1>5, <1>10 DEF Kept, Grows
  <2>3. CallSound(store', decisions, d)
    BY <1>1, <1>4, <1>5, <2>1, <2>2 DEF CallSound, GripPlaces, HoldPlaces, m, a
  <2> QED BY <1>2, <1>4, <1>10, <1>12, <2>3, LedgerMoves DEF GripPlaces, HoldPlaces
<1> QED BY <1>2, <1>11, <1>12

-----------------------------------------------------------------------------
(* What happens beside the requests that meet the broker.                  *)

\* The ledger moves on, and with it no more than the clocks of the requests.
LEMMA LedgerMovesOn ==
    ASSUME DeliveryInv, [Next]_vars, UNCHANGED <<broker, decisions>>,
           calls' \in [Handlers -> Call],
           \A h \in Handlers : calls'[h] = [calls[h] EXCEPT !.lease = calls'[h].lease]
    PROVE  DeliveryInv'
<1>1. /\ store \in Store /\ Sound(store) /\ Kept(store, store') /\ Inv' /\ TypeOK'
      /\ calls \in [Handlers -> Call]
      /\ stream' = stream /\ pending' = pending /\ decisions' = decisions
  BY StoreNext, NextInv, CallOf DEF DeliveryInv, DeliveryTypeOK, Inv, TypeOK, broker
<1>2. StreamSound(stream', store', decisions')
  BY <1>1, StreamStays DEF DeliveryInv, Kept
<1>3. ASSUME NEW h \in Handlers
      PROVE  /\ calls'[h].pc = calls[h].pc /\ calls'[h].msg = calls[h].msg
             /\ calls'[h].request = calls[h].request /\ calls'[h].quality = calls[h].quality
             /\ calls'[h].ep = calls[h].ep /\ calls'[h].attempt = calls[h].attempt
             /\ calls'[h].completing = calls[h].completing
  <2> DEFINE c == calls[h]
             l == calls'[h].lease
  <2>1. c \in Call /\ calls'[h] = [c EXCEPT !.lease = l]
    BY <1>1
  <2> HIDE DEF c, l
  <2>2. LET d == [c EXCEPT !.lease = l]
        IN  /\ d.pc = c.pc /\ d.msg = c.msg /\ d.request = c.request
            /\ d.quality = c.quality /\ d.ep = c.ep /\ d.attempt = c.attempt
            /\ d.completing = c.completing
    BY <2>1 DEF Call
  <2> QED BY <2>1, <2>2 DEF c
<1>4. GripsSound(stream', pending', calls')
  BY <1>1, <1>3 DEF DeliveryInv, GripsSound
<1>5. ASSUME NEW h \in Handlers
      PROVE  CallSound(store', decisions', calls'[h])
  <2>1. CallSound(store', decisions', calls[h])
    BY <1>1, CallStays DEF DeliveryInv, Kept
  <2> QED BY <1>3, <2>1 DEF CallSound
<1>6. DeliveryTypeOK'
  BY <1>1 DEF DeliveryInv, DeliveryTypeOK
<1> QED BY <1>1, <1>2, <1>4, <1>5, <1>6 DEF DeliveryInv

\* Requests that never meet the broker are steps of Handoff.
LEMMA ElsewhereSound ==
    ASSUME DeliveryInv, Elsewhere
    PROVE  DeliveryInv'
<1>1. [Next]_vars
  BY DEF Elsewhere, Next, WorkerNext, OperatorNext
<1>2. UNCHANGED <<broker, decisions>> /\ calls' = calls
  BY DEF Elsewhere
<1>3. \A h \in Handlers : calls[h] = [calls[h] EXCEPT !.lease = calls[h].lease]
  BY CallOf DEF Call
<1> QED BY <1>1, <1>2, <1>3, CallOf, LedgerMovesOn DEF DeliveryInv, DeliveryTypeOK

\* Time passes for endpoints, leases, and the leases that requests have fixed.
LEMMA DeliveryTickSound ==
    ASSUME DeliveryInv, DeliveryTick
    PROVE  DeliveryInv'
<1>1. /\ [Next]_vars /\ UNCHANGED <<broker, decisions>>
      /\ calls' = [h \in Handlers |-> [calls[h] EXCEPT !.lease = Elapse(@)]]
  BY DEF DeliveryTick, Next
<1>2. calls \in [Handlers -> Call]
  BY DEF DeliveryInv, DeliveryTypeOK
<1>3. ASSUME NEW h \in Handlers
      PROVE  calls'[h] \in Call /\ calls'[h] = [calls[h] EXCEPT !.lease = calls'[h].lease]
  <2> DEFINE c == calls[h]
             l == Elapse(c.lease)
  <2>1. c \in Call /\ calls'[h] = [c EXCEPT !.lease = l]
    BY <1>1, <1>2
  <2>2. l \in Countdown(LeaseTicks)
    <3>1. c.lease \in Countdown(LeaseTicks)
      BY <2>1 DEF Call
    <3> HIDE DEF c
    <3> QED BY <3>1, StoreAssumption DEF Elapse, Countdown, Expired
  <2> HIDE DEF c, l
  <2>3. [c EXCEPT !.lease = l] \in Call /\ [c EXCEPT !.lease = l].lease = l
    BY <2>1, <2>2 DEF Call
  <2> QED BY <2>1, <2>3 DEF c
<1>4. calls' \in [Handlers -> Call]
  BY <1>1, <1>3
<1> QED BY <1>1, <1>3, <1>4, LedgerMovesOn

\* A delivery that nobody answered in time is ready again, and tracked still.
LEMMA AckWaitRunsOutSound ==
    ASSUME DeliveryInv, NEW m \in MessageRefs, AckWaitRunsOut(m)
    PROVE  DeliveryInv'
<1> DEFINE new == [stream[m] EXCEPT !.state = "ready"]
<1>1. /\ stream \in [MessageRefs -> [state : {"none", "ready", "out", "acked"}, n : 0..MaxDeliver]]
      /\ stream[m].state = "out" /\ stream' = [stream EXCEPT ![m] = new]
      /\ UNCHANGED <<endpoints, store, pending, decisions, calls>>
  BY CallOf DEF AckWaitRunsOut, DeliveryInv, DeliveryTypeOK
<1>2. new \in [state : {"none", "ready", "out", "acked"}, n : 0..MaxDeliver] /\ new.state = "ready"
  BY <1>1
<1> HIDE DEF new
<1>3. stream' \in [MessageRefs -> [state : {"none", "ready", "out", "acked"}, n : 0..MaxDeliver]]
  BY <1>1, <1>2
<1>4. ASSUME NEW n \in MessageRefs
      PROVE  /\ stream'[n].state = "none" <=> stream[n].state = "none"
             /\ stream'[n].state = "acked" <=> stream[n].state = "acked"
  BY <1>1, <1>2
<1>5. StreamSound(stream', store', decisions')
  BY <1>1, <1>4 DEF DeliveryInv, StreamSound
<1>6. GripsSound(stream', pending', calls')
  <2>1. \A h \in Handlers : calls[h].pc \in GripPlaces => calls[h].msg \in MessageRefs
    BY DEF DeliveryInv, CallSound
  <2> QED BY <1>1, <1>4, <2>1 DEF DeliveryInv, DeliveryTypeOK, GripsSound
<1> QED BY <1>1, <1>3, <1>5, <1>6
        DEF DeliveryInv, DeliveryTypeOK, Inv, TypeOK, RegistryTypeOK

\* A server that starts again has no request in flight and tracks nothing; the
\* ledger and the broker are as they were.
LEMMA ServerRestartsSound ==
    ASSUME DeliveryInv, ServerRestarts
    PROVE  DeliveryInv'
<1>1. /\ UNCHANGED <<endpoints, store, stream, decisions>>
      /\ pending' = {} /\ calls' = [h \in Handlers |-> Idle]
  BY DEF ServerRestarts
<1>2. /\ calls' \in [Handlers -> Call]
      /\ \A h \in Handlers : calls'[h] = Idle /\ Idle.pc \notin GripPlaces
  BY <1>1, IdleParts DEF GripPlaces, HoldPlaces
<1>3. GripsSound(stream', pending', calls')
  BY <1>1, <1>2 DEF GripsSound
<1>4. \A h \in Handlers : CallSound(store', decisions', calls'[h])
  BY <1>2, IdleParts
<1>5. StreamSound(stream', store', decisions')
  BY <1>1 DEF DeliveryInv
<1> QED BY <1>1, <1>2, <1>3, <1>4, <1>5
        DEF DeliveryInv, DeliveryTypeOK, Inv, TypeOK, RegistryTypeOK

-----------------------------------------------------------------------------
(* The invariant.                                                          *)

\* It holds before anything is published.
LEMMA DeliveryInitInv == DeliveryInit => DeliveryInv
<1> SUFFICES ASSUME DeliveryInit PROVE DeliveryInv
  OBVIOUS
<1>1. Inv /\ TypeOK
  BY InitInv DEF DeliveryInit, Inv
<1>2. MaxDeliver \in Nat
  BY DeliveryAssumption DEF MaxDeliver, Validated
<1>3. \A h \in Handlers : calls[h] = Idle /\ Idle.pc \notin GripPlaces
  BY IdleParts DEF DeliveryInit, GripPlaces, HoldPlaces
<1>4. DeliveryTypeOK
  <2>1. /\ stream = [m \in MessageRefs |-> [state |-> "none", n |-> 0]]
        /\ calls = [h \in Handlers |-> Idle] /\ pending = {} /\ decisions = {}
    BY DEF DeliveryInit
  <2>2. Idle \in Call
    BY IdleParts
  <2> QED BY <1>1, <1>2, <2>1, <2>2 DEF DeliveryTypeOK
<1>5. StreamSound(stream, store, decisions)
  BY DEF DeliveryInit, StreamSound
<1>6. GripsSound(stream, pending, calls)
  BY <1>3 DEF DeliveryInit, GripsSound
<1>7. \A h \in Handlers : CallSound(store, decisions, calls[h])
  BY <1>3, IdleParts
<1> QED BY <1>1, <1>4, <1>5, <1>6, <1>7 DEF DeliveryInv

\* Every step keeps it.
LEMMA DeliveryNextInv == DeliveryInv /\ [DeliveryNext]_deliveryVars => DeliveryInv'
<1> SUFFICES ASSUME DeliveryInv, [DeliveryNext]_deliveryVars PROVE DeliveryInv'
  OBVIOUS
<1>1. ASSUME NEW h \in Handlers, Receive(h)
      PROVE  DeliveryInv'
  <2>1. ASSUME NEW a \in AttemptRefs, NEW report \in Reports \cap ClosedState,
               BeginTerminal(h, a, report, FALSE, 0)
        PROVE  DeliveryInv'
    <3>1. report \in ClosedState \cap CheckpointState /\ 0 \in 0..MaxFollowUps
      BY HandoffAssumption
    <3> QED BY <2>1, <3>1, BeginTerminalSound
  <2>2. ASSUME NEW a \in AttemptRefs, NEW left \in 0..MaxFollowUps,
               BeginTerminal(h, a, "completed", TRUE, left)
        PROVE  DeliveryInv'
    <3>1. "completed" \in ClosedState \cap CheckpointState
      BY DEF ClosedState, CheckpointState, AttemptState
    <3> QED BY <2>2, <3>1, BeginTerminalSound
  <2> QED BY <1>1, <2>1, <2>2, BeginIngressSound, SubmitFollowUpSound, BeginClaimNextSound
          DEF Receive
<1>2. ASSUME NEW h \in Handlers, Serve(h)
      PROVE  DeliveryInv'
  BY <1>2, SaveDecisionSound, SaveAcceptedSound, PublishSound, BrokerFails, FetchSound,
     CheckDeliverySound, ClaimFetchedSound, DeadLetterFetchedSound, ClaimRefusedSound,
     NakDeliverySound, RemovePendingSound, FinishCompletionSound DEF Serve
<1>3. CASE Broker
  BY <1>3, AckWaitRunsOutSound DEF Broker
<1>4. CASE UNCHANGED deliveryVars
  BY <1>4 DEF deliveryVars, DeliveryInv, DeliveryTypeOK, Inv, TypeOK, RegistryTypeOK
<1> QED BY <1>1, <1>2, <1>3, <1>4, ServerRestartsSound, ElsewhereSound, DeliveryTickSound
        DEF DeliveryNext

\* The broker, the ledger and the requests between them agree, however many of
\* them there are.
THEOREM DeliveryHolds == DeliverySpec => []DeliveryInv
<1> QED BY DeliveryInitInv, DeliveryNextInv, PTL DEF DeliverySpec

-----------------------------------------------------------------------------
(* The safety properties of Delivery.                                      *)

\* No request holds a value of the wrong kind, nor does the broker.
THEOREM DeliveryTypesHold == DeliverySpec => []DeliveryTypeOK
<1>1. DeliveryInv => DeliveryTypeOK
  BY DEF DeliveryInv
<1> QED BY <1>1, DeliveryHolds, PTL

\* The broker gives up for good only what the ledger has settled.
THEOREM AckedAreSettled == DeliverySpec => []AckedIsSettled
<1>1. DeliveryInv => AckedIsSettled
  BY DEF DeliveryInv, StreamSound, SettledIn, AckedIsSettled
<1> QED BY <1>1, DeliveryHolds, PTL

\* No two claim-next requests act on one delivery.
THEOREM OneHolder == DeliverySpec => []OneHolderPerDelivery
<1>1. DeliveryInv => OneHolderPerDelivery
  BY DEF DeliveryInv, GripsSound, GripPlaces, HoldPlaces, OneHolderPerDelivery, Holds
<1> QED BY <1>1, DeliveryHolds, PTL

\* What the broker holds was judged, not rejected, and saved.
THEOREM BrokerFollows == DeliverySpec => []BrokerFollowsLedger
<1>1. DeliveryInv => BrokerFollowsLedger
  BY DEF DeliveryInv, StreamSound, Judged, BrokerFollowsLedger
<1> QED BY <1>1, DeliveryHolds, PTL
=============================================================================
