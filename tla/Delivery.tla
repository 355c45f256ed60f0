------------------------------ MODULE Delivery ------------------------------
(***************************************************************************)
(* The server with a broker: ingress through the quality gate to the       *)
(* ledger and on to JetStream, and claim-next through the delivery adapter *)
(* (application/service.go, infrastructure/jetstream/adapter.go).          *)
(*                                                                         *)
(* `stream` is the work-queue stream and its one durable pull consumer.  A *)
(* delivery ref belongs to one message, so a delivery is named by it.  n   *)
(* counts how often the broker handed it out; at MaxDeliver it stays in    *)
(* the stream but is handed out no more.  `pending` is the adapter's map   *)
(* of deliveries it still owes an answer; it lives in memory only.         *)
(*                                                                         *)
(* As in HandoffSteps `calls` holds the requests in flight.  The requests  *)
(* that never meet the broker are the steps of Handoff.  AckWait runs out  *)
(* at any moment: nothing in the code bounds what a worker or a slow       *)
(* handler may take, and nothing extends the wait.                         *)
(***************************************************************************)
EXTENDS Handoff, QualityGate

CONSTANTS Handlers,             \* requests served at the same time
          Qualities,            \* what the gate sees of the messages submitted
          Subjects,             \* subject tokens
          SubjectOf,            \* the token of each capability's subject
          ConfiguredBatch,      \* FetchBatchSize as configured, 0 for the default
          ConfiguredMaxDeliver  \* MaxDeliver as configured, 0 for the default

ASSUME DeliveryAssumption ==
    /\ Qualities \subseteq QualityInput
    /\ SubjectOf \in [Capabilities -> Subjects]
    /\ ConfiguredBatch \in Nat
    /\ ConfiguredMaxDeliver \in Nat

\* Two capabilities that differ only in characters a subject may not hold
\* share a subject, hence SubjectOf need not be injective.
SubjectsForCapabilities(names) == {SubjectOf[c] : c \in names}

Validated(n, default) == IF n <= 0 THEN default ELSE n
FetchBatchSize == Validated(ConfiguredBatch, 1)
MaxDeliver == Validated(ConfiguredMaxDeliver, 5)

VARIABLES stream, pending, decisions, calls

broker == <<stream, pending>>
deliveryVars == <<endpoints, store, stream, pending, decisions, calls>>

Call == [pc : {"idle", "judge", "save", "publish",                  \* ingress
               "fetch", "check", "claim", "nak", "untrack",         \* claim-next
               "ack", "settle", "finish"},
         msg : MessageRefs \cup {NoMessage},
         request : Request \cup {NoRequest},
         quality : Qualities \cup {NoPolicy},
         ep : Endpoints \cup {NoEndpoint},      \* the endpoint that claims,
         names : SUBSET Capabilities,           \* its capabilities, and the
         lease : Countdown(LeaseTicks),         \* lease fixed for the claim
         attempt : AttemptRefs \cup {NoAttempt},
         completing : BOOLEAN, left : 0..MaxFollowUps]

Idle == [pc |-> "idle", msg |-> NoMessage, request |-> NoRequest, quality |-> NoPolicy,
         ep |-> NoEndpoint, names |-> {}, lease |-> Expired, attempt |-> NoAttempt,
         completing |-> FALSE, left |-> 0]

DeliveryTypeOK ==
    /\ TypeOK
    /\ stream \in [MessageRefs -> [state : {"none", "ready", "out", "acked"},
                                   n : 0..MaxDeliver]]
    /\ pending \subseteq MessageRefs
    /\ decisions \subseteq MessageRefs \X Verdict
    /\ calls \in [Handlers -> Call]

DeliveryInit ==
    /\ Init
    /\ stream = [m \in MessageRefs |-> [state |-> "none", n |-> 0]]
    /\ pending = {}
    /\ decisions = {}
    /\ calls = [h \in Handlers |-> Idle]

At(h, pc) == calls[h].pc = pc
Continue(h, c) == calls' = [calls EXCEPT ![h] = c]
Goto(h, pc) == Continue(h, [calls[h] EXCEPT !.pc = pc])
Done(h) == Continue(h, Idle)

-----------------------------------------------------------------------------
(* Ingress: route, judge, save, publish.  Every judgement is recorded,     *)
(* also of a message that is then refused because its ref is in use.       *)
BeginIngress(h, m, r, q) ==
    /\ At(h, "idle")
    /\ IngressRouteAvailable(r)
    /\ Continue(h, [Idle EXCEPT !.pc = "judge", !.msg = m, !.request = r, !.quality = q])
    /\ UNCHANGED <<endpoints, store, broker, decisions>>

\* Mutant: a rejected message goes on to the ledger.
JudgeOnly(h) ==
    LET c == calls[h] IN
    /\ At(h, "judge")
    /\ decisions' = decisions \cup {<<c.msg, ValidateMessageWithGate(c.quality)>>}
    /\ Goto(h, "save")
    /\ UNCHANGED <<endpoints, store, broker>>

SaveDecision(h) ==
    LET c       == calls[h]
        verdict == ValidateMessageWithGate(c.quality) IN
    /\ At(h, "judge")
    /\ decisions' = decisions \cup {<<c.msg, verdict>>}
    /\ IF verdict = "rejected" THEN Done(h) ELSE Goto(h, "save")
    /\ UNCHANGED <<endpoints, store, broker>>

SaveAccepted(h) ==
    LET c == calls[h] IN
    /\ At(h, "save")
    /\ IF Saved(store, c.msg) THEN Done(h) /\ UNCHANGED store
       ELSE store' = SaveMessage(store, c.msg, c.request) /\ Goto(h, "publish")
    /\ UNCHANGED <<endpoints, broker, decisions>>

\* The broker drops a message ref it has seen within the duplicate window.
PublishAcceptedMessage(h) ==
    LET m == calls[h].msg IN
    /\ At(h, "publish")
    /\ stream' = [stream EXCEPT ![m].state = IF @ = "none" THEN "ready" ELSE @]
    /\ Done(h)
    /\ UNCHANGED <<endpoints, store, pending, decisions>>

\* The broker cannot be reached: the sender gets an error, the ledger keeps
\* the message.
PublishFails(h) ==
    /\ At(h, "publish")
    /\ Done(h)
    /\ UNCHANGED <<endpoints, store, broker, decisions>>

-----------------------------------------------------------------------------
(* Claim-next: reconcile, fetch, check, claim; then leave the delivery     *)
(* pending for the terminal checkpoint, or nak it, or ack what is dead.    *)
BeginClaimNext(h, e) ==
    /\ At(h, "idle")
    /\ ~EndpointIsStale(e)
    /\ store' = ReconcileStore(store)
    /\ Continue(h, [Idle EXCEPT !.pc = "fetch", !.ep = e, !.names = endpoints[e].names,
                                !.lease = LeaseTicks])
    /\ UNCHANGED <<endpoints, broker, decisions>>

Fetchable == {m \in MessageRefs : stream[m].state = "ready" /\ stream[m].n < MaxDeliver}
Allowed(names, m) == SubjectOf[store.requests[m].capability] \in SubjectsForCapabilities(names)

\* The broker hands out `batch`; the adapter naks those of `back` at once.
HandedOut(batch, back) ==
    [m \in MessageRefs |->
        IF m \in batch
        THEN [state |-> IF m \in back THEN "ready" ELSE "out", n |-> stream[m].n + 1]
        ELSE stream[m]]

\* Mutant: a delivery that is pending already is tracked once more.
TrackAnyDelivery(h, batch, skipped, m) ==
    /\ At(h, "fetch")
    /\ \A s \in skipped : ~Allowed(calls[h].names, s)
    /\ Allowed(calls[h].names, m)
    /\ stream' = HandedOut(batch, skipped)
    /\ pending' = pending \cup {m}
    /\ Continue(h, [calls[h] EXCEPT !.pc = "check", !.msg = m])
    /\ UNCHANGED <<endpoints, store, decisions>>

\* The first delivery of an allowed subject is taken.  Those before it are
\* nakked; those after it are dropped and come back when AckWait runs out.
TrackDelivery(h, batch, skipped, m) ==
    /\ At(h, "fetch")
    /\ \A s \in skipped : ~Allowed(calls[h].names, s)
    /\ Allowed(calls[h].names, m)
    /\ m \notin pending
    /\ stream' = HandedOut(batch, skipped)
    /\ pending' = pending \cup {m}
    /\ Continue(h, [calls[h] EXCEPT !.pc = "check", !.msg = m])
    /\ UNCHANGED <<endpoints, store, decisions>>

\* The delivery is pending already: it is nakked, unless that fails too, and
\* the request ends with an error.
RefusePendingDelivery(h, batch, skipped, m) ==
    /\ At(h, "fetch")
    /\ \A s \in skipped : ~Allowed(calls[h].names, s)
    /\ Allowed(calls[h].names, m)
    /\ m \in pending
    /\ \E back \in {skipped, skipped \cup {m}} : stream' = HandedOut(batch, back)
    /\ Done(h)
    /\ UNCHANGED <<endpoints, store, pending, decisions>>

\* Nothing of the batch is allowed; a failing nak leaves the rest dropped.
FetchNothingAllowed(h, batch, skipped) ==
    /\ At(h, "fetch")
    /\ \A s \in skipped : ~Allowed(calls[h].names, s)
    /\ skipped = batch \/ \E m \in batch \ skipped : ~Allowed(calls[h].names, m)
    /\ stream' = HandedOut(batch, skipped)
    /\ Done(h)
    /\ UNCHANGED <<endpoints, store, pending, decisions>>

Fetch(h) ==
    \E batch \in {B \in SUBSET Fetchable : B # {} /\ Cardinality(B) <= FetchBatchSize} :
    \E skipped \in SUBSET batch :
        \/ \E m \in batch \ skipped : \/ TrackDelivery(h, batch, skipped, m)
                                      \/ RefusePendingDelivery(h, batch, skipped, m)
        \/ FetchNothingAllowed(h, batch, skipped)

\* The fetch times out, or the broker cannot be reached.
FetchTimesOut(h) ==
    /\ At(h, "fetch")
    /\ Done(h)
    /\ UNCHANGED <<endpoints, store, broker, decisions>>

CheckDelivery(h) ==
    LET c == calls[h]
        r == store.requests[c.msg] IN
    /\ At(h, "check")
    /\ IF /\ Saved(store, c.msg)
          /\ MessageClaimableByEndpoint(r, c.ep, c.names,
                                        PreferredEndpointOnline(OnlineEndpoints, r))
          /\ MessageDependenciesCompleted(r, StateOf(store))
       THEN Goto(h, "claim") ELSE Goto(h, "nak")
    /\ UNCHANGED <<endpoints, store, broker, decisions>>

(* ProcessingLedger.ClaimMessage.  It is given the time the request began, *)
(* whose reconcile left no claim expired by then: a message that is taken  *)
(* now is not up for takeover, whatever became of its lease since.         *)
ClaimFetched(h, a) ==
    LET c       == calls[h]
        claimed == ClaimMessageStore(store, c.msg, c.ep, a) IN
    /\ At(h, "claim")
    /\ store.messages[c.msg].state = "available" \/ IsTakeoverCandidate(store, c.msg)
    /\ Grants(store, c.msg)
    /\ ~Exists(store, a)
    /\ store' = UpdateAttempt(claimed, a, [claimed.attempts[a] EXCEPT !.lease = c.lease])
    /\ Done(h)
    /\ UNCHANGED <<endpoints, broker, decisions>>

DeadLetterFetched(h) ==
    LET m == calls[h].msg IN
    /\ At(h, "claim")
    /\ IsTakeoverCandidate(store, m) /\ OutOfRedeliveries(store, m)
    /\ store' = DeadLetterMessage(store, m)
    /\ Goto(h, "ack")
    /\ UNCHANGED <<endpoints, broker, decisions>>

ClaimRefused(h) ==
    LET m == calls[h].msg IN
    /\ At(h, "claim")
    /\ store.messages[m].state # "available" /\ ~IsTakeoverCandidate(store, m)
    /\ Goto(h, "nak")
    /\ UNCHANGED <<endpoints, store, broker, decisions>>

-----------------------------------------------------------------------------
(* Answering the broker: the message is looked up, answered, and only then *)
(* forgotten.  One answer to a delivery is all the client library allows.  *)
NakDelivery(h) ==
    LET m == calls[h].msg IN
    /\ At(h, "nak")
    /\ m \in pending
    /\ stream[m].state # "acked"
    /\ stream' = [stream EXCEPT ![m].state = "ready"]
    /\ Goto(h, "untrack")
    /\ UNCHANGED <<endpoints, store, pending, decisions>>

AckDelivery(h) ==
    LET m == calls[h].msg IN
    /\ At(h, "ack")
    /\ m \in pending
    /\ stream[m].state # "acked"
    /\ stream' = [stream EXCEPT ![m].state = "acked"]
    /\ Goto(h, "untrack")
    /\ UNCHANGED <<endpoints, store, pending, decisions>>

\* The delivery is not pending, was answered already, or the broker cannot be
\* reached: the request ends with an error, short of what was to follow.
AnswerFails(h) ==
    /\ At(h, "nak") \/ At(h, "ack")
    /\ Done(h)
    /\ UNCHANGED <<endpoints, store, broker, decisions>>

RemovePending(h) ==
    /\ At(h, "untrack")
    /\ pending' = pending \ {calls[h].msg}
    /\ IF calls[h].completing THEN Goto(h, "finish") ELSE Done(h)
    /\ UNCHANGED <<endpoints, store, stream, decisions>>

-----------------------------------------------------------------------------
(* A terminal checkpoint is saved, with the attempt and the message, and   *)
(* acks the delivery; a completion goes on only if that succeeded.         *)
\* Mutant: a report of progress acks the delivery like a terminal one.
BeginReport(h, a, report, completing, left) ==
    /\ At(h, "idle")
    /\ Live(store, a)
    /\ store.checkpoints[a].count < MaxCheckpoints
    /\ store' = CheckpointStore(store, a, IF completing THEN "completed" ELSE "in_progress")
    /\ Continue(h, [Idle EXCEPT !.pc = "ack", !.msg = store.attempts[a].msg, !.attempt = a,
                                !.completing = completing, !.left = left])
    /\ UNCHANGED <<endpoints, broker, decisions>>

BeginTerminal(h, a, report, completing, left) ==
    /\ At(h, "idle")
    /\ Live(store, a)
    /\ store.checkpoints[a].count < MaxCheckpoints
    /\ store' = CheckpointStore(store, a, report)
    /\ Continue(h, [Idle EXCEPT !.pc = "ack", !.msg = store.attempts[a].msg, !.attempt = a,
                                !.completing = completing, !.left = left])
    /\ UNCHANGED <<endpoints, broker, decisions>>

FinishCompletion(h) ==
    LET c == calls[h] IN
    /\ At(h, "finish")
    /\ store' = UpdateMessage(
                    UpdateAttempt(store, c.attempt,
                        [store.attempts[c.attempt] EXCEPT !.state = "completed"]),
                    c.msg, [store.messages[c.msg] EXCEPT !.state = "completed"])
    /\ IF c.left > 0 THEN Goto(h, "settle") ELSE Done(h)
    /\ UNCHANGED <<endpoints, broker, decisions>>

\* A follow-up takes the way of any other message.
SubmitFollowUp(h, n, r, q) ==
    LET m == calls[h].msg IN
    /\ At(h, "settle")
    /\ IngressRouteAvailable(r)
    /\ Continue(h, [Idle EXCEPT !.pc = "judge", !.msg = n, !.quality = q,
                       !.request = FollowUpRequest(r, m, store.requests[m].task)])
    /\ UNCHANGED <<endpoints, store, broker, decisions>>

-----------------------------------------------------------------------------
AckWaitRunsOut(m) ==
    /\ stream[m].state = "out"
    /\ stream' = [stream EXCEPT ![m].state = "ready"]
    /\ UNCHANGED <<endpoints, store, pending, decisions, calls>>

\* The server starts again on its sqlite ledger; the broker keeps its stream.
ServerRestarts ==
    /\ pending # {} \/ \E h \in Handlers : ~At(h, "idle")
    /\ pending' = {}
    /\ calls' = [h \in Handlers |-> Idle]
    /\ UNCHANGED <<endpoints, store, stream, decisions>>

\* Requests that never meet the broker.
Elsewhere ==
    /\ \/ RegistryNext /\ UNCHANGED store
       \/ \E e \in Endpoints, m \in MessageRefs, a \in AttemptRefs : ClaimMessage(e, m, a)
       \/ \E a \in AttemptRefs :
             \/ \E report \in Reports \ ClosedState : SubmitCheckpoint(a, report)
             \/ RefreshLease(a)
       \/ \E t \in Tasks : CancelTask(t) \/ RetryTask(t)
       \/ ReconcileExpiredClaims
    /\ UNCHANGED <<broker, decisions, calls>>

DeliveryTick ==
    /\ Tick
    /\ calls' = [h \in Handlers |-> [calls[h] EXCEPT !.lease = Elapse(@)]]
    /\ UNCHANGED <<broker, decisions>>

Receive(h) ==
    \/ \E m \in MessageRefs, r \in Requests, q \in Qualities :
          BeginIngress(h, m, r, q) \/ SubmitFollowUp(h, m, r, q)
    \/ \E e \in Endpoints : BeginClaimNext(h, e)
    \/ \E a \in AttemptRefs :
          \/ \E report \in Reports \cap ClosedState : BeginTerminal(h, a, report, FALSE, 0)
          \/ \E left \in 0..MaxFollowUps : BeginTerminal(h, a, "completed", TRUE, left)

Serve(h) ==
    \/ SaveDecision(h) \/ SaveAccepted(h) \/ PublishAcceptedMessage(h) \/ PublishFails(h)
    \/ Fetch(h) \/ FetchTimesOut(h) \/ CheckDelivery(h)
    \/ \E a \in AttemptRefs : ClaimFetched(h, a)
    \/ DeadLetterFetched(h) \/ ClaimRefused(h)
    \/ NakDelivery(h) \/ AckDelivery(h) \/ AnswerFails(h) \/ RemovePending(h)
    \/ FinishCompletion(h)

Broker == \E m \in MessageRefs : AckWaitRunsOut(m)

DeliveryNext ==
    \/ \E h \in Handlers : Receive(h) \/ Serve(h)
    \/ Broker
    \/ ServerRestarts
    \/ Elsewhere
    \/ DeliveryTick

DeliverySpec == DeliveryInit /\ [][DeliveryNext]_deliveryVars

-----------------------------------------------------------------------------
Holds(h, m) == calls[h].msg = m /\ calls[h].pc \in {"check", "claim", "nak"}

\* What the broker gave up for good is settled in the ledger: a delivery is
\* acked only after an attempt of its message reported its end, or after the
\* message was dead-lettered - "Ack only after terminal domain checkpoint and
\* message state update succeed" (infrastructure/jetstream/README.md:29).
AckedIsSettled ==
    \A m \in MessageRefs :
        stream[m].state = "acked" =>
            \/ \E a \in AttemptRefs :
                  /\ store.attempts[a].msg = m
                  /\ store.checkpoints[a].reported \cap ClosedState # {}
            \/ \E d \in store.deadLetters : d.msg = m

\* However AckWait, naks and restarts bring a delivery back, two claim-next
\* requests never act on the same one, and what one acts on is tracked, unless
\* a terminal checkpoint has settled it meanwhile.
OneHolderPerDelivery ==
    \A m \in MessageRefs, h \in Handlers :
        Holds(h, m) =>
            /\ \A k \in Handlers \ {h} : ~Holds(k, m)
            /\ m \in pending \/ stream[m].state = "acked"

\* The broker never runs ahead of the ledger: what it holds was judged, not
\* rejected, and saved, so a fetched delivery always finds its message.
BrokerFollowsLedger ==
    \A m \in MessageRefs :
        stream[m].state # "none" =>
            /\ Saved(store, m)
            /\ \E verdict \in Verdict \ {"rejected"} : <<m, verdict>> \in decisions
=============================================================================
