------------------------------ MODULE Handoff ------------------------------
(***************************************************************************)
(* The handoff protocol of tc-server: ingress, claim, checkpoint, lease,   *)
(* completion and the operator's task commands (application/service.go and *)
(* control_commands.go) over the ledger store and the endpoint registry.   *)
(*                                                                         *)
(* Here requests are served one at a time: each handler is one step, with  *)
(* every store call it makes.  What their interleaving adds is the subject *)
(* of HandoffSteps.  A request the code refuses changes nothing and is no  *)
(* step; a worker always names the endpoint of its attempt, since any      *)
(* other is refused before anything is written.                            *)
(***************************************************************************)
EXTENDS LedgerStore, FiniteSets

CONSTANTS Requests,         \* the message requests that senders submit
          Reports,          \* the checkpoint states that workers submit
          Commands,         \* the task commands that operators use
          MaxCheckpoints,   \* bound: checkpoints of one attempt
          MaxFollowUps      \* bound: follow-up messages of one completion

CheckpointState == AttemptState \ {"orphaned"}

ASSUME HandoffAssumption ==
    /\ Requests \subseteq Request
    /\ Reports \subseteq CheckpointState
    /\ Commands \subseteq {"cancel", "retry", "replay"}
    /\ MaxCheckpoints \in Nat
    /\ MaxFollowUps \in Nat

VARIABLE store

vars == <<endpoints, store>>

TypeOK == RegistryTypeOK /\ store \in Store

Init == RegistryInit /\ store = EmptyStore

-----------------------------------------------------------------------------
(* Ingress.  A client may choose the ref of its message; a ref already in  *)
(* use, whether chosen or allocated, is refused.                           *)
IngressMessage(m, r) ==
    /\ ~Saved(store, m)
    /\ IngressRouteAvailable(r)
    /\ store' = SaveMessage(store, m, r)
    /\ UNCHANGED endpoints

(* Claims, of a message by its ref and of the next eligible one.           *)
MayClaim(e, m) ==
    /\ Saved(store, m)
    /\ ~EndpointIsStale(e)
    /\ MessageClaimableByEndpoint(store.requests[m], e, endpoints[e].names,
                                  PreferredEndpointOnline(OnlineEndpoints, store.requests[m]))
    /\ MessageDependenciesCompleted(store.requests[m], StateOf(store))

ClaimMessage(e, m, a) ==
    /\ MayClaim(e, m)
    /\ Grants(store, m) => ~Exists(store, a)
    /\ store' = ClaimMessageStore(store, m, e, a)
    /\ UNCHANGED endpoints

NextFor(S, m, e) == IsNext(S, m, e, endpoints[e].names, OnlineEndpoints)

ClaimNextMessage(e, m, a) ==
    LET S == ReconcileStore(store) IN
    /\ ~EndpointIsStale(e)
    /\ NextFor(S, m, e)
    /\ Grants(S, m) => ~Exists(S, a)
    /\ store' = ClaimNextStore(S, m, e, a)
    /\ UNCHANGED endpoints

\* A claim-next that finds nothing has still reconciled the ledger.
ClaimNothing(e) ==
    /\ ~EndpointIsStale(e)
    /\ \A m \in MessageRefs : ~NextFor(ReconcileStore(store), m, e)
    /\ store' = ReconcileStore(store)
    /\ UNCHANGED endpoints

-----------------------------------------------------------------------------
(* What the owner of an attempt may do with it.                            *)
\* Mutant: only the lease is asked for.
HasLease(S, a) == S.attempts[a].lease # Expired

Live(S, a) == Open(S, a) /\ S.attempts[a].lease # Expired

MessageStateAfter(report, state) ==
    CASE report \in {"in_progress", "validating"} -> "processing"
      [] report = "blocked_missing_fields" -> "input_required"
      [] report \in {"failed", "completed"} -> report
      [] OTHER -> state

CheckpointStore(S, a, report) ==
    LET saved == SaveCheckpoint(S, a, report)
        m     == S.attempts[a].msg
    IN  UpdateMessage(
            UpdateAttempt(saved, a,
                [S.attempts[a] EXCEPT !.state = report,
                                      !.rev = saved.checkpoints[a].count]),
            m,
            [S.messages[m] EXCEPT !.state = MessageStateAfter(report, @)])

SubmitCheckpoint(a, report) ==
    /\ Live(store, a)
    /\ store.checkpoints[a].count < MaxCheckpoints
    /\ store' = CheckpointStore(store, a, report)
    /\ UNCHANGED endpoints

\* Mutant: the new lease is added to what is left of the old one.
RefreshLeaseOnTop(a) ==
    /\ Live(store, a)
    /\ store' = UpdateAttempt(store, a, [store.attempts[a] EXCEPT !.lease = @ + LeaseTicks])
    /\ UNCHANGED endpoints

RefreshLease(a) ==
    /\ Live(store, a)
    /\ store' = UpdateAttempt(store, a, [store.attempts[a] EXCEPT !.lease = LeaseTicks])
    /\ UNCHANGED endpoints

\* A follow-up depends on the message it follows unless it says otherwise,
\* and belongs to the same task.
FollowUpRequest(r, parent, task) ==
    [r EXCEPT !.dependsOn = IF @ = {} THEN {parent} ELSE @, !.task = task]

(* Completion.  follow maps the refs of the follow-up messages that were   *)
(* accepted to their requests: the first that is refused ends the loop,    *)
(* and leaves the completion and the earlier follow-ups in place.          *)
CompleteAttempt(a, follow) ==
    LET m    == store.attempts[a].msg
        done == CheckpointStore(store, a, "completed")
    IN
    /\ Live(store, a)
    /\ store.checkpoints[a].count < MaxCheckpoints
    /\ \A n \in DOMAIN follow : ~Saved(store, n) /\ IngressRouteAvailable(follow[n])
    /\ store' = [done EXCEPT
           !.requests = [n \in MessageRefs |->
               IF n \in DOMAIN follow
               THEN FollowUpRequest(follow[n], m, store.requests[m].task) ELSE @[n]],
           !.messages = [n \in MessageRefs |->
               IF n \in DOMAIN follow
               THEN [AbsentMessage EXCEPT !.state = "available"] ELSE @[n]]]
    /\ UNCHANGED endpoints

FollowUps == UNION {[refs -> Requests] :
                       refs \in {F \in SUBSET MessageRefs : Cardinality(F) <= MaxFollowUps}}

-----------------------------------------------------------------------------
(* Operator commands on every message of a task.                           *)
OfTask(m, t) == Saved(store, m) /\ store.requests[m].task = t

\* Mutant: completed messages are canceled too.
ToCancelAny(t) == {m \in MessageRefs :
    OfTask(m, t) /\ store.messages[m].state # "canceled"}

ToCancel(t) == {m \in MessageRefs :
    OfTask(m, t) /\ store.messages[m].state \notin {"completed", "canceled"}}

CancelTask(t) ==
    LET affected == ToCancel(t)
        dropped  == {a \in AttemptRefs : Open(store, a)
                        /\ \E m \in affected : store.messages[m].attempt = a}
    IN
    /\ "cancel" \in Commands
    /\ affected # {}
    /\ store' = [store EXCEPT
           !.messages = [m \in MessageRefs |->
               IF m \in affected THEN [@[m] EXCEPT !.state = "canceled"] ELSE @[m]],
           !.attempts = [a \in AttemptRefs |->
               IF a \in dropped THEN [@[a] EXCEPT !.state = "canceled"] ELSE @[a]]]
    /\ UNCHANGED endpoints

ToRetry(t) == {m \in MessageRefs :
    /\ OfTask(m, t)
    /\ store.messages[m].state \in {"failed", "dead_lettered", "input_required", "canceled"}}

RetryTask(t) ==
    /\ "retry" \in Commands
    /\ ToRetry(t) # {}
    /\ store' = [store EXCEPT
           !.messages = [m \in MessageRefs |->
               IF m \in ToRetry(t)
               THEN [@[m] EXCEPT !.state = "available", !.attempt = NoAttempt]
               ELSE @[m]]]
    /\ UNCHANGED endpoints

ReplayDeadLetter(d, m) ==
    /\ "replay" \in Commands
    /\ d \in store.deadLetters
    /\ IngressMessage(m, store.requests[d.msg])

-----------------------------------------------------------------------------
(* The background reconcile loop, and the passing of time.                 *)
ReconcileExpiredClaims == store' = ReconcileStore(store) /\ UNCHANGED endpoints

Tick == RegistryTick /\ store' = TickStore(store)

OperatorNext ==
    \/ \E t \in Tasks : CancelTask(t) \/ RetryTask(t)
    \/ \E d \in store.deadLetters, m \in MessageRefs : ReplayDeadLetter(d, m)

WorkerNext ==
    \/ \E e \in Endpoints, m \in MessageRefs, a \in AttemptRefs :
          ClaimMessage(e, m, a) \/ ClaimNextMessage(e, m, a)
    \/ \E e \in Endpoints : ClaimNothing(e)
    \/ \E a \in AttemptRefs :
          \/ \E report \in Reports : SubmitCheckpoint(a, report)
          \/ RefreshLease(a)
          \/ \E follow \in FollowUps : CompleteAttempt(a, follow)

Next ==
    \/ RegistryNext /\ UNCHANGED store
    \/ \E m \in MessageRefs, r \in Requests : IngressMessage(m, r)
    \/ WorkerNext
    \/ OperatorNext
    \/ ReconcileExpiredClaims
    \/ Tick

Spec == Init /\ [][Next]_vars


(* Fairness.  Time passes, and the reconcile loop that main.go starts never *)
(* stops.  An endpoint is served while its worker runs, started again when *)
(* it exits: a worker registers when it starts, then sends heartbeats and, *)
(* whenever it is not executing, polls claim-next.  Executions end, by the *)
(* executors' timeouts, so a poll that is possible again and again happens.*)
(* Nothing obliges a worker to finish or refresh what it claimed.          *)
ComesOnline(e) ==
    UNCHANGED store /\ \E names \in CapabilitySets : RegisterEndpoint(e, "online", names)
Beats(e) == UNCHANGED store /\ HeartbeatEndpoint(e, "online")
Polls(e) == \E m \in MessageRefs, a \in AttemptRefs : ClaimNextMessage(e, m, a)

Serving(e) == WF_vars(ComesOnline(e)) /\ WF_vars(Beats(e)) /\ SF_vars(Polls(e))

ServerFairness == WF_vars(Tick) /\ WF_vars(ReconcileExpiredClaims)

FairSpec == Spec /\ ServerFairness /\ \A e \in Endpoints : Serving(e)

-----------------------------------------------------------------------------
(* Safety.                                                                 *)

\* The attempt a message points to is an attempt of that message, claimed at
\* the message's present redelivery count, and the count keeps to its limit:
\* claims, takeovers, retries and stale writes keep the two records in step.
CurrentAttemptLink ==
    \A m \in MessageRefs : RecordLinked(store, m, store.messages[m])

\* A message waits with no attempt, is claimed or up for takeover only with
\* one, and is dead-lettered only with its redeliveries used up and a dead
\* letter naming that attempt, from which it can be replayed.
StateIsBacked ==
    \A m \in MessageRefs : RecordStateBacked(store, m, store.messages[m])

\* Whatever reopens a message, completion is backed by the ledger: a completed
\* message has an attempt that reported completed in a checkpoint.
CompletedHasEvidence ==
    \A m \in MessageRefs : RecordCompletionBacked(store, m, store.messages[m])

\* Work starts in dependency order: a message that was ever claimed has a
\* completion on record for every message it depends on, even where that
\* dependency has since been reopened.
DependenciesCameFirst ==
    \A a \in AttemptRefs :
        Exists(store, a) => DependenciesRecorded(store, a)

\* Reconcile and dead-lettering fence the owner they take a message from: the
\* attempt is orphaned, its lease is over, and the dead letter names the last
\* checkpoint it will ever have.
OrphanedIsFenced ==
    /\ \A m \in MessageRefs :
          store.messages[m].state \in {"takeover_candidate", "dead_lettered"} =>
              LET a == store.attempts[store.messages[m].attempt]
              IN  a.state = "orphaned" /\ a.lease = Expired
    /\ \A d \in store.deadLetters :
          /\ store.attempts[d.attempt].state = "orphaned"
          /\ d.checkpoint = store.checkpoints[d.attempt].count

\* Without retry, the one attempt that is open on a message is the one the
\* message points to, so at most one worker is accepted as its owner.
SoleOwner ==
    \A a \in AttemptRefs :
        Open(store, a) => store.messages[store.attempts[a].msg].attempt = a

\* An attempt that was closed is never open again: no late checkpoint, lease
\* refresh or completion brings back what a takeover, a cancel or a terminal
\* checkpoint ended.
ClosedStaysClosed ==
    [][\A a \in AttemptRefs :
          Exists(store, a) /\ ~Open(store, a) => ~Open(store, a)']_vars

\* A completed message stays completed, and so does the attempt that did it.
CompletedStaysCompleted ==
    [][/\ \A m \in MessageRefs :
             store.messages[m].state = "completed" => store'.messages[m] = store.messages[m]
       /\ \A a \in AttemptRefs :
             store.attempts[a].state = "completed" => store'.attempts[a].state = "completed"]_vars

-----------------------------------------------------------------------------
(* Liveness.                                                               *)

Abandoned(m) ==
    /\ store.messages[m].state \in {"claimed", "processing"}
    /\ \A a \in AttemptRefs : store.attempts[a].msg = m => ~Live(store, a)

\* Claimed work that no live attempt stands behind does not stay so: the
\* reconcile loop releases it with no worker polling, or a claim takes it over.
AbandonedWorkIsReleased == \A m \in MessageRefs : Abandoned(m) ~> ~Abandoned(m)

\* Work that waits for a worker, new or orphaned, is claimed or dead-lettered
\* once its dependencies are complete and a worker for it keeps serving.
WaitingWorkIsServed ==
    \A m \in MessageRefs :
        (/\ store.messages[m].state \in {"available", "takeover_candidate"}
         /\ MessageDependenciesCompleted(store.requests[m], StateOf(store)))
        ~> store.messages[m].state \notin {"available", "takeover_candidate"}
=============================================================================
