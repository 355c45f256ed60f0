---------------------------- MODULE HandoffSteps ----------------------------
(***************************************************************************)
(* The handoff protocol with its requests interleaved.  The HTTP server    *)
(* runs every request in a goroutine of its own, and the service holds no  *)
(* lock over a handler: only each call of the store is atomic (under its   *)
(* mutex, or one sqlite transaction).  A handler reads a record, decides,  *)
(* and later writes back the copy it read.                                 *)
(*                                                                         *)
(* `calls` is the request each handler is serving: where it stands (`pc`)  *)
(* and the copies it holds.  The steps that only read the registry and     *)
(* then save under the store's own check (ingress, replay, registration)   *)
(* are those of Handoff; so are the reconcile loop and time.               *)
(***************************************************************************)
EXTENDS Handoff

CONSTANTS Handlers,   \* requests served at the same time
          Offered     \* the requests that workers make

ASSUME StepsAssumption ==
    Offered \subseteq {"claim", "claim_next", "checkpoint", "refresh", "complete"}

VARIABLE calls

StepVars == <<endpoints, store, calls>>

Step == {"idle", "save", "attempt", "read", "message",       \* a checkpoint
         "reread", "reread_message", "close", "finish", "follow", \* completion
         "lease", "claim", "reconcile", "next",
         "cancel", "cancel_read", "cancel_attempt", "retry"}

Call == [pc : Step,
         a : AttemptRefs \cup {NoAttempt},  \* the attempt the request names
         report : CheckpointState,
         completing : BOOLEAN,              \* CompleteAttempt, not SubmitCheckpoint
         left : 0..MaxFollowUps,            \* follow-up messages still to submit
         att : Attempt,                     \* a copy, or the attempt to be claimed
         msg : Message,                     \* a copy
         names : SUBSET Capabilities,       \* of the endpoint that claims
         online : [Endpoints -> SUBSET Capabilities],
         todo : [MessageRefs -> Message]]   \* copies of a task's messages

Idle == [pc |-> "idle", a |-> NoAttempt, report |-> "claimed", completing |-> FALSE,
         left |-> 0, att |-> AbsentAttempt, msg |-> AbsentMessage, names |-> {},
         online |-> [e \in Endpoints |-> {}], todo |-> EmptyStore.messages]

StepsTypeOK == TypeOK /\ calls \in [Handlers -> Call]

StepsInit == Init /\ calls = [h \in Handlers |-> Idle]

At(h, pc) == calls[h].pc = pc
Continue(h, c) == calls' = [calls EXCEPT ![h] = c]
To(c, pc) == [c EXCEPT !.pc = pc]

ReadOnly == UNCHANGED <<endpoints, store>>
Write(S) == store' = S /\ UNCHANGED endpoints

-----------------------------------------------------------------------------
(* SubmitCheckpoint, which CompleteAttempt calls first.                    *)

\* What a handler still uses of an attempt it has written back.
OnlyMessageRef(att) == [AbsentAttempt EXCEPT !.msg = att.msg]

BeginCheckpoint(h, a, report, completing, left) ==
    /\ At(h, "idle")
    /\ Live(store, a)
    /\ store.checkpoints[a].count < MaxCheckpoints
    /\ Continue(h, [Idle EXCEPT !.pc = "save", !.a = a, !.report = report,
                                !.completing = completing, !.left = left,
                                !.att = store.attempts[a]])
    /\ ReadOnly

\* Mutant: the checkpoint itself is never saved.
SkipTheCheckpoint(h) ==
    LET c == calls[h] IN
    /\ At(h, "save")
    /\ Continue(h, [To(c, "attempt") EXCEPT !.att.state = c.report, !.att.rev = @ + 1])
    /\ ReadOnly

SaveTheCheckpoint(h) ==
    LET c == calls[h] IN
    /\ At(h, "save")
    /\ Write(SaveCheckpoint(store, c.a, c.report))
    /\ Continue(h, [To(c, "attempt") EXCEPT
                       !.att.state = c.report,
                       !.att.rev = store.checkpoints[c.a].count + 1])

WriteAttempt(h) ==
    LET c == calls[h] IN
    /\ At(h, "attempt")
    /\ Write(UpdateAttempt(store, c.a, c.att))
    /\ Continue(h, [To(c, "read") EXCEPT !.att = OnlyMessageRef(@)])

ReadMessage(h) ==
    LET c == calls[h] IN
    /\ At(h, "read")
    /\ Continue(h, [To(c, "message") EXCEPT !.msg = store.messages[c.att.msg]])
    /\ ReadOnly

WriteMessage(h) ==
    LET c == calls[h] IN
    /\ At(h, "message")
    /\ Write(UpdateMessage(store, c.att.msg,
                 [c.msg EXCEPT !.state = MessageStateAfter(c.report, @)]))
    /\ Continue(h, IF c.completing THEN To(c, "reread") ELSE Idle)

(* The rest of CompleteAttempt.                                            *)
RereadAttempt(h) ==
    LET c == calls[h] IN
    /\ At(h, "reread")
    /\ Continue(h, [To(c, "reread_message") EXCEPT
                       !.att = [store.attempts[c.a] EXCEPT !.state = "completed"]])
    /\ ReadOnly

RereadMessage(h) ==
    LET c == calls[h] IN
    /\ At(h, "reread_message")
    /\ Continue(h, [To(c, "close") EXCEPT
                       !.msg = [store.messages[c.att.msg] EXCEPT !.state = "completed"]])
    /\ ReadOnly

CloseAttempt(h) ==
    LET c == calls[h] IN
    /\ At(h, "close")
    /\ Write(UpdateAttempt(store, c.a, c.att))
    /\ Continue(h, [To(c, "finish") EXCEPT !.att = OnlyMessageRef(@)])

CloseMessage(h) ==
    LET c == calls[h] IN
    /\ At(h, "finish")
    /\ Write(UpdateMessage(store, c.att.msg, c.msg))
    /\ Continue(h, IF c.left > 0 THEN To(c, "follow") ELSE Idle)

SubmitFollowUp(h, n, r) ==
    LET c == calls[h] IN
    /\ At(h, "follow")
    /\ IngressRouteAvailable(r)
    /\ IngressMessage(n, FollowUpRequest(r, c.att.msg, store.requests[c.att.msg].task))
    /\ Continue(h, IF c.left > 1 THEN [c EXCEPT !.left = @ - 1] ELSE Idle)

\* The follow-up is refused, and the rest of them are never submitted.
FollowUpRefused(h) == At(h, "follow") /\ Continue(h, Idle) /\ ReadOnly

-----------------------------------------------------------------------------
BeginRefresh(h, a) ==
    /\ At(h, "idle")
    /\ Live(store, a)
    /\ Continue(h, [Idle EXCEPT !.pc = "lease", !.a = a,
                                !.att = [store.attempts[a] EXCEPT !.lease = LeaseTicks]])
    /\ ReadOnly

WriteLease(h) ==
    /\ At(h, "lease")
    /\ Write(UpdateAttempt(store, calls[h].a, calls[h].att))
    /\ Continue(h, Idle)

-----------------------------------------------------------------------------
(* Claims.  The lease is fixed when the request is checked, so a slow one  *)
(* comes with less of it left.                                             *)
Claimant(m, e) == [AbsentAttempt EXCEPT !.msg = m, !.ep = e, !.lease = LeaseTicks]

\* S, with the lease of the attempt just granted as the request fixed it.
Granted(S, a, lease) == UpdateAttempt(S, a, [S.attempts[a] EXCEPT !.lease = lease])

BeginClaim(h, e, m) ==
    /\ At(h, "idle")
    /\ MayClaim(e, m)
    /\ Continue(h, [Idle EXCEPT !.pc = "claim", !.att = Claimant(m, e)])
    /\ ReadOnly

CommitClaim(h, a) ==
    LET att     == calls[h].att
        claimed == ClaimMessageStore(store, att.msg, att.ep, a) IN
    /\ At(h, "claim")
    /\ IF Grants(store, att.msg)
       THEN ~Exists(store, a) /\ Write(Granted(claimed, a, att.lease))
       ELSE Write(claimed)
    /\ Continue(h, Idle)

BeginClaimNext(h, e) ==
    /\ At(h, "idle")
    /\ ~EndpointIsStale(e)
    /\ Continue(h, [Idle EXCEPT !.pc = "reconcile", !.names = endpoints[e].names,
                                !.att = Claimant(NoMessage, e)])
    /\ ReadOnly

ReconcileFirst(h) ==
    /\ At(h, "reconcile")
    /\ Write(ReconcileStore(store))
    /\ Continue(h, [To(calls[h], "next") EXCEPT !.online = OnlineEndpoints])

CommitClaimNext(h, m, a) ==
    LET c       == calls[h]
        claimed == ClaimNextStore(store, m, c.att.ep, a) IN
    /\ At(h, "next")
    /\ IsNext(store, m, c.att.ep, c.names, c.online)
    /\ IF Grants(store, m)
       THEN ~Exists(store, a) /\ Write(Granted(claimed, a, c.att.lease))
       ELSE Write(claimed)
    /\ Continue(h, Idle)

FindNothing(h) ==
    LET c == calls[h] IN
    /\ At(h, "next")
    /\ \A m \in MessageRefs : ~IsNext(store, m, c.att.ep, c.names, c.online)
    /\ Continue(h, Idle)
    /\ ReadOnly

-----------------------------------------------------------------------------
(* Task commands work through a snapshot of the task's messages.           *)
Copies(M) == [m \in MessageRefs |-> IF m \in M THEN store.messages[m] ELSE AbsentMessage]
Listed(todo) == {m \in MessageRefs : todo[m] # AbsentMessage}
Without(todo, m) == [todo EXCEPT ![m] = AbsentMessage]
\* Go on with the rest of the snapshot.
Rest(c, pc) ==
    IF Listed(c.todo) = {} THEN Idle ELSE [Idle EXCEPT !.pc = pc, !.todo = c.todo]

BeginCancel(h, t) ==
    /\ At(h, "idle")
    /\ "cancel" \in Commands
    /\ ToCancel(t) # {}
    /\ Continue(h, [Idle EXCEPT !.pc = "cancel", !.todo = Copies(ToCancel(t))])
    /\ ReadOnly

\* Mutant: the attempt of a canceled message is left open.
CancelMessageOnly(h, m) ==
    LET c == calls[h] IN
    /\ At(h, "cancel")
    /\ IsFirst(m, Listed(c.todo))
    /\ Write(UpdateMessage(store, m, [c.todo[m] EXCEPT !.state = "canceled"]))
    /\ Continue(h, Rest([c EXCEPT !.todo = Without(@, m)], "cancel"))

CancelMessage(h, m) ==
    LET c    == calls[h]
        next == [c EXCEPT !.todo = Without(@, m)] IN
    /\ At(h, "cancel")
    /\ IsFirst(m, Listed(c.todo))
    /\ Write(UpdateMessage(store, m, [c.todo[m] EXCEPT !.state = "canceled"]))
    /\ Continue(h, IF c.todo[m].attempt = NoAttempt THEN Rest(next, "cancel")
                   ELSE [To(next, "cancel_read") EXCEPT !.a = c.todo[m].attempt])

ReadOpenAttempt(h) ==
    LET c == calls[h] IN
    /\ At(h, "cancel_read")
    /\ Continue(h, IF Open(store, c.a)
                   THEN [To(c, "cancel_attempt") EXCEPT !.att = store.attempts[c.a]]
                   ELSE Rest(c, "cancel"))
    /\ ReadOnly

CancelAttempt(h) ==
    LET c == calls[h] IN
    /\ At(h, "cancel_attempt")
    /\ Write(UpdateAttempt(store, c.a, [c.att EXCEPT !.state = "canceled"]))
    /\ Continue(h, Rest(c, "cancel"))

BeginRetry(h, t) ==
    /\ At(h, "idle")
    /\ "retry" \in Commands
    /\ ToRetry(t) # {}
    /\ Continue(h, [Idle EXCEPT !.pc = "retry", !.todo = Copies(ToRetry(t))])
    /\ ReadOnly

\* Mutant: the message that is offered again still points to its old attempt.
RetryMessageKeepingAttempt(h, m) ==
    LET c == calls[h] IN
    /\ At(h, "retry")
    /\ IsFirst(m, Listed(c.todo))
    /\ Write(UpdateMessage(store, m, [c.todo[m] EXCEPT !.state = "available"]))
    /\ Continue(h, Rest([c EXCEPT !.todo = Without(@, m)], "retry"))

RetryMessage(h, m) ==
    LET c == calls[h] IN
    /\ At(h, "retry")
    /\ IsFirst(m, Listed(c.todo))
    /\ Write(UpdateMessage(store, m,
                 [c.todo[m] EXCEPT !.state = "available", !.attempt = NoAttempt]))
    /\ Continue(h, Rest([c EXCEPT !.todo = Without(@, m)], "retry"))

-----------------------------------------------------------------------------
Begin(h) ==
    \/ \E a \in AttemptRefs :
          \/ /\ "checkpoint" \in Offered
             /\ \E report \in Reports : BeginCheckpoint(h, a, report, FALSE, 0)
          \/ /\ "complete" \in Offered
             /\ \E left \in 0..MaxFollowUps : BeginCheckpoint(h, a, "completed", TRUE, left)
          \/ "refresh" \in Offered /\ BeginRefresh(h, a)
    \/ \E e \in Endpoints :
          \/ "claim_next" \in Offered /\ BeginClaimNext(h, e)
          \/ "claim" \in Offered /\ \E m \in MessageRefs : BeginClaim(h, e, m)
    \/ \E t \in Tasks : BeginCancel(h, t) \/ BeginRetry(h, t)

Proceed(h) ==
    \/ SaveTheCheckpoint(h) \/ WriteAttempt(h) \/ ReadMessage(h) \/ WriteMessage(h)
    \/ RereadAttempt(h) \/ RereadMessage(h) \/ CloseAttempt(h) \/ CloseMessage(h)
    \/ \E n \in MessageRefs, r \in Requests : SubmitFollowUp(h, n, r)
    \/ FollowUpRefused(h)
    \/ WriteLease(h)
    \/ \E a \in AttemptRefs : CommitClaim(h, a) \/ \E m \in MessageRefs : CommitClaimNext(h, m, a)
    \/ ReconcileFirst(h) \/ FindNothing(h)
    \/ \E m \in MessageRefs : CancelMessage(h, m) \/ RetryMessage(h, m)
    \/ ReadOpenAttempt(h) \/ CancelAttempt(h)

\* What needs no handler of its own.
Background ==
    \/ RegistryNext /\ UNCHANGED store
    \/ \E m \in MessageRefs, r \in Requests : IngressMessage(m, r)
    \/ \E d \in store.deadLetters, m \in MessageRefs : ReplayDeadLetter(d, m)
    \/ ReconcileExpiredClaims

\* Leases run out in the copies that handlers hold as they do in the ledger.
CopiesTick == calls' = [h \in Handlers |-> [calls[h] EXCEPT !.att.lease = Elapse(@)]]
StepsTick == Tick /\ CopiesTick

\* The server restarts on its sqlite ledger: the requests in flight are gone.
Crash ==
    /\ \E h \in Handlers : ~At(h, "idle")
    /\ calls' = [h \in Handlers |-> Idle]
    /\ ReadOnly

StepsNext ==
    \/ \E h \in Handlers : Begin(h) \/ Proceed(h)
    \/ Background /\ UNCHANGED calls
    \/ StepsTick
    \/ Crash

StepsSpec == StepsInit /\ [][StepsNext]_StepVars

-----------------------------------------------------------------------------
(* What survives any interleaving and any crash: CurrentAttemptLink,       *)
(* StateIsBacked, CompletedHasEvidence of Handoff, and the following.      *)

\* Write-backs of stale copies never make up progress: an attempt is in a
\* state its worker reports only if a checkpoint of that attempt reported it.
ReportedStateIsOnRecord ==
    \A a \in AttemptRefs :
        store.attempts[a].state \in {"absent", "claimed", "orphaned", "canceled"}
            \cup store.checkpoints[a].reported

(* What does not.                                                          *)

Quiet == \A h \in Handlers : At(h, "idle")

\* A canceled message stays canceled (where nobody retries it).
CancelSticks ==
    [][\A m \in MessageRefs :
          store.messages[m].state = "canceled" => store'.messages[m].state = "canceled"]_StepVars
=============================================================================
