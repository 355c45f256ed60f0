------------------------------- MODULE Worker -------------------------------
(***************************************************************************)
(* One worker process (tc-worker/internal/runtime) against the server of   *)
(* Handoff.  Its goroutines - the processing loop, the lease keeper, the   *)
(* progress reporter and the heartbeat loop - each make one HTTP request   *)
(* at a time.  A request is served as a step of Handoff or refused, or its *)
(* connection breaks.  One that nobody waits for any more, because of that *)
(* or because its caller stopped or died, is lost or a stray: the server   *)
(* may still serve it, at once or later.                                   *)
(*                                                                         *)
(* Registering an execution log and submitting a readback are one optional *)
(* request, "attach": they need a live attempt and change no state of the  *)
(* ledger.  Health, version and snapshot requests change nothing at all.   *)
(***************************************************************************)
EXTENDS Handoff

CONSTANTS Me,           \* the endpoint of this worker
          Skills,       \* the capabilities it advertises
          MaxProgress,  \* bound: progress reports of one execution
          MaxStrays     \* bound: requests on their way that nobody waits for

ASSUME WorkerAssumption ==
    /\ Me \in Endpoints
    /\ Skills \in CapabilitySets
    /\ MaxProgress \in Nat
    /\ MaxStrays \in Nat

VARIABLES main, keeper, reporter, heart,   \* the goroutines
          calls,     \* the request each is waiting for
          strays,    \* requests that nobody waits for and the server may serve
          last       \* what became of the last claim

threads == <<main, keeper, reporter, heart, last>>
workerVars == <<endpoints, store, threads, calls, strays>>

Thread == {"main", "keeper", "reporter", "heart"}
\* The requests that submit a checkpoint, with the state they report.
ReportOf == [ack |-> "claimed", progress |-> "in_progress",
             block |-> "blocked_missing_fields", fail |-> "failed"]
Operation == DOMAIN ReportOf \cup
    {"register", "online", "offline", "advertise", "claim", "refresh", "attach", "complete"}
\* Those that may change something when nobody waits for them.
Effective == Operation \ {"attach", "advertise"}
Outcome == {"none", "completed", "blocked", "failed", "dropped", "error"}

\* answer: "broken" is a transport error; left: of the lease that a refresh
\* was granted, as of now; got: the attempt that a claim was granted.
Call == [op : Operation \cup {"none"},
         a : AttemptRefs \cup {NoAttempt},
         answer : {"none", "pending", "ok", "refused", "broken"},
         got : AttemptRefs \cup {NoAttempt},
         left : Countdown(LeaseTicks)]
Stray == [op : Operation, a : AttemptRefs \cup {NoAttempt}]
NoCall == [op |-> "none", a |-> NoAttempt, answer |-> "none",
           got |-> NoAttempt, left |-> Expired]

MainStep == {"off", "register", "first_beat", "advertise", "idle", "claim", "ack",
             "first_refresh", "execute", "report_error", "attach", "progress", "complete",
             "block", "fail", "settle", "stop", "offline"}
\* result: what the execution came to; prompt: since it polled for this claim
\* no call of the loop or the keeper was outstanding, and no timer of the
\* keeper overdue, while time passed.
Main == [pc : MainStep, a : AttemptRefs \cup {NoAttempt}, result : Outcome, prompt : BOOLEAN]
Keeper == [on : BOOLEAN, timer : 0..LeaseTicks, err : {"none", "refused", "broken"}]
Reporter == [on : BOOLEAN, sent : 0..MaxProgress]
Heart == [on : BOOLEAN, failed : BOOLEAN]
Last == [a : AttemptRefs \cup {NoAttempt}, result : Outcome, outcome : Outcome]

Off == [pc |-> "off", a |-> NoAttempt, result |-> "none", prompt |-> TRUE]
NoKeeper == [on |-> FALSE, timer |-> 0, err |-> "none"]
NoReporter == [on |-> FALSE, sent |-> 0]
Idling == [Off EXCEPT !.pc = "idle"]
Nothing == [a |-> NoAttempt, result |-> "none", outcome |-> "none"]
NoHeart == [on |-> FALSE, failed |-> FALSE]

WorkerTypeOK ==
    /\ TypeOK
    /\ main \in Main
    /\ keeper \in Keeper
    /\ reporter \in Reporter
    /\ heart \in Heart
    /\ calls \in [Thread -> Call]
    /\ strays \subseteq Stray
    /\ last \in Last

WorkerInit ==
    /\ main = Off
    /\ keeper = NoKeeper
    /\ reporter = NoReporter
    /\ heart = NoHeart
    /\ calls = [t \in Thread |-> NoCall]
    /\ strays = {}
    /\ last = Nothing

-----------------------------------------------------------------------------
(* Requests.                                                               *)
Sent(op, a) == [NoCall EXCEPT !.op = op, !.a = a, !.answer = "pending"]
Ask(t, op, a) == calls' = [calls EXCEPT ![t] = Sent(op, a)]
Hang(t) == calls' = [calls EXCEPT ![t] = NoCall]
Heard(t, answer) == calls[t].answer = answer
Failed(t) == calls[t].answer \in {"refused", "broken"}
Waiting(t) == calls[t].answer = "pending"
Stays == UNCHANGED <<endpoints, store>>

\* A caller that stops waiting, because its context was canceled, its process
\* died or its connection broke: what it sent is lost, or on its way.
LeavesBehind(ts) ==
    LET sent == {[op |-> calls[t].op, a |-> calls[t].a] : t \in {u \in ts : Waiting(u)}}
    IN  \E arrive \in SUBSET {r \in sent : r.op \in Effective} :
            /\ strays' = strays \cup arrive
            /\ Cardinality(strays') <= MaxStrays
HangAll(ts) == calls' = [t \in Thread |-> IF t \in ts THEN NoCall ELSE calls[t]]

\* What the server does with a request it accepts.  A claim-next that finds
\* nothing, or dead-letters what it finds, is answered with no attempt.
Accepts(op, a, got) ==
    CASE op \in DOMAIN ReportOf -> SubmitCheckpoint(a, ReportOf[op])
      [] op = "refresh" -> RefreshLease(a)
      [] op = "complete" -> CompleteAttempt(a, [m \in {} |-> NoRequest])
      [] op = "attach" -> Live(store, a) /\ Stays
      [] op = "register" -> RegisterEndpoint(Me, "online", Skills) /\ UNCHANGED store
      [] op \in {"online", "offline"} -> HeartbeatEndpoint(Me, op) /\ UNCHANGED store
      [] op = "advertise" -> AdvertiseCapabilities(Me, Skills) /\ UNCHANGED store
      [] op = "claim" ->
            IF got = NoAttempt
            THEN \/ ClaimNothing(Me)
                 \/ \E m \in MessageRefs, b \in AttemptRefs :
                       ~Grants(ReconcileStore(store), m) /\ ClaimNextMessage(Me, m, b)
            ELSE \E m \in MessageRefs :
                    Grants(ReconcileStore(store), m) /\ ClaimNextMessage(Me, m, got)

Refuses(op, a) ==
    CASE op = "register" -> ~EndpointIsStale(Me)
      [] op \in {"online", "offline", "advertise"} -> ~IsRegistered(Me)
      [] op = "claim" -> EndpointIsStale(Me)
      [] OTHER -> ~Live(store, a)

Serve(t) ==
    /\ Waiting(t)
    /\ \E got \in AttemptRefs \cup {NoAttempt} :
          /\ calls[t].op # "claim" => got = NoAttempt
          /\ Accepts(calls[t].op, calls[t].a, got)
          /\ calls' = [calls EXCEPT ![t].answer = "ok", ![t].got = got,
                          ![t].left = IF calls[t].op = "refresh" THEN LeaseTicks ELSE @]
    /\ UNCHANGED <<threads, strays>>

Refuse(t) ==
    /\ Waiting(t)
    /\ Refuses(calls[t].op, calls[t].a)
    /\ calls' = [calls EXCEPT ![t].answer = "refused"]
    /\ Stays /\ UNCHANGED <<threads, strays>>

\* The connection breaks; what was sent is lost or still arrives.
Break(t) ==
    /\ Waiting(t)
    /\ calls' = [calls EXCEPT ![t].answer = "broken"]
    /\ LeavesBehind({t})
    /\ Stays /\ UNCHANGED threads

ServeStray ==
    \E r \in strays :
        /\ \/ \E got \in AttemptRefs \cup {NoAttempt} :
                 (r.op # "claim" => got = NoAttempt) /\ Accepts(r.op, r.a, got)
           \/ Refuses(r.op, r.a) /\ Stays
        /\ strays' = strays \ {r}
        /\ UNCHANGED <<threads, calls>>

-----------------------------------------------------------------------------
(* Run: register, then the processing loop.                                *)
Goes(pc) == main' = [main EXCEPT !.pc = pc]
MainOnly == Stays /\ UNCHANGED <<keeper, reporter, heart, strays, last>>

\* The next request of the processing loop, once `from` was answered with ok.
Proceeds(from, pc, op) ==
    /\ main.pc = from
    /\ Heard("main", "ok")
    /\ Goes(pc)
    /\ Ask("main", op, main.a)
    /\ MainOnly

StartWorker ==
    /\ main.pc = "off"
    /\ Goes("register")
    /\ Ask("main", "register", NoAttempt)
    /\ MainOnly

Register ==
    \/ Proceeds("register", "first_beat", "online")
    \/ Proceeds("first_beat", "advertise", "advertise")

StartHeartbeat ==
    /\ main.pc = "advertise"
    /\ Heard("main", "ok")
    /\ main' = Idling
    /\ heart' = [on |-> TRUE, failed |-> FALSE]
    /\ Hang("main")
    /\ Stays /\ UNCHANGED <<keeper, reporter, strays, last>>

\* A worker that cannot register ends before it has anything to stop.
GiveUpRegistering ==
    /\ main.pc \in {"register", "first_beat", "advertise"}
    /\ Failed("main")
    /\ main' = Off
    /\ Hang("main")
    /\ MainOnly

Poll ==
    /\ main.pc = "idle"
    /\ ~heart.failed
    /\ Goes("claim")
    /\ last' = Nothing
    /\ Ask("main", "claim", NoAttempt)
    /\ Stays /\ UNCHANGED <<keeper, reporter, heart, strays>>

ClaimEmpty ==
    /\ main.pc = "claim"
    /\ Heard("main", "ok")
    /\ calls["main"].got = NoAttempt
    /\ main' = Idling
    /\ Hang("main")
    /\ MainOnly

AcknowledgeClaim ==
    LET a == calls["main"].got IN
    /\ main.pc = "claim"
    /\ Heard("main", "ok")
    /\ a # NoAttempt
    /\ main' = [main EXCEPT !.pc = "ack", !.a = a]
    /\ Ask("main", "ack", a)
    /\ MainOnly

\* A claim or an acknowledgement that fails, for whatever reason, ends Run;
\* so do a failed heartbeat, a signal and MaxMessages, between two messages.
LeaveLoop ==
    /\ main.pc = "idle" \/ (main.pc \in {"claim", "ack"} /\ Failed("main"))
    /\ main' = [Off EXCEPT !.pc = "stop"]
    /\ Hang("main")
    /\ MainOnly

-----------------------------------------------------------------------------
(* finishClaimAfterAck.                                                    *)
FirstRefresh == Proceeds("ack", "first_refresh", "refresh")

\* Mutant: the keeper waits until the lease is over.
RefreshAfterLease(left) == left + 1

\* leaseRefreshInterval: half of what is left.
LeaseRefreshInterval(left) == IF left <= 0 THEN 0 ELSE left \div 2

Execute ==
    /\ main.pc = "first_refresh"
    /\ Heard("main", "ok")
    /\ Goes("execute")
    /\ keeper' = [on |-> TRUE, timer |-> LeaseRefreshInterval(calls["main"].left), err |-> "none"]
    /\ reporter' = [on |-> TRUE, sent |-> 0]
    /\ Hang("main")
    /\ Stays /\ UNCHANGED <<heart, strays, last>>

\* Dropped before anything was started, or ended by a transport error.
FirstRefreshFails ==
    /\ main.pc = "first_refresh"
    /\ Failed("main")
    /\ main' = [Off EXCEPT !.pc = IF Heard("main", "refused") THEN "idle" ELSE "stop"]
    /\ last' = [a |-> main.a, result |-> "none",
                outcome |-> IF Heard("main", "refused") THEN "dropped" ELSE "error"]
    /\ Hang("main")
    /\ Stays /\ UNCHANGED <<keeper, reporter, heart, strays>>

KeeperFires ==
    /\ keeper.on
    /\ calls["keeper"] = NoCall
    /\ keeper.timer = 0
    /\ Ask("keeper", "refresh", main.a)
    /\ Stays /\ UNCHANGED <<threads, strays>>

KeeperHears ==
    /\ keeper.on
    /\ \/ /\ Heard("keeper", "ok")
          /\ keeper' = [keeper EXCEPT !.timer = LeaseRefreshInterval(calls["keeper"].left)]
       \/ /\ Failed("keeper")
          /\ keeper' = [keeper EXCEPT !.on = FALSE, !.err = calls["keeper"].answer]
    /\ Hang("keeper")
    /\ Stays /\ UNCHANGED <<main, reporter, heart, strays, last>>

\* Mutant: a keeper that failed leaves the execution alone.
NeverCanceled == FALSE

\* The execution's context: the keeper cancels it when it cannot refresh.
Canceled == keeper.err # "none"

ReporterFires ==
    /\ reporter.on
    /\ ~Canceled
    /\ calls["reporter"] = NoCall
    /\ reporter.sent < MaxProgress
    /\ reporter' = [reporter EXCEPT !.sent = @ + 1]
    /\ Ask("reporter", "progress", main.a)
    /\ Stays /\ UNCHANGED <<main, keeper, heart, strays, last>>

\* Answers to progress reports are ignored; a canceled one is left behind.
ReporterHears ==
    /\ reporter.on
    /\ \/ calls["reporter"].answer \in {"ok", "refused", "broken"}
       \/ Canceled /\ Waiting("reporter")
    /\ LeavesBehind({"reporter"})
    /\ Hang("reporter")
    /\ Stays /\ UNCHANGED threads

\* progressReporter.stop, on the way to the next request of the loop, if any.
StopReporter(pc, result, op) ==
    /\ main' = [main EXCEPT !.pc = pc, !.result = result]
    /\ reporter' = NoReporter
    /\ LeavesBehind({"reporter"})
    /\ calls' = [calls EXCEPT !["reporter"] = NoCall,
                              !["main"] = IF op = "none" THEN NoCall ELSE Sent(op, main.a)]
    /\ Stays /\ UNCHANGED <<keeper, heart, last>>

ExecutorReturns ==
    /\ main.pc = "execute"
    /\ \/ StopReporter("attach", "completed", "attach")
       \/ StopReporter("progress", "completed", "progress")
       \/ StopReporter("attach", "blocked", "attach")
       \/ StopReporter("attach", "failed", "attach")
       \/ StopReporter("fail", "failed", "fail")
       \/ StopReporter("settle", "error", "none")   \* its log could not be stored

\* An executor that fails, as it does when its context is canceled: the
\* attempt is failed first, while the reporter still runs.
ExecutorFails ==
    /\ main.pc = "execute"
    /\ Goes("report_error")
    /\ Ask("main", "fail", main.a)
    /\ MainOnly

ReportedError ==
    /\ main.pc = "report_error"
    /\ calls["main"].answer \in {"ok", "refused", "broken"}
    /\ StopReporter("settle", "error", "none")

\* finishAcceptedClaim
Report ==
    \/ main.result = "completed" /\ Proceeds("attach", "progress", "progress")
    \/ main.result = "blocked" /\ Proceeds("attach", "block", "block")
    \/ main.result = "failed" /\ Proceeds("attach", "fail", "fail")
    \/ Proceeds("progress", "complete", "complete")

Settles(result) ==
    /\ main' = [main EXCEPT !.pc = "settle", !.result = result]
    /\ Hang("main")
    /\ MainOnly

ReportAccepted ==
    /\ main.pc \in {"complete", "block", "fail"}
    /\ Heard("main", "ok")
    /\ Settles(main.result)

\* Mutant: a completion that could not be delivered counts as one.
ReportFailsSilently ==
    /\ main.pc \in {"attach", "progress", "complete", "block", "fail"}
    /\ Failed("main")
    /\ Settles(IF Heard("main", "refused") THEN "dropped" ELSE main.result)

ReportFails ==
    /\ main.pc \in {"attach", "progress", "complete", "block", "fail"}
    /\ Failed("main")
    /\ Settles(IF Heard("main", "refused") THEN "dropped" ELSE "error")

\* keeper.stop: its error once it was canceled.  A refresh in flight may still
\* be answered, or end with the error of its context; one whose timer has run
\* out may start with a context that is canceled already.
KeeperErrors ==
    CASE ~keeper.on -> {keeper.err}
      [] keeper.on /\ calls["keeper"] = NoCall ->
            IF keeper.timer = 0 THEN {"none", "broken"} ELSE {"none"}
      [] keeper.on /\ Heard("keeper", "ok") -> {"none", "broken"}
      [] keeper.on /\ Heard("keeper", "refused") -> {"refused", "broken"}
      [] OTHER -> {"broken"}

\* The keeper's error takes the place of what the execution came to.
Settle ==
    /\ main.pc = "settle"
    /\ \E err \in KeeperErrors :
          LET outcome == CASE err = "refused" -> "dropped"
                           [] err = "broken" -> "error"
                           [] OTHER -> main.result
          IN  /\ main' = [Off EXCEPT !.pc = IF outcome = "error" THEN "stop" ELSE "idle"]
              /\ last' = [a |-> main.a, result |-> main.result, outcome |-> outcome]
    /\ keeper' = NoKeeper
    /\ LeavesBehind({"keeper"})
    /\ Hang("keeper")
    /\ Stays /\ UNCHANGED <<reporter, heart>>

-----------------------------------------------------------------------------
(* The heartbeat loop, and the end of the process.                         *)
Beat ==
    /\ heart.on
    /\ calls["heart"] = NoCall
    /\ Ask("heart", "online", NoAttempt)
    /\ Stays /\ UNCHANGED <<threads, strays>>

BeatHeard ==
    /\ heart.on
    /\ calls["heart"].answer \in {"ok", "refused", "broken"}
    /\ heart' = IF Heard("heart", "ok") THEN heart ELSE [on |-> FALSE, failed |-> TRUE]
    /\ Hang("heart")
    /\ Stays /\ UNCHANGED <<main, keeper, reporter, strays, last>>

MarkOffline ==
    /\ main.pc = "stop"
    /\ Goes("offline")
    /\ heart' = NoHeart
    /\ LeavesBehind({"heart"})
    /\ calls' = [calls EXCEPT !["heart"] = NoCall, !["main"] = Sent("offline", NoAttempt)]
    /\ Stays /\ UNCHANGED <<keeper, reporter, last>>

Exit ==
    /\ main.pc = "offline"
    /\ calls["main"].answer \in {"ok", "refused", "broken"}
    /\ main' = Off
    /\ Hang("main")
    /\ MainOnly

Kill ==
    /\ main.pc # "off"
    /\ main' = Off
    /\ keeper' = NoKeeper
    /\ reporter' = NoReporter
    /\ heart' = NoHeart
    /\ LeavesBehind(Thread)
    /\ HangAll(Thread)
    /\ last' = Nothing
    /\ Stays

-----------------------------------------------------------------------------
(* Time, the other actors, and the system.                                 *)
Overdue ==
    \/ \E t \in {"main", "keeper"} : calls[t] # NoCall
    \/ keeper.on /\ keeper.timer = 0

WorkerTick ==
    /\ keeper' = [keeper EXCEPT !.timer = IF @ = 0 THEN 0 ELSE @ - 1]
    /\ calls' = [t \in Thread |-> [calls[t] EXCEPT !.left = Elapse(@)]]
    /\ main' = [main EXCEPT !.prompt = @ /\ ~Overdue]
    /\ UNCHANGED <<reporter, heart, strays, last>>

LoopNext ==
    \/ StartWorker \/ Register \/ StartHeartbeat \/ GiveUpRegistering
    \/ Poll \/ ClaimEmpty \/ AcknowledgeClaim \/ LeaveLoop
    \/ FirstRefresh \/ Execute \/ FirstRefreshFails
    \/ Report \/ ReportAccepted \/ ReportFails \/ ReportedError \/ Settle
    \/ MarkOffline \/ Exit
KeeperNext == KeeperFires \/ KeeperHears
ReporterNext == ReporterFires \/ ReporterHears
HeartNext == Beat \/ BeatHeard
ExecutorNext == ExecutorReturns \/ ExecutorFails
Answer(t) == Serve(t) \/ Refuse(t) \/ Break(t)

ProcessNext == LoopNext \/ ExecutorNext \/ KeeperNext \/ ReporterNext \/ HeartNext \/ Kill
WireNext == ServeStray \/ \E t \in Thread : Answer(t)

\* Everybody else: senders, operators, the reconcile loop, other endpoints,
\* which here only take messages over.
OthersNext ==
    /\ \/ \E m \in MessageRefs, r \in Requests : IngressMessage(m, r)
       \/ \E e \in Endpoints \ {Me}, m \in MessageRefs, a \in AttemptRefs :
             ClaimNextMessage(e, m, a)
       \/ \E t \in Tasks : CancelTask(t)
       \/ ReconcileExpiredClaims
    /\ UNCHANGED <<threads, calls, strays>>

SystemNext == ProcessNext \/ WireNext \/ OthersNext \/ (Tick /\ WorkerTick)
SystemInit == Init /\ WorkerInit
SystemSpec == SystemInit /\ [][SystemNext]_workerVars

-----------------------------------------------------------------------------
(* Safety.                                                                 *)

\* What a worker says became of its claim is what the ledger holds: a result
\* it counts as delivered is a checkpoint of that attempt, and an attempt it
\* dropped is one that the server no longer takes anything from.
OutcomeIsTrue ==
    LET reported == store.checkpoints[last.a].reported IN
    /\ last.outcome = "completed" => "completed" \in reported
    /\ last.outcome = "blocked" => "blocked_missing_fields" \in reported
    /\ last.outcome = "failed" => "failed" \in reported
    /\ last.outcome = "dropped" => ~Live(store, last.a)

\* A worker whose calls are answered in time holds its claim for as long as it
\* executes: unless the task is canceled, or its keeper has failed, the
\* attempt is live, whatever requests of its own are still under way.
TimelyWorkerKeepsClaim ==
    main.pc = "execute" /\ main.prompt /\ ~Canceled =>
        Live(store, main.a) \/ store.attempts[main.a].state = "canceled"

\* "expected long execution to complete": an execution whose completion was
\* accepted is one that the worker counts as completed.
CompletionIsReported ==
    last.result = "completed" => last.outcome = "completed"

-----------------------------------------------------------------------------
(* Liveness.                                                               *)

\* Besides time passing: every request is answered or its connection ends, the
\* keeper runs, and an executor whose context was canceled returns: Execution's
\* CanceledExecutionReturns, which excepts a command that leaves a descendant
\* behind with its output.
WorkerFairness ==
    /\ WF_workerVars(KeeperNext)
    /\ WF_workerVars(Answer("keeper"))
    /\ WF_workerVars(Canceled /\ ExecutorNext)

\* A claim that was lost, to its lease, a cancel or a takeover, is not worked
\* on for ever: the keeper notices and cancels the execution.
LostClaimIsAbandoned ==
    \A a \in AttemptRefs :
        LET executes == main.pc = "execute" /\ main.a = a
        IN  (executes /\ ~Live(store, a)) ~> ~executes
=============================================================================
