----------------------------- MODULE Execution -----------------------------
(***************************************************************************)
(* How a worker executes a message: the executors of tc-worker             *)
(* (internal/runtime/executor.go and *_executor.go), alone or under the    *)
(* skill executor.  Two of them run a child process, one makes an HTTP     *)
(* request.  Each ends at its timeout and when the worker cancels it.      *)
(*                                                                         *)
(* Output is counted in lines, of stdout and stderr together.  A child may *)
(* ignore SIGTERM, never end, and leave a descendant behind that keeps its *)
(* output open.  A prompt fits the buffer of the pipe it is written to.    *)
(***************************************************************************)
EXTENDS Integers

CONSTANTS MaxLines,   \* bound: lines that one child writes
          LongLines   \* whether a line may exceed the scanner's limit

ASSUME ExecutionAssumption == MaxLines \in Nat /\ LongLines \in BOOLEAN

VARIABLES run,     \* the execution
          child,   \* the process it started
          result   \* what it came to

executionVars == <<run, child, result>>

\* What a message asks for, as far as an executor looks at it.
FaultsOf ==
    [echo    |-> {"none", "worker.missing_field", "worker.fail"},
     command |-> {"none", "payload.body", "invalid_json", "command", "not_allowed", "workdir",
                  "not_absolute", "start_failed"},
     ai_cli  |-> {"none", "start_failed"},
     llm     |-> {"none"}]
Kind == DOMAIN FaultsOf
SkillMatch == {"plain", "reload_failed", "not_found", "matched"}

\* open: our end of the output pipe; fetched: lines taken from it; kept: those
\* of them in the buffer of the result; reaped: the child was waited for.
NoRun == [pc |-> "idle", kind |-> "echo", skill |-> "plain", ctx |-> "live",
          scan |-> "reads", open |-> TRUE, fetched |-> 0, kept |-> 0,
          reaped |-> FALSE, interrupted |-> FALSE]
NoChild == [state |-> "none", code |-> 0, signal |-> "none", wrote |-> 0, heir |-> FALSE]
NoResult == [outcome |-> "none", reason |-> "", lines |-> 0, used |-> FALSE]

ExecutionInit == run = NoRun /\ child = NoChild /\ result = NoResult

Executing == run.pc \notin {"idle", "returned"}
HasChild == child.state # "none"

-----------------------------------------------------------------------------
(* Results.                                                                *)
FailedResult(reason, lines) ==
    [NoResult EXCEPT !.outcome = "failed", !.reason = reason, !.lines = lines]
PartialResult(reason, lines) ==
    [FailedResult(reason, lines) EXCEPT !.outcome = "partial_completed"]
CompletedResult(lines) == [NoResult EXCEPT !.outcome = "completed", !.lines = lines]
MissingFields == [NoResult EXCEPT !.outcome = "missing_fields"]

\* What the worker makes of a result before it reports it; "invalid" is an error.
Validated(r) ==
    CASE r.outcome = "none" -> [r EXCEPT !.outcome = "completed"]
      [] r.outcome = "failed" /\ r.reason = "" -> [r EXCEPT !.outcome = "invalid"]
      [] OTHER -> r

\* The result of a message that starts nothing; the reason is the fault.
ResultOfFault(fault) ==
    CASE fault \in {"worker.missing_field", "payload.body", "command", "workdir"} -> MissingFields
      [] OTHER -> FailedResult(fault, 0)

\* The skill executor marks every result of its backend.
Marked(r, skill) == [r EXCEPT !.used = skill = "matched"]

Returns(r) ==
    /\ result' = Validated(Marked(r, run.skill))
    /\ run' = [run EXCEPT !.pc = "returned"]

ExitReason(code) == IF code > 0 THEN "exit_nonzero" ELSE "start_failed"

-----------------------------------------------------------------------------
(* Execute.                                                                *)
Begins(kind, skill, pc) == run' = [NoRun EXCEPT !.kind = kind, !.skill = skill, !.pc = pc]

\* Skills are loaded anew for each message; one must match its capability.
ExecuteWithoutSkill(kind, skill) ==
    /\ run.pc = "idle"
    /\ skill \in {"reload_failed", "not_found"}
    /\ Begins(kind, skill, "returned")
    /\ result' = FailedResult(skill, 0)
    /\ UNCHANGED child

ExecuteAtOnce(kind, skill, fault) ==
    /\ run.pc = "idle"
    /\ skill \in {"plain", "matched"}
    /\ fault \in FaultsOf[kind]
    /\ fault # "none" \/ kind = "echo"
    /\ Begins(kind, skill, "returned")
    /\ result' = Validated(Marked(IF fault = "none" THEN CompletedResult(0)
                                  ELSE ResultOfFault(fault), skill))
    /\ UNCHANGED child

StartCommand(kind, skill) ==
    /\ run.pc = "idle"
    /\ skill \in {"plain", "matched"}
    /\ kind \in {"command", "ai_cli"}
    /\ Begins(kind, skill, "select")
    /\ child' = [NoChild EXCEPT !.state = "runs"]
    /\ UNCHANGED result

PostToProvider(skill) ==
    /\ run.pc = "idle"
    /\ skill \in {"plain", "matched"}
    /\ Begins("llm", skill, "post")
    /\ UNCHANGED <<child, result>>

\* The timeout of the execution, or the worker's keeper or loop.
ContextEnds(cause) ==
    /\ Executing
    /\ run.ctx = "live"
    /\ run' = [run EXCEPT !.ctx = cause]
    /\ UNCHANGED <<child, result>>

\* The worker goes on to its next message.
NextMessage ==
    /\ run.pc = "returned"
    /\ run' = NoRun /\ child' = NoChild /\ result' = NoResult

-----------------------------------------------------------------------------
(* AICLIExecutor.  A goroutine each scans a pipe, and one waits for the    *)
(* process; that closes the pipes once the process has ended.              *)
AI == Executing /\ run.kind = "ai_cli"

\* A read of the pipe takes what is there, or part of it.
FetchOutput ==
    /\ AI
    /\ run.scan = "reads" /\ run.kept = run.fetched
    /\ run.open
    /\ \E upto \in (run.fetched + 1)..child.wrote : run' = [run EXCEPT !.fetched = upto]
    /\ UNCHANGED <<child, result>>

\* A line that bears the readback marker is reported to the server before the
\* next line is looked at, with a request that only the worker's end cancels.
ScanLine ==
    /\ AI
    /\ run.scan = "reads" /\ run.kept < run.fetched
    /\ \/ \E scan \in {"reads", "posts"} : run' = [run EXCEPT !.kept = @ + 1, !.scan = scan]
       \/ LongLines /\ run' = [run EXCEPT !.scan = "done"]
    /\ UNCHANGED <<child, result>>

ReadbackAnswered ==
    /\ AI
    /\ run.scan = "posts"
    /\ run' = [run EXCEPT !.scan = "reads"]
    /\ UNCHANGED <<child, result>>

\* End of file, or the pipe was closed under the scanner.
ScanEnds ==
    /\ AI
    /\ run.scan = "reads" /\ run.kept = run.fetched
    /\ \/ ~run.open
       \/ child.state = "exited" /\ ~child.heir /\ run.fetched = child.wrote
    /\ run' = [run EXCEPT !.scan = "done"]
    /\ UNCHANGED <<child, result>>

\* command.Wait, in a goroutine of its own
WaitReturns ==
    /\ AI
    /\ child.state = "exited" /\ ~run.reaped
    /\ run' = [run EXCEPT !.reaped = TRUE, !.open = FALSE]
    /\ UNCHANGED <<child, result>>

Signaled(signal) == child' = IF child.state = "runs" THEN [child EXCEPT !.signal = signal] ELSE child

\* waitForAICLICommand
CommandEnded ==
    /\ AI
    /\ run.pc \in {"select", "grace", "kill"} /\ run.reaped
    /\ run' = [run EXCEPT !.pc = "collect", !.interrupted = run.pc # "select"]
    /\ UNCHANGED <<child, result>>

TerminateAICLIProcess ==
    /\ AI
    /\ run.pc = "select" /\ run.ctx # "live"
    /\ run' = [run EXCEPT !.pc = "grace"]
    /\ Signaled("term")
    /\ UNCHANGED result

\* Mutant: a process that ignores SIGTERM is waited for.
GraceGoesOn ==
    /\ AI
    /\ run.pc = "grace"
    /\ run' = [run EXCEPT !.pc = "kill"]
    /\ UNCHANGED <<child, result>>

GraceRunsOut ==
    /\ AI
    /\ run.pc = "grace"
    /\ run' = [run EXCEPT !.pc = "kill"]
    /\ Signaled("kill")
    /\ UNCHANGED result

\* Mutant: whoever exits with 0 has completed.
AICLIResultByExitCode ==
    CASE child.code # 0 -> FailedResult(ExitReason(child.code), run.kept)
      [] OTHER -> CompletedResult(run.kept)

AICLIResult ==
    CASE run.interrupted /\ run.ctx = "deadline" -> PartialResult("timeout", run.kept)
      [] run.interrupted /\ run.ctx = "canceled" -> FailedResult("canceled", run.kept)
      [] ~run.interrupted /\ child.code # 0 -> FailedResult(ExitReason(child.code), run.kept)
      [] OTHER -> CompletedResult(run.kept)

AICLIReturns ==
    /\ AI
    /\ run.pc = "collect" /\ run.scan = "done"
    /\ Returns(AICLIResult)
    /\ UNCHANGED child

-----------------------------------------------------------------------------
(* CommandExecutor.  exec.CommandContext kills the process when its        *)
(* context ends; Run returns when nobody has the output open any more, and *)
(* has then copied all of it.                                              *)
Commanding == Executing /\ run.kind = "command"

KillCommand ==
    /\ Commanding
    /\ run.ctx # "live" /\ ~run.reaped /\ ~run.interrupted
    /\ run' = [run EXCEPT !.interrupted = TRUE]
    /\ Signaled("kill")
    /\ UNCHANGED result

ReapCommand ==
    /\ Commanding
    /\ child.state = "exited" /\ ~run.reaped
    /\ run' = [run EXCEPT !.reaped = TRUE]
    /\ UNCHANGED <<child, result>>

\* A command that was done when its time ran out has timed out as well.
CommandResult ==
    IF run.ctx = "deadline" THEN FailedResult("timeout", child.wrote)
    ELSE CASE child.code # 0 -> FailedResult(ExitReason(child.code), child.wrote)
           [] child.code = 0 /\ run.interrupted -> FailedResult("start_failed", child.wrote)
           [] OTHER -> CompletedResult(child.wrote)

CommandReturns ==
    /\ Commanding
    /\ run.reaped /\ ~child.heir
    /\ Returns(CommandResult)
    /\ UNCHANGED child

-----------------------------------------------------------------------------
(* LLMExecutor: one request to the provider, canceled with its context.    *)
ProviderAnswers ==
    /\ run.pc = "post" /\ run.ctx = "live"
    /\ \E r \in {CompletedResult(1), FailedResult("request_failed", 0), FailedResult("response_read_failed", 0),
                 FailedResult("provider_status", 0), FailedResult("response_decode_failed", 0),
                 FailedResult("provider_error", 0), FailedResult("empty_output", 0)} : Returns(r)
    /\ UNCHANGED child

ProviderRequestEnds ==
    /\ run.pc = "post" /\ run.ctx # "live"
    /\ \E reason \in {IF run.ctx = "deadline" THEN "timeout" ELSE "request_failed",
                      "response_read_failed"} : Returns(FailedResult(reason, 0))
    /\ UNCHANGED child

-----------------------------------------------------------------------------
(* The child, which does as it likes until it is killed.                   *)
ChildOnly == UNCHANGED <<run, result>>

ChildWrites ==
    /\ child.state = "runs" /\ child.wrote < MaxLines
    /\ child' = [child EXCEPT !.wrote = @ + 1]
    /\ ChildOnly

ChildForks ==
    /\ child.state = "runs" /\ ~child.heir
    /\ child' = [child EXCEPT !.heir = TRUE]
    /\ ChildOnly

HeirEnds ==
    /\ child.heir
    /\ child' = [child EXCEPT !.heir = FALSE]
    /\ ChildOnly

\* It may handle SIGTERM and exit as it likes.
ChildExits(code) ==
    /\ child.state = "runs"
    /\ code < 0 => child.signal # "none"
    /\ child' = [child EXCEPT !.state = "exited", !.code = code]
    /\ ChildOnly

KilledChildDies == child.signal = "kill" /\ ChildExits(-1)

-----------------------------------------------------------------------------
\* What goes on in the worker's process.
ExecutorNext ==
    \/ FetchOutput \/ ScanLine \/ ReadbackAnswered \/ ScanEnds \/ WaitReturns
    \/ CommandEnded \/ TerminateAICLIProcess \/ GraceRunsOut \/ AICLIReturns
    \/ KillCommand \/ ReapCommand \/ CommandReturns
    \/ ProviderRequestEnds

ExecutionNext ==
    \/ \E kind \in Kind, skill \in SkillMatch :
          \/ ExecuteWithoutSkill(kind, skill)
          \/ \E fault \in FaultsOf[kind] : ExecuteAtOnce(kind, skill, fault)
          \/ StartCommand(kind, skill)
    \/ \E skill \in SkillMatch : PostToProvider(skill)
    \/ \E cause \in {"deadline", "canceled"} : ContextEnds(cause)
    \/ ProviderAnswers
    \/ ExecutorNext
    \/ ChildWrites \/ ChildForks \/ HeirEnds
    \/ \E code \in {-1, 0, 1} : ChildExits(code)
    \/ NextMessage

ExecutionSpec == ExecutionInit /\ [][ExecutionNext]_executionVars

\* Goroutines run, timers fire, a readback that was sent is answered or its
\* connection ends, and a process that was sent SIGKILL dies.  A child that
\* was not killed need not end, nor need its descendants.
ExecutionFairness ==
    /\ WF_executionVars(ExecutorNext)
    /\ WF_executionVars(KilledChildDies)

-----------------------------------------------------------------------------
\* A result tells of the process that was run for it: that has ended; it
\* counts as completed only if the process exited with 0 and nobody had sent
\* it a signal, as partial only if its time had run out, and its output is
\* what the process wrote or, of an AI CLI, the first part of that.
ResultIsOfItsProcess ==
    run.pc = "returned" =>
        /\ result.outcome \in {"completed", "partial_completed", "missing_fields", "failed"}
        /\ HasChild =>
              /\ child.state = "exited"
              /\ result.outcome = "completed" => child.code = 0 /\ child.signal = "none"
              /\ result.outcome = "partial_completed" => run.ctx = "deadline"
              /\ result.reason = "exit_nonzero" => child.code > 0
              /\ result.lines <= child.wrote
              /\ run.kind = "command" => result.lines = child.wrote

\* "expected streamed progress with readback marker": a CLI that completed has
\* all of its lines in the output.
OutputIsKept ==
    run.pc = "returned" /\ HasChild /\ result.outcome = "completed" => result.lines = child.wrote

\* An execution that has timed out or was canceled returns, whatever its child
\* does: it may ignore SIGTERM, write without end, or leave a descendant with
\* its output.  Only for a command that descendant must let go of the output.
CanceledExecutionReturns ==
    Executing /\ run.ctx # "live" ~> ~Executing \/ (run.kind = "command" /\ child.heir)
=============================================================================
