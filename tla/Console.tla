------------------------------ MODULE Console ------------------------------
(***************************************************************************)
(* The status console that a worker runs in its terminal                   *)
(* (worker_status_tui.go).  The worker runs beside it until the console    *)
(* cancels its context; the console polls the server every second and      *)
(* whenever the user asks, with requests that may take two.  Its commands  *)
(* run concurrently and come back as messages to its one event loop: polls *)
(* overlap, and an older snapshot may be shown after a newer one.          *)
(*                                                                         *)
(* Rendering, and the scrolling of panes other than the artifact list, are *)
(* left out.                                                               *)
(***************************************************************************)
EXTENDS Integers, Sequences

CONSTANTS History,       \* what the server shows of this worker, over time
          Tabs,          \* the tabs in their cycle; one is "artifacts"
          Page,          \* artifacts listed at once (6)
          ViewerLines,   \* bound: how far the text of an artifact scrolls
          MaxPolls       \* bound: polls under way at the same time

\* The state of the endpoint, those of its attempts in the order of their refs,
\* and how many artifact versions it has written.
ServerView == [endpoint : {"absent", "online", "stale", "offline"},
               attempts : Seq(STRING), artifacts : Nat]

ASSUME ConsoleAssumption ==
    /\ History \in Seq(ServerView) \ {<<>>}
    /\ \E i \in DOMAIN Tabs : Tabs[i] = "artifacts"
    /\ Page \in Nat \ {0}
    /\ ViewerLines \in Nat
    /\ MaxPolls \in Nat \ {0}

VARIABLES now,      \* where in History the server is
          polls,    \* each poll: none, asked, failed, or the view it was answered with
          console   \* the model of the event loop

consoleVars == <<now, polls, console>>

None == 0
Asked == -1
Failed == -2

Console == [worker : {"running", "returned"},   \* run(ctx)
            done : BOOLEAN, stop : BOOLEAN,     \* workerDone, stopRequested
            quit : {"no", "quit", "killed"},
            shown : 0..Len(History),            \* 0: no snapshot yet
            told : ServerView,                  \* what the log said last
            focus : {Tabs[i] : i \in DOMAIN Tabs} \cup {"help"},
            previous : {Tabs[i] : i \in DOMAIN Tabs} \cup {"help"},
            open : BOOLEAN,                     \* the artifact viewer
            index : Nat, offset : Nat]          \* artifactIndex, artifactOffset

NothingYet == [endpoint |-> "absent", attempts |-> <<>>, artifacts |-> 0]

ConsoleTypeOK ==
    /\ now \in DOMAIN History
    /\ polls \in [1..MaxPolls -> {None, Asked, Failed} \cup DOMAIN History]
    /\ console \in Console

\* Init starts the worker and polls at once.
ConsoleInit ==
    /\ now = 1
    /\ polls = [p \in 1..MaxPolls |-> IF p = 1 THEN Asked ELSE None]
    /\ console = [worker |-> "running", done |-> FALSE, stop |-> FALSE, quit |-> "no",
                  shown |-> 0, told |-> NothingYet,
                  focus |-> Tabs[1], previous |-> Tabs[1], open |-> FALSE,
                  index |-> 0, offset |-> 0]

Running == console.quit = "no"
ShownView == IF console.shown = 0 THEN NothingYet ELSE History[console.shown]
Artifacts == ShownView.artifacts
Clamp(n, high) == IF n > high THEN high ELSE IF n < 0 THEN 0 ELSE n

-----------------------------------------------------------------------------
(* Polls.                                                                  *)
AskServer ==
    /\ Running
    /\ \E p \in 1..MaxPolls :
          /\ polls[p] = None
          /\ \A q \in 1..(p - 1) : polls[q] # None
          /\ polls' = [polls EXCEPT ![p] = Asked]
    /\ UNCHANGED <<now, console>>

AnswerPoll(p) ==
    /\ polls[p] = Asked
    /\ ~console.stop
    /\ polls' = [polls EXCEPT ![p] = now]
    /\ UNCHANGED <<now, console>>

\* The client's timeout, a broken connection, or the context that q canceled.
AskFails(p) ==
    /\ polls[p] = Asked
    /\ polls' = [polls EXCEPT ![p] = Failed]
    /\ UNCHANGED <<now, console>>

\* observeSnapshot: what differs from the last word of the log is logged.  An
\* endpoint that is not in the snapshot keeps its last state.
Observe(told, view) ==
    [endpoint |-> IF view.endpoint = "absent" THEN told.endpoint ELSE view.endpoint,
     attempts |-> view.attempts
                  \o SubSeq(told.attempts, Len(view.attempts) + 1, Len(told.attempts)),
     artifacts |-> IF view.artifacts > told.artifacts THEN view.artifacts ELSE told.artifacts]

\* Mutant: the selection is left where it was.
KeepSelections(c, n) == c

ClampSelections(c, n) ==
    IF n = 0 THEN [c EXCEPT !.index = 0, !.offset = 0]
    ELSE [c EXCEPT !.index = Clamp(@, n - 1), !.offset = Clamp(@, n - 1)]

ShowSnapshot(p) ==
    LET view == History[polls[p]] IN
    /\ Running
    /\ polls[p] \in DOMAIN History
    /\ console' = ClampSelections(
           [console EXCEPT !.shown = polls[p], !.told = Observe(@, view)], view.artifacts)
    /\ polls' = [polls EXCEPT ![p] = None]
    /\ UNCHANGED now

\* An error is shown, and the last snapshot stays.
ShowError(p) ==
    /\ Running
    /\ polls[p] = Failed
    /\ polls' = [polls EXCEPT ![p] = None]
    /\ UNCHANGED <<now, console>>

-----------------------------------------------------------------------------
(* The worker, and the end of both.                                        *)

\* It returns when its context is canceled, or before that by itself.
WorkerReturns ==
    /\ console.worker = "running"
    /\ console' = [console EXCEPT !.worker = "returned"]
    /\ UNCHANGED <<now, polls>>

WorkerDone ==
    /\ Running
    /\ console.worker = "returned"
    /\ ~console.done
    /\ console' = [console EXCEPT !.done = TRUE, !.quit = IF console.stop THEN "quit" ELSE @]
    /\ UNCHANGED <<now, polls>>

\* Mutant: the console quits at once, and leaves the worker behind.
StopAndQuit ==
    /\ Running
    /\ console' = [console EXCEPT !.stop = TRUE, !.quit = "quit"]
    /\ UNCHANGED <<now, polls>>

StopWorkerKey ==
    /\ Running
    /\ console' = [console EXCEPT !.stop = TRUE, !.quit = IF console.done THEN "quit" ELSE @]
    /\ UNCHANGED <<now, polls>>

\* The context the program itself was started with ends.
ProgramKilled ==
    /\ Running
    /\ console' = [console EXCEPT !.quit = "killed"]
    /\ UNCHANGED <<now, polls>>

-----------------------------------------------------------------------------
(* The other keys.                                                         *)
Key(change) ==
    /\ Running
    /\ console' = change
    /\ UNCHANGED <<now, polls>>

ToggleHelp ==
    Key(IF console.focus = "help" THEN [console EXCEPT !.focus = console.previous]
        ELSE [console EXCEPT !.focus = "help", !.previous = console.focus])

\* The viewer is closed first, also when it lies behind the help.
CloseOverlay ==
    Key(IF console.open THEN [console EXCEPT !.open = FALSE]
        ELSE IF console.focus = "help" THEN [console EXCEPT !.focus = console.previous]
        ELSE console)

MoveFocus(direction) ==
    \E i \in DOMAIN Tabs :
        /\ console.focus = Tabs[i]
        /\ ~console.open
        /\ Key([console EXCEPT !.focus = Tabs[((i - 1 + direction) % Len(Tabs)) + 1]])

SelectTab(i) == Key([console EXCEPT !.focus = Tabs[i]])

\* The viewer and the list share one offset.
OpenSelectedArtifact ==
    /\ console.focus = "artifacts"
    /\ ~console.open
    /\ Artifacts > 0
    /\ Key([console EXCEPT !.open = TRUE, !.offset = 0, !.index = Clamp(@, Artifacts - 1)])

InWindow(c) ==
    [c EXCEPT !.offset = IF c.index < @ THEN c.index
                         ELSE IF c.index >= @ + Page THEN c.index - (Page - 1) ELSE @]

ScrollFocused(delta) ==
    \/ console.open /\ Key([console EXCEPT !.offset = Clamp(@ + delta, ViewerLines)])
    \/ /\ ~console.open
       /\ console.focus = "artifacts"
       /\ Key(IF Artifacts = 0 THEN ClampSelections(console, 0)
              ELSE InWindow([console EXCEPT !.index = Clamp(@ + delta, Artifacts - 1)]))

ScrollHome ==
    \/ console.open /\ Key([console EXCEPT !.offset = 0])
    \/ /\ ~console.open
       /\ console.focus = "artifacts"
       /\ Key([console EXCEPT !.index = 0, !.offset = 0])

ScrollEnd ==
    \/ console.open /\ Key([console EXCEPT !.offset = ViewerLines])
    \/ /\ ~console.open
       /\ console.focus = "artifacts"
       /\ Artifacts > 0
       /\ Key([console EXCEPT !.index = Artifacts - 1, !.offset = Clamp(Artifacts - Page, Artifacts)])

HandleKey ==
    \/ AskServer \/ StopWorkerKey \/ ToggleHelp \/ CloseOverlay
    \/ MoveFocus(1) \/ MoveFocus(-1) \/ \E i \in DOMAIN Tabs : SelectTab(i)
    \/ OpenSelectedArtifact
    \/ \E delta \in {-6, -1, 1, 6} : ScrollFocused(delta)
    \/ ScrollHome \/ ScrollEnd

ServerMoves == now < Len(History) /\ now' = now + 1 /\ UNCHANGED <<polls, console>>

ConsoleNext ==
    \/ \E p \in 1..MaxPolls : AnswerPoll(p) \/ AskFails(p) \/ ShowSnapshot(p) \/ ShowError(p)
    \/ WorkerReturns \/ WorkerDone \/ ProgramKilled
    \/ HandleKey
    \/ ServerMoves

ConsoleSpec == ConsoleInit /\ [][ConsoleNext]_consoleVars

-----------------------------------------------------------------------------
\* Stopping is a handshake: in whichever order the key and the end of the
\* worker arrive, the console quits when it has seen both, and never leaves a
\* worker running behind it.
QuitsWithWorker ==
    /\ (console.stop /\ console.done) <=> (console.quit = "quit")
    /\ console.quit = "quit" => console.worker = "returned"

\* What the console shows is one view, though its polls overtake each other and
\* an older, shorter list may follow a newer one: the log's last word on each
\* attempt shown is the state shown, and the selected artifact is in the list.
ShowsOneView ==
    /\ \A i \in DOMAIN ShownView.attempts : console.told.attempts[i] = ShownView.attempts[i]
    /\ IF Artifacts = 0 THEN console.index = 0 ELSE console.index < Artifacts
=============================================================================
