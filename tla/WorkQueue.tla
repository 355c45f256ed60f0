----------------------------- MODULE WorkQueue -----------------------------
(***************************************************************************)
(* What the handoff ledger promises, without endpoints, time or            *)
(* checkpoints: a queue of work items, each held by at most one ticket at  *)
(* a time.  A ticket is issued once and never again; losing it loses the   *)
(* item for good; an item is issued a bounded number of tickets; only a    *)
(* held item gets done, and what is done stays done.                       *)
(***************************************************************************)
EXTENDS Naturals

CONSTANTS Items, Tickets, NoTicket,
          MaxGrants   \* tickets issued for one item before it is buried

VARIABLES phase,    \* of each item: absent, ready, held, lost, parked, done, dead
          holder,   \* of each item: the ticket that holds it
          grants,   \* of each item: how many tickets it was issued
          spent     \* the tickets ever issued

Init ==
    /\ phase = [i \in Items |-> "absent"]
    /\ holder = [i \in Items |-> NoTicket]
    /\ grants = [i \in Items |-> 0]
    /\ spent = {}

Submit(i) ==
    /\ phase[i] = "absent" /\ phase'[i] = "ready"
    /\ holder'[i] = NoTicket /\ grants'[i] = 0

\* A held item is granted again when its holder is found to have expired.
Grant(i) ==
    /\ phase[i] \in {"ready", "lost", "held"} /\ phase'[i] = "held"
    /\ grants'[i] = grants[i] + 1 /\ grants'[i] <= MaxGrants
    /\ holder'[i] \in spent' \ spent

Lose(i) ==
    /\ phase[i] = "held" /\ phase'[i] = "lost"
    /\ holder'[i] = NoTicket /\ grants'[i] = grants[i]

Finish(i) ==
    /\ phase[i] = "held" /\ phase'[i] = "done"
    /\ holder'[i] = NoTicket /\ grants'[i] = grants[i]

\* The holder gives up, or an operator withdraws the item in any phase.
Park(i) ==
    /\ phase[i] \notin {"absent", "done"} /\ phase'[i] = "parked"
    /\ holder'[i] = NoTicket /\ grants'[i] = grants[i]

Bury(i) ==
    /\ phase[i] \in {"held", "lost"} /\ phase'[i] = "dead"
    /\ grants[i] = MaxGrants
    /\ holder'[i] = NoTicket /\ grants'[i] = grants[i]

Keep(i) ==
    /\ phase'[i] = phase[i] /\ holder'[i] = holder[i] /\ grants'[i] = grants[i]

\* One request may move several items: reconciling, cancelling a task, or
\* completing an item and submitting what follows it.
Next ==
    /\ \A i \in Items : \/ Submit(i) \/ Grant(i) \/ Lose(i) \/ Finish(i)
                        \/ Park(i) \/ Bury(i) \/ Keep(i)
    /\ spent \subseteq spent'
    /\ \A i, j \in Items : i # j /\ holder'[i] # NoTicket => holder'[i] # holder'[j]

vars == <<phase, holder, grants, spent>>

Spec == Init /\ [][Next]_vars
=============================================================================
