------------------------- MODULE HandoffRefinement -------------------------
(***************************************************************************)
(* Without the retry command, Handoff implements WorkQueue.  An item is    *)
(* held while the attempt its message points to is open, whether the       *)
(* message is claimed, processing or waiting for input.                    *)
(***************************************************************************)
EXTENDS Handoff

Held(m) ==
    /\ store.messages[m].state \in {"claimed", "processing", "input_required"}
    /\ HasCurrentAttempt(store, m)
    /\ Open(store, store.messages[m].attempt)

PhaseOf(m) ==
    CASE store.messages[m].state = "absent" -> "absent"
      [] store.messages[m].state = "available" -> "ready"
      [] store.messages[m].state = "completed" -> "done"
      [] store.messages[m].state = "dead_lettered" -> "dead"
      [] store.messages[m].state \in {"failed", "canceled"} -> "parked"
      [] store.messages[m].state = "takeover_candidate" -> "lost"
      [] OTHER -> IF Held(m) THEN "held" ELSE "lost"

Queue == INSTANCE WorkQueue WITH
    Items     <- MessageRefs,
    Tickets   <- AttemptRefs,
    NoTicket  <- NoAttempt,
    MaxGrants <- MaxRedelivery + 1,
    phase     <- [m \in MessageRefs |-> PhaseOf(m)],
    holder    <- [m \in MessageRefs |->
                     IF Held(m) THEN store.messages[m].attempt ELSE NoAttempt],
    grants    <- [m \in MessageRefs |->
                     IF HasCurrentAttempt(store, m)
                     THEN store.messages[m].redelivery + 1 ELSE 0],
    spent     <- {a \in AttemptRefs : Exists(store, a)}

\* The ledger is a work queue: every handler, whatever endpoints, leases and
\* commands do meanwhile, moves each message as the queue allows or not at all.
ImplementsWorkQueue == Queue!Spec
=============================================================================
