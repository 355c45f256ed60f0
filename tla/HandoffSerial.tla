--------------------------- MODULE HandoffSerial ---------------------------
(***************************************************************************)
(* HandoffSteps with one request in flight at a time and no crash: its     *)
(* steps, taken together, are the actions of Handoff.  `settled` is the    *)
(* ledger as the last request that ended left it.                          *)
(***************************************************************************)
EXTENDS HandoffSteps

VARIABLE settled

SerialVars == <<endpoints, store, calls, settled>>

SerialInit == StepsInit /\ settled = store

SerialNext ==
    /\ \/ \E h \in Handlers :
             /\ \A k \in Handlers \ {h} : At(k, "idle")
             /\ Begin(h) \/ Proceed(h)
       \/ Quiet /\ Background /\ UNCHANGED calls
       \/ Quiet /\ StepsTick
    /\ settled' = IF Quiet' THEN store' ELSE settled

SerialSpec == SerialInit /\ [][SerialNext]_SerialVars

Atomic == INSTANCE Handoff WITH store <- settled

\* Served one at a time, the store calls of a request add up to the one step
\* that Handoff takes for it: the two models are of the same handlers, and
\* what HandoffSteps adds is only what interleaving and crashes add.
ImplementsHandoff == Atomic!Spec
=============================================================================
