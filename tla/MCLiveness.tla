---------------------------- MODULE MCLiveness ----------------------------
(***************************************************************************)
(* What must happen eventually, for TLC: of a message in the ledger of     *)
(* Handoff, whose workers poll again because executions end, and of an     *)
(* execution (Execution), which ends.  A behaviour is about one of them,   *)
(* its part.                                                               *)
(***************************************************************************)
EXTENDS MCHandoff, Execution

VARIABLE part

LivenessInit == part \in {"ledger", "execution"} /\ Init /\ ExecutionInit

LivenessNext ==
    /\ UNCHANGED part
    /\ \/ part = "ledger" /\ Next /\ UNCHANGED executionVars
       \/ part = "execution" /\ ExecutionNext /\ UNCHANGED vars

\* Nothing happens to the ledger, nor has to, in a behaviour about an execution.
OnLedger(Action) == part = "ledger" /\ Action

LivenessSpec ==
    /\ LivenessInit
    /\ [][LivenessNext]_<<part, vars, executionVars>>
    /\ WF_vars(OnLedger(Tick)) /\ WF_vars(OnLedger(ReconcileExpiredClaims))
    /\ \A e \in Endpoints :
          /\ WF_vars(OnLedger(ComesOnline(e))) /\ WF_vars(OnLedger(Beats(e)))
          /\ SF_vars(OnLedger(Polls(e)))
    /\ ExecutionFairness
=============================================================================
