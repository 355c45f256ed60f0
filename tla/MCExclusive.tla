---------------------------- MODULE MCExclusive ----------------------------
(***************************************************************************)
(* What is one's alone, for TLC, two instances in one run: `part` says     *)
(* which.                                                                  *)
(*                                                                         *)
(* "ledger": Handoff without retry, on two messages of which one depends   *)
(* on the other.  The endpoint is online throughout, as in MCHandoffSteps. *)
(*                                                                         *)
(* "registry": RegistrySteps, of processes that all have one endpoint ref  *)
(* in their config.                                                        *)
(***************************************************************************)
EXTENDS MCHandoff, RegistrySteps

CONSTANTS able, other, w1, w2, h1, h2

VARIABLE part

SharedRef == [w \in Workers |-> e1]
SkillSets == {{able}, {other}}
SameName == {<<c, c>> : c \in Capabilities}

LedgerInit ==
    endpoints = [e \in Endpoints |->
        [conn |-> "online", beat |-> HeartbeatTicks, names |-> {skill}]]

LedgerNext ==
    \/ /\ \/ \E m \in MessageRefs, r \in Requests : IngressMessage(m, r)
          \/ WorkerNext
          \/ OperatorNext
          \/ ReconcileExpiredClaims
       /\ UNCHANGED endpoints
    \/ store' = TickStore(store) /\ UNCHANGED endpoints

\* The server hands out attempt refs in their order.
InOrder ==
    /\ Exists(store, a2) => Exists(store, a1)
    /\ Exists(store, a3) => Exists(store, a2)

ExclusiveInit ==
    /\ part \in {"ledger", "registry"}
    /\ store = EmptyStore
    /\ IF part = "ledger" THEN LedgerInit /\ storage = "memory" ELSE RegistryInit
    /\ WorkersInit

ExclusiveNext ==
    /\ \/ /\ part = "ledger" /\ LedgerNext /\ InOrder'
          /\ UNCHANGED <<workers, requests, storage, holds, alone>>
       \/ part = "registry" /\ RegistryStepsNext /\ UNCHANGED store
    /\ UNCHANGED part

ExclusiveSpec == ExclusiveInit /\ [][ExclusiveNext]_<<part, store, registryVars>>

ExclusiveSymmetry ==
    Permutations(Workers) \cup Permutations(Handlers) \cup Permutations({able, other})
=============================================================================
