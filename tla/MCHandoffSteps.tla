--------------------------- MODULE MCHandoffSteps ---------------------------
(***************************************************************************)
(* Instances of HandoffSteps for TLC, two in one run: `part` says which.   *)
(*                                                                         *)
(* "overlap": any requests at once and crashes, on one message.  Once its  *)
(* endpoint has registered it stays online, as that of a worker that       *)
(* heartbeats in time does.  With one endpoint and no preferences the      *)
(* registry only refuses requests, so a steady one allows every ledger the *)
(* other does.                                                             *)
(*                                                                         *)
(* "serial": HandoffSerial, every request on its own, on two messages.     *)
(***************************************************************************)
EXTENDS HandoffSerial, FiniteSets, TLC

CONSTANTS e1, skill, t1, a1, a2, h1, h2

VARIABLE part

Ask(depends) ==
    [capability |-> skill, target |-> NoEndpoint, preferred |-> NoEndpoint,
     dependsOn |-> depends, task |-> t1]

MCCovers == {<<skill, skill>>}
MCCapabilitySets == {{skill}}
ChainRequests == {Ask({}), Ask({1})}

\* What the overlapping requests leave to the serial ones.
Plain(call) == call.left = 0 /\ call.report # "in_progress" /\ call.pc # "reconcile"

Registered == \A e \in Endpoints : IsRegistered(e)

\* Bound: one operator at a time.
ByOperator(call) == call.pc \in {"cancel", "cancel_read", "cancel_attempt", "retry"}
OneOperator == Cardinality({h \in Handlers : ByOperator(calls[h])}) <= 1

OverlapNext ==
    \/ Registered /\ \E h \in Handlers :
          \/ Begin(h) /\ Plain(calls'[h]) /\ OneOperator'
          \/ Proceed(h)
    \/ /\ \/ Registered /\ IngressMessage(1, Ask({}))
          \/ ReconcileExpiredClaims
          \/ ~Registered /\ RegistryNext /\ UNCHANGED store
       /\ UNCHANGED calls
    \/ store' = TickStore(store) /\ CopiesTick /\ UNCHANGED endpoints
    \/ Crash

PartsInit == SerialInit /\ part \in {"overlap", "serial"}

PartsNext ==
    /\ \/ part = "overlap" /\ OverlapNext /\ UNCHANGED settled
       \/ part = "serial" /\ SerialNext
    /\ UNCHANGED part

PartsSpec == PartsInit /\ [][PartsNext]_<<SerialVars, part>>

StepsSymmetry == Permutations(AttemptRefs) \cup Permutations(Handlers)
=============================================================================
