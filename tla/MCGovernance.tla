---------------------------- MODULE MCGovernance ----------------------------
(***************************************************************************)
(* Instances of Governance for TLC, two in one run: `part` says which.     *)
(* Artifacts are on two messages; approvals, which age, and side effects   *)
(* on one.  The endpoint is online throughout, as in MCHandoffSteps; of    *)
(* the ledger's requests those stay that give, take and end attempts.      *)
(***************************************************************************)
EXTENDS Governance, TLC

CONSTANTS e1, skill, t1, a1, a2, r1, r2, x1, x2, f1, k1, yes, no, c1, c2

PlainRequests ==
    {[capability |-> skill, target |-> NoEndpoint, preferred |-> NoEndpoint,
      dependsOn |-> {}, task |-> t1]}
MCCovers == {<<skill, skill>>}
MCCapabilitySets == {{skill}}

VARIABLE part

PartsInit ==
    /\ part \in {"artifacts", "effects"}
    /\ RecordsInit
    /\ store = EmptyStore
    /\ endpoints = [e \in Endpoints |->
           [conn |-> "online", beat |-> HeartbeatTicks, names |-> Capabilities]]

SteadyTick ==
    /\ store' = TickStore(store)
    /\ ApprovalsTick
    /\ UNCHANGED <<endpoints, versions, finals, cites, effects, desk>>

\* What the other part leaves alone.
Apart ==
    IF part = "artifacts"
    THEN approvals' = approvals /\ \A c \in Clerks : desk'[c].effect = AbsentEffect
    ELSE cites' = cites /\ \A c \in Clerks : desk'[c].ref = None

\* A rejection that expires is one that does not; the refs that a checkpoint
\* cites are checked one by one; the one finalization, which no other request
\* looks at, comes when the versions are there.
Simpler ==
    /\ \A a \in AttemptRefs : Cardinality(cites'[a]) <= 1
    /\ \A p \in ApprovalRefs : approvals'[p].status = "rejected" => approvals'[p].left = Never
    /\ \A c \in Clerks :
          desk'[c].pc = "finalize" =>
              /\ \A v \in VersionRefs : versions'[v].saved
              /\ \A d \in Clerks \ {c} : desk'[d] = IdleDesk

\* Refs that the server allocates are alike: it hands out the first one first.
InOrder ==
    /\ Exists(store, a2) => Exists(store, a1)
    /\ effects[x2] # AbsentEffect => effects[x1] # AbsentEffect

PartsNext ==
    /\ \/ ClerkNext
       \/ RecordNext
       \/ /\ \/ \E m \in MessageRefs, r \in Requests :
                   IngressMessage(m, r) /\ (part = "artifacts" \/ m = 1)
             \/ \E e \in Endpoints, m \in MessageRefs, a \in AttemptRefs :
                   ClaimNextMessage(e, m, a)
             \/ ReconcileExpiredClaims
          /\ UNCHANGED <<records, desk>>
       \/ SteadyTick
    /\ Apart
    /\ Simpler
    /\ InOrder'
    /\ UNCHANGED part

PartsSpec == PartsInit /\ [][PartsNext]_<<governanceVars, part>>

GovernanceSymmetry ==
    Permutations(Clerks) \cup Permutations(VersionRefs) \cup Permutations(Hashes)
=============================================================================
