----------------------------- MODULE Governance -----------------------------
(***************************************************************************)
(* What is recorded around an attempt: artifact versions and their         *)
(* finalization, approval decisions, and side effects, which need one      *)
(* (application/artifact_service.go, artifact_finalize_service.go and      *)
(* side_effect_service.go), over the ledger of Handoff.                    *)
(*                                                                         *)
(* As in HandoffSteps each request is a chain of store calls that others   *)
(* may interleave with.  A clerk is such a request; `desk` is where it     *)
(* stands and what it read.  Ledger requests are the whole steps of        *)
(* Handoff: attempts never vanish and records here are looked up by ref.   *)
(***************************************************************************)
EXTENDS Handoff

CONSTANTS VersionRefs,    \* artifact version refs that workers choose
          ApprovalRefs,   \* approval refs that operators choose
          EffectRefs,     \* side effect refs the allocator can hand out
          Finals,         \* finalization refs the allocator can hand out
          None,           \* in place of any of these
          Keys,           \* <<idempotency_key, protected_scope>> pairs
          Hashes,         \* approval hashes
          Decisions,      \* the approval statuses that operators record
          ApprovalTicks,  \* ticks from an approval to its expiry
          Clerks          \* requests served at the same time

ApprovalStatus == {"pending", "approved", "rejected"}

ASSUME GovernanceAssumption ==
    /\ Decisions \subseteq ApprovalStatus
    /\ ApprovalTicks \in Nat
    /\ None \notin VersionRefs \cup ApprovalRefs \cup EffectRefs \cup Finals \cup Keys \cup Hashes

VARIABLES versions, finals, cites, approvals, effects, desk

records == <<versions, finals, cites, approvals, effects>>
governanceVars == <<endpoints, store, records, desk>>

ResultStatus == {"succeeded", "failed", "canceled"}
\* Ticks before expires_at; an approval without one never expires.
Never == ApprovalTicks + 1
Validity == 0..Never

Version == [saved : BOOLEAN, att : AttemptRefs \cup {NoAttempt},
            msg : MessageRefs \cup {NoMessage}, basedOn : SUBSET VersionRefs]
Approval == [status : ApprovalStatus \cup {"absent"},
             att : AttemptRefs \cup {NoAttempt},
             hash : Hashes \cup {None}, left : Validity]
Effect == [status : ResultStatus \cup {"absent", "executing"},
           att : AttemptRefs \cup {NoAttempt},
           approval : ApprovalRefs \cup {None}, hash : Hashes \cup {None}, key : Keys \cup {None}]
Desk == [pc : {"idle", "version", "decision", "start", "owner", "result", "finalize"},
         version : Version,    \* of pc "version", with its ref
         ref : VersionRefs \cup {None},
         effect : Effect,      \* of a side effect that starts or ends
         of : EffectRefs \cup {None}]

NoVersion == [saved |-> FALSE, att |-> NoAttempt, msg |-> NoMessage, basedOn |-> {}]
NoDecision == [status |-> "absent", att |-> NoAttempt,
               hash |-> None, left |-> 0]
AbsentEffect == [status |-> "absent", att |-> NoAttempt,
                 approval |-> None, hash |-> None, key |-> None]
IdleDesk == [pc |-> "idle", version |-> NoVersion, ref |-> None,
             effect |-> AbsentEffect, of |-> None]

GovernanceTypeOK ==
    /\ TypeOK
    /\ versions \in [VersionRefs -> Version]
    /\ finals \in [VersionRefs -> Finals \cup {None}]
    /\ cites \in [AttemptRefs -> SUBSET VersionRefs]
    /\ approvals \in [ApprovalRefs -> Approval]
    /\ effects \in [EffectRefs -> Effect]
    /\ desk \in [Clerks -> Desk]

RecordsInit ==
    /\ versions = [v \in VersionRefs |-> NoVersion]
    /\ finals = [v \in VersionRefs |-> None]
    /\ cites = [a \in AttemptRefs |-> {}]
    /\ approvals = [p \in ApprovalRefs |-> NoDecision]
    /\ effects = [x \in EffectRefs |-> AbsentEffect]
    /\ desk = [c \in Clerks |-> IdleDesk]

GovernanceInit == Init /\ RecordsInit

Stands(c, pc) == desk[c].pc = pc
Turn(c, d) == desk' = [desk EXCEPT ![c] = d]
Leave(c) == Turn(c, IdleDesk)
LedgerUnchanged == UNCHANGED <<endpoints, store>>

-----------------------------------------------------------------------------
(* RegisterArtifactVersion.                                                *)
BeginVersion(c, a, v, basedOn) ==
    /\ Stands(c, "idle")
    /\ Live(store, a)
    /\ \A w \in basedOn : versions[w].saved
    /\ Turn(c, [IdleDesk EXCEPT
                  !.pc = "version", !.ref = v,
                  !.version = [saved |-> TRUE, att |-> a, msg |-> store.attempts[a].msg,
                               basedOn |-> basedOn]])
    /\ LedgerUnchanged /\ UNCHANGED records

\* Mutant: a version that exists is replaced.
OverwriteArtifactVersion(c) ==
    /\ Stands(c, "version")
    /\ versions' = [versions EXCEPT ![desk[c].ref] = desk[c].version]
    /\ Leave(c)
    /\ LedgerUnchanged /\ UNCHANGED <<finals, cites, approvals, effects>>

SaveArtifactVersion(c) ==
    /\ Stands(c, "version")
    /\ versions' = [versions EXCEPT ![desk[c].ref] =
                       IF @.saved THEN @ ELSE desk[c].version]
    /\ Leave(c)
    /\ LedgerUnchanged /\ UNCHANGED <<finals, cites, approvals, effects>>

\* validateCheckpointArtifactRefs
RefsOfMessage(a, refs) ==
    \A v \in refs : versions[v].saved /\ versions[v].msg = store.attempts[a].msg

\* Mutant: any version that exists may be cited.
CiteAnyVersion(a, report, refs) ==
    /\ \A v \in refs : versions[v].saved
    /\ SubmitCheckpoint(a, report)
    /\ cites' = [cites EXCEPT ![a] = refs]
    /\ UNCHANGED <<versions, finals, approvals, effects, desk>>

\* A checkpoint that names artifact versions; cites[a] is what the latest one
\* of attempt a names, which the next owner of the message resumes from.
CheckpointWithArtifacts(a, report, refs) ==
    /\ RefsOfMessage(a, refs)
    /\ SubmitCheckpoint(a, report)
    /\ cites' = [cites EXCEPT ![a] = refs]
    /\ UNCHANGED <<versions, finals, approvals, effects, desk>>

CompleteWithArtifacts(a, follow, refs) ==
    /\ RefsOfMessage(a, refs)
    /\ CompleteAttempt(a, follow)
    /\ cites' = [cites EXCEPT ![a] = refs]
    /\ UNCHANGED <<versions, finals, approvals, effects, desk>>

ResumeArtifactRefs(m) == cites[store.messages[m].attempt]

\* FinalizeArtifact; one that is finalized already is answered with what is
\* on record.
BeginFinalize(c, v) ==
    /\ Stands(c, "idle")
    /\ versions[v].saved
    /\ finals[v] = None
    /\ Turn(c, [IdleDesk EXCEPT !.pc = "finalize", !.ref = v])
    /\ LedgerUnchanged /\ UNCHANGED records

SaveArtifactFinalization(c, f) ==
    /\ Stands(c, "finalize")
    /\ \A v \in VersionRefs : finals[v] # f
    /\ finals' = [finals EXCEPT ![desk[c].ref] = f]
    /\ Leave(c)
    /\ LedgerUnchanged /\ UNCHANGED <<versions, cites, approvals, effects>>

-----------------------------------------------------------------------------
(* RecordApprovalDecision.  The store refuses a ref that is in use, so a   *)
(* decision is never changed; the attempt may be closed by now.            *)
RecordApprovalDecision(p, a, status, hash, left) ==
    /\ Exists(store, a)
    /\ approvals[p].status = "absent"
    /\ approvals' = [approvals EXCEPT ![p] =
                        [status |-> status, att |-> a, hash |-> hash, left |-> left]]
    /\ LedgerUnchanged /\ UNCHANGED <<versions, finals, cites, effects, desk>>

-----------------------------------------------------------------------------
(* StartSideEffectExecution.                                               *)
BeginEffect(c, a, p, hash, key) ==
    /\ Stands(c, "idle")
    /\ Live(store, a)
    /\ Turn(c, [IdleDesk EXCEPT
                  !.pc = "decision",
                  !.effect = [status |-> "executing", att |-> a, approval |-> p,
                              hash |-> hash, key |-> key]])
    /\ LedgerUnchanged /\ UNCHANGED records

\* Mutant: an approval given for another attempt will do.
ApprovedAnywhere(e) ==
    LET p == approvals[e.approval] IN
    /\ p.status = "approved"
    /\ p.left > 0
    /\ p.hash = e.hash

\* requireApprovedDecision
Approved(e) ==
    LET p == approvals[e.approval] IN
    /\ p.att = e.att
    /\ p.status = "approved"
    /\ p.left > 0
    /\ p.hash = e.hash

ReadDecision(c) ==
    /\ Stands(c, "decision")
    /\ IF Approved(desk[c].effect) THEN Turn(c, [desk[c] EXCEPT !.pc = "start"])
       ELSE Leave(c)
    /\ LedgerUnchanged /\ UNCHANGED records

Executions == {x \in EffectRefs : effects[x].status # "absent"}

\* Mutant: only executions of the same attempt are compared.
DedupedWithinAttempt(e) ==
    \E x \in Executions : effects[x].key = e.key /\ effects[x].att = e.att

Deduped(e) == \E x \in Executions : effects[x].key = e.key

\* A key that was used is answered with the execution that used it.
SaveSideEffectExecution(c, x) ==
    LET e == desk[c].effect IN
    /\ Stands(c, "start")
    /\ \/ Deduped(e) /\ UNCHANGED effects
       \/ ~Deduped(e) /\ x \notin Executions /\ effects' = [effects EXCEPT ![x] = e]
    /\ Leave(c)
    /\ LedgerUnchanged /\ UNCHANGED <<versions, finals, cites, approvals>>

(* CompleteSideEffectExecution, by the endpoint that executes it.          *)
BeginResult(c, x, status) ==
    /\ Stands(c, "idle")
    /\ effects[x].status = "executing"
    /\ Turn(c, [IdleDesk EXCEPT !.pc = "owner", !.of = x,
                                !.effect = [effects[x] EXCEPT !.status = status]])
    /\ LedgerUnchanged /\ UNCHANGED records

CheckOwner(c) ==
    /\ Stands(c, "owner")
    /\ IF Live(store, desk[c].effect.att) THEN Turn(c, [desk[c] EXCEPT !.pc = "result"])
       ELSE Leave(c)
    /\ LedgerUnchanged /\ UNCHANGED records

UpdateSideEffectExecution(c) ==
    /\ Stands(c, "result")
    /\ effects' = [effects EXCEPT ![desk[c].of] = desk[c].effect]
    /\ Leave(c)
    /\ LedgerUnchanged /\ UNCHANGED <<versions, finals, cites, approvals>>

-----------------------------------------------------------------------------
ClerkNext ==
    \E c \in Clerks :
        \/ \E a \in AttemptRefs :
              \/ \E v \in VersionRefs, basedOn \in SUBSET VersionRefs :
                    BeginVersion(c, a, v, basedOn)
              \/ \E p \in ApprovalRefs, hash \in Hashes, key \in Keys :
                    BeginEffect(c, a, p, hash, key)
        \/ SaveArtifactVersion(c)
        \/ \E v \in VersionRefs : BeginFinalize(c, v)
        \/ \E f \in Finals : SaveArtifactFinalization(c, f)
        \/ ReadDecision(c)
        \/ \E x \in EffectRefs :
              \/ SaveSideEffectExecution(c, x)
              \/ \E status \in ResultStatus : BeginResult(c, x, status)
        \/ CheckOwner(c)
        \/ UpdateSideEffectExecution(c)

RecordNext ==
    \/ \E a \in AttemptRefs :
          \/ \E report \in Reports, refs \in SUBSET VersionRefs :
                CheckpointWithArtifacts(a, report, refs)
          \/ \E follow \in FollowUps, refs \in SUBSET VersionRefs :
                CompleteWithArtifacts(a, follow, refs)
          \/ \E p \in ApprovalRefs, status \in Decisions, hash \in Hashes, left \in Validity :
                RecordApprovalDecision(p, a, status, hash, left)

\* The rest of Handoff.
LedgerNext ==
    /\ \/ RegistryNext /\ UNCHANGED store
       \/ \E m \in MessageRefs, r \in Requests : IngressMessage(m, r)
       \/ \E e \in Endpoints, m \in MessageRefs, a \in AttemptRefs :
             ClaimMessage(e, m, a) \/ ClaimNextMessage(e, m, a)
       \/ \E e \in Endpoints : ClaimNothing(e)
       \/ \E a \in AttemptRefs : RefreshLease(a)
       \/ OperatorNext
       \/ ReconcileExpiredClaims
    /\ UNCHANGED <<records, desk>>

ApprovalsTick ==
    approvals' = [p \in ApprovalRefs |->
        [approvals[p] EXCEPT !.left = IF @ \in {0, Never} THEN @ ELSE @ - 1]]

GovernanceTick ==
    /\ Tick
    /\ ApprovalsTick
    /\ UNCHANGED <<versions, finals, cites, effects, desk>>

GovernanceNext == ClerkNext \/ RecordNext \/ LedgerNext \/ GovernanceTick

GovernanceSpec == GovernanceInit /\ [][GovernanceNext]_governanceVars

-----------------------------------------------------------------------------
(* Safety, for requests interleaved in any way.                            *)

\* A side effect is on record only with an approval of it: decided approved,
\* for the very attempt that executes it, and for the hash it names.
EffectIsAuthorised ==
    \A x \in Executions :
        LET p == approvals[effects[x].approval]
        IN  /\ p.status = "approved"
            /\ p.att = effects[x].att
            /\ p.hash = effects[x].hash

\* A side effect is executed once for a key, whichever attempt, worker or
\* retry asks for it again.
OneExecutionPerKey ==
    \A x, y \in Executions : effects[x].key = effects[y].key => x = y

\* Lineage is well-founded: in any set of versions some version is based on
\* none of the others, so no version is its own ancestor, and every ancestor
\* is on record.
LineageIsGrounded ==
    LET saved == {v \in VersionRefs : versions[v].saved} IN
    /\ \A v \in saved : versions[v].basedOn \subseteq saved
    /\ \A some \in SUBSET saved :
          some # {} => \E v \in some : versions[v].basedOn \cap some = {}

\* The artifacts that a takeover hands to the next owner are on record, and
\* were made for that message.
ResumedArtifactsAreOfMessage ==
    \A m \in MessageRefs :
        store.messages[m].attempt # NoAttempt =>
            \A v \in ResumeArtifactRefs(m) : versions[v].saved /\ versions[v].msg = m
=============================================================================
