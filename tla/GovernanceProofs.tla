-------------------------- MODULE GovernanceProofs --------------------------
(***************************************************************************)
(* What is recorded around an attempt stays true to it, however the        *)
(* requests that record it interleave (Governance).                        *)
(*                                                                         *)
(* A clerk checks, and writes later: by then other clerks have written.    *)
(* DeskSound says what of its check still holds when it writes.  A version *)
(* on record is never replaced, so what a new one is based on is still     *)
(* there; a decision never changes but for its age, so what was approved   *)
(* stays decided so (though it may have expired); an execution keeps its   *)
(* attempt, approval and key.  The ledger's own steps are steps of         *)
(* Handoff, so HandoffProofs is what an attempt's message rests on.        *)
(***************************************************************************)
EXTENDS Governance, HandoffProofs

SavedIn(V) == {v \in VersionRefs : V[v].saved}
OnRecord(E) == {x \in EffectRefs : E[x].status # "absent"}

Grounded(V) ==
    /\ \A v \in SavedIn(V) : V[v].basedOn \subseteq SavedIn(V)
    /\ \A some \in SUBSET SavedIn(V) :
          some # {} => \E v \in some : V[v].basedOn \cap some = {}

\* What an attempt cites is of its message; one not yet made cites nothing.
CitesSound(V, S, C) ==
    \A a \in AttemptRefs :
        /\ Exists(S, a) \/ C[a] = {}
        /\ \A v \in C[a] : V[v].saved /\ V[v].msg = S.attempts[a].msg

Authorises(A, e) ==
    /\ e.approval \in ApprovalRefs
    /\ A[e.approval].status = "approved"
    /\ A[e.approval].att = e.att
    /\ A[e.approval].hash = e.hash

EffectsSound(A, E) ==
    /\ \A x \in OnRecord(E) : Authorises(A, E[x])
    /\ \A x, y \in OnRecord(E) : E[x].key = E[y].key => x = y

SameEffect(e, f) ==
    e.att = f.att /\ e.approval = f.approval /\ e.hash = f.hash /\ e.key = f.key

\* What the request at a desk may rely on, by the place it has come to.
DeskSound(V, A, E, d) ==
    /\ d.pc = "version" =>
          /\ d.ref \in VersionRefs /\ d.version.saved
          /\ d.version.basedOn \subseteq SavedIn(V)
    /\ d.pc \in {"decision", "start"} =>
          d.effect.approval \in ApprovalRefs /\ d.effect.status # "absent"
    /\ d.pc = "start" => Authorises(A, d.effect)
    /\ d.pc \in {"owner", "result"} =>
          d.of \in OnRecord(E) /\ SameEffect(d.effect, E[d.of]) /\ d.effect.status # "absent"

GovernanceInv ==
    /\ Inv
    /\ GovernanceTypeOK
    /\ Grounded(versions)
    /\ CitesSound(versions, store, cites)
    /\ EffectsSound(approvals, effects)
    /\ \A c \in Clerks : DeskSound(versions, approvals, effects, desk[c])

-----------------------------------------------------------------------------
(* What is on record only grows.                                           *)

VersionsKept(V, W) == \A v \in VersionRefs : V[v].saved => W[v] = V[v]
DecisionsKept(A, B) ==
    \A p \in ApprovalRefs :
        A[p].status # "absent" =>
            B[p].status = A[p].status /\ B[p].att = A[p].att /\ B[p].hash = A[p].hash
EffectsKept(E, F) ==
    \A x \in OnRecord(E) : x \in OnRecord(F) /\ SameEffect(F[x], E[x])

\* An effect that is authorised stays so, whatever is decided later.
LEMMA AuthorityStays ==
    ASSUME NEW A, NEW B, DecisionsKept(A, B), NEW e, Authorises(A, e)
    PROVE  Authorises(B, e)
BY DEF DecisionsKept, Authorises

\* What a request relies on stays true while others write.
LEMMA DeskStays ==
    ASSUME NEW V, NEW W, VersionsKept(V, W), NEW A, NEW B, DecisionsKept(A, B),
           NEW E, NEW F, EffectsKept(E, F), NEW d, DeskSound(V, A, E, d)
    PROVE  DeskSound(W, B, F, d)
<1>1. SavedIn(V) \subseteq SavedIn(W)
  BY DEF SavedIn, VersionsKept
<1>2. d.pc = "start" => Authorises(B, d.effect)
  BY AuthorityStays DEF DeskSound
<1>3. d.pc \in {"owner", "result"} =>
        d.of \in OnRecord(F) /\ SameEffect(d.effect, F[d.of]) /\ d.effect.status # "absent"
  BY DEF DeskSound, EffectsKept, SameEffect
<1> QED BY <1>1, <1>2, <1>3 DEF DeskSound

\* Authorised effects with keys of their own stay that while others decide.
LEMMA EffectsStay ==
    ASSUME NEW A, NEW B, DecisionsKept(A, B), NEW E, EffectsSound(A, E)
    PROVE  EffectsSound(B, E)
BY AuthorityStays DEF EffectsSound

\* What an attempt cites stays, as the ledger and the versions grow.
LEMMA CitesStay ==
    ASSUME NEW V, NEW W, VersionsKept(V, W), NEW S, NEW T, Grows(S, T),
           NEW C \in [AttemptRefs -> SUBSET VersionRefs], CitesSound(V, S, C)
    PROVE  CitesSound(W, T, C)
<1> SUFFICES ASSUME NEW a \in AttemptRefs
             PROVE  /\ Exists(T, a) \/ C[a] = {}
                    /\ \A v \in C[a] : W[v].saved /\ W[v].msg = T.attempts[a].msg
  BY DEF CitesSound
<1>1. CASE Exists(S, a)
  <2>1. Exists(T, a) /\ T.attempts[a].msg = S.attempts[a].msg
    BY <1>1 DEF Grows
  <2>2. \A v \in C[a] : V[v].saved /\ V[v].msg = S.attempts[a].msg /\ W[v] = V[v]
    BY DEF CitesSound, VersionsKept
  <2> QED BY <2>1, <2>2
<1>2. CASE ~Exists(S, a)
  BY <1>2 DEF CitesSound
<1> QED BY <1>1, <1>2

\* A new version, based on versions on record, leaves lineage grounded: in a
\* set with others, one of those others is based on none of them, nor on the
\* new one, which it is older than.
LEMMA NewVersionGrounded ==
    ASSUME NEW V \in [VersionRefs -> Version], Grounded(V), NEW v \in VersionRefs,
           ~V[v].saved, NEW new \in Version, new.saved, new.basedOn \subseteq SavedIn(V)
    PROVE  Grounded([V EXCEPT ![v] = new]) /\ VersionsKept(V, [V EXCEPT ![v] = new])
<1> DEFINE W == [V EXCEPT ![v] = new]
<1>1. W[v] = new /\ \A w \in VersionRefs : w # v => W[w] = V[w]
  OBVIOUS
<1> HIDE DEF W
<1>2. SavedIn(W) = SavedIn(V) \cup {v} /\ v \notin SavedIn(V)
  BY <1>1 DEF SavedIn
<1>3. \A w \in SavedIn(W) : W[w].basedOn \subseteq SavedIn(V)
  BY <1>1, <1>2 DEF Grounded, SavedIn
<1>4. ASSUME NEW some \in SUBSET SavedIn(W), some # {}
      PROVE  \E w \in some : W[w].basedOn \cap some = {}
  <2>1. CASE some = {v}
    BY <1>2, <1>3, <2>1
  <2>2. CASE some # {v}
    <3>1. some \ {v} \in SUBSET SavedIn(V) /\ some \ {v} # {}
      BY <1>2, <1>4, <2>2
    <3>2. PICK w \in some \ {v} : V[w].basedOn \cap (some \ {v}) = {}
      BY <3>1 DEF Grounded
    <3>3. w \in SavedIn(V) /\ w \in VersionRefs /\ w # v
      BY <3>1 DEF SavedIn
    <3>4. W[w].basedOn = V[w].basedOn /\ v \notin V[w].basedOn
      BY <1>1, <1>2, <3>3 DEF Grounded
    <3> QED BY <3>2, <3>3, <3>4
  <2> QED BY <2>1, <2>2
<1>5. Grounded(W)
  BY <1>2, <1>3, <1>4 DEF Grounded
<1>6. VersionsKept(V, W)
  BY <1>1 DEF VersionsKept
<1> QED BY <1>5, <1>6 DEF W

-----------------------------------------------------------------------------
(* The steps of a request at a desk.                                       *)

\* A clerk writes what it may, and what the other desks rely on stays.
LEMMA ClerkStep ==
    ASSUME GovernanceInv, LedgerUnchanged, cites' = cites, approvals' = approvals,
           versions' \in [VersionRefs -> Version], VersionsKept(versions, versions'),
           Grounded(versions'), finals' \in [VersionRefs -> Finals \cup {None}],
           effects' \in [EffectRefs -> Effect], EffectsKept(effects, effects'),
           EffectsSound(approvals, effects'),
           NEW c \in Clerks, NEW d \in Desk, DeskSound(versions', approvals, effects', d),
           Turn(c, d)
    PROVE  GovernanceInv'
<1>1. store' = store /\ endpoints' = endpoints /\ Inv
  BY DEF LedgerUnchanged, GovernanceInv
<1>2. Inv' /\ TypeOK'
  BY <1>1 DEF Inv, TypeOK, RegistryTypeOK
<1>3. desk \in [Clerks -> Desk] /\ desk' = [desk EXCEPT ![c] = d]
  BY DEF GovernanceInv, GovernanceTypeOK, Turn
<1>4. desk' \in [Clerks -> Desk]
  BY <1>3
<1>5. DecisionsKept(approvals, approvals)
  BY DEF DecisionsKept
<1>6. ASSUME NEW b \in Clerks
      PROVE  DeskSound(versions', approvals', effects', desk'[b])
  <2>1. CASE b = c
    BY <1>3, <2>1
  <2>2. CASE b # c
    <3>1. desk'[b] = desk[b] /\ DeskSound(versions, approvals, effects, desk[b])
      BY <1>3, <2>2 DEF GovernanceInv
    <3> QED BY <1>5, <3>1, DeskStays
  <2> QED BY <2>1, <2>2
<1>7. Grows(store, store')
  BY <1>1 DEF Grows
<1>8. CitesSound(versions', store', cites')
  BY <1>7, CitesStay DEF GovernanceInv, GovernanceTypeOK
<1>9. GovernanceTypeOK'
  BY <1>2, <1>4 DEF GovernanceInv, GovernanceTypeOK
<1> QED BY <1>2, <1>6, <1>8, <1>9 DEF GovernanceInv

\* A step of a request that only reads.
LEMMA ClerkReads ==
    ASSUME GovernanceInv, LedgerUnchanged, UNCHANGED records,
           NEW c \in Clerks, NEW d \in Desk, DeskSound(versions, approvals, effects, d),
           Turn(c, d)
    PROVE  GovernanceInv'
<1>1. /\ versions' = versions /\ finals' = finals /\ cites' = cites
      /\ approvals' = approvals /\ effects' = effects
  BY DEF records
<1>2. VersionsKept(versions, versions) /\ EffectsKept(effects, effects)
  BY DEF VersionsKept, EffectsKept, SameEffect
<1> QED BY <1>1, <1>2, ClerkStep DEF GovernanceInv, GovernanceTypeOK

\* An idle desk holds nothing.
LEMMA IdleDeskParts ==
    /\ IdleDesk \in Desk /\ IdleDesk.pc = "idle"
    /\ NoVersion \in Version /\ AbsentEffect \in Effect
<1>1. NoVersion \in Version /\ AbsentEffect \in Effect
  BY DEF NoVersion, Version, AbsentEffect, Effect
<1> HIDE DEF NoVersion, AbsentEffect
<1> QED BY <1>1 DEF IdleDesk, Desk

\* So it relies on nothing.
LEMMA IdleDeskSound ==
    ASSUME NEW V, NEW A, NEW E PROVE DeskSound(V, A, E, IdleDesk)
BY IdleDeskParts DEF DeskSound

\* What the invariant says of the records and of one desk.
LEMMA DeskOf ==
    ASSUME GovernanceInv, NEW c \in Clerks
    PROVE  /\ desk[c] \in Desk /\ DeskSound(versions, approvals, effects, desk[c])
           /\ versions \in [VersionRefs -> Version] /\ Grounded(versions)
           /\ finals \in [VersionRefs -> Finals \cup {None}]
           /\ effects \in [EffectRefs -> Effect] /\ EffectsSound(approvals, effects)
           /\ store \in Store /\ Sound(store)
BY DEF GovernanceInv, GovernanceTypeOK, Inv, TypeOK

\* A version is registered for a live attempt, on versions that are on record.
LEMMA BeginVersionSound ==
    ASSUME GovernanceInv, NEW c \in Clerks, NEW a \in AttemptRefs, NEW v \in VersionRefs,
           NEW basedOn \in SUBSET VersionRefs, BeginVersion(c, a, v, basedOn)
    PROVE  GovernanceInv'
<1> DEFINE new == [saved |-> TRUE, att |-> a, msg |-> store.attempts[a].msg,
                   basedOn |-> basedOn]
           d == [IdleDesk EXCEPT !.pc = "version", !.ref = v, !.version = new]
<1>1. store.attempts[a].msg \in MessageRefs \cup {NoMessage}
  BY DeskOf, StoreParts DEF Attempt
<1>2. new \in Version /\ new.saved /\ new.basedOn = basedOn
  BY <1>1 DEF Version
<1>3. basedOn \subseteq SavedIn(versions)
  BY DEF BeginVersion, SavedIn
<1>4. LedgerUnchanged /\ UNCHANGED records /\ Turn(c, d)
  BY DEF BeginVersion
<1> HIDE DEF new
<1>5. d \in Desk /\ d.pc = "version" /\ d.ref = v /\ d.version = new
  BY <1>2, IdleDeskParts DEF Desk
<1> HIDE DEF d
<1>6. DeskSound(versions, approvals, effects, d)
  BY <1>2, <1>3, <1>5 DEF DeskSound
<1> QED BY <1>4, <1>5, <1>6, ClerkReads

\* It is saved unless its ref is in use by now.
LEMMA SaveArtifactVersionSound ==
    ASSUME GovernanceInv, NEW c \in Clerks, SaveArtifactVersion(c)
    PROVE  GovernanceInv'
<1> DEFINE v == desk[c].ref
           new == desk[c].version
<1>1. /\ v \in VersionRefs /\ new \in Version /\ new.saved
      /\ new.basedOn \subseteq SavedIn(versions)
      /\ versions \in [VersionRefs -> Version] /\ Grounded(versions)
  BY DeskOf DEF SaveArtifactVersion, Stands, DeskSound, Desk
<1>2. /\ versions' = [versions EXCEPT ![v] = IF versions[v].saved THEN versions[v] ELSE new]
      /\ Turn(c, IdleDesk) /\ LedgerUnchanged
      /\ UNCHANGED <<finals, cites, approvals, effects>>
  BY DEF SaveArtifactVersion, Leave
<1> HIDE DEF v, new
<1>3. /\ versions' \in [VersionRefs -> Version] /\ Grounded(versions')
      /\ VersionsKept(versions, versions')
  <2>1. CASE versions[v].saved
    <3>1. versions' = versions
      BY <1>1, <1>2, <2>1
    <3> QED BY <1>1, <3>1 DEF VersionsKept
  <2>2. CASE ~versions[v].saved
    <3>1. versions' = [versions EXCEPT ![v] = new]
      BY <1>2, <2>2
    <3> QED BY <1>1, <2>2, <3>1, NewVersionGrounded
  <2> QED BY <2>1, <2>2
<1>4. EffectsKept(effects, effects)
  BY DEF EffectsKept, SameEffect
<1> QED BY <1>2, <1>3, <1>4, DeskOf, IdleDeskParts, IdleDeskSound, ClerkStep

\* A finalization is of a version on record, and says nothing about others.
LEMMA FinalizeSound ==
    ASSUME GovernanceInv, NEW c \in Clerks,
           \/ \E v \in VersionRefs : BeginFinalize(c, v)
           \/ \E f \in Finals : SaveArtifactFinalization(c, f)
    PROVE  GovernanceInv'
<1>1. ASSUME NEW v \in VersionRefs, BeginFinalize(c, v)
      PROVE  GovernanceInv'
  <2> DEFINE d == [IdleDesk EXCEPT !.pc = "finalize", !.ref = v]
  <2>1. LedgerUnchanged /\ UNCHANGED records /\ Turn(c, d)
    BY <1>1 DEF BeginFinalize
  <2>2. d \in Desk /\ d.pc = "finalize"
    BY IdleDeskParts DEF Desk
  <2> HIDE DEF d
  <2>3. DeskSound(versions, approvals, effects, d)
    BY <2>2 DEF DeskSound
  <2> QED BY <2>1, <2>2, <2>3, ClerkReads
<1>2. ASSUME NEW f \in Finals, SaveArtifactFinalization(c, f)
      PROVE  GovernanceInv'
  <2>1. /\ finals' = [finals EXCEPT ![desk[c].ref] = f]
        /\ Turn(c, IdleDesk) /\ LedgerUnchanged
        /\ UNCHANGED <<versions, cites, approvals, effects>>
    BY <1>2 DEF SaveArtifactFinalization, Leave
  <2>2. finals' \in [VersionRefs -> Finals \cup {None}]
    BY <2>1, DeskOf
  <2>3. VersionsKept(versions, versions) /\ EffectsKept(effects, effects)
    BY DEF VersionsKept, EffectsKept, SameEffect
  <2> QED BY <2>1, <2>2, <2>3, DeskOf, IdleDeskParts, IdleDeskSound, ClerkStep
<1> QED BY <1>1, <1>2

\* A side effect names the approval it needs,
LEMMA BeginEffectSound ==
    ASSUME GovernanceInv, NEW c \in Clerks, NEW a \in AttemptRefs, NEW p \in ApprovalRefs,
           NEW hash \in Hashes, NEW key \in Keys, BeginEffect(c, a, p, hash, key)
    PROVE  GovernanceInv'
<1> DEFINE e == [status |-> "executing", att |-> a, approval |-> p, hash |-> hash, key |-> key]
           d == [IdleDesk EXCEPT !.pc = "decision", !.effect = e]
<1>1. e \in Effect /\ e.approval = p /\ e.status = "executing"
  BY DEF Effect
<1>2. LedgerUnchanged /\ UNCHANGED records /\ Turn(c, d)
  BY DEF BeginEffect
<1> HIDE DEF e
<1>3. d \in Desk /\ d.pc = "decision" /\ d.effect = e
  BY <1>1, IdleDeskParts DEF Desk
<1> HIDE DEF d
<1>4. DeskSound(versions, approvals, effects, d)
  BY <1>1, <1>3 DEF DeskSound
<1> QED BY <1>2, <1>3, <1>4, ClerkReads

\* goes on if that was given,
LEMMA ReadDecisionSound ==
    ASSUME GovernanceInv, NEW c \in Clerks, ReadDecision(c)
    PROVE  GovernanceInv'
<1> DEFINE old == desk[c]
           d == [old EXCEPT !.pc = "start"]
<1>1. old \in Desk /\ DeskSound(versions, approvals, effects, old) /\ old.pc = "decision"
  BY DeskOf DEF ReadDecision, Stands
<1>2. /\ LedgerUnchanged /\ UNCHANGED records
      /\ Turn(c, IdleDesk) \/ (Approved(old.effect) /\ Turn(c, d))
  BY DEF ReadDecision, Leave
<1> HIDE DEF old
<1>3. d \in Desk /\ d.pc = "start" /\ d.effect = old.effect
  BY <1>1 DEF Desk
<1> HIDE DEF d
<1>4. Approved(old.effect) => DeskSound(versions, approvals, effects, d)
  BY <1>1, <1>3 DEF DeskSound, Approved, Authorises
<1> QED BY <1>2, <1>3, <1>4, IdleDeskParts, IdleDeskSound, ClerkReads

\* and is put on record unless its key was used by now.
LEMMA SaveSideEffectExecutionSound ==
    ASSUME GovernanceInv, NEW c \in Clerks, NEW x \in EffectRefs,
           SaveSideEffectExecution(c, x)
    PROVE  GovernanceInv'
<1> DEFINE e == desk[c].effect
<1>1. /\ e \in Effect /\ e.status # "absent" /\ Authorises(approvals, e)
      /\ effects \in [EffectRefs -> Effect] /\ EffectsSound(approvals, effects)
  BY DeskOf DEF SaveSideEffectExecution, Stands, DeskSound, Desk
<1>2. /\ Turn(c, IdleDesk) /\ LedgerUnchanged
      /\ UNCHANGED <<versions, finals, cites, approvals>>
  BY DEF SaveSideEffectExecution, Leave
<1>3. /\ effects' \in [EffectRefs -> Effect] /\ EffectsKept(effects, effects')
      /\ EffectsSound(approvals, effects')
  <2>1. CASE effects' = effects
    BY <1>1, <2>1 DEF EffectsKept, SameEffect
  <2>2. CASE ~Deduped(e) /\ x \notin Executions /\ effects' = [effects EXCEPT ![x] = e]
    <3>1. /\ x \notin OnRecord(effects)
          /\ \A y \in OnRecord(effects) : effects[y].key # e.key
      BY <2>2 DEF Deduped, Executions, OnRecord
    <3>2. effects'[x] = e /\ \A y \in EffectRefs : y # x => effects'[y] = effects[y]
      BY <1>1, <2>2
    <3>3. effects' \in [EffectRefs -> Effect]
      BY <1>1, <2>2
    <3> HIDE DEF e
    <3>4. OnRecord(effects') = OnRecord(effects) \cup {x}
      BY <1>1, <3>2 DEF OnRecord
    <3>5. EffectsSound(approvals, effects')
      BY <1>1, <3>1, <3>2, <3>4 DEF EffectsSound, OnRecord
    <3>6. EffectsKept(effects, effects')
      BY <3>1, <3>2, <3>4 DEF EffectsKept, SameEffect, OnRecord
    <3> QED BY <3>3, <3>5, <3>6
  <2> QED BY <2>1, <2>2 DEF SaveSideEffectExecution
<1>4. VersionsKept(versions, versions)
  BY DEF VersionsKept
<1> QED BY <1>2, <1>3, <1>4, DeskOf, IdleDeskParts, IdleDeskSound, ClerkStep

\* A result is of an execution on record,
LEMMA BeginResultSound ==
    ASSUME GovernanceInv, NEW c \in Clerks, NEW x \in EffectRefs,
           NEW status \in ResultStatus, BeginResult(c, x, status)
    PROVE  GovernanceInv'
<1> DEFINE old == effects[x]
           e == [old EXCEPT !.status = status]
           d == [IdleDesk EXCEPT !.pc = "owner", !.of = x, !.effect = e]
<1>1. old \in Effect /\ x \in OnRecord(effects)
  BY DeskOf DEF BeginResult, OnRecord
<1>2. LedgerUnchanged /\ UNCHANGED records /\ Turn(c, d)
  BY DEF BeginResult
<1>3. SameEffect(old, effects[x])
  BY DEF SameEffect
<1> HIDE DEF old
<1>4. e \in Effect /\ e.status # "absent" /\ SameEffect(e, old)
  BY <1>1 DEF Effect, ResultStatus, SameEffect
<1> HIDE DEF e
<1>5. d \in Desk /\ d.pc = "owner" /\ d.of = x /\ d.effect = e
  BY <1>4, IdleDeskParts DEF Desk
<1> HIDE DEF d
<1>6. DeskSound(versions, approvals, effects, d)
  BY <1>1, <1>3, <1>4, <1>5 DEF DeskSound, SameEffect
<1> QED BY <1>2, <1>5, <1>6, ClerkReads

\* by the endpoint that executes it,
LEMMA CheckOwnerSound ==
    ASSUME GovernanceInv, NEW c \in Clerks, CheckOwner(c)
    PROVE  GovernanceInv'
<1> DEFINE old == desk[c]
           d == [old EXCEPT !.pc = "result"]
<1>1. old \in Desk /\ DeskSound(versions, approvals, effects, old) /\ old.pc = "owner"
  BY DeskOf DEF CheckOwner, Stands
<1>2. /\ LedgerUnchanged /\ UNCHANGED records
      /\ Turn(c, IdleDesk) \/ Turn(c, d)
  BY DEF CheckOwner, Leave
<1> HIDE DEF old
<1>3. d \in Desk /\ d.pc = "result" /\ d.effect = old.effect /\ d.of = old.of
  BY <1>1 DEF Desk
<1> HIDE DEF d
<1>4. DeskSound(versions, approvals, effects, d)
  BY <1>1, <1>3 DEF DeskSound
<1> QED BY <1>2, <1>3, <1>4, IdleDeskParts, IdleDeskSound, ClerkReads

\* and leaves it the attempt, the approval and the key it has.
LEMMA UpdateSideEffectExecutionSound ==
    ASSUME GovernanceInv, NEW c \in Clerks, UpdateSideEffectExecution(c)
    PROVE  GovernanceInv'
<1> DEFINE e == desk[c].effect
           x == desk[c].of
<1>1. /\ e \in Effect /\ e.status # "absent" /\ x \in OnRecord(effects)
      /\ SameEffect(e, effects[x]) /\ x \in EffectRefs
      /\ effects \in [EffectRefs -> Effect] /\ EffectsSound(approvals, effects)
  BY DeskOf DEF UpdateSideEffectExecution, Stands, DeskSound, Desk, OnRecord
<1>2. /\ Turn(c, IdleDesk) /\ LedgerUnchanged
      /\ effects' = [effects EXCEPT ![x] = e]
      /\ UNCHANGED <<versions, finals, cites, approvals>>
  BY DEF UpdateSideEffectExecution, Leave
<1>3. effects'[x] = e /\ \A y \in EffectRefs : y # x => effects'[y] = effects[y]
  BY <1>1, <1>2
<1>4. effects' \in [EffectRefs -> Effect]
  BY <1>1, <1>2
<1> HIDE DEF e, x
<1>5. OnRecord(effects') = OnRecord(effects)
  BY <1>1, <1>3 DEF OnRecord
<1>6. \A y \in OnRecord(effects) : SameEffect(effects'[y], effects[y])
  BY <1>1, <1>3 DEF SameEffect, OnRecord
<1>7. EffectsKept(effects, effects') /\ EffectsSound(approvals, effects')
  BY <1>1, <1>5, <1>6 DEF EffectsKept, EffectsSound, Authorises, SameEffect
<1>8. VersionsKept(versions, versions)
  BY DEF VersionsKept
<1> QED BY <1>2, <1>4, <1>7, <1>8, DeskOf, IdleDeskParts, IdleDeskSound, ClerkStep

-----------------------------------------------------------------------------
(* The steps that need no desk.                                            *)

\* The ledger of Governance is that of Handoff: no step of it is another.
LEMMA LedgerSteps == GovernanceNext => [Next]_vars
<1> SUFFICES ASSUME GovernanceNext PROVE [Next]_vars
  OBVIOUS
<1>1. CASE LedgerUnchanged
  BY <1>1 DEF LedgerUnchanged, vars
<1>2. CASE ClerkNext
  BY <1>1, <1>2 DEF ClerkNext, BeginVersion, SaveArtifactVersion, BeginFinalize,
     SaveArtifactFinalization, BeginEffect, ReadDecision, SaveSideEffectExecution,
     BeginResult, CheckOwner, UpdateSideEffectExecution
<1>3. CASE RecordNext
  BY <1>1, <1>3 DEF RecordNext, CheckpointWithArtifacts, CompleteWithArtifacts,
     RecordApprovalDecision, Next, WorkerNext
<1>4. CASE LedgerNext
  BY <1>4 DEF LedgerNext, Next, WorkerNext
<1>5. CASE GovernanceTick
  BY <1>5 DEF GovernanceTick, Next
<1> QED BY <1>2, <1>3, <1>4, <1>5 DEF GovernanceNext

\* A step that leaves the desks and the versions and effects alone keeps what
\* they rely on, if it keeps the decisions and what attempts cite.
LEMMA RecordsStep ==
    ASSUME GovernanceInv, [Next]_vars, UNCHANGED <<versions, finals, effects, desk>>,
           approvals' \in [ApprovalRefs -> Approval], DecisionsKept(approvals, approvals'),
           cites' \in [AttemptRefs -> SUBSET VersionRefs],
           CitesSound(versions, store', cites')
    PROVE  GovernanceInv'
<1>1. Inv' /\ TypeOK'
  BY NextInv DEF GovernanceInv, Inv
<1>2. VersionsKept(versions, versions) /\ EffectsKept(effects, effects)
  BY DEF VersionsKept, EffectsKept, SameEffect
<1>3. EffectsSound(approvals', effects)
  BY EffectsStay DEF GovernanceInv
<1>4. \A c \in Clerks : DeskSound(versions, approvals', effects, desk[c])
  BY <1>2, DeskStays DEF GovernanceInv
<1>5. GovernanceTypeOK'
  BY <1>1 DEF GovernanceInv, GovernanceTypeOK
<1> QED BY <1>1, <1>3, <1>4, <1>5 DEF GovernanceInv

\* The ledger moves on, and what attempts cite is still of their message.
LEMMA LedgerCites ==
    ASSUME GovernanceInv, [Next]_vars
    PROVE  CitesSound(versions, store', cites) /\ Kept(store, store')
<1>1. Kept(store, store')
  BY StoreNext DEF GovernanceInv
<1>2. VersionsKept(versions, versions)
  BY DEF VersionsKept
<1> QED BY <1>1, <1>2, CitesStay DEF GovernanceInv, GovernanceTypeOK, Kept

\* A checkpoint cites versions of the message of its attempt, or is refused.
LEMMA CitingSound ==
    ASSUME GovernanceInv, NEW a \in AttemptRefs, NEW refs \in SUBSET VersionRefs,
           [Next]_vars, Live(store, a), RefsOfMessage(a, refs),
           cites' = [cites EXCEPT ![a] = refs],
           UNCHANGED <<versions, finals, approvals, effects, desk>>
    PROVE  GovernanceInv'
<1>1. /\ cites \in [AttemptRefs -> SUBSET VersionRefs]
      /\ approvals \in [ApprovalRefs -> Approval]
  BY DEF GovernanceInv, GovernanceTypeOK
<1>2. cites' \in [AttemptRefs -> SUBSET VersionRefs]
  BY <1>1
<1>3. CitesSound(versions, store', cites) /\ Kept(store, store')
  BY LedgerCites
<1>4. Exists(store', a) /\ store'.attempts[a].msg = store.attempts[a].msg
  BY <1>3 DEF Kept, Grows, Live, Open, Exists
<1>5. \A v \in refs : versions[v].saved /\ versions[v].msg = store'.attempts[a].msg
  BY <1>4 DEF RefsOfMessage
<1>6. CitesSound(versions, store', cites')
  BY <1>1, <1>3, <1>4, <1>5 DEF CitesSound
<1>7. DecisionsKept(approvals, approvals')
  BY DEF DecisionsKept
<1> QED BY <1>1, <1>2, <1>6, <1>7, RecordsStep

\* A decision takes a ref that none has, and is not changed again.
LEMMA DecisionSound ==
    ASSUME GovernanceInv, NEW p \in ApprovalRefs, NEW a \in AttemptRefs,
           NEW status \in Decisions, NEW hash \in Hashes, NEW left \in Validity,
           RecordApprovalDecision(p, a, status, hash, left), [Next]_vars
    PROVE  GovernanceInv'
<1> DEFINE new == [status |-> status, att |-> a, hash |-> hash, left |-> left]
<1>1. new \in Approval
  BY GovernanceAssumption DEF Approval
<1>2. /\ approvals \in [ApprovalRefs -> Approval]
      /\ cites \in [AttemptRefs -> SUBSET VersionRefs]
  BY DEF GovernanceInv, GovernanceTypeOK
<1>3. /\ approvals[p].status = "absent" /\ approvals' = [approvals EXCEPT ![p] = new]
      /\ UNCHANGED <<versions, finals, cites, effects, desk>>
  BY DEF RecordApprovalDecision
<1> HIDE DEF new
<1>4. approvals' \in [ApprovalRefs -> Approval] /\ DecisionsKept(approvals, approvals')
  BY <1>1, <1>2, <1>3 DEF DecisionsKept
<1> QED BY <1>2, <1>3, <1>4, LedgerCites, RecordsStep

\* Decisions age, and are otherwise as they were.
LEMMA GovernanceTickSound ==
    ASSUME GovernanceInv, GovernanceTick, [Next]_vars
    PROVE  GovernanceInv'
<1>1. /\ approvals \in [ApprovalRefs -> Approval]
      /\ cites \in [AttemptRefs -> SUBSET VersionRefs]
  BY DEF GovernanceInv, GovernanceTypeOK
<1> DEFINE age(p) == IF approvals[p].left \in {0, Never} THEN approvals[p].left
                     ELSE approvals[p].left - 1
<1>2. /\ approvals' = [p \in ApprovalRefs |-> [approvals[p] EXCEPT !.left = age(p)]]
      /\ UNCHANGED <<versions, finals, cites, effects, desk>>
  BY DEF GovernanceTick, ApprovalsTick
<1>3. ASSUME NEW p \in ApprovalRefs PROVE age(p) \in Validity
  <2>1. approvals[p].left \in Validity
    BY <1>1 DEF Approval
  <2> QED BY <2>1, GovernanceAssumption DEF Validity, Never
<1> HIDE DEF age
<1>4. ASSUME NEW p \in ApprovalRefs
      PROVE  /\ approvals'[p] \in Approval /\ approvals'[p].status = approvals[p].status
             /\ approvals'[p].att = approvals[p].att /\ approvals'[p].hash = approvals[p].hash
  BY <1>1, <1>2, <1>3 DEF Approval
<1>5. approvals' \in [ApprovalRefs -> Approval] /\ DecisionsKept(approvals, approvals')
  BY <1>2, <1>4 DEF DecisionsKept
<1> QED BY <1>1, <1>2, <1>5, LedgerCites, RecordsStep

-----------------------------------------------------------------------------
(* The invariant.                                                          *)

\* It holds where nothing is on record.
LEMMA GovernanceInitInv == GovernanceInit => GovernanceInv
<1> SUFFICES ASSUME GovernanceInit PROVE GovernanceInv
  OBVIOUS
<1>1. Inv /\ TypeOK
  BY InitInv DEF GovernanceInit, Inv
<1>2. NoDecision \in Approval
  BY GovernanceAssumption DEF NoDecision, Approval, Validity, Never
<1>3. GovernanceTypeOK
  BY <1>1, <1>2, IdleDeskParts DEF GovernanceInit, RecordsInit, GovernanceTypeOK
<1>4. SavedIn(versions) = {} /\ OnRecord(effects) = {}
  BY DEF GovernanceInit, RecordsInit, SavedIn, OnRecord, NoVersion, AbsentEffect
<1>5. Grounded(versions) /\ EffectsSound(approvals, effects)
  BY <1>4 DEF Grounded, EffectsSound
<1>6. CitesSound(versions, store, cites)
  BY DEF GovernanceInit, RecordsInit, CitesSound
<1>7. \A c \in Clerks : DeskSound(versions, approvals, effects, desk[c])
  BY IdleDeskSound DEF GovernanceInit, RecordsInit
<1> QED BY <1>1, <1>3, <1>5, <1>6, <1>7 DEF GovernanceInv

\* Every step keeps it.
LEMMA GovernanceNextInv == GovernanceInv /\ [GovernanceNext]_governanceVars => GovernanceInv'
<1> SUFFICES ASSUME GovernanceInv, [GovernanceNext]_governanceVars PROVE GovernanceInv'
  OBVIOUS
<1>1. [Next]_vars
  BY LedgerSteps DEF governanceVars, vars
<1>2. ASSUME UNCHANGED <<records, desk>>
      PROVE  GovernanceInv'
  <2>1. /\ UNCHANGED <<versions, finals, effects, desk>>
        /\ approvals' = approvals /\ cites' = cites
    BY <1>2 DEF records
  <2>2. DecisionsKept(approvals, approvals)
    BY DEF DecisionsKept
  <2> QED BY <1>1, <2>1, <2>2, LedgerCites, RecordsStep DEF GovernanceInv, GovernanceTypeOK
<1>3. CASE ClerkNext
  BY <1>3, BeginVersionSound, SaveArtifactVersionSound, FinalizeSound, BeginEffectSound,
     ReadDecisionSound, SaveSideEffectExecutionSound, BeginResultSound, CheckOwnerSound,
     UpdateSideEffectExecutionSound DEF ClerkNext
<1>4. CASE RecordNext
  <2>1. ASSUME NEW a \in AttemptRefs, NEW report, NEW refs \in SUBSET VersionRefs,
               CheckpointWithArtifacts(a, report, refs)
        PROVE  GovernanceInv'
    BY <1>1, <2>1, CitingSound DEF CheckpointWithArtifacts, SubmitCheckpoint
  <2>2. ASSUME NEW a \in AttemptRefs, NEW follow, NEW refs \in SUBSET VersionRefs,
               CompleteWithArtifacts(a, follow, refs)
        PROVE  GovernanceInv'
    BY <1>1, <2>2, CitingSound DEF CompleteWithArtifacts, CompleteAttempt
  <2> QED BY <1>1, <1>4, <2>1, <2>2, DecisionSound DEF RecordNext
<1>5. CASE LedgerNext
  BY <1>2, <1>5 DEF LedgerNext
<1>6. CASE GovernanceTick
  BY <1>1, <1>6, GovernanceTickSound
<1>7. CASE UNCHANGED governanceVars
  BY <1>2, <1>7 DEF governanceVars
<1> QED BY <1>3, <1>4, <1>5, <1>6, <1>7 DEF GovernanceNext

\* Versions, citations, approvals and executions agree with each other and
\* with the ledger, however many clerks, attempts and messages there are.
THEOREM GovernanceHolds == GovernanceSpec => []GovernanceInv
<1> QED BY GovernanceInitInv, GovernanceNextInv, PTL DEF GovernanceSpec

-----------------------------------------------------------------------------
(* The safety properties of Governance.                                    *)

\* No value of the wrong kind is recorded, or held by a request.
THEOREM GovernanceTypesHold == GovernanceSpec => []GovernanceTypeOK
<1>1. GovernanceInv => GovernanceTypeOK
  BY DEF GovernanceInv
<1> QED BY <1>1, GovernanceHolds, PTL

\* No version is its own ancestor, in whatever order versions are registered.
THEOREM LineageHolds == GovernanceSpec => []LineageIsGrounded
<1>1. GovernanceInv => LineageIsGrounded
  BY DEF GovernanceInv, Grounded, SavedIn, LineageIsGrounded
<1> QED BY <1>1, GovernanceHolds, PTL

\* What a takeover hands on is on record and of the message taken over.
THEOREM ResumedArtifactsHold == GovernanceSpec => []ResumedArtifactsAreOfMessage
<1>1. ASSUME GovernanceInv PROVE ResumedArtifactsAreOfMessage
  <2> SUFFICES ASSUME NEW m \in MessageRefs, store.messages[m].attempt # NoAttempt,
                      NEW v \in cites[store.messages[m].attempt]
               PROVE  versions[v].saved /\ versions[v].msg = m
    BY DEF ResumedArtifactsAreOfMessage, ResumeArtifactRefs
  <2>1. store \in Store /\ Sound(store) /\ CitesSound(versions, store, cites)
    BY <1>1 DEF GovernanceInv, Inv, TypeOK
  <2>2. /\ store.messages[m].attempt \in AttemptRefs
        /\ store.attempts[store.messages[m].attempt].msg = m
    BY <2>1, CurrentExists DEF HasCurrentAttempt
  <2> QED BY <2>1, <2>2 DEF CitesSound
<1> QED BY <1>1, GovernanceHolds, PTL

\* No side effect is executed that was not approved for its attempt and hash.
THEOREM AuthorityHolds == GovernanceSpec => []EffectIsAuthorised
<1>1. GovernanceInv => EffectIsAuthorised
  BY DEF GovernanceInv, EffectsSound, Authorises, OnRecord, EffectIsAuthorised, Executions
<1> QED BY <1>1, GovernanceHolds, PTL

\* No key is executed twice, whatever requests race for it.
THEOREM OnceOnly == GovernanceSpec => []OneExecutionPerKey
<1>1. GovernanceInv => OneExecutionPerKey
  BY DEF GovernanceInv, EffectsSound, OnRecord, OneExecutionPerKey, Executions
<1> QED BY <1>1, GovernanceHolds, PTL
=============================================================================
