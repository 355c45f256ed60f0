------------------------------ MODULE Lineage ------------------------------
(***************************************************************************)
(* The lineage of an artifact, as tc-control shows it                      *)
(* (communication/governance/governance.go): of the artifact versions in a *)
(* snapshot those related to the ones asked for, and which is the current  *)
(* one.                                                                    *)
(*                                                                         *)
(* The versions are collected in passes over a Go map that grows while it  *)
(* is walked: an entry added meanwhile is visited in this pass or is not.  *)
(***************************************************************************)
EXTENDS Naturals, Sequences, FiniteSets

CONSTANTS Versions,  \* the artifact versions, 1..N in the order of their refs
          Instants   \* bound: when they may have been created, as <<second, digits of the fraction>>

ASSUME LineageAssumption ==
    /\ Versions = 1..Cardinality(Versions)
    /\ Instants \subseteq Seq(0..9) \ {<<>>}

VARIABLE lineage

\* lexicographic order
Less(s, t) ==
    \E n \in DOMAIN t :
        /\ Len(s) >= n - 1
        /\ SubSeq(s, 1, n - 1) = SubSeq(t, 1, n - 1)
        /\ n \in DOMAIN s => s[n] < t[n]

\* RFC3339Nano leaves out the zeros that end a fraction, and ends with a Z,
\* which is greater than any digit and than the point of the fraction.
FormatTime(instant) == Append(instant, 10)

\* What the server saved: a version is based on versions that were on record
\* when it was created.
Snapshots ==
    {artifacts \in [Versions -> [basedOn : SUBSET Versions, created : Instants]] :
        \E saved \in [Versions -> Versions] :
            \A v \in Versions : \A w \in artifacts[v].basedOn :
                /\ saved[w] < saved[v]
                /\ ~Less(artifacts[v].created, artifacts[w].created)}

NoLineage == [pc |-> "idle", artifacts |-> <<>>, asked |-> {}, included |-> {},
              visit |-> {}, changed |-> FALSE]

LineageInit == lineage = NoLineage

Turns(pc, included, visit, changed) ==
    lineage' = [lineage EXCEPT !.pc = pc, !.included = included, !.visit = visit, !.changed = changed]

BasedOn(v) == lineage.artifacts[v].basedOn

-----------------------------------------------------------------------------
\* A ref is that of a version, or of what several bear: their artifact,
\* message, attempt or task.
BuildArtifactLineage ==
    /\ lineage.pc = "idle"
    /\ \E artifacts \in Snapshots, asked \in SUBSET Versions \ {{}} :
          lineage' = [NoLineage EXCEPT !.pc = "parents", !.artifacts = artifacts, !.asked = asked,
                                       !.included = asked, !.visit = asked]

IncludeArtifactParents(v) ==
    LET parents == BasedOn(v) \ lineage.included IN
    /\ lineage.pc = "parents"
    /\ v \in lineage.visit
    /\ \E visited \in SUBSET parents :
          Turns("parents", lineage.included \cup parents, (lineage.visit \ {v}) \cup visited,
                lineage.changed \/ parents # {})

\* One pass in the order of the refs, which sees what it has added itself.
WithChildren ==
    LET after[n \in {0} \cup Versions] ==
            IF n = 0 THEN lineage.included
            ELSE after[n - 1] \cup (IF BasedOn(n) \cap after[n - 1] = {} THEN {} ELSE {n})
    IN  after[Cardinality(Versions)]

\* Mutant: only the children decide whether there is another pass.
ChangedByChildren(included) == included # lineage.included

Changed(included) == lineage.changed \/ included # lineage.included

IncludeArtifactChildren ==
    /\ lineage.pc = "parents"
    /\ lineage.visit = {}
    /\ LET included == WithChildren IN
       IF Changed(included) THEN Turns("parents", included, included, FALSE)
       ELSE Turns("built", included, {}, FALSE)

\* The last one, sorted by the text of its creation time and then its ref.
CurrentVersion ==
    LET key(v) == Append(FormatTime(lineage.artifacts[v].created), v)
    IN  CHOOSE v \in lineage.included :
            \A w \in lineage.included \ {v} : Less(key(w), key(v))

Answer == lineage.pc = "built" /\ lineage' = NoLineage

LineageNext ==
    \/ BuildArtifactLineage
    \/ \E v \in Versions : IncludeArtifactParents(v)
    \/ IncludeArtifactChildren
    \/ Answer

-----------------------------------------------------------------------------
\* What is related to a set of versions through any number of steps.
Family(start) ==
    LET related(v, w) == v \in BasedOn(w) \/ w \in BasedOn(v)
        within[n \in {0} \cup Versions] ==
            IF n = 0 THEN start
            ELSE {v \in Versions : \E w \in within[n - 1] : v = w \/ related(v, w)}
    IN  within[Cardinality(Versions)]

SameSecond(v, w) == lineage.artifacts[v].created[1] = lineage.artifacts[w].created[1]

\* Whatever order the map is walked in, the lineage is the whole family of what
\* was asked for, ancestors, descendants and theirs, and its current version is
\* one that no other in it derives from.  Excepted are versions made in one
\* second, whose times are not always in the order of their text.
LineageIsFamily ==
    lineage.pc = "built" =>
        /\ lineage.included = Family(lineage.asked)
        /\ \A v \in lineage.included :
              CurrentVersion \in BasedOn(v) => SameSecond(CurrentVersion, v)
=============================================================================
