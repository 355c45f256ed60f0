---------------------------- MODULE QualityGate ----------------------------
(***************************************************************************)
(* The quality gate that judges a message before it is saved: the          *)
(* phraseology policy of internal/communication/quality.                   *)
(*                                                                         *)
(* What a policy asks for is a set of fields; which of them the envelope,  *)
(* payload, constraints or references of a message carry is its `has`.     *)
(* `intent` says that its body speaks of modifying, replacing or deriving  *)
(* from an artifact, `lineage` that one of its references is an artifact.  *)
(***************************************************************************)
EXTENDS Integers

CONSTANTS Fields,       \* the fields a policy may require
          NoPolicy      \* the policy of a request that brings none

Fallback == {"reject", "request_clarification", "route_to_review", "warn"}
Verdict == {"passed", "warned", "rejected", "clarification_required",
            "review_required", "skipped"}

\* "" is a fallback, or a gate, that was left out.
Policy == [fallback : Fallback \cup {""}, required : SUBSET Fields,
           readback : BOOLEAN, targets : BOOLEAN]
QualityInput == [gate : {"enforce", "warn", "skip", ""},
                 policy : Policy \cup {NoPolicy},
                 has : SUBSET Fields, intent : BOOLEAN, lineage : BOOLEAN]

\* The default policy requires nothing; where the message asks for a readback
\* it names the default targets, so it never lacks them.
DefaultPolicy == [fallback |-> "warn", required |-> {}, readback |-> FALSE, targets |-> TRUE]

EffectivePolicy(q) ==
    IF q.policy = NoPolicy THEN DefaultPolicy
    ELSE [q.policy EXCEPT !.fallback = IF @ = "" THEN "warn" ELSE @]

Violations(q) ==
    LET policy == EffectivePolicy(q) IN
    {<<"missing_required_field", f>> : f \in policy.required \ q.has}
        \cup {v \in {<<"missing_readback_target">>} : policy.readback /\ ~policy.targets}
        \cup {v \in {<<"missing_lineage_reference">>} : q.intent /\ ~q.lineage}

DecisionStatus(policy, violations) ==
    IF violations = {} THEN "passed"
    ELSE CASE policy.fallback = "reject" -> "rejected"
           [] policy.fallback = "request_clarification" -> "clarification_required"
           [] policy.fallback = "route_to_review" -> "review_required"
           [] OTHER -> "warned"

ValidateMessage(q) == DecisionStatus(EffectivePolicy(q), Violations(q))

\* Only the enforcing gate can refuse a message.
ValidateMessageWithGate(q) ==
    CASE q.gate = "skip" -> "skipped"
      [] q.gate = "warn" /\ ValidateMessage(q) # "passed" -> "warned"
      [] OTHER -> ValidateMessage(q)
=============================================================================
