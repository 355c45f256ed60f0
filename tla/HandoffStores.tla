--------------------------- MODULE HandoffStores ---------------------------
(***************************************************************************)
(* The two ledgers of tc-server, side by side on every ledger that Handoff *)
(* reaches: the memory store is a switch over maps, the sqlite store SQL   *)
(* and transactions of its own, and a server runs on either.               *)
(***************************************************************************)
EXTENDS Handoff, SqliteStore

ClaimsAgree(S) ==
    \A m \in MessageRefs, e \in Endpoints, a \in AttemptRefs :
        Saved(S, m) /\ ~Exists(S, a) =>
            claimMessageTx(S, m, S.messages[m], e, a) = ClaimMessageStore(S, m, e, a)

ClaimNextAgrees(S) ==
    \A m \in MessageRefs, e \in Endpoints :
        LET chosen == NextFor(S, m, e) IN
        /\ NextEligible(S, m, e, endpoints[e].names, OnlineEndpoints) <=> chosen
        /\ chosen => \A a \in AttemptRefs :
               ~Exists(S, a) =>
                   claimMessageTx(S, m, S.messages[m], e, a) = ClaimNextStore(S, m, e, a)

\* Whatever history led to a ledger, a claim, a claim-next and a reconcile do
\* to it the same thing in sqlite as in memory: the same winner, the same
\* takeover, dead letter or refusal.
StoresAgree ==
    /\ ReconcileTx(store) = ReconcileStore(store)
    /\ ClaimsAgree(store)
    /\ ClaimNextAgrees(ReconcileStore(store))
=============================================================================
