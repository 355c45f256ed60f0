---------------------------- MODULE SqliteStore ----------------------------
(***************************************************************************)
(* The sqlite ledger (infrastructure/sqlite): the operations whose logic   *)
(* it writes a second time, each one transaction.  Rows are read into      *)
(* records, which the transaction updates one by one.                      *)
(***************************************************************************)
EXTENDS LedgerStore, FiniteSetsExt

claimAvailableMessageTx(S, m, message, e, a) ==
    UpdateMessage(
        UpdateAttempt(S, a, [state |-> "claimed", msg |-> m, ep |-> e, lease |-> LeaseTicks,
                             rev |-> 1, epoch |-> message.redelivery + 1]),
        m, [message EXCEPT !.state = "claimed", !.attempt = a])

takeoverMessageTx(S, m, message, e, a) ==
    claimAvailableMessageTx(S, m, [message EXCEPT !.redelivery = @ + 1], e, a)

deadLetterMessageTx(S, m, message) ==
    LET cur    == message.attempt
        closed == UpdateAttempt(S, cur, [S.attempts[cur] EXCEPT !.state = "orphaned"])
        buried == UpdateMessage(closed, m, [message EXCEPT !.state = "dead_lettered"])
    IN  [buried EXCEPT !.deadLetters = @ \cup
            {[msg |-> m, attempt |-> cur, redelivery |-> message.redelivery,
              checkpoint |-> S.checkpoints[cur].count]}]

AttemptRow(S, a) == a \in AttemptRefs /\ Exists(S, a)

claimTakeoverCandidateTx(S, m, message, e, a) ==
    IF ~AttemptRow(S, message.attempt) THEN S
    ELSE IF message.redelivery >= MaxRedelivery THEN deadLetterMessageTx(S, m, message)
    ELSE takeoverMessageTx(S, m, message, e, a)

\* Mutant: a lease that ends now counts as over.
claimEndingMessageTx(S, m, message, e, a) ==
    LET cur == message.attempt IN
    IF ~AttemptRow(S, cur) THEN S
    ELSE IF S.attempts[cur].lease > 0 THEN S
    ELSE IF message.redelivery >= MaxRedelivery THEN deadLetterMessageTx(S, m, message)
    ELSE takeoverMessageTx(
             UpdateAttempt(S, cur, [S.attempts[cur] EXCEPT !.state = "orphaned"]),
             m, message, e, a)

claimExpiredMessageTx(S, m, message, e, a) ==
    LET cur == message.attempt IN
    IF ~AttemptRow(S, cur) THEN S
    ELSE IF S.attempts[cur].lease >= 0 THEN S
    ELSE IF message.redelivery >= MaxRedelivery THEN deadLetterMessageTx(S, m, message)
    ELSE takeoverMessageTx(
             UpdateAttempt(S, cur, [S.attempts[cur] EXCEPT !.state = "orphaned"]),
             m, message, e, a)

claimMessageTx(S, m, message, e, a) ==
    CASE message.state = "available" -> claimAvailableMessageTx(S, m, message, e, a)
      [] message.state = "takeover_candidate" -> claimTakeoverCandidateTx(S, m, message, e, a)
      [] message.state \in {"claimed", "processing"} -> claimExpiredMessageTx(S, m, message, e, a)
      [] OTHER -> S

\* ORDER BY CASE state WHEN takeover_candidate THEN 0 WHEN available THEN 1
\* ELSE 2 END, message_ref
SelectionRank(S, m) ==
    CASE S.messages[m].state = "takeover_candidate" -> 0
      [] S.messages[m].state = "available" -> 1
      [] OTHER -> 2
SelectedBefore(S, m, n) ==
    \/ SelectionRank(S, m) < SelectionRank(S, n)
    \/ SelectionRank(S, m) = SelectionRank(S, n) /\ m < n

NextEligible(S, m, e, names, online) ==
    LET eligible == {n \in MessageRefs :
            /\ S.messages[n].state \in {"takeover_candidate", "available"}
            /\ MessageClaimableByEndpoint(S.requests[n], e, names,
                   PreferredEndpointOnline(online, S.requests[n]))
            /\ MessageDependenciesCompleted(S.requests[n], StateOf(S))}
    IN  m \in eligible /\ \A n \in eligible \ {m} : SelectedBefore(S, m, n)

\* Every claimed or processing row in turn, in any order.
ReconcileRow(m, S) ==
    LET cur == S.messages[m].attempt IN
    IF ~AttemptRow(S, cur) THEN S
    ELSE IF S.attempts[cur].lease >= 0 THEN S
    ELSE UpdateMessage(
             UpdateAttempt(S, cur, [S.attempts[cur] EXCEPT !.state = "orphaned"]),
             m, [S.messages[m] EXCEPT !.state = "takeover_candidate"])
ReconcileTx(S) ==
    FoldSet(ReconcileRow, S,
            {m \in MessageRefs : S.messages[m].state \in {"claimed", "processing"}})
=============================================================================
