----------------------------- MODULE MCDelivery -----------------------------
(***************************************************************************)
(* Instances of Delivery for TLC.                                          *)
(***************************************************************************)
EXTENDS Delivery, Functions, TLC

CONSTANTS e1, e2, able, other, t1, a1, a2, h1, h2, s1, s2, field

Ask(capability, depends) ==
    [capability |-> capability, target |-> NoEndpoint, preferred |-> NoEndpoint,
     dependsOn |-> depends, task |-> t1]

MCCovers == {<<able, able>>, <<other, other>>}
MCCapabilitySets == {{able}}
MCSubjectOf == (able :> s1) @@ (other :> s2)
MCRequests == {Ask(able, {}), Ask(other, {})}

Strict == [fallback |-> "reject", required |-> {field}, readback |-> FALSE, targets |-> FALSE]
Judge(gate, has) ==
    [gate |-> gate, policy |-> Strict, has |-> has, intent |-> FALSE, lineage |-> FALSE]
MCQualities == {Judge("enforce", {}), Judge("", {field})}

\* The endpoints are online and each able to do one thing.
OnlineInit ==
    /\ endpoints = [e \in Endpoints |->
           [conn |-> "online", beat |-> HeartbeatTicks,
            names |-> IF e = e1 THEN {able} ELSE {other}]]
    /\ store = EmptyStore
    /\ stream = [m \in MessageRefs |-> [state |-> "none", n |-> 0]]
    /\ pending = {}
    /\ decisions = {}
    /\ calls = [h \in Handlers |-> Idle]

OnlineTick ==
    /\ store' = TickStore(store)
    /\ calls' = [h \in Handlers |-> [calls[h] EXCEPT !.lease = Elapse(@)]]
    /\ UNCHANGED <<endpoints, broker, decisions>>

OnlineNext ==
    \/ \E h \in Handlers : Receive(h) \/ Serve(h)
    \/ Broker
    \/ ServerRestarts
    \/ Elsewhere /\ UNCHANGED endpoints
    \/ OnlineTick

OnlineSpec == OnlineInit /\ [][OnlineNext]_deliveryVars

\* Bound: either one message with two attempts, or two messages and one, and
\* few deliveries.
MCMaxDelivered == 2
SmallInstance ==
    /\ Cardinality({m \in MessageRefs : Saved(store, m)})
          + Cardinality({a \in AttemptRefs : Exists(store, a)}) <= 3
    /\ FoldFunction(LAMBDA s, n : s.n + n, 0, stream) <= MCMaxDelivered
    /\ Cardinality(decisions) <= 2

DeliverySymmetry == Permutations(AttemptRefs) \cup Permutations(Handlers)
=============================================================================
