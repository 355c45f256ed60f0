----------------------------- MODULE MCHandoff -----------------------------
(***************************************************************************)
(* Instances of Handoff for TLC: what the senders submit, small.           *)
(***************************************************************************)
EXTENDS HandoffRefinement, HandoffStores, TLC

CONSTANTS e1, e2, skill, t1, a1, a2, a3

Ask(depends, target, preferred) ==
    [capability |-> skill, target |-> target, preferred |-> preferred,
     dependsOn |-> depends, task |-> t1]

MCCovers == {<<skill, skill>>}
MCCapabilitySets == {{skill}}
PlainRequests == {Ask({}, NoEndpoint, NoEndpoint)}
ChainRequests == {Ask({}, NoEndpoint, NoEndpoint), Ask({1}, NoEndpoint, NoEndpoint)}
RoutedRequests == {Ask({}, NoEndpoint, e2), Ask({1}, e1, NoEndpoint)}

AttemptSymmetry == Permutations(AttemptRefs)
=============================================================================
