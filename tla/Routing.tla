------------------------------ MODULE Routing ------------------------------
(***************************************************************************)
(* Capability-first and direct routing: the pure predicates of             *)
(* tc-server/internal/domain/routing.go, over the data they look at.       *)
(*                                                                         *)
(* A capability name is an opaque value.  Covers holds the pairs           *)
(* <<advertised, wanted>> that capabilityMatches accepts: equal names, and *)
(* a name ending in ".*" with every name it prefixes.  A request is the    *)
(* part of a message fixed at ingress that routing reads.                  *)
(***************************************************************************)
EXTENDS Integers

CONSTANTS Endpoints,      \* endpoint refs
          NoEndpoint,     \* the empty TargetEndpointRef / PreferredEndpointRef
          Capabilities,   \* capability names, advertised or wanted
          Covers,         \* <<advertised, wanted>> pairs that match
          MessageRefs,    \* message refs; their order is the order of the refs
          Tasks           \* correlation refs

ASSUME RoutingAssumption ==
    /\ NoEndpoint \notin Endpoints
    /\ Covers \subseteq Capabilities \X Capabilities
    /\ MessageRefs \subseteq Nat \ {0}

Request == [capability : Capabilities,
            target     : Endpoints \cup {NoEndpoint},
            preferred  : Endpoints \cup {NoEndpoint},
            dependsOn  : SUBSET MessageRefs,
            task       : Tasks]

EndpointCanHandle(names, wanted) == \E n \in names : <<n, wanted>> \in Covers

MessageTargetsEndpoint(r, e) == r.target \in {NoEndpoint, e}

MessageRoutableToEndpoint(r, e, names) ==
    /\ MessageTargetsEndpoint(r, e)
    /\ EndpointCanHandle(names, r.capability)

\* Mutant: the preferred endpoint itself waits for the preferred one to go.
ClaimableWithoutPreference(r, e, names, preferredOnline) ==
    /\ MessageRoutableToEndpoint(r, e, names)
    /\ r.preferred = NoEndpoint \/ ~preferredOnline

\* A preferred endpoint that is online and able keeps the message to itself.
MessageClaimableByEndpoint(r, e, names, preferredOnline) ==
    /\ MessageRoutableToEndpoint(r, e, names)
    /\ r.preferred \in {NoEndpoint, e} \/ ~preferredOnline

\* Mutant: a dependency that nobody submitted yet does not count.
KnownDependenciesCompleted(r, stateOf) ==
    \A d \in r.dependsOn : stateOf[d] \in {"completed", "absent"}

MessageDependenciesCompleted(r, stateOf) ==
    \A d \in r.dependsOn : stateOf[d] = "completed"
=============================================================================
