-------------------------- MODULE EndpointRegistry --------------------------
(***************************************************************************)
(* The endpoint registry of tc-server: registration, heartbeat and         *)
(* capability advertisement (application/service.go), each handler as one  *)
(* step.                                                                   *)
(*                                                                         *)
(* Time is kept as what remains of it.  `beat` is the number of ticks      *)
(* before the heartbeat deadline, 0 at the deadline itself and Expired     *)
(* once now is strictly after it, the only comparison the code makes.      *)
(***************************************************************************)
EXTENDS Routing

CONSTANTS HeartbeatTicks,   \* EndpointHeartbeatTimeout, in ticks
          CapabilitySets,   \* the capability lists workers advertise
          Registrations,    \* the connection states workers register with
          Heartbeats        \* the connection states heartbeats carry

ASSUME RegistryAssumption ==
    /\ HeartbeatTicks \in Nat
    /\ CapabilitySets \subseteq (SUBSET Capabilities) \ {{}}
    /\ Registrations \subseteq {"online", ""}
    /\ Heartbeats \subseteq {"online", "stale", "offline"}

VARIABLE endpoints

Expired == -1
Countdown(ticks) == Expired .. ticks
Elapse(left) == IF left = Expired THEN Expired ELSE left - 1

\* "" is the connection state of a registration that left it out.
ConnectionState == {"online", "stale", "offline", ""}
Endpoint == [conn : ConnectionState \cup {"unregistered"},
             beat : Countdown(HeartbeatTicks),
             names : SUBSET Capabilities]
Unregistered == [conn |-> "unregistered", beat |-> Expired, names |-> {}]

RegistryTypeOK == endpoints \in [Endpoints -> Endpoint]

IsRegistered(e) == endpoints[e].conn # "unregistered"
EndpointIsStale(e) ==
    endpoints[e].conn # "online" \/ endpoints[e].beat = Expired

\* The endpoints that are online now, as the capabilities each can handle.
OnlineEndpoints ==
    [e \in Endpoints |-> IF EndpointIsStale(e) THEN {} ELSE endpoints[e].names]
PreferredEndpointOnline(online, r) ==
    r.preferred \in Endpoints /\ EndpointCanHandle(online[r.preferred], r.capability)

\* A targeted message needs its endpoint, any other some registered endpoint;
\* neither has to be online.
IngressRouteAvailable(r) ==
    \E e \in Endpoints :
        /\ MessageTargetsEndpoint(r, e)
        /\ IsRegistered(e)
        /\ EndpointCanHandle(endpoints[e].names, r.capability)

-----------------------------------------------------------------------------
RegistryInit == endpoints = [e \in Endpoints |-> Unregistered]

RegisterEndpoint(e, conn, names) ==
    /\ EndpointIsStale(e)
    /\ endpoints' = [endpoints EXCEPT ![e] =
                        [conn |-> conn, beat |-> HeartbeatTicks, names |-> names]]

HeartbeatEndpoint(e, conn) ==
    /\ IsRegistered(e)
    /\ endpoints' = [endpoints EXCEPT ![e].conn = conn, ![e].beat = HeartbeatTicks]

AdvertiseCapabilities(e, names) ==
    /\ IsRegistered(e)
    /\ endpoints' = [endpoints EXCEPT ![e].names = names]

RegistryNext ==
    \E e \in Endpoints :
        \/ \E conn \in Registrations, names \in CapabilitySets :
              RegisterEndpoint(e, conn, names)
        \/ \E conn \in Heartbeats : HeartbeatEndpoint(e, conn)
        \/ \E names \in CapabilitySets : AdvertiseCapabilities(e, names)

RegistryTick ==
    endpoints' = [e \in Endpoints |-> [endpoints[e] EXCEPT !.beat = Elapse(@)]]
=============================================================================
