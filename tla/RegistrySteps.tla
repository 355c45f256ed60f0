--------------------------- MODULE RegistrySteps ---------------------------
(***************************************************************************)
(* The endpoint registry as worker processes use it that may share an      *)
(* endpoint ref: an old process and the one started in its place, or two   *)
(* with the default config.  Every handler reads the endpoint, decides     *)
(* with the time it is then, and later writes the whole record back; the   *)
(* service holds no lock over these.                                       *)
(*                                                                         *)
(* A worker makes one of these requests at a time (tc-worker runtime).     *)
(* One whose answer it no longer waits for - canceled, timed out, its      *)
(* connection broken - is still served, or never arrives.                  *)
(***************************************************************************)
EXTENDS EndpointRegistry

CONSTANTS Workers,    \* worker processes, each started any number of times
          NoWorker,
          RefOf,      \* the endpoint ref in the config of each
          Handlers,   \* requests served at the same time
          Storages    \* where the server keeps the registry

ASSUME RegistryStepsAssumption ==
    /\ Endpoints # {} /\ RefOf \in [Workers -> Endpoints]
    /\ NoWorker \notin Workers
    /\ Storages \subseteq {"memory", "sqlite"}
    /\ "online" \in Registrations
    /\ {"online", "offline"} \subseteq Heartbeats

VARIABLES workers,    \* where each process stands
          requests,   \* the request each handler serves
          storage,
          holds,      \* history: its registration was decided on the record
                      \* that it replaced, and has not gone stale since
          alone       \* history: nothing else used its ref since it started

registryVars == <<endpoints, workers, requests, storage, holds, alone>>

\* Places of a worker.  It waits for an answer where the name is in -ing.
Awaiting == {"registering", "renewing", "beating", "announcing", "leaving"}
Place == Awaiting \cup {"off", "joined", "renewed", "beaten", "running", "ended"}
WorkerState == [at : Place, names : SUBSET Capabilities,
                joining : BOOLEAN]    \* Register has not returned yet
Off == [at |-> "off", names |-> {}, joining |-> FALSE]

EndpointRequest ==
    [pc : {"idle", "arrived", "read", "write"},
     op : {"register", "heartbeat", "advertise"},
     e : Endpoints, conn : {"online", "offline"}, names : SUBSET Capabilities,
     copy : Endpoint,
     current : BOOLEAN,              \* nobody wrote the record since it was read
     by : Workers \cup {NoWorker}]   \* the process that waits for the answer
Idle == [pc |-> "idle", op |-> "register", e |-> CHOOSE e \in Endpoints : TRUE,
         conn |-> "online", names |-> {}, copy |-> Unregistered,
         current |-> FALSE, by |-> NoWorker]

RegistryStepsTypeOK ==
    /\ RegistryTypeOK
    /\ workers \in [Workers -> WorkerState]
    /\ requests \in [Handlers -> EndpointRequest]
    /\ storage \in Storages
    /\ holds \in [Workers -> BOOLEAN]
    /\ alone \in [Workers -> BOOLEAN]

Active(w) == workers[w].at # "off"
Sharing(w) == {v \in Workers \ {w} : RefOf[v] = RefOf[w]}
InFlight(h, e) == requests[h].pc # "idle" /\ requests[h].e = e

WorkersInit ==
    /\ workers = [w \in Workers |-> Off]
    /\ requests = [h \in Handlers |-> Idle]
    /\ storage \in Storages
    /\ holds = [w \in Workers |-> FALSE]
    /\ alone = [w \in Workers |-> FALSE]

RegistryStepsInit == RegistryInit /\ WorkersInit

-----------------------------------------------------------------------------
(* The worker.                                                             *)

To(w, place) == [workers[w] EXCEPT !.at = place]

Send(w, s, op, conn) ==
    /\ \E h \in Handlers :
          /\ requests[h].pc = "idle"
          /\ requests' = [requests EXCEPT ![h] =
                 [Idle EXCEPT !.pc = "arrived", !.op = op, !.e = RefOf[w],
                              !.conn = conn, !.by = w,
                              !.names = IF op = "heartbeat" THEN {} ELSE s.names]]
    /\ workers' = [workers EXCEPT ![w] = s]
    /\ UNCHANGED endpoints

Start(w, names) ==
    /\ workers[w].at = "off"
    /\ Send(w, [at |-> "registering", names |-> names, joining |-> TRUE],
            "register", "online")

\* Mutant: what has changed is known to the worker alone.
KeepTheChangeToItself(w, names) ==
    /\ workers[w].at \in {"joined", "running"}
    /\ names # workers[w].names
    /\ Send(w, [To(w, "beating") EXCEPT !.names = names], "heartbeat", "online")

\* A heartbeat first reloads the skills, and advertises what has changed.
RefreshDynamicCapabilities(w, names) ==
    /\ workers[w].at \in {"joined", "running"}
    /\ names # workers[w].names
    /\ Send(w, [To(w, "renewing") EXCEPT !.names = names], "advertise", "online")

SendHeartbeat(w) ==
    /\ workers[w].at \in {"joined", "running", "renewed"}
    /\ Send(w, To(w, "beating"), "heartbeat", "online")

Announce(w) ==
    /\ workers[w].at = "beaten"
    /\ Send(w, To(w, "announcing"), "advertise", "online")

\* Register ends without a word, Run with an offline heartbeat.
Failed(s) ==
    IF s.joining \/ s.at = "leaving" THEN Off ELSE [s EXCEPT !.at = "ended"]

\* The processing loop ends, or the context does.
Stop(w) ==
    /\ workers[w].at \in {"joined", "renewed", "beaten", "running"}
    /\ workers' = [workers EXCEPT ![w] = Failed(@)]
    /\ UNCHANGED <<endpoints, requests>>

MarkOffline(w) ==
    /\ workers[w].at = "ended"
    /\ Send(w, To(w, "leaving"), "heartbeat", "offline")

Abandon(w) ==
    requests' = [h \in Handlers |->
        IF requests[h].by = w THEN [requests[h] EXCEPT !.by = NoWorker]
                              ELSE requests[h]]

\* The request is canceled, has timed out, or its connection is broken.
GiveUp(w) ==
    /\ workers[w].at \in Awaiting
    /\ workers' = [workers EXCEPT ![w] = Failed(@)]
    /\ Abandon(w)
    /\ UNCHANGED endpoints

Crash(w) ==
    /\ Active(w)
    /\ workers' = [workers EXCEPT ![w] = Off]
    /\ Abandon(w)
    /\ UNCHANGED endpoints

WorkerStep(w) ==
    \/ \E names \in CapabilitySets : Start(w, names) \/ RefreshDynamicCapabilities(w, names)
    \/ SendHeartbeat(w)
    \/ Announce(w)
    \/ Stop(w)
    \/ MarkOffline(w)
    \/ GiveUp(w)
    \/ Crash(w)

-----------------------------------------------------------------------------
(* The server.                                                             *)

Accepted(s) ==
    CASE s.at = "registering" -> [s EXCEPT !.at = "joined"]
      [] s.at = "renewing"    -> [s EXCEPT !.at = "renewed"]
      [] s.at = "beating"     -> [s EXCEPT !.at = IF s.joining THEN "beaten" ELSE "running"]
      [] s.at = "announcing"  -> [s EXCEPT !.at = "running", !.joining = FALSE]
      [] s.at = "leaving"     -> Off
      [] OTHER                -> s

\* The answer reaches the worker, if it still waits for it.
Accept(h) ==
    workers' = [w \in Workers |->
        IF requests[h].by = w THEN Accepted(workers[w]) ELSE workers[w]]

Refuse(h) ==
    /\ workers' = [w \in Workers |->
           IF requests[h].by = w THEN Failed(workers[w]) ELSE workers[w]]
    /\ requests' = [requests EXCEPT ![h] = Idle]
    /\ UNCHANGED endpoints

\* GetEndpoint, for a registration or a heartbeat.
ReadEndpoint(h) ==
    LET r == requests[h] IN
    /\ r.pc = "arrived"
    /\ r.op # "advertise"
    /\ r.op = "register" \/ IsRegistered(r.e)
    /\ requests' = [requests EXCEPT ![h].pc = "read", ![h].copy = endpoints[r.e],
                                    ![h].current = TRUE]
    /\ UNCHANGED <<endpoints, workers>>

\* Neither a heartbeat nor an advertisement registers the endpoint.
EndpointNotFound(h) ==
    /\ requests[h].pc = "arrived"
    /\ requests[h].op # "register"
    /\ ~IsRegistered(requests[h].e)
    /\ Refuse(h)

CopyIsStale(r) == r.copy.conn # "online" \/ r.copy.beat = Expired

\* The record to be written, with the time of now.
Decided(r, record) == [r EXCEPT !.pc = "write", !.copy = record]

\* Mutant: an endpoint that is online is registered again.
RegisterAnyway(h) ==
    LET r == requests[h] IN
    /\ r.pc = "read" /\ r.op = "register"
    /\ requests' = [requests EXCEPT ![h] = Decided(r,
           [conn |-> r.conn, beat |-> HeartbeatTicks, names |-> r.names])]
    /\ UNCHANGED <<endpoints, workers>>

DecideRegistration(h) ==
    LET r == requests[h] IN
    /\ r.pc = "read" /\ r.op = "register"
    /\ CopyIsStale(r)
    /\ requests' = [requests EXCEPT ![h] = Decided(r,
           [conn |-> r.conn, beat |-> HeartbeatTicks, names |-> r.names])]
    /\ UNCHANGED <<endpoints, workers>>

EndpointAlreadyOnline(h) ==
    LET r == requests[h] IN
    /\ r.pc = "read" /\ r.op = "register"
    /\ ~CopyIsStale(r)
    /\ Refuse(h)

\* Mutant: a heartbeat starts from an empty record.
ForgetTheNames(h) ==
    LET r == requests[h] IN
    /\ r.pc = "read" /\ r.op = "heartbeat"
    /\ requests' = [requests EXCEPT ![h] = Decided(r,
           [conn |-> r.conn, beat |-> HeartbeatTicks, names |-> {}])]
    /\ UNCHANGED <<endpoints, workers>>

DecideHeartbeat(h) ==
    LET r == requests[h] IN
    /\ r.pc = "read" /\ r.op = "heartbeat"
    /\ requests' = [requests EXCEPT ![h] = Decided(r,
           [r.copy EXCEPT !.conn = r.conn, !.beat = HeartbeatTicks])]
    /\ UNCHANGED <<endpoints, workers>>

\* The requests after h has written the record of its endpoint.
Served(h) ==
    [k \in Handlers |->
        IF k = h THEN Idle
        ELSE IF requests[k].e = requests[h].e THEN [requests[k] EXCEPT !.current = FALSE]
        ELSE requests[k]]

\* UpdateCapabilities is one step of the memory store, and two of sqlite's.
AdvertiseInMemory(h) ==
    LET r == requests[h] IN
    /\ storage = "memory"
    /\ r.pc = "arrived" /\ r.op = "advertise"
    /\ AdvertiseCapabilities(r.e, r.names)
    /\ Accept(h)
    /\ requests' = Served(h)

ReadForUpdate(h) ==
    LET r == requests[h] IN
    /\ storage = "sqlite"
    /\ r.pc = "arrived" /\ r.op = "advertise"
    /\ IsRegistered(r.e)
    /\ requests' = [requests EXCEPT ![h] =
           [Decided(r, [endpoints[r.e] EXCEPT !.names = r.names]) EXCEPT !.current = TRUE]]
    /\ UNCHANGED <<endpoints, workers>>

\* SaveEndpoint, or UpdateEndpoint of an endpoint that nothing removes.
SaveEndpoint(h) ==
    LET r == requests[h] IN
    /\ r.pc = "write"
    /\ endpoints' = [endpoints EXCEPT ![r.e] = r.copy]
    /\ Accept(h)
    /\ requests' = Served(h)

ServerStep(h) ==
    \/ ReadEndpoint(h)
    \/ EndpointNotFound(h)
    \/ DecideRegistration(h)
    \/ EndpointAlreadyOnline(h)
    \/ DecideHeartbeat(h)
    \/ AdvertiseInMemory(h)
    \/ ReadForUpdate(h)
    \/ SaveEndpoint(h)

\* A request that nobody waits for may not have reached the server.
LoseRequest(h) ==
    /\ requests[h].pc = "arrived"
    /\ requests[h].by = NoWorker
    /\ requests' = [requests EXCEPT ![h] = Idle]
    /\ UNCHANGED <<endpoints, workers>>

ServerRestarts ==
    /\ requests' = [h \in Handlers |-> Idle]
    /\ endpoints' = IF storage = "memory"
                    THEN [e \in Endpoints |-> Unregistered] ELSE endpoints
    /\ UNCHANGED workers

TimePasses ==
    /\ RegistryTick
    /\ requests' = [h \in Handlers |-> [requests[h] EXCEPT !.copy.beat = Elapse(@)]]
    /\ UNCHANGED workers

-----------------------------------------------------------------------------
(* What the histories record of a step.                                    *)

DecidedOnCurrent(w) ==
    /\ workers[w].at = "registering"
    /\ workers'[w].at = "joined"
    /\ \E h \in Handlers : requests[h].by = w /\ requests[h].current

StartedAlone(w) ==
    /\ \A v \in Sharing(w) : ~Active(v)
    /\ \A h \in Handlers : ~InFlight(h, RefOf[w])

Observe ==
    /\ storage' = storage
    /\ holds' = [w \in Workers |->
           /\ holds[w] \/ DecidedOnCurrent(w)
           /\ workers'[w].at # "off"
           /\ ~EndpointIsStale(RefOf[w])']
    /\ alone' = [w \in Workers |->
           /\ IF workers[w].at = "off" THEN StartedAlone(w) ELSE alone[w]
           /\ workers'[w].at # "off"
           /\ \A v \in Sharing(w) : workers'[v].at = "off"]

RegistryStepsNext ==
    /\ \/ \E w \in Workers : WorkerStep(w)
       \/ \E h \in Handlers : ServerStep(h) \/ LoseRequest(h)
       \/ ServerRestarts
       \/ TimePasses
    /\ Observe

RegistryStepsSpec == RegistryStepsInit /\ [][RegistryStepsNext]_registryVars

-----------------------------------------------------------------------------
\* Two processes hold one endpoint ref only if the record that one of them
\* was accepted on was written by another meanwhile, or if the endpoint went
\* stale while the first of them held it (the check of RegisterEndpoint).
OneWorkerPerEndpoint ==
    \A w, v \in Workers : holds[w] /\ holds[v] /\ RefOf[w] = RefOf[v] => w = v

\* What a worker told of itself is what routing reads of it: whatever was
\* reloaded, refused, cut short or served late before it started, a worker that
\* runs alone is online with the capabilities that it executes with.
AnnouncedIsRouted ==
    \A w \in Workers :
        alone[w] /\ workers[w].at = "running" /\ IsRegistered(RefOf[w]) =>
            /\ endpoints[RefOf[w]].conn = "online"
            /\ endpoints[RefOf[w]].names = workers[w].names

\* Written over a record that it has not read, or with a time that has passed.
Overlapped(h) ==
    \/ ~requests[h].current
    \/ requests[h].op # "advertise" /\ requests[h].copy.beat # HeartbeatTicks

\* The handlers as single steps of EndpointRegistry, on which the other modules
\* build, are what the store calls come to but for requests that overlap.
AtomicUnlessOverlapped ==
    [][\/ UNCHANGED endpoints
       \/ RegistryNext
       \/ RegistryTick
       \/ ServerRestarts
       \/ \E h \in Handlers : SaveEndpoint(h) /\ Overlapped(h)]_registryVars
=============================================================================
