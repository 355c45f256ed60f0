--------------------------- MODULE RegistryProofs ---------------------------
(***************************************************************************)
(* Theorems about RegistrySteps: the types, who may hold an endpoint ref,  *)
(* what routing reads of a worker that runs alone, and that requests which *)
(* do not overlap are the single steps of EndpointRegistry.                *)
(***************************************************************************)
EXTENDS RegistrySteps, TLAPS

-----------------------------------------------------------------------------
(* The inductive invariant.                                                *)

\* What a worker that waits has asked for.
Asked(at, op, conn) ==
    \/ at = "registering" /\ op = "register" /\ conn = "online"
    \/ at \in {"renewing", "announcing"} /\ op = "advertise" /\ conn = "online"
    \/ at = "beating" /\ op = "heartbeat" /\ conn = "online"
    \/ at = "leaving" /\ op = "heartbeat" /\ conn = "offline"

\* A request is the one that its worker waits for; the workers and requests
\* carry capability lists, a registration says online.
OwnRequest(r) ==
    /\ r.pc = "idle" => r = Idle
    /\ r.pc = "read" => r.op # "advertise"
    /\ r.pc # "idle" /\ r.op # "heartbeat" => r.names \in CapabilitySets
    /\ r.op = "register" => r.conn = "online"
    /\ r.by # NoWorker =>
          /\ r.e = RefOf[r.by]
          /\ Asked(workers[r.by].at, r.op, r.conn)
          /\ r.op # "heartbeat" => r.names = workers[r.by].names

RequestsAreOwn ==
    /\ \A w \in Workers : Active(w) => workers[w].names \in CapabilitySets
    /\ \A h \in Handlers : OwnRequest(requests[h])

\* A worker waits for one answer.
OneAtATime ==
    \A h, k \in Handlers :
        requests[h].by = requests[k].by /\ requests[h].by # NoWorker => h = k

\* What a copy that is current tells of the registry.
CopyAgrees(r, record) ==
    /\ r.pc \in {"read", "write"}
    /\ r.pc = "read" => /\ r.copy = record
                        /\ r.op = "heartbeat" => record.conn # "unregistered"
    /\ r.pc = "write" /\ r.op = "register" =>
          record.conn # "online" \/ record.beat = Expired
    /\ r.pc = "write" /\ r.op = "heartbeat" =>
          /\ record.conn # "unregistered"
          /\ r.copy.conn = r.conn /\ r.copy.names = record.names
    /\ r.pc = "write" /\ r.op = "advertise" =>
          /\ record.conn # "unregistered"
          /\ r.copy.conn = record.conn /\ r.copy.beat = record.beat
          /\ r.copy.names = r.names

CopiesAgree ==
    \A h \in Handlers :
        LET r == requests[h] IN
        /\ r.current => CopyAgrees(r, endpoints[r.e])
        /\ r.pc = "write" /\ r.op = "register" =>
              r.copy.conn = "online" /\ r.copy.names = r.names

HoldersAreFresh ==
    \A w \in Workers : holds[w] => Active(w) /\ ~EndpointIsStale(RefOf[w])

\* The places where a worker has told the server all that it knows of itself.
Told == {"joined", "renewed", "beating", "beaten", "announcing", "running"}

OnlyItsOwn(w) ==
    \A h \in Handlers : InFlight(h, RefOf[w]) =>
        /\ requests[h].by = w
        /\ requests[h].pc \in {"read", "write"} => requests[h].current

AsItTold(w) ==
    workers[w].at \in Told \cup {"renewing"} /\ IsRegistered(RefOf[w]) =>
        /\ endpoints[RefOf[w]].conn = "online"
        /\ workers[w].at \in Told => endpoints[RefOf[w]].names = workers[w].names

AloneIsKnown ==
    \A w \in Workers : alone[w] =>
        /\ Active(w) /\ \A v \in Sharing(w) : ~Active(v)
        /\ workers[w].at \notin {"ended", "leaving"} => OnlyItsOwn(w)
        /\ AsItTold(w)

RegistryInv ==
    /\ RegistryStepsTypeOK
    /\ RequestsAreOwn
    /\ OneAtATime
    /\ CopiesAgree
    /\ OneWorkerPerEndpoint
    /\ HoldersAreFresh
    /\ AloneIsKnown

-----------------------------------------------------------------------------
(* Types.                                                                  *)

LEMMA ConstantFacts ==
    /\ HeartbeatTicks \in Nat
    /\ CapabilitySets \subseteq SUBSET Capabilities
BY RegistryAssumption

LEMMA ElapseType ==
    ASSUME NEW left \in Countdown(HeartbeatTicks)
    PROVE  Elapse(left) \in Countdown(HeartbeatTicks)
BY ConstantFacts DEF Elapse, Countdown, Expired

LEMMA ConstantTypes ==
    /\ HeartbeatTicks \in Countdown(HeartbeatTicks)
    /\ Expired \in Countdown(HeartbeatTicks)
    /\ Unregistered \in Endpoint
    /\ Off \in WorkerState
<1>1. HeartbeatTicks \in Countdown(HeartbeatTicks) /\ Expired \in Countdown(HeartbeatTicks)
  BY ConstantFacts DEF Countdown, Expired
<1> QED
  BY <1>1 DEF Unregistered, Endpoint, Off, WorkerState, Place, Awaiting

LEMMA IdleType ==
    ASSUME NEW e \in Endpoints
    PROVE  Idle \in EndpointRequest
<1>1. (CHOOSE d \in Endpoints : TRUE) \in Endpoints
  OBVIOUS
<1> QED
  BY <1>1, ConstantTypes DEF Idle, EndpointRequest

LEMMA IdleParts ==
    \E d : Idle = [pc |-> "idle", op |-> "register", e |-> d,
                   conn |-> "online", names |-> {}, copy |-> Unregistered,
                   current |-> FALSE, by |-> NoWorker]
<1> DEFINE d == CHOOSE e \in Endpoints : TRUE
<1>1. Idle = [pc |-> "idle", op |-> "register", e |-> d,
              conn |-> "online", names |-> {}, copy |-> Unregistered,
              current |-> FALSE, by |-> NoWorker]
  BY Zenon DEF Idle
<1> HIDE DEF d
<1> QED
  BY <1>1

LEMMA FailedType ==
    ASSUME NEW s \in WorkerState
    PROVE  Failed(s) \in WorkerState
BY ConstantTypes DEF Failed, WorkerState, Place, Awaiting

LEMMA AcceptedType ==
    ASSUME NEW s \in WorkerState
    PROVE  Accepted(s) \in WorkerState
<1>1. CASE s.at = "registering"
  <2>1. Accepted(s) = [s EXCEPT !.at = "joined"]
    BY <1>1 DEF Accepted
  <2> QED
    BY <2>1 DEF WorkerState, Place
<1>2. CASE s.at = "renewing"
  <2>1. Accepted(s) = [s EXCEPT !.at = "renewed"]
    BY <1>2 DEF Accepted
  <2> QED
    BY <2>1 DEF WorkerState, Place
<1>3. CASE s.at = "beating"
  <2>1. Accepted(s) = [s EXCEPT !.at = IF s.joining THEN "beaten" ELSE "running"]
    BY <1>3 DEF Accepted
  <2> QED
    BY <2>1 DEF WorkerState, Place
<1>4. CASE s.at = "announcing"
  <2>1. Accepted(s) = [s EXCEPT !.at = "running", !.joining = FALSE]
    BY <1>4 DEF Accepted
  <2> QED
    BY <2>1 DEF WorkerState, Place
<1>5. CASE s.at = "leaving"
  <2>1. Accepted(s) = Off
    BY <1>5 DEF Accepted
  <2> QED
    BY <2>1, ConstantTypes
<1>6. CASE s.at \notin Awaiting
  <2>1. Accepted(s) = s
    BY <1>6 DEF Accepted, Awaiting
  <2> QED
    BY <2>1
<1> QED
  BY <1>1, <1>2, <1>3, <1>4, <1>5, <1>6 DEF Awaiting

\* What every step keeps, whatever it does: the registry, the workers and the
\* requests keep their types, and that is the type invariant of the rest.
LEMMA ObservedTypes ==
    ASSUME RegistryStepsTypeOK, Observe,
           endpoints' \in [Endpoints -> Endpoint],
           workers' \in [Workers -> WorkerState],
           requests' \in [Handlers -> EndpointRequest]
    PROVE  RegistryStepsTypeOK'
<1>1. storage' \in Storages
  BY DEF Observe, RegistryStepsTypeOK
<1>2. holds' \in [Workers -> BOOLEAN]
  <2> DEFINE H(w) == /\ holds[w] \/ DecidedOnCurrent(w)
                     /\ workers'[w].at # "off"
                     /\ ~EndpointIsStale(RefOf[w])'
  <2>1. holds' = [w \in Workers |-> H(w)]
    BY DEF Observe
  <2>2. \A w \in Workers : H(w) \in BOOLEAN
    BY DEF EndpointIsStale
  <2> HIDE DEF H
  <2> QED
    BY <2>1, <2>2
<1>3. alone' \in [Workers -> BOOLEAN]
  <2> DEFINE A(w) == /\ IF workers[w].at = "off" THEN StartedAlone(w) ELSE alone[w]
                     /\ workers'[w].at # "off"
                     /\ \A v \in Sharing(w) : workers'[v].at = "off"
  <2>1. alone' = [w \in Workers |-> A(w)]
    BY DEF Observe
  <2>2. \A w \in Workers : A(w) \in BOOLEAN
    BY DEF StartedAlone
  <2> HIDE DEF A
  <2> QED
    BY <2>1, <2>2
<1> QED
  BY <1>1, <1>2, <1>3 DEF RegistryStepsTypeOK, RegistryTypeOK

LEMMA Typed ==
    ASSUME RegistryStepsTypeOK
    PROVE  /\ \A w \in Workers : workers[w] \in WorkerState /\ RefOf[w] \in Endpoints
           /\ \A h \in Handlers : requests[h] \in EndpointRequest
           /\ \A e \in Endpoints : endpoints[e] \in Endpoint
BY RegistryStepsAssumption DEF RegistryStepsTypeOK, RegistryTypeOK

\* The handler h receives a request of w, whose state is s then.
Asks(h, w, s, op, conn) ==
    /\ requests[h].pc = "idle"
    /\ \A k \in Handlers \ {h} : requests'[k] = requests[k]
    /\ requests'[h].pc = "arrived" /\ requests'[h].op = op
    /\ requests'[h].e = RefOf[w] /\ requests'[h].conn = conn
    /\ requests'[h].names = IF op = "heartbeat" THEN {} ELSE s.names
    /\ requests'[h].by = w /\ ~requests'[h].current

\* What sending a request comes to.
LEMMA SendEffect ==
    ASSUME RegistryStepsTypeOK, NEW w \in Workers, NEW s \in WorkerState,
           NEW op \in {"register", "heartbeat", "advertise"},
           NEW conn \in {"online", "offline"}, Send(w, s, op, conn)
    PROVE  /\ endpoints' = endpoints
           /\ workers' \in [Workers -> WorkerState]
           /\ workers'[w] = s
           /\ \A v \in Workers \ {w} : workers'[v] = workers[v]
           /\ requests' \in [Handlers -> EndpointRequest]
           /\ \E h \in Handlers : Asks(h, w, s, op, conn)
<1>1. /\ workers \in [Workers -> WorkerState] /\ requests \in [Handlers -> EndpointRequest]
      /\ RefOf[w] \in Endpoints
  BY Typed DEF RegistryStepsTypeOK
<1> DEFINE names == IF op = "heartbeat" THEN {} ELSE s.names
           new == [Idle EXCEPT !.pc = "arrived", !.op = op, !.e = RefOf[w],
                               !.conn = conn, !.by = w, !.names = names]
<1>2. PICK h \in Handlers : requests[h].pc = "idle" /\ requests' = [requests EXCEPT ![h] = new]
  BY DEF Send
<1>3. names \in SUBSET Capabilities
  BY DEF WorkerState
<1>a. new = [pc |-> "arrived", op |-> op, e |-> RefOf[w], conn |-> conn, names |-> names,
             copy |-> Unregistered, current |-> FALSE, by |-> w]
  <2>1. PICK d : Idle = [pc |-> "idle", op |-> "register", e |-> d,
                         conn |-> "online", names |-> {}, copy |-> Unregistered,
                         current |-> FALSE, by |-> NoWorker]
    BY IdleParts
  <2> HIDE DEF names
  <2>2. new = [[pc |-> "idle", op |-> "register", e |-> d,
                conn |-> "online", names |-> {}, copy |-> Unregistered,
                current |-> FALSE, by |-> NoWorker]
               EXCEPT !.pc = "arrived", !.op = op, !.e = RefOf[w],
                      !.conn = conn, !.by = w, !.names = names]
    BY ONLY <2>1, Zenon DEF new
  <2> HIDE DEF new
  <2> QED
    BY ONLY <2>2
<1> HIDE DEF new
<1>4. /\ new.pc = "arrived" /\ new.op = op /\ new.e = RefOf[w] /\ new.conn = conn
      /\ new.names = names /\ new.by = w /\ new.current = FALSE
  BY <1>a
<1>5. new \in EndpointRequest
  <2>1. Unregistered \in Endpoint
    BY ConstantTypes
  <2> HIDE DEF names
  <2> QED
    BY <1>1, <1>3, <2>1, <1>a DEF EndpointRequest
<1>6. requests' \in [Handlers -> EndpointRequest]
  BY <1>1, <1>2, <1>5
<1>7. requests'[h] = new /\ \A k \in Handlers \ {h} : requests'[k] = requests[k]
  BY <1>1, <1>2
<1>8. /\ workers' \in [Workers -> WorkerState] /\ workers'[w] = s
      /\ \A v \in Workers \ {w} : workers'[v] = workers[v]
      /\ endpoints' = endpoints
  BY <1>1 DEF Send
<1> QED
  BY <1>2, <1>4, <1>6, <1>7, <1>8 DEF Asks

\* A worker sends a request from a place where it waits for none, and is then
\* at the place that waits for this one.
LEMMA WorkerSends ==
    ASSUME RegistryStepsTypeOK, RequestsAreOwn, NEW w \in Workers,
           \/ \E names \in CapabilitySets :
                 Start(w, names) \/ RefreshDynamicCapabilities(w, names)
           \/ SendHeartbeat(w) \/ Announce(w) \/ MarkOffline(w)
    PROVE  \E s \in WorkerState, op \in {"register", "heartbeat", "advertise"},
              conn \in {"online", "offline"} :
              /\ Send(w, s, op, conn)
              /\ workers[w].at \notin Awaiting
              /\ Asked(s.at, op, conn)
              /\ s.names \in CapabilitySets
              /\ workers[w].at = "off" <=> op = "register"
              /\ workers[w].at = "ended" <=> s.at = "leaving"
              /\ s.at \in Told => workers[w].at \in Told /\ s.names = workers[w].names
              /\ s.at = "renewing" => workers[w].at \in Told
<1> DEFINE Goes(s, op, conn) ==
              /\ Send(w, s, op, conn)
              /\ workers[w].at \notin Awaiting
              /\ Asked(s.at, op, conn)
              /\ s.names \in CapabilitySets
              /\ workers[w].at = "off" <=> op = "register"
              /\ workers[w].at = "ended" <=> s.at = "leaving"
              /\ s.at \in Told => workers[w].at \in Told /\ s.names = workers[w].names
              /\ s.at = "renewing" => workers[w].at \in Told
<1> SUFFICES \E s \in WorkerState, op \in {"register", "heartbeat", "advertise"},
                conn \in {"online", "offline"} : Goes(s, op, conn)
  OBVIOUS
<1>1. /\ workers[w] \in WorkerState
      /\ workers[w].at # "off" => workers[w].names \in CapabilitySets
  BY Typed DEF RequestsAreOwn, Active
<1>2. ASSUME NEW place \in Place
      PROVE  /\ To(w, place) \in WorkerState
             /\ To(w, place).at = place /\ To(w, place).names = workers[w].names
  BY <1>1 DEF To, WorkerState
<1>3. ASSUME NEW names \in CapabilitySets, Start(w, names)
      PROVE  \E s \in WorkerState, op \in {"register", "heartbeat", "advertise"},
                conn \in {"online", "offline"} : Goes(s, op, conn)
  <2> DEFINE s == [at |-> "registering", names |-> names, joining |-> TRUE]
  <2>1. s \in WorkerState
    BY ConstantFacts DEF WorkerState, Place, Awaiting
  <2>2. Goes(s, "register", "online")
    BY <1>3 DEF Start, Asked, Awaiting, Told
  <2> HIDE DEF s, Goes
  <2> QED
    BY <2>1, <2>2
<1>4. ASSUME NEW names \in CapabilitySets, RefreshDynamicCapabilities(w, names)
      PROVE  \E s \in WorkerState, op \in {"register", "heartbeat", "advertise"},
                conn \in {"online", "offline"} : Goes(s, op, conn)
  <2> DEFINE s == [To(w, "renewing") EXCEPT !.names = names]
  <2>1. s \in WorkerState /\ s.at = "renewing" /\ s.names = names
    BY <1>2, ConstantFacts DEF WorkerState, Place, Awaiting
  <2>2. Send(w, s, "advertise", "online") /\ workers[w].at \in {"joined", "running"}
    BY <1>4 DEF RefreshDynamicCapabilities
  <2> HIDE DEF s
  <2>3. Goes(s, "advertise", "online")
    BY <2>1, <2>2 DEF Asked, Awaiting, Told
  <2> HIDE DEF Goes
  <2> QED
    BY <2>1, <2>3
<1>5. CASE SendHeartbeat(w)
  <2>1. Send(w, To(w, "beating"), "heartbeat", "online")
    BY <1>5 DEF SendHeartbeat
  <2>2. To(w, "beating") \in WorkerState /\ Goes(To(w, "beating"), "heartbeat", "online")
    BY <1>1, <1>2, <1>5, <2>1 DEF SendHeartbeat, Asked, Awaiting, Place, Told
  <2> HIDE DEF Goes
  <2> QED
    BY <2>2
<1>6. CASE Announce(w)
  <2>1. Send(w, To(w, "announcing"), "advertise", "online")
    BY <1>6 DEF Announce
  <2>2. To(w, "announcing") \in WorkerState /\ Goes(To(w, "announcing"), "advertise", "online")
    BY <1>1, <1>2, <1>6, <2>1 DEF Announce, Asked, Awaiting, Place, Told
  <2> HIDE DEF Goes
  <2> QED
    BY <2>2
<1>7. CASE MarkOffline(w)
  <2>1. Send(w, To(w, "leaving"), "heartbeat", "offline")
    BY <1>7 DEF MarkOffline
  <2>2. To(w, "leaving") \in WorkerState /\ Goes(To(w, "leaving"), "heartbeat", "offline")
    BY <1>1, <1>2, <1>7, <2>1 DEF MarkOffline, Asked, Awaiting, Place, Told
  <2> HIDE DEF Goes
  <2> QED
    BY <2>2
<1> HIDE DEF Goes
<1> QED
  BY <1>3, <1>4, <1>5, <1>6, <1>7

\* Stop, GiveUp and Crash: a worker goes on without an answer, or not at all.
LEMMA WorkerLeaves ==
    ASSUME RegistryStepsTypeOK, RequestsAreOwn, NEW w \in Workers,
           Stop(w) \/ GiveUp(w) \/ Crash(w)
    PROVE  /\ endpoints' = endpoints
           /\ workers' \in [Workers -> WorkerState]
           /\ workers'[w] \in {Off, Failed(workers[w])}
           /\ workers[w].at # "off"
           /\ \A v \in Workers \ {w} : workers'[v] = workers[v]
           /\ requests' \in [Handlers -> EndpointRequest]
           /\ \A k \in Handlers :
                 requests'[k] = IF requests[k].by = w
                                THEN [requests[k] EXCEPT !.by = NoWorker] ELSE requests[k]
<1>1. /\ workers \in [Workers -> WorkerState] /\ requests \in [Handlers -> EndpointRequest]
      /\ Off \in WorkerState /\ Failed(workers[w]) \in WorkerState
  BY Typed, ConstantTypes, FailedType DEF RegistryStepsTypeOK
<1>2. \E s \in {Off, Failed(workers[w])} : workers' = [workers EXCEPT ![w] = s]
  BY DEF Stop, GiveUp, Crash
<1>3. endpoints' = endpoints
  BY DEF Stop, GiveUp, Crash
<1>4. workers[w].at # "off"
  BY DEF Stop, GiveUp, Crash, Active, Awaiting
<1>5. \A k \in Handlers :
          requests'[k] = IF requests[k].by = w
                         THEN [requests[k] EXCEPT !.by = NoWorker] ELSE requests[k]
  <2>1. CASE Stop(w)
    <3>1. \A k \in Handlers : requests[k].by # w
      BY <2>1, RegistryStepsAssumption DEF Stop, RequestsAreOwn, OwnRequest, Asked
    <3> QED
      BY <2>1, <3>1 DEF Stop
  <2>2. CASE Abandon(w)
    BY <2>2 DEF Abandon
  <2> QED
    BY <2>1, <2>2 DEF GiveUp, Crash
<1>6. requests' \in [Handlers -> EndpointRequest]
  <2>1. \A k \in Handlers : requests'[k] \in EndpointRequest
    <3> SUFFICES ASSUME NEW k \in Handlers
                 PROVE  requests'[k] \in EndpointRequest
      OBVIOUS
    <3>1. requests[k] \in EndpointRequest
      BY <1>1
    <3>2. [requests[k] EXCEPT !.by = NoWorker] \in EndpointRequest
      BY ONLY <3>1 DEF EndpointRequest
    <3> QED
      BY <1>5, <3>1, <3>2
  <2>2. \E F : requests' = [k \in Handlers |-> F[k]]
    <3>1. CASE Stop(w)
      <4>1. requests' = [k \in Handlers |-> requests[k]]
        BY <1>1, <3>1 DEF Stop
      <4> QED
        BY <4>1
    <3>2. CASE Abandon(w)
      <4> DEFINE F == [h \in Handlers |-> IF requests[h].by = w
                                          THEN [requests[h] EXCEPT !.by = NoWorker]
                                          ELSE requests[h]]
      <4>1. requests' = F
        BY <3>2 DEF Abandon
      <4>2. F = [k \in Handlers |-> F[k]]
        OBVIOUS
      <4> QED
        BY <4>1, <4>2
    <3> QED
      BY <3>1, <3>2 DEF GiveUp, Crash
  <2> QED
    BY <2>1, <2>2
<1> QED
  BY <1>1, <1>2, <1>3, <1>4, <1>5, <1>6

\* A request that is refused.
LEMMA RefuseEffect ==
    ASSUME RegistryStepsTypeOK, NEW h \in Handlers, Refuse(h)
    PROVE  /\ endpoints' = endpoints
           /\ workers' \in [Workers -> WorkerState]
           /\ \A w \in Workers : workers'[w] = IF requests[h].by = w THEN Failed(workers[w])
                                                                     ELSE workers[w]
           /\ requests' \in [Handlers -> EndpointRequest]
           /\ requests'[h] = Idle
           /\ \A k \in Handlers \ {h} : requests'[k] = requests[k]
<1>1. \A w \in Workers : workers[w] \in WorkerState /\ Failed(workers[w]) \in WorkerState
  BY Typed, FailedType
<1>2. requests \in [Handlers -> EndpointRequest] /\ Idle \in EndpointRequest
  <2>1. requests[h].e \in Endpoints
    BY Typed DEF EndpointRequest
  <2> QED
    BY <2>1, IdleType DEF RegistryStepsTypeOK
<1> QED
  BY <1>1, <1>2 DEF Refuse

\* A request whose record is written, and accepted.
Writes(h, record) ==
    /\ endpoints' = [endpoints EXCEPT ![requests[h].e] = record]
    /\ Accept(h)
    /\ requests' = Served(h)

\* The request k after the record of another on the endpoint e is written.
Outdated(k, e) ==
    IF requests[k].e = e THEN [requests[k] EXCEPT !.current = FALSE] ELSE requests[k]

LEMMA WriteEffect ==
    ASSUME RegistryStepsTypeOK, NEW h \in Handlers, NEW record \in Endpoint, Writes(h, record)
    PROVE  /\ endpoints' \in [Endpoints -> Endpoint]
           /\ endpoints'[requests[h].e] = record
           /\ \A e \in Endpoints \ {requests[h].e} : endpoints'[e] = endpoints[e]
           /\ workers' \in [Workers -> WorkerState]
           /\ \A w \in Workers : workers'[w] = IF requests[h].by = w THEN Accepted(workers[w])
                                                                     ELSE workers[w]
           /\ requests' \in [Handlers -> EndpointRequest]
           /\ requests'[h] = Idle
           /\ \A k \in Handlers \ {h} : requests'[k] = Outdated(k, requests[h].e)
<1>1. \A w \in Workers : workers[w] \in WorkerState /\ Accepted(workers[w]) \in WorkerState
  BY Typed, AcceptedType
<1>2. /\ \A k \in Handlers : requests[k] \in EndpointRequest
      /\ endpoints \in [Endpoints -> Endpoint] /\ requests[h].e \in Endpoints
  BY Typed DEF EndpointRequest, RegistryStepsTypeOK, RegistryTypeOK
<1>3. Idle \in EndpointRequest
  BY <1>2, IdleType
<1>4. workers' = [w \in Workers |-> IF requests[h].by = w THEN Accepted(workers[w])
                                                          ELSE workers[w]]
  BY DEF Writes, Accept
<1>5. requests' = [k \in Handlers |-> IF k = h THEN Idle ELSE Outdated(k, requests[h].e)]
  BY DEF Writes, Served, Outdated
<1>6. \A k \in Handlers : Outdated(k, requests[h].e) \in EndpointRequest
  <2> SUFFICES ASSUME NEW k \in Handlers
               PROVE  Outdated(k, requests[h].e) \in EndpointRequest
    OBVIOUS
  <2>1. requests[k] \in EndpointRequest
    BY <1>2
  <2>2. [requests[k] EXCEPT !.current = FALSE] \in EndpointRequest
    BY ONLY <2>1 DEF EndpointRequest
  <2> QED
    BY <2>1, <2>2 DEF Outdated
<1>7. endpoints' = [endpoints EXCEPT ![requests[h].e] = record]
  BY DEF Writes
<1>8. requests' \in [Handlers -> EndpointRequest] /\ requests'[h] = Idle
      /\ \A k \in Handlers \ {h} : requests'[k] = Outdated(k, requests[h].e)
  BY <1>3, <1>5, <1>6
<1>9. workers' \in [Workers -> WorkerState]
      /\ \A w \in Workers : workers'[w] = IF requests[h].by = w THEN Accepted(workers[w])
                                                                ELSE workers[w]
  BY <1>1, <1>4
<1> QED
  BY <1>2, <1>7, <1>8, <1>9

\* A request that goes on without an answer: r is what it has become.
Takes(h, r) ==
    /\ requests' = [requests EXCEPT ![h] = r]
    /\ UNCHANGED <<endpoints, workers>>
    /\ requests[h].pc # "idle" /\ r.pc \in {"read", "write"}
    /\ r.op = requests[h].op /\ r.e = requests[h].e /\ r.conn = requests[h].conn
    /\ r.names = requests[h].names /\ r.by = requests[h].by
    /\ r.pc = "read" => r.op # "advertise"
    /\ r.current \/ (r.pc = "write" /\ requests[h].pc = "read")
    /\ (requests[h].current \/ requests[h].pc # "read") => r.current
    /\ r.pc = "write" /\ r.op = "register" => r.copy.conn = r.conn /\ r.copy.names = r.names
    /\ r.current /\ CopiesAgree => CopyAgrees(r, endpoints[r.e])

LEMMA ServerTakes ==
    ASSUME RegistryStepsTypeOK, RequestsAreOwn, NEW h \in Handlers,
           ReadEndpoint(h) \/ DecideRegistration(h) \/ DecideHeartbeat(h) \/ ReadForUpdate(h)
    PROVE  \E r \in EndpointRequest : Takes(h, r)
<1> DEFINE q == requests[h]
<1>1. q \in EndpointRequest /\ endpoints[q.e] \in Endpoint /\ q.copy \in Endpoint
  BY Typed DEF EndpointRequest
<1>2. HeartbeatTicks \in Countdown(HeartbeatTicks)
  BY ConstantTypes
<1>3. ASSUME ReadEndpoint(h)
      PROVE  \E r \in EndpointRequest : Takes(h, r)
  <2> DEFINE r == [q EXCEPT !.pc = "read", !.copy = endpoints[q.e], !.current = TRUE]
  <2>1. r \in EndpointRequest
    BY <1>1 DEF EndpointRequest
  <2>2. /\ r.pc = "read" /\ r.copy = endpoints[q.e] /\ r.current
        /\ r.op = q.op /\ r.e = q.e /\ r.conn = q.conn /\ r.names = q.names /\ r.by = q.by
    BY <1>1 DEF EndpointRequest
  <2>3. requests' = [requests EXCEPT ![h] = r]
    BY <1>3 DEF ReadEndpoint, RegistryStepsTypeOK
  <2>4. /\ UNCHANGED <<endpoints, workers>> /\ q.pc = "arrived" /\ q.op # "advertise"
        /\ q.op = "register" \/ endpoints[q.e].conn # "unregistered"
    BY <1>3 DEF ReadEndpoint, IsRegistered
  <2> HIDE DEF r
  <2>5. CopyAgrees(r, endpoints[r.e])
    BY <2>2, <2>4 DEF CopyAgrees
  <2> QED
    BY <2>1, <2>2, <2>3, <2>4, <2>5 DEF Takes
<1>4. ASSUME DecideRegistration(h)
      PROVE  \E r \in EndpointRequest : Takes(h, r)
  <2> DEFINE record == [conn |-> q.conn, beat |-> HeartbeatTicks, names |-> q.names]
             r == [q EXCEPT !.pc = "write", !.copy = record]
  <2>0. record \in Endpoint
    BY <1>1, <1>2 DEF EndpointRequest, Endpoint, ConnectionState
  <2>1. record.conn = q.conn /\ record.names = q.names
    OBVIOUS
  <2>2. requests' = [requests EXCEPT ![h] = r]
    BY <1>4 DEF DecideRegistration, Decided
  <2>3. /\ UNCHANGED <<endpoints, workers>> /\ q.pc = "read" /\ q.op = "register"
        /\ CopyIsStale(q)
    BY <1>4 DEF DecideRegistration
  <2> HIDE DEF record
  <2>4. r \in EndpointRequest
    BY <1>1, <2>0 DEF EndpointRequest
  <2>5. /\ r.pc = "write" /\ r.copy = record /\ r.current = q.current
        /\ r.op = q.op /\ r.e = q.e /\ r.conn = q.conn /\ r.names = q.names /\ r.by = q.by
    BY <1>1 DEF EndpointRequest
  <2> HIDE DEF r
  <2>6. r.current /\ CopiesAgree => CopyAgrees(r, endpoints[r.e])
    <3> SUFFICES ASSUME r.current, CopiesAgree
                 PROVE  CopyAgrees(r, endpoints[r.e])
      OBVIOUS
    <3>1. CopyAgrees(q, endpoints[q.e])
      BY <2>5 DEF CopiesAgree
    <3>2. q.copy = endpoints[q.e]
      BY <2>3, <3>1 DEF CopyAgrees
    <3> QED
      BY <2>3, <2>5, <3>2 DEF CopyAgrees, CopyIsStale
  <2> QED
    BY <2>1, <2>2, <2>3, <2>4, <2>5, <2>6 DEF Takes
<1>5. ASSUME DecideHeartbeat(h)
      PROVE  \E r \in EndpointRequest : Takes(h, r)
  <2> DEFINE record == [q.copy EXCEPT !.conn = q.conn, !.beat = HeartbeatTicks]
             r == [q EXCEPT !.pc = "write", !.copy = record]
  <2>0. record \in Endpoint
    BY <1>1, <1>2 DEF EndpointRequest, Endpoint, ConnectionState
  <2>1. record.conn = q.conn /\ record.names = q.copy.names
    BY <1>1 DEF Endpoint
  <2>2. requests' = [requests EXCEPT ![h] = r]
    BY <1>5 DEF DecideHeartbeat, Decided
  <2>3. /\ UNCHANGED <<endpoints, workers>> /\ q.pc = "read" /\ q.op = "heartbeat"
    BY <1>5 DEF DecideHeartbeat
  <2> HIDE DEF record
  <2>4. r \in EndpointRequest
    BY <1>1, <2>0 DEF EndpointRequest
  <2>5. /\ r.pc = "write" /\ r.copy = record /\ r.current = q.current
        /\ r.op = q.op /\ r.e = q.e /\ r.conn = q.conn /\ r.names = q.names /\ r.by = q.by
    BY <1>1 DEF EndpointRequest
  <2> HIDE DEF r
  <2>6. r.current /\ CopiesAgree => CopyAgrees(r, endpoints[r.e])
    <3> SUFFICES ASSUME r.current, CopiesAgree
                 PROVE  CopyAgrees(r, endpoints[r.e])
      OBVIOUS
    <3>1. CopyAgrees(q, endpoints[q.e])
      BY <2>5 DEF CopiesAgree
    <3>2. q.copy = endpoints[q.e] /\ endpoints[q.e].conn # "unregistered"
      BY <2>3, <3>1 DEF CopyAgrees
    <3> QED
      BY <2>1, <2>3, <2>5, <3>2 DEF CopyAgrees
  <2> QED
    BY <2>1, <2>2, <2>3, <2>4, <2>5, <2>6 DEF Takes
<1>6. ASSUME ReadForUpdate(h)
      PROVE  \E r \in EndpointRequest : Takes(h, r)
  <2> DEFINE record == [endpoints[q.e] EXCEPT !.names = q.names]
             r == [q EXCEPT !.pc = "write", !.copy = record, !.current = TRUE]
  <2>0. record \in Endpoint
    BY <1>1 DEF EndpointRequest, Endpoint
  <2>1. requests' = [requests EXCEPT ![h] = r]
    BY <1>6 DEF ReadForUpdate, Decided
  <2>2. /\ UNCHANGED <<endpoints, workers>> /\ q.pc = "arrived" /\ q.op = "advertise"
        /\ endpoints[q.e].conn # "unregistered"
    BY <1>6 DEF ReadForUpdate, IsRegistered
  <2>3. r \in EndpointRequest
    <3> HIDE DEF record
    <3> QED
      BY <1>1, <2>0 DEF EndpointRequest
  <2>4. /\ r.pc = "write" /\ r.copy = record /\ r.current
        /\ r.op = q.op /\ r.e = q.e /\ r.conn = q.conn /\ r.names = q.names /\ r.by = q.by
    <3> HIDE DEF record
    <3> QED
      BY <1>1 DEF EndpointRequest
  <2> HIDE DEF r
  <2>a. /\ record.conn = endpoints[q.e].conn /\ record.beat = endpoints[q.e].beat
        /\ record.names = q.names
    BY <1>1 DEF Endpoint
  <2> HIDE DEF record
  <2>5. CopyAgrees(r, endpoints[r.e])
    BY <2>2, <2>4, <2>a DEF CopyAgrees
  <2> QED
    BY <2>1, <2>2, <2>3, <2>4, <2>5 DEF Takes
<1> QED
  BY <1>3, <1>4, <1>5, <1>6

-----------------------------------------------------------------------------
(* Every step is one of these.                                             *)

SendsOne(w) ==
    \E s \in WorkerState, op \in {"register", "heartbeat", "advertise"},
       conn \in {"online", "offline"} :
        /\ Send(w, s, op, conn)
        /\ workers[w].at \notin Awaiting
        /\ Asked(s.at, op, conn)
        /\ s.names \in CapabilitySets
        /\ workers[w].at = "off" <=> op = "register"
        /\ workers[w].at = "ended" <=> s.at = "leaving"
        /\ s.at \in Told => workers[w].at \in Told /\ s.names = workers[w].names
        /\ s.at = "renewing" => workers[w].at \in Told

Leaves(w) == Stop(w) \/ GiveUp(w) \/ Crash(w)

Refuses(h) == Refuse(h) /\ requests[h].pc # "idle"

\* An advertisement in memory has not read the endpoint before.
Serves(h, record) ==
    /\ Writes(h, record)
    /\ \/ SaveEndpoint(h) /\ requests[h].pc = "write" /\ record = requests[h].copy
       \/ /\ requests[h].pc = "arrived" /\ requests[h].op = "advertise"
          /\ AdvertiseCapabilities(requests[h].e, requests[h].names)
          /\ record = [endpoints[requests[h].e] EXCEPT !.names = requests[h].names]

Steps ==
    \/ \E w \in Workers : SendsOne(w) \/ Leaves(w)
    \/ \E h \in Handlers : \/ Refuses(h)
                           \/ \E r \in EndpointRequest : Takes(h, r)
                           \/ \E record \in Endpoint : Serves(h, record)
    \/ ServerRestarts
    \/ TimePasses

LEMMA WorkerSteps ==
    ASSUME RegistryStepsTypeOK, RequestsAreOwn, NEW w \in Workers, WorkerStep(w)
    PROVE  SendsOne(w) \/ Leaves(w)
<1>1. CASE Stop(w) \/ GiveUp(w) \/ Crash(w)
  BY <1>1 DEF Leaves
<1>2. CASE \/ \E names \in CapabilitySets :
                 Start(w, names) \/ RefreshDynamicCapabilities(w, names)
           \/ SendHeartbeat(w) \/ Announce(w) \/ MarkOffline(w)
  BY <1>2, WorkerSends DEF SendsOne
<1> QED
  BY <1>1, <1>2 DEF WorkerStep

LEMMA ServerSteps ==
    ASSUME RegistryStepsTypeOK, RequestsAreOwn, NEW h \in Handlers,
           ServerStep(h) \/ LoseRequest(h)
    PROVE  \/ Refuses(h)
           \/ \E r \in EndpointRequest : Takes(h, r)
           \/ \E record \in Endpoint : Serves(h, record)
<1> DEFINE q == requests[h]
<1>1. q \in EndpointRequest /\ endpoints[q.e] \in Endpoint /\ q.copy \in Endpoint
  BY Typed DEF EndpointRequest
<1>2. CASE EndpointNotFound(h) \/ EndpointAlreadyOnline(h)
  BY <1>2 DEF EndpointNotFound, EndpointAlreadyOnline, Refuses
<1>3. CASE LoseRequest(h)
  <2>1. workers' = [w \in Workers |->
            IF requests[h].by = w THEN Failed(workers[w]) ELSE workers[w]]
    <3>1. \A w \in Workers : requests[h].by # w
      BY <1>3, RegistryStepsAssumption DEF LoseRequest
    <3>2. workers = [w \in Workers |-> workers[w]]
      BY DEF RegistryStepsTypeOK
    <3> HIDE DEF Failed
    <3>3. [w \in Workers |->
              IF requests[h].by = w THEN Failed(workers[w]) ELSE workers[w]]
          = [w \in Workers |-> workers[w]]
      BY <3>1
    <3> QED
      BY <1>3, <3>2, <3>3 DEF LoseRequest
  <2> QED
    BY <1>3, <2>1 DEF LoseRequest, Refuses, Refuse
<1>4. CASE \/ ReadEndpoint(h) \/ DecideRegistration(h) \/ DecideHeartbeat(h)
           \/ ReadForUpdate(h)
  BY <1>4, ServerTakes
<1>5. CASE SaveEndpoint(h)
  <2>1. Serves(h, q.copy)
    BY <1>5 DEF SaveEndpoint, Serves, Writes
  <2> QED
    BY <1>1, <2>1
<1>6. CASE AdvertiseInMemory(h)
  <2> DEFINE record == [endpoints[q.e] EXCEPT !.names = q.names]
  <2>1. record \in Endpoint
    BY <1>1 DEF EndpointRequest, Endpoint
  <2>2. endpoints' = [endpoints EXCEPT ![q.e] = record]
    BY <1>6 DEF AdvertiseInMemory, AdvertiseCapabilities
  <2>3. Serves(h, record)
    BY <1>6, <2>2 DEF AdvertiseInMemory, Serves, Writes
  <2> QED
    BY <2>1, <2>3
<1> QED
  BY <1>2, <1>3, <1>4, <1>5, <1>6 DEF ServerStep

LEMMA EveryStep ==
    ASSUME RegistryStepsTypeOK, RequestsAreOwn, RegistryStepsNext
    PROVE  Observe /\ Steps
BY WorkerSteps, ServerSteps DEF RegistryStepsNext, Steps

\* What a restart and a tick come to, for each endpoint and request.
LEMMA RestartEffect ==
    ASSUME RegistryStepsTypeOK, ServerRestarts
    PROVE  /\ endpoints' \in [Endpoints -> Endpoint]
           /\ workers' = workers
           /\ requests' \in [Handlers -> EndpointRequest]
           /\ \A h \in Handlers : requests'[h] = Idle
           /\ \A e \in Endpoints : endpoints'[e] \in {Unregistered, endpoints[e]}
<1>1. Unregistered \in Endpoint /\ endpoints \in [Endpoints -> Endpoint]
  BY ConstantTypes DEF RegistryStepsTypeOK, RegistryTypeOK
<1>2. \A h \in Handlers : Idle \in EndpointRequest
  BY Typed, IdleType DEF EndpointRequest
<1> QED
  BY <1>1, <1>2 DEF ServerRestarts

LEMMA TickEffect ==
    ASSUME RegistryStepsTypeOK, TimePasses
    PROVE  /\ endpoints' \in [Endpoints -> Endpoint]
           /\ workers' = workers
           /\ requests' \in [Handlers -> EndpointRequest]
           /\ \A e \in Endpoints : endpoints'[e] = [endpoints[e] EXCEPT !.beat = Elapse(@)]
           /\ \A h \in Handlers :
                 requests'[h] = [requests[h] EXCEPT
                     !.copy = [requests[h].copy EXCEPT !.beat = Elapse(@)]]
<1>1. \A c \in Endpoint : [c EXCEPT !.beat = Elapse(@)] \in Endpoint
  <2> HIDE DEF Elapse
  <2> QED
    BY ElapseType DEF Endpoint
<1>2. /\ \A h \in Handlers : requests[h] \in EndpointRequest /\ requests[h].copy \in Endpoint
      /\ \A e \in Endpoints : endpoints[e] \in Endpoint
  BY Typed DEF EndpointRequest
<1> DEFINE Older(h) == [requests[h].copy EXCEPT !.beat = Elapse(@)]
           New(h) == [requests[h] EXCEPT !.copy = Older(h)]
<1>3. requests' = [h \in Handlers |-> New(h)]
  BY DEF TimePasses
<1>4. ASSUME NEW h \in Handlers
      PROVE  New(h) \in EndpointRequest
  <2>1. Older(h) \in Endpoint
    BY <1>1, <1>2
  <2> HIDE DEF Older
  <2> QED
    BY <1>2, <2>1 DEF EndpointRequest
<1>5. endpoints' = [e \in Endpoints |-> [endpoints[e] EXCEPT !.beat = Elapse(@)]]
  BY DEF TimePasses, RegistryTick
<1>6. endpoints' \in [Endpoints -> Endpoint]
  BY <1>1, <1>2, <1>5
<1>7. workers' = workers
  BY DEF TimePasses
<1> HIDE DEF New
<1>8. requests' \in [Handlers -> EndpointRequest] /\ \A h \in Handlers : requests'[h] = New(h)
  BY <1>3, <1>4
<1> QED
  BY <1>5, <1>6, <1>7, <1>8 DEF New

LEMMA TypesKept ==
    ASSUME RegistryStepsTypeOK, RequestsAreOwn, Steps, Observe
    PROVE  RegistryStepsTypeOK'
<1>1. /\ endpoints \in [Endpoints -> Endpoint] /\ workers \in [Workers -> WorkerState]
      /\ requests \in [Handlers -> EndpointRequest]
  BY DEF RegistryStepsTypeOK, RegistryTypeOK
<1>2. ASSUME NEW w \in Workers, SendsOne(w)
      PROVE  RegistryStepsTypeOK'
  BY <1>1, <1>2, SendEffect, ObservedTypes DEF SendsOne
<1>3. ASSUME NEW w \in Workers, Leaves(w)
      PROVE  RegistryStepsTypeOK'
  BY <1>1, <1>3, WorkerLeaves, ObservedTypes DEF Leaves
<1>4. ASSUME NEW h \in Handlers, Refuses(h)
      PROVE  RegistryStepsTypeOK'
  BY <1>1, <1>4, RefuseEffect, ObservedTypes DEF Refuses
<1>5. ASSUME NEW h \in Handlers, NEW r \in EndpointRequest, Takes(h, r)
      PROVE  RegistryStepsTypeOK'
  BY <1>1, <1>5, ObservedTypes DEF Takes
<1>6. ASSUME NEW h \in Handlers, NEW record \in Endpoint, Serves(h, record)
      PROVE  RegistryStepsTypeOK'
  BY <1>1, <1>6, WriteEffect, ObservedTypes DEF Serves
<1>7. CASE ServerRestarts
  BY <1>1, <1>7, RestartEffect, ObservedTypes
<1>8. CASE TimePasses
  BY <1>1, <1>8, TickEffect, ObservedTypes
<1> QED
  BY <1>2, <1>3, <1>4, <1>5, <1>6, <1>7, <1>8 DEF Steps

-----------------------------------------------------------------------------
(* A request is that of its worker, and the only one.                      *)

LEMMA FailedParts ==
    ASSUME NEW s \in WorkerState
    PROVE  Failed(s) = Off \/ (Failed(s).at = "ended" /\ Failed(s).names = s.names)
BY DEF Failed, WorkerState

LEMMA AcceptedParts ==
    ASSUME NEW s \in WorkerState, s.at \in Awaiting
    PROVE  /\ s.at = "registering" => Accepted(s).at = "joined"
           /\ s.at = "renewing" => Accepted(s).at = "renewed"
           /\ s.at = "beating" => Accepted(s).at \in {"beaten", "running"}
           /\ s.at = "announcing" => Accepted(s).at = "running"
           /\ s.at = "leaving" => Accepted(s) = Off
           /\ s.at # "leaving" => Accepted(s).names = s.names
<1>1. CASE s.at = "registering"
  <2>1. Accepted(s) = [s EXCEPT !.at = "joined"]
    BY <1>1 DEF Accepted
  <2> QED
    BY <1>1, <2>1 DEF WorkerState
<1>2. CASE s.at = "renewing"
  <2>1. Accepted(s) = [s EXCEPT !.at = "renewed"]
    BY <1>2 DEF Accepted
  <2> QED
    BY <1>2, <2>1 DEF WorkerState
<1>3. CASE s.at = "beating"
  <2>1. Accepted(s) = [s EXCEPT !.at = IF s.joining THEN "beaten" ELSE "running"]
    BY <1>3 DEF Accepted
  <2> QED
    BY <1>3, <2>1 DEF WorkerState
<1>4. CASE s.at = "announcing"
  <2>1. Accepted(s) = [s EXCEPT !.at = "running", !.joining = FALSE]
    BY <1>4 DEF Accepted
  <2> QED
    BY <1>4, <2>1 DEF WorkerState
<1>5. CASE s.at = "leaving"
  BY <1>5 DEF Accepted
<1> QED
  BY <1>1, <1>2, <1>3, <1>4, <1>5 DEF Awaiting

LEMMA IdleFields ==
    /\ Idle.pc = "idle" /\ Idle.op = "register" /\ Idle.conn = "online"
    /\ Idle.by = NoWorker /\ Idle.current = FALSE
<1>1. PICK d : Idle = [pc |-> "idle", op |-> "register", e |-> d,
                       conn |-> "online", names |-> {}, copy |-> Unregistered,
                       current |-> FALSE, by |-> NoWorker]
  BY IdleParts
<1> QED
  BY ONLY <1>1

\* The worker of a request is known; one that is not waited for has none.
LEMMA OwnerOfRequest ==
    ASSUME RegistryStepsTypeOK, RequestsAreOwn, NEW h \in Handlers
    PROVE  /\ requests[h].by # NoWorker =>
                  /\ requests[h].by \in Workers
                  /\ workers[requests[h].by].at \in Awaiting
                  /\ requests[h].pc # "idle"
           /\ requests[h].pc = "idle" => requests[h].by = NoWorker /\ ~requests[h].current
<1>1. requests[h] \in EndpointRequest /\ OwnRequest(requests[h])
  BY Typed DEF RequestsAreOwn
<1>2. requests[h].pc = "idle" => requests[h].by = NoWorker /\ ~requests[h].current
  BY <1>1, IdleFields DEF OwnRequest
<1>3. requests[h].by # NoWorker => requests[h].by \in Workers
  BY <1>1 DEF EndpointRequest
<1> QED
  BY <1>1, <1>2, <1>3 DEF OwnRequest, Asked, Awaiting

LEMMA OwnSends ==
    ASSUME RegistryStepsTypeOK, RequestsAreOwn, OneAtATime, NEW w \in Workers, SendsOne(w)
    PROVE  RequestsAreOwn' /\ OneAtATime'
<1>1. PICK s \in WorkerState, op \in {"register", "heartbeat", "advertise"},
           conn \in {"online", "offline"} :
        /\ Send(w, s, op, conn)
        /\ workers[w].at \notin Awaiting
        /\ Asked(s.at, op, conn)
        /\ s.names \in CapabilitySets
  BY DEF SendsOne
<1>2. PICK h \in Handlers : Asks(h, w, s, op, conn)
  BY <1>1, SendEffect
<1>3. workers'[w] = s /\ \A v \in Workers \ {w} : workers'[v] = workers[v]
  BY <1>1, SendEffect
<1>4. \A k \in Handlers : requests[k].by # w
  BY <1>1, OwnerOfRequest, RegistryStepsAssumption
<1>5. OwnRequest(requests[h])'
  BY <1>1, <1>2, <1>3, RegistryStepsAssumption DEF Asks, OwnRequest, Asked
<1>6. ASSUME NEW k \in Handlers \ {h}
      PROVE  OwnRequest(requests[k])'
  <2>1. requests'[k] = requests[k] /\ OwnRequest(requests[k])
    BY <1>2 DEF Asks, RequestsAreOwn
  <2>2. requests[k].by # NoWorker => workers'[requests[k].by] = workers[requests[k].by]
    BY <1>3, <1>4, OwnerOfRequest
  <2> QED
    BY <2>1, <2>2 DEF OwnRequest
<1>7. \A v \in Workers : Active(v)' => workers'[v].names \in CapabilitySets
  BY <1>1, <1>3 DEF RequestsAreOwn, Active
<1> QED
  BY <1>2, <1>4, <1>5, <1>6, <1>7 DEF Asks, RequestsAreOwn, OneAtATime

LEMMA OwnLeaves ==
    ASSUME RegistryStepsTypeOK, RequestsAreOwn, OneAtATime, NEW w \in Workers, Leaves(w)
    PROVE  RequestsAreOwn' /\ OneAtATime'
<1>1. /\ workers'[w] \in {Off, Failed(workers[w])} /\ workers[w].at # "off"
      /\ \A v \in Workers \ {w} : workers'[v] = workers[v]
      /\ \A k \in Handlers :
            requests'[k] = IF requests[k].by = w
                           THEN [requests[k] EXCEPT !.by = NoWorker] ELSE requests[k]
  BY WorkerLeaves DEF Leaves
<1>2. w # NoWorker /\ workers[w] \in WorkerState
  BY Typed, RegistryStepsAssumption
<1>3. \A v \in Workers : Active(v)' => workers'[v].names \in CapabilitySets
  <2>1. Off.at = "off"
    BY DEF Off
  <2>2. Failed(workers[w]) = Off \/ Failed(workers[w]).names = workers[w].names
    BY <1>2, FailedParts
  <2> QED
    BY <1>1, <2>1, <2>2 DEF RequestsAreOwn, Active
<1>4. ASSUME NEW k \in Handlers
      PROVE  OwnRequest(requests[k])'
  <2>1. requests[k] \in EndpointRequest /\ OwnRequest(requests[k])
    BY Typed DEF RequestsAreOwn
  <2>2. CASE requests[k].by = w
    <3>1. requests'[k] = [requests[k] EXCEPT !.by = NoWorker]
      BY <1>1, <2>2
    <3>2. /\ requests'[k].pc = requests[k].pc /\ requests'[k].op = requests[k].op
          /\ requests'[k].conn = requests[k].conn /\ requests'[k].names = requests[k].names
          /\ requests'[k].by = NoWorker
      BY <2>1, <3>1 DEF EndpointRequest
    <3>3. requests[k].pc # "idle"
      BY <1>2, <2>2, OwnerOfRequest
    <3> QED
      BY <2>1, <3>2, <3>3 DEF OwnRequest
  <2>3. CASE requests[k].by # w
    <3>1. requests'[k] = requests[k]
      BY <1>1, <2>3
    <3>2. requests[k].by # NoWorker => workers'[requests[k].by] = workers[requests[k].by]
      BY <1>1, <2>3, OwnerOfRequest
    <3> QED
      BY <2>1, <3>1, <3>2 DEF OwnRequest
  <2> QED
    BY <2>2, <2>3
<1>5. OneAtATime'
  <2>1. \A k \in Handlers : requests'[k].by \in {requests[k].by, NoWorker}
    BY <1>1, Typed DEF EndpointRequest
  <2> QED
    BY <2>1 DEF OneAtATime
<1> QED
  BY <1>3, <1>4, <1>5 DEF RequestsAreOwn

\* A handler h answers: its request is gone, and its worker alone has moved.
LEMMA OwnAnswers ==
    ASSUME RegistryStepsTypeOK, RequestsAreOwn, OneAtATime, NEW h \in Handlers,
           requests'[h] = Idle,
           \A k \in Handlers \ {h} :
               requests'[k] \in {requests[k], [requests[k] EXCEPT !.current = FALSE]},
           \A w \in Workers : \/ workers'[w] = workers[w]
                              \/ /\ requests[h].by = w
                                 /\ workers'[w] \in {Failed(workers[w]), Accepted(workers[w])}
    PROVE  RequestsAreOwn' /\ OneAtATime'
<1>1. ASSUME NEW w \in Workers, Active(w)'
      PROVE  workers'[w].names \in CapabilitySets
  <2>1. workers[w] \in WorkerState /\ Off.at = "off"
    BY Typed DEF Off
  <2>2. CASE workers'[w] = workers[w]
    BY <1>1, <2>2 DEF RequestsAreOwn, Active
  <2>3. CASE /\ requests[h].by = w
             /\ workers'[w] \in {Failed(workers[w]), Accepted(workers[w])}
    <3>1. workers[w].at \in Awaiting
      BY <2>3, OwnerOfRequest, RegistryStepsAssumption
    <3>2. workers[w].names \in CapabilitySets
      BY <3>1 DEF RequestsAreOwn, Active, Awaiting
    <3>3. workers'[w] = Off \/ workers'[w].names = workers[w].names
      BY <2>1, <2>3, <3>1, FailedParts, AcceptedParts
    <3> QED
      BY <1>1, <2>1, <3>2, <3>3 DEF Active
  <2> QED
    BY <2>2, <2>3
<1>2. OwnRequest(requests[h])'
  BY IdleFields DEF OwnRequest
<1>3. ASSUME NEW k \in Handlers \ {h}
      PROVE  /\ OwnRequest(requests[k])'
             /\ requests'[k].by = requests[k].by
  <2>1. requests[k] \in EndpointRequest /\ OwnRequest(requests[k])
    BY Typed DEF RequestsAreOwn
  <2>2. /\ requests'[k].pc = requests[k].pc /\ requests'[k].op = requests[k].op
        /\ requests'[k].conn = requests[k].conn /\ requests'[k].names = requests[k].names
        /\ requests'[k].by = requests[k].by /\ requests'[k].e = requests[k].e
    BY <2>1 DEF EndpointRequest
  <2>3. requests[k].pc = "idle" => requests'[k] = requests[k]
    <3>1. requests[k].pc = "idle" => requests[k].current = FALSE
      BY <2>1, IdleFields DEF OwnRequest
    <3>2. requests[k].current = FALSE => [requests[k] EXCEPT !.current = FALSE] = requests[k]
      BY <2>1 DEF EndpointRequest
    <3> QED
      BY <3>1, <3>2
  <2>4. requests[k].by # NoWorker => workers'[requests[k].by] = workers[requests[k].by]
    BY OwnerOfRequest DEF OneAtATime
  <2> QED
    BY <2>1, <2>2, <2>3, <2>4 DEF OwnRequest
<1>4. OneAtATime'
  BY <1>3, IdleFields DEF OneAtATime
<1> QED
  BY <1>1, <1>2, <1>3, <1>4 DEF RequestsAreOwn

LEMMA OwnTakes ==
    ASSUME RegistryStepsTypeOK, RequestsAreOwn, OneAtATime,
           NEW h \in Handlers, NEW r \in EndpointRequest, Takes(h, r)
    PROVE  RequestsAreOwn' /\ OneAtATime'
<1>1. /\ requests'[h] = r /\ workers' = workers
      /\ \A k \in Handlers \ {h} : requests'[k] = requests[k]
  BY DEF Takes, RegistryStepsTypeOK
<1>2. /\ r.op = requests[h].op /\ r.e = requests[h].e /\ r.conn = requests[h].conn
      /\ r.names = requests[h].names /\ r.by = requests[h].by
      /\ requests[h].pc # "idle" /\ r.pc \in {"read", "write"}
      /\ r.pc = "read" => r.op # "advertise"
  BY DEF Takes
<1>3. OwnRequest(requests[h])'
  BY <1>1, <1>2 DEF RequestsAreOwn, OwnRequest
<1>4. ASSUME NEW k \in Handlers \ {h}
      PROVE  OwnRequest(requests[k])'
  BY <1>1 DEF RequestsAreOwn, OwnRequest
<1> QED
  BY <1>1, <1>2, <1>3, <1>4 DEF RequestsAreOwn, OneAtATime, Active

LEMMA OwnTick ==
    ASSUME RegistryStepsTypeOK, RequestsAreOwn, OneAtATime, TimePasses
    PROVE  RequestsAreOwn' /\ OneAtATime'
<1>1. workers' = workers
  BY TickEffect
<1>2. ASSUME NEW h \in Handlers
      PROVE  OwnRequest(requests[h])' /\ requests'[h].by = requests[h].by
  <2> DEFINE q == requests[h]
             older == [q.copy EXCEPT !.beat = Elapse(@)]
  <2>1. q \in EndpointRequest /\ q.copy \in Endpoint /\ OwnRequest(q)
    BY Typed DEF EndpointRequest, RequestsAreOwn
  <2>2. requests'[h] = [q EXCEPT !.copy = older]
    BY TickEffect
  <2>3. q = Idle => older = q.copy
    <3>1. Idle.copy = Unregistered
      <4>1. PICK d : Idle = [pc |-> "idle", op |-> "register", e |-> d,
                             conn |-> "online", names |-> {}, copy |-> Unregistered,
                             current |-> FALSE, by |-> NoWorker]
        BY IdleParts
      <4> QED
        BY ONLY <4>1
    <3>2. q = Idle => q.copy.beat = Expired
      BY <3>1 DEF Unregistered
    <3> QED
      BY <2>1, <3>2 DEF Endpoint, Elapse
  <2> HIDE DEF older
  <2>4. q = Idle => requests'[h] = q
    <3>1. older = q.copy => [q EXCEPT !.copy = older] = q
      BY <2>1 DEF EndpointRequest
    <3> QED
      BY <2>2, <2>3, <3>1
  <2>5. /\ requests'[h].pc = q.pc /\ requests'[h].op = q.op /\ requests'[h].e = q.e
        /\ requests'[h].conn = q.conn /\ requests'[h].names = q.names
        /\ requests'[h].by = q.by
    BY <2>1, <2>2 DEF EndpointRequest
  <2> QED
    BY <1>1, <2>1, <2>4, <2>5 DEF OwnRequest
<1> QED
  BY <1>1, <1>2 DEF RequestsAreOwn, OneAtATime, Active

LEMMA OwnKept ==
    ASSUME RegistryStepsTypeOK, RequestsAreOwn, OneAtATime, Steps
    PROVE  RequestsAreOwn' /\ OneAtATime'
<1>1. ASSUME NEW h \in Handlers, Refuses(h)
      PROVE  RequestsAreOwn' /\ OneAtATime'
  <2>1. Refuse(h)
    BY <1>1 DEF Refuses
  <2>2. /\ requests'[h] = Idle
        /\ \A k \in Handlers \ {h} : requests'[k] = requests[k]
        /\ \A w \in Workers : workers'[w] = IF requests[h].by = w THEN Failed(workers[w])
                                                                  ELSE workers[w]
    BY <2>1, RefuseEffect
  <2> QED
    BY <2>2, OwnAnswers
<1>2. ASSUME NEW h \in Handlers, NEW record \in Endpoint, Serves(h, record)
      PROVE  RequestsAreOwn' /\ OneAtATime'
  <2>1. Writes(h, record)
    BY <1>2 DEF Serves
  <2>2. /\ requests'[h] = Idle
        /\ \A k \in Handlers \ {h} : requests'[k] = Outdated(k, requests[h].e)
        /\ \A w \in Workers : workers'[w] = IF requests[h].by = w THEN Accepted(workers[w])
                                                                  ELSE workers[w]
    BY <2>1, WriteEffect
  <2>3. \A k \in Handlers \ {h} :
            requests'[k] \in {requests[k], [requests[k] EXCEPT !.current = FALSE]}
    BY <2>2 DEF Outdated
  <2>4. \A w \in Workers : \/ workers'[w] = workers[w]
                           \/ /\ requests[h].by = w
                              /\ workers'[w] \in {Failed(workers[w]), Accepted(workers[w])}
    BY <2>2
  <2> QED
    BY <2>2, <2>3, <2>4, OwnAnswers
<1>3. CASE ServerRestarts
  <2>1. workers' = workers /\ \A h \in Handlers : requests'[h] = Idle
    BY <1>3, RestartEffect
  <2> QED
    BY <2>1, IdleFields DEF RequestsAreOwn, OwnRequest, OneAtATime, Active
<1>4. CASE TimePasses
  BY <1>4, OwnTick
<1> QED
  BY <1>1, <1>2, <1>3, <1>4, OwnSends, OwnLeaves, OwnTakes DEF Steps

-----------------------------------------------------------------------------
(* What a copy tells of the registry.                                      *)

\* A request that is not current, and has no record to write, tells nothing.
LEMMA AgreeSends ==
    ASSUME RegistryStepsTypeOK, CopiesAgree, NEW w \in Workers, SendsOne(w)
    PROVE  CopiesAgree'
<1>1. PICK s \in WorkerState, op \in {"register", "heartbeat", "advertise"},
           conn \in {"online", "offline"} : Send(w, s, op, conn)
  BY DEF SendsOne
<1>2. PICK h \in Handlers : Asks(h, w, s, op, conn)
  BY <1>1, SendEffect
<1>3. endpoints' = endpoints
  BY <1>1, SendEffect
<1> QED
  BY <1>2, <1>3 DEF CopiesAgree, Asks, CopyAgrees

LEMMA AgreeLeaves ==
    ASSUME RegistryStepsTypeOK, RequestsAreOwn, CopiesAgree, NEW w \in Workers, Leaves(w)
    PROVE  CopiesAgree'
<1>1. /\ endpoints' = endpoints
      /\ \A k \in Handlers :
            requests'[k] = IF requests[k].by = w
                           THEN [requests[k] EXCEPT !.by = NoWorker] ELSE requests[k]
  BY WorkerLeaves DEF Leaves
<1>2. ASSUME NEW k \in Handlers
      PROVE  /\ requests'[k].pc = requests[k].pc /\ requests'[k].op = requests[k].op
             /\ requests'[k].conn = requests[k].conn /\ requests'[k].names = requests[k].names
             /\ requests'[k].e = requests[k].e /\ requests'[k].copy = requests[k].copy
             /\ requests'[k].current = requests[k].current
  BY <1>1, Typed DEF EndpointRequest
<1> QED
  BY <1>1, <1>2 DEF CopiesAgree, CopyAgrees

LEMMA AgreeRefuses ==
    ASSUME RegistryStepsTypeOK, CopiesAgree, NEW h \in Handlers, Refuses(h)
    PROVE  CopiesAgree'
<1>1. /\ endpoints' = endpoints /\ requests'[h] = Idle
      /\ \A k \in Handlers \ {h} : requests'[k] = requests[k]
  BY RefuseEffect DEF Refuses
<1> QED
  BY <1>1, IdleFields DEF CopiesAgree, CopyAgrees

LEMMA AgreeTakes ==
    ASSUME RegistryStepsTypeOK, RequestsAreOwn, CopiesAgree,
           NEW h \in Handlers, NEW r \in EndpointRequest, Takes(h, r)
    PROVE  CopiesAgree'
<1>1. /\ requests'[h] = r /\ endpoints' = endpoints
      /\ \A k \in Handlers \ {h} : requests'[k] = requests[k]
  BY DEF Takes, RegistryStepsTypeOK
<1>2. r.current => CopyAgrees(r, endpoints[r.e])
  BY DEF Takes
<1>3. r.pc = "write" /\ r.op = "register" => r.copy.conn = "online" /\ r.copy.names = r.names
  BY DEF Takes, RequestsAreOwn, OwnRequest
<1>4. ASSUME NEW k \in Handlers
      PROVE  LET q == requests'[k] IN
             /\ q.current => CopyAgrees(q, endpoints[q.e])
             /\ q.pc = "write" /\ q.op = "register" =>
                   q.copy.conn = "online" /\ q.copy.names = q.names
  BY <1>1, <1>2, <1>3 DEF CopiesAgree
<1> QED
  BY <1>1, <1>4 DEF CopiesAgree, CopyAgrees

LEMMA AgreeServes ==
    ASSUME RegistryStepsTypeOK, CopiesAgree,
           NEW h \in Handlers, NEW record \in Endpoint, Serves(h, record)
    PROVE  CopiesAgree'
<1>1. /\ requests'[h] = Idle
      /\ \A k \in Handlers \ {h} : requests'[k] = Outdated(k, requests[h].e)
      /\ \A e \in Endpoints \ {requests[h].e} : endpoints'[e] = endpoints[e]
  BY WriteEffect DEF Serves
<1>2. ASSUME NEW k \in Handlers \ {h}
      PROVE  LET q == requests'[k] IN
             /\ q.current => CopyAgrees(q, endpoints'[q.e])
             /\ q.pc = "write" /\ q.op = "register" =>
                   q.copy.conn = "online" /\ q.copy.names = q.names
  <2>1. requests[k] \in EndpointRequest
    BY Typed
  <2>2. CASE requests[k].e = requests[h].e
    <3>1. requests'[k] = [requests[k] EXCEPT !.current = FALSE]
      BY <1>1, <2>2 DEF Outdated
    <3>2. /\ requests'[k].current = FALSE /\ requests'[k].pc = requests[k].pc
          /\ requests'[k].op = requests[k].op /\ requests'[k].copy = requests[k].copy
          /\ requests'[k].names = requests[k].names
      BY <2>1, <3>1 DEF EndpointRequest
    <3> QED
      BY <3>2 DEF CopiesAgree
  <2>3. CASE requests[k].e # requests[h].e
    <3>1. requests'[k] = requests[k]
      BY <1>1, <2>3 DEF Outdated
    <3>2. endpoints'[requests[k].e] = endpoints[requests[k].e]
      BY <1>1, <2>1, <2>3 DEF EndpointRequest
    <3> QED
      BY <3>1, <3>2 DEF CopiesAgree
  <2> QED
    BY <2>2, <2>3
<1> QED
  BY <1>1, <1>2, IdleFields DEF CopiesAgree, CopyAgrees

LEMMA AgreeTick ==
    ASSUME RegistryStepsTypeOK, CopiesAgree, TimePasses
    PROVE  CopiesAgree'
<1>1. Elapse(Expired) = Expired
  BY DEF Elapse
<1>2. ASSUME NEW h \in Handlers
      PROVE  LET q == requests'[h] IN
             /\ q.current => CopyAgrees(q, endpoints'[q.e])
             /\ q.pc = "write" /\ q.op = "register" =>
                   q.copy.conn = "online" /\ q.copy.names = q.names
  <2> DEFINE q == requests[h]
             older == [q.copy EXCEPT !.beat = Elapse(@)]
             record == endpoints[q.e]
  <2>1. q \in EndpointRequest /\ q.copy \in Endpoint /\ record \in Endpoint /\ q.e \in Endpoints
    BY Typed DEF EndpointRequest
  <2>2. requests'[h] = [q EXCEPT !.copy = older]
    BY TickEffect
  <2>3. /\ older.conn = q.copy.conn /\ older.names = q.copy.names
        /\ older.beat = Elapse(q.copy.beat)
    BY <2>1 DEF Endpoint
  <2>4. endpoints'[q.e] = [record EXCEPT !.beat = Elapse(@)]
    BY <2>1, TickEffect
  <2>5. /\ endpoints'[q.e].conn = record.conn /\ endpoints'[q.e].names = record.names
        /\ endpoints'[q.e].beat = Elapse(record.beat)
    BY <2>1, <2>4 DEF Endpoint
  <2>6. q.copy = record => older = endpoints'[q.e]
    BY <2>4
  <2> HIDE DEF older
  <2>7. /\ requests'[h].pc = q.pc /\ requests'[h].op = q.op /\ requests'[h].e = q.e
        /\ requests'[h].conn = q.conn /\ requests'[h].names = q.names
        /\ requests'[h].current = q.current /\ requests'[h].copy = older
    BY <2>1, <2>2 DEF EndpointRequest
  <2>8. q.current => CopyAgrees(q, record)
    BY DEF CopiesAgree
  <2>9. q.pc = "write" /\ q.op = "register" => q.copy.conn = "online" /\ q.copy.names = q.names
    BY DEF CopiesAgree
  <2>10. q.current => CopyAgrees(requests'[h], endpoints'[q.e])
    BY <1>1, <2>3, <2>5, <2>6, <2>7, <2>8 DEF CopyAgrees
  <2> QED
    BY <2>3, <2>7, <2>9, <2>10
<1> QED
  BY <1>2 DEF CopiesAgree, CopyAgrees

LEMMA CopiesKept ==
    ASSUME RegistryStepsTypeOK, RequestsAreOwn, CopiesAgree, Steps
    PROVE  CopiesAgree'
<1>1. CASE ServerRestarts
  BY <1>1, RestartEffect, IdleFields DEF CopiesAgree, CopyAgrees
<1>2. CASE TimePasses
  BY <1>2, AgreeTick
<1> QED
  BY <1>1, <1>2, AgreeSends, AgreeLeaves, AgreeRefuses, AgreeTakes, AgreeServes DEF Steps

-----------------------------------------------------------------------------
(* Who holds an endpoint ref.                                              *)

\* A worker whose registration is accepted has an answer from a handler that
\* writes; if that had read what it replaces, the endpoint was stale.
LEMMA DecidedParts ==
    ASSUME RegistryStepsTypeOK, RequestsAreOwn, OneAtATime, CopiesAgree, Steps,
           NEW w \in Workers, DecidedOnCurrent(w)
    PROVE  /\ EndpointIsStale(RefOf[w])
           /\ \A v \in Workers \ {w} : ~DecidedOnCurrent(v)
<1>1. /\ workers[w].at = "registering" /\ workers'[w].at = "joined"
      /\ workers[w] \in WorkerState
  BY Typed DEF DecidedOnCurrent
<1>2. PICK k \in Handlers : requests[k].by = w /\ requests[k].current
  BY DEF DecidedOnCurrent
<1>3. /\ requests[k].op = "register" /\ requests[k].e = RefOf[w]
      /\ CopyAgrees(requests[k], endpoints[RefOf[w]])
  BY <1>1, <1>2, RegistryStepsAssumption
     DEF RequestsAreOwn, OwnRequest, Asked, CopiesAgree
<1>4. Failed(workers[w]).at \in {"off", "ended"} /\ Off.at = "off"
  BY <1>1, FailedParts DEF Off
<1>5. \E h \in Handlers, record \in Endpoint : Serves(h, record)
  <2>1. ASSUME NEW u \in Workers, SendsOne(u)
        PROVE  FALSE
    <3>1. PICK s \in WorkerState, op \in {"register", "heartbeat", "advertise"},
               conn \in {"online", "offline"} :
                  Send(u, s, op, conn) /\ workers[u].at \notin Awaiting
      BY <2>1 DEF SendsOne
    <3>2. u # w /\ \A v \in Workers \ {u} : workers'[v] = workers[v]
      BY <1>1, <3>1, SendEffect DEF Awaiting
    <3> QED
      BY <1>1, <3>2
  <2>2. ASSUME NEW u \in Workers, Leaves(u)
        PROVE  FALSE
    <3>1. /\ workers'[u] \in {Off, Failed(workers[u])}
          /\ \A v \in Workers \ {u} : workers'[v] = workers[v]
      BY <2>2, WorkerLeaves DEF Leaves
    <3> QED
      BY <1>1, <1>4, <3>1
  <2>3. ASSUME NEW h \in Handlers, Refuses(h)
        PROVE  FALSE
    <3>1. workers'[w] \in {Failed(workers[w]), workers[w]}
      BY <2>3, RefuseEffect DEF Refuses
    <3> QED
      BY <1>1, <1>4, <3>1
  <2>4. ASSUME NEW h \in Handlers, NEW r \in EndpointRequest, Takes(h, r)
        PROVE  FALSE
    BY <1>1, <2>4 DEF Takes
  <2>5. CASE ServerRestarts \/ TimePasses
    BY <1>1, <2>5 DEF ServerRestarts, TimePasses
  <2> QED
    BY <2>1, <2>2, <2>3, <2>4, <2>5 DEF Steps
<1>6. PICK h \in Handlers, record \in Endpoint : Serves(h, record)
  BY <1>5
<1>7. \A v \in Workers : workers'[v] = IF requests[h].by = v THEN Accepted(workers[v])
                                                             ELSE workers[v]
  BY <1>6, WriteEffect DEF Serves
<1>8. requests[h].by = w /\ h = k
  <2>1. requests[h].by = w
    BY <1>1, <1>7
  <2> QED
    BY <1>2, <2>1, RegistryStepsAssumption DEF OneAtATime
<1>9. requests[k].pc = "write"
  BY <1>3, <1>6, <1>8 DEF Serves
<1>10. EndpointIsStale(RefOf[w])
  BY <1>3, <1>9 DEF CopyAgrees, EndpointIsStale
<1>11. \A v \in Workers \ {w} : workers'[v] = workers[v]
  BY <1>7, <1>8
<1> QED
  BY <1>10, <1>11 DEF DecidedOnCurrent

LEMMA HoldersKept ==
    ASSUME RegistryStepsTypeOK, RequestsAreOwn, OneAtATime, CopiesAgree, HoldersAreFresh,
           OneWorkerPerEndpoint, Steps, Observe
    PROVE  HoldersAreFresh' /\ OneWorkerPerEndpoint'
<1>1. ASSUME NEW w \in Workers, holds'[w]
      PROVE  /\ holds[w] \/ DecidedOnCurrent(w)
             /\ workers'[w].at # "off"
             /\ ~EndpointIsStale(RefOf[w])'
  BY <1>1 DEF Observe
<1>2. HoldersAreFresh'
  BY <1>1 DEF HoldersAreFresh, Active
<1>3. ASSUME NEW w \in Workers, NEW v \in Workers, holds'[w], holds'[v],
             RefOf[w] = RefOf[v], w # v
      PROVE  FALSE
  <2>1. CASE holds[w] /\ holds[v]
    BY <1>3, <2>1 DEF OneWorkerPerEndpoint
  <2>2. CASE DecidedOnCurrent(w)
    <3>1. EndpointIsStale(RefOf[v]) /\ ~DecidedOnCurrent(v)
      BY <1>3, <2>2, DecidedParts
    <3> QED
      BY <1>1, <1>3, <3>1 DEF HoldersAreFresh
  <2>3. CASE DecidedOnCurrent(v)
    <3>1. EndpointIsStale(RefOf[w]) /\ ~DecidedOnCurrent(w)
      BY <1>3, <2>3, DecidedParts
    <3> QED
      BY <1>1, <1>3, <3>1 DEF HoldersAreFresh
  <2> QED
    BY <1>1, <1>3, <2>1, <2>2, <2>3
<1>4. OneWorkerPerEndpoint'
  BY <1>3 DEF OneWorkerPerEndpoint
<1> QED
  BY <1>2, <1>4

-----------------------------------------------------------------------------
(* What is known of a worker that runs alone.                              *)

\* The part of AloneIsKnown that a step may disturb.
Known(w) ==
    /\ workers[w].at \notin {"ended", "leaving"} => OnlyItsOwn(w)
    /\ AsItTold(w)

LEMMA AloneObserved ==
    ASSUME RegistryStepsTypeOK, Observe, NEW w \in Workers, alone'[w]
    PROVE  /\ IF workers[w].at = "off" THEN StartedAlone(w) ELSE alone[w]
           /\ workers'[w].at # "off"
           /\ \A v \in Sharing(w) : workers'[v].at = "off"
BY DEF Observe

LEMMA AloneSends ==
    ASSUME RegistryStepsTypeOK, RequestsAreOwn, AloneIsKnown, Observe,
           NEW w \in Workers, alone'[w], NEW u \in Workers, SendsOne(u)
    PROVE  Known(w)'
<1>1. PICK s \in WorkerState, op \in {"register", "heartbeat", "advertise"},
           conn \in {"online", "offline"} :
        /\ Send(u, s, op, conn)
        /\ workers[u].at \notin Awaiting
        /\ Asked(s.at, op, conn)
        /\ workers[u].at = "off" <=> op = "register"
        /\ workers[u].at = "ended" <=> s.at = "leaving"
        /\ s.at \in Told => workers[u].at \in Told /\ s.names = workers[u].names
        /\ s.at = "renewing" => workers[u].at \in Told
  BY DEF SendsOne
<1>2. PICK h \in Handlers : Asks(h, u, s, op, conn)
  BY <1>1, SendEffect
<1>3. /\ workers'[u] = s /\ endpoints' = endpoints
      /\ \A v \in Workers \ {u} : workers'[v] = workers[v]
  BY <1>1, SendEffect
<1>4. CASE u = w
  <2>1. \A k \in Handlers : requests[k].by # w
    BY <1>1, <1>4, OwnerOfRequest, RegistryStepsAssumption
  <2>2. workers[w].at # "ended" => \A k \in Handlers : ~InFlight(k, RefOf[w])
    <3>1. CASE workers[w].at = "off"
      BY <3>1, AloneObserved DEF StartedAlone
    <3>2. CASE workers[w].at \notin {"off", "ended"}
      <4>1. alone[w] /\ workers[w].at # "leaving"
        BY <1>1, <1>4, <3>2, AloneObserved DEF Awaiting
      <4> QED
        BY <2>1, <3>2, <4>1 DEF AloneIsKnown, OnlyItsOwn
    <3> QED
      BY <3>1, <3>2
  <2>3. workers[w].at # "ended" => OnlyItsOwn(w)'
    BY <1>2, <1>4, <2>2 DEF OnlyItsOwn, InFlight, Asks
  <2>4. workers'[w].at \notin {"ended", "leaving"} => OnlyItsOwn(w)'
    BY <1>1, <1>3, <1>4, <2>3
  <2>5. AsItTold(w)'
    <3>1. s.at \in Told \cup {"renewing"} => alone[w] /\ workers[w].at \in Told
      BY <1>1, <1>4, AloneObserved DEF Told
    <3> QED
      BY <1>1, <1>3, <1>4, <3>1 DEF AloneIsKnown, AsItTold, IsRegistered, Told
  <2> QED
    BY <2>4, <2>5 DEF Known
<1>5. CASE u # w
  <2>1. s.at # "off"
    BY <1>1 DEF Asked
  <2>2. RefOf[u] # RefOf[w]
    BY <1>3, <1>5, <2>1, AloneObserved DEF Sharing
  <2>3. workers'[w] = workers[w] /\ alone[w]
    BY <1>3, <1>5, AloneObserved
  <2>4. OnlyItsOwn(w) => OnlyItsOwn(w)'
    BY <1>2, <2>2 DEF OnlyItsOwn, InFlight, Asks
  <2>5. AsItTold(w)'
    BY <1>3, <2>3 DEF AloneIsKnown, AsItTold, IsRegistered
  <2> QED
    BY <2>3, <2>4, <2>5 DEF AloneIsKnown, Known
<1> QED
  BY <1>4, <1>5

LEMMA AloneLeaves ==
    ASSUME RegistryStepsTypeOK, RequestsAreOwn, AloneIsKnown, Observe,
           NEW w \in Workers, alone'[w], NEW u \in Workers, Leaves(u)
    PROVE  Known(w)'
<1>1. /\ endpoints' = endpoints
      /\ workers'[u] \in {Off, Failed(workers[u])} /\ workers[u].at # "off"
      /\ \A v \in Workers \ {u} : workers'[v] = workers[v]
      /\ \A k \in Handlers :
            requests'[k] = IF requests[k].by = u
                           THEN [requests[k] EXCEPT !.by = NoWorker] ELSE requests[k]
  BY WorkerLeaves DEF Leaves
<1>2. CASE u = w
  <2>1. workers'[w].at \in {"off", "ended"}
    BY <1>1, <1>2, FailedParts, Typed DEF Off
  <2>2. workers'[w].at = "ended"
    BY <2>1, AloneObserved
  <2> QED
    BY <2>2 DEF Known, AsItTold, Told
<1>3. CASE u # w
  <2>1. workers'[w] = workers[w] /\ alone[w]
    BY <1>1, <1>3, AloneObserved
  <2>2. ASSUME NEW k \in Handlers, OnlyItsOwn(w), InFlight(k, RefOf[w])'
        PROVE  requests'[k] = requests[k] /\ InFlight(k, RefOf[w])
    <3>1. requests[k] \in EndpointRequest
      BY Typed
    <3>2. requests'[k].pc = requests[k].pc /\ requests'[k].e = requests[k].e
      BY <1>1, <3>1 DEF EndpointRequest
    <3>3. InFlight(k, RefOf[w])
      BY <2>2, <3>2 DEF InFlight
    <3> QED
      BY <1>1, <1>3, <2>2, <3>3 DEF OnlyItsOwn
  <2>3. OnlyItsOwn(w) => OnlyItsOwn(w)'
    BY <2>2 DEF OnlyItsOwn
  <2>4. AsItTold(w)'
    BY <1>1, <2>1 DEF AloneIsKnown, AsItTold, IsRegistered
  <2> QED
    BY <2>1, <2>3, <2>4 DEF AloneIsKnown, Known
<1> QED
  BY <1>2, <1>3

LEMMA AloneRefuses ==
    ASSUME RegistryStepsTypeOK, RequestsAreOwn, AloneIsKnown, Observe,
           NEW w \in Workers, alone'[w], NEW h \in Handlers, Refuses(h)
    PROVE  Known(w)'
<1>1. /\ endpoints' = endpoints /\ requests'[h] = Idle
      /\ workers'[w] = IF requests[h].by = w THEN Failed(workers[w]) ELSE workers[w]
      /\ \A k \in Handlers \ {h} : requests'[k] = requests[k]
  BY RefuseEffect DEF Refuses
<1>2. CASE requests[h].by = w
  <2>1. workers'[w].at \in {"off", "ended"}
    BY <1>1, <1>2, FailedParts, Typed DEF Off
  <2>2. workers'[w].at = "ended"
    BY <2>1, AloneObserved
  <2> QED
    BY <2>2 DEF Known, AsItTold, Told
<1>3. CASE requests[h].by # w
  <2>1. workers'[w] = workers[w] /\ alone[w]
    BY <1>1, <1>3, AloneObserved
  <2>2. OnlyItsOwn(w) => OnlyItsOwn(w)'
    BY <1>1, IdleFields DEF OnlyItsOwn, InFlight
  <2>3. AsItTold(w)'
    BY <1>1, <2>1 DEF AloneIsKnown, AsItTold, IsRegistered
  <2> QED
    BY <2>1, <2>2, <2>3 DEF AloneIsKnown, Known
<1> QED
  BY <1>2, <1>3

LEMMA AloneTakes ==
    ASSUME RegistryStepsTypeOK, RequestsAreOwn, AloneIsKnown, Observe,
           NEW w \in Workers, alone'[w],
           NEW h \in Handlers, NEW r \in EndpointRequest, Takes(h, r)
    PROVE  Known(w)'
<1>1. /\ endpoints' = endpoints /\ workers' = workers /\ requests'[h] = r
      /\ \A k \in Handlers \ {h} : requests'[k] = requests[k]
  BY DEF Takes, RegistryStepsTypeOK
<1>2. workers'[w] = workers[w] /\ alone[w]
  BY <1>1, AloneObserved
<1>3. /\ requests[h].pc # "idle" /\ r.e = requests[h].e /\ r.by = requests[h].by
      /\ (requests[h].current \/ requests[h].pc # "read") => r.current
  BY DEF Takes
<1>4. OnlyItsOwn(w) => OnlyItsOwn(w)'
  BY <1>1, <1>3 DEF OnlyItsOwn, InFlight
<1>5. AsItTold(w)'
  BY <1>1, <1>2 DEF AloneIsKnown, AsItTold, IsRegistered
<1> QED
  BY <1>2, <1>4, <1>5 DEF AloneIsKnown, Known

LEMMA AloneServes ==
    ASSUME RegistryStepsTypeOK, RequestsAreOwn, OneAtATime, CopiesAgree, AloneIsKnown,
           Observe, NEW w \in Workers, alone'[w],
           NEW h \in Handlers, NEW record \in Endpoint, Serves(h, record)
    PROVE  Known(w)'
<1> DEFINE q == requests[h]
           e == RefOf[w]
<1>1. /\ endpoints'[q.e] = record /\ requests'[h] = Idle
      /\ \A d \in Endpoints \ {q.e} : endpoints'[d] = endpoints[d]
      /\ workers'[w] = IF q.by = w THEN Accepted(workers[w]) ELSE workers[w]
      /\ \A k \in Handlers \ {h} : requests'[k] = Outdated(k, q.e)
  BY WriteEffect DEF Serves
<1>2. q \in EndpointRequest /\ OwnRequest(q) /\ workers[w] \in WorkerState /\ e \in Endpoints
  BY Typed DEF RequestsAreOwn
<1>3. q.pc # "idle"
  BY DEF Serves
<1>4. CASE q.by = w
  <2>1. /\ workers[w].at \in Awaiting /\ q.e = e /\ Asked(workers[w].at, q.op, q.conn)
        /\ q.op # "heartbeat" => q.names = workers[w].names
    BY <1>2, <1>4, OwnerOfRequest, RegistryStepsAssumption DEF OwnRequest
  <2>2. alone[w] /\ workers'[w] = Accepted(workers[w])
    BY <1>1, <1>4, <2>1, AloneObserved DEF Awaiting
  <2>3. workers[w].at # "leaving"
    BY <1>2, <2>1, <2>2, AcceptedParts, AloneObserved DEF Off
  <2>4. OnlyItsOwn(w)
    BY <2>1, <2>2, <2>3 DEF AloneIsKnown, Awaiting
  <2>5. OnlyItsOwn(w)'
    <3>1. ASSUME NEW k \in Handlers, InFlight(k, e)'
          PROVE  FALSE
      <4>1. k # h
        BY <1>1, <3>1, IdleFields DEF InFlight
      <4>2. requests[k] \in EndpointRequest
        BY Typed
      <4>3. requests'[k].pc = requests[k].pc /\ requests'[k].e = requests[k].e
        BY <1>1, <4>1, <4>2 DEF Outdated, EndpointRequest
      <4>4. requests[k].by = w
        BY <2>4, <3>1, <4>3 DEF OnlyItsOwn, InFlight
      <4> QED
        BY <1>4, <4>1, <4>4, RegistryStepsAssumption DEF OneAtATime
    <3> QED
      BY <3>1 DEF OnlyItsOwn
  <2>6. q.pc = "write" => CopyAgrees(q, endpoints[e])
    <3>1. q.pc = "write" => q.current
      BY <1>4, <2>1, <2>4 DEF OnlyItsOwn, InFlight
    <3> QED
      BY <2>1, <3>1 DEF CopiesAgree
  <2>7. AsItTold(w)
    BY <2>2 DEF AloneIsKnown
  <2>8. CASE workers[w].at = "registering"
    <3>1. q.op = "register" /\ workers'[w].names = workers[w].names
      BY <1>2, <2>1, <2>2, <2>8, AcceptedParts DEF Asked
    <3>2. record = q.copy /\ q.pc = "write"
      BY <3>1 DEF Serves
    <3>3. record.conn = "online" /\ record.names = workers[w].names
      BY <2>1, <3>1, <3>2 DEF CopiesAgree
    <3> QED
      BY <1>1, <2>1, <2>5, <3>1, <3>3 DEF Known, AsItTold
  <2>9. CASE workers[w].at \in {"renewing", "announcing"}
    <3>1. q.op = "advertise" /\ workers'[w].names = workers[w].names
      BY <1>2, <2>1, <2>2, <2>9, AcceptedParts DEF Asked
    <3>2. IsRegistered(e) /\ record.conn = endpoints[e].conn /\ record.names = q.names
      <4>1. CASE q.pc = "write"
        BY <2>6, <3>1, <4>1 DEF Serves, CopyAgrees, IsRegistered
      <4>2. CASE q.pc # "write"
        <5>1. /\ AdvertiseCapabilities(q.e, q.names)
              /\ record = [endpoints[q.e] EXCEPT !.names = q.names]
          BY <4>2 DEF Serves
        <5>2. endpoints[q.e] \in Endpoint
          BY <1>2, <2>1, Typed
        <5> QED
          BY <2>1, <5>1, <5>2 DEF AdvertiseCapabilities, Endpoint
      <4> QED
        BY <4>1, <4>2
    <3>3. endpoints[e].conn = "online"
      BY <2>7, <2>9, <3>2 DEF AsItTold, Told
    <3> QED
      BY <1>1, <2>1, <2>5, <3>1, <3>2, <3>3 DEF Known, AsItTold
  <2>10. CASE workers[w].at = "beating"
    <3>1. /\ q.op = "heartbeat" /\ q.conn = "online"
          /\ workers'[w].names = workers[w].names
      BY <1>2, <2>1, <2>2, <2>10, AcceptedParts DEF Asked
    <3>2. record = q.copy /\ q.pc = "write"
      BY <3>1 DEF Serves
    <3>3. /\ record.conn = "online" /\ record.names = endpoints[e].names
          /\ IsRegistered(e)
      BY <2>6, <3>1, <3>2 DEF CopyAgrees, IsRegistered
    <3>4. endpoints[e].names = workers[w].names
      BY <2>7, <2>10, <3>3 DEF AsItTold, Told
    <3> QED
      BY <1>1, <2>1, <2>5, <3>1, <3>3, <3>4 DEF Known, AsItTold
  <2> QED
    BY <2>1, <2>3, <2>8, <2>9, <2>10 DEF Awaiting
<1>5. CASE q.by # w
  <2>1. workers'[w] = workers[w]
    BY <1>1, <1>5
  <2>2. alone[w]
    BY <2>1, AloneObserved
  <2>3. CASE workers[w].at \in {"ended", "leaving"}
    BY <2>1, <2>3 DEF Known, AsItTold, Told
  <2>4. CASE workers[w].at \notin {"ended", "leaving"}
    <3>1. OnlyItsOwn(w) /\ AsItTold(w)
      BY <2>2, <2>4 DEF AloneIsKnown
    <3>2. q.e # e
      BY <1>3, <1>5, <3>1 DEF OnlyItsOwn, InFlight
    <3>3. endpoints'[e] = endpoints[e]
      BY <1>1, <1>2, <3>2
    <3>4. ASSUME NEW k \in Handlers, InFlight(k, e)'
          PROVE  requests'[k] = requests[k]
      <4>1. k # h
        BY <1>1, <3>4, IdleFields DEF InFlight
      <4>2. requests[k] \in EndpointRequest
        BY Typed
      <4>3. requests'[k].e = requests[k].e
        BY <1>1, <4>1, <4>2 DEF Outdated, EndpointRequest
      <4> QED
        BY <1>1, <3>2, <3>4, <4>1, <4>3 DEF Outdated, InFlight
    <3>5. OnlyItsOwn(w)'
      BY <3>1, <3>4 DEF OnlyItsOwn, InFlight
    <3>6. AsItTold(w)'
      BY <2>1, <3>1, <3>3 DEF AsItTold, IsRegistered
    <3> QED
      BY <3>5, <3>6 DEF Known
  <2> QED
    BY <2>3, <2>4
<1> QED
  BY <1>4, <1>5

LEMMA AloneTick ==
    ASSUME RegistryStepsTypeOK, AloneIsKnown, Observe, NEW w \in Workers, alone'[w], TimePasses
    PROVE  Known(w)'
<1>1. workers' = workers /\ alone[w]
  BY TickEffect, AloneObserved
<1>2. ASSUME NEW h \in Handlers
      PROVE  /\ requests'[h].pc = requests[h].pc /\ requests'[h].e = requests[h].e
             /\ requests'[h].by = requests[h].by
             /\ requests'[h].current = requests[h].current
  <2> DEFINE older == [requests[h].copy EXCEPT !.beat = Elapse(@)]
  <2>1. requests'[h] = [requests[h] EXCEPT !.copy = older] /\ requests[h] \in EndpointRequest
    BY TickEffect, Typed
  <2> HIDE DEF older
  <2> QED
    BY <2>1 DEF EndpointRequest
<1>3. /\ endpoints'[RefOf[w]].conn = endpoints[RefOf[w]].conn
      /\ endpoints'[RefOf[w]].names = endpoints[RefOf[w]].names
  BY TickEffect, Typed DEF Endpoint
<1>4. OnlyItsOwn(w) => OnlyItsOwn(w)'
  BY <1>2 DEF OnlyItsOwn, InFlight
<1>5. AsItTold(w)'
  BY <1>1, <1>3 DEF AloneIsKnown, AsItTold, IsRegistered
<1> QED
  BY <1>1, <1>4, <1>5 DEF AloneIsKnown, Known

LEMMA AloneRestart ==
    ASSUME RegistryStepsTypeOK, AloneIsKnown, Observe, NEW w \in Workers, alone'[w],
           ServerRestarts
    PROVE  Known(w)'
<1>1. /\ workers' = workers /\ alone[w] /\ \A h \in Handlers : requests'[h] = Idle
      /\ endpoints'[RefOf[w]] \in {Unregistered, endpoints[RefOf[w]]}
  BY RestartEffect, AloneObserved, Typed
<1>2. OnlyItsOwn(w)'
  BY <1>1, IdleFields DEF OnlyItsOwn, InFlight
<1>3. AsItTold(w)'
  BY <1>1 DEF AloneIsKnown, AsItTold, IsRegistered, Unregistered
<1> QED
  BY <1>2, <1>3 DEF Known

LEMMA AloneKept ==
    ASSUME RegistryStepsTypeOK, RequestsAreOwn, OneAtATime, CopiesAgree, AloneIsKnown,
           Steps, Observe
    PROVE  AloneIsKnown'
<1>1. ASSUME NEW w \in Workers, alone'[w]
      PROVE  Known(w)'
  BY <1>1, AloneSends, AloneLeaves, AloneRefuses, AloneTakes, AloneServes, AloneTick,
     AloneRestart DEF Steps
<1>2. ASSUME NEW w \in Workers, alone'[w]
      PROVE  Active(w)' /\ \A v \in Sharing(w) : ~Active(v)'
  BY <1>2, AloneObserved DEF Active
<1> QED
  BY <1>1, <1>2 DEF AloneIsKnown, Known, Sharing

-----------------------------------------------------------------------------
(* The theorems.                                                           *)

LEMMA RegistryInvInit == RegistryStepsInit => RegistryInv
<1> SUFFICES ASSUME RegistryStepsInit
             PROVE  RegistryInv
  OBVIOUS
<1>1. Unregistered \in Endpoint /\ Off \in WorkerState /\ Idle \in EndpointRequest
  BY ConstantTypes, IdleType, RegistryStepsAssumption
<1>2. \A h \in Handlers : requests[h] = Idle
  BY DEF RegistryStepsInit, WorkersInit
<1>3. \A w \in Workers : workers[w].at = "off" /\ ~holds[w] /\ ~alone[w]
  BY DEF RegistryStepsInit, WorkersInit, Off
<1>4. RegistryStepsTypeOK
  BY <1>1 DEF RegistryStepsInit, WorkersInit, RegistryInit, RegistryStepsTypeOK, RegistryTypeOK
<1>5. RequestsAreOwn /\ OneAtATime /\ CopiesAgree
  BY <1>2, <1>3, IdleFields DEF RequestsAreOwn, OwnRequest, Active, OneAtATime, CopiesAgree
<1>6. OneWorkerPerEndpoint /\ HoldersAreFresh /\ AloneIsKnown
  BY <1>3 DEF OneWorkerPerEndpoint, HoldersAreFresh, AloneIsKnown
<1> QED
  BY <1>4, <1>5, <1>6 DEF RegistryInv

LEMMA RegistryInvStep == RegistryInv /\ [RegistryStepsNext]_registryVars => RegistryInv'
<1> SUFFICES ASSUME RegistryInv, [RegistryStepsNext]_registryVars
             PROVE  RegistryInv'
  OBVIOUS
<1>1. /\ RegistryStepsTypeOK /\ RequestsAreOwn /\ OneAtATime /\ CopiesAgree
      /\ OneWorkerPerEndpoint /\ HoldersAreFresh /\ AloneIsKnown
  BY DEF RegistryInv
<1>2. CASE RegistryStepsNext
  <2>1. Observe /\ Steps
    BY <1>1, <1>2, EveryStep
  <2>2. RegistryStepsTypeOK'
    BY <1>1, <2>1, TypesKept
  <2>3. RequestsAreOwn' /\ OneAtATime'
    BY <1>1, <2>1, OwnKept
  <2>4. CopiesAgree'
    BY <1>1, <2>1, CopiesKept
  <2>5. HoldersAreFresh' /\ OneWorkerPerEndpoint'
    BY <1>1, <2>1, HoldersKept
  <2>6. AloneIsKnown'
    BY <1>1, <2>1, AloneKept
  <2> QED
    BY <2>2, <2>3, <2>4, <2>5, <2>6 DEF RegistryInv
<1>3. CASE UNCHANGED registryVars
  <2>1. /\ endpoints' = endpoints /\ workers' = workers /\ requests' = requests
        /\ storage' = storage /\ holds' = holds /\ alone' = alone
    BY <1>3 DEF registryVars
  <2>2. RegistryStepsTypeOK'
    BY <1>1, <2>1 DEF RegistryStepsTypeOK, RegistryTypeOK
  <2>3. RequestsAreOwn' /\ OneAtATime' /\ CopiesAgree'
    BY <1>1, <2>1 DEF RequestsAreOwn, OwnRequest, Active, OneAtATime, CopiesAgree, CopyAgrees
  <2>4. OneWorkerPerEndpoint' /\ HoldersAreFresh'
    BY <1>1, <2>1 DEF OneWorkerPerEndpoint, HoldersAreFresh, Active, EndpointIsStale
  <2>5. AloneIsKnown'
    BY <1>1, <2>1 DEF AloneIsKnown, Active, OnlyItsOwn, InFlight, AsItTold, IsRegistered
  <2> QED
    BY <2>2, <2>3, <2>4, <2>5 DEF RegistryInv
<1> QED
  BY <1>2, <1>3

\* The inductive invariant holds however the requests of the workers overlap,
\* get lost, or are served when nobody waits for them any more.
THEOREM RegistryInvariant == RegistryStepsSpec => []RegistryInv
BY RegistryInvInit, RegistryInvStep, PTL DEF RegistryStepsSpec

\* The registry, the workers and the requests keep their types.
THEOREM RegistryTypes == RegistryStepsSpec => []RegistryStepsTypeOK
<1>1. RegistryInv => RegistryStepsTypeOK
  BY DEF RegistryInv
<1> QED
  BY <1>1, RegistryInvariant, PTL

\* RegisterEndpoint lets a second process in only where the endpoint had gone
\* stale, or where its record was written between the read and the write.
THEOREM EndpointHasOneWorker == RegistryStepsSpec => []OneWorkerPerEndpoint
<1>1. RegistryInv => OneWorkerPerEndpoint
  BY DEF RegistryInv
<1> QED
  BY <1>1, RegistryInvariant, PTL

\* A worker that runs alone on its ref is routed to as what it told the server.
THEOREM RoutedAsAnnounced == RegistryStepsSpec => []AnnouncedIsRouted
<1>1. RegistryInv => AnnouncedIsRouted
  BY DEF RegistryInv, AloneIsKnown, AsItTold, AnnouncedIsRouted, Told
<1> QED
  BY <1>1, RegistryInvariant, PTL

AtomicOrOverlapped ==
    \/ UNCHANGED endpoints
    \/ RegistryNext
    \/ RegistryTick
    \/ ServerRestarts
    \/ \E h \in Handlers : SaveEndpoint(h) /\ Overlapped(h)

LEMMA SaveIsAtomic ==
    ASSUME RegistryInv, NEW h \in Handlers, NEW record \in Endpoint, Serves(h, record),
           ~Overlapped(h)
    PROVE  RegistryNext
<1> DEFINE q == requests[h]
<1>1. /\ q \in EndpointRequest /\ q.e \in Endpoints /\ endpoints[q.e] \in Endpoint
      /\ OwnRequest(q) /\ endpoints \in [Endpoints -> Endpoint]
  BY Typed DEF RegistryInv, RequestsAreOwn, EndpointRequest, RegistryStepsTypeOK, RegistryTypeOK
<1>2. endpoints' = [endpoints EXCEPT ![q.e] = record]
  BY DEF Serves, Writes
<1>3. q.op # "heartbeat" => q.names \in CapabilitySets
  BY <1>1 DEF Serves, OwnRequest
<1>4. CASE q.pc = "write"
  <2>1. record = q.copy /\ q.current /\ CopyAgrees(q, endpoints[q.e])
    BY <1>4 DEF Serves, Overlapped, RegistryInv, CopiesAgree
  <2>2. CASE q.op = "register"
    <3>1. /\ record.conn = "online" /\ record.names = q.names /\ record.beat = HeartbeatTicks
      BY <1>4, <2>1, <2>2 DEF Overlapped, RegistryInv, CopiesAgree
    <3>2. record = [conn |-> "online", beat |-> HeartbeatTicks, names |-> q.names]
      BY <3>1 DEF Endpoint
    <3>3. EndpointIsStale(q.e)
      BY <1>4, <2>1, <2>2 DEF CopyAgrees, EndpointIsStale
    <3>4. RegisterEndpoint(q.e, "online", q.names)
      BY <1>2, <3>2, <3>3 DEF RegisterEndpoint
    <3>5. "online" \in Registrations
      BY RegistryStepsAssumption
    <3> QED
      BY <1>1, <1>3, <2>2, <3>4, <3>5 DEF RegistryNext
  <2>3. CASE q.op = "heartbeat"
    <3>1. /\ record.conn = q.conn /\ record.names = endpoints[q.e].names
          /\ record.beat = HeartbeatTicks /\ endpoints[q.e].conn # "unregistered"
      BY <1>4, <2>1, <2>3 DEF Overlapped, CopyAgrees
    <3>2. record = [endpoints[q.e] EXCEPT !.conn = q.conn, !.beat = HeartbeatTicks]
      BY <1>1, <3>1 DEF Endpoint
    <3>3. HeartbeatEndpoint(q.e, q.conn)
      <4>1. endpoints' = [endpoints EXCEPT ![q.e] =
                             [endpoints[q.e] EXCEPT !.conn = q.conn, !.beat = HeartbeatTicks]]
        BY <1>2, <3>2
      <4>2. endpoints' = [endpoints EXCEPT ![q.e].conn = q.conn, ![q.e].beat = HeartbeatTicks]
        BY <1>1, <4>1
      <4> QED
        BY <3>1, <4>2 DEF HeartbeatEndpoint, IsRegistered
    <3>4. q.conn \in Heartbeats
      BY <1>1, RegistryStepsAssumption DEF EndpointRequest
    <3> QED
      BY <1>1, <3>3, <3>4 DEF RegistryNext
  <2>4. CASE q.op = "advertise"
    <3>1. /\ record.conn = endpoints[q.e].conn /\ record.names = q.names
          /\ record.beat = endpoints[q.e].beat /\ endpoints[q.e].conn # "unregistered"
      BY <1>4, <2>1, <2>4 DEF CopyAgrees
    <3>2. record = [endpoints[q.e] EXCEPT !.names = q.names]
      BY <1>1, <3>1 DEF Endpoint
    <3>3. AdvertiseCapabilities(q.e, q.names)
      BY <1>1, <1>2, <3>1, <3>2 DEF AdvertiseCapabilities, IsRegistered
    <3> QED
      BY <1>1, <1>3, <2>4, <3>3 DEF RegistryNext
  <2> QED
    BY <1>1, <2>2, <2>3, <2>4 DEF EndpointRequest
<1>5. CASE q.pc # "write"
  <2>1. AdvertiseCapabilities(q.e, q.names) /\ q.op = "advertise"
    BY <1>5 DEF Serves
  <2> QED
    BY <1>1, <1>3, <2>1 DEF RegistryNext
<1> QED
  BY <1>4, <1>5

LEMMA StepIsAtomic ==
    ASSUME RegistryInv, RegistryStepsNext
    PROVE  AtomicOrOverlapped
<1>1. RegistryStepsTypeOK /\ RequestsAreOwn
  BY DEF RegistryInv
<1>2. Steps
  BY <1>1, EveryStep
<1>3. ASSUME NEW w \in Workers, SendsOne(w) \/ Leaves(w)
      PROVE  UNCHANGED endpoints
  BY <1>1, <1>3, WorkerLeaves DEF SendsOne, Send, Leaves
<1>4. ASSUME NEW h \in Handlers, NEW record \in Endpoint, Serves(h, record)
      PROVE  AtomicOrOverlapped
  <2>1. CASE ~Overlapped(h)
    BY <1>4, <2>1, SaveIsAtomic DEF AtomicOrOverlapped
  <2>2. CASE SaveEndpoint(h) /\ Overlapped(h)
    BY <2>2 DEF AtomicOrOverlapped
  <2>3. CASE ~SaveEndpoint(h)
    <3>1. AdvertiseCapabilities(requests[h].e, requests[h].names)
          /\ requests[h].pc = "arrived" /\ requests[h].op = "advertise"
      BY <1>4, <2>3 DEF Serves
    <3>2. requests[h].e \in Endpoints /\ requests[h].names \in CapabilitySets
      BY <1>1, <3>1, Typed DEF EndpointRequest, RequestsAreOwn, OwnRequest
    <3> QED
      BY <3>1, <3>2 DEF AtomicOrOverlapped, RegistryNext
  <2> QED
    BY <2>1, <2>2, <2>3
<1>5. ASSUME NEW h \in Handlers,
             Refuses(h) \/ \E r \in EndpointRequest : Takes(h, r)
      PROVE  UNCHANGED endpoints
  BY <1>5 DEF Refuses, Refuse, Takes
<1>6. CASE ServerRestarts \/ TimePasses
  BY <1>6 DEF TimePasses, AtomicOrOverlapped
<1> QED
  BY <1>2, <1>3, <1>4, <1>5, <1>6 DEF Steps, AtomicOrOverlapped

\* Every write of the registry is one of EndpointRegistry's single steps, unless
\* the record was written, or time has passed, since it was read.
THEOREM HandlersAreAtomic == RegistryStepsSpec => AtomicUnlessOverlapped
<1>1. RegistryInv /\ [RegistryStepsNext]_registryVars => [AtomicOrOverlapped]_registryVars
  BY StepIsAtomic
<1> QED
  BY <1>1, RegistryInvariant, PTL
     DEF RegistryStepsSpec, AtomicUnlessOverlapped, AtomicOrOverlapped
=============================================================================
