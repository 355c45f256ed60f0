------------------------------ MODULE MCWorker ------------------------------
(***************************************************************************)
(* Instances of Worker for TLC.  The worker is e1; the other endpoint is   *)
(* online throughout, and may get the message first.                       *)
(***************************************************************************)
EXTENDS Worker, TLC

CONSTANTS e1, e2, skill, t1, a1

PlainRequests ==
    {[capability |-> skill, target |-> NoEndpoint, preferred |-> NoEndpoint,
      dependsOn |-> {}, task |-> t1]}
MCCovers == {<<skill, skill>>}
MCSkills == {skill}
MCCapabilitySets == {MCSkills}

SteadyInit ==
    /\ endpoints = [e \in Endpoints |->
           IF e = Me THEN Unregistered
           ELSE [conn |-> "online", beat |-> HeartbeatTicks, names |-> MCSkills]]
    /\ store = EmptyStore
    /\ WorkerInit

SteadyTick ==
    /\ endpoints' = [endpoints EXCEPT ![Me].beat = Elapse(@)]
    /\ store' = TickStore(store)
    /\ WorkerTick

SteadyNext == ProcessNext \/ WireNext \/ OthersNext \/ SteadyTick

SteadySpec == SteadyInit /\ [][SteadyNext]_workerVars

FairSteadySpec == SteadySpec /\ WF_workerVars(SteadyTick) /\ WorkerFairness
=============================================================================
