---------------------------- MODULE WorkerRuntime ----------------------------
(***************************************************************************)
(* The life of one search worker process (searchWorkerRuntime.js): start,  *)
(* heartbeat and stop are asynchronous functions of one Node process that  *)
(* share its state; a step of one of them ends at an await.  With them,    *)
(* what the process does to the BullMQ worker (searchQueueWorker.js) and   *)
(* the worker's record in the registry (searchQueueAdmission.js).          *)
(*                                                                         *)
(* The record of the worker is known by a random id, so that no other      *)
(* worker writes it; others sweep it when its time has passed.             *)
(*                                                                         *)
(* StateAsTarget, NeverResumes and StopsAtOnce are faulty forms of the     *)
(* definition that follows each of them; no action uses them.  They show   *)
(* which mistakes the properties detect.                                   *)
(***************************************************************************)
EXTENDS Naturals

CONSTANTS
    MaxRuntimeFaults,  \* bound: commands or metrics that fail
    MaxSweeps,         \* bound: times the record is swept under a live worker
    NotPublished       \* no record in the registry

ASSUME RuntimeBounds == {MaxRuntimeFaults, MaxSweeps} \subseteq Nat

VARIABLES
    runtime,        \* state
    timer,          \* whether heartbeatTimer is set
    beat,           \* heartbeatPromise: where the heartbeat in flight is
    target,         \* its targetState
    starting,       \* where start is
    stopping,       \* where stop is
    worker,         \* the BullMQ worker: "running", "paused" or "closed"
    published,      \* the state in the worker's record
    early,          \* history: stop was called before start had ended
    runtimeFaults, sweeps

runtimeVars == <<runtime, timer, beat, target, starting, stopping, worker, published, early,
                 runtimeFaults, sweeps>>

-----------------------------------------------------------------------------
RuntimeFault == runtimeFaults < MaxRuntimeFaults /\ runtimeFaults' = runtimeFaults + 1

(* writeSearchWorkerHeartbeat succeeds, or fails before or after its effect. *)
Publishes(s) == published' = s /\ UNCHANGED runtimeFaults
PublishFails(s) == published' \in {published, s} /\ RuntimeFault

(* removeOwnedHeartbeat *)
RemoveOwned == Publishes(NotPublished) \/ PublishFails(NotPublished)

Pauses == worker' = IF worker = "running" THEN "paused" ELSE worker

-----------------------------------------------------------------------------
(* start.  One that fails is followed by searchWorker.close(). *)
WorkerReady ==
    /\ starting = "wait"
    /\ \/ starting' = "write" /\ UNCHANGED <<runtime, worker, runtimeFaults>>
       \/ starting' = "done" /\ runtime' = "stopped" /\ worker' = "closed" /\ RuntimeFault
    /\ UNCHANGED <<timer, beat, target, stopping, published, early, sweeps>>

Register ==
    /\ starting = "write"
    /\ \/ Publishes("ready") /\ starting' = "metrics" /\ runtime' = "ready" /\ UNCHANGED worker
       \/ PublishFails("ready") /\ starting' = "done" /\ runtime' = "stopped" /\ worker' = "closed"
    /\ UNCHANGED <<timer, beat, target, stopping, early, sweeps>>

StartMetrics ==
    /\ starting = "metrics"
    /\ \/ timer' = TRUE /\ starting' = "done" /\ UNCHANGED runtimeFaults
       \/ starting' = "remove" /\ UNCHANGED timer /\ RuntimeFault
    /\ UNCHANGED <<runtime, beat, target, stopping, worker, published, early, sweeps>>

StartRemove ==
    /\ starting = "remove"
    /\ RemoveOwned
    /\ starting' = "done" /\ runtime' = "stopped" /\ worker' = "closed"
    /\ UNCHANGED <<timer, beat, target, stopping, early, sweeps>>

-----------------------------------------------------------------------------
(* heartbeat *)
StateAsTarget == runtime

TargetState == IF runtime = "draining" THEN "draining" ELSE "ready"

Heartbeat ==
    /\ timer /\ beat = "none" /\ runtime \notin {"starting", "stopped"}
    /\ beat' = "write" /\ target' = TargetState
    /\ UNCHANGED <<runtime, timer, starting, stopping, worker, published, early, runtimeFaults, sweeps>>

(* The catch of heartbeat. *)
BeatFails ==
    IF runtime = "draining" THEN beat' = "none" /\ UNCHANGED runtime
    ELSE beat' = "pause" /\ runtime' = "degraded"

NeverResumes == FALSE

Recovering == runtime = "degraded" /\ target = "ready"

BeatWrite ==
    /\ beat = "write"
    /\ \/ /\ Publishes(target)
          /\ IF Recovering THEN beat' = "resume" /\ UNCHANGED runtime
             ELSE beat' = "metrics" /\ runtime' = target
       \/ PublishFails(target) /\ BeatFails
    /\ UNCHANGED <<timer, target, starting, stopping, worker, early, sweeps>>

BeatResume ==
    /\ beat = "resume" /\ beat' = "metrics" /\ runtime' = target
    /\ worker' = IF worker = "paused" THEN "running" ELSE worker
    /\ UNCHANGED <<timer, target, starting, stopping, published, early, runtimeFaults, sweeps>>

BeatMetrics ==
    /\ beat = "metrics"
    /\ \/ beat' = "none" /\ UNCHANGED <<runtime, runtimeFaults>>
       \/ BeatFails /\ RuntimeFault
    /\ UNCHANGED <<timer, target, starting, stopping, worker, published, early, sweeps>>

(* pauseAfterFailure.  BullMQ marks a worker paused before it waits for     *)
(* anything, so that a pause that fails still pauses.                       *)
BeatPause ==
    /\ beat = "pause" /\ beat' = "degrade"
    /\ Pauses
    /\ UNCHANGED <<runtime, timer, target, starting, stopping, published, early, runtimeFaults, sweeps>>

BeatDegrade ==
    /\ beat = "degrade" /\ beat' = "none"
    /\ Publishes("degraded") \/ PublishFails("degraded")
    /\ UNCHANGED <<runtime, timer, target, starting, stopping, worker, early, sweeps>>

-----------------------------------------------------------------------------
(* stop *)
Stop ==
    /\ stopping = "no" /\ stopping' = "await"
    /\ timer' = FALSE
    /\ early' = (starting # "done")
    /\ UNCHANGED <<runtime, beat, target, starting, worker, published, runtimeFaults, sweeps>>

StopsAtOnce == TRUE

BeatOver == beat = "none"

Drains ==
    /\ stopping = "await" /\ BeatOver
    /\ stopping' = "write" /\ runtime' = "draining"
    /\ UNCHANGED <<timer, beat, target, starting, worker, published, early, runtimeFaults, sweeps>>

StopWrite ==
    /\ stopping = "write"
    /\ Publishes("draining") \/ PublishFails("draining")
    /\ stopping' = "pause" /\ timer' = TRUE
    /\ UNCHANGED <<runtime, beat, target, starting, worker, early, sweeps>>

(* drain: the worker is paused, its processors are given their time, and    *)
(* it is closed.  After a pause that fails it is not.                       *)
StopPause ==
    /\ stopping = "pause" /\ Pauses
    /\ \/ stopping' = "drain" /\ UNCHANGED runtimeFaults
       \/ stopping' = "finish" /\ RuntimeFault
    /\ UNCHANGED <<runtime, timer, beat, target, starting, published, early, sweeps>>

StopDrain ==
    /\ stopping = "drain" /\ stopping' = "finish" /\ worker' = "closed"
    /\ UNCHANGED <<runtime, timer, beat, target, starting, published, early, runtimeFaults, sweeps>>

StopFinish ==
    /\ stopping = "finish" /\ stopping' = "beat" /\ timer' = FALSE
    /\ UNCHANGED <<runtime, beat, target, starting, worker, published, early, runtimeFaults, sweeps>>

StopRemove ==
    /\ stopping = "beat" /\ BeatOver
    /\ RemoveOwned
    /\ stopping' = "done" /\ runtime' = "stopped"
    /\ UNCHANGED <<timer, beat, target, starting, worker, early, sweeps>>

-----------------------------------------------------------------------------
(* Another worker or a readiness check finds the record's time passed. *)
Swept ==
    /\ published # NotPublished /\ sweeps < MaxSweeps
    /\ published' = NotPublished /\ sweeps' = sweeps + 1
    /\ UNCHANGED <<runtime, timer, beat, target, starting, stopping, worker, early, runtimeFaults>>

RuntimeInit ==
    /\ runtime = "starting" /\ timer = FALSE /\ beat = "none" /\ target = "ready"
    /\ starting = "wait" /\ stopping = "no" /\ worker = "running"
    /\ published = NotPublished /\ early = FALSE
    /\ runtimeFaults = 0 /\ sweeps = 0

StartStep == WorkerReady \/ Register \/ StartMetrics \/ StartRemove
BeatStep  == BeatWrite \/ BeatResume \/ BeatMetrics \/ BeatPause \/ BeatDegrade
StopStep  == Drains \/ StopWrite \/ StopPause \/ StopDrain \/ StopFinish \/ StopRemove

RuntimeNext == StartStep \/ Heartbeat \/ BeatStep \/ Stop \/ StopStep \/ Swept

(* Every await ends, and the interval timer fires while it is set; nothing  *)
(* makes anyone stop the worker.                                            *)
FairRuntimeSpec ==
    /\ RuntimeInit /\ [][RuntimeNext]_runtimeVars
    /\ WF_runtimeVars(StartStep) /\ WF_runtimeVars(Heartbeat)
    /\ WF_runtimeVars(BeatStep) /\ WF_runtimeVars(StopStep)

-----------------------------------------------------------------------------
AtRest == starting = "done" /\ beat = "none" /\ stopping = "no"

(* Between heartbeats a worker takes jobs exactly when it takes itself for  *)
(* ready, so that a worker whose heartbeat failed takes none, and one that  *)
(* has recovered takes them again.                                          *)
TakesJobsWhenReady ==
    AtRest => (worker = "running" <=> runtime = "ready")

(* A worker that has begun to drain after its start neither publishes       *)
(* itself as ready again nor takes up jobs again, whatever heartbeat was in *)
(* flight; and once it has stopped, without a failed command, no record of  *)
(* it is left or appears.  (A stop during the start is overtaken by it.)    *)
DrainIsFinal ==
    [][ /\ runtime = "draining" /\ ~early =>
             /\ runtime' \in {"draining", "stopped"}
             /\ published' # published => published' \in {"draining", NotPublished}
             /\ worker # "running" => worker' # "running"
        /\ stopping' = "done" /\ ~early' /\ runtimeFaults' = 0
             => published' = NotPublished ]_runtimeVars

(* A worker whose heartbeat failed takes jobs again, or is stopped.         *)
DegradedRecovers ==
    runtime = "degraded" ~> (runtime = "ready" /\ worker = "running") \/ stopping # "no"
=============================================================================
