-------------------------- MODULE SymphonyOperator --------------------------
(***************************************************************************)
(* The operator as a whole: its handlers and workers in one asyncio loop,  *)
(* its provider and the cluster beside it, and the life of its process     *)
(* (controller.py, operator_context.py).  What the process keeps in memory *)
(* dies with it: the queue, the batch, scheduled tasks and the progress of *)
(* every handler.  What is in the objects stays.                           *)
(***************************************************************************)
EXTENDS GkeProvider

CONSTANT MaxCrashes     \* bound: how often the process ends

ASSUME OperatorAssumption == MaxCrashes \in Nat

VARIABLES
    life,       \* up, told to stop, or waiting for the queue (see Stop)
    crashes

lifeVars == <<life, crashes>>
vars == <<objVars, workerVars, handlerVars, returnVars, condemned, lifeVars>>

TypeOK ==
    /\ ObjectsTypeOK /\ WorkerTypeOK /\ HandlerTypeOK /\ ReturnTypeOK /\ CleanupTypeOK
    /\ life \in {"up", "stopping", "joining"}
    /\ crashes \in 0..MaxCrashes

Init ==
    /\ ObjectsInit /\ WorkerInit /\ HandlerInit /\ ReturnInit
    /\ condemned = {}
    /\ life = "up" /\ crashes = 0

-----------------------------------------------------------------------------
(* The process. *)

\* A new process: kopf_startup starts the workers, kopf lists the objects and
\* runs what was not handled.  What the kopf of the old process knew of the pods
\* whose delete handler had ended is in their finalizers, if it got that far.
Restart ==
    /\ WorkerStart /\ HandlerRestart /\ ReturnRestart
    /\ condemned' = {}
    /\ \E S \in SUBSET handled : handled' = S
    /\ life' = "up"
    /\ UNCHANGED <<crVars, pod, deleting, rid, left, changed, mrrVars, labelled, faults>>

\* The process is killed, in the middle of a shutdown or of anything else.
Crash ==
    /\ life # "up" \/ crashes < MaxCrashes
    /\ crashes' = IF life = "up" THEN crashes + 1 ELSE crashes
    /\ Restart

\* SIGTERM: kopf ends the handlers and calls kopf_cleanup.  The worker leaves its loop
\* after the batch at hand; if it waits in get() for an update that has come by now,
\* it takes that one batch first.
Stop ==
    /\ life = "up" /\ crashes < MaxCrashes
    /\ crashes' = crashes + 1
    /\ \/ life' = "joining"
       \/ life' = "stopping" /\ wPc = "collect" /\ queue # <<>>
    /\ UNCHANGED <<objVars, workerVars, handlerVars, returnVars, condemned>>

\* When the worker has left, queue.join() waits until every update is dealt with: with
\* updates left in the queue for ever, since nobody takes them out any more.  The
\* cleanup worker is told only then, and ends after the cycle at hand.
StopReturns ==
    /\ life # "up"
    /\ wPc = "collect" /\ queue = <<>>
    /\ condemned = {}
    /\ UNCHANGED crashes
    /\ Restart

-----------------------------------------------------------------------------
Cluster ==
    ClusterStep /\ UNCHANGED <<workerVars, handlerVars, returnVars, condemned, lifeVars>>
Provider == ProviderStep /\ UNCHANGED lifeVars
Node == TaintNode /\ UNCHANGED <<handlerVars, condemned, lifeVars>>

\* While it is told to stop, the worker goes on with the batch at hand, or with the one
\* its get() still takes, and the cleanup worker and the tasks that set a trigger go on
\* as ever.
Worker ==
    /\ life # "joining" \/ wPc # "collect"
    /\ WorkerStep
    /\ life' = IF life = "up" THEN "up" ELSE "joining"
    /\ UNCHANGED <<handlerVars, returnVars, condemned, crashes>>
Handlers ==
    \/ /\ life = "up"
       /\ HandlerStep
       /\ UNCHANGED <<returnVars, condemned, lifeVars>>
    \/ /\ \/ \E q \in Returns : ReturnStep(q) /\ (life = "up" \/ TriggerUpdate(q))
          \/ life = "up" /\ PreemptionStep
       /\ UNCHANGED <<handlerVars, condemned, lifeVars>>
Cleanup ==
    /\ CleanupStep
    /\ UNCHANGED <<workerVars, handlerVars, returnVars, lifeVars>>
Process == Crash \/ Stop \/ StopReturns

Next ==
    \/ Cluster \/ Provider \/ Node
    \/ Worker \/ Handlers \/ Cleanup
    \/ Process

Spec == Init /\ [][Next]_vars

\* The cluster starts and ends pods and collects garbage, the worker and the
\* handlers of the one event loop go on, and a stop that can return does.  Nothing
\* obliges HostFactory to call, anybody to evict, the retain time to pass or the process
\* to end.
ClusterProgress ==
    /\ (\E p \in Pods : PodReady(p) \/ PodGone(p)) \/ (\E r \in Crs : CollectGarbage(r))
    /\ UNCHANGED <<workerVars, handlerVars, returnVars, condemned, lifeVars>>

CleanupDeletes ==
    /\ (\E r \in Crs : CleanupResource(r)) \/ (\E q \in Returns : CleanupReturn(q))
    /\ UNCHANGED <<workerVars, handlerVars, returnVars, lifeVars>>

Fairness ==
    /\ WF_vars(ClusterProgress) /\ WF_vars(Worker) /\ WF_vars(Handlers)
    /\ WF_vars(CleanupDeletes) /\ WF_vars(StopReturns)

FairSpec == Spec /\ Fairness
=============================================================================
