-------------------------- MODULE ResourceHandlers --------------------------
(***************************************************************************)
(* The handlers of a GCPSymphonyResource and of its pods                   *)
(* (k8s-operator/.../handlers).  kopf (external) runs the handlers of one  *)
(* object one after the other and those of different objects concurrently; *)
(* it stores on the object what it has handled, and runs a handler again   *)
(* from its start when it raised or the operator died.                     *)
(***************************************************************************)
EXTENDS StatusWorker

VARIABLES
    createPc,   \* the create handler of each resource
    toMake,     \* the pods it has still to create
    seen,       \* status.availableMachines as last handled by kopf
    fieldPc     \* the handler of status.availableMachines

handlerVars == <<createPc, toMake, seen, fieldPc>>

HandlerTypeOK ==
    /\ createPc \in [Crs -> {"none", "due", "running", "done"}]
    /\ toMake \in [Crs -> SUBSET Pods]
    /\ \A r \in Crs : toMake[r] \subseteq PodsOf(r)
    /\ seen \in [Crs -> Nat \cup {NoCount}]
    /\ fieldPc \in [Crs -> {"idle", "patch"}]

HandlerInit ==
    /\ createPc = [r \in Crs |-> "none"]
    /\ toMake = [r \in Crs |-> {}]
    /\ seen = [r \in Crs |-> NoCount]
    /\ fieldPc = [r \in Crs |-> "idle"]

\* A mistake: a handler that was under way is taken for one that has ended.
SlipHandlerRestart ==
    /\ createPc' = [r \in Crs |->
                        IF createPc[r] = "running" THEN "done" ELSE createPc[r]]
    /\ toMake' = [r \in Crs |-> {}]
    /\ fieldPc' = [r \in Crs |-> "idle"]
    /\ UNCHANGED seen

\* What the death of the process leaves of the handlers under way.
HandlerRestart ==
    /\ createPc' = [r \in Crs |->
                        IF createPc[r] = "running" THEN "due" ELSE createPc[r]]
    /\ toMake' = [r \in Crs |-> {}]
    /\ fieldPc' = [r \in Crs |-> "idle"]
    /\ UNCHANGED seen

-----------------------------------------------------------------------------
(* on.create: _deploy_pods makes machineCount pods, or the default minimum *)
(* if that is 0, one call after the other.  The patch of the status at the *)
(* end has no "status" in its body and so changes nothing.                 *)

CreateStart(r) ==
    /\ createPc[r] = "due"
    /\ createPc' = [createPc EXCEPT ![r] = "running"]
    /\ toMake' = [toMake EXCEPT ![r] = PodsOf(r)]
    /\ seen' = [seen EXCEPT ![r] = available[r]]
    /\ UNCHANGED <<objVars, workerVars, fieldPc>>

\* A pod that cannot be created, or is there already, is counted as failed and
\* the handler goes on.
CreatePod(r, p) ==
    /\ createPc[r] = "running" /\ p \in toMake[r]
    /\ toMake' = [toMake EXCEPT ![r] = @ \ {p}]
    /\ \/ /\ ~Exists(p)
          /\ pod' = [pod EXCEPT ![p] = "Pending"]
          /\ rid' = [rid EXCEPT ![p] = NoId]
          /\ Ok
       \/ Exists(p) /\ Ok /\ UNCHANGED <<pod, rid>>
       \/ Fault /\ UNCHANGED <<pod, rid>>
    /\ UNCHANGED <<crVars, deleting, left, changed, handled, mrrVars, labelled,
                   workerVars, createPc, seen, fieldPc>>

\* An error that is no ApiException escapes, and kopf will start again.
CreateRaises(r) ==
    /\ createPc[r] = "running" /\ toMake[r] # {}
    /\ Fault
    /\ createPc' = [createPc EXCEPT ![r] = "due"]
    /\ toMake' = [toMake EXCEPT ![r] = {}]
    /\ UNCHANGED <<crVars, podVars, mrrVars, labelled, workerVars, seen, fieldPc>>

CreateDone(r) ==
    /\ createPc[r] = "running" /\ toMake[r] = {}
    /\ createPc' = [createPc EXCEPT ![r] = "done"]
    /\ UNCHANGED <<objVars, workerVars, toMake, seen, fieldPc>>

-----------------------------------------------------------------------------
(* on.field status.availableMachines, after the create handler.            *)

\* A mistake: the create handler is not waited for.
SlipFieldChanged(r) ==
    /\ cr[r] = "live" /\ fieldPc[r] = "idle"
    /\ available[r] # seen[r]

FieldChanged(r) ==
    /\ cr[r] = "live" /\ createPc[r] = "done" /\ fieldPc[r] = "idle"
    /\ available[r] # seen[r]

\* Only a change from some machines to none is of interest.
FieldIgnore(r) ==
    /\ FieldChanged(r)
    /\ seen[r] < 1 \/ available[r] > 0
    /\ seen' = [seen EXCEPT ![r] = available[r]]
    /\ UNCHANGED <<objVars, workerVars, createPc, toMake, fieldPc>>

\* The pods are listed; with an active pod, or an ApiException, that is all.  Any
\* other error escapes, here and below, and kopf runs the handler again.
FieldList(r) ==
    /\ FieldChanged(r)
    /\ seen[r] >= 1 /\ available[r] <= 0
    /\ \/ ActiveOf(r) = {} /\ fieldPc' = [fieldPc EXCEPT ![r] = "patch"]
                           /\ Ok /\ UNCHANGED seen
       \/ /\ (ActiveOf(r) # {} /\ Ok) \/ Fault
          /\ seen' = [seen EXCEPT ![r] = 0] /\ UNCHANGED fieldPc
       \/ Fault /\ UNCHANGED <<seen, fieldPc>>
    /\ UNCHANGED <<crVars, podVars, mrrVars, labelled, workerVars, createPc, toMake>>

FieldPatch(r) ==
    /\ fieldPc[r] = "patch"
    /\ \/ /\ cr[r] = "live" /\ Ok
          /\ completed' = completed \cup {r}
          /\ seen' = [seen EXCEPT ![r] = 0]
       \/ /\ (cr[r] # "live" /\ Ok) \/ Fault
          /\ seen' = [seen EXCEPT ![r] = 0] /\ UNCHANGED completed
       \/ Fault /\ UNCHANGED <<completed, seen>>
    /\ fieldPc' = [fieldPc EXCEPT ![r] = "idle"]
    /\ UNCHANGED <<cr, available, crPhase, returned, podVars, mrrVars, labelled,
                   workerVars, createPc, toMake>>

-----------------------------------------------------------------------------
(* The handlers of pods feed the queue. *)

\* A mistake: a pod that has become ready is not reported.
SlipContainerStatusHandler(p) ==
    /\ p \in changed
    /\ changed' = changed \ {p}
    /\ IF pod[p] # "Running" THEN Enqueue(p, "ContainerHealth", NoId) ELSE UNCHANGED queue
    /\ UNCHANGED <<crVars, pod, deleting, rid, left, handled, mrrVars, labelled, faults,
                   wPc, batch, job, handlerVars>>

\* on.field status.containerStatuses: every exception is swallowed.
ContainerStatusHandler(p) ==
    /\ p \in changed
    /\ changed' = changed \ {p}
    /\ \/ cr[Owner[p]] = "live" /\ Ok /\ Enqueue(p, "ContainerHealth", NoId)
       \/ cr[Owner[p]] # "live" /\ Ok /\ UNCHANGED queue
       \/ Fault /\ UNCHANGED queue
    /\ UNCHANGED <<crVars, pod, deleting, rid, left, handled, mrrVars, labelled,
                   wPc, batch, job, handlerVars>>

\* The id with which a pod is recorded; an entry that is there is kept.
ReturnRequestId(p) ==
    IF returned[p] # NoId THEN returned[p]
    ELSE IF rid[p] = NoId THEN System
    ELSE rid[p]

\* on.delete: without its owner, or if an ApiException keeps it from being read,
\* nothing is recorded.  Any other error makes kopf run the handler again.
PodDeleteHandler(p) ==
    /\ p \in deleting \ handled
    /\ \/ /\ cr[Owner[p]] = "live" /\ Ok
          /\ Enqueue(p, "PodReturned", ReturnRequestId(p))
          /\ handled' = handled \cup {p}
       \/ /\ (cr[Owner[p]] # "live" /\ Ok) \/ Fault
          /\ handled' = handled \cup {p} /\ UNCHANGED queue
       \/ Fault /\ UNCHANGED <<handled, queue>>
    /\ UNCHANGED <<crVars, pod, deleting, rid, left, changed, mrrVars, labelled,
                   wPc, batch, job, handlerVars>>

CreateStep(r) ==
    CreateStart(r) \/ (\E p \in Pods : CreatePod(r, p)) \/ CreateRaises(r) \/ CreateDone(r)
FieldStep(r) == FieldIgnore(r) \/ FieldList(r) \/ FieldPatch(r)
PodStep(p) == ContainerStatusHandler(p) \/ PodDeleteHandler(p)
HandlerStep ==
    \/ \E r \in Crs : CreateStep(r) \/ FieldStep(r)
    \/ \E p \in Pods : PodStep(p)
=============================================================================
