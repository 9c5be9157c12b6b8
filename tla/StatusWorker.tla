---------------------------- MODULE StatusWorker ----------------------------
(***************************************************************************)
(* The queue of status updates and the worker that empties it              *)
(* (k8s-operator/.../workers/status_update.py).  The queue is in memory.   *)
(* The worker takes a batch, groups it by resource and, for each resource, *)
(* reads the resource, lists its pods, patches its status and, when no pod *)
(* is left, its cleanup label.  Each of these is one await: handlers and   *)
(* the cluster take their steps in between.                                *)
(***************************************************************************)
EXTENDS SymphonyObjects, Sequences, SequencesExt

CONSTANT BatchSize      \* crd_update_batch_size

ASSUME WorkerAssumption == BatchSize \in Nat \ {0}

VARIABLES
    queue,      \* update_queue
    wPc,        \* the next call of the worker
    batch,      \* updates collected and not dealt with, by their positions
    job         \* what it has read and will write for the resource at hand

workerVars == <<queue, wPc, batch, job>>

\* An update: ContainerHealth and PodReturned are conditions, status_check has
\* none.  id is the returnRequestId in its returned_machines.
UpdateEvent ==
    [pod : Pods, type : {"status_check", "ContainerHealth", "PodReturned"},
     id : ReturnIds \cup {NoId}]

Job == [returned : [Pods -> ReturnIds \cup {NoId}], completed : BOOLEAN,
        phase : Phases, available : Nat]
NoJob == [returned |-> [p \in Pods |-> NoId], completed |-> FALSE,
          phase |-> "none", available |-> 0]

WorkerPc == {"check", "collect", "get", "list", "patch", "label"}

WorkerTypeOK ==
    /\ queue \in Seq(UpdateEvent)
    /\ wPc \in WorkerPc
    /\ DOMAIN batch \subseteq 1..BatchSize
    /\ batch \in [DOMAIN batch -> UpdateEvent]
    /\ job \in Job

\* A process starts with an empty queue and a status check.
WorkerStart ==
    /\ queue' = <<>> /\ batch' = <<>>
    /\ wPc' = "check"
    /\ job' = NoJob

WorkerInit == queue = <<>> /\ batch = <<>> /\ wPc = "check" /\ job = NoJob

Enqueue(p, type, id) ==
    queue' = Append(queue, [pod |-> p, type |-> type, id |-> id])

-----------------------------------------------------------------------------
(* The status of a resource, from the pods it has. *)

\* Conditions come before the phase: Ready, then DisruptionTarget.
PodStatus(p) ==
    CASE pod[p] = "Running" -> "Running"
      [] pod[p] = "Failed"  -> "Terminating"
      [] pod[p] = "Pending" -> "NotReady"

CalculatePhase(S) ==
    LET states == {PodStatus(p) : p \in S}
    IN  IF states = {} THEN "WaitingCleanup"
        ELSE IF states = {"Running"} THEN "Running"
        ELSE IF "Terminating" \in states THEN "Degraded"
        ELSE "Pending"

RunningIn(S) == {p \in S : pod[p] = "Running"}

-----------------------------------------------------------------------------
(* The batch.  The resource at hand is that of the first update left. *)

First == batch[Min(DOMAIN batch)]
Group == Owner[First.pod]
Positions(p) == {i \in DOMAIN batch : batch[i].pod = p}

\* UpdateEvent has no timestamp, so max() of a pod's updates is the first of them.
KeptUpdate(p) == batch[Min(Positions(p))]

\* A mistake: what was returned before is overwritten.
SlipApplyMachineUpdates ==
    [p \in Pods |->
        IF Owner[p] = Group /\ Positions(p) # {}
        THEN KeptUpdate(p).id ELSE returned[p]]

\* A mistake: pods that are gone by now are left out.
SlipApplyListedUpdates ==
    [p \in Pods |->
        IF /\ Owner[p] = Group /\ returned[p] = NoId /\ Exists(p)
           /\ Positions(p) # {}
           /\ KeptUpdate(p).type = "PodReturned"
        THEN KeptUpdate(p).id ELSE returned[p]]

\* A pod joins returnedMachines if the update kept for it is PodReturned and it
\* is not there yet.
ApplyMachineUpdates ==
    [p \in Pods |->
        IF /\ Owner[p] = Group /\ returned[p] = NoId
           /\ Positions(p) # {}
           /\ KeptUpdate(p).type = "PodReturned"
        THEN KeptUpdate(p).id ELSE returned[p]]

\* The next group, or the next batch.
NextGroup ==
    LET rest == {i \in DOMAIN batch : Owner[batch[i].pod] # Group}
    IN  /\ batch' = [i \in rest |-> batch[i]]
        /\ wPc' = IF rest = {} THEN "collect" ELSE "get"
        /\ job' = NoJob

-----------------------------------------------------------------------------
\* _get_current_status: once per process, an update for each active pod.
StatusCheck ==
    /\ wPc = "check"
    /\ wPc' = "collect"
    /\ \/ /\ \E s \in SetToSeqs(Active) :
                queue' = queue \o
                    [i \in DOMAIN s |-> [pod |-> s[i], type |-> "status_check", id |-> NoId]]
          /\ Ok
       \/ Fault /\ UNCHANGED queue
    /\ UNCHANGED <<crVars, podVars, mrrVars, labelled, batch, job>>

\* _collect_batch_updates does not wait between the first update and the last.
CollectBatch ==
    /\ wPc = "collect" /\ queue # <<>>
    /\ LET n == IF BatchSize < Len(queue) THEN BatchSize ELSE Len(queue)
       IN  /\ batch' = SubSeq(queue, 1, n)
           /\ queue' = SubSeq(queue, n + 1, Len(queue))
    /\ wPc' = "get"
    /\ UNCHANGED <<objVars, job>>

\* The resource is read and the updates are merged into a copy of its status.
\* If it is gone, or the call fails, the group is dropped.
GetResource ==
    /\ wPc = "get"
    /\ \/ /\ cr[Group] = "live"
          /\ job' = [NoJob EXCEPT !.returned = ApplyMachineUpdates,
                                  !.completed = Group \in completed]
          /\ wPc' = "list"
          /\ Ok /\ UNCHANGED batch
       \/ cr[Group] # "live" /\ NextGroup /\ Ok
       \/ Fault /\ NextGroup
    /\ UNCHANGED <<crVars, podVars, mrrVars, labelled, queue>>

\* get_gcpsymphonyresource_phase: a failed list counts as phase Error, 0 machines.
ListPods ==
    /\ wPc = "list"
    /\ \/ /\ job' = [job EXCEPT !.phase = CalculatePhase(ActiveOf(Group)),
                                !.available = Cardinality(RunningIn(ActiveOf(Group)))]
          /\ Ok
       \/ /\ Fault
          /\ job' = [job EXCEPT !.phase = "Error", !.available = 0]
    /\ wPc' = "patch"
    /\ UNCHANGED <<crVars, podVars, mrrVars, labelled, queue, batch>>

\* _update_resource_status: conditions, phase, count and returned machines are
\* written over whatever is there.  An error is logged and forgotten.
PatchStatus ==
    /\ wPc = "patch"
    /\ LET r == Group IN
       \/ /\ cr[r] = "live"
          /\ returned' = [p \in Pods |->
                            IF Owner[p] = r THEN job.returned[p] ELSE returned[p]]
          /\ crPhase' = [crPhase EXCEPT ![r] = job.phase]
          /\ available' = [available EXCEPT ![r] = job.available]
          /\ completed' = IF job.completed THEN completed \cup {r} ELSE completed \ {r}
          /\ Ok
       \/ cr[r] # "live" /\ Ok /\ UNCHANGED <<returned, crPhase, available, completed>>
       \/ Fault /\ UNCHANGED <<returned, crPhase, available, completed>>
    /\ IF job.phase = "WaitingCleanup"
       THEN wPc' = "label" /\ UNCHANGED <<batch, job>>
       ELSE NextGroup
    /\ UNCHANGED <<cr, podVars, mrrVars, labelled, queue>>

\* A mistake: the name of the pod is taken for that of its resource.
SlipPatchCleanupLabel ==
    /\ wPc = "label"
    /\ labelled' = labelled \cup {First.pod} /\ Ok
    /\ NextGroup
    /\ UNCHANGED <<crVars, podVars, mrrVars, queue>>

\* _patch_cleanup_label: of the errors, an ApiException is logged; any other ends the
\* run for the resource, which begins again unless its retries are used up.
PatchCleanupLabel ==
    /\ wPc = "label"
    /\ \/ /\ labelled' = IF cr[Group] = "live" THEN labelled \cup {Group} ELSE labelled
          /\ Ok /\ NextGroup
       \/ Fault /\ NextGroup /\ UNCHANGED labelled
       \/ Fault /\ wPc' = "get" /\ job' = NoJob /\ UNCHANGED <<labelled, batch>>
    /\ UNCHANGED <<crVars, podVars, mrrVars, queue>>

ProcessBatch == GetResource \/ ListPods \/ PatchStatus \/ PatchCleanupLabel
WorkerStep == StatusCheck \/ CollectBatch \/ ProcessBatch
=============================================================================
