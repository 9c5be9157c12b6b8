--------------------------- MODULE SymphonyObjects ---------------------------
(***************************************************************************)
(* The Kubernetes objects that the GKE provider and the Symphony operator  *)
(* share, and what the cluster itself does to them (external):             *)
(*                                                                         *)
(*  - a GCPSymphonyResource per requestMachines call, here a cr;           *)
(*  - the pods it owns, one per machine;                                   *)
(*  - a MachineReturnRequest per requestReturnMachines call, here a return.*)
(*                                                                         *)
(* A machine is named by its pod.  The resources are those the provider    *)
(* makes: they carry the label symphony.requestId from the start.          *)
(*                                                                         *)
(* Here and in the modules that extend this one, a definition whose name   *)
(* begins with Slip is what its successor would be with a plausible        *)
(* mistake.  No action uses it: it serves to confirm that a property can   *)
(* fail.                                                                   *)
(***************************************************************************)
EXTENDS Integers, FiniteSets

CONSTANTS
    Crs,        \* request ids of requestMachines calls
    Pods,       \* names of the pods
    Owner,      \* the resource that makes each pod
    Returns,    \* request ids of requestReturnMachines calls
    NoId,       \* no label symphony.returnRequestId
    System,     \* system_initiated_return_msg
    Preempted,  \* preempted_machine_request_id_prefix and a uid
    Evictable,  \* pods that somebody else may delete
    Failing,    \* pods that the kubelet may evict
    MaxFaults   \* bound: API calls that still fail after their retries

ASSUME ObjectsAssumption ==
    /\ Owner \in [Pods -> Crs]
    /\ IsFiniteSet(Pods)
    /\ Crs \cap Returns = {}
    /\ Returns \cap {NoId, System, Preempted} = {}
    /\ NoId \notin {System, Preempted} /\ System # Preempted
    /\ Evictable \subseteq Pods /\ Failing \subseteq Pods
    /\ MaxFaults \in Nat

VARIABLES
    cr,         \* whether each resource exists
    available,  \* status.availableMachines
    crPhase,    \* status.phase
    returned,   \* status.returnedMachines of the owner: a pod's returnRequestId
    completed,  \* resources with the condition Completed
    pod,        \* each pod's phase
    deleting,   \* pods with a deletionTimestamp
    rid,        \* label symphony.returnRequestId
    left,       \* history: pods whose deletion has ever begun
    changed,    \* pods whose container statuses kopf has still to handle
    handled,    \* deleted pods whose delete handler has ended
    mrr,        \* whether each return exists
    ids,        \* spec.machineIds
    mrrPhase,   \* status.phase
    triggered,  \* returns with the label triggerUpdate
    labelled,   \* objects with the label symphony.waitingCleanup
    faults      \* API calls that failed so far

crVars   == <<cr, available, crPhase, returned, completed>>
podVars  == <<pod, deleting, rid, left, changed, handled>>
mrrVars  == <<mrr, ids, mrrPhase, triggered>>
objVars  == <<crVars, podVars, mrrVars, labelled, faults>>

NoCount   == -1
ReturnIds == Returns \cup {System, Preempted}
Phases    == {"none", "WaitingCleanup", "Running", "Degraded", "Pending", "Error"}
Existence == {"none", "live", "gone"}

ObjectsTypeOK ==
    /\ cr \in [Crs -> Existence]
    /\ available \in [Crs -> Nat \cup {NoCount}]
    /\ crPhase \in [Crs -> Phases]
    /\ returned \in [Pods -> ReturnIds \cup {NoId}]
    /\ completed \subseteq Crs
    /\ pod \in [Pods -> {"none", "Pending", "Running", "Failed", "gone"}]
    /\ deleting \subseteq Pods
    /\ rid \in [Pods -> Returns \cup {Preempted, NoId}]
    /\ left \subseteq Pods
    /\ changed \subseteq Pods
    /\ handled \subseteq Pods
    /\ mrr \in [Returns -> Existence]
    /\ ids \in [Returns -> SUBSET Pods]
    /\ mrrPhase \in [Returns -> {"none", "unset", "InProgress", "Completed"}]
    /\ triggered \subseteq Returns
    /\ labelled \subseteq Crs \cup Returns
    /\ faults \in 0..MaxFaults

ObjectsInit ==
    /\ cr = [r \in Crs |-> "none"]
    /\ available = [r \in Crs |-> NoCount]
    /\ crPhase = [r \in Crs |-> "none"]
    /\ returned = [p \in Pods |-> NoId]
    /\ completed = {}
    /\ pod = [p \in Pods |-> "none"]
    /\ deleting = {}
    /\ rid = [p \in Pods |-> NoId]
    /\ left = {} /\ changed = {} /\ handled = {}
    /\ mrr = [q \in Returns |-> "none"]
    /\ ids = [q \in Returns |-> {}]
    /\ mrrPhase = [q \in Returns |-> "none"]
    /\ triggered = {} /\ labelled = {}
    /\ faults = 0

-----------------------------------------------------------------------------
(* What the API answers. *)

PodsOf(r) == {p \in Pods : Owner[p] = r}
Exists(p) == pod[p] \in {"Pending", "Running", "Failed"}

\* The pods a label selector finds, and those without a deletionTimestamp.
Listed == {p \in Pods : Exists(p)}
Active == Listed \ deleting
ActiveOf(r) == Active \cap PodsOf(r)

\* A call that has used up its retries raises.
Fault == faults < MaxFaults /\ faults' = faults + 1
Ok == UNCHANGED faults

\* DELETE of pods: they get a deletionTimestamp and wait for the finalizer of
\* kopf, which from now on calls no handler of theirs but the delete handler.
StartDeleting(S) ==
    /\ deleting' = deleting \cup S
    /\ left' = left \cup S
    /\ changed' = changed \ S

-----------------------------------------------------------------------------
(* The cluster. *)

\* The containers of a pod run and are ready.
PodReady(p) ==
    /\ p \in Active /\ pod[p] = "Pending"
    /\ pod' = [pod EXCEPT ![p] = "Running"]
    /\ changed' = changed \cup {p}
    /\ UNCHANGED <<crVars, deleting, rid, left, handled, mrrVars, labelled, faults>>

\* The kubelet evicts a pod: its phase is Failed, its condition DisruptionTarget.
PodFails(p) ==
    /\ p \in Active \cap Failing /\ pod[p] = "Running"
    /\ pod' = [pod EXCEPT ![p] = "Failed"]
    /\ changed' = changed \cup {p}
    /\ UNCHANGED <<crVars, deleting, rid, left, handled, mrrVars, labelled, faults>>

\* A drain, or a user with kubectl, deletes a pod.
EvictPod(p) ==
    /\ p \in Active \cap Evictable
    /\ StartDeleting({p})
    /\ UNCHANGED <<crVars, pod, rid, handled, mrrVars, labelled, faults>>

\* kopf has removed the finalizer and the containers have stopped.
PodGone(p) ==
    /\ p \in deleting \cap handled
    /\ pod' = [pod EXCEPT ![p] = "gone"]
    /\ deleting' = deleting \ {p}
    /\ handled' = handled \ {p}
    /\ UNCHANGED <<crVars, rid, left, changed, mrrVars, labelled, faults>>

\* The garbage collector deletes the pods of a resource that is gone.
CollectGarbage(r) ==
    /\ cr[r] = "gone" /\ ActiveOf(r) # {}
    /\ StartDeleting(ActiveOf(r))
    /\ UNCHANGED <<crVars, pod, rid, handled, mrrVars, labelled, faults>>

ClusterStep ==
    \/ \E p \in Pods : PodReady(p) \/ PodFails(p) \/ EvictPod(p) \/ PodGone(p)
    \/ \E r \in Crs : CollectGarbage(r)
=============================================================================
