------------------------- MODULE OperatorProperties -------------------------
(***************************************************************************)
(* What the GKE provider and its operator promise about the machines.      *)
(***************************************************************************)
EXTENDS SymphonyOperator

-----------------------------------------------------------------------------
(* Whether an entry (p, id) of returnedMachines is right: the return asked  *)
(* for the machine, or its node was preempted.                             *)

EntryTrue(p, id) ==
    /\ id \in Returns => p \in ids[id]
    /\ id = Preempted => p \in Spot

\* A machine is in returnedMachines, for ever, only if its deletion has begun, and
\* under the id of a return that asked for it: in spite of updates that are queued
\* twice, a label that another return writes over, and pods made again.
ReturnedTrue ==
    \A p \in Pods :
        returned[p] # NoId => p \in left /\ EntryTrue(p, returned[p])

\* A return that is answered complete, or that the cleanup has taken, has had every
\* one of its machines deleted, although each run of its handler may break off
\* anywhere, a later one skips the machines it does not find, and the label that
\* the cleanup looks for is set before the status is.
CompleteReturnTrue ==
    \A q \in Returns :
        RequestStatus(q) = "complete" \/ mrr[q] = "gone" => ids[q] \subseteq left

\* A resource gets the condition Completed only after all its pods were made, and
\* none of them is left: Completed is what the cleanup goes by, and with the
\* resource the cluster deletes whatever pods it has.
Finished(r) == createPc[r] = "done" /\ ActiveOf(r) = {}
CompletedTrue == \A r \in completed : Finished(r)

-----------------------------------------------------------------------------
(* The inductive invariant.                                                *)

\* Pods that are going or gone have left.
PodsInv ==
    /\ deleting \subseteq left
    /\ deleting \subseteq Listed
    /\ handled \subseteq deleting
    /\ \A p \in Pods : pod[p] = "gone" => p \in left
    /\ \A p \in left : pod[p] # "none"

\* A label is that of who asked for the pod, and so is what is on its way into
\* returnedMachines.
LabelsInv ==
    /\ \A p \in Pods : rid[p] # NoId => EntryTrue(p, rid[p])
    /\ \A d \in Deleters : todo[d] \cup cur[d] \subseteq
            IF d = Preempted THEN Spot ELSE ids[d]

TrueUpdates ==
    {e \in UpdateEvent :
        e.type = "PodReturned" => e.pod \in left /\ EntryTrue(e.pod, e.id) /\ e.id # NoId}
UpdatesInv ==
    /\ \A i \in DOMAIN queue : queue[i] \in TrueUpdates
    /\ \A i \in DOMAIN batch : batch[i] \in TrueUpdates
    /\ wPc \in {"get", "list", "patch", "label"} => DOMAIN batch # {}

\* What the worker will write says no less than what is there, and nothing wrong.
JobInv ==
    wPc \in {"list", "patch"} =>
        /\ \A p \in Pods :
              /\ returned[p] # NoId => job.returned[p] = returned[p]
              /\ job.returned[p] # NoId => p \in left /\ EntryTrue(p, job.returned[p])
        /\ job.completed => Finished(Group)

\* Whoever has found a resource without pods found it so after its creation.
FinishedInv ==
    /\ CompletedTrue
    /\ \A r \in Crs : fieldPc[r] = "patch" => Finished(r)
    /\ \A r \in condemned \cap Crs : Finished(r)
    /\ \A r \in Crs : cr[r] = "gone" => createPc[r] = "done"
    /\ \A r \in Crs : cr[r] = "none" => createPc[r] = "none"

\* A run of a return's handler has dealt with every machine that is not before it.
RunsInv ==
    /\ \A q \in Returns : \A p \in ids[q] : pod[p] # "none"
    /\ \A q \in Returns : retPc[q] = "delete" => ids[q] \subseteq left \cup todo[q] \cup cur[q]
    /\ \A q \in Returns : retPc[q] = "status" \/ mrrPhase[q] = "Completed" => ids[q] \subseteq left
    /\ \A q \in Returns : mrr[q] = "none" => ids[q] = {} /\ retPc[q] = "none"
                                            /\ mrrPhase[q] = "none"
    /\ \A d \in Deleters : retPc[d] # "delete" => todo[d] = {} /\ cur[d] = {}
    /\ \A d \in Deleters : \A p, s \in cur[d] : p = s

\* What the cleanup takes was completed when it was listed, and it stays so.
CleanedInv ==
    \A q \in Returns :
        q \in condemned \/ mrr[q] = "gone" => mrr[q] # "none" /\ ids[q] \subseteq left

OperatorInv ==
    /\ ReturnedTrue /\ PodsInv /\ LabelsInv /\ UpdatesInv
    /\ JobInv /\ FinishedInv /\ RunsInv

-----------------------------------------------------------------------------
\* An entry of returnedMachines stays, with its id, for as long as the resource
\* does: the worker writes the whole list from a copy it read some calls before,
\* and other processes, restarts included, go on in between.
EntriesStay ==
    [][\A p \in Pods :
          returned[p] # NoId /\ cr[Owner[p]] = "live" => returned'[p] = returned[p]]_vars

\* The provider seen as any host provider: it knows the pods of the resources
\* there are, and tells of those in returnedMachines and of those of a completed
\* return.
Told ==
    ReturnRequests \cup UNION {ids[q] : q \in {s \in Returns : RequestStatus(s) = "complete"}}
KnownPods == {p \in Shown : cr[Owner[p]] = "live"}

Life == INSTANCE MachineLife WITH
            Machine <- Pods, live <- Active, left <- left,
            known <- KnownPods, told <- Told

\* The operator with its provider is a host provider: it tells of no machine that
\* has not left, and the cleanup forgets none that is still there, whatever
\* crashes, faults and evictions fall in between.
LifeSpec == Life!Spec

-----------------------------------------------------------------------------
(* What fails, and when nothing does.                                      *)

\* A process that is told to stop ends: the worker's stop() waits for the worker and
\* then for every update in the queue.
StopEnds == life # "up" ~> life = "up"

\* The cleanup takes no resource that has a machine, and none comes after it: the
\* garbage collector never has anything to do.
NothingToCollect == \A r \in Crs : cr[r] = "gone" => ActiveOf(r) = {}

\* Once its pods have been created, a request that is answered complete has every
\* machine it asked for, running, but for those that were deleted since and at
\* most as many as there were failed calls: a handler that a crash or an error has
\* cut off makes up for it, and nothing else is swallowed.
Missing(r) == {p \in PodsOf(r) : pod[p] # "Running" /\ p \notin left}
CompleteMeansAll ==
    \A r \in Crs :
        createPc[r] = "done" /\ RequestStatus(r) = "complete" =>
            Cardinality(Missing(r)) <= faults

\* The part of its inductive invariant: a create handler has made every pod it has
\* dealt with, but for one per failed call.
Unmade(r) == {p \in PodsOf(r) \ toMake[r] : pod[p] = "none"}
UnmadeInv ==
    \A r \in Crs :
        /\ createPc[r] # "running" => toMake[r] = {}
        /\ createPc[r] \in {"running", "done"} => Cardinality(Unmade(r)) <= faults

\* While no call has failed and the process has not ended, a pod that only returns
\* and the node's end delete is recorded under the id of one of them, never as
\* deleted by the system: the label is there before the delete handler reads it.
Quiet == faults = 0 /\ crashes = 0
Attributed == Quiet => \A p \in Pods \ Evictable : returned[p] # System

\* Its inductive invariant.  Pods are made once, and before anybody deletes them.
MadeOnce ==
    /\ \A r \in Crs : \A p \in toMake[r] : pod[p] = "none"
    /\ \A r \in Crs : createPc[r] \in {"none", "due"} =>
            \A p \in PodsOf(r) : pod[p] = "none"
    /\ \A d \in Deleters : \A p \in todo[d] \cup cur[d] : pod[p] # "none"

\* A pod has its label before it is deleted, and keeps one from then on.
LabelledFirst ==
    /\ \A d \in Deleters : \A p \in cur[d] : rid[p] # NoId
    /\ \A p \in deleting \ Evictable : rid[p] # NoId

\* So what is on its way into returnedMachines has an id that is not the system's.
Named(p, id) == p \in Evictable \/ id # System
NamedUpdates == {e \in UpdateEvent : e.type = "PodReturned" => Named(e.pod, e.id)}
NamedInv ==
    /\ \A i \in DOMAIN queue : queue[i] \in NamedUpdates
    /\ \A i \in DOMAIN batch : batch[i] \in NamedUpdates
    /\ wPc \in {"list", "patch"} => \A p \in Pods : Named(p, job.returned[p])
    /\ \A p \in Pods : Named(p, returned[p])

LabelFirstInv == Quiet => life = "up" /\ MadeOnce /\ LabelledFirst /\ NamedInv

-----------------------------------------------------------------------------
(* While nothing fails, what has happened to a pod is in the status of its   *)
(* resource, or on the way there.                                            *)

\* An update that says that p was deleted and that the worker has not dealt with.
ToldDeleted(p) ==
    \E e \in Range(queue) \cup Range(batch) : e.pod = p /\ e.type = "PodReturned"

\* p is in returnedMachines, for as long as there are any.
Noted(p) == returned[p] # NoId \/ cr[Owner[p]] # "live"

\* One update at a time, the deletion of a pod is never lost: from the end of its
\* delete handler on, after which kopf lets the pod go, it is in returnedMachines or
\* an update is on the way, whatever the other handlers report of the pod meanwhile
\* and whatever was read of the resource before.
NothingLost ==
    \A p \in Pods : p \in handled \/ pod[p] = "gone" => Noted(p) \/ ToldDeleted(p)
DeletionNotLost == Quiet /\ BatchSize = 1 => NothingLost

\* Its inductive invariant: the update at hand is in what the worker will write, and
\* then in what it has written.
BatchNoted ==
    \A e \in Range(batch) : e.type = "PodReturned" =>
        /\ wPc \in {"list", "patch"} => job.returned[e.pod] # NoId
        /\ wPc = "label" => Noted(e.pod)
DeletionInv == Quiet /\ BatchSize = 1 => NothingLost /\ BatchNoted

\* Pods of which a report is due: kopf has yet to call a handler, or the worker has
\* yet to list the pods of their resource.
Unhandled == changed \cup (deleting \ handled)
Queued    == {e.pod : e \in Range(queue)}
Waiting   == {e.pod : e \in {b \in Range(batch) :
                                wPc \in {"get", "list"} \/ Owner[b.pod] # Group}}
Reported(r) == PodsOf(r) \cap (Unhandled \cup Queued \cup Waiting) # {}

\* What the status of r says, or will say when the worker has written it, is so.
Describes(n, phase, r) ==
    n = Cardinality(RunningIn(ActiveOf(r))) /\ phase = CalculatePhase(ActiveOf(r))
Described(r) ==
    IF wPc = "patch" /\ Group = r THEN Describes(job.available, job.phase, r)
    ELSE Describes(available[r], crPhase[r], r)

\* The status of a resource is that of its pods, but for a pod that has yet to start,
\* or there is a report due that will make it so: in particular no status is written
\* that was overtaken while the worker waited for the answers of its calls.
Started(r) ==
    /\ \E p \in PodsOf(r) : pod[p] # "none"
    /\ \A p \in ActiveOf(r) : pod[p] # "Pending"
CaughtUp == \A r \in Crs : cr[r] = "live" /\ Started(r) => Described(r) \/ Reported(r)
StatusCaughtUp == Quiet => CaughtUp

\* Its inductive invariant: kopf is told no more of the containers of a pod that leaves.
CaughtUpInv == Quiet => CaughtUp /\ changed \subseteq Active

-----------------------------------------------------------------------------
(* What happens in the end.                                              *)

\* Every return ends, and is answered complete.
ReturnEnds ==
    \A q \in Returns : mrr[q] = "live" ~> RequestStatus(q) = "complete" \/ mrr[q] = "gone"

\* In the end the status of a resource is that of its pods.
StatusSettles ==
    \A r \in Crs :
        <>[](cr[r] = "live" /\ RunningIn(PodsOf(r)) # {} =>
                /\ available[r] = Cardinality(RunningIn(ActiveOf(r)))
                /\ crPhase[r] = CalculatePhase(ActiveOf(r)))

\* Every deleted pod is in the end found in returnedMachines.
DeletionRecorded ==
    \A p \in Pods :
        pod[p] = "gone" ~> returned[p] # NoId \/ cr[Owner[p]] # "live"

\* A resource all of whose pods have left is in the end marked Completed.
CompletedAtLast ==
    \A r \in Crs :
        (createPc[r] = "done" /\ \A p \in PodsOf(r) : pod[p] = "gone")
            ~> (r \in completed \/ cr[r] = "gone")
=============================================================================
