--------------------------- MODULE ReturnHandlers ---------------------------
(***************************************************************************)
(* The handlers that delete pods (k8s-operator/.../handlers): those of a   *)
(* MachineReturnRequest and the one of a node that is preempted.  Both go  *)
(* through process_pod_delete, which labels the pod with the id of the     *)
(* return before it deletes it.                                            *)
(*                                                                         *)
(* The except clause of process_pod_delete names Exception | ApiException, *)
(* which is no exception class: Python raises TypeError in the place of    *)
(* whatever went wrong, a pod that is gone included, and kopf runs the     *)
(* whole handler again.  So no machine is ever marked Failed, and a run    *)
(* that comes to its end has dealt with every machine.                     *)
(***************************************************************************)
EXTENDS StatusWorker

CONSTANTS
    Spot,       \* the pods on the spot node
    KeyLabel    \* whether that node has a label "key" with the expected value

ASSUME ReturnAssumption == Spot \subseteq Pods /\ KeyLabel \in BOOLEAN

\* Who deletes pods: the returns, and the handler of the node's taints.
Deleters == Returns \cup {Preempted}

VARIABLES
    retPc,      \* the handler of each
    due,        \* those that kopf will run (again)
    trig,       \* returns with a scheduled trigger_update
    todo,       \* pods still to be deleted
    cur         \* the pod that is labelled and not yet deleted

returnVars == <<retPc, due, trig, todo, cur>>

ReturnTypeOK ==
    /\ retPc \in [Deleters -> {"none", "create", "idle", "delete", "status"}]
    /\ due \subseteq Deleters
    /\ trig \subseteq Returns
    /\ todo \in [Deleters -> SUBSET Pods]
    /\ cur \in [Deleters -> SUBSET Pods]

ReturnInit ==
    /\ retPc = [d \in Deleters |-> "none"]
    /\ due = {} /\ trig = {}
    /\ todo = [d \in Deleters |-> {}]
    /\ cur = [d \in Deleters |-> {}]

\* A mistake: a run that was cut off counts as one that ended.
SlipReturnRestart ==
    /\ retPc' = [d \in Deleters |-> IF retPc[d] = "delete" THEN "status" ELSE retPc[d]]
    /\ due' = due /\ trig' = {}
    /\ todo' = [d \in Deleters |-> {}]
    /\ cur' = [d \in Deleters |-> {}]

\* After a restart kopf resumes every return whose creation it has handled.
ReturnRestart ==
    /\ retPc' = [d \in Deleters |->
                    IF retPc[d] \in {"delete", "status"} THEN "idle" ELSE retPc[d]]
    /\ due' = due \cup {q \in Returns : mrr[q] = "live" /\ retPc[q] \notin {"none", "create"}}
    /\ trig' = {}
    /\ todo' = [d \in Deleters |-> {}]
    /\ cur' = [d \in Deleters |-> {}]

-----------------------------------------------------------------------------
(* on.create: phase InProgress, and a task that will set the label.        *)

\* If the status cannot be written, kopf stores the result of the handler in it,
\* which has no phase, and nothing is scheduled.
ReturnCreate(q) ==
    /\ retPc[q] = "create"
    /\ retPc' = [retPc EXCEPT ![q] = "idle"]
    /\ \/ /\ mrrPhase' = [mrrPhase EXCEPT ![q] = "InProgress"]
          /\ trig' = trig \cup {q}
          /\ Ok
       \/ /\ Fault
          /\ mrrPhase' = [mrrPhase EXCEPT ![q] = "unset"]
          /\ UNCHANGED trig
    /\ UNCHANGED <<crVars, podVars, mrr, ids, triggered, labelled, workerVars,
                   due, todo, cur>>

\* A mistake: no handler waits for the label.
SlipTriggerUpdate(q) ==
    /\ q \in trig
    /\ trig' = trig \ {q}
    /\ triggered' = triggered \cup {q} /\ Ok
    /\ UNCHANGED <<crVars, podVars, mrr, ids, mrrPhase, labelled, workerVars,
                   retPc, due, todo, cur>>

TriggerUpdate(q) ==
    /\ q \in trig
    /\ trig' = trig \ {q}
    /\ \/ /\ triggered' = triggered \cup {q}
          /\ due' = due \cup {q}
          /\ Ok
       \/ Fault /\ UNCHANGED <<triggered, due>>
    /\ UNCHANGED <<crVars, podVars, mrr, ids, mrrPhase, labelled, workerVars,
                   retPc, todo, cur>>

-----------------------------------------------------------------------------
(* on.update, on.resume and on.field of the label. *)

\* The guards, and the list of the operator's pods, those being deleted included.
\* A list that fails raises: kopf runs the handler again.
ReturnUpdate(q) ==
    /\ q \in due /\ retPc[q] = "idle"
    /\ IF mrr[q] = "live" /\ mrrPhase[q] # "Completed"
       THEN /\ retPc' = [retPc EXCEPT ![q] = "delete"]
            /\ todo' = [todo EXCEPT ![q] = ids[q] \cap Listed]
            /\ UNCHANGED due
       ELSE due' = due \ {q} /\ UNCHANGED <<retPc, todo>>
    /\ UNCHANGED <<objVars, workerVars, trig, cur>>

\* The run is lost, whatever it has done; kopf will start another.
Abort(d) ==
    /\ retPc' = [retPc EXCEPT ![d] = "idle"]
    /\ todo' = [todo EXCEPT ![d] = {}]
    /\ cur' = [cur EXCEPT ![d] = {}]

\* A mistake: the pod is deleted before it has its label.
SlipLabelPod(d, p) ==
    /\ retPc[d] = "delete" /\ cur[d] = {} /\ p \in todo[d]
    /\ Exists(p) /\ Ok
    /\ StartDeleting({p})
    /\ todo' = [todo EXCEPT ![d] = @ \ {p}]
    /\ cur' = [cur EXCEPT ![d] = {p}]
    /\ UNCHANGED <<crVars, pod, rid, handled, mrrVars, labelled,
                   workerVars, retPc, due, trig>>

\* process_pod_delete: call_patch_namespaced_pod ...
LabelPod(d, p) ==
    /\ retPc[d] = "delete" /\ cur[d] = {} /\ p \in todo[d]
    /\ \/ /\ Exists(p)
          /\ rid' = [rid EXCEPT ![p] = d]
          /\ todo' = [todo EXCEPT ![d] = @ \ {p}]
          /\ cur' = [cur EXCEPT ![d] = {p}]
          /\ Ok /\ UNCHANGED retPc
       \/ ~Exists(p) /\ Ok /\ Abort(d) /\ UNCHANGED rid
       \/ Fault /\ Abort(d) /\ UNCHANGED rid
    /\ UNCHANGED <<crVars, pod, deleting, left, changed, handled, mrrVars, labelled,
                   workerVars, due, trig>>

\* A mistake: a call that fails counts as a pod that is gone.
SlipDeletePod(d, p) ==
    /\ p \in cur[d]
    /\ \/ Exists(p) /\ Ok /\ StartDeleting({p})
       \/ ~Exists(p) /\ Ok /\ UNCHANGED <<deleting, left, changed>>
       \/ Fault /\ UNCHANGED <<deleting, left, changed>>
    /\ cur' = [cur EXCEPT ![d] = {}] /\ UNCHANGED <<retPc, todo>>
    /\ UNCHANGED <<crVars, pod, rid, handled, mrrVars, labelled, workerVars, due, trig>>

\* ... and call_delete_namespaced_pod, which has no retry.
DeletePod(d, p) ==
    /\ p \in cur[d]
    /\ \/ /\ Exists(p)
          /\ StartDeleting({p})
          /\ cur' = [cur EXCEPT ![d] = {}]
          /\ Ok /\ UNCHANGED <<retPc, todo>>
       \/ ~Exists(p) /\ Ok /\ Abort(d) /\ UNCHANGED <<deleting, left, changed>>
       \/ Fault /\ Abort(d) /\ UNCHANGED <<deleting, left, changed>>
    /\ UNCHANGED <<crVars, pod, rid, handled, mrrVars, labelled, workerVars, due, trig>>

Ran(d) == retPc[d] = "delete" /\ todo[d] = {} /\ cur[d] = {}

\* The labels.  labels["triggerUpdate"] raises KeyError on a return that has lost
\* its trigger.  The change of the labels is itself an update.
ReturnLabels(q) ==
    /\ Ran(q)
    /\ IF q \in triggered
       THEN /\ \/ labelled' = labelled \cup {q} /\ Ok
               \/ Fault /\ UNCHANGED labelled
            /\ retPc' = [retPc EXCEPT ![q] = "status"]
            /\ UNCHANGED <<todo, cur>>
       ELSE Abort(q) /\ Ok /\ UNCHANGED labelled
    /\ UNCHANGED <<crVars, podVars, mrrVars, workerVars, due, trig>>

\* The status.  A run that could not write it is followed by another: the trigger
\* has two handlers, and the labels were an update.
ReturnStatus(q) ==
    /\ retPc[q] = "status"
    /\ \/ mrrPhase' = [mrrPhase EXCEPT ![q] = "Completed"] /\ Ok
       \/ Fault /\ UNCHANGED mrrPhase
    /\ retPc' = [retPc EXCEPT ![q] = "idle"]
    /\ UNCHANGED <<crVars, podVars, mrr, ids, triggered, labelled, workerVars,
                   due, trig, todo, cur>>

-----------------------------------------------------------------------------
(* on.field of a node's spec.taints. *)

\* GKE announces the end of the spot node (external).
TaintNode ==
    /\ Spot # {} /\ retPc[Preempted] = "none"
    /\ retPc' = [retPc EXCEPT ![Preempted] = "idle"]
    /\ due' = due \cup {Preempted}
    /\ UNCHANGED <<objVars, workerVars, trig, todo, cur>>

\* Nothing happens unless the node is taken for a spot node; otherwise its
\* Running pods are deleted.
PreemptionHandler ==
    /\ Preempted \in due /\ retPc[Preempted] = "idle"
    /\ IF KeyLabel
       THEN /\ retPc' = [retPc EXCEPT ![Preempted] = "delete"]
            /\ todo' = [todo EXCEPT ![Preempted] = {p \in Spot : pod[p] = "Running"}]
            /\ UNCHANGED due
       ELSE due' = due \ {Preempted} /\ UNCHANGED <<retPc, todo>>
    /\ UNCHANGED <<objVars, workerVars, trig, cur>>

PreemptionDone ==
    /\ Ran(Preempted)
    /\ retPc' = [retPc EXCEPT ![Preempted] = "idle"]
    /\ due' = due \ {Preempted}
    /\ UNCHANGED <<objVars, workerVars, trig, todo, cur>>

ProcessPodDelete(d) == \E p \in Pods : LabelPod(d, p) \/ DeletePod(d, p)
ReturnStep(q) ==
    \/ ReturnCreate(q) \/ TriggerUpdate(q) \/ ReturnUpdate(q) \/ ProcessPodDelete(q)
    \/ ReturnLabels(q) \/ ReturnStatus(q)
PreemptionStep == PreemptionHandler \/ ProcessPodDelete(Preempted) \/ PreemptionDone
=============================================================================
