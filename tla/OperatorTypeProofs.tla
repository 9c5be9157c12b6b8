-------------------------- MODULE OperatorTypeProofs --------------------------
(* Type correctness of the operator, component by component.               *)
EXTENDS OperatorProperties, FiniteSetTheorems, SequenceTheorems, TLAPS

\* The least element of a set of positions is one of them.
LEMMA MinIn ==
    ASSUME NEW S \in SUBSET Nat, S # {}
    PROVE  Min(S) \in S /\ \A i \in S : Min(S) <= i
  <1> DEFINE R == OpToRel(<, Nat)
  <1>a. IsWellFoundedOn(R, Nat)
    BY NatLessThanWellFounded
  <1>b. \A i, j \in Nat : <<i, j>> \notin R => j <= i
    BY DEF OpToRel
  <1> HIDE DEF R
  <1>1. \E i \in S : \A j \in S : ~ (<<j, i>> \in R)
    BY <1>a, WFMin
  <1>2. PICK i \in S : \A j \in S : i <= j
    BY <1>1, <1>b
  <1> QED
    BY <1>2 DEF Min

\* What the worker takes from a batch that is not empty.
LEMMA FirstOfBatch ==
    ASSUME ObjectsTypeOK, WorkerTypeOK, DOMAIN batch # {}
    PROVE  /\ Min(DOMAIN batch) \in DOMAIN batch
           /\ First \in UpdateEvent
           /\ Group \in Crs
  <1> USE WorkerAssumption, ObjectsAssumption DEF WorkerTypeOK
  <1>1. DOMAIN batch \in SUBSET Nat
    OBVIOUS
  <1>2. Min(DOMAIN batch) \in DOMAIN batch
    BY <1>1, MinIn
  <1>3. First \in UpdateEvent
    BY <1>2 DEF First
  <1> QED
    BY <1>2, <1>3 DEF Group, UpdateEvent

LEMMA KeptUpdateOf ==
    ASSUME ObjectsTypeOK, WorkerTypeOK, NEW p \in Pods, Positions(p) # {}
    PROVE  /\ Min(Positions(p)) \in DOMAIN batch
           /\ KeptUpdate(p) \in UpdateEvent /\ KeptUpdate(p).pod = p
  <1> USE WorkerAssumption DEF WorkerTypeOK
  <1>1. Positions(p) \in SUBSET Nat /\ Positions(p) \subseteq DOMAIN batch
    BY DEF Positions
  <1>2. Min(Positions(p)) \in Positions(p)
    BY <1>1, MinIn
  <1> QED
    BY <1>1, <1>2 DEF KeptUpdate, Positions

-----------------------------------------------------------------------------
(* What leaves a component alone keeps its type. *)

LEMMA StillTyped ==
    /\ ObjectsTypeOK /\ UNCHANGED objVars => ObjectsTypeOK'
    /\ WorkerTypeOK /\ UNCHANGED workerVars => WorkerTypeOK'
    /\ HandlerTypeOK /\ UNCHANGED handlerVars => HandlerTypeOK'
    /\ ReturnTypeOK /\ UNCHANGED returnVars => ReturnTypeOK'
    /\ CleanupTypeOK /\ UNCHANGED condemned => CleanupTypeOK'
  <1>1. ObjectsTypeOK /\ UNCHANGED objVars => ObjectsTypeOK'
    BY DEF ObjectsTypeOK, objVars, crVars, podVars, mrrVars
  <1>2. WorkerTypeOK /\ UNCHANGED workerVars => WorkerTypeOK'
    BY DEF WorkerTypeOK, workerVars
  <1>3. HandlerTypeOK /\ UNCHANGED handlerVars => HandlerTypeOK'
    BY DEF HandlerTypeOK, handlerVars
  <1>4. ReturnTypeOK /\ UNCHANGED returnVars => ReturnTypeOK'
    BY DEF ReturnTypeOK, returnVars
  <1> QED
    BY <1>1, <1>2, <1>3, <1>4 DEF CleanupTypeOK

LEMMA InitTyped == Init => TypeOK
  <1> SUFFICES ASSUME Init PROVE TypeOK
    OBVIOUS
  <1>1. ObjectsTypeOK
    BY ObjectsAssumption DEF Init, ObjectsInit, ObjectsTypeOK, ReturnIds, Phases, Existence
  <1>2. WorkerTypeOK
    <2>1. queue = <<>> /\ batch = <<>> /\ DOMAIN batch = {} /\ wPc = "check"
      BY DEF Init, WorkerInit
    <2>2. job \in Job
      BY DEF Init, WorkerInit, NoJob, Job, Phases
    <2>3. batch \in [DOMAIN batch -> UpdateEvent]
      BY <2>1
    <2> QED
      BY <2>1, <2>2, <2>3 DEF WorkerTypeOK, WorkerPc
  <1>3. HandlerTypeOK /\ ReturnTypeOK /\ CleanupTypeOK
    BY DEF Init, HandlerInit, HandlerTypeOK, ReturnInit, ReturnTypeOK, CleanupTypeOK
  <1> QED
    BY <1>1, <1>2, <1>3, OperatorAssumption DEF TypeOK, Init

-----------------------------------------------------------------------------
(* The cluster and the cleanup. *)

LEMMA FaultTyped == ASSUME faults \in 0..MaxFaults, Fault \/ Ok PROVE faults' \in 0..MaxFaults
  BY ObjectsAssumption DEF Fault, Ok

LEMMA ClusterTyped == ASSUME ObjectsTypeOK, ClusterStep PROVE ObjectsTypeOK'
  <1> USE DEF ObjectsTypeOK, crVars, mrrVars, StartDeleting, Active, ActiveOf, Listed
  <1>1. ASSUME NEW p \in Pods, PodReady(p) PROVE ObjectsTypeOK'
    BY <1>1 DEF PodReady
  <1>2. ASSUME NEW p \in Pods, PodFails(p) PROVE ObjectsTypeOK'
    BY <1>2 DEF PodFails
  <1>3. ASSUME NEW p \in Pods, EvictPod(p) PROVE ObjectsTypeOK'
    BY <1>3 DEF EvictPod
  <1>4. ASSUME NEW p \in Pods, PodGone(p) PROVE ObjectsTypeOK'
    BY <1>4 DEF PodGone
  <1>5. ASSUME NEW r \in Crs, CollectGarbage(r) PROVE ObjectsTypeOK'
    BY <1>5 DEF CollectGarbage
  <1> QED
    BY <1>1, <1>2, <1>3, <1>4, <1>5 DEF ClusterStep

LEMMA CleanupTyped ==
    ASSUME ObjectsTypeOK, CleanupTypeOK, CleanupStep
    PROVE  ObjectsTypeOK' /\ CleanupTypeOK'
  <1>1. CASE CleanupList
    BY <1>1, StillTyped DEF CleanupList, CleanupTypeOK, CleanupCrs, CleanupReturns
  <1>2. ASSUME NEW r \in Crs, CleanupResource(r) PROVE ObjectsTypeOK' /\ CleanupTypeOK'
    <2>1. cr' \in [Crs -> Existence] /\ labelled' \subseteq Crs \cup Returns
          /\ completed' \subseteq Crs
      BY <1>2 DEF CleanupResource, ObjectsTypeOK, Existence
    <2> QED
      BY <1>2, <2>1, FaultTyped
      DEF CleanupResource, ObjectsTypeOK, CleanupTypeOK, podVars, mrrVars
  <1>3. ASSUME NEW q \in Returns, CleanupReturn(q) PROVE ObjectsTypeOK' /\ CleanupTypeOK'
    <2>1. mrr' \in [Returns -> Existence] /\ labelled' \subseteq Crs \cup Returns
      BY <1>3 DEF CleanupReturn, ObjectsTypeOK, Existence
    <2> QED
      BY <1>3, <2>1, FaultTyped
      DEF CleanupReturn, ObjectsTypeOK, CleanupTypeOK, podVars, crVars
  <1> QED
    BY <1>1, <1>2, <1>3 DEF CleanupStep

-----------------------------------------------------------------------------
(* The status worker. *)

LEMMA EnqueueTyped ==
    ASSUME queue \in Seq(UpdateEvent), NEW p \in Pods, NEW id \in ReturnIds \cup {NoId},
           NEW type \in {"status_check", "ContainerHealth", "PodReturned"},
           Enqueue(p, type, id)
    PROVE  queue' \in Seq(UpdateEvent)
  <1>1. [pod |-> p, type |-> type, id |-> id] \in UpdateEvent
    BY DEF UpdateEvent
  <1> QED
    BY <1>1, AppendProperties DEF Enqueue

LEMMA NextGroupTyped ==
    ASSUME ObjectsTypeOK, WorkerTypeOK, UNCHANGED queue, NextGroup
    PROVE  WorkerTypeOK'
  <1>1. job' \in Job
    BY DEF NextGroup, NoJob, Job, Phases
  <1>2. DOMAIN batch' \subseteq 1..BatchSize /\ batch' \in [DOMAIN batch' -> UpdateEvent]
    BY DEF NextGroup, WorkerTypeOK
  <1>3. wPc' \in WorkerPc
    BY DEF NextGroup, WorkerPc
  <1> QED
    BY <1>1, <1>2, <1>3 DEF WorkerTypeOK

LEMMA CountTyped == Cardinality(RunningIn(ActiveOf(Group))) \in Nat
  <1>1. IsFiniteSet(RunningIn(ActiveOf(Group)))
    BY ObjectsAssumption, FS_Subset DEF RunningIn, ActiveOf, PodsOf
  <1> QED
    BY <1>1, FS_CardinalityType

\* What the status check of a new process puts into the queue.
LEMMA ChecksTyped ==
    ASSUME NEW s \in SetToSeqs(Active)
    PROVE  [i \in DOMAIN s |-> [pod |-> s[i], type |-> "status_check", id |-> NoId]]
              \in Seq(UpdateEvent)
  <1> DEFINE checks ==
          [i \in DOMAIN s |-> [pod |-> s[i], type |-> "status_check", id |-> NoId]]
  <1>1. Cardinality(Active) \in Nat
    <2>1. IsFiniteSet(Active)
      BY ObjectsAssumption, FS_Subset DEF Active, Listed
    <2> QED
      BY <2>1, FS_CardinalityType
  <1>2. DOMAIN s = 1..Cardinality(Active) /\ \A i \in DOMAIN s : s[i] \in Pods
    BY DEF SetToSeqs, Active, Listed
  <1>3. \A i \in DOMAIN s : checks[i] \in UpdateEvent
    BY <1>2 DEF UpdateEvent
  <1> QED
    BY <1>1, <1>2, <1>3

LEMMA StatusCheckTyped ==
    ASSUME ObjectsTypeOK, WorkerTypeOK, StatusCheck
    PROVE  ObjectsTypeOK' /\ WorkerTypeOK'
  <1>1. ObjectsTypeOK'
    BY FaultTyped DEF StatusCheck, ObjectsTypeOK, crVars, podVars, mrrVars
  <1>2. queue' \in Seq(UpdateEvent)
    <2>1. CASE UNCHANGED queue
      BY <2>1 DEF WorkerTypeOK
    <2>2. ASSUME NEW s \in SetToSeqs(Active),
                 queue' = queue \o
                    [i \in DOMAIN s |-> [pod |-> s[i], type |-> "status_check", id |-> NoId]]
          PROVE  queue' \in Seq(UpdateEvent)
      BY <2>2, ChecksTyped, ConcatProperties DEF WorkerTypeOK
    <2> QED
      BY <2>1, <2>2 DEF StatusCheck
  <1> QED
    BY <1>1, <1>2 DEF StatusCheck, WorkerTypeOK, WorkerPc

LEMMA CollectBatchTyped ==
    ASSUME ObjectsTypeOK, WorkerTypeOK, CollectBatch
    PROVE  ObjectsTypeOK' /\ WorkerTypeOK'
  <1> DEFINE n == IF BatchSize < Len(queue) THEN BatchSize ELSE Len(queue)
  <1>1. n \in 1..BatchSize /\ n <= Len(queue) /\ Len(queue) \in Nat
    <2>1. Len(queue) \in Nat \ {0}
      BY EmptySeq, LenProperties DEF CollectBatch, WorkerTypeOK
    <2> QED
      BY <2>1, WorkerAssumption
  <1>2. queue' = SubSeq(queue, n + 1, Len(queue)) /\ batch' = SubSeq(queue, 1, n)
    BY DEF CollectBatch
  <1>3. \A i \in 1..Len(queue) : queue[i] \in UpdateEvent
    BY ElementOfSeq DEF WorkerTypeOK
  <1> HIDE DEF n
  <1>4. queue' \in Seq(UpdateEvent)
    BY <1>1, <1>2, <1>3, SubSeqProperties
  <1>5. batch' \in Seq(UpdateEvent) /\ Len(batch') = n
    BY <1>1, <1>2, <1>3, SubSeqProperties
  <1>6. DOMAIN batch' = 1..n /\ batch' \in [1..n -> UpdateEvent]
    BY <1>5, LenProperties
  <1>7. ObjectsTypeOK' /\ job' \in Job /\ wPc' \in WorkerPc
    BY StillTyped DEF CollectBatch, WorkerTypeOK, WorkerPc
  <1>8. DOMAIN batch' \subseteq 1..BatchSize /\ batch' \in [DOMAIN batch' -> UpdateEvent]
    BY <1>1, <1>6, WorkerAssumption
  <1> QED
    BY <1>4, <1>7, <1>8 DEF WorkerTypeOK

LEMMA GetResourceTyped ==
    ASSUME ObjectsTypeOK, WorkerTypeOK, DOMAIN batch # {}, GetResource
    PROVE  ObjectsTypeOK' /\ WorkerTypeOK'
  <1>1. ObjectsTypeOK'
    BY FaultTyped DEF GetResource, ObjectsTypeOK, crVars, podVars, mrrVars
  <1>2. CASE NextGroup
    BY <1>1, <1>2, NextGroupTyped DEF GetResource
  <1>3. CASE /\ job' = [NoJob EXCEPT !.returned = ApplyMachineUpdates,
                                     !.completed = Group \in completed]
             /\ wPc' = "list" /\ UNCHANGED batch
    <2>1. \A p \in Pods : ApplyMachineUpdates[p] \in ReturnIds \cup {NoId}
      BY KeptUpdateOf DEF ApplyMachineUpdates, UpdateEvent, ObjectsTypeOK
    <2>2. ApplyMachineUpdates \in [Pods -> ReturnIds \cup {NoId}]
      BY <2>1 DEF ApplyMachineUpdates
    <2>3. job' = [returned |-> ApplyMachineUpdates, completed |-> Group \in completed,
                  phase |-> "none", available |-> 0]
      BY <1>3 DEF NoJob
    <2>4. job' \in Job
      BY <2>2, <2>3 DEF Job, Phases
    <2> QED
      BY <1>1, <1>3, <2>4 DEF GetResource, WorkerTypeOK, WorkerPc
  <1> QED
    BY <1>2, <1>3 DEF GetResource

LEMMA ListPodsTyped ==
    ASSUME ObjectsTypeOK, WorkerTypeOK, ListPods
    PROVE  ObjectsTypeOK' /\ WorkerTypeOK'
  <1>1. ObjectsTypeOK'
    BY FaultTyped DEF ListPods, ObjectsTypeOK, crVars, podVars, mrrVars
  <1>2. CalculatePhase(ActiveOf(Group)) \in Phases
    BY DEF CalculatePhase, Phases
  <1>3. PICK phase \in Phases, n \in Nat :
              job' = [job EXCEPT !.phase = phase, !.available = n]
    <2>1. 0 \in Nat /\ "Error" \in Phases
      BY DEF Phases
    <2> QED
      BY <1>2, <2>1, CountTyped DEF ListPods
  <1>4. job' \in Job
    BY <1>3 DEF WorkerTypeOK, Job
  <1> QED
    BY <1>1, <1>4 DEF ListPods, WorkerTypeOK, WorkerPc

LEMMA PatchStatusTyped ==
    ASSUME ObjectsTypeOK, WorkerTypeOK, DOMAIN batch # {}, PatchStatus
    PROVE  ObjectsTypeOK' /\ WorkerTypeOK'
  <1>1. Group \in Crs /\ job \in Job
    BY FirstOfBatch DEF WorkerTypeOK
  <1>2. /\ returned' \in [Pods -> ReturnIds \cup {NoId}]
        /\ crPhase' \in [Crs -> Phases]
    BY <1>1 DEF PatchStatus, ObjectsTypeOK, Job
  <1>3. /\ available' \in [Crs -> Nat \cup {NoCount}]
        /\ completed' \subseteq Crs
    BY <1>1 DEF PatchStatus, ObjectsTypeOK, Job
  <1>4. ObjectsTypeOK'
    BY <1>2, <1>3, FaultTyped DEF PatchStatus, ObjectsTypeOK, podVars, mrrVars
  <1>5. CASE NextGroup
    BY <1>4, <1>5, NextGroupTyped DEF PatchStatus
  <1>6. CASE wPc' = "label" /\ UNCHANGED <<batch, job>>
    BY <1>4, <1>6 DEF PatchStatus, WorkerTypeOK, WorkerPc
  <1> QED
    BY <1>5, <1>6 DEF PatchStatus

LEMMA PatchCleanupLabelTyped ==
    ASSUME ObjectsTypeOK, WorkerTypeOK, DOMAIN batch # {}, PatchCleanupLabel
    PROVE  ObjectsTypeOK' /\ WorkerTypeOK'
  <1>1. Group \in Crs
    BY FirstOfBatch
  <1>2. labelled' \subseteq Crs \cup Returns
    BY <1>1 DEF PatchCleanupLabel, ObjectsTypeOK
  <1>3. ObjectsTypeOK'
    BY <1>2, FaultTyped DEF PatchCleanupLabel, ObjectsTypeOK, crVars, podVars, mrrVars
  <1>4. ASSUME wPc' = "get", job' = NoJob, UNCHANGED <<queue, batch>> PROVE WorkerTypeOK'
    BY <1>4 DEF WorkerTypeOK, WorkerPc, NoJob, Job, Phases
  <1> QED
    BY <1>3, <1>4, NextGroupTyped DEF PatchCleanupLabel

LEMMA WorkerTyped ==
    ASSUME ObjectsTypeOK, WorkerTypeOK, WorkerStep,
           wPc \in {"get", "list", "patch", "label"} => DOMAIN batch # {}
    PROVE  ObjectsTypeOK' /\ WorkerTypeOK'
  <1>1. CASE StatusCheck
    BY <1>1, StatusCheckTyped
  <1>2. CASE CollectBatch
    BY <1>2, CollectBatchTyped
  <1>3. CASE GetResource
    BY <1>3, GetResourceTyped DEF GetResource
  <1>4. CASE ListPods
    BY <1>4, ListPodsTyped
  <1>5. CASE PatchStatus
    BY <1>5, PatchStatusTyped DEF PatchStatus
  <1>6. CASE PatchCleanupLabel
    BY <1>6, PatchCleanupLabelTyped DEF PatchCleanupLabel
  <1> QED
    BY <1>1, <1>2, <1>3, <1>4, <1>5, <1>6 DEF WorkerStep, ProcessBatch

-----------------------------------------------------------------------------
(* The handlers of resources and pods. *)

LEMMA CreateTyped ==
    ASSUME ObjectsTypeOK, WorkerTypeOK, HandlerTypeOK, NEW r \in Crs, CreateStep(r)
    PROVE  ObjectsTypeOK' /\ WorkerTypeOK' /\ HandlerTypeOK'
  <1> USE StillTyped
  <1>1. CASE CreateStart(r)
    BY <1>1 DEF CreateStart, HandlerTypeOK, PodsOf, ObjectsTypeOK
  <1>2. ASSUME NEW p \in Pods, CreatePod(r, p)
        PROVE  ObjectsTypeOK' /\ WorkerTypeOK' /\ HandlerTypeOK'
    <2>1. /\ pod' \in [Pods -> {"none", "Pending", "Running", "Failed", "gone"}]
          /\ rid' \in [Pods -> Returns \cup {Preempted, NoId}]
      BY <1>2 DEF CreatePod, ObjectsTypeOK
    <2>2. ObjectsTypeOK'
      BY <1>2, <2>1, FaultTyped DEF CreatePod, ObjectsTypeOK, crVars, mrrVars
    <2>3. HandlerTypeOK'
      BY <1>2 DEF CreatePod, HandlerTypeOK
    <2> QED
      BY <1>2, <2>2, <2>3 DEF CreatePod
  <1>3. CASE CreateRaises(r)
    <2>1. ObjectsTypeOK'
      BY <1>3, FaultTyped DEF CreateRaises, ObjectsTypeOK, crVars, podVars, mrrVars
    <2> QED
      BY <1>3, <2>1 DEF CreateRaises, HandlerTypeOK
  <1>4. CASE CreateDone(r)
    BY <1>4 DEF CreateDone, HandlerTypeOK
  <1> QED
    BY <1>1, <1>2, <1>3, <1>4 DEF CreateStep

LEMMA FieldTyped ==
    ASSUME ObjectsTypeOK, WorkerTypeOK, HandlerTypeOK, NEW r \in Crs, FieldStep(r)
    PROVE  ObjectsTypeOK' /\ WorkerTypeOK' /\ HandlerTypeOK'
  <1> USE StillTyped
  <1>1. CASE FieldIgnore(r)
    BY <1>1 DEF FieldIgnore, HandlerTypeOK, ObjectsTypeOK
  <1>2. CASE FieldList(r)
    <2>1. ObjectsTypeOK'
      BY <1>2, FaultTyped DEF FieldList, ObjectsTypeOK, crVars, podVars, mrrVars
    <2> QED
      BY <1>2, <2>1 DEF FieldList, HandlerTypeOK
  <1>3. CASE FieldPatch(r)
    <2>1. ObjectsTypeOK'
      BY <1>3, FaultTyped DEF FieldPatch, ObjectsTypeOK, podVars, mrrVars
    <2> QED
      BY <1>3, <2>1 DEF FieldPatch, HandlerTypeOK
  <1> QED
    BY <1>1, <1>2, <1>3 DEF FieldStep

LEMMA PodTyped ==
    ASSUME ObjectsTypeOK, WorkerTypeOK, NEW p \in Pods, PodStep(p)
    PROVE  ObjectsTypeOK' /\ WorkerTypeOK'
  <1>1. CASE ContainerStatusHandler(p)
    <2>1. ObjectsTypeOK'
      BY <1>1, FaultTyped DEF ContainerStatusHandler, ObjectsTypeOK, crVars, mrrVars
    <2>2. queue' \in Seq(UpdateEvent)
      BY <1>1, EnqueueTyped DEF ContainerStatusHandler, WorkerTypeOK
    <2> QED
      BY <1>1, <2>1, <2>2 DEF ContainerStatusHandler, WorkerTypeOK
  <1>2. CASE PodDeleteHandler(p)
    <2>1. ObjectsTypeOK'
      BY <1>2, FaultTyped DEF PodDeleteHandler, ObjectsTypeOK, crVars, mrrVars
    <2>2. ReturnRequestId(p) \in ReturnIds \cup {NoId}
      BY DEF ReturnRequestId, ReturnIds, ObjectsTypeOK
    <2>3. queue' \in Seq(UpdateEvent)
      BY <1>2, <2>2, EnqueueTyped DEF PodDeleteHandler, WorkerTypeOK
    <2> QED
      BY <1>2, <2>1, <2>3 DEF PodDeleteHandler, WorkerTypeOK
  <1> QED
    BY <1>1, <1>2 DEF PodStep

LEMMA HandlerTyped ==
    ASSUME ObjectsTypeOK, WorkerTypeOK, HandlerTypeOK, HandlerStep
    PROVE  ObjectsTypeOK' /\ WorkerTypeOK' /\ HandlerTypeOK'
  <1>1. ASSUME NEW p \in Pods, PodStep(p) PROVE HandlerTypeOK'
    BY <1>1, StillTyped DEF PodStep, ContainerStatusHandler, PodDeleteHandler
  <1> QED
    BY <1>1, CreateTyped, FieldTyped, PodTyped DEF HandlerStep

-----------------------------------------------------------------------------
(* The handlers that delete pods. *)

LEMMA AbortTyped ==
    ASSUME ReturnTypeOK, NEW d \in Deleters, Abort(d), UNCHANGED <<due, trig>>
    PROVE  ReturnTypeOK'
  BY DEF ReturnTypeOK, Abort

LEMMA ProcessPodDeleteTyped ==
    ASSUME ObjectsTypeOK, ReturnTypeOK, NEW d \in Deleters, ProcessPodDelete(d)
    PROVE  ObjectsTypeOK' /\ ReturnTypeOK'
  <1>1. ASSUME NEW p \in Pods, LabelPod(d, p) PROVE ObjectsTypeOK' /\ ReturnTypeOK'
    <2>1. rid' \in [Pods -> Returns \cup {Preempted, NoId}]
      BY <1>1 DEF LabelPod, ObjectsTypeOK, Deleters
    <2>2. ObjectsTypeOK'
      BY <1>1, <2>1, FaultTyped DEF LabelPod, ObjectsTypeOK, crVars, mrrVars
    <2>3. CASE /\ todo' = [todo EXCEPT ![d] = @ \ {p}]
               /\ cur' = [cur EXCEPT ![d] = {p}] /\ UNCHANGED retPc
      BY <1>1, <2>2, <2>3 DEF LabelPod, ReturnTypeOK
    <2>4. CASE Abort(d)
      BY <1>1, <2>2, <2>4, AbortTyped DEF LabelPod
    <2> QED
      BY <1>1, <2>2, <2>3, <2>4 DEF LabelPod
  <1>2. ASSUME NEW p \in Pods, DeletePod(d, p) PROVE ObjectsTypeOK' /\ ReturnTypeOK'
    <2>1. ObjectsTypeOK'
      BY <1>2, FaultTyped DEF DeletePod, ObjectsTypeOK, crVars, mrrVars, StartDeleting
    <2>2. CASE cur' = [cur EXCEPT ![d] = {}] /\ UNCHANGED <<retPc, todo>>
      BY <1>2, <2>1, <2>2 DEF DeletePod, ReturnTypeOK
    <2>3. CASE Abort(d)
      BY <1>2, <2>1, <2>3, AbortTyped DEF DeletePod
    <2> QED
      BY <1>2, <2>1, <2>2, <2>3 DEF DeletePod
  <1> QED
    BY <1>1, <1>2 DEF ProcessPodDelete

LEMMA ReturnTyped ==
    ASSUME ObjectsTypeOK, ReturnTypeOK, NEW q \in Returns, ReturnStep(q)
    PROVE  ObjectsTypeOK' /\ ReturnTypeOK'
  <1> USE DEF Deleters
  <1>1. CASE ReturnCreate(q)
    <2>1. mrrPhase' \in [Returns -> {"none", "unset", "InProgress", "Completed"}]
      BY <1>1 DEF ReturnCreate, ObjectsTypeOK
    <2>2. ObjectsTypeOK'
      BY <1>1, <2>1, FaultTyped DEF ReturnCreate, ObjectsTypeOK, crVars, podVars
    <2> QED
      BY <1>1, <2>2 DEF ReturnCreate, ReturnTypeOK
  <1>2. CASE TriggerUpdate(q)
    <2>1. ObjectsTypeOK'
      BY <1>2, FaultTyped DEF TriggerUpdate, ObjectsTypeOK, crVars, podVars
    <2> QED
      BY <1>2, <2>1 DEF TriggerUpdate, ReturnTypeOK
  <1>3. CASE ReturnUpdate(q)
    BY <1>3, StillTyped DEF ReturnUpdate, ReturnTypeOK, Listed
  <1>4. CASE ProcessPodDelete(q)
    BY <1>4, ProcessPodDeleteTyped
  <1>5. CASE ReturnLabels(q)
    <2>1. ObjectsTypeOK'
      BY <1>5, FaultTyped DEF ReturnLabels, ObjectsTypeOK, crVars, podVars, mrrVars
    <2> QED
      BY <1>5, <2>1, AbortTyped DEF ReturnLabels, ReturnTypeOK
  <1>6. CASE ReturnStatus(q)
    <2>1. mrrPhase' \in [Returns -> {"none", "unset", "InProgress", "Completed"}]
      BY <1>6 DEF ReturnStatus, ObjectsTypeOK
    <2>2. ObjectsTypeOK'
      BY <1>6, <2>1, FaultTyped DEF ReturnStatus, ObjectsTypeOK, crVars, podVars
    <2> QED
      BY <1>6, <2>2 DEF ReturnStatus, ReturnTypeOK
  <1> QED
    BY <1>1, <1>2, <1>3, <1>4, <1>5, <1>6 DEF ReturnStep

LEMMA PreemptionTyped ==
    ASSUME ObjectsTypeOK, ReturnTypeOK, PreemptionStep \/ TaintNode
    PROVE  ObjectsTypeOK' /\ ReturnTypeOK'
  <1>1. Preempted \in Deleters
    BY DEF Deleters
  <1>2. CASE PreemptionHandler
    BY <1>1, <1>2, StillTyped, ReturnAssumption DEF PreemptionHandler, ReturnTypeOK
  <1>3. CASE PreemptionDone \/ TaintNode
    BY <1>1, <1>3, StillTyped DEF PreemptionDone, TaintNode, ReturnTypeOK
  <1> QED
    BY <1>1, <1>2, <1>3, ProcessPodDeleteTyped DEF PreemptionStep

-----------------------------------------------------------------------------
(* HostFactory's calls, and the process. *)

LEMMA ProviderTyped ==
    ASSUME ObjectsTypeOK, HandlerTypeOK, ReturnTypeOK, ProviderStep
    PROVE  ObjectsTypeOK' /\ HandlerTypeOK' /\ ReturnTypeOK'
  <1>1. ASSUME NEW r \in Crs, RequestMachines(r)
        PROVE  ObjectsTypeOK' /\ HandlerTypeOK' /\ ReturnTypeOK'
    <2>1. cr' \in [Crs -> Existence]
      BY <1>1 DEF RequestMachines, CreateResource, ObjectsTypeOK, Existence
    <2>2. ObjectsTypeOK'
      BY <1>1, <2>1 DEF RequestMachines, CreateResource, ObjectsTypeOK, podVars, mrrVars
    <2> QED
      BY <1>1, <2>2, StillTyped DEF RequestMachines, CreateResource, HandlerTypeOK
  <1>2. ASSUME NEW q \in Returns, RequestReturnMachines(q)
        PROVE  ObjectsTypeOK' /\ HandlerTypeOK' /\ ReturnTypeOK'
    <2>1. mrr' \in [Returns -> Existence] /\ ids' \in [Returns -> SUBSET Pods]
      BY <1>2 DEF RequestReturnMachines, CreateReturn, ObjectsTypeOK, Existence, Shown
    <2>2. ObjectsTypeOK'
      BY <1>2, <2>1 DEF RequestReturnMachines, CreateReturn, ObjectsTypeOK, podVars, crVars
    <2> QED
      BY <1>2, <2>2, StillTyped DEF RequestReturnMachines, CreateReturn, ReturnTypeOK, Deleters
  <1> QED
    BY <1>1, <1>2 DEF ProviderStep

LEMMA RestartTyped == ASSUME TypeOK, Restart, crashes' \in 0..MaxCrashes PROVE TypeOK'
  <1>1. handled' \subseteq Pods
    BY DEF Restart, TypeOK, ObjectsTypeOK
  <1>2. ObjectsTypeOK'
    BY <1>1 DEF Restart, TypeOK, ObjectsTypeOK, crVars, mrrVars
  <1>3. WorkerTypeOK'
    <2>1. queue' = <<>> /\ batch' = <<>> /\ DOMAIN batch' = {} /\ wPc' = "check"
      BY DEF Restart, WorkerStart
    <2>2. job' \in Job
      BY DEF Restart, WorkerStart, NoJob, Job, Phases
    <2>3. batch' \in [DOMAIN batch' -> UpdateEvent]
      BY <2>1
    <2> QED
      BY <2>1, <2>2, <2>3 DEF WorkerTypeOK, WorkerPc
  <1>4. HandlerTypeOK'
    BY DEF Restart, HandlerRestart, TypeOK, HandlerTypeOK
  <1>5. ReturnTypeOK'
    BY DEF Restart, ReturnRestart, TypeOK, ReturnTypeOK, Deleters
  <1> QED
    BY <1>2, <1>3, <1>4, <1>5 DEF TypeOK, CleanupTypeOK, Restart

LEMMA ProcessTyped == ASSUME TypeOK, Process PROVE TypeOK'
  <1> USE OperatorAssumption DEF TypeOK
  <1>1. CASE Crash
    <2>1. crashes' \in 0..MaxCrashes
      BY <1>1 DEF Crash
    <2> QED
      BY <1>1, <2>1, RestartTyped DEF Crash
  <1>2. CASE Stop
    BY <1>2, StillTyped DEF Stop
  <1>3. CASE StopReturns
    BY <1>3, RestartTyped DEF StopReturns
  <1> QED
    BY <1>1, <1>2, <1>3 DEF Process

-----------------------------------------------------------------------------
\* The worker has a batch exactly while it deals with one.
BatchKept == wPc \in {"get", "list", "patch", "label"} <=> DOMAIN batch # {}

LEMMA BatchKeeps == ASSUME TypeOK, BatchKept, [Next]_vars PROVE BatchKept'
  <1>1. ASSUME UNCHANGED workerVars PROVE BatchKept'
    BY <1>1 DEF BatchKept, workerVars
  <1>2. ASSUME UNCHANGED <<wPc, batch>> PROVE BatchKept'
    BY <1>2 DEF BatchKept
  <1>3. ASSUME WorkerStep PROVE BatchKept'
    <2>1. CASE NextGroup
      BY <2>1 DEF BatchKept, NextGroup
    <2>2. CASE CollectBatch
      <3>1. Len(queue) \in Nat \ {0} /\ queue \in Seq(UpdateEvent)
        BY <2>2, EmptySeq, LenProperties DEF CollectBatch, TypeOK, WorkerTypeOK
      <3>2. PICK n \in 1..Len(queue) : batch' = SubSeq(queue, 1, n)
        BY <2>2, <3>1, WorkerAssumption DEF CollectBatch
      <3>3. \A i \in 1..n : queue[i] \in UpdateEvent
        BY <3>1, ElementOfSeq
      <3>4. batch' \in Seq(UpdateEvent) /\ Len(batch') = n
        BY <3>1, <3>2, <3>3, SubSeqProperties
      <3>5. DOMAIN batch' = 1..n
        BY <3>4, LenProperties
      <3>6. wPc' = "get"
        BY <2>2 DEF CollectBatch
      <3> QED
        BY <3>1, <3>5, <3>6 DEF BatchKept
    <2>3. CASE StatusCheck
      BY <2>3 DEF StatusCheck, BatchKept
    <2>4. CASE GetResource /\ wPc' = "list" /\ UNCHANGED batch
      BY <2>4 DEF GetResource, BatchKept
    <2>5. CASE ListPods
      BY <2>5 DEF ListPods, BatchKept
    <2>6. CASE PatchStatus /\ wPc' = "label" /\ UNCHANGED batch
      BY <2>6 DEF PatchStatus, BatchKept
    <2>7. CASE PatchCleanupLabel /\ wPc' = "get" /\ UNCHANGED batch
      BY <2>7 DEF PatchCleanupLabel, BatchKept
    <2> QED
      BY <1>3, <2>1, <2>2, <2>3, <2>4, <2>5, <2>6, <2>7
      DEF WorkerStep, ProcessBatch, GetResource, PatchStatus, PatchCleanupLabel
  <1>4. CASE Process
    BY <1>1, <1>4 DEF Process, Crash, Stop, StopReturns, Restart, WorkerStart, BatchKept
  <1>5. CASE Handlers
    <2>1. ASSUME NEW p \in Pods, PodStep(p) PROVE BatchKept'
      BY <1>2, <2>1 DEF PodStep, ContainerStatusHandler, PodDeleteHandler
    <2>2. ASSUME NEW r \in Crs, CreateStep(r) \/ FieldStep(r) PROVE UNCHANGED workerVars
      BY <2>2 DEF CreateStep, CreateStart, CreatePod, CreateRaises, CreateDone,
                  FieldStep, FieldIgnore, FieldList, FieldPatch
    <2>3. ASSUME NEW d \in Deleters, ProcessPodDelete(d) PROVE UNCHANGED workerVars
      BY <2>3 DEF ProcessPodDelete, LabelPod, DeletePod
    <2>4. ASSUME NEW q \in Returns, ReturnStep(q) PROVE UNCHANGED workerVars
      BY <2>3, <2>4 DEF Deleters, ReturnStep, ReturnCreate, TriggerUpdate, ReturnUpdate,
                        ReturnLabels, ReturnStatus
    <2>5. ASSUME PreemptionStep PROVE UNCHANGED workerVars
      BY <2>3, <2>5 DEF Deleters, PreemptionStep, PreemptionHandler, PreemptionDone
    <2> QED
      BY <1>1, <1>5, <2>1, <2>2, <2>4, <2>5 DEF Handlers, HandlerStep
  <1>6. CASE Cluster \/ Provider \/ Node \/ Cleanup
    BY <1>1, <1>6 DEF Cluster, Provider, ProviderStep, RequestMachines, CreateResource,
        RequestReturnMachines, CreateReturn,
                      Node, TaintNode, Cleanup
  <1> QED
    BY <1>1, <1>3, <1>4, <1>5, <1>6 DEF Next, Worker, vars

LEMMA StepTyped == ASSUME TypeOK, BatchKept, [Next]_vars PROVE TypeOK'
  <1> USE StillTyped DEF TypeOK
  <1>1. CASE Cluster
    BY <1>1, ClusterTyped DEF Cluster, lifeVars
  <1>2. CASE Provider
    BY <1>2, ProviderTyped
    DEF Provider, ProviderStep, RequestMachines, CreateResource,
        RequestReturnMachines, CreateReturn, lifeVars
  <1>3. CASE Node
    BY <1>3, PreemptionTyped DEF Node, TaintNode, lifeVars
  <1>4. CASE Worker
    BY <1>4, WorkerTyped DEF Worker, BatchKept, lifeVars
  <1>5. CASE Cleanup
    BY <1>5, CleanupTyped DEF Cleanup, lifeVars
  <1>6. CASE Process
    BY <1>6, ProcessTyped
  <1>7. ASSUME HandlerStep, UNCHANGED <<returnVars, condemned, lifeVars>> PROVE TypeOK'
    BY <1>7, HandlerTyped DEF lifeVars
  <1>8. ASSUME NEW q \in Returns, ReturnStep(q), UNCHANGED <<handlerVars, condemned, lifeVars>>
        PROVE  TypeOK'
    <2>1. UNCHANGED workerVars
      BY <1>8 DEF ReturnStep, ReturnCreate, TriggerUpdate, ReturnUpdate, ReturnLabels,
                  ReturnStatus, ProcessPodDelete, LabelPod, DeletePod
    <2> QED
      BY <1>8, <2>1, ReturnTyped DEF lifeVars
  <1>9. ASSUME PreemptionStep, UNCHANGED <<handlerVars, condemned, lifeVars>> PROVE TypeOK'
    <2>1. UNCHANGED workerVars
      BY <1>9 DEF PreemptionStep, PreemptionHandler, PreemptionDone,
                  ProcessPodDelete, LabelPod, DeletePod
    <2> QED
      BY <1>9, <2>1, PreemptionTyped DEF lifeVars
  <1>10. CASE UNCHANGED vars
    BY <1>10 DEF vars, lifeVars
  <1> QED
    BY <1>1, <1>2, <1>3, <1>4, <1>5, <1>6, <1>7, <1>8, <1>9, <1>10 DEF Next, Handlers

\* Every variable keeps its type, through every crash and fault: in particular only
\* resources and returns ever get the cleanup label, and no batch is taken before the
\* last one is dealt with.
THEOREM TypeCorrect == Spec => [](TypeOK /\ BatchKept)
  <1>1. Init => TypeOK /\ BatchKept
    BY InitTyped DEF Init, WorkerInit, BatchKept
  <1> QED
    BY <1>1, StepTyped, BatchKeeps, PTL DEF Spec
=============================================================================
