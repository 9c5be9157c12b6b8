-------------------------- MODULE OperatorLifeProofs --------------------------
(* The operator with its provider implements MachineLife, and entries stay. *)
EXTENDS OperatorProofs

\* A pod is only made for a resource that was asked for.
BornInv == \A p \in Pods : pod[p] # "none" => cr[Owner[p]] # "none"

LEMMA BornKeeps == ASSUME TypeOK, OperatorInv, BornInv, [Next]_vars PROVE BornInv'
  <1> USE ObjectsAssumption DEF TypeOK, ObjectsTypeOK
  <1>1. ASSUME UNCHANGED pod, \A r \in Crs : cr'[r] = "none" => cr[r] = "none" PROVE BornInv'
    BY <1>1 DEF BornInv
  <1>2. ASSUME UNCHANGED <<pod, cr>> PROVE BornInv'
    BY <1>2 DEF BornInv
  <1>3. CASE Cluster
    <2>1. UNCHANGED cr /\ \A p \in Pods : pod'[p] # "none" => pod[p] # "none"
      BY <1>3 DEF Cluster, ClusterStep, PodReady, PodFails, EvictPod, PodGone, CollectGarbage,
                  Active, Listed, Exists, crVars, OperatorInv, PodsInv
    <2> QED
      BY <2>1 DEF BornInv
  <1>4. CASE Provider \/ Cleanup
    <2>1. UNCHANGED pod /\ \A r \in Crs : cr'[r] = "none" => cr[r] = "none"
      BY <1>4 DEF Provider, ProviderStep, RequestMachines, CreateResource,
          RequestReturnMachines, CreateReturn,
                  Cleanup, CleanupStep, CleanupList, CleanupResource, CleanupReturn,
                  objVars, crVars, podVars
    <2> QED
      BY <1>1, <2>1
  <1>5. CASE Worker \/ Node \/ Process
    BY <1>2, <1>5 DEF Worker, WorkerStep, StatusCheck, CollectBatch, ProcessBatch, GetResource,
           ListPods, PatchStatus, PatchCleanupLabel, Node, TaintNode,
           Process, Crash, Stop, StopReturns, Restart, objVars, crVars, podVars
  <1>6. ASSUME NEW r \in Crs, CreateStep(r) PROVE BornInv'
    <2>1. ASSUME NEW p \in Pods, CreatePod(r, p) PROVE BornInv'
      <3>1. UNCHANGED cr /\ cr[r] # "none" /\ Owner[p] = r
        BY <2>1 DEF CreatePod, crVars, HandlerTypeOK, PodsOf, OperatorInv, FinishedInv
      <3>2. \A s \in Pods : s # p => pod'[s] = pod[s]
        BY <2>1 DEF CreatePod
      <3> QED
        BY <3>1, <3>2 DEF BornInv
    <2> QED
      BY <1>2, <1>6, <2>1
      DEF CreateStep, CreateStart, CreateRaises, CreateDone, objVars, crVars, podVars
  <1>7. CASE Handlers
    <2>1. ASSUME NEW r \in Crs, FieldStep(r) PROVE BornInv'
      BY <1>2, <2>1 DEF FieldStep, FieldIgnore, FieldList, FieldPatch, objVars, crVars, podVars
    <2>2. ASSUME NEW p \in Pods, PodStep(p) PROVE BornInv'
      BY <1>2, <2>2 DEF PodStep, ContainerStatusHandler, PodDeleteHandler, crVars
    <2>3. ASSUME NEW d, ProcessPodDelete(d) PROVE BornInv'
      BY <1>2, <2>3 DEF ProcessPodDelete, LabelPod, DeletePod, crVars
    <2>4. ASSUME NEW q \in Returns, ReturnStep(q) PROVE BornInv'
      BY <1>2, <2>3, <2>4 DEF ReturnStep, ReturnCreate, TriggerUpdate, ReturnUpdate,
                              ReturnLabels, ReturnStatus, objVars, crVars, podVars
    <2>5. CASE PreemptionStep
      BY <1>2, <2>3, <2>5 DEF PreemptionStep, PreemptionHandler, PreemptionDone,
                              objVars, crVars, podVars
    <2> QED
      BY <1>6, <1>7, <2>1, <2>2, <2>4, <2>5 DEF Handlers, HandlerStep
  <1>8. CASE UNCHANGED vars
    BY <1>2, <1>8 DEF vars, objVars, crVars, podVars
  <1> QED
    BY <1>3, <1>4, <1>5, <1>7, <1>8 DEF Next

-----------------------------------------------------------------------------
(* The abstract variables. *)

DoneReturns == {q \in Returns : mrr[q] = "live" /\ mrrPhase[q] = "Completed"}

ToldMeaning ==
    Told = {p \in Pods : \/ cr[Owner[p]] = "live" /\ returned[p] # NoId
                         \/ \E q \in DoneReturns : p \in ids[q]}

LEMMA ToldMeans == ASSUME TypeOK PROVE ToldMeaning
  <1>1. \A q \in Returns : RequestStatus(q) = "complete" <=> q \in DoneReturns
    BY ObjectsAssumption DEF RequestStatus, HasResource, HasReturn, ProcessMrr, DoneReturns
  <1>2. \A p : p \in ReturnRequests <=> p \in Pods /\ cr[Owner[p]] = "live" /\ returned[p] # NoId
    BY ObjectsAssumption DEF ReturnRequests, AllResources
  <1>3. \A q \in Returns : ids[q] \subseteq Pods
    BY DEF TypeOK, ObjectsTypeOK
  <1> QED
    BY <1>1, <1>2, <1>3 DEF Told, DoneReturns, ToldMeaning

\* The same of the next state.
LEMMA ToldMeansNext == ASSUME TypeOK' PROVE ToldMeaning'
  <1>1. \A q \in Returns : (RequestStatus(q) = "complete" <=> q \in DoneReturns)'
    BY ObjectsAssumption DEF RequestStatus, HasResource, HasReturn, ProcessMrr, DoneReturns
  <1>2. \A p : (p \in ReturnRequests <=> p \in Pods /\ cr[Owner[p]] = "live" /\ returned[p] # NoId)'
    BY ObjectsAssumption DEF ReturnRequests, AllResources
  <1>3. \A q \in Returns : ids'[q] \subseteq Pods
    BY DEF TypeOK, ObjectsTypeOK
  <1> QED
    BY <1>1, <1>2, <1>3 DEF Told, DoneReturns, ToldMeaning

\* What is told depends on these alone.
LEMMA SameTold ==
    ASSUME TypeOK, TypeOK', UNCHANGED <<cr, returned, ids, mrr, mrrPhase>>
    PROVE  UNCHANGED Told
  BY ToldMeans, ToldMeansNext DEF ToldMeaning, DoneReturns

LEMMA SameKnown == ASSUME UNCHANGED <<cr, pod>> PROVE UNCHANGED <<Shown, KnownPods>>
  BY DEF Shown, KnownPods

LEMMA SameActive == ASSUME UNCHANGED <<pod, deleting>> PROVE UNCHANGED Active
  BY DEF Active, Listed, Exists

LEMMA Mapping ==
    /\ Life!lifeVars = <<Active, left, KnownPods, Told>>
    /\ Life!lifeVars' = <<Active', left', KnownPods', Told'>>
  BY DEF Life!lifeVars

\* Most steps change nothing that the abstract machine sees.
LEMMA Stutters ==
    ASSUME TypeOK, TypeOK',
           UNCHANGED <<cr, returned, ids, mrr, mrrPhase, pod, deleting, left>>
    PROVE  [Life!Next]_(Life!lifeVars)
  BY SameTold, SameKnown, SameActive, Mapping

\* A deletion makes pods leave.
LEMMA LeaveStep ==
    ASSUME TypeOK, TypeOK', PodsInv, NEW S \in SUBSET Listed, StartDeleting(S),
           UNCHANGED <<cr, returned, ids, mrr, mrrPhase, pod>>
    PROVE  [Life!Next]_(Life!lifeVars)
  <1>1. UNCHANGED <<Told, Shown, KnownPods>>
    BY SameTold, SameKnown
  <1>2. Active' = Active \ S /\ left' = left \cup S
    BY DEF StartDeleting, Active, Listed, Exists
  <1> DEFINE T == {p \in S : p \in Active}
  <1>3. T \subseteq Active /\ Active' = Active \ T /\ left' = left \cup T
    BY <1>2 DEF Active, PodsInv
  <1>4. T \in SUBSET Pods
    BY DEF Active, Listed
  <1> HIDE DEF T
  <1>5. Life!Leave(T)
    BY <1>1, <1>3 DEF Life!Leave
  <1> QED
    BY <1>4, <1>5 DEF Life!Next

\* Less may be told at any time.
LEMMA RetractStep ==
    ASSUME TypeOK, TypeOK', UNCHANGED <<Active, left, KnownPods>>, Told' \subseteq Told
    PROVE  [Life!Next]_(Life!lifeVars)
  <1>1. PICK S \in SUBSET Pods : S = Told \ Told'
    BY ToldMeans DEF ToldMeaning
  <1>2. Life!Retract(S)
    BY <1>1 DEF Life!Retract
  <1> QED
    BY <1>2 DEF Life!Next

\* More is told of pods that have left.
LEMMA TellStep ==
    ASSUME TypeOK, TypeOK', UNCHANGED <<Active, left, KnownPods>>,
           Told \subseteq Told', Told' \subseteq Told \cup left
    PROVE  [Life!Next]_(Life!lifeVars)
  <1>1. PICK S \in SUBSET Pods : S = Told' \ Told
    BY ToldMeansNext DEF ToldMeaning
  <1>2. Life!Tell(S)
    BY <1>1 DEF Life!Tell
  <1> QED
    BY <1>2 DEF Life!Next

-----------------------------------------------------------------------------
(* The steps. *)

LEMMA ClusterLife ==
    ASSUME TypeOK, TypeOK', OperatorInv, Cluster
    PROVE  [Life!Next]_(Life!lifeVars)
  <1> USE DEF OperatorInv
  <1>1. UNCHANGED <<cr, returned, ids, mrr, mrrPhase>>
    BY DEF Cluster, ClusterStep, PodReady, PodFails, EvictPod, PodGone, CollectGarbage,
           crVars, mrrVars
  <1>2. ASSUME NEW p \in Pods, PodReady(p) \/ PodFails(p) \/ PodGone(p)
        PROVE  [Life!Next]_(Life!lifeVars)
    <2>1. UNCHANGED <<Active, left>>
      BY <1>2 DEF PodReady, PodFails, PodGone, Active, Listed, Exists, TypeOK, ObjectsTypeOK
    <2>2. \A s \in Pods : pod'[s] # "none" <=> pod[s] # "none"
      BY <1>2 DEF PodReady, PodFails, PodGone, PodsInv, Active, Listed, Exists,
                  TypeOK, ObjectsTypeOK
    <2>3. UNCHANGED KnownPods
      BY <1>1, <2>2 DEF KnownPods, Shown
    <2> QED
      BY <1>1, <2>1, <2>3, SameTold, Mapping
  <1>3. ASSUME NEW p \in Pods, EvictPod(p) PROVE [Life!Next]_(Life!lifeVars)
    BY <1>1, <1>3, LeaveStep DEF EvictPod, Active
  <1>4. ASSUME NEW r \in Crs, CollectGarbage(r) PROVE [Life!Next]_(Life!lifeVars)
    BY <1>1, <1>4, LeaveStep DEF CollectGarbage, ActiveOf, Active
  <1> QED
    BY <1>2, <1>3, <1>4 DEF Cluster, ClusterStep

LEMMA ProviderLife ==
    ASSUME TypeOK, TypeOK', OperatorInv, BornInv, Provider
    PROVE  [Life!Next]_(Life!lifeVars)
  <1> USE DEF OperatorInv
  <1>1. UNCHANGED <<returned, pod, deleting, left, mrrPhase>>
    BY DEF Provider, ProviderStep, RequestMachines, CreateResource,
        RequestReturnMachines, CreateReturn,
           crVars, podVars, mrrVars
  <1>2. UNCHANGED <<Active, Shown>>
    BY <1>1, SameActive DEF Shown
  <1>3. ASSUME NEW r \in Crs, RequestMachines(r) PROVE [Life!Next]_(Life!lifeVars)
    <2>1. UNCHANGED <<ids, mrr>> /\ cr[r] = "none" /\ cr' = [cr EXCEPT ![r] = "live"]
      BY <1>3 DEF RequestMachines, CreateResource, mrrVars
    <2>2. \A p \in Pods : Owner[p] = r => pod[p] = "none" /\ returned[p] = NoId
      BY <2>1 DEF BornInv, ReturnedTrue, PodsInv
    <2>3. \A s \in Crs : s # r => cr'[s] = cr[s]
      BY <2>1
    <2>4. UNCHANGED KnownPods
      BY <1>1, <1>2, <2>2, <2>3, ObjectsAssumption DEF KnownPods, Shown
    <2>5. \A p \in Pods : cr'[Owner[p]] = "live" /\ returned[p] # NoId <=>
                            cr[Owner[p]] = "live" /\ returned[p] # NoId
      BY <2>2, <2>3, ObjectsAssumption
    <2>6. UNCHANGED Told
      BY <1>1, <2>1, <2>5, ToldMeans, ToldMeansNext DEF ToldMeaning, DoneReturns
    <2> QED
      BY <1>1, <1>2, <2>4, <2>6, Mapping
  <1>4. ASSUME NEW q \in Returns, RequestReturnMachines(q) PROVE [Life!Next]_(Life!lifeVars)
    <2>1. /\ UNCHANGED cr /\ mrr[q] = "none"
          /\ \A s \in Returns : s # q => ids'[s] = ids[s] /\ mrr'[s] = mrr[s]
      BY <1>4 DEF RequestReturnMachines, CreateReturn, crVars, TypeOK, ObjectsTypeOK
    <2>2. mrrPhase[q] # "Completed"
      BY <2>1 DEF RunsInv
    <2>3. DoneReturns' = DoneReturns /\ q \notin DoneReturns
      BY <1>1, <2>1, <2>2 DEF DoneReturns
    <2>4. \A s \in DoneReturns : ids'[s] = ids[s]
      BY <2>1, <2>3 DEF DoneReturns
    <2>5. UNCHANGED Told
      BY <1>1, <2>1, <2>3, <2>4, ToldMeans, ToldMeansNext DEF ToldMeaning
    <2> QED
      BY <1>1, <1>2, <2>1, <2>5, SameKnown, Mapping
  <1> QED
    BY <1>3, <1>4 DEF Provider, ProviderStep

\* The worker writes what it has merged: entries stay, and new ones are of pods that
\* have left.
LEMMA PatchWrites ==
    ASSUME TypeOK, OperatorInv, PatchStatus
    PROVE  \A p \in Pods : /\ returned[p] # NoId => returned'[p] = returned[p]
                           /\ returned'[p] # NoId => p \in left
  <1>1. \A p \in Pods : returned'[p] \in {returned[p], job.returned[p]}
    BY DEF PatchStatus, TypeOK, ObjectsTypeOK
  <1> QED
    BY <1>1 DEF PatchStatus, OperatorInv, JobInv, ReturnedTrue

LEMMA WorkerLife ==
    ASSUME TypeOK, TypeOK', OperatorInv, Worker
    PROVE  [Life!Next]_(Life!lifeVars)
  <1>1. UNCHANGED <<cr, ids, mrr, mrrPhase, pod, deleting, left>>
    BY DEF Worker, WorkerStep, StatusCheck, CollectBatch, ProcessBatch, GetResource, ListPods,
           PatchStatus, PatchCleanupLabel, objVars, crVars, podVars, mrrVars
  <1>2. CASE PatchStatus
    <2>1. Told \subseteq Told' /\ Told' \subseteq Told \cup left
      BY <1>1, <1>2, PatchWrites, ToldMeans, ToldMeansNext DEF ToldMeaning, DoneReturns
    <2> QED
      BY <1>1, <2>1, SameActive, SameKnown, TellStep
  <1>3. CASE ~PatchStatus
    <2>1. UNCHANGED returned
      BY <1>3 DEF Worker, WorkerStep, StatusCheck, CollectBatch, ProcessBatch, GetResource,
                  ListPods, PatchCleanupLabel, objVars, crVars
    <2> QED
      BY <1>1, <2>1, Stutters
  <1> QED
    BY <1>2, <1>3

LEMMA HandlerLife ==
    ASSUME TypeOK, TypeOK', OperatorInv, HandlerStep
    PROVE  [Life!Next]_(Life!lifeVars)
  <1> USE DEF OperatorInv
  <1>1. ASSUME NEW r \in Crs, FieldStep(r) PROVE [Life!Next]_(Life!lifeVars)
    BY <1>1, Stutters DEF FieldStep, FieldIgnore, FieldList, FieldPatch,
                          objVars, crVars, podVars, mrrVars
  <1>2. ASSUME NEW p \in Pods, PodStep(p) PROVE [Life!Next]_(Life!lifeVars)
    BY <1>2, Stutters DEF PodStep, ContainerStatusHandler, PodDeleteHandler, crVars, mrrVars
  <1>3. ASSUME NEW r \in Crs, CreateStart(r) \/ CreateRaises(r) \/ CreateDone(r)
        PROVE  [Life!Next]_(Life!lifeVars)
    BY <1>3, Stutters DEF CreateStart, CreateRaises, CreateDone,
                          objVars, crVars, podVars, mrrVars
  <1>4. ASSUME NEW r \in Crs, NEW p \in Pods, CreatePod(r, p) PROVE [Life!Next]_(Life!lifeVars)
    <2>1. UNCHANGED <<cr, returned, ids, mrr, mrrPhase, deleting, left>>
      BY <1>4 DEF CreatePod, crVars, mrrVars
    <2>2. CASE UNCHANGED pod
      BY <2>1, <2>2, Stutters
    <2>3. CASE ~Exists(p) /\ pod' = [pod EXCEPT ![p] = "Pending"]
      <3>1. p \notin deleting
        BY <2>3 DEF PodsInv, Listed
      <3>2. pod'[p] = "Pending" /\ \A s \in Pods : s # p => pod'[s] = pod[s]
        BY <2>3 DEF TypeOK, ObjectsTypeOK
      <3>3. Active' = Active \cup {p}
        BY <2>1, <3>1, <3>2 DEF Active, Listed, Exists
      <3>4. KnownPods' \in {KnownPods, KnownPods \cup {p}}
        BY <2>1, <3>2 DEF KnownPods, Shown
      <3>5. UNCHANGED Told
        BY <2>1, SameTold
      <3>6. Life!Appear({p})
        BY <2>1, <3>3, <3>4, <3>5 DEF Life!Appear
      <3> QED
        BY <3>6 DEF Life!Next
    <2> QED
      BY <1>4, <2>2, <2>3 DEF CreatePod
  <1> QED
    BY <1>1, <1>2, <1>3, <1>4 DEF HandlerStep, CreateStep

LEMMA ProcessPodDeleteLife ==
    ASSUME TypeOK, TypeOK', OperatorInv, NEW d \in Deleters, ProcessPodDelete(d)
    PROVE  [Life!Next]_(Life!lifeVars)
  <1>1. ASSUME NEW p \in Pods, LabelPod(d, p) PROVE [Life!Next]_(Life!lifeVars)
    BY <1>1, Stutters DEF LabelPod, crVars, mrrVars
  <1>2. ASSUME NEW p \in Pods, DeletePod(d, p) PROVE [Life!Next]_(Life!lifeVars)
    <2>1. UNCHANGED <<cr, returned, ids, mrr, mrrPhase, pod>>
      BY <1>2 DEF DeletePod, crVars, mrrVars
    <2>2. CASE UNCHANGED <<deleting, left>>
      BY <2>1, <2>2, Stutters
    <2>3. CASE Exists(p) /\ StartDeleting({p})
      BY <2>1, <2>3, LeaveStep DEF Listed, OperatorInv
    <2> QED
      BY <1>2, <2>2, <2>3 DEF DeletePod
  <1> QED
    BY <1>1, <1>2 DEF ProcessPodDelete

LEMMA ReturnLife ==
    ASSUME TypeOK, TypeOK', OperatorInv, NEW q \in Returns, ReturnStep(q)
    PROVE  [Life!Next]_(Life!lifeVars)
  <1> USE DEF OperatorInv
  <1>1. CASE ProcessPodDelete(q)
    BY <1>1, ProcessPodDeleteLife DEF Deleters
  <1>2. CASE TriggerUpdate(q) \/ ReturnUpdate(q) \/ ReturnLabels(q)
    BY <1>2, Stutters DEF TriggerUpdate, ReturnUpdate, ReturnLabels,
                          objVars, crVars, podVars, mrrVars
  <1>3. CASE ReturnCreate(q) \/ ReturnStatus(q)
    <2>1. /\ UNCHANGED <<cr, returned, ids, mrr, pod, deleting, left>>
          /\ \A s \in Returns : s # q => mrrPhase'[s] = mrrPhase[s]
      BY <1>3 DEF ReturnCreate, ReturnStatus, crVars, podVars, TypeOK, ObjectsTypeOK
    <2>2. UNCHANGED <<Active, KnownPods>>
      BY <2>1, SameActive, SameKnown
    <2>3. CASE ReturnCreate(q)
      <3>1. mrrPhase'[q] # "Completed"
        BY <2>3 DEF ReturnCreate, TypeOK, ObjectsTypeOK
      <3>2. Told' \subseteq Told
        BY <2>1, <3>1, ToldMeans, ToldMeansNext DEF ToldMeaning, DoneReturns
      <3> QED
        BY <2>1, <2>2, <3>2, RetractStep
    <2>4. CASE ReturnStatus(q)
      <3>1. ids[q] \subseteq left
        BY <2>4 DEF ReturnStatus, RunsInv
      <3>2. mrrPhase'[q] \in {mrrPhase[q], "Completed"}
        BY <2>4 DEF ReturnStatus, TypeOK, ObjectsTypeOK
      <3>3. DoneReturns \subseteq DoneReturns' /\ DoneReturns' \subseteq DoneReturns \cup {q}
        BY <2>1, <3>2 DEF DoneReturns
      <3>4. Told \subseteq Told' /\ Told' \subseteq Told \cup left
        BY <2>1, <3>1, <3>3, ToldMeans, ToldMeansNext DEF ToldMeaning
      <3> QED
        BY <2>1, <2>2, <3>4, TellStep
    <2> QED
      BY <1>3, <2>3, <2>4
  <1> QED
    BY <1>1, <1>2, <1>3 DEF ReturnStep

\* What the cleanup forgets is not there any more.
LEMMA CleanupLife ==
    ASSUME TypeOK, TypeOK', OperatorInv, Cleanup
    PROVE  [Life!Next]_(Life!lifeVars)
  <1> USE DEF OperatorInv
  <1>1. CASE CleanupList
    BY <1>1, Stutters DEF CleanupList, objVars, crVars, podVars, mrrVars
  <1>2. ASSUME NEW q \in Returns, CleanupReturn(q) PROVE [Life!Next]_(Life!lifeVars)
    <2>1. /\ UNCHANGED <<cr, returned, ids, mrrPhase, pod, deleting, left>>
          /\ \A s \in Returns : mrr'[s] = "live" => mrr[s] = "live"
      BY <1>2 DEF CleanupReturn, crVars, podVars, TypeOK, ObjectsTypeOK
    <2>2. DoneReturns' \subseteq DoneReturns
      BY <2>1 DEF DoneReturns
    <2>3. Told' \subseteq Told
      BY <2>1, <2>2, ToldMeans, ToldMeansNext DEF ToldMeaning
    <2> QED
      BY <2>1, <2>3, SameActive, SameKnown, RetractStep
  <1>3. ASSUME NEW r \in Crs, CleanupResource(r) PROVE [Life!Next]_(Life!lifeVars)
    <2>1. /\ UNCHANGED <<returned, ids, mrr, mrrPhase, pod, deleting, left>>
          /\ \A s \in Crs : s # r => cr'[s] = cr[s]
      BY <1>3 DEF CleanupResource, podVars, mrrVars, TypeOK, ObjectsTypeOK
    <2>2. CASE UNCHANGED cr
      BY <2>1, <2>2, Stutters
    <2>3. CASE cr' = [cr EXCEPT ![r] = "gone"]
      <3> DEFINE S == {p \in Shown : Owner[p] = r}
      <3>1. Finished(r)
        BY <1>3 DEF CleanupResource, FinishedInv
      <3>2. \A p \in S : p \notin Active /\ p \in left
        BY <3>1 DEF Finished, ActiveOf, PodsOf, PodsInv, Shown, Active, Listed, Exists,
                    TypeOK, ObjectsTypeOK
      <3>3. UNCHANGED <<Active, Shown>>
        BY <2>1, SameActive DEF Shown
      <3>4. cr'[r] = "gone"
        BY <2>3 DEF TypeOK, ObjectsTypeOK
      <3>5. KnownPods' = KnownPods \ S
        BY <2>1, <3>3, <3>4, ObjectsAssumption DEF KnownPods, Shown
      <3>6. DoneReturns' = DoneReturns
        BY <2>1 DEF DoneReturns
      <3>7. Told' \subseteq Told
        BY <2>1, <3>4, <3>6, ToldMeans, ToldMeansNext, ObjectsAssumption DEF ToldMeaning
      <3>8. S \in SUBSET Pods
        BY DEF Shown
      <3> HIDE DEF S
      <3>9. Life!Forget(S)
        BY <2>1, <3>2, <3>3, <3>5, <3>7 DEF Life!Forget
      <3> QED
        BY <3>8, <3>9 DEF Life!Next
    <2> QED
      BY <1>3, <2>2, <2>3 DEF CleanupResource
  <1> QED
    BY <1>1, <1>2, <1>3 DEF Cleanup, CleanupStep

-----------------------------------------------------------------------------
LEMMA StepLife ==
    ASSUME TypeOK, TypeOK', OperatorInv, BornInv, [Next]_vars
    PROVE  [Life!Next]_(Life!lifeVars)
  <1>1. CASE Handlers
    <2>1. CASE PreemptionStep
      <3>1. ASSUME PreemptionHandler \/ PreemptionDone PROVE [Life!Next]_(Life!lifeVars)
        BY <3>1, Stutters DEF PreemptionHandler, PreemptionDone,
                              objVars, crVars, podVars, mrrVars
      <3> QED
        BY <2>1, <3>1, ProcessPodDeleteLife DEF PreemptionStep, Deleters
    <2> QED
      BY <1>1, <2>1, HandlerLife, ReturnLife DEF Handlers
  <1>2. CASE Node \/ Process \/ UNCHANGED vars
    BY <1>2, Stutters DEF Node, TaintNode, Process, Crash, Stop, StopReturns, Restart,
                          vars, objVars, crVars, podVars, mrrVars
  <1> QED
    BY <1>1, <1>2, ClusterLife, ProviderLife, WorkerLife, CleanupLife DEF Next

\* The operator with its provider is a host provider.
THEOREM ImplementsMachineLife == Spec => LifeSpec
  <1>1. Init => Life!Init
    <2> SUFFICES ASSUME Init PROVE Life!Init
      OBVIOUS
    <2>1. left = {} /\ Active = {} /\ Shown = {}
      BY DEF Init, ObjectsInit, Active, Listed, Exists, Shown
    <2>2. KnownPods = {}
      BY <2>1 DEF KnownPods
    <2>3. Told = {}
      BY InitTyped, ToldMeans DEF Init, ObjectsInit, ToldMeaning, DoneReturns
    <2> QED
      BY <2>1, <2>2, <2>3 DEF Life!Init
  <1>2. Init => BornInv
    BY DEF Init, ObjectsInit, BornInv
  <1>3. TypeOK /\ OperatorInv /\ BornInv /\ [Next]_vars => BornInv'
    BY BornKeeps
  <1>4. TypeOK /\ TypeOK' /\ OperatorInv /\ BornInv /\ [Next]_vars => [Life!Next]_(Life!lifeVars)
    BY StepLife
  <1> QED
    BY <1>1, <1>2, <1>3, <1>4, TypeCorrect, OperatorInvariant, PTL DEF Spec, LifeSpec, Life!Spec

\* So what holds of every host provider holds of this one: what it reports as returned
\* has left, and what it has a record of was there.
THEOREM ToldTruthfully == Spec => []Life!Truthful
  <1>1. Life!Init => Life!Truthful
    BY DEF Life!Init, Life!Truthful
  <1>2. Life!Truthful /\ [Life!Next]_(Life!lifeVars) => Life!Truthful'
    <2> SUFFICES ASSUME Life!Truthful, [Life!Next]_(Life!lifeVars) PROVE Life!Truthful'
      OBVIOUS
    <2>1. CASE UNCHANGED Life!lifeVars
      BY <2>1 DEF Life!lifeVars, Life!Truthful
    <2>2. CASE Life!Next
      BY <2>2 DEF Life!Next, Life!Truthful, Life!Appear, Life!Leave, Life!Record,
                  Life!Tell, Life!Retract, Life!Forget
    <2> QED
      BY <2>1, <2>2
  <1> QED
    BY ImplementsMachineLife, <1>1, <1>2, PTL DEF LifeSpec, Life!Spec

\* An entry of returnedMachines is never lost or changed, although the whole list is
\* written from a copy that may be old.
THEOREM EntriesAreKept == Spec => EntriesStay
  <1>1. ASSUME TypeOK, OperatorInv, [Next]_vars, NEW p \in Pods, returned[p] # NoId
        PROVE  returned'[p] = returned[p]
    <2>1. CASE PatchStatus
      BY <1>1, <2>1, PatchWrites
    <2>2. CASE UNCHANGED returned
      BY <2>2
    <2>3. PatchStatus \/ UNCHANGED returned
      <3>1. CASE Cluster \/ Provider \/ Node \/ Cleanup \/ Process \/ UNCHANGED vars
        BY <3>1 DEF Cluster, ClusterStep, PodReady, PodFails, EvictPod, PodGone, CollectGarbage,
             Provider, ProviderStep, RequestMachines, CreateResource,
                 RequestReturnMachines, CreateReturn, Node, TaintNode,
             Cleanup, CleanupStep, CleanupList, CleanupResource, CleanupReturn,
             Process, Crash, Stop, StopReturns, Restart, vars, objVars, crVars
      <3>2. CASE Worker
        BY <3>2 DEF Worker, WorkerStep, StatusCheck, CollectBatch, ProcessBatch, GetResource,
                    ListPods, PatchCleanupLabel, objVars, crVars
      <3>3. CASE Handlers
        <4>1. ASSUME HandlerStep PROVE UNCHANGED returned
          BY <4>1 DEF HandlerStep, CreateStep, CreateStart, CreatePod, CreateRaises, CreateDone,
               FieldStep, FieldIgnore, FieldList, FieldPatch, PodStep, ContainerStatusHandler,
               PodDeleteHandler, objVars, crVars
        <4>2. ASSUME (\E q \in Returns : ReturnStep(q)) \/ PreemptionStep
              PROVE  UNCHANGED returned
          BY <4>2 DEF ReturnStep, ReturnCreate, TriggerUpdate, ReturnUpdate, ProcessPodDelete,
               LabelPod, DeletePod, ReturnLabels, ReturnStatus, PreemptionStep,
               PreemptionHandler, PreemptionDone, objVars, crVars
        <4> QED
          BY <3>3, <4>1, <4>2 DEF Handlers
      <3> QED
        BY <1>1, <3>1, <3>2, <3>3 DEF Next
    <2> QED
      BY <2>1, <2>2, <2>3
  <1>2. TypeOK /\ OperatorInv /\ [Next]_vars =>
            [\A p \in Pods : returned[p] # NoId /\ cr[Owner[p]] = "live"
                                => returned'[p] = returned[p]]_vars
    BY <1>1
  <1> QED
    BY <1>2, TypeCorrect, OperatorInvariant, PTL DEF Spec, EntriesStay
=============================================================================
