------------------------ MODULE OperatorFailureProofs ------------------------
(* What failed calls, and none, leave of a request and of its records. *)
EXTENDS OperatorProofs

-----------------------------------------------------------------------------
(* Who makes pods. *)

\* A step that deals with no pod of a create handler.
DoesNotMake == UNCHANGED <<createPc, toMake>> /\ faults' \in {faults, faults + 1}

LEMMA OthersDoNotMake ==
    ASSUME Cluster \/ Node \/ Worker \/ Cleanup
    PROVE  DoesNotMake
  <1>1. CASE Cluster
    BY <1>1 DEF DoesNotMake, Cluster, ClusterStep, PodReady, PodFails, EvictPod, PodGone,
                CollectGarbage, handlerVars
  <1>2. CASE Node
    BY <1>2 DEF DoesNotMake, Node, TaintNode, objVars, handlerVars
  <1>3. CASE Worker
    BY <1>3 DEF DoesNotMake, Worker, WorkerStep, StatusCheck, CollectBatch, ProcessBatch,
                GetResource, ListPods, PatchStatus, PatchCleanupLabel, Ok, Fault,
                objVars, handlerVars
  <1>4. CASE Cleanup
    BY <1>4 DEF DoesNotMake, Cleanup, CleanupStep, CleanupList, CleanupResource, CleanupReturn,
                Ok, Fault, objVars, handlerVars
  <1> QED
    BY <1>1, <1>2, <1>3, <1>4

LEMMA HandlersDoNotMake ==
    ASSUME Handlers, ~\E r \in Crs : CreateStep(r)
    PROVE  DoesNotMake
  <1>1. ASSUME NEW r \in Crs, FieldStep(r) PROVE DoesNotMake
    BY <1>1 DEF DoesNotMake, FieldStep, FieldIgnore, FieldList, FieldPatch, Ok, Fault, objVars
  <1>2. ASSUME NEW p \in Pods, PodStep(p) PROVE DoesNotMake
    BY <1>2 DEF DoesNotMake, PodStep, ContainerStatusHandler, PodDeleteHandler, Ok, Fault,
                handlerVars
  <1>3. ASSUME NEW d, ProcessPodDelete(d), UNCHANGED handlerVars PROVE DoesNotMake
    BY <1>3 DEF DoesNotMake, ProcessPodDelete, LabelPod, DeletePod, Ok, Fault, handlerVars
  <1>4. ASSUME NEW q \in Returns, ReturnStep(q), UNCHANGED handlerVars PROVE DoesNotMake
    BY <1>3, <1>4 DEF DoesNotMake, ReturnStep, ReturnCreate, TriggerUpdate, ReturnUpdate,
                      ReturnLabels, ReturnStatus, Ok, Fault, objVars, handlerVars
  <1>5. ASSUME PreemptionStep, UNCHANGED handlerVars PROVE DoesNotMake
    BY <1>3, <1>5 DEF DoesNotMake, PreemptionStep, PreemptionHandler, PreemptionDone,
                      objVars, handlerVars
  <1> QED
    BY <1>1, <1>2, <1>4, <1>5 DEF Handlers, HandlerStep

-----------------------------------------------------------------------------
(* A resource that is gone has no pods, and gets none. *)

\* Only HostFactory makes resources and only the cleanup deletes them.
LEMMA ResourcesStay == ASSUME [Next]_vars, ~Provider, ~Cleanup PROVE UNCHANGED cr
  <1>1. CASE Cluster \/ Node \/ Worker \/ Process \/ UNCHANGED vars
    BY <1>1 DEF Cluster, ClusterStep, PodReady, PodFails, EvictPod, PodGone,
         CollectGarbage, Node, TaintNode, Worker, WorkerStep, StatusCheck, CollectBatch,
         ProcessBatch, GetResource, ListPods, PatchStatus, PatchCleanupLabel,
         Process, Crash, Stop, StopReturns, Restart, vars, objVars, crVars
  <1>2. CASE Handlers
    <2>1. ASSUME HandlerStep PROVE UNCHANGED cr
      BY <2>1 DEF HandlerStep, CreateStep, CreateStart, CreatePod, CreateRaises, CreateDone,
           FieldStep, FieldIgnore, FieldList, FieldPatch, PodStep, ContainerStatusHandler,
           PodDeleteHandler, objVars, crVars
    <2>2. ASSUME (\E q \in Returns : ReturnStep(q)) \/ PreemptionStep PROVE UNCHANGED cr
      BY <2>2 DEF ReturnStep, ReturnCreate, TriggerUpdate, ReturnUpdate, ProcessPodDelete,
           LabelPod, DeletePod, ReturnLabels, ReturnStatus, PreemptionStep,
           PreemptionHandler, PreemptionDone, objVars, crVars
    <2> QED
      BY <1>2, <2>1, <2>2 DEF Handlers
  <1> QED
    BY <1>1, <1>2 DEF Next

LEMMA GoneWereFinished ==
    ASSUME KeptStep, NEW r \in Crs, cr'[r] = "gone"
    PROVE  cr[r] = "gone" \/ Finished(r)
  <1> USE DEF KeptStep, Kept
  <1>1. CASE Cleanup
    BY <1>1 DEF Cleanup, CleanupStep, CleanupList, CleanupResource, CleanupReturn,
                OperatorInv, FinishedInv, TypeOK, ObjectsTypeOK, objVars, crVars
  <1>2. CASE Provider
    BY <1>2 DEF Provider, ProviderStep, RequestMachines, CreateResource,
                RequestReturnMachines, TypeOK, ObjectsTypeOK, crVars
  <1> QED
    BY <1>1, <1>2, ResourcesStay

\* The garbage collector never has anything to do.
THEOREM NothingIsCollected == Spec => []NothingToCollect
  <1>1. Init => NothingToCollect
    BY DEF Init, ObjectsInit, NothingToCollect
  <1>2. KeptStep /\ NothingToCollect => NothingToCollect'
    <2> SUFFICES ASSUME KeptStep, NothingToCollect PROVE NothingToCollect'
      OBVIOUS
    <2>1. \A r \in Crs : cr[r] = "gone" => Finished(r)
      BY DEF KeptStep, Kept, OperatorInv, FinishedInv, NothingToCollect, Finished
    <2>2. \A r \in Crs : cr'[r] = "gone" => Finished(r)
      BY <2>1, GoneWereFinished
    <2> QED
      BY <2>2 DEF KeptStep, NothingToCollect, Grows, Finished
  <1> QED
    BY <1>1, <1>2, StateIsKept, StepIsKept, PTL DEF Spec

-----------------------------------------------------------------------------
(* A request that is complete has all its machines but for failed calls. *)

LEMMA OneMore ==
    ASSUME NEW S, IsFiniteSet(S), NEW x
    PROVE  IsFiniteSet(S \cup {x}) /\ Cardinality(S \cup {x}) <= Cardinality(S) + 1
  <1>1. Cardinality(S) \in Nat
    BY FS_CardinalityType
  <1>2. /\ IsFiniteSet(S \cup {x})
        /\ Cardinality(S \cup {x}) = IF x \in S THEN Cardinality(S) ELSE Cardinality(S) + 1
    BY FS_AddElement
  <1> QED
    BY <1>1, <1>2

\* What is left unmade is no more when it is a part of what was.
LEMMA NoMoreUnmade ==
    ASSUME NEW r \in Crs, Unmade(r)' \subseteq Unmade(r)
    PROVE  /\ Cardinality(Unmade(r)') <= Cardinality(Unmade(r))
           /\ Cardinality(Unmade(r)) \in Nat /\ Cardinality(Unmade(r)') \in Nat
  <1>1. Unmade(r) \subseteq Pods
    BY DEF Unmade, PodsOf
  <1>2. IsFiniteSet(Unmade(r))
    BY <1>1, FS_Subset, ObjectsAssumption
  <1> QED
    BY <1>2, FS_Subset, FS_CardinalityType

LEMMA StillUnmade ==
    ASSUME KeptStep, UnmadeInv, UNCHANGED <<createPc, toMake>>,
           faults' \in {faults, faults + 1}
    PROVE  UnmadeInv'
  <1>1. faults \in Nat /\ faults <= faults'
    BY DEF KeptStep, Kept, TypeOK, ObjectsTypeOK
  <1>2. \A r \in Crs : Unmade(r)' \subseteq Unmade(r)
    BY DEF KeptStep, Grows, Unmade, PodsOf
  <1>3. faults' \in Nat
    BY <1>1
  <1>4. ASSUME NEW r \in Crs, createPc'[r] \in {"running", "done"}
        PROVE  Cardinality(Unmade(r)') <= faults'
    <2>1. Cardinality(Unmade(r)) <= faults
      BY <1>4 DEF UnmadeInv
    <2>2. /\ Cardinality(Unmade(r)') <= Cardinality(Unmade(r))
          /\ Cardinality(Unmade(r)) \in Nat /\ Cardinality(Unmade(r)') \in Nat
      BY <1>2, NoMoreUnmade
    <2> QED
      BY <1>1, <1>3, <2>1, <2>2
  <1> QED
    BY <1>4 DEF UnmadeInv

\* A create handler that goes from one stage to another at r alone.
LEMMA CreateUnmade ==
    ASSUME KeptStep, UnmadeInv, NEW r \in Crs, CreateStep(r)
    PROVE  UnmadeInv'
  <1> USE DEF KeptStep, Kept, TypeOK, ObjectsTypeOK, HandlerTypeOK
  <1>1. /\ \A s \in Crs : s # r => createPc'[s] = createPc[s] /\ toMake'[s] = toMake[s]
        /\ faults' \in {faults, faults + 1}
    BY DEF CreateStep, CreateStart, CreatePod, CreateRaises, CreateDone, Ok, Fault, objVars
  <1>2. faults \in Nat /\ faults' \in Nat /\ faults <= faults'
    BY <1>1
  <1>3. \A s \in Crs : s # r => Unmade(s)' \subseteq Unmade(s)
    BY <1>1 DEF Grows, Unmade, PodsOf
  <1>4. ASSUME NEW s \in Crs, s # r, createPc'[s] \in {"running", "done"}
        PROVE  Cardinality(Unmade(s)') <= faults'
    <2>1. Cardinality(Unmade(s)) <= faults
      BY <1>1, <1>4 DEF UnmadeInv
    <2>2. /\ Cardinality(Unmade(s)') <= Cardinality(Unmade(s))
          /\ Cardinality(Unmade(s)) \in Nat /\ Cardinality(Unmade(s)') \in Nat
      BY <1>3, <1>4, NoMoreUnmade
    <2> QED
      BY <1>2, <2>1, <2>2
  <1>5. /\ createPc'[r] # "running" => toMake'[r] = {}
        /\ createPc'[r] \in {"running", "done"} => Cardinality(Unmade(r)') <= faults'
    <2>1. CASE CreateStart(r)
      <3>1. createPc'[r] = "running" /\ toMake'[r] = PodsOf(r)
        BY <2>1 DEF CreateStart
      <3>2. Unmade(r)' = {}
        BY <3>1 DEF Unmade, PodsOf
      <3> QED
        BY <1>2, <3>1, <3>2, FS_EmptySet
    <2>2. CASE CreateRaises(r)
      BY <2>2 DEF CreateRaises
    <2>3. CASE CreateDone(r)
      <3>1. /\ createPc[r] = "running" /\ toMake[r] = {} /\ createPc'[r] = "done"
            /\ UNCHANGED toMake
        BY <2>3 DEF CreateDone
      <3>2. Unmade(r)' \subseteq Unmade(r)
        BY <3>1 DEF Grows, Unmade, PodsOf
      <3> QED
        BY <1>2, <3>1, <3>2, NoMoreUnmade DEF UnmadeInv
    <2>4. ASSUME NEW p \in Pods, CreatePod(r, p)
          PROVE  /\ createPc'[r] = "running"
                 /\ Cardinality(Unmade(r)') <= faults'
      <3>1. /\ createPc[r] = "running" /\ createPc'[r] = "running"
            /\ toMake'[r] = toMake[r] \ {p}
        BY <2>4 DEF CreatePod
      <3>2. Cardinality(Unmade(r)) <= faults
        BY <3>1 DEF UnmadeInv
      <3>3. CASE pod'[p] # "none"
        <4>1. Unmade(r)' \subseteq Unmade(r)
          BY <3>1, <3>3 DEF Grows, Unmade, PodsOf
        <4> QED
          BY <1>2, <3>1, <3>2, <4>1, NoMoreUnmade
      <3>4. CASE pod'[p] = "none"
        <4>1. faults' = faults + 1
          BY <2>4, <3>4 DEF CreatePod, Exists, Fault
        <4>2. Unmade(r)' \subseteq Unmade(r) \cup {p}
          BY <3>1 DEF Grows, Unmade, PodsOf
        <4>3. Unmade(r) \in SUBSET Pods
          BY DEF Unmade, PodsOf
        <4>4. IsFiniteSet(Unmade(r))
          BY <4>3, FS_Subset, ObjectsAssumption
        <4>5. /\ IsFiniteSet(Unmade(r) \cup {p})
              /\ Cardinality(Unmade(r) \cup {p}) <= Cardinality(Unmade(r)) + 1
          BY <4>4, OneMore
        <4>6. Cardinality(Unmade(r)') <= Cardinality(Unmade(r) \cup {p})
          BY <4>2, <4>5, FS_Subset
        <4>7. /\ Cardinality(Unmade(r)) \in Nat /\ Cardinality(Unmade(r)') \in Nat
              /\ Cardinality(Unmade(r) \cup {p}) \in Nat
          BY <4>2, <4>4, <4>5, FS_Subset, FS_CardinalityType
        <4> QED
          BY <1>2, <3>1, <3>2, <4>1, <4>5, <4>6, <4>7
      <3> QED
        BY <3>1, <3>3, <3>4
    <2> QED
      BY <2>1, <2>2, <2>3, <2>4 DEF CreateStep
  <1>6. \A s \in Crs : s # r /\ createPc'[s] # "running" => toMake'[s] = {}
    BY <1>1 DEF UnmadeInv
  <1> QED
    BY <1>4, <1>5, <1>6 DEF UnmadeInv

\* A new request has nothing made, and a new process starts every create handler over
\* that had not come to its end.
LEMMA RestartUnmade ==
    ASSUME KeptStep, UnmadeInv, Restart
    PROVE  UnmadeInv'
  <1>1. /\ \A r \in Crs : toMake'[r] = {} /\ createPc'[r] # "running"
        /\ \A r \in Crs : createPc'[r] = "done" => createPc[r] = "done"
        /\ UNCHANGED faults
    BY DEF Restart, HandlerRestart
  <1>2. ASSUME NEW r \in Crs, createPc'[r] = "done" PROVE Cardinality(Unmade(r)') <= faults'
    <2>1. toMake[r] = {} /\ Cardinality(Unmade(r)) <= faults
      BY <1>1, <1>2 DEF UnmadeInv
    <2>2. Unmade(r)' \subseteq Unmade(r)
      BY <1>1, <2>1 DEF KeptStep, Grows, Unmade, PodsOf
    <2> QED
      BY <1>1, <2>1, <2>2, NoMoreUnmade DEF KeptStep, Kept, TypeOK, ObjectsTypeOK
  <1> QED
    BY <1>1, <1>2 DEF UnmadeInv

LEMMA ProviderUnmade ==
    ASSUME KeptStep, UnmadeInv, Provider
    PROVE  UnmadeInv'
  <1>1. UNCHANGED <<toMake, faults, pod>>
    BY DEF Provider, ProviderStep, RequestMachines, RequestReturnMachines, CreateResource,
           podVars, handlerVars
  <1>2. \A r \in Crs : createPc'[r] \in {createPc[r], "due"}
    BY DEF Provider, ProviderStep, RequestMachines, RequestReturnMachines, CreateResource,
           handlerVars, KeptStep, Kept, TypeOK, HandlerTypeOK
  <1>3. \A r \in Crs : createPc'[r] # createPc[r] => createPc[r] = "none"
    BY DEF Provider, ProviderStep, RequestMachines, RequestReturnMachines, CreateResource,
           handlerVars, KeptStep, Kept, TypeOK, HandlerTypeOK, OperatorInv, FinishedInv
  <1>4. \A r \in Crs : Unmade(r)' = Unmade(r)
    BY <1>1 DEF Unmade, PodsOf
  <1> QED
    BY <1>1, <1>2, <1>3, <1>4 DEF UnmadeInv

LEMMA UnmadeKeeps == KeptStep /\ UnmadeInv => UnmadeInv'
  <1> SUFFICES ASSUME KeptStep, UnmadeInv PROVE UnmadeInv'
    OBVIOUS
  <1>1. ASSUME DoesNotMake PROVE UnmadeInv'
    BY <1>1, StillUnmade DEF DoesNotMake
  <1>2. CASE UNCHANGED vars
    BY <1>1, <1>2 DEF DoesNotMake, vars, objVars, handlerVars
  <1>3. CASE Handlers
    BY <1>1, <1>3, HandlersDoNotMake, CreateUnmade
  <1>4. CASE Process
    BY <1>1, <1>4, RestartUnmade DEF Process, Crash, Stop, StopReturns, DoesNotMake,
                                     objVars, handlerVars
  <1> QED
    BY <1>1, <1>2, <1>3, <1>4, OthersDoNotMake, ProviderUnmade DEF KeptStep, Next

\* What a complete request lacks was never made.
LEMMA MissingUnmade ==
    ASSUME Kept, UnmadeInv, NEW r \in Crs,
           createPc[r] = "done", RequestStatus(r) = "complete"
    PROVE  Missing(r) \subseteq Unmade(r)
  <1> SUFFICES ASSUME NEW p \in Pods, Owner[p] = r, pod[p] # "Running", p \notin left
               PROVE  pod[p] = "none"
    BY DEF Missing, Unmade, UnmadeInv, PodsOf
  <1>1. HasResource(r)
    BY ObjectsAssumption DEF RequestStatus, HasReturn
  <1>2. ProcessGcpsr(PodList(r)) = "complete"
    BY <1>1 DEF RequestStatus
  <1>3. \A s \in PodList(r) : PodResult(s) \notin {"executing", "fail"}
    BY <1>2 DEF ProcessGcpsr
  <1>4. p \notin PodList(r)
    BY <1>3 DEF PodList, Listed, Exists, PodResult
  <1> QED
    BY <1>4 DEF PodList, Listed, Exists, PodsOf, Kept, TypeOK, ObjectsTypeOK, OperatorInv, PodsInv

\* A request that is complete has every machine it asked for but those that were deleted
\* since and at most as many as calls have failed.
THEOREM CompleteIsAll == Spec => []CompleteMeansAll
  <1>1. Init => UnmadeInv
    BY DEF Init, HandlerInit, UnmadeInv
  <1>2. Kept /\ UnmadeInv => CompleteMeansAll
    <2> SUFFICES ASSUME Kept, UnmadeInv, NEW r \in Crs,
                        createPc[r] = "done", RequestStatus(r) = "complete"
                 PROVE  Cardinality(Missing(r)) <= faults
      BY DEF CompleteMeansAll
    <2>1. Missing(r) \in SUBSET Unmade(r) /\ Unmade(r) \in SUBSET Pods
      BY MissingUnmade DEF Unmade, PodsOf
    <2>2. IsFiniteSet(Unmade(r)) /\ IsFiniteSet(Missing(r))
      BY <2>1, FS_Subset, ObjectsAssumption
    <2>3. Cardinality(Missing(r)) <= Cardinality(Unmade(r))
      BY <2>1, <2>2, FS_Subset
    <2>4. Cardinality(Unmade(r)) <= faults /\ faults \in Nat
      BY DEF UnmadeInv, Kept, TypeOK, ObjectsTypeOK
    <2> QED
      BY <2>2, <2>3, <2>4, FS_CardinalityType
  <1> QED
    BY <1>1, <1>2, UnmadeKeeps, StateIsKept, StepIsKept, PTL DEF Spec

-----------------------------------------------------------------------------
(* Without failures every pod has its label before it is deleted. *)

FirstInv == life = "up" /\ MadeOnce /\ LabelledFirst /\ NamedInv
QuietStep == KeptStep /\ NothingToCollect /\ Quiet /\ Quiet' /\ FirstInv

LEMMA NoFault == ASSUME QuietStep PROVE ~Fault
  BY DEF QuietStep, Quiet, Fault

\* A step that leaves the variables of a conjunct alone keeps it.
LEMMA StillMade ==
    ASSUME MadeOnce, UNCHANGED <<createPc, toMake, todo, cur>>,
           \A p : p \in Pods => (pod'[p] = "none" <=> pod[p] = "none"), TypeOK
    PROVE  MadeOnce'
  <1>1. /\ \A r \in Crs : toMake[r] \subseteq Pods
        /\ \A d \in Deleters : todo[d] \subseteq Pods /\ cur[d] \subseteq Pods
    BY DEF TypeOK, HandlerTypeOK, ReturnTypeOK
  <1> QED
    BY <1>1 DEF MadeOnce, PodsOf

LEMMA StillLabelled ==
    ASSUME LabelledFirst, UNCHANGED <<cur, rid>>, deleting' \ Evictable \subseteq deleting
    PROVE  LabelledFirst'
  BY DEF LabelledFirst

LEMMA StillNamed ==
    ASSUME NamedInv, UNCHANGED <<queue, batch, wPc, job, returned>>
    PROVE  NamedInv'
  BY DEF NamedInv

LEMMA StillFirst ==
    ASSUME QuietStep,
           UNCHANGED <<createPc, toMake, pod, todo, cur, rid, deleting,
                       queue, batch, wPc, job, returned, life>>
    PROVE  FirstInv'
  BY StillMade, StillLabelled, StillNamed DEF QuietStep, KeptStep, Kept, FirstInv

\* Only a pod that others may delete is deleted by the cluster.
LEMMA ClusterFirst == ASSUME QuietStep, Cluster PROVE FirstInv'
  <1> USE DEF QuietStep, KeptStep, Kept
  <1>1. UNCHANGED <<createPc, toMake, todo, cur, rid, queue, batch, wPc, job, returned, life>>
    BY DEF Cluster, ClusterStep, PodReady, PodFails, EvictPod, PodGone, CollectGarbage,
           crVars, workerVars, handlerVars, returnVars, lifeVars
  <1>2. ASSUME NEW p \in Pods, PodReady(p) \/ PodFails(p) \/ PodGone(p)
        PROVE  /\ \A s \in Pods : pod'[s] = "none" <=> pod[s] = "none"
               /\ deleting' \ Evictable \subseteq deleting
    BY <1>2 DEF PodReady, PodFails, PodGone, Active, Listed, Exists, OperatorInv, PodsInv,
                TypeOK, ObjectsTypeOK
  <1>3. ASSUME NEW p \in Pods, EvictPod(p)
        PROVE  UNCHANGED pod /\ deleting' \ Evictable \subseteq deleting
    BY <1>3 DEF EvictPod, StartDeleting
  <1>4. \A r \in Crs : ~CollectGarbage(r)
    BY DEF CollectGarbage, NothingToCollect
  <1>5. /\ \A s \in Pods : pod'[s] = "none" <=> pod[s] = "none"
        /\ deleting' \ Evictable \subseteq deleting
    BY <1>2, <1>3, <1>4 DEF Cluster, ClusterStep
  <1> QED
    BY <1>1, <1>5, StillMade, StillLabelled, StillNamed DEF FirstInv

LEMMA ProviderFirst == ASSUME QuietStep, Provider PROVE FirstInv'
  <1> USE DEF QuietStep, KeptStep, Kept
  <1>1. UNCHANGED <<toMake, todo, cur, pod, rid, deleting, queue, batch, wPc, job, returned, life>>
    BY DEF Provider, ProviderStep, RequestMachines, CreateResource, RequestReturnMachines,
           CreateReturn, crVars, podVars, workerVars, handlerVars, returnVars, lifeVars
  <1>2. \A r \in Crs : createPc'[r] \in {"none", "due"} => createPc[r] \in {"none", "due"}
    BY DEF Provider, ProviderStep, RequestMachines, CreateResource, RequestReturnMachines,
           CreateReturn, handlerVars, OperatorInv, FinishedInv, TypeOK, HandlerTypeOK
  <1>3. MadeOnce'
    BY <1>1, <1>2 DEF FirstInv, MadeOnce, PodsOf
  <1> QED
    BY <1>1, <1>3, StillLabelled, StillNamed DEF FirstInv

\* What the worker merges into its copy is what is in its batch.
LEMMA WorkerFirst == ASSUME QuietStep, Worker PROVE FirstInv'
  <1> USE DEF QuietStep, KeptStep, Kept
  <1>1. UNCHANGED <<createPc, toMake, todo, cur, pod, rid, deleting, life>>
    BY DEF Worker, WorkerStep, StatusCheck, CollectBatch, ProcessBatch, GetResource, ListPods,
           PatchStatus, PatchCleanupLabel, objVars, podVars, handlerVars, returnVars, FirstInv
  <1>2. NamedInv
    BY DEF FirstInv
  <1>3. ASSUME NextGroup, UNCHANGED queue,
               \A p \in Pods : returned'[p] = returned[p] \/ Named(p, returned'[p])
        PROVE  NamedInv'
    BY <1>2, <1>3 DEF NextGroup, NamedInv
  <1>4. ASSUME StatusCheck PROVE NamedInv'
    <2>1. \A i \in DOMAIN queue' : queue'[i] \in NamedUpdates
      BY <1>2, <1>4, StatusCheckAdds DEF NamedInv, NamedUpdates
    <2> QED
      BY <1>2, <1>4, <2>1 DEF StatusCheck, NamedInv, crVars
  <1>5. ASSUME CollectBatch PROVE NamedInv'
    <2>1. /\ \A i \in DOMAIN queue' : queue'[i] \in NamedUpdates
          /\ \A i \in DOMAIN batch' : batch'[i] \in NamedUpdates
      BY <1>2, <1>5, CollectBatchTakes DEF NamedInv
    <2> QED
      BY <1>2, <1>5, <2>1 DEF CollectBatch, NamedInv, objVars, crVars
  <1>6. ASSUME GetResource PROVE NamedInv'
    <2>1. UNCHANGED <<queue, returned>>
      BY <1>6 DEF GetResource, crVars
    <2>2. CASE NextGroup
      BY <1>3, <2>1, <2>2
    <2>3. CASE /\ job' = [NoJob EXCEPT !.returned = ApplyMachineUpdates,
                                       !.completed = Group \in completed]
               /\ UNCHANGED batch
      <3>1. job'.returned = ApplyMachineUpdates
        BY <2>3 DEF NoJob
      <3>2. \A p \in Pods : Named(p, ApplyMachineUpdates[p])
        <4> TAKE p \in Pods
        <4>1. CASE ApplyMachineUpdates[p] = returned[p]
          BY <1>2, <4>1 DEF NamedInv
        <4>2. CASE ApplyMachineUpdates[p] # returned[p]
          <5>1. /\ Positions(p) # {} /\ KeptUpdate(p).type = "PodReturned"
                /\ ApplyMachineUpdates[p] = KeptUpdate(p).id
            BY <4>2 DEF ApplyMachineUpdates
          <5>2. KeptUpdate(p) \in NamedUpdates /\ KeptUpdate(p).pod = p
            BY <1>2, <5>1, KeptUpdateOf DEF NamedInv, KeptUpdate, TypeOK
          <5> QED
            BY <5>1, <5>2 DEF NamedUpdates
        <4> QED
          BY <4>1, <4>2
      <3> QED
        BY <1>2, <2>1, <2>3, <3>1, <3>2 DEF NamedInv
    <2> QED
      BY <1>6, <2>2, <2>3, NoFault DEF GetResource
  <1>7. ASSUME ListPods PROVE NamedInv'
    <2>1. job'.returned = job.returned /\ wPc = "list" /\ UNCHANGED <<queue, batch, returned>>
      BY <1>7 DEF ListPods, TypeOK, WorkerTypeOK, Job, crVars
    <2> QED
      BY <1>2, <2>1 DEF NamedInv
  <1>8. ASSUME PatchStatus PROVE NamedInv'
    <2>1. /\ \A p \in Pods : returned'[p] = returned[p] \/ Named(p, returned'[p])
          /\ UNCHANGED queue
      BY <1>2, <1>8 DEF PatchStatus, NamedInv
    <2>2. CASE NextGroup
      BY <1>3, <2>1, <2>2
    <2>3. CASE wPc' = "label" /\ UNCHANGED <<batch, job>>
      BY <1>2, <2>1, <2>3 DEF NamedInv
    <2> QED
      BY <1>8, <2>2, <2>3 DEF PatchStatus
  <1>9. ASSUME PatchCleanupLabel PROVE NamedInv'
    BY <1>3, <1>9, NoFault DEF PatchCleanupLabel, crVars
  <1>10. NamedInv'
    BY <1>4, <1>5, <1>6, <1>7, <1>8, <1>9 DEF Worker, WorkerStep, ProcessBatch
  <1> QED
    BY <1>1, <1>10, StillMade, StillLabelled DEF FirstInv

\* A pod is made while nobody has asked for its deletion, and then without a label.
LEMMA CreateFirst ==
    ASSUME QuietStep, NEW r \in Crs, CreateStep(r), UNCHANGED <<returnVars, life>>
    PROVE  FirstInv'
  <1> USE DEF QuietStep, KeptStep, Kept
  <1>1. UNCHANGED <<todo, cur, deleting, queue, batch, wPc, job, returned>>
    BY DEF CreateStep, CreateStart, CreatePod, CreateRaises, CreateDone,
           objVars, crVars, podVars, workerVars, returnVars
  <1>2. MadeOnce /\ LabelledFirst
    BY DEF FirstInv
  <1>3. ASSUME CreateStart(r) \/ CreateDone(r) PROVE MadeOnce' /\ UNCHANGED rid
    <2>1. /\ UNCHANGED <<pod, rid>> /\ createPc[r] \in {"due", "running"}
          /\ createPc'[r] \in {"running", "done"}
          /\ toMake'[r] \in {toMake[r], PodsOf(r)}
          /\ createPc[r] = "due" \/ toMake'[r] = toMake[r]
          /\ \A q \in Crs : q # r => createPc'[q] = createPc[q] /\ toMake'[q] = toMake[q]
      BY <1>3 DEF CreateStart, CreateDone, objVars, podVars, TypeOK, HandlerTypeOK
    <2> QED
      BY <1>1, <1>2, <2>1 DEF MadeOnce, PodsOf
  <1>4. ~CreateRaises(r)
    BY NoFault DEF CreateRaises
  <1>5. ASSUME NEW p \in Pods, CreatePod(r, p)
        PROVE  MadeOnce' /\ LabelledFirst'
    <2>1. /\ pod[p] = "none" /\ Owner[p] = r /\ p \in toMake[r]
          /\ createPc[r] = "running" /\ UNCHANGED createPc
      BY <1>2, <1>5 DEF CreatePod, MadeOnce, PodsOf, TypeOK, HandlerTypeOK
    <2>2. /\ pod' = [pod EXCEPT ![p] = "Pending"] /\ rid' = [rid EXCEPT ![p] = NoId]
          /\ toMake' = [toMake EXCEPT ![r] = @ \ {p}]
      BY <1>5, <2>1, NoFault DEF CreatePod, Exists
    <2>3. /\ pod'[p] = "Pending" /\ toMake'[r] = toMake[r] \ {p}
          /\ \A s \in Pods : s # p => pod'[s] = pod[s] /\ rid'[s] = rid[s]
          /\ \A q \in Crs : q # r => toMake'[q] = toMake[q]
      BY <2>2 DEF TypeOK, ObjectsTypeOK, HandlerTypeOK
    <2>4. p \notin deleting /\ \A d \in Deleters : p \notin cur[d]
      BY <1>2, <2>1 DEF MadeOnce, OperatorInv, PodsInv, Listed, Exists
    <2>5. /\ \A q \in Crs : toMake[q] \subseteq PodsOf(q)
          /\ \A d \in Deleters : cur[d] \subseteq Pods /\ todo[d] \subseteq Pods
          /\ deleting \subseteq Pods
      BY DEF TypeOK, ObjectsTypeOK, HandlerTypeOK, ReturnTypeOK
    <2>6. MadeOnce'
      <3>1. \A q \in Crs : \A s \in toMake'[q] : pod'[s] = "none"
        BY <1>2, <2>1, <2>3, <2>5 DEF MadeOnce, PodsOf
      <3>2. \A q \in Crs : createPc'[q] \in {"none", "due"} =>
                \A s \in PodsOf(q)' : pod'[s] = "none"
        BY <1>2, <2>1, <2>3 DEF MadeOnce, PodsOf
      <3>3. \A d \in Deleters : \A s \in todo'[d] \cup cur'[d] : pod'[s] # "none"
        BY <1>1, <1>2, <2>3, <2>5 DEF MadeOnce
      <3> QED
        BY <3>1, <3>2, <3>3 DEF MadeOnce
    <2>7. LabelledFirst'
      BY <1>1, <1>2, <2>3, <2>4, <2>5 DEF LabelledFirst
    <2> QED
      BY <2>6, <2>7
  <1>6. MadeOnce' /\ LabelledFirst'
    BY <1>1, <1>2, <1>3, <1>4, <1>5, StillLabelled DEF CreateStep
  <1> QED
    BY <1>1, <1>6, StillNamed DEF FirstInv

\* The delete handler reads the label of a pod that is being deleted.
LEMMA PodFirst ==
    ASSUME QuietStep, NEW p \in Pods, PodStep(p), UNCHANGED <<returnVars, life>>
    PROVE  FirstInv'
  <1> USE DEF QuietStep, KeptStep, Kept
  <1>1. UNCHANGED <<createPc, toMake, todo, cur, pod, rid, deleting, batch, wPc, job, returned>>
    BY DEF PodStep, ContainerStatusHandler, PodDeleteHandler, crVars, handlerVars, returnVars
  <1>2. LabelledFirst /\ NamedInv
    BY DEF FirstInv
  <1>3. ASSUME NEW e \in NamedUpdates, e.pod = p, Enqueue(p, e.type, e.id)
        PROVE  NamedInv'
    <2>1. e = [pod |-> p, type |-> e.type, id |-> e.id] /\ e \in UpdateEvent
      BY <1>3 DEF NamedUpdates, UpdateEvent
    <2>2. \A i \in DOMAIN queue' : (\E j \in DOMAIN queue : queue'[i] = queue[j]) \/ queue'[i] = e
      BY <1>3, <2>1, EnqueueAdds
    <2>3. \A i \in DOMAIN queue' : queue'[i] \in NamedUpdates
      BY <1>2, <2>2 DEF NamedInv
    <2> QED
      BY <1>1, <1>2, <2>3 DEF NamedInv
  <1>4. ASSUME ContainerStatusHandler(p) PROVE NamedInv'
    <2>1. [pod |-> p, type |-> "ContainerHealth", id |-> NoId] \in NamedUpdates
      BY DEF NamedUpdates, UpdateEvent
    <2>2. UNCHANGED queue \/ Enqueue(p, "ContainerHealth", NoId)
      BY <1>4 DEF ContainerStatusHandler
    <2> QED
      BY <1>1, <1>2, <1>3, <2>1, <2>2, StillNamed
  <1>5. ASSUME PodDeleteHandler(p) PROVE NamedInv'
    <2>1. Named(p, ReturnRequestId(p))
      <3>1. p \in deleting
        BY <1>5 DEF PodDeleteHandler
      <3>2. p \in Evictable \/ rid[p] # NoId
        BY <1>2, <3>1 DEF LabelledFirst
      <3>3. rid[p] # System
        BY ObjectsAssumption DEF TypeOK, ObjectsTypeOK
      <3>4. Named(p, returned[p])
        BY <1>2 DEF NamedInv
      <3> QED
        BY <3>2, <3>3, <3>4 DEF Named, ReturnRequestId
    <2>2. ReturnRequestId(p) \in ReturnIds \cup {NoId}
      BY DEF ReturnRequestId, ReturnIds, TypeOK, ObjectsTypeOK
    <2>3. [pod |-> p, type |-> "PodReturned", id |-> ReturnRequestId(p)] \in NamedUpdates
      BY <2>1, <2>2 DEF NamedUpdates, UpdateEvent
    <2>4. UNCHANGED queue \/ Enqueue(p, "PodReturned", ReturnRequestId(p))
      BY <1>5 DEF PodDeleteHandler
    <2> QED
      BY <1>1, <1>2, <1>3, <2>3, <2>4, StillNamed
  <1> QED
    BY <1>1, <1>4, <1>5, StillMade, StillLabelled DEF FirstInv, PodStep

\* process_pod_delete: the label, and then the deletion.
LEMMA ProcessPodDeleteFirst ==
    ASSUME QuietStep, NEW d \in Deleters, ProcessPodDelete(d), UNCHANGED <<handlerVars, life>>
    PROVE  FirstInv'
  <1> USE DEF QuietStep, KeptStep, Kept
  <1>1. UNCHANGED <<createPc, toMake, pod, queue, batch, wPc, job, returned>>
    BY DEF ProcessPodDelete, LabelPod, DeletePod, crVars, handlerVars, workerVars
  <1>2. MadeOnce /\ LabelledFirst
    BY DEF FirstInv
  <1>3. \A c \in Deleters : todo[c] \subseteq Pods /\ cur[c] \subseteq Pods
    BY DEF TypeOK, ReturnTypeOK
  <1>4. d # NoId
    BY ObjectsAssumption DEF Deleters
  <1>5. ASSUME Abort(d)
        PROVE  \A c \in Deleters : todo'[c] \subseteq todo[c] /\ cur'[c] \subseteq cur[c]
    BY <1>5 DEF Abort, TypeOK, ReturnTypeOK
  <1>6. ASSUME NEW p \in Pods, LabelPod(d, p)
        PROVE  /\ \A c \in Deleters : todo'[c] \cup cur'[c] \subseteq todo[c] \cup cur[c]
               /\ LabelledFirst'
    <2>1. UNCHANGED deleting
      BY <1>6 DEF LabelPod
    <2>2. CASE Abort(d) /\ UNCHANGED rid
      BY <1>2, <1>5, <2>1, <2>2 DEF LabelledFirst
    <2>3. CASE /\ rid' = [rid EXCEPT ![p] = d]
               /\ todo' = [todo EXCEPT ![d] = @ \ {p}]
               /\ cur' = [cur EXCEPT ![d] = {p}]
      <3>1. /\ rid'[p] = d /\ \A s \in Pods : s # p => rid'[s] = rid[s]
            /\ todo'[d] = todo[d] \ {p} /\ cur'[d] = {p} /\ p \in todo[d]
            /\ \A c \in Deleters : c # d => todo'[c] = todo[c] /\ cur'[c] = cur[c]
        BY <1>6, <2>3 DEF LabelPod, TypeOK, ObjectsTypeOK, ReturnTypeOK
      <3>2. \A s \in Pods : rid[s] # NoId => rid'[s] # NoId
        BY <1>4, <3>1
      <3>3. LabelledFirst'
        BY <1>2, <1>3, <1>4, <2>1, <3>1, <3>2 DEF LabelledFirst, TypeOK, ObjectsTypeOK
      <3> QED
        BY <3>1, <3>3
    <2> QED
      BY <1>6, <2>2, <2>3 DEF LabelPod
  <1>7. ASSUME NEW p \in Pods, DeletePod(d, p)
        PROVE  /\ \A c \in Deleters : todo'[c] \cup cur'[c] \subseteq todo[c] \cup cur[c]
               /\ LabelledFirst'
    <2>1. UNCHANGED rid /\ deleting' \subseteq deleting \cup {p} /\ p \in cur[d]
      BY <1>7 DEF DeletePod, StartDeleting
    <2>2. \A c \in Deleters : todo'[c] \subseteq todo[c] /\ cur'[c] \subseteq cur[c]
      BY <1>5, <1>7 DEF DeletePod, TypeOK, ReturnTypeOK
    <2>3. LabelledFirst'
      BY <1>2, <2>1, <2>2 DEF LabelledFirst
    <2> QED
      BY <2>2, <2>3
  <1>8. MadeOnce'
    BY <1>1, <1>2, <1>6, <1>7 DEF ProcessPodDelete, MadeOnce, PodsOf
  <1> QED
    BY <1>1, <1>6, <1>7, <1>8, StillNamed DEF ProcessPodDelete, FirstInv

\* The lists of pods to delete are of pods that exist.
LEMMA ReturnFirst ==
    ASSUME QuietStep, UNCHANGED <<handlerVars, life>>,
           (\E q \in Returns : ReturnStep(q)) \/ PreemptionStep
    PROVE  FirstInv'
  <1> USE DEF QuietStep, KeptStep, Kept
  <1>1. ASSUME NEW d \in Deleters, ProcessPodDelete(d) PROVE FirstInv'
    BY <1>1, ProcessPodDeleteFirst
  <1>2. ASSUME UNCHANGED <<createPc, toMake, pod, rid, deleting, queue, batch, wPc, job, returned>>,
               \A d \in Deleters : cur'[d] \subseteq cur[d],
               \A d \in Deleters : todo'[d] \subseteq todo[d] \cup Listed
        PROVE  FirstInv'
    <2>1. MadeOnce'
      BY <1>2 DEF FirstInv, MadeOnce, PodsOf, Listed, Exists
    <2>2. LabelledFirst'
      BY <1>2 DEF FirstInv, LabelledFirst
    <2> QED
      BY <1>2, <2>1, <2>2, StillNamed DEF FirstInv
  <1>3. ASSUME NEW q \in Returns, ReturnStep(q), ~ProcessPodDelete(q) PROVE FirstInv'
    <2>1. UNCHANGED <<createPc, toMake, pod, rid, deleting, queue, batch, wPc, job, returned>>
      BY <1>3 DEF ReturnStep, ReturnCreate, TriggerUpdate, ReturnUpdate, ReturnLabels,
                  ReturnStatus, objVars, crVars, podVars, workerVars, handlerVars
    <2>2. /\ \A d \in Deleters : cur'[d] \subseteq cur[d]
          /\ \A d \in Deleters : todo'[d] \subseteq todo[d] \cup Listed
      BY <1>3 DEF ReturnStep, ReturnCreate, TriggerUpdate, ReturnUpdate, ReturnLabels,
                  ReturnStatus, Abort, TypeOK, ReturnTypeOK
    <2> QED
      BY <1>2, <2>1, <2>2
  <1>4. ASSUME PreemptionHandler \/ PreemptionDone PROVE FirstInv'
    <2>1. UNCHANGED <<createPc, toMake, pod, rid, deleting, queue, batch, wPc, job, returned>>
      BY <1>4 DEF PreemptionHandler, PreemptionDone, objVars, crVars, podVars, workerVars,
                  handlerVars
    <2>2. /\ \A d \in Deleters : cur'[d] \subseteq cur[d]
          /\ \A d \in Deleters : todo'[d] \subseteq todo[d] \cup Listed
      BY <1>4, ReturnAssumption DEF PreemptionHandler, PreemptionDone, TypeOK, ReturnTypeOK,
                                    Listed, Exists
    <2> QED
      BY <1>2, <2>1, <2>2
  <1> QED
    BY <1>1, <1>3, <1>4 DEF Deleters, PreemptionStep, ReturnStep

LEMMA FieldFirst ==
    ASSUME QuietStep, NEW r \in Crs, FieldStep(r), UNCHANGED <<returnVars, life>>
    PROVE  FirstInv'
  BY StillFirst DEF FieldStep, FieldIgnore, FieldList, FieldPatch,
                    objVars, crVars, podVars, workerVars, returnVars

LEMMA CleanupFirst == ASSUME QuietStep, Cleanup PROVE FirstInv'
  BY StillFirst DEF Cleanup, CleanupStep, CleanupList, CleanupResource, CleanupReturn,
                    objVars, crVars, podVars, workerVars, handlerVars, returnVars, lifeVars

LEMMA QuietKeeps == QuietStep => FirstInv'
  <1> SUFFICES ASSUME QuietStep PROVE FirstInv'
    OBVIOUS
  <1>1. CASE Node \/ UNCHANGED vars
    BY <1>1, StillFirst DEF Node, TaintNode, vars, objVars, crVars, podVars, workerVars,
                            handlerVars, returnVars, lifeVars
  <1>2. ~Process
    <2>1. crashes = 0 /\ crashes' = 0 /\ life = "up"
      BY DEF QuietStep, Quiet, FirstInv
    <2> QED
      BY <2>1 DEF Process, Crash, Stop, StopReturns
  <1>3. CASE Handlers
    <2>1. UNCHANGED life
      BY <1>3 DEF Handlers, lifeVars
    <2> QED
      BY <1>3, <2>1, CreateFirst, FieldFirst, PodFirst, ReturnFirst DEF Handlers, HandlerStep
  <1> QED
    BY <1>1, <1>2, <1>3, ClusterFirst, ProviderFirst, WorkerFirst, CleanupFirst
    DEF QuietStep, KeptStep, Next

\* Failures and ends of the process are only ever counted up.
LEMMA QuietBefore == ASSUME KeptStep, Quiet' PROVE Quiet
  <1> USE DEF KeptStep, Kept, TypeOK, ObjectsTypeOK
  <1>1. faults \in Nat /\ crashes \in Nat
    BY DEF TypeOK
  <1>2. faults' \in {faults, faults + 1}
    <2>1. ASSUME DoesNotMake PROVE faults' \in {faults, faults + 1}
      BY <2>1 DEF DoesNotMake
    <2>2. ASSUME NEW r \in Crs, CreateStep(r) PROVE faults' \in {faults, faults + 1}
      BY <2>2 DEF CreateStep, CreateStart, CreatePod, CreateRaises, CreateDone, Ok, Fault, objVars
    <2>3. CASE Provider \/ Process \/ UNCHANGED vars
      BY <2>3 DEF Provider, ProviderStep, RequestMachines, RequestReturnMachines,
                  Process, Crash, Stop, StopReturns, Restart, vars, objVars
    <2> QED
      BY <2>1, <2>2, <2>3, OthersDoNotMake, HandlersDoNotMake DEF Next
  <1>3. crashes' \in {crashes, crashes + 1}
    BY DEF Next, Cluster, Provider, Node, Worker, Handlers, Cleanup, Process, Crash, Stop,
           StopReturns, lifeVars, vars
  <1> QED
    BY <1>1, <1>2, <1>3 DEF Quiet

LEMMA InitFirst == ASSUME Init PROVE LabelFirstInv
  <1>1. MadeOnce /\ LabelledFirst
    BY DEF Init, ObjectsInit, HandlerInit, ReturnInit, MadeOnce, LabelledFirst, PodsOf, Deleters
  <1>2. queue = <<>> /\ batch = <<>> /\ wPc = "check" /\ life = "up"
    BY DEF Init, WorkerInit
  <1>3. \A p \in Pods : Named(p, returned[p])
    BY ObjectsAssumption DEF Init, ObjectsInit, Named
  <1>4. NamedInv
    BY <1>2, <1>3 DEF NamedInv
  <1> QED
    BY <1>1, <1>2, <1>4 DEF LabelFirstInv

\* A step of a system in which nothing has failed.
LEMMA StepIsQuiet ==
    ASSUME KeptStep, NothingToCollect, LabelFirstInv, Quiet'
    PROVE  QuietStep
  BY QuietBefore DEF LabelFirstInv, QuietStep, FirstInv

LEMMA LabelsAreFirst == Spec => []LabelFirstInv
  <1>1. Init => LabelFirstInv
    BY InitFirst
  <1>2. KeptStep /\ NothingToCollect /\ LabelFirstInv => LabelFirstInv'
    BY StepIsQuiet, QuietKeeps DEF LabelFirstInv, FirstInv
  <1> QED
    BY <1>1, <1>2, StateIsKept, StepIsKept, NothingIsCollected, PTL DEF Spec

\* While nothing fails, a pod that only returns and the node's end delete is recorded
\* under the id of one of them: its label is there before the delete handler reads it.
THEOREM AttributedToReturns == Spec => []Attributed
  <1>1. LabelFirstInv => Attributed
    BY DEF LabelFirstInv, Attributed, NamedInv, Named
  <1> QED
    BY <1>1, LabelsAreFirst, PTL

-----------------------------------------------------------------------------
(* Updates on their way: none leaves the queue but into a batch. *)

LEMMA EnqueueQueues ==
    ASSUME TypeOK, NEW p \in Pods, NEW type, NEW id, Enqueue(p, type, id),
           [pod |-> p, type |-> type, id |-> id] \in UpdateEvent
    PROVE  /\ Range(queue) \subseteq Range(queue')
           /\ [pod |-> p, type |-> type, id |-> id] \in Range(queue')
  <1> DEFINE e == [pod |-> p, type |-> type, id |-> id]
  <1>1. queue \in Seq(UpdateEvent) /\ e \in UpdateEvent /\ queue' = Append(queue, e)
    BY DEF TypeOK, WorkerTypeOK, Enqueue
  <1> HIDE DEF e
  <1>2. /\ queue' \in Seq(UpdateEvent) /\ Len(queue') = Len(queue) + 1
        /\ \A i \in 1..Len(queue) : queue'[i] = queue[i]
        /\ queue'[Len(queue) + 1] = e
    BY <1>1, AppendProperties
  <1>3. DOMAIN queue = 1..Len(queue) /\ DOMAIN queue' = 1..Len(queue') /\ Len(queue) \in Nat
    BY <1>1, <1>2, LenProperties
  <1>4. Len(queue) + 1 \in DOMAIN queue'
        /\ \A i \in DOMAIN queue : i \in DOMAIN queue' /\ queue'[i] = queue[i]
    BY <1>2, <1>3
  <1>5. Range(queue) \subseteq Range(queue') /\ e \in Range(queue')
    BY <1>2, <1>4 DEF Range
  <1> QED
    BY <1>5 DEF e

LEMMA StatusCheckQueues ==
    ASSUME TypeOK, StatusCheck
    PROVE  Range(queue) \subseteq Range(queue')
  <1>1. CASE UNCHANGED queue
    BY <1>1
  <1>2. ASSUME NEW s \in SetToSeqs(Active),
               queue' = queue \o
                  [i \in DOMAIN s |-> [pod |-> s[i], type |-> "status_check", id |-> NoId]]
        PROVE  Range(queue) \subseteq Range(queue')
    <2> DEFINE checks ==
            [i \in DOMAIN s |-> [pod |-> s[i], type |-> "status_check", id |-> NoId]]
    <2>1. checks \in Seq(UpdateEvent)
      BY ChecksTyped
    <2> HIDE DEF checks
    <2>2. queue' = queue \o checks /\ queue \in Seq(UpdateEvent)
      BY <1>2 DEF checks, TypeOK, WorkerTypeOK
    <2>3. /\ queue' \in Seq(UpdateEvent) /\ Len(queue') = Len(queue) + Len(checks)
          /\ \A i \in 1..Len(queue) + Len(checks) :
                queue'[i] = IF i <= Len(queue) THEN queue[i] ELSE checks[i - Len(queue)]
      BY <2>1, <2>2, ConcatProperties
    <2>4. /\ DOMAIN queue = 1..Len(queue) /\ DOMAIN queue' = 1..Len(queue')
          /\ Len(queue) \in Nat /\ Len(checks) \in Nat
      BY <2>1, <2>2, <2>3, LenProperties
    <2>5. \A i \in DOMAIN queue : i \in DOMAIN queue' /\ queue'[i] = queue[i]
      BY <2>3, <2>4
    <2> QED
      BY <2>5 DEF Range
  <1> QED
    BY <1>1, <1>2 DEF StatusCheck

LEMMA CollectBatchQueues ==
    ASSUME TypeOK, CollectBatch
    PROVE  Range(queue) \subseteq Range(queue') \cup Range(batch')
  <1> DEFINE n == IF BatchSize < Len(queue) THEN BatchSize ELSE Len(queue)
  <1>1. n \in Nat /\ n <= Len(queue) /\ Len(queue) \in Nat /\ DOMAIN queue = 1..Len(queue)
    BY LenProperties, WorkerAssumption DEF TypeOK, WorkerTypeOK
  <1>2. queue' = SubSeq(queue, n + 1, Len(queue)) /\ batch' = SubSeq(queue, 1, n)
    BY DEF CollectBatch
  <1>3. queue \in Seq(UpdateEvent)
    BY DEF TypeOK, WorkerTypeOK
  <1> HIDE DEF n
  <1>4. /\ DOMAIN batch' = 1..n
        /\ \A i \in 1..n : batch'[i] = queue[i]
        /\ DOMAIN queue' = 1..(Len(queue) - n)
        /\ \A i \in 1..(Len(queue) - n) : queue'[i] = queue[n + i]
    <2>1. n \in 0..Len(queue)
      BY <1>1
    <2> QED
      BY <1>2, <1>3, <2>1, SplitOf, Zenon
  <1>5. ASSUME NEW i \in DOMAIN queue
        PROVE  \/ i \in DOMAIN batch' /\ batch'[i] = queue[i]
               \/ i - n \in DOMAIN queue' /\ queue'[i - n] = queue[i]
    <2>1. CASE i <= n
      BY <1>1, <1>4, <1>5, <2>1
    <2>2. CASE i > n
      <3>1. i - n \in 1..(Len(queue) - n) /\ n + (i - n) = i
        BY <1>1, <1>5, <2>2
      <3> QED
        BY <1>4, <3>1
    <2> QED
      BY <1>1, <1>5, <2>1, <2>2
  <1> QED
    BY <1>5 DEF Range

\* What the next group leaves of the batch.
LEMMA NextGroupLeaves ==
    ASSUME TypeOK, NextGroup
    PROVE  /\ \A e \in Range(batch) : Owner[e.pod] # Group => e \in Range(batch') /\ wPc' = "get"
           /\ Range(batch') \subseteq Range(batch)
           /\ wPc' \in {"get", "collect"}
  <1> DEFINE rest == {i \in DOMAIN batch : Owner[batch[i].pod] # Group}
  <1>1. /\ batch' = [i \in rest |-> batch[i]]
        /\ wPc' = IF rest = {} THEN "collect" ELSE "get"
    BY DEF NextGroup
  <1> QED
    BY <1>1 DEF Range

-----------------------------------------------------------------------------
(* No deletion is lost. *)

\* What is noted stays so.
LEMMA NotedStays ==
    ASSUME QuietStep, NEW p \in Pods, pod[p] # "none", Noted(p),
           returned'[p] = returned[p] \/ returned'[p] # NoId
    PROVE  Noted(p)'
  <1> USE DEF QuietStep, KeptStep, Kept
  <1>1. Owner[p] \in Crs /\ p \in PodsOf(Owner[p])
    BY ObjectsAssumption DEF PodsOf
  <1>2. cr[Owner[p]] # "none"
    BY <1>1 DEF OperatorInv, FinishedInv, FirstInv, MadeOnce
  <1>3. cr[Owner[p]] = "gone" => cr'[Owner[p]] = "gone"
    <2>1. CASE Provider
      BY <2>1, <1>1 DEF Provider, ProviderStep, RequestMachines, CreateResource,
                  RequestReturnMachines, TypeOK, ObjectsTypeOK, crVars
    <2>2. CASE Cleanup
      BY <2>2, <1>1 DEF Cleanup, CleanupStep, CleanupList, CleanupResource, CleanupReturn,
                  TypeOK, ObjectsTypeOK, objVars, crVars
    <2> QED
      BY <2>1, <2>2, ResourcesStay
  <1> QED
    BY <1>1, <1>2, <1>3 DEF Noted, TypeOK, ObjectsTypeOK, Existence

\* Who says that a pod was deleted says it of one that was made.
LEMMA UpdatesOfMade ==
    ASSUME Kept, NEW e \in Range(queue) \cup Range(batch)
    PROVE  /\ e \in UpdateEvent /\ e.pod \in Pods
           /\ e.type = "PodReturned" => pod[e.pod] # "none" /\ e.id # NoId
  <1>1. e \in TrueUpdates
    BY DEF Kept, OperatorInv, UpdatesInv, Range
  <1> QED
    BY <1>1 DEF TrueUpdates, UpdateEvent, Kept, OperatorInv, PodsInv

\* A step that deletes no pod without a word of it, and drops no word that is not noted.
LEMMA StillNotLost ==
    ASSUME QuietStep, NothingLost,
           \A p \in Pods : returned'[p] = returned[p] \/ returned'[p] # NoId,
           \A p \in Pods : p \in handled' \/ pod'[p] = "gone" =>
                \/ p \in handled \/ pod[p] = "gone"
                \/ Noted(p)' \/ ToldDeleted(p)',
           \A e \in Range(queue) \cup Range(batch) : e.type = "PodReturned" =>
                e \in Range(queue') \cup Range(batch') \/ Noted(e.pod)'
    PROVE  NothingLost'
  <1> USE DEF QuietStep, KeptStep, Kept
  <1> SUFFICES ASSUME NEW p \in Pods, p \in handled \/ pod[p] = "gone"
               PROVE  Noted(p)' \/ ToldDeleted(p)'
    BY DEF NothingLost
  <1>1. pod[p] # "none"
    BY DEF OperatorInv, PodsInv, Listed, Exists
  <1>2. CASE Noted(p)
    BY <1>1, <1>2, NotedStays
  <1>3. CASE ToldDeleted(p)
    BY <1>3 DEF ToldDeleted
  <1> QED
    BY <1>2, <1>3 DEF NothingLost

\* Beside the worker, and the delete handler, nothing of this moves.
LEMMA OthersLoseNothing ==
    ASSUME QuietStep, NothingLost, BatchNoted, UNCHANGED <<returned, queue, batch, wPc, job>>,
           \A p \in Pods : p \in handled' \/ pod'[p] = "gone" => p \in handled \/ pod[p] = "gone"
    PROVE  NothingLost' /\ BatchNoted'
  <1>1. NothingLost'
    BY StillNotLost
  <1>2. ASSUME NEW e \in Range(batch), e.type = "PodReturned", wPc = "label"
        PROVE  Noted(e.pod)'
    BY <1>2, UpdatesOfMade, NotedStays DEF BatchNoted, QuietStep, KeptStep
  <1> QED
    BY <1>1, <1>2 DEF BatchNoted

LEMMA PodHandlersLoseNothing ==
    ASSUME QuietStep, NothingLost, BatchNoted, NEW p \in Pods, PodStep(p)
    PROVE  NothingLost' /\ BatchNoted'
  <1> USE DEF QuietStep, KeptStep, Kept
  <1>1. UNCHANGED <<returned, batch, wPc, job, pod, cr>>
    BY DEF PodStep, ContainerStatusHandler, PodDeleteHandler, crVars
  <1>2. /\ Range(queue) \subseteq Range(queue')
        /\ p \in handled' \ handled => Noted(p)' \/ ToldDeleted(p)'
    <2>1. CASE ContainerStatusHandler(p)
      <3>1. [pod |-> p, type |-> "ContainerHealth", id |-> NoId] \in UpdateEvent
        BY DEF UpdateEvent
      <3> QED
        BY <2>1, <3>1, EnqueueQueues DEF ContainerStatusHandler
    <2>2. CASE PodDeleteHandler(p)
      <3>1. ReturnRequestId(p) \in ReturnIds \cup {NoId}
        BY DEF ReturnRequestId, ReturnIds, TypeOK, ObjectsTypeOK
      <3>2. [pod |-> p, type |-> "PodReturned", id |-> ReturnRequestId(p)] \in UpdateEvent
        BY <3>1 DEF UpdateEvent
      <3>3. CASE cr[Owner[p]] # "live" /\ UNCHANGED queue
        BY <1>1, <3>3 DEF Noted
      <3>4. CASE Enqueue(p, "PodReturned", ReturnRequestId(p))
        BY <3>2, <3>4, EnqueueQueues DEF ToldDeleted
      <3> QED
        BY <2>2, <3>3, <3>4, NoFault DEF PodDeleteHandler
    <2> QED
      BY <2>1, <2>2 DEF PodStep
  <1>3. \A s \in Pods : s \in handled' => s \in handled \/ s = p
    BY DEF PodStep, ContainerStatusHandler, PodDeleteHandler
  <1>4. NothingLost'
    BY <1>1, <1>2, <1>3, StillNotLost
  <1> QED
    BY <1>1, <1>4 DEF BatchNoted, Noted

\* A batch of one.
LEMMA OneUpdate ==
    ASSUME TypeOK, BatchSize = 1, DOMAIN batch # {}
    PROVE  /\ Range(batch) = {First} /\ First \in UpdateEvent
           /\ Positions(First.pod) # {} /\ KeptUpdate(First.pod) = First
  <1>1. DOMAIN batch = {1}
    <2>1. 1..1 = {1}
      OBVIOUS
    <2> QED
      BY <2>1 DEF TypeOK, WorkerTypeOK
  <1>2. Min(DOMAIN batch) = 1
    BY <1>1, MinIn
  <1>3. First = batch[1] /\ First \in UpdateEvent
    BY <1>2, FirstOfBatch, <1>1 DEF First, TypeOK
  <1>4. Positions(First.pod) = {1}
    BY <1>1, <1>3 DEF Positions
  <1>5. Min(Positions(First.pod)) = 1
    BY <1>1, <1>2, <1>4
  <1> QED
    BY <1>1, <1>3, <1>4, <1>5 DEF Range, KeptUpdate

\* The worker goes on to the next batch when what it had in hand is noted.
LEMMA NextGroupLosesNothing ==
    ASSUME QuietStep, NothingLost, NextGroup, UNCHANGED <<queue, pod, handled>>,
           \A p \in Pods : returned'[p] = returned[p] \/ returned'[p] # NoId,
           \A e \in Range(batch) : e.type = "PodReturned" => Noted(e.pod)'
    PROVE  NothingLost' /\ BatchNoted'
  <1>1. NothingLost'
    BY StillNotLost
  <1> QED
    BY <1>1, NextGroupLeaves DEF BatchNoted, QuietStep, KeptStep, Kept

LEMMA WorkerLosesNothing ==
    ASSUME QuietStep, BatchSize = 1, NothingLost, BatchNoted, Worker
    PROVE  NothingLost' /\ BatchNoted'
  <1> USE DEF QuietStep, KeptStep, Kept
  <1>1. UNCHANGED <<pod, handled, cr>>
    BY DEF Worker, WorkerStep, StatusCheck, CollectBatch, ProcessBatch, GetResource, ListPods,
           PatchStatus, PatchCleanupLabel, objVars, crVars, podVars
  <1>2. wPc \in {"check", "collect"} => Range(batch) = {}
    BY DEF BatchKept, Range
  <1>3. wPc \in {"get", "list", "patch", "label"} => Range(batch) = {First} /\ First \in UpdateEvent
    BY OneUpdate DEF BatchKept
  <1>4. \A p \in Pods : Noted(p) /\ UNCHANGED returned => Noted(p)'
    BY <1>1 DEF Noted
  <1>5. CASE StatusCheck
    <2>1. UNCHANGED <<returned, batch>> /\ wPc' = "collect"
      BY <1>5 DEF StatusCheck, crVars
    <2> QED
      BY <1>1, <1>5, <2>1, StatusCheckQueues, StillNotLost DEF BatchNoted
  <1>6. CASE CollectBatch
    <2>1. UNCHANGED returned /\ wPc = "collect" /\ wPc' = "get"
      BY <1>6 DEF CollectBatch, objVars, crVars
    <2>2. \A e \in Range(queue) \cup Range(batch) : e \in Range(queue') \cup Range(batch')
      BY <1>2, <1>6, <2>1, CollectBatchQueues
    <2> QED
      BY <1>1, <2>1, <2>2, StillNotLost DEF BatchNoted
  <1>7. CASE GetResource
    <2>1. UNCHANGED <<returned, queue>> /\ wPc = "get"
      BY <1>7 DEF GetResource, crVars
    <2>2. CASE cr[Group] # "live" /\ NextGroup
      <3>1. \A e \in Range(batch) : Noted(e.pod)'
        BY <1>1, <1>3, <2>1, <2>2 DEF Noted, Group
      <3> QED
        BY <1>1, <2>1, <2>2, <3>1, NextGroupLosesNothing
    <2>3. CASE /\ job' = [NoJob EXCEPT !.returned = ApplyMachineUpdates,
                                       !.completed = Group \in completed]
               /\ wPc' = "list" /\ UNCHANGED batch
      <3>1. job'.returned = ApplyMachineUpdates
        BY <2>3 DEF NoJob
      <3>2. ASSUME NEW e \in Range(batch), e.type = "PodReturned"
            PROVE  job'.returned[e.pod] # NoId
        <4>1. /\ e = First /\ e.pod \in Pods /\ e.id # NoId
              /\ Positions(e.pod) # {} /\ KeptUpdate(e.pod) = e
          BY <1>3, <2>1, <3>2, OneUpdate, UpdatesOfMade DEF BatchKept
        <4>2. Owner[e.pod] = Group
          BY <4>1 DEF Group
        <4> QED
          BY <3>1, <3>2, <4>1, <4>2 DEF ApplyMachineUpdates
      <3>3. BatchNoted'
        BY <2>3, <3>2 DEF BatchNoted
      <3> QED
        BY <1>1, <2>1, <2>3, <3>3, StillNotLost
    <2> QED
      BY <1>7, <2>2, <2>3, NoFault DEF GetResource
  <1>8. CASE ListPods
    <2>1. /\ UNCHANGED <<returned, queue, batch>>
          /\ wPc = "list" /\ wPc' = "patch" /\ job'.returned = job.returned
      BY <1>8 DEF ListPods, TypeOK, WorkerTypeOK, Job, crVars
    <2> QED
      BY <1>1, <2>1, StillNotLost DEF BatchNoted
  <1>9. CASE PatchStatus
    <2>1. /\ \A p \in Pods : returned'[p] = returned[p] \/ returned'[p] # NoId
          /\ UNCHANGED queue
      BY <1>9 DEF PatchStatus, OperatorInv, JobInv, TypeOK, ObjectsTypeOK
    <2>2. ASSUME NEW e \in Range(batch), e.type = "PodReturned" PROVE Noted(e.pod)'
      <3>1. e = First /\ e.pod \in Pods /\ job.returned[e.pod] # NoId
        BY <1>3, <1>9, <2>2, UpdatesOfMade DEF BatchNoted, PatchStatus
      <3>2. Owner[e.pod] = Group
        BY <3>1 DEF Group
      <3> QED
        BY <1>1, <1>9, <3>1, <3>2, NoFault DEF PatchStatus, Noted
    <2>3. CASE wPc' = "label" /\ UNCHANGED <<batch, job>>
      BY <1>1, <2>1, <2>2, <2>3, StillNotLost DEF BatchNoted
    <2> QED
      BY <1>1, <1>9, <2>1, <2>2, <2>3, NextGroupLosesNothing DEF PatchStatus
  <1>10. CASE PatchCleanupLabel
    <2>1. UNCHANGED <<returned, queue>> /\ NextGroup /\ wPc = "label"
      BY <1>10, NoFault DEF PatchCleanupLabel, crVars
    <2>2. \A e \in Range(batch) : e.type = "PodReturned" => Noted(e.pod)'
      BY <1>4, <2>1, UpdatesOfMade DEF BatchNoted
    <2> QED
      BY <1>1, <2>1, <2>2, NextGroupLosesNothing
  <1> QED
    BY <1>5, <1>6, <1>7, <1>8, <1>9, <1>10 DEF Worker, WorkerStep, ProcessBatch

\* The other steps.
LEMMA StepLosesNothing ==
    ASSUME QuietStep, BatchSize = 1, NothingLost, BatchNoted
    PROVE  NothingLost' /\ BatchNoted'
  <1> USE DEF QuietStep, KeptStep, Kept
  <1>1. CASE Cluster
    <2>1. UNCHANGED <<returned, queue, batch, wPc, job>>
      BY <1>1 DEF Cluster, ClusterStep, PodReady, PodFails, EvictPod, PodGone, CollectGarbage,
                  crVars, workerVars
    <2>2. \A p \in Pods : p \in handled' \/ pod'[p] = "gone" => p \in handled \/ pod[p] = "gone"
      BY <1>1 DEF Cluster, ClusterStep, PodReady, PodFails, EvictPod, PodGone, CollectGarbage,
                  TypeOK, ObjectsTypeOK
    <2> QED
      BY <2>1, <2>2, OthersLoseNothing
  <1>2. ASSUME NEW r \in Crs, CreateStep(r) PROVE NothingLost' /\ BatchNoted'
    <2>1. UNCHANGED <<returned, queue, batch, wPc, job>>
      BY <1>2 DEF CreateStep, CreateStart, CreatePod, CreateRaises, CreateDone,
                  objVars, crVars, workerVars
    <2>2. \A p \in Pods : p \in handled' \/ pod'[p] = "gone" => p \in handled \/ pod[p] = "gone"
      BY <1>2 DEF CreateStep, CreateStart, CreatePod, CreateRaises, CreateDone,
                  objVars, podVars, TypeOK, ObjectsTypeOK
    <2> QED
      BY <2>1, <2>2, OthersLoseNothing
  <1>3. ASSUME UNCHANGED <<returned, queue, batch, wPc, job, pod, handled>>
        PROVE  NothingLost' /\ BatchNoted'
    BY <1>3, OthersLoseNothing
  <1>4. ASSUME NEW d, ProcessPodDelete(d) PROVE NothingLost' /\ BatchNoted'
    BY <1>3, <1>4 DEF ProcessPodDelete, LabelPod, DeletePod, crVars, workerVars
  <1>5. CASE Handlers
    <2>1. ASSUME NEW r \in Crs, FieldStep(r) PROVE NothingLost' /\ BatchNoted'
      BY <1>3, <2>1 DEF FieldStep, FieldIgnore, FieldList, FieldPatch,
                        objVars, crVars, podVars, workerVars
    <2>2. ASSUME NEW q \in Returns, ReturnStep(q) PROVE NothingLost' /\ BatchNoted'
      BY <1>3, <1>4, <2>2 DEF ReturnStep, ReturnCreate, TriggerUpdate, ReturnUpdate, ReturnLabels,
                              ReturnStatus, objVars, crVars, podVars, workerVars
    <2>3. ASSUME PreemptionStep PROVE NothingLost' /\ BatchNoted'
      BY <1>3, <1>4, <2>3 DEF PreemptionStep, PreemptionHandler, PreemptionDone,
                              objVars, crVars, podVars, workerVars
    <2> QED
      BY <1>2, <1>5, <2>1, <2>2, <2>3, PodHandlersLoseNothing DEF Handlers, HandlerStep
  <1>6. CASE Provider \/ Node \/ Cleanup \/ UNCHANGED vars
    BY <1>3, <1>6 DEF Provider, ProviderStep, RequestMachines, RequestReturnMachines, CreateResource,
        CreateReturn, Node, TaintNode, Cleanup, CleanupStep, CleanupList, CleanupResource,
        CleanupReturn, vars, objVars, crVars, podVars, workerVars
  <1>7. ~Process
    BY DEF Quiet, FirstInv, Process, Crash, Stop, StopReturns
  <1> QED
    BY <1>1, <1>5, <1>6, <1>7, WorkerLosesNothing DEF Next

\* While nothing fails, and with one update at a time, the deletion of a pod is on its
\* way into returnedMachines from the end of its delete handler on, or there.
THEOREM DeletionsNotLost == Spec => []DeletionNotLost
  <1>1. Init => DeletionInv
    BY DEF Init, ObjectsInit, WorkerInit, DeletionInv, NothingLost, BatchNoted, Range
  <1>2. KeptStep /\ NothingToCollect /\ LabelFirstInv /\ DeletionInv => DeletionInv'
    <2> SUFFICES ASSUME KeptStep, NothingToCollect, LabelFirstInv, DeletionInv,
                        Quiet', BatchSize = 1
                 PROVE  NothingLost' /\ BatchNoted'
      BY DEF DeletionInv
    <2>1. QuietStep
      BY StepIsQuiet
    <2> QED
      BY <2>1, StepLosesNothing DEF DeletionInv, QuietStep
  <1>3. DeletionInv => DeletionNotLost
    BY DEF DeletionInv, DeletionNotLost
  <1> QED
    BY <1>1, <1>2, <1>3, StateIsKept, StepIsKept, NothingIsCollected, LabelsAreFirst,
       PTL DEF Spec

-----------------------------------------------------------------------------
(* The status catches up. *)

\* The active pods of r are the same, in the same phases.
PodsStay(r) == ActiveOf(r)' = ActiveOf(r) /\ \A p \in ActiveOf(r) : pod'[p] = pod[p]

LEMMA SameDescription ==
    ASSUME NEW r \in Crs, PodsStay(r)
    PROVE  /\ Cardinality(RunningIn(ActiveOf(r)))' = Cardinality(RunningIn(ActiveOf(r)))
           /\ CalculatePhase(ActiveOf(r))' = CalculatePhase(ActiveOf(r))
  <1>1. RunningIn(ActiveOf(r))' = RunningIn(ActiveOf(r))
    BY DEF PodsStay, RunningIn
  <1>2. \A p \in ActiveOf(r) : PodStatus(p)' = PodStatus(p)
    BY DEF PodsStay, PodStatus
  <1>3. {PodStatus(p) : p \in ActiveOf(r)}' = {PodStatus(p) : p \in ActiveOf(r)}
    BY <1>2 DEF PodsStay
  <1> QED
    BY <1>1, <1>3 DEF CalculatePhase

\* What a step beside the worker may do to r: have it reported, or leave it alone.
Accounted(r) ==
    cr'[r] = "live" /\ Started(r)' =>
        \/ PodsOf(r) \cap (Unhandled \cup Queued)' # {}
        \/ /\ cr[r] = "live" /\ Started(r) /\ PodsStay(r)
           /\ PodsOf(r) \cap Unhandled \subseteq Unhandled'

LEMMA OthersCatchUp ==
    ASSUME CaughtUp, UNCHANGED <<batch, wPc, job, available, crPhase>>,
           Range(queue) \subseteq Range(queue'), \A r \in Crs : Accounted(r)
    PROVE  CaughtUp'
  <1> SUFFICES ASSUME NEW r \in Crs, cr'[r] = "live", Started(r)'
               PROVE  Described(r)' \/ Reported(r)'
    BY DEF CaughtUp
  <1>1. CASE PodsOf(r) \cap (Unhandled \cup Queued)' # {}
    BY <1>1 DEF Reported, PodsOf
  <1>2. CASE /\ cr[r] = "live" /\ Started(r) /\ PodsStay(r)
             /\ PodsOf(r) \cap Unhandled \subseteq Unhandled'
    <2>1. UNCHANGED Group
      BY DEF Group, First
    <2>2. Queued \subseteq Queued' /\ Waiting' = Waiting
      BY <2>1 DEF Queued, Waiting
    <2>3. Reported(r) => Reported(r)'
      BY <1>2, <2>2 DEF Reported, PodsOf
    <2>4. Described(r) => Described(r)'
      BY <1>2, <2>1, SameDescription DEF Described, Describes
    <2> QED
      BY <1>2, <2>3, <2>4 DEF CaughtUp
  <1> QED
    BY <1>1, <1>2 DEF Accounted

LEMMA UntouchedAccounted ==
    ASSUME NEW r \in Crs, cr'[r] = "live" => cr[r] = "live",
           \A p \in PodsOf(r) : pod'[p] = pod[p],
           PodsOf(r) \cap deleting' = PodsOf(r) \cap deleting,
           PodsOf(r) \cap Unhandled \subseteq Unhandled'
    PROVE  Accounted(r)
  <1>1. ActiveOf(r)' = ActiveOf(r)
    BY DEF ActiveOf, Active, Listed, Exists, PodsOf
  <1> QED
    BY <1>1 DEF Accounted, PodsStay, Started, ActiveOf, PodsOf

CatchUp == CaughtUp /\ changed \subseteq Active

\* A deletion of p, once more or for the first time.
LEMMA DeletionAccounted ==
    ASSUME QuietStep, changed \subseteq Active, NEW S \in SUBSET Pods, StartDeleting(S),
           UNCHANGED <<pod, handled, cr>>
    PROVE  (\A r \in Crs : Accounted(r)) /\ changed' \subseteq Active'
  <1>1. changed' \subseteq Active'
    BY DEF StartDeleting, Active, Listed, Exists
  <1>2. ASSUME NEW r \in Crs PROVE Accounted(r)
    <2>1. CASE PodsOf(r) \cap S \subseteq deleting
      <3>1. PodsOf(r) \cap deleting' = PodsOf(r) \cap deleting
        BY <2>1 DEF StartDeleting
      <3>2. PodsOf(r) \cap Unhandled \subseteq Unhandled'
        BY <2>1 DEF StartDeleting, Unhandled, Active
      <3> QED
        BY <1>2, <3>1, <3>2, UntouchedAccounted
    <2>2. ASSUME NEW p \in PodsOf(r) \cap S, p \notin deleting PROVE Accounted(r)
      <3>1. p \notin handled
        BY <2>2 DEF QuietStep, KeptStep, Kept, OperatorInv, PodsInv
      <3>2. p \in Unhandled'
        BY <2>2, <3>1 DEF StartDeleting, Unhandled
      <3> QED
        BY <2>2, <3>2 DEF Accounted
    <2> QED
      BY <2>1, <2>2
  <1> QED
    BY <1>1, <1>2

LEMMA ClusterCatchesUp ==
    ASSUME QuietStep, CatchUp, Cluster
    PROVE  CatchUp'
  <1> USE DEF QuietStep, KeptStep, Kept, CatchUp
  <1>1. UNCHANGED <<batch, wPc, job, available, crPhase, queue, cr>>
    BY DEF Cluster, ClusterStep, PodReady, PodFails, EvictPod, PodGone, CollectGarbage,
           crVars, workerVars
  <1>2. ASSUME NEW p \in Pods, PodReady(p) \/ PodFails(p)
        PROVE  (\A r \in Crs : Accounted(r)) /\ changed' \subseteq Active'
    <2>1. /\ changed' = changed \cup {p} /\ UNCHANGED <<deleting, handled>> /\ p \in Active
          /\ pod'[p] \in {"Running", "Failed"}
          /\ \A s \in Pods : s # p => pod'[s] = pod[s]
      BY <1>2 DEF PodReady, PodFails, TypeOK, ObjectsTypeOK
    <2>2. Active' = Active
      BY <2>1 DEF Active, Listed, Exists
    <2>3. ASSUME NEW r \in Crs PROVE Accounted(r)
      <3>1. CASE Owner[p] = r
        <4>1. p \in PodsOf(r) \cap Unhandled'
          BY <2>1, <3>1 DEF PodsOf, Unhandled
        <4> QED
          BY <4>1 DEF Accounted
      <3>2. CASE Owner[p] # r
        <4>1. \A s \in PodsOf(r) : pod'[s] = pod[s]
          BY <2>1, <3>2 DEF PodsOf
        <4> QED
          BY <1>1, <2>1, <2>3, <4>1, UntouchedAccounted DEF Unhandled
      <3> QED
        BY <3>1, <3>2
    <2> QED
      BY <2>1, <2>2, <2>3
  <1>3. ASSUME NEW p \in Pods, EvictPod(p)
        PROVE  (\A r \in Crs : Accounted(r)) /\ changed' \subseteq Active'
    BY <1>1, <1>3, DeletionAccounted DEF EvictPod
  <1>4. ASSUME NEW p \in Pods, PodGone(p)
        PROVE  (\A r \in Crs : Accounted(r)) /\ changed' \subseteq Active'
    <2>1. /\ pod'[p] = "gone" /\ \A s \in Pods : s # p => pod'[s] = pod[s]
          /\ UNCHANGED changed /\ deleting' = deleting \ {p} /\ handled' = handled \ {p}
          /\ p \in deleting /\ p \in handled
      BY <1>4 DEF PodGone, TypeOK, ObjectsTypeOK
    <2>2. Active' = Active /\ p \notin Active /\ Unhandled' = Unhandled
      BY <2>1 DEF Active, Listed, Exists, Unhandled
    <2>3. p \in Listed
      BY <2>1 DEF OperatorInv, PodsInv
    <2>4. \A r \in Crs : PodsStay(r)
      BY <2>1, <2>2 DEF PodsStay, ActiveOf, PodsOf
    <2>5. \A r \in Crs : Started(r)' => Started(r)
      BY <2>1, <2>2, <2>3 DEF Started, ActiveOf, PodsOf, Listed, Exists
    <2> QED
      BY <1>1, <2>1, <2>2, <2>4, <2>5 DEF Accounted
  <1>5. \A r \in Crs : ~CollectGarbage(r)
    BY DEF CollectGarbage, NothingToCollect
  <1> QED
    BY <1>1, <1>2, <1>3, <1>4, <1>5, OthersCatchUp DEF Cluster, ClusterStep

\* A step that has nothing to do with any pod.
LEMMA NoPodCatchesUp ==
    ASSUME CatchUp, \A r \in Crs : cr'[r] = "live" => cr[r] = "live",
           UNCHANGED <<batch, wPc, job, available, crPhase, queue,
                       pod, deleting, handled, changed>>
    PROVE  CatchUp'
  <1>1. \A r \in Crs : Accounted(r)
    BY UntouchedAccounted DEF Unhandled
  <1>2. UNCHANGED Active
    BY DEF Active, Listed, Exists
  <1> QED
    BY <1>1, <1>2, OthersCatchUp DEF CatchUp

\* A pod that is made has yet to start.
LEMMA CreateCatchesUp ==
    ASSUME QuietStep, CatchUp, NEW r \in Crs, CreateStep(r)
    PROVE  CatchUp'
  <1> USE DEF QuietStep, KeptStep, Kept
  <1>1. CASE CreateStart(r) \/ CreateDone(r) \/ CreateRaises(r)
    BY <1>1, NoPodCatchesUp DEF CreateStart, CreateDone, CreateRaises,
                                objVars, crVars, podVars, workerVars
  <1>2. ASSUME NEW p \in Pods, CreatePod(r, p) PROVE CatchUp'
    <2>1. UNCHANGED <<batch, wPc, job, available, crPhase, queue, cr, deleting, handled, changed>>
      BY <1>2 DEF CreatePod, crVars, workerVars
    <2>2. /\ pod[p] = "none" /\ Owner[p] = r
      BY <1>2 DEF CreatePod, FirstInv, MadeOnce, PodsOf, TypeOK, HandlerTypeOK
    <2>3. pod'[p] = "Pending" /\ \A s \in Pods : s # p => pod'[s] = pod[s]
      BY <1>2, <2>2, NoFault DEF CreatePod, Exists, TypeOK, ObjectsTypeOK
    <2>4. p \notin deleting
      BY <2>2 DEF OperatorInv, PodsInv, Listed, Exists
    <2>5. p \in ActiveOf(r)' /\ ~Started(r)'
      BY <2>1, <2>2, <2>3, <2>4 DEF Started, ActiveOf, Active, Listed, Exists, PodsOf
    <2>6. ASSUME NEW s \in Crs, s # r PROVE Accounted(s)
      <3>1. \A t \in PodsOf(s) : pod'[t] = pod[t]
        BY <2>2, <2>3, <2>6 DEF PodsOf
      <3> QED
        BY <2>1, <2>6, <3>1, UntouchedAccounted DEF Unhandled
    <2>7. \A s \in Crs : Accounted(s)
      BY <2>5, <2>6 DEF Accounted
    <2>8. changed' \subseteq Active'
      BY <2>1, <2>3 DEF CatchUp, Active, Listed, Exists
    <2> QED
      BY <2>1, <2>7, <2>8, OthersCatchUp DEF CatchUp
  <1> QED
    BY <1>1, <1>2 DEF CreateStep

\* What a handler is called for goes into the queue.
LEMMA PodHandlersCatchUp ==
    ASSUME QuietStep, CatchUp, NEW p \in Pods, PodStep(p)
    PROVE  CatchUp'
  <1> USE DEF QuietStep, KeptStep, Kept
  <1>1. /\ UNCHANGED <<batch, wPc, job, available, crPhase, cr, pod, deleting>>
        /\ changed' \subseteq changed /\ Unhandled \subseteq Unhandled' \cup {p}
    BY DEF PodStep, ContainerStatusHandler, PodDeleteHandler, Unhandled, crVars
  <1>2. /\ Range(queue) \subseteq Range(queue')
        /\ cr[Owner[p]] = "live" => p \in Queued'
    <2>1. CASE ContainerStatusHandler(p)
      <3>1. [pod |-> p, type |-> "ContainerHealth", id |-> NoId] \in UpdateEvent
        BY DEF UpdateEvent
      <3>2. CASE Enqueue(p, "ContainerHealth", NoId)
        BY <3>1, <3>2, EnqueueQueues DEF Queued
      <3> QED
        BY <2>1, <3>2, NoFault DEF ContainerStatusHandler
    <2>2. CASE PodDeleteHandler(p)
      <3>1. ReturnRequestId(p) \in ReturnIds \cup {NoId}
        BY DEF ReturnRequestId, ReturnIds, TypeOK, ObjectsTypeOK
      <3>2. [pod |-> p, type |-> "PodReturned", id |-> ReturnRequestId(p)] \in UpdateEvent
        BY <3>1 DEF UpdateEvent
      <3>3. CASE Enqueue(p, "PodReturned", ReturnRequestId(p))
        BY <3>2, <3>3, EnqueueQueues DEF Queued
      <3> QED
        BY <2>2, <3>3, NoFault DEF PodDeleteHandler
    <2> QED
      BY <2>1, <2>2 DEF PodStep
  <1>3. ASSUME NEW r \in Crs PROVE Accounted(r)
    <2>1. CASE Owner[p] = r
      <3>1. cr'[r] = "live" => p \in PodsOf(r) \cap Queued'
        BY <1>1, <1>2, <2>1 DEF PodsOf
      <3> QED
        BY <3>1 DEF Accounted
    <2>2. CASE Owner[p] # r
      <3>1. PodsOf(r) \cap Unhandled \subseteq Unhandled'
        BY <1>1, <2>2 DEF PodsOf
      <3> QED
        BY <1>1, <1>3, <3>1, UntouchedAccounted
    <2> QED
      BY <2>1, <2>2
  <1>4. changed' \subseteq Active'
    BY <1>1 DEF CatchUp, Active, Listed, Exists
  <1> QED
    BY <1>1, <1>2, <1>3, <1>4, OthersCatchUp DEF CatchUp

LEMMA ProcessPodDeleteCatchesUp ==
    ASSUME QuietStep, CatchUp, NEW d, ProcessPodDelete(d)
    PROVE  CatchUp'
  <1> USE DEF QuietStep, KeptStep, Kept
  <1>1. UNCHANGED <<batch, wPc, job, available, crPhase, queue, cr, pod, handled>>
    BY DEF ProcessPodDelete, LabelPod, DeletePod, crVars, workerVars
  <1>2. CASE UNCHANGED <<deleting, changed>>
    BY <1>1, <1>2, NoPodCatchesUp
  <1>3. ASSUME NEW p \in Pods, StartDeleting({p}) PROVE CatchUp'
    BY <1>1, <1>3, DeletionAccounted, OthersCatchUp DEF CatchUp
  <1> QED
    BY <1>2, <1>3 DEF ProcessPodDelete, LabelPod, DeletePod

\* A resource that is asked for has no pods yet.
LEMMA ProviderCatchesUp ==
    ASSUME QuietStep, CatchUp, Provider
    PROVE  CatchUp'
  <1> USE DEF QuietStep, KeptStep, Kept
  <1>1. UNCHANGED <<batch, wPc, job, available, crPhase, queue, pod, deleting, handled, changed>>
    BY DEF Provider, ProviderStep, RequestMachines, CreateResource, RequestReturnMachines,
           CreateReturn, crVars, podVars, workerVars
  <1>2. ASSUME NEW r \in Crs, RequestMachines(r) PROVE CatchUp'
    <2>1. cr[r] = "none" /\ \A s \in Crs : s # r => cr'[s] = cr[s]
      BY <1>2 DEF RequestMachines, CreateResource, TypeOK, ObjectsTypeOK
    <2>2. \A p \in PodsOf(r) : pod[p] = "none"
      BY <2>1 DEF OperatorInv, FinishedInv, FirstInv, MadeOnce
    <2>3. Accounted(r)
      BY <1>1, <2>2 DEF Accounted, Started, PodsOf
    <2>4. \A s \in Crs : s # r => Accounted(s)
      BY <1>1, <2>1, UntouchedAccounted DEF Unhandled
    <2>5. UNCHANGED Active
      BY <1>1 DEF Active, Listed, Exists
    <2> QED
      BY <1>1, <2>3, <2>4, <2>5, OthersCatchUp DEF CatchUp
  <1>3. ASSUME NEW q \in Returns, RequestReturnMachines(q) PROVE CatchUp'
    BY <1>1, <1>3, NoPodCatchesUp DEF RequestReturnMachines, crVars
  <1> QED
    BY <1>2, <1>3 DEF Provider, ProviderStep

\* The worker lists the pods of the group at hand; the others wait for it.
LEMMA NextGroupWaits ==
    ASSUME TypeOK, NextGroup, NEW p \in Waiting, Owner[p] # Group
    PROVE  p \in Waiting'
  <1>1. PICK e \in Range(batch) : p = e.pod
    BY DEF Waiting
  <1>2. e \in Range(batch') /\ wPc' = "get"
    BY <1>1, NextGroupLeaves
  <1> QED
    BY <1>1, <1>2 DEF Waiting

LEMMA WorkerCatchesUp ==
    ASSUME QuietStep, CatchUp, Worker
    PROVE  CatchUp'
  <1> USE DEF QuietStep, KeptStep, Kept
  <1>1. UNCHANGED <<pod, deleting, handled, changed, cr>>
    BY DEF Worker, WorkerStep, StatusCheck, CollectBatch, ProcessBatch, GetResource, ListPods,
           PatchStatus, PatchCleanupLabel, objVars, crVars, podVars
  <1>2. UNCHANGED <<Active, Unhandled>>
    BY <1>1 DEF Active, Listed, Exists, Unhandled
  <1>3. \A r \in Crs : PodsStay(r) /\ Started(r)' = Started(r) /\ PodsOf(r)' = PodsOf(r)
    BY <1>1, <1>2 DEF PodsStay, ActiveOf, Started, PodsOf
  <1>4. \A r \in Crs : UNCHANGED <<available, crPhase>> /\ wPc # "patch" /\ wPc' # "patch" =>
                          (Described(r) => Described(r)')
    BY <1>3, SameDescription DEF Described, Describes
  <1> SUFFICES ASSUME NEW r \in Crs, cr[r] = "live", Described(r) \/ Reported(r)
               PROVE  Described(r)' \/ Reported(r)'
    BY <1>1, <1>2, <1>3 DEF CatchUp, CaughtUp
  <1>5. CASE StatusCheck
    <2>1. /\ UNCHANGED <<available, crPhase, batch>> /\ wPc = "check" /\ wPc' = "collect"
          /\ Range(batch) = {}
      BY <1>5 DEF StatusCheck, crVars, BatchKept, Range
    <2>2. Queued \subseteq Queued' /\ Waiting = {}
      BY <1>5, <2>1, StatusCheckQueues DEF Queued, Waiting
    <2> QED
      BY <1>2, <1>3, <1>4, <2>1, <2>2 DEF Reported
  <1>6. CASE CollectBatch
    <2>1. /\ UNCHANGED <<available, crPhase>> /\ wPc = "collect" /\ wPc' = "get"
          /\ Range(batch) = {}
      BY <1>6 DEF CollectBatch, objVars, crVars, BatchKept, Range
    <2>2. Waiting = {} /\ Queued \subseteq Queued' \cup Waiting'
      BY <1>6, <2>1, CollectBatchQueues DEF Queued, Waiting
    <2> QED
      BY <1>2, <1>3, <1>4, <2>1, <2>2 DEF Reported
  <1>7. CASE GetResource
    <2>1. UNCHANGED <<available, crPhase, queue>> /\ wPc = "get"
      BY <1>7 DEF GetResource, crVars
    <2>2. wPc' \in {"list", "get", "collect"} /\ Queued' = Queued
      BY <1>7, <2>1, NextGroupLeaves DEF GetResource, Queued
    <2>3. PodsOf(r) \cap Waiting \subseteq Waiting'
      <3>1. CASE wPc' = "list" /\ UNCHANGED batch
        BY <2>1, <3>1 DEF Waiting
      <3>2. CASE cr[Group] # "live" /\ NextGroup
        BY <3>2, NextGroupWaits DEF PodsOf
      <3> QED
        BY <1>7, <3>1, <3>2, NoFault DEF GetResource
    <2> QED
      BY <1>2, <1>3, <1>4, <2>1, <2>2, <2>3 DEF Reported
  <1>8. CASE ListPods
    <2>1. /\ UNCHANGED <<available, crPhase, queue, batch>> /\ wPc = "list" /\ wPc' = "patch"
          /\ job' = [job EXCEPT !.phase = CalculatePhase(ActiveOf(Group)),
                                !.available = Cardinality(RunningIn(ActiveOf(Group)))]
      BY <1>8, NoFault DEF ListPods, crVars
    <2>2. UNCHANGED <<Group, Queued>>
      BY <2>1 DEF Group, First, Queued
    <2>3. CASE r = Group
      <3>1. /\ job'.phase = CalculatePhase(ActiveOf(r))
            /\ job'.available = Cardinality(RunningIn(ActiveOf(r)))
        BY <2>1, <2>3 DEF TypeOK, WorkerTypeOK, Job
      <3> QED
        BY <1>3, <2>1, <2>2, <2>3, <3>1, SameDescription DEF Described, Describes
    <2>4. CASE r # Group
      <3>1. PodsOf(r) \cap Waiting \subseteq Waiting'
        BY <2>1, <2>2, <2>4 DEF Waiting, PodsOf
      <3>2. Described(r) => Described(r)'
        BY <1>3, <2>1, <2>2, <2>4, SameDescription DEF Described, Describes
      <3> QED
        BY <1>2, <1>3, <2>2, <3>1, <3>2 DEF Reported
    <2> QED
      BY <2>3, <2>4
  <1>9. CASE PatchStatus \/ PatchCleanupLabel
    <2>1. UNCHANGED queue /\ wPc \in {"patch", "label"} /\ wPc' \in {"get", "collect", "label"}
      BY <1>9, NextGroupLeaves DEF PatchStatus, PatchCleanupLabel
    <2>2. Queued' = Queued
      BY <2>1 DEF Queued
    <2>3. \A p \in Waiting : Owner[p] # Group
      BY <2>1 DEF Waiting
    <2>4. Waiting \subseteq Waiting'
      <3>1. CASE wPc' = "label" /\ UNCHANGED batch
        <4>1. UNCHANGED Group
          BY <3>1 DEF Group, First
        <4> QED
          BY <2>1, <3>1, <4>1 DEF Waiting
      <3>2. CASE NextGroup
        BY <2>3, <3>2, NextGroupWaits
      <3> QED
        BY <1>9, <3>1, <3>2, NoFault DEF PatchStatus, PatchCleanupLabel
    <2>5. Described(r) => Described(r)'
      <3>1. CASE PatchCleanupLabel
        BY <1>4, <2>1, <3>1 DEF PatchCleanupLabel, crVars
      <3>2. CASE PatchStatus /\ r = Group
        <4>1. available'[r] = job.available /\ crPhase'[r] = job.phase /\ wPc = "patch"
          BY <3>2, NoFault DEF PatchStatus, TypeOK, ObjectsTypeOK
        <4> QED
          BY <1>3, <2>1, <3>2, <4>1, SameDescription DEF Described, Describes
      <3>3. CASE PatchStatus /\ r # Group
        <4>1. available'[r] = available[r] /\ crPhase'[r] = crPhase[r]
          BY <3>3 DEF PatchStatus, TypeOK, ObjectsTypeOK
        <4> QED
          BY <1>3, <2>1, <3>3, <4>1, SameDescription DEF Described, Describes
      <3> QED
        BY <1>9, <3>1, <3>2, <3>3
    <2> QED
      BY <1>2, <1>3, <2>2, <2>4, <2>5 DEF Reported
  <1> QED
    BY <1>5, <1>6, <1>7, <1>8, <1>9 DEF Worker, WorkerStep, ProcessBatch

LEMMA StepCatchesUp == ASSUME QuietStep, CatchUp PROVE CatchUp'
  <1> USE DEF QuietStep, KeptStep, Kept
  <1>1. ASSUME ~Provider, UNCHANGED <<batch, wPc, job, available, crPhase, queue,
                                     pod, deleting, handled, changed>>
        PROVE  CatchUp'
    <2>1. \A r \in Crs : cr'[r] = "live" => cr[r] = "live"
      <3>1. CASE Cleanup
        BY <3>1 DEF Cleanup, CleanupStep, CleanupList, CleanupResource, CleanupReturn,
                    TypeOK, ObjectsTypeOK, objVars, crVars
      <3> QED
        BY <1>1, <3>1, ResourcesStay
    <2> QED
      BY <1>1, <2>1, NoPodCatchesUp
  <1>2. CASE Provider
    BY <1>2, ProviderCatchesUp
  <1>3. CASE Handlers
    <2>1. ASSUME NEW r \in Crs, FieldStep(r) PROVE CatchUp'
      BY <1>1, <1>2, <2>1 DEF FieldStep, FieldIgnore, FieldList, FieldPatch,
                              objVars, crVars, podVars, workerVars
    <2>2. ASSUME NEW q \in Returns, ReturnStep(q) PROVE CatchUp'
      BY <1>1, <1>2, <2>2, ProcessPodDeleteCatchesUp
      DEF ReturnStep, ReturnCreate, TriggerUpdate, ReturnUpdate, ReturnLabels, ReturnStatus,
          objVars, crVars, podVars, workerVars
    <2>3. ASSUME PreemptionStep PROVE CatchUp'
      BY <1>1, <1>2, <2>3, ProcessPodDeleteCatchesUp
      DEF PreemptionStep, PreemptionHandler, PreemptionDone, objVars, crVars, podVars, workerVars
    <2> QED
      BY <1>3, <2>1, <2>2, <2>3, CreateCatchesUp, PodHandlersCatchUp DEF Handlers, HandlerStep
  <1>4. CASE Node \/ Cleanup \/ UNCHANGED vars
    BY <1>1, <1>2, <1>4 DEF Node, TaintNode, Cleanup, CleanupStep, CleanupList, CleanupResource,
        CleanupReturn, vars, objVars, crVars, podVars, workerVars
  <1>5. ~Process
    BY DEF Quiet, FirstInv, Process, Crash, Stop, StopReturns
  <1> QED
    BY <1>2, <1>3, <1>4, <1>5, ClusterCatchesUp, WorkerCatchesUp DEF Next

\* While nothing fails, the status of a resource is that of its pods, but for pods that
\* have yet to start, or a report is due that will make it so.
THEOREM StatusCatchesUp == Spec => []StatusCaughtUp
  <1>1. Init => CaughtUpInv
    BY DEF Init, ObjectsInit, CaughtUpInv, CaughtUp
  <1>2. KeptStep /\ NothingToCollect /\ LabelFirstInv /\ CaughtUpInv => CaughtUpInv'
    <2> SUFFICES ASSUME KeptStep, NothingToCollect, LabelFirstInv, CaughtUpInv, Quiet'
                 PROVE  CatchUp'
      BY DEF CaughtUpInv, CatchUp
    <2>1. QuietStep
      BY StepIsQuiet
    <2> QED
      BY <2>1, StepCatchesUp DEF CaughtUpInv, CatchUp, QuietStep
  <1>3. CaughtUpInv => StatusCaughtUp
    BY DEF CaughtUpInv, StatusCaughtUp
  <1> QED
    BY <1>1, <1>2, <1>3, StateIsKept, StepIsKept, NothingIsCollected, LabelsAreFirst, PTL DEF Spec
=============================================================================
