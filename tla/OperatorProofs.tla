---------------------------- MODULE OperatorProofs ----------------------------
(* The safety invariants of the operator: OperatorInv is inductive.        *)
EXTENDS OperatorTypeProofs

\* What only grows: pods that have left, the machines of a return, resources that
\* are finished, pods that were ever made.
Grows ==
    /\ left \subseteq left'
    /\ \A q \in Returns : ids[q] \subseteq ids'[q]
    /\ \A r \in Crs : Finished(r) => Finished(r)'
    /\ \A p \in Pods : pod[p] # "none" => pod'[p] # "none"

\* An entry that is right stays right.
LEMMA EntryStaysTrue ==
    ASSUME Grows, NEW p, NEW id, EntryTrue(p, id)
    PROVE  EntryTrue(p, id)'
  BY DEF Grows, EntryTrue

LEMMA SameGrows == ASSUME UNCHANGED <<left, ids, createPc, pod, deleting>> PROVE Grows
  <1>1. UNCHANGED Active
    BY DEF Active, Listed, Exists
  <1>2. \A r \in Crs : Finished(r) => Finished(r)'
    BY <1>1 DEF Finished, ActiveOf
  <1> QED
    BY <1>2 DEF Grows

LEMMA DeletingGrows ==
    ASSUME NEW S, StartDeleting(S), UNCHANGED <<ids, createPc, pod>>
    PROVE  Grows
  <1>1. Active' \subseteq Active
    BY DEF StartDeleting, Active, Listed, Exists
  <1>2. \A r \in Crs : Finished(r) => Finished(r)'
    BY <1>1 DEF Finished, ActiveOf
  <1> QED
    BY <1>2 DEF Grows, StartDeleting

-----------------------------------------------------------------------------
(* A step that leaves the variables of a conjunct alone keeps it. *)

LEMMA StillReturned == ASSUME ReturnedTrue, Grows, UNCHANGED returned PROVE ReturnedTrue'
  BY EntryStaysTrue DEF ReturnedTrue, Grows, EntryTrue

LEMMA StillPods == ASSUME PodsInv, UNCHANGED <<pod, deleting, handled, left>> PROVE PodsInv'
  BY DEF PodsInv, Listed, Exists

LEMMA StillLabels == ASSUME LabelsInv, Grows, UNCHANGED <<rid, todo, cur>> PROVE LabelsInv'
  BY DEF LabelsInv, Grows, EntryTrue, Deleters

LEMMA UpdatesStayTrue == ASSUME Grows PROVE TrueUpdates \subseteq TrueUpdates'
  BY DEF TrueUpdates, Grows, EntryTrue, UpdateEvent

LEMMA StillUpdates == ASSUME UpdatesInv, Grows, UNCHANGED <<queue, batch, wPc>> PROVE UpdatesInv'
  BY UpdatesStayTrue DEF UpdatesInv

LEMMA StillJob ==
    ASSUME TypeOK, JobInv, BatchKept, Grows, UNCHANGED <<wPc, job, batch, returned>>
    PROVE  JobInv'
  <1>1. UNCHANGED Group
    BY DEF Group, First
  <1>2. wPc \in {"list", "patch"} => Group \in Crs
    BY FirstOfBatch DEF TypeOK, BatchKept
  <1>3. \A r \in Crs : wPc \in {"list", "patch"} /\ job.completed /\ r = Group => Finished(r)'
    BY DEF Grows, JobInv
  <1>4. wPc \in {"list", "patch"} /\ job.completed => Finished(Group)'
    BY <1>1, <1>2, <1>3 DEF Finished, ActiveOf, PodsOf
  <1> QED
    BY <1>4 DEF JobInv, Grows, EntryTrue

LEMMA StillFinished ==
    ASSUME FinishedInv, Grows, completed \subseteq Crs,
           UNCHANGED <<completed, fieldPc, condemned, cr, createPc>>
    PROVE  FinishedInv'
  <1>1. CompletedTrue'
    BY DEF FinishedInv, CompletedTrue, Grows
  <1>2. /\ \A r \in Crs : fieldPc'[r] = "patch" => Finished(r)'
        /\ \A r \in condemned' \cap Crs : Finished(r)'
    BY DEF FinishedInv, Grows
  <1> QED
    BY <1>1, <1>2 DEF FinishedInv

LEMMA StillRuns ==
    ASSUME RunsInv, Grows, TypeOK, UNCHANGED <<retPc, ids, todo, cur, mrr, mrrPhase>>
    PROVE  RunsInv'
  BY DEF RunsInv, Grows, TypeOK, ObjectsTypeOK

-----------------------------------------------------------------------------
(* The cluster, HostFactory's calls and the cleanup. *)

LEMMA ClusterKeeps ==
    ASSUME TypeOK, BatchKept, OperatorInv, Cluster
    PROVE  OperatorInv' /\ Grows
  <1> USE DEF OperatorInv, Cluster
  <1>1. UNCHANGED <<returned, rid, todo, cur, queue, batch, wPc, job, completed, fieldPc,
                    condemned, cr, createPc, retPc, ids, mrr, mrrPhase>>
    BY DEF ClusterStep, PodReady, PodFails, EvictPod, PodGone, CollectGarbage,
           crVars, mrrVars, workerVars, handlerVars, returnVars
  <1>2. ASSUME NEW p \in Pods, PodReady(p) \/ PodFails(p) PROVE Grows /\ PodsInv'
    <2>1. UNCHANGED <<left, ids, createPc, deleting, handled>> /\ p \in Active
          /\ \E phase \in {"Running", "Failed"} : pod' = [pod EXCEPT ![p] = phase]
      BY <1>1, <1>2 DEF PodReady, PodFails
    <2>2. Active' = Active
      BY <2>1 DEF Active, Listed, Exists, TypeOK, ObjectsTypeOK
    <2>3. \A r \in Crs : Finished(r) => Finished(r)'
      BY <2>1, <2>2 DEF Finished, ActiveOf
    <2> QED
      BY <2>1, <2>3 DEF Grows, PodsInv, TypeOK, ObjectsTypeOK, Listed, Exists
  <1>3. ASSUME NEW S \in SUBSET Active, StartDeleting(S), UNCHANGED <<pod, handled>>
        PROVE  Grows /\ PodsInv'
    <2>1. Grows
      BY <1>1, <1>3, DeletingGrows
    <2> QED
      BY <1>3, <2>1 DEF PodsInv, StartDeleting, Active, Listed, Exists
  <1>4. ASSUME NEW p \in Pods, PodGone(p) PROVE Grows /\ PodsInv'
    <2>1. Active' \subseteq Active
      BY <1>4 DEF PodGone, Active, Listed, Exists, TypeOK, ObjectsTypeOK
    <2>2. \A r \in Crs : Finished(r) => Finished(r)'
      BY <1>1, <2>1 DEF Finished, ActiveOf
    <2> QED
      BY <1>1, <1>4, <2>2 DEF PodGone, Grows, PodsInv, TypeOK, ObjectsTypeOK, Listed, Exists
  <1>5. Grows /\ PodsInv'
    <2>1. ASSUME NEW p \in Pods, EvictPod(p) PROVE Grows /\ PodsInv'
      BY <1>3, <2>1 DEF EvictPod
    <2>2. ASSUME NEW r \in Crs, CollectGarbage(r) PROVE Grows /\ PodsInv'
      BY <1>3, <2>2 DEF CollectGarbage, ActiveOf
    <2> QED
      BY <1>2, <1>4, <2>1, <2>2 DEF ClusterStep
  <1> QED
    BY <1>1, <1>5, StillReturned, StillLabels, StillUpdates, StillJob, StillFinished, StillRuns
    DEF TypeOK, ObjectsTypeOK

LEMMA ProviderKeeps ==
    ASSUME TypeOK, BatchKept, OperatorInv, Provider
    PROVE  OperatorInv' /\ Grows
  <1> USE DEF OperatorInv
  <1>1. UNCHANGED <<returned, rid, todo, cur, queue, batch, wPc, job, completed, fieldPc,
                    condemned, pod, deleting, handled, left, mrrPhase>>
    BY DEF Provider, ProviderStep, RequestMachines, CreateResource,
        RequestReturnMachines, CreateReturn,
           crVars, podVars, mrrVars, workerVars, handlerVars, returnVars
  <1>2. ASSUME NEW r \in Crs, RequestMachines(r) PROVE OperatorInv' /\ Grows
    <2>1. UNCHANGED <<ids, mrr, retPc>> /\ createPc[r] = "none" /\ cr[r] = "none"
          /\ cr' = [cr EXCEPT ![r] = "live"] /\ createPc' = [createPc EXCEPT ![r] = "due"]
      BY <1>2 DEF RequestMachines, CreateResource, mrrVars, returnVars, FinishedInv
    <2>2. \A s \in Crs : Finished(s) => Finished(s)'
      BY <1>1, <2>1 DEF Finished, ActiveOf, Active, Listed, Exists, TypeOK, HandlerTypeOK
    <2>3. Grows
      BY <1>1, <2>1, <2>2 DEF Grows
    <2>4. FinishedInv'
      <3>1. CompletedTrue'
        BY <1>1, <2>2 DEF FinishedInv, CompletedTrue, TypeOK, ObjectsTypeOK
      <3>2. /\ \A s \in Crs : fieldPc'[s] = "patch" => Finished(s)'
            /\ \A s \in condemned' \cap Crs : Finished(s)'
        BY <1>1, <2>2 DEF FinishedInv
      <3> QED
        BY <2>1, <3>1, <3>2 DEF FinishedInv, TypeOK, ObjectsTypeOK, HandlerTypeOK
    <2> QED
      BY <1>1, <2>1, <2>3, <2>4, StillReturned, StillPods, StillLabels, StillUpdates, StillJob,
         StillRuns
  <1>3. ASSUME NEW q \in Returns, RequestReturnMachines(q) PROVE OperatorInv' /\ Grows
    <2>1. PICK S \in SUBSET Shown : ids' = [ids EXCEPT ![q] = S]
      BY <1>3 DEF RequestReturnMachines, CreateReturn
    <2>2. /\ mrr[q] = "none" /\ UNCHANGED <<cr, createPc>>
          /\ mrr' = [mrr EXCEPT ![q] = "live"]
          /\ retPc' = [retPc EXCEPT ![q] = "create"]
      BY <1>3 DEF RequestReturnMachines, CreateReturn, crVars, handlerVars
    <2>3. \A s \in Crs : Finished(s) => Finished(s)'
      BY <1>1, <2>2 DEF Finished, ActiveOf, Active, Listed, Exists
    <2>4. Grows
      BY <1>1, <2>1, <2>2, <2>3 DEF Grows, RunsInv, TypeOK, ObjectsTypeOK
    <2>5. RunsInv'
      <3>1. \A s \in Returns : \A p \in ids'[s] : pod'[p] # "none"
        BY <1>1, <2>1 DEF RunsInv, Shown, TypeOK, ObjectsTypeOK
      <3>2. \A s \in Returns : s # q => ids'[s] = ids[s] /\ mrr'[s] = mrr[s]
        BY <2>1, <2>2 DEF TypeOK, ObjectsTypeOK
      <3>3. /\ \A d \in Deleters : d # q => retPc'[d] = retPc[d]
            /\ retPc'[q] = "create" /\ mrr'[q] = "live" /\ retPc[q] = "none"
            /\ mrrPhase[q] = "none"
        BY <2>2 DEF TypeOK, ObjectsTypeOK, ReturnTypeOK, RunsInv, Deleters
      <3> QED
        BY <1>1, <3>1, <3>2, <3>3 DEF RunsInv, Deleters
    <2> QED
      BY <1>1, <2>2, <2>4, <2>5, StillReturned, StillPods, StillLabels, StillUpdates, StillJob,
         StillFinished DEF TypeOK, ObjectsTypeOK
  <1> QED
    BY <1>2, <1>3 DEF Provider, ProviderStep

LEMMA CleanupKeeps ==
    ASSUME TypeOK, BatchKept, OperatorInv, Cleanup
    PROVE  OperatorInv' /\ Grows
  <1> USE DEF OperatorInv
  <1>1. UNCHANGED <<returned, rid, todo, cur, queue, batch, wPc, job, fieldPc, createPc, retPc,
                    ids, mrrPhase, pod, deleting, handled, left>>
    BY DEF Cleanup, CleanupStep, CleanupList, CleanupResource, CleanupReturn,
           objVars, crVars, podVars, mrrVars, workerVars, handlerVars, returnVars
  <1>2. Grows
    BY <1>1, SameGrows
  <1>3. \A r \in Crs : Finished(r) => Finished(r)'
    BY <1>2 DEF Grows
  <1>4. FinishedInv'
    <2>1. CASE CleanupList
      <3>1. UNCHANGED <<cr, completed>> /\ \A r \in condemned' \cap Crs : r \in completed
        BY <2>1, ObjectsAssumption
        DEF CleanupList, CleanupCrs, CleanupReturns, objVars, crVars
      <3>2. CompletedTrue'
        BY <1>3, <3>1 DEF FinishedInv, CompletedTrue, TypeOK, ObjectsTypeOK
      <3> QED
        BY <1>1, <1>3, <3>1, <3>2 DEF FinishedInv, CompletedTrue
    <2>2. ASSUME NEW r \in Crs, CleanupResource(r) PROVE FinishedInv'
      <3>1. /\ condemned' \subseteq condemned /\ completed' \subseteq completed
            /\ r \in condemned
            /\ cr' = cr \/ cr' = [cr EXCEPT ![r] = "gone"]
        BY <2>2 DEF CleanupResource
      <3>2. CompletedTrue'
        BY <1>3, <3>1 DEF FinishedInv, CompletedTrue, TypeOK, ObjectsTypeOK
      <3>3. createPc[r] = "done"
        BY <3>1 DEF FinishedInv, Finished
      <3> QED
        BY <1>1, <1>3, <3>1, <3>2, <3>3 DEF FinishedInv, TypeOK, ObjectsTypeOK
    <2>3. ASSUME NEW q \in Returns, CleanupReturn(q) PROVE FinishedInv'
      <3>1. condemned' \subseteq condemned /\ UNCHANGED <<completed, cr>>
        BY <2>3 DEF CleanupReturn, crVars
      <3>2. CompletedTrue'
        BY <1>3, <3>1 DEF FinishedInv, CompletedTrue, TypeOK, ObjectsTypeOK
      <3> QED
        BY <1>1, <1>3, <3>1, <3>2 DEF FinishedInv
    <2> QED
      BY <2>1, <2>2, <2>3 DEF Cleanup, CleanupStep
  <1>5. \A q \in Returns : mrr'[q] = "none" => mrr[q] = "none"
    BY DEF Cleanup, CleanupStep, CleanupList, CleanupResource, CleanupReturn, objVars, mrrVars,
           TypeOK, ObjectsTypeOK
  <1>6. RunsInv'
    BY <1>1, <1>5 DEF RunsInv
  <1> QED
    BY <1>1, <1>2, <1>4, <1>6, StillReturned, StillPods, StillLabels, StillUpdates, StillJob

-----------------------------------------------------------------------------
(* The status worker. *)

LEMMA NextGroupKeeps ==
    ASSUME TypeOK, UpdatesInv, Grows, UNCHANGED queue, NextGroup
    PROVE  UpdatesInv' /\ JobInv'
  <1>1. \A i \in DOMAIN batch' : batch'[i] = batch[i] /\ i \in DOMAIN batch
    BY DEF NextGroup
  <1>2. wPc' = "get" => DOMAIN batch' # {}
    BY DEF NextGroup
  <1>3. wPc' \in {"get", "collect"}
    BY DEF NextGroup
  <1>4. /\ \A i \in DOMAIN queue' : queue'[i] \in TrueUpdates'
        /\ \A i \in DOMAIN batch' : batch'[i] \in TrueUpdates'
    BY <1>1, UpdatesStayTrue DEF UpdatesInv
  <1> QED
    BY <1>2, <1>3, <1>4 DEF UpdatesInv, JobInv

\* What joins the queue: status checks, ...
LEMMA StatusCheckAdds ==
    ASSUME TypeOK, StatusCheck
    PROVE  \A i \in DOMAIN queue' :
              \/ \E j \in DOMAIN queue : queue'[i] = queue[j]
              \/ queue'[i] \in UpdateEvent /\ queue'[i].type = "status_check"
  <1>1. CASE UNCHANGED queue
    BY <1>1
  <1>2. ASSUME NEW s \in SetToSeqs(Active),
               queue' = queue \o
                  [i \in DOMAIN s |-> [pod |-> s[i], type |-> "status_check", id |-> NoId]]
        PROVE  \A i \in DOMAIN queue' :
                  \/ \E j \in DOMAIN queue : queue'[i] = queue[j]
                  \/ queue'[i] \in UpdateEvent /\ queue'[i].type = "status_check"
    <2> DEFINE checks ==
            [i \in DOMAIN s |-> [pod |-> s[i], type |-> "status_check", id |-> NoId]]
    <2>1. Cardinality(Active) \in Nat
      <3>1. IsFiniteSet(Active)
        BY ObjectsAssumption, FS_Subset DEF Active, Listed
      <3> QED
        BY <3>1, FS_CardinalityType
    <2>2. DOMAIN s = 1..Cardinality(Active) /\ \A i \in DOMAIN s : s[i] \in Pods
      BY DEF SetToSeqs, Active, Listed
    <2>3. \A i \in DOMAIN s : checks[i] \in UpdateEvent
      BY <2>2 DEF UpdateEvent
    <2>4. checks \in Seq(UpdateEvent) /\ Len(checks) = Cardinality(Active)
      BY <2>1, <2>2, <2>3
    <2>5. queue \in Seq(UpdateEvent) /\ Len(queue) \in Nat /\ DOMAIN queue = 1..Len(queue)
      BY LenProperties DEF TypeOK, WorkerTypeOK
    <2>6. \A i \in DOMAIN checks : checks[i] \in UpdateEvent /\ checks[i].type = "status_check"
      BY <2>3
    <2> HIDE DEF checks
    <2>7. queue' = queue \o checks
      BY <1>2 DEF checks
    <2>8. /\ Len(queue') = Len(queue) + Len(checks) /\ DOMAIN queue' = 1..Len(queue')
          /\ \A i \in 1..Len(queue') :
                queue'[i] = IF i <= Len(queue) THEN queue[i] ELSE checks[i - Len(queue)]
      <3>1. queue' \in Seq(UpdateEvent) /\ Len(queue') = Len(queue) + Len(checks)
        BY <2>4, <2>5, <2>7, ConcatProperties
      <3>2. \A i \in 1..Len(queue) + Len(checks) :
                queue'[i] = IF i <= Len(queue) THEN queue[i] ELSE checks[i - Len(queue)]
        BY <2>4, <2>5, <2>7, ConcatProperties
      <3> QED
        BY <3>1, <3>2, LenProperties
    <2>9. DOMAIN checks = 1..Len(checks) /\ Len(checks) \in Nat
      BY <2>4, LenProperties
    <2>10. \A i \in DOMAIN queue' :
              \/ i \in DOMAIN queue /\ queue'[i] = queue[i]
              \/ i - Len(queue) \in DOMAIN checks /\ queue'[i] = checks[i - Len(queue)]
      BY <2>5, <2>8, <2>9
    <2> QED
      BY <2>6, <2>10
  <1> QED
    BY <1>1, <1>2 DEF StatusCheck

LEMMA StatusCheckKeeps ==
    ASSUME TypeOK, UpdatesInv, Grows, StatusCheck
    PROVE  UpdatesInv' /\ JobInv'
  <1>1. \A i \in DOMAIN queue' : queue'[i] \in TrueUpdates
    BY StatusCheckAdds DEF UpdatesInv, TrueUpdates
  <1> QED
    BY <1>1, UpdatesStayTrue DEF StatusCheck, UpdatesInv, JobInv

\* A part of a sequence, with the positions that it has in the whole.
LEMMA SubSeqOf ==
    ASSUME NEW S, NEW s \in Seq(S), NEW a \in 1..Len(s) + 1, NEW b \in 0..Len(s), a <= b + 1
    PROVE  /\ DOMAIN SubSeq(s, a, b) = 1..(b - a + 1)
           /\ \A i \in 1..(b - a + 1) : SubSeq(s, a, b)[i] = s[a + i - 1]
  <1>1. Len(s) \in Nat
    BY LenProperties
  <1>2. a \in Int /\ b \in Int /\ b - a + 1 \in Nat
    BY <1>1
  <1>3. \A i \in a .. b : i \in 1..Len(s)
    BY <1>1
  <1>4. \A i \in a .. b : s[i] \in S
    BY <1>3, ElementOfSeq
  <1> DEFINE t == SubSeq(s, a, b)
  <1>5. /\ t \in Seq(S)
        /\ Len(t) = IF a <= b THEN b - a + 1 ELSE 0
        /\ \A i \in 1 .. b - a + 1 : t[i] = s[a + i - 1]
    BY <1>2, <1>4, SubSeqProperties
  <1> HIDE DEF t
  <1>6. Len(t) = b - a + 1
    BY <1>2, <1>5
  <1>7. DOMAIN t = 1..(b - a + 1)
    BY <1>5, <1>6, LenProperties
  <1> QED
    BY <1>5, <1>7 DEF t

\* The first k elements of a sequence, and the others.
LEMMA SplitOf ==
    ASSUME NEW S, NEW s \in Seq(S), NEW k \in 0..Len(s)
    PROVE  /\ DOMAIN SubSeq(s, 1, k) = 1..k
           /\ \A i \in 1..k : SubSeq(s, 1, k)[i] = s[i]
           /\ DOMAIN SubSeq(s, k + 1, Len(s)) = 1..(Len(s) - k)
           /\ \A i \in 1..(Len(s) - k) : SubSeq(s, k + 1, Len(s))[i] = s[k + i]
  <1>1. Len(s) \in Nat
    BY LenProperties
  <1>2. 1 \in 1..Len(s) + 1 /\ k + 1 \in 1..Len(s) + 1 /\ Len(s) \in 0..Len(s)
    BY <1>1
  <1>3. /\ DOMAIN SubSeq(s, 1, k) = 1..(k - 1 + 1)
        /\ \A i \in 1..(k - 1 + 1) : SubSeq(s, 1, k)[i] = s[1 + i - 1]
    BY <1>1, <1>2, SubSeqOf
  <1>4. /\ DOMAIN SubSeq(s, k + 1, Len(s)) = 1..(Len(s) - (k + 1) + 1)
        /\ \A i \in 1..(Len(s) - (k + 1) + 1) :
                SubSeq(s, k + 1, Len(s))[i] = s[(k + 1) + i - 1]
    BY <1>1, <1>2, SubSeqOf
  <1>5. k - 1 + 1 = k /\ Len(s) - (k + 1) + 1 = Len(s) - k
    BY <1>1
  <1>6. /\ \A i \in 1..k : 1 + i - 1 = i
        /\ \A i \in 1..(Len(s) - k) : (k + 1) + i - 1 = k + i
    BY <1>1
  <1>7. /\ DOMAIN SubSeq(s, 1, k) = 1..k
        /\ \A i \in 1..k : SubSeq(s, 1, k)[i] = s[i]
    BY <1>3, <1>5, <1>6, Zenon
  <1>8. /\ DOMAIN SubSeq(s, k + 1, Len(s)) = 1..(Len(s) - k)
        /\ \A i \in 1..(Len(s) - k) : SubSeq(s, k + 1, Len(s))[i] = s[k + i]
    BY <1>4, <1>5, <1>6, Zenon
  <1> QED
    BY <1>7, <1>8

\* A batch is the front of the queue.
LEMMA CollectBatchTakes ==
    ASSUME TypeOK, CollectBatch
    PROVE  /\ \A i \in DOMAIN batch' : \E j \in DOMAIN queue : batch'[i] = queue[j]
           /\ \A i \in DOMAIN queue' : \E j \in DOMAIN queue : queue'[i] = queue[j]
  <1> DEFINE n == IF BatchSize < Len(queue) THEN BatchSize ELSE Len(queue)
  <1>1. n \in Nat /\ n <= Len(queue) /\ Len(queue) \in Nat /\ DOMAIN queue = 1..Len(queue)
    BY LenProperties, WorkerAssumption DEF TypeOK, WorkerTypeOK
  <1>2. queue' = SubSeq(queue, n + 1, Len(queue)) /\ batch' = SubSeq(queue, 1, n)
    BY DEF CollectBatch
  <1>3. queue \in Seq(UpdateEvent)
    BY DEF TypeOK, WorkerTypeOK
  <1> HIDE DEF n
  <1>4. /\ DOMAIN batch' = 1..n
        /\ \A i \in 1..n : batch'[i] = queue[i]
        /\ DOMAIN queue' = 1..(Len(queue) - n)
        /\ \A i \in 1..(Len(queue) - n) : queue'[i] = queue[n + i]
    <2>1. n \in 0..Len(queue)
      BY <1>1
    <2> QED
      BY <1>2, <1>3, <2>1, SplitOf, Zenon
  <1>5. /\ \A i \in DOMAIN batch' : i \in DOMAIN queue /\ batch'[i] = queue[i]
        /\ \A i \in DOMAIN queue' : n + i \in DOMAIN queue /\ queue'[i] = queue[n + i]
    BY <1>1, <1>4
  <1> QED
    BY <1>5

LEMMA CollectBatchKeeps ==
    ASSUME TypeOK, UpdatesInv, BatchKept', Grows, CollectBatch
    PROVE  UpdatesInv' /\ JobInv'
  <1>1. /\ \A i \in DOMAIN batch' : batch'[i] \in TrueUpdates'
        /\ \A i \in DOMAIN queue' : queue'[i] \in TrueUpdates'
    BY CollectBatchTakes, UpdatesStayTrue DEF UpdatesInv
  <1> QED
    BY <1>1 DEF CollectBatch, UpdatesInv, JobInv, BatchKept

\* The copy of the status that the worker merges its updates into.
LEMMA GetResourceKeeps ==
    ASSUME TypeOK, BatchKept, OperatorInv, Grows, GetResource, UNCHANGED createPc
    PROVE  UpdatesInv' /\ JobInv'
  <1> USE DEF OperatorInv
  <1>1. CASE NextGroup
    BY <1>1, NextGroupKeeps DEF GetResource
  <1>2. CASE /\ job' = [NoJob EXCEPT !.returned = ApplyMachineUpdates,
                                     !.completed = Group \in completed]
             /\ wPc' = "list" /\ UNCHANGED batch
    <2>1. /\ job'.returned = ApplyMachineUpdates
          /\ job'.completed = (Group \in completed)
      BY <1>2 DEF NoJob
    <2>2. UNCHANGED <<queue, returned, left, ids, pod, deleting, createPc, Group>>
      BY <1>2 DEF GetResource, crVars, podVars, mrrVars, Group, First
    <2>3. \A p \in Pods : returned[p] # NoId => ApplyMachineUpdates[p] = returned[p]
      BY DEF ApplyMachineUpdates
    <2>4. ASSUME NEW p \in Pods, ApplyMachineUpdates[p] # NoId
          PROVE  p \in left /\ EntryTrue(p, ApplyMachineUpdates[p])
      <3>1. CASE ApplyMachineUpdates[p] = returned[p]
        BY <2>4, <3>1 DEF ReturnedTrue
      <3>2. CASE ApplyMachineUpdates[p] # returned[p]
        <4>1. /\ Positions(p) # {} /\ KeptUpdate(p).type = "PodReturned"
              /\ ApplyMachineUpdates[p] = KeptUpdate(p).id
          BY <3>2 DEF ApplyMachineUpdates
        <4>2. KeptUpdate(p) \in TrueUpdates /\ KeptUpdate(p).pod = p
          BY <4>1, KeptUpdateOf DEF UpdatesInv, KeptUpdate, TypeOK
        <4> QED
          BY <4>1, <4>2 DEF TrueUpdates
      <3> QED
        BY <3>1, <3>2
    <2>5. Group \in completed => Finished(Group)
      BY DEF FinishedInv, CompletedTrue
    <2>6. job'.completed => Finished(Group)'
      BY <2>1, <2>2, <2>5 DEF Finished, ActiveOf, Active, Listed, Exists
    <2>7. JobInv'
      BY <2>1, <2>2, <2>3, <2>4, <2>6 DEF JobInv, EntryTrue
    <2> QED
      BY <1>2, <2>2, <2>7, UpdatesStayTrue DEF UpdatesInv, BatchKept, GetResource
  <1> QED
    BY <1>1, <1>2 DEF GetResource

LEMMA ListPodsKeeps ==
    ASSUME TypeOK, BatchKept, OperatorInv, Grows, ListPods, UNCHANGED createPc
    PROVE  UpdatesInv' /\ JobInv'
  <1> USE DEF OperatorInv
  <1>1. UNCHANGED <<queue, batch, returned, left, ids, pod, deleting, createPc, Group>>
        /\ wPc = "list" /\ wPc' = "patch"
    BY DEF ListPods, crVars, podVars, mrrVars, Group, First
  <1>2. job'.returned = job.returned /\ job'.completed = job.completed
    BY DEF ListPods, TypeOK, WorkerTypeOK, Job
  <1>3. job'.completed => Finished(Group)'
    BY <1>1, <1>2 DEF JobInv, Finished, ActiveOf, Active, Listed, Exists
  <1>4. JobInv'
    BY <1>1, <1>2, <1>3 DEF JobInv, EntryTrue
  <1> QED
    BY <1>1, <1>4, UpdatesStayTrue DEF UpdatesInv

\* What the worker writes is no worse than what it read.
LEMMA PatchStatusKeeps ==
    ASSUME TypeOK, BatchKept, OperatorInv, Grows, PatchStatus
    PROVE  /\ ReturnedTrue' /\ UpdatesInv' /\ JobInv'
           /\ \A s \in completed' : Finished(s)
  <1> USE DEF OperatorInv
  <1>1. UNCHANGED <<queue, left, ids>>
    BY DEF PatchStatus, podVars, mrrVars
  <1>2. UpdatesInv' /\ JobInv'
    <2>1. CASE NextGroup
      BY <1>1, <2>1, NextGroupKeeps
    <2>2. CASE wPc' = "label" /\ UNCHANGED <<batch, job>>
      BY <1>1, <2>2, UpdatesStayTrue DEF UpdatesInv, JobInv, BatchKept, PatchStatus
    <2> QED
      BY <2>1, <2>2 DEF PatchStatus
  <1>3. \A p \in Pods : returned'[p] \in {returned[p], job.returned[p]}
    BY DEF PatchStatus, TypeOK, ObjectsTypeOK
  <1>4. ReturnedTrue'
    BY <1>1, <1>3 DEF PatchStatus, ReturnedTrue, JobInv, EntryTrue
  <1>5. \A s \in completed' : s \in completed \/ (job.completed /\ s = Group)
    BY DEF PatchStatus
  <1>6. \A s \in completed' : Finished(s)
    BY <1>5 DEF PatchStatus, JobInv, FinishedInv, CompletedTrue
  <1> QED
    BY <1>2, <1>4, <1>6

LEMMA WorkerKeeps ==
    ASSUME TypeOK, BatchKept, BatchKept', TypeOK', OperatorInv, Worker
    PROVE  OperatorInv' /\ Grows
  <1> USE DEF OperatorInv
  <1>1. UNCHANGED <<rid, todo, cur, fieldPc, condemned, cr, createPc, retPc, ids, mrr, mrrPhase,
                    pod, deleting, handled, left>>
    BY DEF Worker, WorkerStep, StatusCheck, CollectBatch, ProcessBatch, GetResource, ListPods,
           PatchStatus, PatchCleanupLabel,
           objVars, crVars, podVars, mrrVars, handlerVars, returnVars
  <1>2. Grows
    BY <1>1, SameGrows
  <1>3. CASE ~PatchStatus
    <2>1. UNCHANGED <<returned, completed>>
      BY <1>3 DEF Worker, WorkerStep, StatusCheck, CollectBatch, ProcessBatch, GetResource,
                  ListPods, PatchCleanupLabel, objVars, crVars
    <2>2. ASSUME wPc' = "get", UNCHANGED <<queue, batch>> PROVE UpdatesInv' /\ JobInv'
      BY <1>1, <1>2, <2>1, <2>2, UpdatesStayTrue DEF UpdatesInv, JobInv, BatchKept
    <2>3. UpdatesInv' /\ JobInv'
      BY <1>1, <1>2, <1>3, <2>2, StatusCheckKeeps, CollectBatchKeeps, GetResourceKeeps,
         ListPodsKeeps, NextGroupKeeps
      DEF Worker, WorkerStep, ProcessBatch, PatchCleanupLabel
    <2> QED
      BY <1>1, <1>2, <2>1, <2>3, StillReturned, StillPods, StillLabels, StillFinished, StillRuns
      DEF TypeOK, ObjectsTypeOK
  <1>4. CASE PatchStatus
    <2>1. CompletedTrue'
      BY <1>2, <1>4, PatchStatusKeeps DEF CompletedTrue, Grows, TypeOK, ObjectsTypeOK
    <2>2. FinishedInv'
      BY <1>1, <1>2, <2>1 DEF FinishedInv, Grows
    <2> QED
      BY <1>1, <1>2, <1>4, <2>2, PatchStatusKeeps, StillPods, StillLabels, StillRuns
  <1> QED
    BY <1>3, <1>4

-----------------------------------------------------------------------------
(* The handlers of resources and pods. *)

LEMMA CreateKeeps ==
    ASSUME TypeOK, BatchKept, OperatorInv, NEW r \in Crs, CreateStep(r),
           UNCHANGED <<returnVars, condemned>>
    PROVE  OperatorInv' /\ Grows
  <1> USE DEF OperatorInv
  <1>1. UNCHANGED <<returned, todo, cur, queue, batch, wPc, job, fieldPc, condemned, retPc,
                    ids, mrr, mrrPhase, completed, cr, deleting, handled, left>>
    BY DEF CreateStep, CreateStart, CreatePod, CreateRaises, CreateDone,
           objVars, crVars, podVars, mrrVars, workerVars, returnVars
  <1>2. /\ createPc[r] # "done"
        /\ \E pc \in {"due", "running", "done"} : createPc' = [createPc EXCEPT ![r] = pc]
        /\ cr[r] # "none" /\ cr[r] # "gone"
    BY DEF CreateStep, CreateStart, CreatePod, CreateRaises, CreateDone, FinishedInv,
           TypeOK, HandlerTypeOK
  <1>3. CASE UNCHANGED <<pod, rid>>
    <2>1. UNCHANGED Active
      BY <1>1, <1>3 DEF Active, Listed, Exists
    <2>2. \A s \in Crs : Finished(s) => Finished(s)'
      BY <1>2, <2>1 DEF Finished, ActiveOf, TypeOK, HandlerTypeOK
    <2>3. Grows
      BY <1>1, <1>3, <2>2 DEF Grows
    <2>4. CompletedTrue'
      BY <1>1, <2>2 DEF FinishedInv, CompletedTrue, TypeOK, ObjectsTypeOK
    <2>5. FinishedInv'
      BY <1>1, <1>2, <2>2, <2>4 DEF FinishedInv, TypeOK, HandlerTypeOK
    <2> QED
      BY <1>1, <1>3, <2>3, <2>5, StillReturned, StillPods, StillLabels, StillUpdates, StillJob,
         StillRuns
  <1>4. ASSUME NEW p \in Pods, CreatePod(r, p), p \in PodsOf(r),
               pod' = [pod EXCEPT ![p] = "Pending"], rid' = [rid EXCEPT ![p] = NoId]
        PROVE  OperatorInv' /\ Grows
    <2>1. createPc' = createPc /\ pod'[p] = "Pending" /\ Owner[p] = r
          /\ \A s \in Pods : s # p => pod'[s] = pod[s] /\ rid'[s] = rid[s]
      BY <1>4 DEF CreatePod, PodsOf, TypeOK, ObjectsTypeOK
    <2>2. \A s \in Crs : Finished(s) => Finished(s)'
      BY <1>1, <1>2, <2>1 DEF Finished, ActiveOf, PodsOf, Active, Listed, Exists
    <2>3. Grows
      BY <1>1, <2>1, <2>2 DEF Grows
    <2>4. PodsInv'
      BY <1>1, <2>1 DEF PodsInv, TypeOK, ObjectsTypeOK, Listed, Exists
    <2>5. rid'[p] = NoId
      BY <1>4 DEF TypeOK, ObjectsTypeOK
    <2>6. LabelsInv'
      BY <1>1, <2>1, <2>5 DEF LabelsInv, EntryTrue
    <2>7. CompletedTrue'
      BY <1>1, <2>2 DEF FinishedInv, CompletedTrue, TypeOK, ObjectsTypeOK
    <2>8. FinishedInv'
      BY <1>1, <2>1, <2>2, <2>7 DEF FinishedInv
    <2> QED
      BY <1>1, <2>3, <2>4, <2>6, <2>8, StillReturned, StillUpdates, StillJob, StillRuns
  <1>5. ASSUME NEW p \in Pods, CreatePod(r, p), ~UNCHANGED <<pod, rid>>
        PROVE  /\ pod' = [pod EXCEPT ![p] = "Pending"] /\ rid' = [rid EXCEPT ![p] = NoId]
               /\ p \in PodsOf(r)
    BY <1>5 DEF CreatePod, TypeOK, HandlerTypeOK
  <1> QED
    BY <1>3, <1>4, <1>5 DEF CreateStep, CreateStart, CreateRaises, CreateDone, objVars, podVars

LEMMA FieldKeeps ==
    ASSUME TypeOK, BatchKept, OperatorInv, NEW r \in Crs, FieldStep(r),
           UNCHANGED <<returnVars, condemned>>
    PROVE  OperatorInv' /\ Grows
  <1> USE DEF OperatorInv
  <1>1. UNCHANGED <<returned, rid, todo, cur, queue, batch, wPc, job, condemned, retPc,
                    ids, mrr, mrrPhase, cr, createPc, pod, deleting, handled, left>>
    BY DEF FieldStep, FieldIgnore, FieldList, FieldPatch,
           objVars, crVars, podVars, mrrVars, workerVars, returnVars
  <1>2. Grows
    BY <1>1, SameGrows
  <1>3. /\ \A s \in completed' : s \in completed \/ (s = r /\ Finished(r))
        /\ \A s \in Crs : fieldPc'[s] = "patch" => fieldPc[s] = "patch" \/ Finished(s)
    <2>1. CASE FieldIgnore(r)
      BY <2>1 DEF FieldIgnore, objVars, crVars
    <2>2. CASE FieldList(r)
      BY <2>2 DEF FieldList, FieldChanged, Finished, crVars, TypeOK, HandlerTypeOK
    <2>3. CASE FieldPatch(r)
      BY <2>3 DEF FieldPatch, FinishedInv, TypeOK, HandlerTypeOK
    <2> QED
      BY <2>1, <2>2, <2>3 DEF FieldStep
  <1>4. CompletedTrue'
    BY <1>2, <1>3 DEF FinishedInv, CompletedTrue, Grows, TypeOK, ObjectsTypeOK
  <1>5. FinishedInv'
    BY <1>1, <1>2, <1>3, <1>4 DEF FinishedInv, Grows
  <1> QED
    BY <1>1, <1>2, <1>5, StillReturned, StillPods, StillLabels, StillUpdates, StillJob, StillRuns

\* ... and what the handlers report.
LEMMA EnqueueAdds ==
    ASSUME TypeOK, NEW p, NEW type, NEW id, Enqueue(p, type, id),
           [pod |-> p, type |-> type, id |-> id] \in UpdateEvent
    PROVE  \A i \in DOMAIN queue' :
              \/ \E j \in DOMAIN queue : queue'[i] = queue[j]
              \/ queue'[i] = [pod |-> p, type |-> type, id |-> id]
  <1> DEFINE e == [pod |-> p, type |-> type, id |-> id]
  <1>1. queue \in Seq(UpdateEvent) /\ e \in UpdateEvent /\ queue' = Append(queue, e)
    BY DEF TypeOK, WorkerTypeOK, Enqueue
  <1> HIDE DEF e
  <1>2. /\ queue' \in Seq(UpdateEvent) /\ Len(queue') = Len(queue) + 1
        /\ \A i \in 1..Len(queue) : queue'[i] = queue[i]
        /\ queue'[Len(queue) + 1] = e
    BY <1>1, AppendProperties
  <1>3. DOMAIN queue = 1..Len(queue) /\ DOMAIN queue' = 1..Len(queue') /\ Len(queue) \in Nat
    BY <1>1, <1>2, LenProperties
  <1>4. \A i \in DOMAIN queue' : queue'[i] = e \/ (i \in DOMAIN queue /\ queue'[i] = queue[i])
    BY <1>2, <1>3
  <1> QED
    BY <1>4 DEF e

LEMMA EnqueueKeeps ==
    ASSUME TypeOK, UpdatesInv, Grows, UNCHANGED <<batch, wPc>>,
           NEW p \in Pods, NEW type, NEW id, Enqueue(p, type, id),
           [pod |-> p, type |-> type, id |-> id] \in TrueUpdates
    PROVE  UpdatesInv'
  <1>1. [pod |-> p, type |-> type, id |-> id] \in UpdateEvent
    BY DEF TrueUpdates
  <1>2. \A i \in DOMAIN queue' : queue'[i] \in TrueUpdates
    BY <1>1, EnqueueAdds DEF UpdatesInv
  <1> QED
    BY <1>2, UpdatesStayTrue DEF UpdatesInv

LEMMA PodKeeps ==
    ASSUME TypeOK, BatchKept, OperatorInv, NEW p \in Pods, PodStep(p),
           UNCHANGED <<returnVars, condemned>>
    PROVE  OperatorInv' /\ Grows
  <1> USE DEF OperatorInv
  <1>1. UNCHANGED <<returned, rid, todo, cur, batch, wPc, job, fieldPc, condemned, retPc,
                    ids, mrr, mrrPhase, completed, cr, createPc, pod, deleting, left>>
    BY DEF PodStep, ContainerStatusHandler, PodDeleteHandler,
           crVars, mrrVars, handlerVars, returnVars
  <1>2. Grows
    BY <1>1, SameGrows
  <1>3. PodsInv' /\ UpdatesInv'
    <2>1. CASE ContainerStatusHandler(p)
      <3>1. PodsInv'
        BY <1>1, <2>1 DEF ContainerStatusHandler, PodsInv, Listed, Exists
      <3>2. [pod |-> p, type |-> "ContainerHealth", id |-> NoId] \in TrueUpdates
        BY DEF TrueUpdates, UpdateEvent
      <3>3. UpdatesInv'
        BY <1>1, <1>2, <2>1, <3>2, EnqueueKeeps, StillUpdates DEF ContainerStatusHandler
      <3> QED
        BY <3>1, <3>3
    <2>2. CASE PodDeleteHandler(p)
      <3>1. PodsInv'
        BY <1>1, <2>2 DEF PodDeleteHandler, PodsInv, Listed, Exists
      <3>2. p \in left
        BY <2>2 DEF PodDeleteHandler, PodsInv
      <3>3. /\ ReturnRequestId(p) \in ReturnIds /\ ReturnRequestId(p) # NoId
            /\ EntryTrue(p, ReturnRequestId(p))
        <4>1. CASE returned[p] # NoId
          BY <4>1 DEF ReturnRequestId, ReturnedTrue, TypeOK, ObjectsTypeOK
        <4>2. CASE returned[p] = NoId /\ rid[p] = NoId
          BY <4>2, ObjectsAssumption DEF ReturnRequestId, ReturnIds, EntryTrue
        <4>3. CASE returned[p] = NoId /\ rid[p] # NoId
          BY <4>3 DEF ReturnRequestId, ReturnIds, LabelsInv, TypeOK, ObjectsTypeOK
        <4> QED
          BY <4>1, <4>2, <4>3
      <3>4. [pod |-> p, type |-> "PodReturned", id |-> ReturnRequestId(p)] \in TrueUpdates
        BY <3>2, <3>3 DEF TrueUpdates, UpdateEvent
      <3>5. UpdatesInv'
        BY <1>1, <1>2, <2>2, <3>4, EnqueueKeeps, StillUpdates DEF PodDeleteHandler
      <3> QED
        BY <3>1, <3>5
    <2> QED
      BY <2>1, <2>2 DEF PodStep
  <1> QED
    BY <1>1, <1>2, <1>3, StillReturned, StillLabels, StillJob, StillFinished, StillRuns
    DEF TypeOK, ObjectsTypeOK

-----------------------------------------------------------------------------
(* The handlers that delete pods. *)

\* What a step of theirs leaves alone, whatever else it does.
DeletersOnly ==
    UNCHANGED <<returned, queue, batch, wPc, job, fieldPc, condemned, completed, cr, createPc,
                pod, handled, ids, mrr>>

LEMMA DeletersKeep ==
    ASSUME TypeOK, BatchKept, OperatorInv, DeletersOnly, Grows, PodsInv', LabelsInv', RunsInv'
    PROVE  OperatorInv'
  BY StillReturned, StillUpdates, StillJob, StillFinished
  DEF OperatorInv, DeletersOnly, TypeOK, ObjectsTypeOK

LEMMA AbortKeeps ==
    ASSUME TypeOK, LabelsInv, RunsInv, NEW d \in Deleters, Abort(d), Grows,
           retPc[d] = "delete", UNCHANGED <<rid, ids, mrr, mrrPhase>>
    PROVE  LabelsInv' /\ RunsInv'
  <1>1. /\ retPc'[d] = "idle" /\ todo'[d] = {} /\ cur'[d] = {}
        /\ \A s \in Deleters : s # d =>
              retPc'[s] = retPc[s] /\ todo'[s] = todo[s] /\ cur'[s] = cur[s]
    BY DEF Abort, TypeOK, ReturnTypeOK
  <1>2. LabelsInv'
    BY <1>1 DEF LabelsInv, EntryTrue
  <1>3. RunsInv'
    BY <1>1 DEF RunsInv, Grows, Deleters, TypeOK, ObjectsTypeOK
  <1> QED
    BY <1>2, <1>3

LEMMA LabelPodKeeps ==
    ASSUME TypeOK, BatchKept, OperatorInv, NEW d \in Deleters, NEW p \in Pods, LabelPod(d, p),
           UNCHANGED <<handlerVars, condemned>>
    PROVE  OperatorInv' /\ Grows
  <1> USE DEF OperatorInv
  <1>1. DeletersOnly /\ UNCHANGED <<left, deleting, mrrPhase>>
    BY DEF DeletersOnly, LabelPod, crVars, mrrVars, workerVars, handlerVars
  <1>2. Grows /\ PodsInv'
    BY <1>1, SameGrows, StillPods DEF DeletersOnly
  <1>3. CASE Abort(d) /\ UNCHANGED rid
    BY <1>1, <1>2, <1>3, AbortKeeps, DeletersKeep DEF LabelPod, DeletersOnly
  <1>4. CASE /\ rid' = [rid EXCEPT ![p] = d]
             /\ todo' = [todo EXCEPT ![d] = @ \ {p}]
             /\ cur' = [cur EXCEPT ![d] = {p}] /\ UNCHANGED retPc
    <2>1. /\ todo'[d] = todo[d] \ {p} /\ cur'[d] = {p} /\ cur[d] = {} /\ p \in todo[d]
          /\ retPc[d] = "delete"
          /\ \A s \in Deleters : s # d => todo'[s] = todo[s] /\ cur'[s] = cur[s]
      BY <1>4 DEF LabelPod, TypeOK, ReturnTypeOK
    <2>2. EntryTrue(p, d)
      BY <2>1, ObjectsAssumption DEF LabelsInv, EntryTrue, Deleters
    <2>3. /\ rid'[p] = d /\ \A s \in Pods : s # p => rid'[s] = rid[s]
      BY <1>4 DEF TypeOK, ObjectsTypeOK
    <2>4. \A s \in Pods : rid'[s] # NoId => EntryTrue(s, rid[s])'
      BY <1>1, <2>2, <2>3 DEF LabelsInv, EntryTrue, DeletersOnly
    <2>5. LabelsInv'
      BY <1>1, <2>1, <2>4 DEF LabelsInv, DeletersOnly
    <2>6. RunsInv'
      BY <1>1, <1>4, <2>1 DEF RunsInv, DeletersOnly, Deleters
    <2> QED
      BY <1>1, <1>2, <2>5, <2>6, DeletersKeep
  <1> QED
    BY <1>3, <1>4 DEF LabelPod

LEMMA DeletePodKeeps ==
    ASSUME TypeOK, BatchKept, OperatorInv, NEW d \in Deleters, NEW p \in Pods, DeletePod(d, p),
           UNCHANGED <<handlerVars, condemned>>
    PROVE  OperatorInv' /\ Grows
  <1> USE DEF OperatorInv
  <1>1. DeletersOnly /\ UNCHANGED <<rid, mrrPhase>>
    BY DEF DeletersOnly, DeletePod, crVars, mrrVars, workerVars, handlerVars
  <1>2. retPc[d] = "delete" /\ cur[d] = {p}
    BY DEF DeletePod, RunsInv
  <1>3. CASE Abort(d) /\ UNCHANGED <<deleting, left, changed>>
    <2>1. Grows /\ PodsInv'
      BY <1>1, <1>3, SameGrows, StillPods DEF DeletersOnly
    <2> QED
      BY <1>1, <1>2, <1>3, <2>1, AbortKeeps, DeletersKeep DEF DeletersOnly
  <1>4. CASE /\ StartDeleting({p}) /\ Exists(p)
             /\ cur' = [cur EXCEPT ![d] = {}] /\ UNCHANGED <<retPc, todo>>
    <2>1. Grows
      BY <1>1, <1>4, DeletingGrows DEF DeletersOnly
    <2>2. PodsInv'
      BY <1>1, <1>4 DEF PodsInv, StartDeleting, DeletersOnly, Exists, Listed
    <2>3. /\ cur'[d] = {} /\ \A s \in Deleters : s # d => cur'[s] = cur[s]
          /\ left' = left \cup {p}
      BY <1>4 DEF TypeOK, ReturnTypeOK, StartDeleting
    <2>4. LabelsInv'
      BY <1>1, <1>4, <2>3 DEF LabelsInv, EntryTrue, DeletersOnly
    <2>5. RunsInv'
      BY <1>1, <1>2, <1>4, <2>3 DEF RunsInv, DeletersOnly, Deleters
    <2> QED
      BY <1>1, <2>1, <2>2, <2>4, <2>5, DeletersKeep
  <1> QED
    BY <1>3, <1>4 DEF DeletePod

LEMMA ReturnKeeps ==
    ASSUME TypeOK, BatchKept, OperatorInv, NEW q \in Returns, ReturnStep(q),
           UNCHANGED <<handlerVars, condemned>>
    PROVE  OperatorInv' /\ Grows
  <1> USE DEF OperatorInv
  <1>1. CASE ProcessPodDelete(q)
    BY <1>1, LabelPodKeeps, DeletePodKeeps DEF ProcessPodDelete, Deleters
  <1>2. CASE ~ProcessPodDelete(q)
    <2>1. DeletersOnly /\ UNCHANGED <<rid, deleting, left>>
      BY <1>2 DEF DeletersOnly, ReturnStep, ReturnCreate, TriggerUpdate, ReturnUpdate,
                  ReturnLabels, ReturnStatus,
                  objVars, crVars, podVars, mrrVars, workerVars, handlerVars
    <2>2. Grows /\ PodsInv'
      BY <2>1, SameGrows, StillPods DEF DeletersOnly
    <2>3. CASE ReturnCreate(q)
      <3>1. UNCHANGED <<todo, cur>>
        BY <2>3 DEF ReturnCreate
      <3>2. /\ retPc[q] = "create" /\ retPc'[q] = "idle" /\ mrrPhase'[q] # "Completed"
            /\ \A d \in Deleters : d # q => retPc'[d] = retPc[d]
            /\ \A s \in Returns : s # q => mrrPhase'[s] = mrrPhase[s]
        BY <2>3 DEF ReturnCreate, TypeOK, ObjectsTypeOK, ReturnTypeOK, Deleters
      <3>3. RunsInv'
        BY <2>1, <2>2, <3>1, <3>2 DEF RunsInv, DeletersOnly, Grows, Deleters
      <3> QED
        BY <2>1, <2>2, <3>1, <3>3, StillLabels, DeletersKeep
    <2>4. CASE TriggerUpdate(q)
      BY <2>1, <2>2, <2>4, StillLabels, StillRuns, DeletersKeep DEF TriggerUpdate, DeletersOnly
    <2>5. CASE ReturnUpdate(q) /\ ~UNCHANGED <<retPc, todo>>
      <3>1. /\ retPc[q] = "idle" /\ retPc'[q] = "delete" /\ todo'[q] = ids[q] \cap Listed
            /\ \A d \in Deleters : d # q => retPc'[d] = retPc[d] /\ todo'[d] = todo[d]
            /\ UNCHANGED <<cur, mrrPhase>>
        BY <2>5 DEF ReturnUpdate, TypeOK, ReturnTypeOK, Deleters, objVars, mrrVars
      <3>2. ids[q] \subseteq left \cup todo'[q]
        BY <3>1 DEF RunsInv, PodsInv, Listed, Exists, TypeOK, ObjectsTypeOK
      <3>3. LabelsInv'
        BY <2>1, <3>1, ObjectsAssumption DEF LabelsInv, EntryTrue, DeletersOnly, Deleters
      <3>4. RunsInv'
        BY <2>1, <3>1, <3>2 DEF RunsInv, DeletersOnly, Deleters
      <3> QED
        BY <2>1, <2>2, <3>3, <3>4, DeletersKeep
    <2>6. CASE ReturnUpdate(q) /\ UNCHANGED <<retPc, todo>>
      BY <2>1, <2>2, <2>6, StillLabels, StillRuns, DeletersKeep
      DEF ReturnUpdate, DeletersOnly, objVars, mrrVars
    <2>7. CASE ReturnLabels(q)
      <3>1. retPc[q] = "delete" /\ todo[q] = {} /\ cur[q] = {} /\ UNCHANGED mrrPhase
        BY <2>7 DEF ReturnLabels, Ran, mrrVars
      <3>2. CASE Abort(q)
        BY <2>1, <2>2, <3>1, <3>2, AbortKeeps, DeletersKeep DEF DeletersOnly, Deleters
      <3>3. CASE retPc' = [retPc EXCEPT ![q] = "status"] /\ UNCHANGED <<todo, cur>>
        <4>1. /\ retPc'[q] = "status"
              /\ \A d \in Deleters : d # q => retPc'[d] = retPc[d]
          BY <3>3 DEF TypeOK, ReturnTypeOK, Deleters
        <4>2. RunsInv'
          BY <2>1, <3>1, <3>3, <4>1 DEF RunsInv, DeletersOnly, Deleters
        <4> QED
          BY <2>1, <2>2, <3>3, <4>2, StillLabels, DeletersKeep
      <3> QED
        BY <2>7, <3>2, <3>3 DEF ReturnLabels
    <2>8. CASE ReturnStatus(q)
      <3>1. UNCHANGED <<todo, cur>>
        BY <2>8 DEF ReturnStatus
      <3>2. /\ retPc[q] = "status" /\ retPc'[q] = "idle"
            /\ \A d \in Deleters : d # q => retPc'[d] = retPc[d]
            /\ \A s \in Returns : s # q => mrrPhase'[s] = mrrPhase[s]
        BY <2>8 DEF ReturnStatus, TypeOK, ObjectsTypeOK, ReturnTypeOK, Deleters
      <3>3. RunsInv'
        BY <2>1, <2>2, <3>1, <3>2 DEF RunsInv, DeletersOnly, Grows, Deleters
      <3> QED
        BY <2>1, <2>2, <3>1, <3>3, StillLabels, DeletersKeep
    <2> QED
      BY <1>2, <2>3, <2>4, <2>5, <2>6, <2>7, <2>8, <2>2 DEF ReturnStep
  <1> QED
    BY <1>1, <1>2

LEMMA PreemptionKeeps ==
    ASSUME TypeOK, BatchKept, OperatorInv, PreemptionStep \/ TaintNode,
           UNCHANGED <<handlerVars, condemned>>
    PROVE  OperatorInv' /\ Grows
  <1> USE DEF OperatorInv
  <1> DEFINE d == Preempted
  <1>1. d \in Deleters /\ d \notin Returns
    BY ObjectsAssumption DEF Deleters
  <1>2. CASE ProcessPodDelete(d)
    BY <1>1, <1>2, LabelPodKeeps, DeletePodKeeps DEF ProcessPodDelete
  <1>3. CASE PreemptionHandler \/ PreemptionDone \/ TaintNode
    <2>1. DeletersOnly /\ UNCHANGED <<rid, deleting, left, mrrPhase, cur>>
      BY <1>3 DEF DeletersOnly, PreemptionHandler, PreemptionDone, TaintNode,
                  objVars, crVars, podVars, mrrVars, workerVars, handlerVars
    <2>2. Grows /\ PodsInv'
      BY <2>1, SameGrows, StillPods DEF DeletersOnly
    <2>3. \A s \in Deleters : s # d => retPc'[s] = retPc[s] /\ todo'[s] = todo[s]
      BY <1>1, <1>3 DEF PreemptionHandler, PreemptionDone, TaintNode, TypeOK, ReturnTypeOK
    <2>4. /\ todo'[d] \subseteq todo[d] \cup Spot
          /\ retPc'[d] # "delete" => todo'[d] = {} /\ cur[d] = {}
      BY <1>1, <1>3
      DEF PreemptionHandler, PreemptionDone, TaintNode, Ran, RunsInv, TypeOK, ReturnTypeOK
    <2>5. LabelsInv'
      BY <1>1, <2>1, <2>3, <2>4 DEF LabelsInv, EntryTrue, DeletersOnly
    <2>6. RunsInv'
      <3>1. \A s \in Returns : retPc'[s] = retPc[s] /\ todo'[s] = todo[s]
        BY <1>1, <2>3 DEF Deleters
      <3>2. \A s \in Deleters : retPc'[s] # "delete" => todo'[s] = {} /\ cur[s] = {}
        BY <2>3, <2>4 DEF RunsInv
      <3> QED
        BY <2>1, <3>1, <3>2 DEF RunsInv, DeletersOnly
    <2> QED
      BY <2>1, <2>2, <2>5, <2>6, DeletersKeep
  <1> QED
    BY <1>2, <1>3 DEF PreemptionStep

-----------------------------------------------------------------------------
(* The end of the process, and a new one. *)

LEMMA RestartKeeps ==
    ASSUME TypeOK, OperatorInv, Restart
    PROVE  OperatorInv' /\ Grows
  <1> USE DEF OperatorInv
  <1>1. UNCHANGED <<returned, rid, completed, cr, pod, deleting, left, ids, mrr, mrrPhase>>
    BY DEF Restart, crVars, mrrVars
  <1>2. \A r \in Crs : /\ createPc[r] = "done" => createPc'[r] = "done"
                       /\ createPc[r] = "none" => createPc'[r] = "none"
    BY DEF Restart, HandlerRestart
  <1>3. Grows
    BY <1>1, <1>2 DEF Grows, Finished, ActiveOf, Active, Listed, Exists
  <1>4. PodsInv'
    BY <1>1 DEF Restart, PodsInv, Listed, Exists
  <1>5. \A d \in Deleters : todo'[d] = {} /\ cur'[d] = {}
    BY DEF Restart, ReturnRestart
  <1>6. LabelsInv'
    BY <1>1, <1>5 DEF LabelsInv, EntryTrue
  <1>7. UpdatesInv' /\ JobInv'
    BY DEF Restart, WorkerStart, UpdatesInv, JobInv
  <1>8. CompletedTrue'
    BY <1>1, <1>3 DEF FinishedInv, CompletedTrue, Grows, TypeOK, ObjectsTypeOK
  <1>9. FinishedInv'
    BY <1>1, <1>2, <1>8 DEF FinishedInv, Restart, HandlerRestart
  <1>10. RunsInv'
    <2>1. \A d \in Deleters : /\ retPc'[d] \notin {"delete", "status"}
                              /\ retPc[d] = "none" => retPc'[d] = "none"
      BY DEF Restart, ReturnRestart
    <2> QED
      BY <1>1, <1>5, <2>1 DEF RunsInv, Deleters
  <1> QED
    BY <1>1, <1>3, <1>4, <1>6, <1>7, <1>9, <1>10, StillReturned

-----------------------------------------------------------------------------
LEMMA StepKeeps ==
    ASSUME TypeOK, BatchKept, TypeOK', BatchKept', OperatorInv, [Next]_vars
    PROVE  OperatorInv' /\ Grows
  <1>1. CASE Handlers
    BY <1>1, CreateKeeps, FieldKeeps, PodKeeps, ReturnKeeps, PreemptionKeeps
    DEF Handlers, HandlerStep
  <1>2. CASE Node
    BY <1>2, PreemptionKeeps DEF Node
  <1>3. ASSUME UNCHANGED <<objVars, workerVars, handlerVars, returnVars, condemned>>
        PROVE  OperatorInv' /\ Grows
    <2>1. Grows
      BY <1>3, SameGrows DEF objVars, crVars, podVars, mrrVars, handlerVars
    <2> QED
      BY <1>3, <2>1, StillReturned, StillPods, StillLabels, StillUpdates, StillJob,
         StillFinished, StillRuns
      DEF OperatorInv, objVars, crVars, podVars, mrrVars, workerVars, handlerVars, returnVars,
          TypeOK, ObjectsTypeOK
  <1>4. CASE Process
    BY <1>3, <1>4, RestartKeeps DEF Process, Crash, Stop, StopReturns
  <1> QED
    BY <1>1, <1>2, <1>3, <1>4, ClusterKeeps, ProviderKeeps, WorkerKeeps, CleanupKeeps
    DEF Next, vars

LEMMA InitKeeps == Init => OperatorInv
  <1> SUFFICES ASSUME Init PROVE OperatorInv
    OBVIOUS
  <1>1. ReturnedTrue /\ PodsInv /\ FinishedInv
    BY DEF Init, ObjectsInit, HandlerInit, ReturnedTrue, PodsInv, FinishedInv, CompletedTrue
  <1>2. LabelsInv /\ RunsInv
    BY DEF Init, ObjectsInit, ReturnInit, LabelsInv, RunsInv, Deleters
  <1>3. UpdatesInv /\ JobInv
    BY DEF Init, WorkerInit, UpdatesInv, JobInv
  <1> QED
    BY <1>1, <1>2, <1>3 DEF OperatorInv

\* The invariant that the rest follows from.
THEOREM OperatorInvariant == Spec => []OperatorInv
  <1>1. Init => TypeOK /\ BatchKept /\ OperatorInv
    BY InitTyped, InitKeeps DEF Init, WorkerInit, BatchKept
  <1>2. TypeOK /\ BatchKept /\ OperatorInv /\ [Next]_vars => (TypeOK /\ BatchKept /\ OperatorInv)'
    BY StepTyped, BatchKeeps, StepKeeps
  <1> QED
    BY <1>1, <1>2, PTL DEF Spec

\* What every state has, and every step.
Kept == TypeOK /\ BatchKept /\ OperatorInv
KeptStep == Kept /\ Kept' /\ Grows /\ [Next]_vars

LEMMA StateIsKept == Spec => []Kept
  BY TypeCorrect, OperatorInvariant, PTL DEF Kept

LEMMA StepIsKept == Kept /\ Kept' /\ [Next]_vars => KeptStep
  BY StepKeeps DEF Kept, KeptStep

\* No machine is in returnedMachines before its deletion has begun, nor under the id of
\* a return that did not ask for it.
THEOREM ReturnedIsTrue == Spec => []ReturnedTrue
  <1>1. OperatorInv => ReturnedTrue
    BY DEF OperatorInv
  <1> QED
    BY <1>1, OperatorInvariant, PTL

\* The cleanup goes by a condition that says the truth: a resource that is Completed has
\* made its pods and has none left.
THEOREM CompletedIsTrue == Spec => []CompletedTrue
  <1>1. OperatorInv => CompletedTrue
    BY DEF OperatorInv, FinishedInv
  <1> QED
    BY <1>1, OperatorInvariant, PTL

-----------------------------------------------------------------------------
(* Returns that the cleanup takes. *)

LEMMA StillCleaned ==
    ASSUME CleanedInv, Grows, UNCHANGED <<mrr, ids>>, condemned' \subseteq condemned
    PROVE  CleanedInv'
  BY DEF CleanedInv, Grows

LEMMA CleanupCleans ==
    ASSUME TypeOK, OperatorInv, CleanedInv, Grows, Cleanup
    PROVE  CleanedInv'
  <1> USE DEF TypeOK, ObjectsTypeOK
  <1>1. CASE CleanupList
    <2>1. UNCHANGED <<mrr, ids>>
      BY <1>1 DEF CleanupList, objVars, mrrVars
    <2>2. \A q \in Returns : q \in condemned' => mrr[q] = "live" /\ mrrPhase[q] = "Completed"
      BY <1>1, ObjectsAssumption DEF CleanupList, CleanupCrs, CleanupReturns
    <2>3. \A q \in Returns : q \in condemned' => mrr[q] # "none" /\ ids[q] \subseteq left
      BY <2>2 DEF OperatorInv, RunsInv
    <2> QED
      BY <2>1, <2>3 DEF CleanedInv, Grows
  <1>2. ASSUME NEW r \in Crs, CleanupResource(r) PROVE CleanedInv'
    BY <1>2, StillCleaned DEF CleanupResource, mrrVars
  <1>3. ASSUME NEW q \in Returns, CleanupReturn(q) PROVE CleanedInv'
    <2>1. /\ q \in condemned /\ condemned' \subseteq condemned /\ UNCHANGED ids
          /\ mrr'[q] # mrr[q] => mrr'[q] = "gone"
          /\ \A s \in Returns : s # q => mrr'[s] = mrr[s]
      BY <1>3 DEF CleanupReturn
    <2> QED
      BY <2>1 DEF CleanedInv, Grows
  <1> QED
    BY <1>1, <1>2, <1>3 DEF Cleanup, CleanupStep

LEMMA StepCleans ==
    ASSUME TypeOK, OperatorInv, CleanedInv, Grows, [Next]_vars
    PROVE  CleanedInv'
  <1>1. CASE Provider
    <2>1. ASSUME NEW q \in Returns, RequestReturnMachines(q) PROVE CleanedInv'
      <3>1. /\ mrr[q] = "none" /\ mrr'[q] = "live" /\ UNCHANGED condemned
            /\ \A s \in Returns : s # q => mrr'[s] = mrr[s] /\ ids'[s] = ids[s]
        BY <2>1 DEF RequestReturnMachines, CreateReturn, TypeOK, ObjectsTypeOK
      <3> QED
        BY <3>1 DEF CleanedInv, Grows
    <2>2. ASSUME NEW r \in Crs, RequestMachines(r) PROVE CleanedInv'
      BY <2>2, StillCleaned DEF RequestMachines, CreateResource, mrrVars
    <2> QED
      BY <1>1, <2>1, <2>2 DEF Provider, ProviderStep
  <1>2. CASE Cluster \/ Node \/ Process \/ UNCHANGED vars
    <2>1. UNCHANGED <<mrr, ids>> /\ condemned' \subseteq condemned
      BY <1>2 DEF Cluster, ClusterStep, PodReady, PodFails, EvictPod, PodGone, CollectGarbage,
                  Node, TaintNode, Process, Crash, Stop, StopReturns, Restart,
                  vars, objVars, mrrVars
    <2> QED
      BY <2>1, StillCleaned
  <1>3. CASE Worker
    <2>1. UNCHANGED <<mrr, ids, condemned>>
      BY <1>3 DEF Worker, WorkerStep, StatusCheck, CollectBatch, ProcessBatch, GetResource,
                  ListPods, PatchStatus, PatchCleanupLabel, objVars, mrrVars
    <2> QED
      BY <2>1, StillCleaned
  <1>4. CASE Handlers
    <2>1. ASSUME HandlerStep PROVE UNCHANGED <<mrr, ids>>
      BY <2>1 DEF HandlerStep, CreateStep, CreateStart, CreatePod, CreateRaises, CreateDone,
                  FieldStep, FieldIgnore, FieldList, FieldPatch, PodStep,
                  ContainerStatusHandler, PodDeleteHandler, objVars, mrrVars
    <2>2. ASSUME (\E q \in Returns : ReturnStep(q)) \/ PreemptionStep
          PROVE  UNCHANGED <<mrr, ids>>
      BY <2>2 DEF ReturnStep, ReturnCreate, TriggerUpdate, ReturnUpdate, ProcessPodDelete,
                  LabelPod, DeletePod, ReturnLabels, ReturnStatus, PreemptionStep,
                  PreemptionHandler, PreemptionDone, objVars, mrrVars
    <2>3. UNCHANGED <<mrr, ids, condemned>>
      BY <1>4, <2>1, <2>2 DEF Handlers
    <2> QED
      BY <2>3, StillCleaned
  <1> QED
    BY <1>1, <1>2, <1>3, <1>4, CleanupCleans DEF Next

\* A return is answered complete, and is cleaned up, only when each of its machines is
\* being deleted or gone.
THEOREM CompleteReturnIsTrue == Spec => []CompleteReturnTrue
  <1>1. Init => CleanedInv
    BY DEF Init, ObjectsInit, CleanedInv
  <1>2. KeptStep /\ CleanedInv => CleanedInv'
    BY StepCleans DEF KeptStep, Kept
  <1>3. Kept /\ CleanedInv => CompleteReturnTrue
    <2> USE DEF Kept
    <2> SUFFICES ASSUME OperatorInv, CleanedInv, NEW q \in Returns,
                        RequestStatus(q) = "complete" \/ mrr[q] = "gone"
                 PROVE  ids[q] \subseteq left
      BY DEF CompleteReturnTrue
    <2>1. CASE RequestStatus(q) = "complete"
      <3>1. mrrPhase[q] = "Completed"
        BY <2>1, ObjectsAssumption DEF RequestStatus, HasResource, HasReturn, ProcessMrr
      <3> QED
        BY <3>1 DEF OperatorInv, RunsInv
    <2>2. CASE mrr[q] = "gone"
      BY <2>2 DEF CleanedInv
    <2> QED
      BY <2>1, <2>2
  <1> QED
    BY <1>1, <1>2, <1>3, StateIsKept, StepIsKept, PTL DEF Spec
=============================================================================
