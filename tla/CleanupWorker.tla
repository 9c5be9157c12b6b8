---------------------------- MODULE CleanupWorker ----------------------------
(***************************************************************************)
(* The cleanup worker (k8s-operator/.../workers/cleanup.py): it lists the  *)
(* objects with the cleanup label, of one kind at a time, and deletes by   *)
(* name those that the list shows to be completed and expired.  An object  *)
(* may have changed between the list and its deletion.                     *)
(***************************************************************************)
EXTENDS SymphonyObjects

VARIABLE condemned      \* what the list at hand says is to be deleted

CleanupTypeOK == condemned \subseteq Crs \cup Returns

\* A mistake: the label is enough.
SlipCleanupCrs == {r \in Crs \cap labelled : cr[r] = "live"}

\* The conditions of _process_gcpsr and of _process_mrr.
CleanupCrs == {r \in Crs \cap labelled : cr[r] = "live" /\ r \in completed}
CleanupReturns ==
    {q \in Returns \cap labelled : mrr[q] = "live" /\ mrrPhase[q] = "Completed"}

\* Of those, any may have been completed longer than the retain time ago.  A list
\* that fails is tried again in the next cycle.
CleanupList ==
    /\ condemned = {}
    /\ \/ condemned' \in SUBSET CleanupCrs
       \/ condemned' \in SUBSET CleanupReturns
    /\ condemned' # {}
    /\ UNCHANGED objVars

\* A resource has no finalizer: it is gone at once, its pods follow.
CleanupResource(r) ==
    /\ r \in condemned
    /\ condemned' = condemned \ {r}
    /\ \/ /\ cr[r] = "live"
          /\ cr' = [cr EXCEPT ![r] = "gone"]
          /\ completed' = completed \ {r}
          /\ labelled' = labelled \ {r} /\ Ok
       \/ Fault /\ UNCHANGED <<cr, completed, labelled>>
    /\ UNCHANGED <<available, crPhase, returned, podVars, mrrVars>>

CleanupReturn(q) ==
    /\ q \in condemned
    /\ condemned' = condemned \ {q}
    /\ \/ /\ mrr[q] = "live"
          /\ mrr' = [mrr EXCEPT ![q] = "gone"]
          /\ labelled' = labelled \ {q} /\ Ok
       \/ Fault /\ UNCHANGED <<mrr, labelled>>
    /\ UNCHANGED <<crVars, podVars, ids, mrrPhase, triggered>>

CleanupStep ==
    \/ CleanupList
    \/ \E r \in Crs : CleanupResource(r)
    \/ \E q \in Returns : CleanupReturn(q)
=============================================================================
