----------------------------- MODULE GkeProvider -----------------------------
(***************************************************************************)
(* The hf-gke commands (hf-provider/src/gke_provider): one process per     *)
(* HostFactory call.  The two requests create one object each; everything  *)
(* else is a question that is answered from what the API lists.            *)
(***************************************************************************)
EXTENDS ResourceHandlers, ReturnHandlers, CleanupWorker

\* create_gcpsymphonyresource: kopf will run the create handler.
CreateResource(r) ==
    /\ cr' = [cr EXCEPT ![r] = "live"]
    /\ createPc' = [createPc EXCEPT ![r] = "due"]

\* requestMachines: every call has an id of its own.
RequestMachines(r) ==
    /\ cr[r] = "none"
    /\ CreateResource(r)
    /\ UNCHANGED <<available, crPhase, returned, completed, podVars, mrrVars, labelled,
                   faults, workerVars, toMake, seen, fieldPc, returnVars, condemned>>

\* Names that HostFactory can know: pods that an answer has shown it.
Shown == {p \in Pods : pod[p] # "none"}

\* create_machine_return_request_resource, for the pods named.
CreateReturn(q, S) ==
    /\ mrr' = [mrr EXCEPT ![q] = "live"]
    /\ ids' = [ids EXCEPT ![q] = S]
    /\ retPc' = [retPc EXCEPT ![q] = "create"]

\* requestReturnMachines: a request without machines is refused.
RequestReturnMachines(q) ==
    /\ mrr[q] = "none"
    /\ \E S \in SUBSET Shown : S # {} /\ CreateReturn(q, S)
    /\ UNCHANGED <<crVars, podVars, mrrPhase, triggered, labelled, faults,
                   workerVars, handlerVars, due, trig, todo, cur, condemned>>

-----------------------------------------------------------------------------
(* The answers. *)

\* The result of one pod under getRequestStatus.
PodResult(p) ==
    CASE pod[p] = "Pending" -> "executing"
      [] pod[p] = "Running" -> "succeed"
      [] pod[p] = "Failed"  -> "fail"

\* The status of a request, from the pods that its list shows.
ProcessGcpsr(S) ==
    LET results == {PodResult(p) : p \in S}
    IN  IF "executing" \in results THEN "running"
        ELSE IF "fail" \in results THEN "complete_with_error"
        ELSE "complete"

\* The status of a return, from its phase.
ProcessMrr(phase) ==
    CASE phase = "Completed"  -> "complete"
      [] phase = "InProgress" -> "running"
      [] OTHER                -> "complete_with_error"

\* The object that carries the id: get_custom_resource_from_request_id.
HasResource(id) == id \in Crs /\ cr[id] = "live"
HasReturn(id) == id \in Returns /\ mrr[id] = "live"

\* The pods of a resource, those being deleted included.
PodList(r) == Listed \cap PodsOf(r)

\* getRequestStatus; an id that no object carries, or none any more, is an error.
RequestStatus(id) ==
    IF HasResource(id) THEN ProcessGcpsr(PodList(id))
    ELSE IF HasReturn(id) THEN ProcessMrr(mrrPhase[id])
    ELSE "complete_with_error"

\* get_all_gcpsymphonyresources
AllResources == {r \in Crs : cr[r] = "live"}

\* getReturnRequests: the returned machines of all resources there are.
ReturnRequests == {p \in Pods : Owner[p] \in AllResources /\ returned[p] # NoId}

ProviderStep ==
    \/ \E r \in Crs : RequestMachines(r)
    \/ \E q \in Returns : RequestReturnMachines(q)
=============================================================================
