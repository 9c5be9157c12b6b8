------------------------------ MODULE GceStatus ------------------------------
(***************************************************************************)
(* What the database of the GCE provider says of one machine, and what     *)
(* HostFactory is told about it.  The numbers are those of the source: the *)
(* handlers and the evaluators compare them with < and <=.                 *)
(***************************************************************************)
EXTENDS Integers

STORED           == 0     \* DEFAULT of the column: written by no handler
CREATED          == 200
INSERTED         == 250
PREEMPTED        == 300
DELETE_REQUESTED == 350
DELETED          == 400

\* The states a row can reach.  LOGGED and REQUESTED are written by no caller,
\* PREEMPTED only by a statement that always fails (see HandleInstancePreempted).
MachineState == {STORED, CREATED, INSERTED, DELETE_REQUESTED, DELETED}

\* A row as far as anyone reads it: ip is "internal_ip IS NOT NULL", grace is
\* "delete_grace_period IS NOT NULL", expired is "updated_at + TTL <= now".
Row(RequestId, ReturnId) ==
    [request : RequestId, ret : ReturnId, state : MachineState,
     ip : BOOLEAN, grace : BOOLEAN, expired : BOOLEAN]

\* The result of one machine under getRequestStatus of the request that made it.
MachineResult(row) ==
    IF row.state = INSERTED /\ row.ip THEN "succeed"
    ELSE IF row.state <= INSERTED THEN "executing"
    ELSE "fail"

\* A mistake: a deletion that was asked for counts as done.
SlipReturnResult(row) == IF row.state >= DELETE_REQUESTED THEN "succeed" ELSE "executing"

\* The result of one machine under getRequestStatus of the request that returns it.
ReturnResult(row) == IF row.state = DELETED THEN "succeed" ELSE "executing"

\* A mistake: one machine that has succeeded is enough.
SlipRequestStatuses(results) ==
    IF results = {} \/ "succeed" \in results THEN {"complete"}
    ELSE {IF x = "executing" THEN "running" ELSE "complete_with_error" : x \in results}

\* The reducer goes through the machines in the order of the rows: the last one
\* that has not succeeded decides, so that any of them may.
RequestStatuses(results) ==
    IF results \subseteq {"succeed"} THEN {"complete"}
    ELSE {IF x = "executing" THEN "running" ELSE "complete_with_error" :
            x \in results \ {"succeed"}}
=============================================================================
