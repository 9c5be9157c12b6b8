----------------------------- MODULE MCOperator -----------------------------
(* Small instances of the operator for TLC. *)
EXTENDS OperatorProperties

CONSTANTS c1, p1, q1

OneCr      == {c1}
OnePod     == {p1}
OneReturn  == {q1}
None       == {}
OwnedByOne == [p \in Pods |-> c1]

\* Bound: one incident, a call that fails, a process that ends, or the end of the node.
OneIncident ==
    /\ faults + crashes <= 1
    /\ faults + crashes > 0 => retPc[Preempted] = "none"
=============================================================================
