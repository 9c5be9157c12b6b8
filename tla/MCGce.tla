-------------------------------- MODULE MCGce --------------------------------
(* Small instances of the GCE provider for TLC. *)
EXTENDS GceProperties, TLC

CONSTANTS m1, m2, r1, r2, q1, q2, g1, g2, w1, w2, w3

OneMachine  == {m1}
TwoMachines == {m1, m2}
OneRequest  == {r1}
TwoRequests == {r1, r2}
OneReturn   == {q1}
TwoReturns  == {q1, q2}
OneGroup    == {g1}
TwoGroups   == {g1, g2}
OneWorker   == {w1}
TwoWorkers  == {w1, w2}
ThreeWorkers == {w1, w2, w3}
None        == {}

\* Bound: one incident, a crash or a lost acknowledgement.
OneIncident == crashes + lostAcks <= 1

\* Names, ids and groups are only ever compared for equality.
Symmetry ==
    Permutations(Machines) \cup Permutations(Requests)
        \cup Permutations(Returns) \cup Permutations(Groups)
        \cup Permutations(Workers)
=============================================================================
