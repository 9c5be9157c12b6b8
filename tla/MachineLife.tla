----------------------------- MODULE MachineLife -----------------------------
(***************************************************************************)
(* What a host provider promises HostFactory about machines, whichever     *)
(* cloud it drives: machines come and leave; the provider keeps a record   *)
(* of some of them; and of some it tells HostFactory that they have been   *)
(* returned.  It tells so only of machines that have left, and it forgets  *)
(* no machine that is still there.  Nothing is said of when it learns of   *)
(* what has happened, nor is it obliged to tell.                           *)
(***************************************************************************)
CONSTANT Machine

VARIABLES
    live,       \* machines that exist in the cloud and are not leaving
    left,       \* machines that have (at least once) begun to leave
    known,      \* machines the provider has a record of
    told        \* machines it reports as returned

lifeVars == <<live, left, known, told>>

Init == live = {} /\ left = {} /\ known = {} /\ told = {}

\* Machines come into being, again or for the first time.  A provider whose cloud
\* keeps the records knows them at once.
Appear(S) ==
    /\ live' = live \cup S
    /\ known' \in {known, known \cup S}
    /\ UNCHANGED <<left, told>>

Leave(S) ==
    /\ S \subseteq live
    /\ live' = live \ S
    /\ left' = left \cup S
    /\ UNCHANGED <<known, told>>

\* The provider takes note of machines that are there or were.
Record(S) ==
    /\ S \subseteq live \cup left
    /\ known' = known \cup S
    /\ UNCHANGED <<live, left, told>>

\* It reports machines that have left, or takes such a report back.
Tell(S) ==
    /\ S \subseteq left
    /\ told' = told \cup S
    /\ UNCHANGED <<live, left, known>>

Retract(S) ==
    /\ told' = told \ S
    /\ UNCHANGED <<live, left, known>>

\* It forgets machines that are not there, and what it told of them.
Forget(S) ==
    /\ S \subseteq left \ live
    /\ known' = known \ S
    /\ told' \in SUBSET told
    /\ UNCHANGED <<live, left>>

Next ==
    \E S \in SUBSET Machine :
        Appear(S) \/ Leave(S) \/ Record(S) \/ Tell(S) \/ Retract(S) \/ Forget(S)

Spec == Init /\ [][Next]_lifeVars

\* The promise: what is told has happened, and what is known was real.
Truthful == told \subseteq left /\ known \subseteq live \cup left
=============================================================================
