------------------------------ MODULE DaemonLock ------------------------------
(***************************************************************************)
(* The lock file that is to keep the event daemon hf-monitor alone         *)
(* (hf-provider/src/gce_provider/utils/process_lock.py, pubsub.py).  Every *)
(* hf-gce command launches a daemon when it ends; commands run side by     *)
(* side, and so do the daemons they launch.  A daemon looks for the file,  *)
(* reads a pid, asks whether that process runs, removes the file, opens a  *)
(* new one and writes its own pid when it closes it: each is a step of its *)
(* own, and the process can be killed between any two.                     *)
(*                                                                         *)
(* A definition whose name begins with Slip is what its successor would be *)
(* with a plausible mistake.  No action uses it: it serves to confirm that *)
(* a property can fail.                                                    *)
(***************************************************************************)
EXTENDS Integers, FiniteSets

CONSTANTS
    Pids,       \* process ids; they are given out again
    NoFile,     \* there is no lock file
    Empty,      \* the lock file is opened and not yet written
    Mixed,      \* a pid written over a longer one: nobody's
    MaxKills    \* bound: how many daemons are killed

ASSUME LockAssumption ==
    /\ {NoFile, Empty, Mixed} \cap Pids = {}
    /\ NoFile # Empty /\ NoFile # Mixed /\ Empty # Mixed
    /\ MaxKills \in Nat

VARIABLES
    lock,       \* the lock file: NoFile, Empty, Mixed or the pid in it
    linked,     \* daemons that have opened the file that is still at the path
    pc,         \* the next step of each daemon; none if there is no such process
    seen,       \* what it has read
    foreign,    \* pids of processes that are no daemons
    raced,      \* history: two daemons have been starting at the same time
    kills

vars == <<lock, linked, pc, seen, foreign, raced, kills>>

StartPc == {"check", "read", "probe", "remove", "open", "write"}
EndPc   == {"checkOwn", "unlink"}
Content == Pids \cup {Empty, Mixed}

TypeOK ==
    /\ lock \in Content \cup {NoFile}
    /\ linked \subseteq Pids
    /\ pc \in [Pids -> StartPc \cup EndPc \cup {"none", "listen"}]
    /\ seen \in [Pids -> Content]
    /\ foreign \subseteq Pids
    /\ raced \in BOOLEAN
    /\ kills \in 0..MaxKills

Init ==
    /\ lock = NoFile /\ linked = {}
    /\ pc = [p \in Pids |-> "none"]
    /\ seen = [p \in Pids |-> Empty]
    /\ foreign = {} /\ raced = FALSE /\ kills = 0

Starting  == {p \in Pids : pc[p] \in StartPc}
Listening == {p \in Pids : pc[p] = "listen"}
Alive(p)  == pc[p] # "none" \/ p \in foreign

Goto(p, label) == pc' = [pc EXCEPT ![p] = label]

\* os.remove: files that are open are no longer at the path.
RemoveFile == lock' = NoFile /\ linked' = {}

-----------------------------------------------------------------------------
\* launch_pubsub_daemon, with a free pid; that the kernel gives out the pid in the
\* lock file is left to the processes that are no daemons.
Launch(p) ==
    /\ ~Alive(p) /\ lock # p
    /\ Goto(p, "check")
    /\ raced' = (raced \/ Starting # {})
    /\ UNCHANGED <<lock, linked, seen, foreign, kills>>

\* __enter__: os.path.exists ...
CheckFile(p) ==
    /\ pc[p] = "check"
    /\ Goto(p, IF lock = NoFile THEN "open" ELSE "read")
    /\ UNCHANGED <<lock, linked, seen, foreign, raced, kills>>

\* A mistake: a file that is gone reads as any other.
SlipReadFile(p) ==
    /\ pc[p] = "read"
    /\ Goto(p, "probe") /\ seen' = [seen EXCEPT ![p] = lock]
    /\ UNCHANGED <<lock, linked, foreign, raced, kills>>

\* ... the file is read, or is no longer there and open() raises ...
ReadFile(p) ==
    /\ pc[p] = "read"
    /\ \/ lock = NoFile /\ Goto(p, "none") /\ UNCHANGED seen
       \/ lock # NoFile /\ Goto(p, "probe") /\ seen' = [seen EXCEPT ![p] = lock]
    /\ UNCHANGED <<lock, linked, foreign, raced, kills>>

\* A mistake: a file with a pid in it is enough.
SlipProbeFile(p) ==
    /\ pc[p] = "probe"
    /\ Goto(p, IF seen[p] = Mixed THEN "remove" ELSE "none")
    /\ UNCHANGED <<lock, linked, seen, foreign, raced, kills>>

\* A mistake: any answer of os.kill counts as no such process.
SlipProbe(p) ==
    /\ pc[p] = "probe"
    /\ Goto(p, IF seen[p] = Empty THEN "none" ELSE "remove")
    /\ UNCHANGED <<lock, linked, seen, foreign, raced, kills>>

\* ... os.kill(int(pid), 0): int("") raises ValueError, a process that runs is a
\* LockManagerError; both end this daemon.  A process of another user, which may not
\* be signalled, is an OSError, as one that does not run ...
Probe(p) ==
    /\ pc[p] = "probe"
    /\ \/ /\ seen[p] = Empty \/ (seen[p] \in Pids /\ Alive(seen[p]))
          /\ Goto(p, "none")
       \/ /\ seen[p] # Empty /\ (seen[p] \in Pids => pc[seen[p]] = "none")
          /\ Goto(p, "remove")
    /\ UNCHANGED <<lock, linked, seen, foreign, raced, kills>>

\* ... os.remove of a stale file, or FileNotFoundError ...
RemoveStale(p) ==
    /\ pc[p] = "remove"
    /\ \/ lock = NoFile /\ Goto(p, "none") /\ UNCHANGED <<lock, linked>>
       \/ lock # NoFile /\ Goto(p, "open") /\ RemoveFile
    /\ UNCHANGED <<seen, foreign, raced, kills>>

\* ... open(lockfile, "w"), which empties a file that is there ...
OpenFile(p) ==
    /\ pc[p] = "open"
    /\ lock' = Empty
    /\ linked' = linked \cup {p}
    /\ Goto(p, "write")
    /\ UNCHANGED <<seen, foreign, raced, kills>>

\* A mistake: the pid is the one that was read.
SlipWritePid(p) ==
    /\ pc[p] = "write"
    /\ lock' = IF p \in linked THEN seen[p] ELSE lock
    /\ linked' = linked \ {p}
    /\ Goto(p, "listen")
    /\ UNCHANGED <<seen, foreign, raced, kills>>

\* ... and its pid, which reaches the file when it is closed, from its start: over
\* the pid of another that had opened it too, of which a longer one leaves the end, or
\* into a file that is no longer at the path.
WritePid(p) ==
    /\ pc[p] = "write"
    /\ \/ p \notin linked /\ UNCHANGED lock
       \/ p \in linked /\ lock' = p
       \/ p \in linked /\ lock # Empty /\ lock' = Mixed
    /\ linked' = linked \ {p}
    /\ Goto(p, "listen")
    /\ UNCHANGED <<seen, foreign, raced, kills>>

\* The listener reaches its timeout, or its stream raises.
ListenEnds(p) ==
    /\ pc[p] = "listen"
    /\ Goto(p, "checkOwn")
    /\ UNCHANGED <<lock, linked, seen, foreign, raced, kills>>

\* __exit__: os.path.exists, then os.remove of whatever is there.
CheckOwn(p) ==
    /\ pc[p] = "checkOwn"
    /\ Goto(p, IF lock = NoFile THEN "none" ELSE "unlink")
    /\ UNCHANGED <<lock, linked, seen, foreign, raced, kills>>

Unlink(p) ==
    /\ pc[p] = "unlink"
    /\ RemoveFile
    /\ Goto(p, "none")
    /\ UNCHANGED <<seen, foreign, raced, kills>>

-----------------------------------------------------------------------------
(* The host (external). *)

\* What a killed daemon had not written is lost; the file stays.
Kill(p) ==
    /\ pc[p] # "none" /\ kills < MaxKills
    /\ kills' = kills + 1
    /\ linked' = linked \ {p}
    /\ Goto(p, "none")
    /\ UNCHANGED <<lock, seen, foreign, raced>>

\* The pid in the lock file goes to a process that is no daemon, and comes back;
\* where other pids go is of no interest.
ForeignStarts(p) ==
    /\ ~Alive(p) /\ lock = p
    /\ foreign' = foreign \cup {p}
    /\ UNCHANGED <<lock, linked, pc, seen, raced, kills>>

ForeignEnds(p) ==
    /\ p \in foreign
    /\ foreign' = foreign \ {p}
    /\ UNCHANGED <<lock, linked, pc, seen, raced, kills>>

Enter(p) ==
    CheckFile(p) \/ ReadFile(p) \/ Probe(p) \/ RemoveStale(p) \/ OpenFile(p) \/ WritePid(p)
Leave(p) == CheckOwn(p) \/ Unlink(p)

Next ==
    \E p \in Pids :
        \/ Launch(p) \/ Enter(p) \/ ListenEnds(p) \/ Leave(p)
        \/ Kill(p) \/ ForeignStarts(p) \/ ForeignEnds(p)

Spec == Init /\ [][Next]_vars

\* HostFactory keeps calling, so daemons keep being launched; a daemon goes on.  It
\* may listen for ever, and no other process is obliged to end.
Fairness ==
    /\ WF_vars(\E p \in Pids : Launch(p))
    /\ \A p \in Pids : WF_vars(Enter(p)) /\ WF_vars(Leave(p))

FairSpec == Spec /\ Fairness

-----------------------------------------------------------------------------
\* As long as no two daemons were starting at the same time, the lock file holds
\* the pid of the daemon that listens, whoever was killed and whatever became of
\* the pids; so there is at most one.
LockHeld == ~raced => \A p \in Listening : lock = p

\* LockHeld made inductive: whoever starts alone has the file to itself once it has
\* found it absent or stale, and no daemon but the one in the file runs.
LockInv ==
    ~raced =>
        /\ \A p, r \in Starting : p = r
        /\ \A p \in foreign : pc[p] = "none"
        /\ \A p \in Pids : pc[p] \in {"listen"} \cup EndPc => lock = p
        /\ \A p \in Pids : pc[p] = "probe" => seen[p] = lock \/ lock = NoFile
        /\ \A p \in Pids : pc[p] \in {"remove", "open", "write"} =>
                \A r \in Pids : pc[r] \notin {"listen"} \cup EndPc
        /\ \A p \in Pids : pc[p] = "write" => lock = Empty /\ p \in linked

\* However the starts interleave, a daemon listens again and again, with two
\* exceptions: one was killed with the lock file open and left it empty, or the pid
\* in the file has become that of another process.
Wedged == (lock = Empty /\ linked = {}) \/ lock \in foreign
ListenerReturns == []<>(Listening # {} \/ Wedged)
=============================================================================
