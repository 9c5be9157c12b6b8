--------------------------- MODULE DaemonLockProofs ---------------------------
(***************************************************************************)
(* As long as no two daemons start at the same time, the one that listens  *)
(* holds the lock file: for any number of pids and of kills.               *)
(***************************************************************************)
EXTENDS DaemonLock, TLAPS

\* The lock module is well typed: every step leaves every variable in its type.
THEOREM TypeCorrect == Spec => []TypeOK
<1>1. Init => TypeOK
  <2> SUFFICES ASSUME Init PROVE TypeOK
    OBVIOUS
  <2>1. /\ lock \in Content \cup {NoFile} /\ linked \subseteq Pids
        /\ foreign \subseteq Pids /\ raced \in BOOLEAN
    BY DEF Init
  <2>2. pc \in [Pids -> StartPc \cup EndPc \cup {"none", "listen"}]
    BY DEF Init
  <2>3. seen \in [Pids -> Content]
    BY DEF Init, Content
  <2>4. kills \in 0..MaxKills
    BY LockAssumption DEF Init
  <2> QED
    BY <2>1, <2>2, <2>3, <2>4 DEF TypeOK
<1>2. TypeOK /\ [Next]_vars => TypeOK'
  <2> SUFFICES ASSUME TypeOK, [Next]_vars PROVE TypeOK'
    OBVIOUS
  <2> USE LockAssumption DEF TypeOK, Content, StartPc, EndPc, Goto
  <2>1. ASSUME NEW p \in Pids, Launch(p) PROVE TypeOK'
    BY <2>1 DEF Launch
  <2>2. ASSUME NEW p \in Pids, CheckFile(p) PROVE TypeOK'
    BY <2>2 DEF CheckFile
  <2>3. ASSUME NEW p \in Pids, ReadFile(p) PROVE TypeOK'
    BY <2>3 DEF ReadFile
  <2>4. ASSUME NEW p \in Pids, Probe(p) PROVE TypeOK'
    BY <2>4 DEF Probe
  <2>5. ASSUME NEW p \in Pids, RemoveStale(p) PROVE TypeOK'
    BY <2>5 DEF RemoveStale, RemoveFile
  <2>6. ASSUME NEW p \in Pids, OpenFile(p) PROVE TypeOK'
    BY <2>6 DEF OpenFile
  <2>7. ASSUME NEW p \in Pids, WritePid(p) PROVE TypeOK'
    BY <2>7 DEF WritePid
  <2>8. ASSUME NEW p \in Pids, ListenEnds(p) PROVE TypeOK'
    BY <2>8 DEF ListenEnds
  <2>9. ASSUME NEW p \in Pids, CheckOwn(p) PROVE TypeOK'
    BY <2>9 DEF CheckOwn
  <2>10. ASSUME NEW p \in Pids, Unlink(p) PROVE TypeOK'
    BY <2>10 DEF Unlink, RemoveFile
  <2>11. ASSUME NEW p \in Pids, Kill(p) PROVE TypeOK'
    BY <2>11 DEF Kill
  <2>12. ASSUME NEW p \in Pids, ForeignStarts(p) \/ ForeignEnds(p) PROVE TypeOK'
    BY <2>12 DEF ForeignStarts, ForeignEnds
  <2>13. CASE UNCHANGED vars
    BY <2>13 DEF vars
  <2> QED
    BY <2>1, <2>2, <2>3, <2>4, <2>5, <2>6, <2>7, <2>8, <2>9, <2>10, <2>11, <2>12, <2>13
    DEF Next, Enter, Leave
<1> QED
  BY <1>1, <1>2, PTL DEF Spec

\* The inductive invariant, of any number of pids and kills.
THEOREM LockInvariant == Spec => []LockInv
<1>1. Init => LockInv
  BY DEF Init, LockInv, Starting, StartPc, EndPc
<1>2. TypeOK /\ LockInv /\ [Next]_vars => LockInv'
  <2> SUFFICES ASSUME TypeOK, LockInv, [Next]_vars, ~raced' PROVE LockInv'
    BY DEF LockInv
  <2>0. ~raced
    BY DEF Next, Launch, Enter, CheckFile, ReadFile, Probe, RemoveStale, OpenFile, WritePid,
           ListenEnds, Leave, CheckOwn, Unlink, Kill, ForeignStarts, ForeignEnds, vars, TypeOK
  <2> USE <2>0, LockAssumption DEF TypeOK, LockInv, Content, Starting, StartPc, EndPc, Goto
  <2>1. ASSUME NEW p \in Pids, Launch(p) PROVE LockInv'
    BY <2>1 DEF Launch, Alive
  <2>2. ASSUME NEW p \in Pids, CheckFile(p) PROVE LockInv'
    BY <2>2 DEF CheckFile
  <2>3. ASSUME NEW p \in Pids, ReadFile(p) PROVE LockInv'
    BY <2>3 DEF ReadFile
  <2>4. ASSUME NEW p \in Pids, Probe(p) PROVE LockInv'
    BY <2>4 DEF Probe, Alive
  <2>5. ASSUME NEW p \in Pids, RemoveStale(p) PROVE LockInv'
    BY <2>5 DEF RemoveStale, RemoveFile
  <2>6. ASSUME NEW p \in Pids, OpenFile(p) PROVE LockInv'
    BY <2>6 DEF OpenFile
  <2>7. ASSUME NEW p \in Pids, WritePid(p) PROVE LockInv'
    BY <2>7 DEF WritePid
  <2>8. ASSUME NEW p \in Pids, ListenEnds(p) PROVE LockInv'
    BY <2>8 DEF ListenEnds
  <2>9. ASSUME NEW p \in Pids, CheckOwn(p) PROVE LockInv'
    BY <2>9 DEF CheckOwn
  <2>10. ASSUME NEW p \in Pids, Unlink(p) PROVE LockInv'
    BY <2>10 DEF Unlink, RemoveFile
  <2>11. ASSUME NEW p \in Pids, Kill(p) PROVE LockInv'
    BY <2>11 DEF Kill
  <2>12. ASSUME NEW p \in Pids, ForeignStarts(p) \/ ForeignEnds(p) PROVE LockInv'
    BY <2>12 DEF ForeignStarts, ForeignEnds, Alive
  <2>13. CASE UNCHANGED vars
    BY <2>13 DEF vars
  <2> QED
    BY <2>1, <2>2, <2>3, <2>4, <2>5, <2>6, <2>7, <2>8, <2>9, <2>10, <2>11, <2>12, <2>13
    DEF Next, Enter, Leave
<1> QED
  BY <1>1, <1>2, TypeCorrect, PTL DEF Spec

\* The daemon that listens is the one in the lock file, unless two daemons have
\* started at the same time.
THEOREM ListenerHoldsLock == Spec => []LockHeld
<1>1. LockInv => LockHeld
  BY DEF LockInv, LockHeld, Listening
<1> QED
  BY <1>1, LockInvariant, PTL

\* The file is empty, nobody has it open, and nobody is past the look at it: what a
\* daemon that is killed between creating the file and writing its pid can leave.
Dead ==
    /\ lock = Empty /\ linked = {}
    /\ \A p \in Pids : pc[p] \in {"none", "check", "read"}
                       \/ (pc[p] = "probe" /\ seen[p] = Empty)

\* From then on no daemon ever listens again, however often one is launched: the
\* exception in ListenerReturns is one that nothing in the code ends.
THEOREM DeadForEver == Spec => [](Dead => [](Dead /\ Listening = {}))
<1>1. TypeOK /\ Dead /\ [Next]_vars => Dead'
  <2> SUFFICES ASSUME TypeOK, Dead, [Next]_vars PROVE Dead'
    OBVIOUS
  <2> USE LockAssumption DEF TypeOK, Dead, Goto
  <2>1. ASSUME NEW p \in Pids, Launch(p) PROVE Dead'
    BY <2>1 DEF Launch
  <2>2. ASSUME NEW p \in Pids, Enter(p) PROVE Dead'
    BY <2>2 DEF Enter, CheckFile, ReadFile, Probe, RemoveStale, OpenFile, WritePid
  <2>3. ASSUME NEW p \in Pids, ListenEnds(p) \/ Leave(p) PROVE Dead'
    BY <2>3 DEF ListenEnds, Leave, CheckOwn, Unlink
  <2>4. ASSUME NEW p \in Pids, Kill(p) \/ ForeignStarts(p) \/ ForeignEnds(p) PROVE Dead'
    BY <2>4 DEF Kill, ForeignStarts, ForeignEnds
  <2>5. CASE UNCHANGED vars
    BY <2>5 DEF vars
  <2> QED
    BY <2>1, <2>2, <2>3, <2>4, <2>5 DEF Next
<1>2. Dead => Listening = {}
  BY DEF Dead, Listening
<1> QED
  BY <1>1, <1>2, TypeCorrect, PTL DEF Spec
=============================================================================
