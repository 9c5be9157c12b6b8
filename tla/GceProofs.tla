------------------------------ MODULE GceProofs ------------------------------
(***************************************************************************)
(* For any number of machines, requests, returns and workers, any bounds   *)
(* and either kind of day: every state of GceMachines is one of the types  *)
(* that TypeOK lists, and what the database says of an instance has        *)
(* happened in the cloud.  CloudInv is the inductive invariant; it is      *)
(* closed under every step because the facts it speaks of only ever become *)
(* true.  One lemma per statement of the table, one per actor.             *)
(***************************************************************************)
EXTENDS GceProperties, TLAPS

-----------------------------------------------------------------------------
(* Type correctness *)

\* The numbers are states (the proofs below need no more of them).
LEMMA States ==
    /\ STORED \in MachineState /\ CREATED \in MachineState
    /\ INSERTED \in MachineState /\ DELETE_REQUESTED \in MachineState
    /\ DELETED \in MachineState
  BY DEF MachineState

\* What the statements write into a row leaves it a row.
LEMMA RowUpdates ==
    ASSUME NEW x \in DbRow
    PROVE  /\ \A s \in MachineState : [x EXCEPT !.state = s, !.expired = FALSE] \in DbRow
           /\ [x EXCEPT !.state = DELETED, !.grace = TRUE, !.expired = FALSE] \in DbRow
           /\ \A q \in Returns : [x EXCEPT !.ret = q, !.expired = FALSE] \in DbRow
           /\ [x EXCEPT !.ip = TRUE, !.expired = FALSE] \in DbRow
           /\ [x EXCEPT !.ip = FALSE, !.expired = FALSE] \in DbRow
           /\ [x EXCEPT !.expired = TRUE] \in DbRow
  <1>1. \A s \in MachineState : [x EXCEPT !.state = s, !.expired = FALSE] \in DbRow
    BY DEF DbRow, Row
  <1>2. [x EXCEPT !.state = DELETED, !.grace = TRUE, !.expired = FALSE] \in DbRow
    BY States DEF DbRow, Row
  <1>3. \A q \in Returns : [x EXCEPT !.ret = q, !.expired = FALSE] \in DbRow
    BY DEF DbRow, Row
  <1>4. /\ [x EXCEPT !.ip = TRUE, !.expired = FALSE] \in DbRow
        /\ [x EXCEPT !.ip = FALSE, !.expired = FALSE] \in DbRow
        /\ [x EXCEPT !.expired = TRUE] \in DbRow
    BY DEF DbRow, Row
  <1> QED
    BY <1>1, <1>2, <1>3, <1>4

\* A new row is a row.
LEMMA NewRow ==
    ASSUME NEW r \in Requests
    PROVE  [request |-> r, ret |-> NoId, state |-> STORED,
            ip |-> FALSE, grace |-> FALSE, expired |-> FALSE] \in DbRow
  BY States DEF DbRow, Row

\* Every statement on the table leaves a table of rows.
LEMMA StatementTypes ==
    ASSUME TableOK(rows), NEW S \in SUBSET Machines, NEW W \in SUBSET Machines
    PROVE  /\ \A r \in Requests : TableOK(InsertRows(r, S))
           /\ TableOK(UpdateCreated(S))
           /\ TableOK(UpdateInserted(S))
           /\ TableOK(UpdateDeleteRequested(S))
           /\ TableOK(UpdateDeleted(S))
           /\ \A q \in Returns : TableOK(UpdateReturned(q, S))
           /\ TableOK(UpdateIps(S, W))
           /\ TableOK(DeleteRows(S))
           /\ \A m \in DOMAIN rows : TableOK([rows EXCEPT ![m].expired = TRUE])
  <1>1. \A r \in Requests : TableOK(InsertRows(r, S))
    BY NewRow DEF InsertRows, TableOK
  <1>2. TableOK(UpdateCreated(S))
    BY RowUpdates, States DEF UpdateCreated, TableOK
  <1>3. TableOK(UpdateInserted(S))
    BY RowUpdates, States DEF UpdateInserted, TableOK
  <1>4. TableOK(UpdateDeleteRequested(S))
    BY RowUpdates, States DEF UpdateDeleteRequested, TableOK
  <1>5. TableOK(UpdateDeleted(S))
    BY RowUpdates, States DEF UpdateDeleted, TableOK
  <1>6. \A q \in Returns : TableOK(UpdateReturned(q, S))
    BY RowUpdates, States DEF UpdateReturned, TableOK
  <1>7. TableOK(UpdateIps(S, W))
    BY RowUpdates DEF UpdateIps, TableOK
  <1>8. TableOK(DeleteRows(S))
    BY DEF DeleteRows, TableOK
  <1>9. \A m \in DOMAIN rows : TableOK([rows EXCEPT ![m].expired = TRUE])
    BY RowUpdates DEF TableOK
  <1> QED
    BY <1>1, <1>2, <1>3, <1>4, <1>5, <1>6, <1>7, <1>8, <1>9

\* Threads start and go on as threads.
LEMMA ThreadTypes ==
    /\ \A w \in Workers, e \in Event, pc \in ThreadPc :
          [worker |-> w, event |-> e, pc |-> pc,
           todo |-> {}, withIp |-> {}, noIp |-> {}] \in Thread
    /\ \A t \in Thread :
          /\ \A pc \in ThreadPc : [t EXCEPT !.pc = pc] \in Thread
          /\ \A S \in SUBSET Machines, pc \in ThreadPc :
                [t EXCEPT !.todo = S, !.pc = pc] \in Thread
          /\ \A S \in SUBSET Machines, pc \in ThreadPc :
                [t EXCEPT !.pc = pc, !.todo = S] \in Thread
          /\ [t EXCEPT !.pc = "select", !.withIp = {}, !.noIp = {}] \in Thread
          /\ \A m \in Machines :
                /\ [t EXCEPT !.todo = @ \ {m}, !.withIp = @ \cup {m}] \in Thread
                /\ [t EXCEPT !.todo = @ \ {m}, !.noIp = @ \cup {m}] \in Thread
  <1>1. \A w \in Workers, e \in Event, pc \in ThreadPc :
          [worker |-> w, event |-> e, pc |-> pc,
           todo |-> {}, withIp |-> {}, noIp |-> {}] \in Thread
    BY DEF Thread
  <1>2. ASSUME NEW t \in Thread
        PROVE  /\ \A pc \in ThreadPc : [t EXCEPT !.pc = pc] \in Thread
               /\ \A S \in SUBSET Machines, pc \in ThreadPc :
                     [t EXCEPT !.todo = S, !.pc = pc] \in Thread
               /\ \A S \in SUBSET Machines, pc \in ThreadPc :
                     [t EXCEPT !.pc = pc, !.todo = S] \in Thread
    BY DEF Thread
  <1>3. ASSUME NEW t \in Thread
        PROVE  [t EXCEPT !.pc = "select", !.withIp = {}, !.noIp = {}] \in Thread
    BY DEF Thread, ThreadPc
  <1>4. ASSUME NEW t \in Thread, NEW m \in Machines
        PROVE  /\ [t EXCEPT !.todo = @ \ {m}, !.withIp = @ \cup {m}] \in Thread
               /\ [t EXCEPT !.todo = @ \ {m}, !.noIp = @ \cup {m}] \in Thread
    BY DEF Thread
  <1> QED
    BY <1>1, <1>2, <1>3, <1>4

\* An empty table and an idle host.
LEMMA InitType == Init => TypeOK
  BY GceAssumption DEF Init, TypeOK, TableOK, VmState

\* requestMachines, requestReturnMachines, trimDB, and crashes.
LEMMA CommandTypes ==
    ASSUME TypeOK,
           \/ \E r \in Requests : RequestStep(r)
           \/ \E q \in Returns : ReturnStep(q)
           \/ CmdTrim \/ DaemonStops \/ Crash
    PROVE  TypeOK'
  <1> USE DEF TypeOK
  <1>1. ASSUME NEW r \in Requests, RequestSubmit(r) PROVE TypeOK'
    BY <1>1 DEF RequestSubmit, VmState, Event, EventType, boundVars
  <1>2. ASSUME NEW r \in Requests, RequestStore(r) PROVE TypeOK'
    BY <1>2, StatementTypes DEF RequestStore, boundVars
  <1>3. ASSUME NEW r \in Requests, RequestAnswer(r) \/ RequestFails(r) PROVE TypeOK'
    BY <1>3 DEF RequestAnswer, RequestFails, boundVars
  <1>4. ASSUME NEW q \in Returns, ReturnRead(q) PROVE TypeOK'
    BY <1>4 DEF ReturnRead, Known, boundVars
  <1>5. ASSUME NEW q \in Returns, ReturnSubmit(q) PROVE TypeOK'
    BY <1>5 DEF ReturnSubmit, VmState, Event, EventType, boundVars
  <1>6. ASSUME NEW q \in Returns, ReturnStore(q) PROVE TypeOK'
    BY <1>6, StatementTypes DEF ReturnStore, boundVars
  <1>7. ASSUME NEW q \in Returns, ReturnAnswer(q) \/ ReturnFails(q) PROVE TypeOK'
    BY <1>7 DEF ReturnAnswer, ReturnFails, boundVars
  <1>8. CASE CmdTrimSelect
    BY <1>8 DEF CmdTrimSelect, TrimCandidates, TableOK, cliVars, boundVars
  <1>9. CASE CmdTrimDelete
    BY <1>9, StatementTypes DEF CmdTrimDelete, cliVars, boundVars
  <1>10. CASE DaemonStops
    BY <1>10, GceAssumption DEF DaemonStops, cliVars
  <1>11. CASE Crash
    BY <1>11, GceAssumption DEF Crash
  <1> QED
    BY <1>1, <1>2, <1>3, <1>4, <1>5, <1>6, <1>7, <1>8, <1>9, <1>10, <1>11
       DEF RequestStep, ReturnStep, CmdTrim

\* Google Cloud, and the passing of time.
LEMMA CloudTypes ==
    ASSUME TypeOK, NEW m \in Machines, CloudStep(m) \/ Expire(m)
    PROVE  TypeOK'
  <1> USE DEF TypeOK
  <1>1. CASE VmInsert(m)
    BY <1>1 DEF VmInsert, Publish, VmState, Event, EventType, cliVars, boundVars
  <1>2. CASE VmAddress(m)
    BY <1>2 DEF VmAddress, VmState, cliVars, boundVars
  <1>3. CASE VmDelete(m)
    BY <1>3 DEF VmDelete, Publish, VmState, Event, EventType, cliVars, boundVars
  <1>4. CASE VmPreempt(m)
    BY <1>4 DEF VmPreempt, Publish, VmState, Event, EventType, cliVars, boundVars
  <1>5. CASE Expire(m)
    BY <1>5, StatementTypes DEF Expire, cliVars, boundVars
  <1> QED
    BY <1>1, <1>2, <1>3, <1>4, <1>5 DEF CloudStep

\* The handlers of the five events.
LEMMA HandleTypes ==
    ASSUME TypeOK, NEW e \in events, Handle(e)
    PROVE  TypeOK'
  <1> USE DEF TypeOK
  <1>1. e \in Event /\ e.machines \in SUBSET Machines
    BY DEF Event
  <1>2. /\ StartThread(e, "ack") => threads' \subseteq Thread
        /\ StartThread(e, "trimSelect") => threads' \subseteq Thread
    BY <1>1, ThreadTypes DEF StartThread, Free, ThreadPc
  <1>3. CASE HandleInstancesCreated(e)
    BY <1>1, <1>2, <1>3, StatementTypes DEF HandleInstancesCreated, cliVars, boundVars
  <1>4. CASE HandleInstancesInserted(e)
    BY <1>1, <1>2, <1>4, StatementTypes DEF HandleInstancesInserted, cliVars, boundVars
  <1>5. CASE HandleGroupInstancesDeleted(e)
    BY <1>1, <1>2, <1>5, StatementTypes
       DEF HandleGroupInstancesDeleted, cliVars, boundVars
  <1>6. CASE HandleInstanceDeleted(e)
    BY <1>1, <1>2, <1>6, StatementTypes DEF HandleInstanceDeleted, cliVars, boundVars
  <1>7. CASE HandleInstancePreempted(e)
    BY <1>7 DEF HandleInstancePreempted, vars, cliVars, boundVars
  <1> QED
    BY <1>3, <1>4, <1>5, <1>6, <1>7 DEF Handle

\* What a callback does after its handler.
LEMMA ThreadStepTypes ==
    ASSUME TypeOK, NEW t \in threads, Ack(t) \/ IpStep(t) \/ TrimStep(t)
    PROVE  TypeOK'
  <1> USE DEF TypeOK
  <1>1. /\ t \in Thread
        /\ t.todo \in SUBSET Machines
        /\ t.withIp \in SUBSET Machines /\ t.noIp \in SUBSET Machines
    BY DEF Thread
  <1>2. ASSUME NEW u \in Thread, Replace(t, u)
        PROVE  threads' \subseteq Thread
    BY <1>2 DEF Replace
  <1>3. CASE Ack(t)
    <2>1. [t EXCEPT !.pc = "select"] \in Thread
      BY <1>1, ThreadTypes DEF ThreadPc
    <2>2. threads' \subseteq Thread
      BY <1>2, <1>3, <2>1 DEF Ack
    <2>3. lostAcks' \in 0..MaxLostAcks /\ events' \subseteq Event
      BY <1>3, GceAssumption DEF Ack
    <2> QED
      BY <1>3, <2>2, <2>3 DEF Ack, cliVars
  <1>4. CASE IpSelect(t)
    <2> DEFINE S == {m \in DOMAIN rows : /\ rows[m].request = t.event.op
                                         /\ ~rows[m].ip /\ rows[m].state >= CREATED}
    <2>1. S \in SUBSET Machines
      BY DEF TableOK
    <2>2. [t EXCEPT !.pc = "fetch", !.todo = S] \in Thread
      <3> HIDE DEF S
      <3> QED  BY <1>1, <2>1, ThreadTypes DEF ThreadPc
    <2>3. threads' \subseteq Thread
      BY <1>2, <1>4, <2>2 DEF IpSelect
    <2> QED
      BY <1>4, <2>3 DEF IpSelect, cliVars, boundVars
  <1>5. ASSUME NEW m \in Machines, IpFetch(t, m)
        PROVE  TypeOK'
    <2>1. threads' \subseteq Thread
      BY <1>1, <1>2, <1>5, ThreadTypes DEF IpFetch
    <2> QED
      BY <1>5, <2>1 DEF IpFetch, cliVars, boundVars
  <1>6. CASE IpStore(t)
    <2>1. threads' \subseteq Thread
      BY <1>1, <1>2, <1>6, ThreadTypes DEF IpStore
    <2> QED
      BY <1>1, <1>6, <2>1, StatementTypes DEF IpStore, cliVars, boundVars
  <1>7. CASE TrimSelect(t)
    <2>1. TrimCandidates \in SUBSET Machines
      BY DEF TrimCandidates, TableOK
    <2>2. threads' \subseteq Thread
      BY <1>1, <1>2, <1>7, <2>1, ThreadTypes DEF TrimSelect, ThreadPc
    <2> QED
      BY <1>7, <2>2 DEF TrimSelect, cliVars, boundVars
  <1>8. CASE TrimDelete(t)
    <2>1. threads' \subseteq Thread
      BY <1>1, <1>2, <1>8, ThreadTypes DEF TrimDelete, ThreadPc
    <2> QED
      BY <1>1, <1>8, <2>1, StatementTypes DEF TrimDelete, cliVars, boundVars
  <1> QED
    BY <1>3, <1>4, <1>5, <1>6, <1>7, <1>8 DEF IpStep, TrimStep

\* Every state the program can be in is one of the model's states, for any set
\* of machines, requests, returns and groups (rows, events, threads, commands).
THEOREM TypeCorrect == Spec => []TypeOK
  <1>1. TypeOK /\ [Next]_vars => TypeOK'
    <2> SUFFICES ASSUME TypeOK, [Next]_vars PROVE TypeOK'
      OBVIOUS
    <2>1. CASE UNCHANGED vars
      BY <2>1 DEF vars, cliVars, boundVars, TypeOK
    <2>2. CASE Next
      BY <2>2, CommandTypes, CloudTypes, HandleTypes, ThreadStepTypes DEF Next
    <2> QED
      BY <2>1, <2>2
  <1> QED
    BY InitType, <1>1, PTL DEF Spec

-----------------------------------------------------------------------------
(* The cloud only goes forward *)

\* The states a row tells apart are apart.
LEMMA StatesDiffer ==
    /\ STORED \notin {CREATED, INSERTED, DELETE_REQUESTED, DELETED}
    /\ CREATED \notin {INSERTED, DELETE_REQUESTED, DELETED}
    /\ INSERTED \notin {DELETE_REQUESTED, DELETED}
    /\ DELETE_REQUESTED # DELETED
  BY DEF STORED, CREATED, INSERTED, DELETE_REQUESTED, DELETED

\* The steps of the commands, the daemon and the cloud that move an instance.
MovesVm ==
    \/ \E r \in Requests : RequestSubmit(r)
    \/ \E q \in Returns : ReturnSubmit(q)
    \/ \E m \in Machines : CloudStep(m)

VmForward ==
    /\ Exists \subseteq Exists' /\ Born \subseteq Born'
    /\ Addressed \subseteq Addressed' /\ Leaving \subseteq Leaving'
    /\ Gone \subseteq Gone'

\* A step of anyone but the cloud.
LEMMA StillVm == ASSUME UNCHANGED vm PROVE VmForward
  BY DEF VmForward, Exists, Born, Addressed, Leaving, Gone

\* A step that moves an instance moves it forward.
LEMMA MovesForward ==
    ASSUME TypeOK, MovesVm
    PROVE  VmForward
  <1> USE DEF VmForward, Exists, Born, Addressed, Leaving, Gone, TypeOK, VmState
  <1>1. ASSUME NEW r \in Requests, RequestSubmit(r) PROVE VmForward
    BY <1>1 DEF RequestSubmit
  <1>2. ASSUME NEW q \in Returns, ReturnSubmit(q) PROVE VmForward
    BY <1>2 DEF ReturnSubmit
  <1>3. ASSUME NEW m \in Machines, CloudStep(m) PROVE VmForward
    BY <1>3 DEF CloudStep, VmInsert, VmAddress, VmDelete, VmPreempt
  <1> QED
    BY <1>1, <1>2, <1>3 DEF MovesVm

-----------------------------------------------------------------------------
(* The parts of CloudInv as the cloud moves under them *)

\* The rows, while the cloud moves under them.
LEMMA TableStays ==
    ASSUME VmForward, TableTrue(rows), UNCHANGED rows
    PROVE  TableTrue(rows)'
  BY DEF VmForward, TableTrue, RowTrue

\* An event once true stays true.
LEMMA EventsStay ==
    ASSUME VmForward, NEW e, EventTrue(e)
    PROVE  EventTrue(e)'
  BY DEF VmForward, EventTrue

\* What a callback has read stays true.
LEMMA ThreadsStay ==
    ASSUME VmForward, NEW t, ThreadTrue(t)
    PROVE  ThreadTrue(t)'
  BY DEF VmForward, ThreadTrue

\* Each statement writes the truth if what it is given is true.
LEMMA StatementsTrue ==
    ASSUME TableOK(rows), TableTrue(rows), NEW S, NEW W
    PROVE  /\ \A r \in Requests : S \subseteq Exists => TableTrue(InsertRows(r, S))
           /\ TableTrue(UpdateCreated(S))
           /\ S \subseteq Born => TableTrue(UpdateInserted(S))
           /\ S \subseteq Leaving => TableTrue(UpdateDeleteRequested(S))
           /\ S \subseteq Gone => TableTrue(UpdateDeleted(S))
           /\ \A q \in Returns : TableTrue(UpdateReturned(q, S))
           /\ S \subseteq Addressed => TableTrue(UpdateIps(S, W))
           /\ TableTrue(DeleteRows(S))
           /\ \A m \in DOMAIN rows : TableTrue([rows EXCEPT ![m].expired = TRUE])
  <1> USE StatesDiffer DEF TableTrue, RowTrue, TableOK, DbRow, Row
  <1>1. ASSUME NEW r \in Requests, S \subseteq Exists PROVE TableTrue(InsertRows(r, S))
    BY <1>1 DEF InsertRows
  <1>2. TableTrue(UpdateCreated(S))
    BY DEF UpdateCreated
  <1>3. ASSUME S \subseteq Born PROVE TableTrue(UpdateInserted(S))
    BY <1>3 DEF UpdateInserted
  <1>4. ASSUME S \subseteq Leaving PROVE TableTrue(UpdateDeleteRequested(S))
    BY <1>4 DEF UpdateDeleteRequested
  <1>5. ASSUME S \subseteq Gone PROVE TableTrue(UpdateDeleted(S))
    BY <1>5 DEF UpdateDeleted
  <1>6. ASSUME NEW q \in Returns PROVE TableTrue(UpdateReturned(q, S))
    BY DEF UpdateReturned
  <1>7. ASSUME S \subseteq Addressed PROVE TableTrue(UpdateIps(S, W))
    BY <1>7 DEF UpdateIps
  <1>8. TableTrue(DeleteRows(S))
    BY DEF DeleteRows
  <1>9. ASSUME NEW m \in DOMAIN rows PROVE TableTrue([rows EXCEPT ![m].expired = TRUE])
    OBVIOUS
  <1> QED
    BY <1>1, <1>2, <1>3, <1>4, <1>5, <1>6, <1>7, <1>8, <1>9

\* With the cloud at rest, a table that is true before the step is after it.
LEMMA TableWritten ==
    ASSUME UNCHANGED vm, TableTrue(rows')
    PROVE  TableTrue(rows)'
  BY DEF TableTrue, RowTrue, Exists, Born, Addressed, Leaving, Gone

-----------------------------------------------------------------------------
(* CloudInv is inductive *)

\* Nothing exists and nothing is said.
LEMMA InitCloud == Init => CloudInv
  BY DEF Init, CloudInv, TableTrue

\* requestMachines and requestReturnMachines.
LEMMA CommandCloud ==
    ASSUME TypeOK, CloudInv,
           \/ \E r \in Requests : RequestStep(r)
           \/ \E q \in Returns : ReturnStep(q)
    PROVE  CloudInv'
  <1>1. ASSUME NEW r \in Requests, RequestSubmit(r) PROVE CloudInv'
    <2>1. VmForward /\ UNCHANGED <<rows, threads, trimming>>
      BY <1>1, MovesForward DEF MovesVm, RequestSubmit
    <2>2. TableTrue(rows)' /\ (\A t \in threads' : ThreadTrue(t)') /\ trimming' \subseteq Gone'
      BY <2>1, TableStays, ThreadsStay DEF CloudInv, VmForward
    <2>3. \A p \in Requests : batch'[p] \subseteq Exists'
      BY <1>1, <2>1 DEF RequestSubmit, CloudInv, VmForward, Exists, TypeOK
    <2>4. \A e \in events' : EventTrue(e)'
      <3>1. \A e \in events : EventTrue(e)'
        BY <2>1, EventsStay DEF CloudInv
      <3>2. PICK S : events' = events \cup
                {[type |-> "createInstances", op |-> r, machines |-> S]}
        BY <1>1 DEF RequestSubmit
      <3>3. EventTrue([type |-> "createInstances", op |-> r, machines |-> S])'
        BY DEF EventTrue
      <3> QED
        BY <3>1, <3>2, <3>3
    <2> QED
      BY <2>2, <2>3, <2>4 DEF CloudInv
  <1>2. ASSUME NEW q \in Returns, ReturnSubmit(q) PROVE CloudInv'
    <2>1. VmForward /\ UNCHANGED <<rows, threads, batch, trimming>>
      BY <1>2, MovesForward DEF MovesVm, ReturnSubmit
    <2>2. /\ TableTrue(rows)' /\ (\A t \in threads' : ThreadTrue(t)')
          /\ trimming' \subseteq Gone' /\ \A p \in Requests : batch'[p] \subseteq Exists'
      BY <2>1, TableStays, ThreadsStay DEF CloudInv, VmForward
    <2>3. PICK S : /\ S \subseteq UNION {batch[r] : r \in Requests}
                   /\ vm' = [m \in Machines |->
                              IF m \in S /\ vm[m] \in {"pending", "staging", "running"}
                              THEN "stopping" ELSE vm[m]]
                   /\ events' = events \cup
                        {[type |-> "deleteInstances", op |-> NoId, machines |-> S]}
      <3>1. PICK r \in Requests :
              LET S == {m \in todo[q] : \E s \in Requests : m \in batch[s] /\ igm[s] = igm[r]}
              IN  /\ vm' = [m \in Machines |->
                            IF m \in S /\ vm[m] \in {"pending", "staging", "running"}
                            THEN "stopping" ELSE vm[m]]
                  /\ events' = events \cup
                        {[type |-> "deleteInstances", op |-> NoId, machines |-> S]}
        BY <1>2 DEF ReturnSubmit
      <3> DEFINE S == {m \in todo[q] : \E s \in Requests : m \in batch[s] /\ igm[s] = igm[r]}
      <3>2. S \subseteq UNION {batch[s] : s \in Requests}
        OBVIOUS
      <3> QED
        BY <3>1, <3>2
    <2>4. S \subseteq Leaving'
      BY <2>3 DEF CloudInv, Exists, Leaving, TypeOK, VmState
    <2>5. \A e \in events' : EventTrue(e)'
      <3>1. \A e \in events : EventTrue(e)'
        BY <2>1, EventsStay DEF CloudInv
      <3>2. EventTrue([type |-> "deleteInstances", op |-> NoId, machines |-> S])'
        BY <2>4 DEF EventTrue
      <3> QED
        BY <2>3, <3>1, <3>2
    <2> QED
      BY <2>2, <2>5 DEF CloudInv
  <1>3. ASSUME NEW r \in Requests, RequestStore(r) PROVE CloudInv'
    <2>1. TableTrue(rows')
      BY <1>3, StatementsTrue DEF RequestStore, CloudInv, TypeOK
    <2> QED
      BY <1>3, <2>1, TableWritten, StillVm, EventsStay, ThreadsStay
         DEF RequestStore, CloudInv, VmForward
  <1>4. ASSUME NEW q \in Returns, ReturnStore(q) PROVE CloudInv'
    <2>1. TableTrue(rows')
      BY <1>4, StatementsTrue DEF ReturnStore, CloudInv, TypeOK
    <2> QED
      BY <1>4, <2>1, TableWritten, StillVm, EventsStay, ThreadsStay
         DEF ReturnStore, CloudInv, VmForward
  <1>5. ASSUME UNCHANGED <<rows, vm, events, threads, batch, trimming>> PROVE CloudInv'
    BY <1>5, StillVm, TableStays, EventsStay, ThreadsStay DEF CloudInv, VmForward
  <1> QED
    BY <1>1, <1>2, <1>3, <1>4, <1>5
       DEF RequestStep, ReturnStep, RequestAnswer, RequestFails, ReturnRead, ReturnAnswer,
           ReturnFails

\* Google Cloud: what it publishes is true when it publishes it.
LEMMA CloudCloud ==
    ASSUME TypeOK, CloudInv, NEW m \in Machines, CloudStep(m)
    PROVE  CloudInv'
  <1>1. VmForward /\ UNCHANGED <<rows, threads, batch, trimming>>
    BY MovesForward
       DEF MovesVm, CloudStep, VmInsert, VmAddress, VmDelete, VmPreempt, cliVars
  <1>2. /\ TableTrue(rows)' /\ (\A t \in threads' : ThreadTrue(t)')
        /\ trimming' \subseteq Gone' /\ \A r \in Requests : batch'[r] \subseteq Exists'
    BY <1>1, TableStays, ThreadsStay DEF CloudInv, VmForward
  <1>3. \A e \in events : EventTrue(e)'
    BY <1>1, EventsStay DEF CloudInv
  <1>4. \A e \in events' : EventTrue(e)'
    <2> DEFINE Said(type) == [type |-> type, op |-> NoId, machines |-> {m}]
    <2>1. CASE VmInsert(m)
      <3>1. EventTrue(Said("insert"))'
        BY <2>1 DEF VmInsert, EventTrue, Born, TypeOK
      <3> QED  BY <1>3, <2>1, <3>1 DEF VmInsert, Publish
    <2>2. CASE VmAddress(m)
      BY <1>3, <2>2 DEF VmAddress
    <2>3. CASE VmDelete(m)
      <3>1. EventTrue(Said("delete"))'
        BY <2>3 DEF VmDelete, EventTrue, Gone, TypeOK
      <3> QED  BY <1>3, <2>3, <3>1 DEF VmDelete, Publish
    <2>4. CASE VmPreempt(m)
      <3>1. EventTrue(Said("preempted"))'
        BY DEF EventTrue
      <3> QED  BY <1>3, <2>4, <3>1 DEF VmPreempt, Publish
    <2> QED
      BY <2>1, <2>2, <2>3, <2>4 DEF CloudStep
  <1> QED
    BY <1>2, <1>4 DEF CloudInv

\* The passing of time, the trimDB command and crashes.
LEMMA OtherCloud ==
    ASSUME TypeOK, CloudInv,
           (\E m \in Machines : Expire(m)) \/ CmdTrim \/ DaemonStops \/ Crash
    PROVE  CloudInv'
  <1>1. ASSUME NEW m \in Machines, Expire(m) PROVE CloudInv'
    <2>1. TableTrue(rows')
      BY <1>1, StatementsTrue DEF Expire, CloudInv, TypeOK
    <2> QED
      BY <1>1, <2>1, TableWritten, StillVm, EventsStay, ThreadsStay
         DEF Expire, CloudInv, VmForward, cliVars
  <1>2. CASE CmdTrimSelect
    <2>1. trimming' \subseteq Gone
      BY <1>2 DEF CmdTrimSelect, TrimCandidates, CloudInv, TableTrue, RowTrue
    <2> QED
      BY <1>2, <2>1, TableStays, StillVm, EventsStay, ThreadsStay
         DEF CmdTrimSelect, CloudInv, VmForward, cliVars
  <1>3. CASE CmdTrimDelete
    <2>1. TableTrue(rows')
      BY <1>3, StatementsTrue DEF CmdTrimDelete, CloudInv, TypeOK
    <2> QED
      BY <1>3, <2>1, TableWritten, StillVm, EventsStay, ThreadsStay
         DEF CmdTrimDelete, CloudInv, VmForward, cliVars
  <1>4. CASE DaemonStops \/ Crash
    BY <1>4, TableStays, StillVm, EventsStay, ThreadsStay
       DEF DaemonStops, Crash, cliVars, CloudInv, VmForward
  <1> QED
    BY <1>1, <1>2, <1>3, <1>4 DEF CmdTrim

\* The handlers: an event is believed, and what it says has happened.
LEMMA HandleCloud ==
    ASSUME TypeOK, CloudInv, NEW e \in events, Handle(e)
    PROVE  CloudInv'
  <1>1. EventTrue(e) /\ TableOK(rows) /\ TableTrue(rows)
    BY DEF CloudInv, TypeOK
  <1>2. CASE HandleInstancePreempted(e)
    BY <1>2, TableStays, StillVm, EventsStay, ThreadsStay
       DEF HandleInstancePreempted, CloudInv, VmForward, vars, cliVars
  <1>3. ASSUME TableTrue(rows'), StartThread(e, "ack") \/ StartThread(e, "trimSelect"),
               UNCHANGED <<vm, events, cliVars, trimming>>
        PROVE  CloudInv'
    <2>1. \A t \in threads' : ThreadTrue(t)
      BY <1>3 DEF StartThread, ThreadTrue, CloudInv
    <2> QED
      BY <1>3, <2>1, TableWritten, StillVm, EventsStay, ThreadsStay
         DEF CloudInv, VmForward, cliVars, ThreadTrue
  <1>4. CASE HandleInstancesCreated(e)
    BY <1>1, <1>3, <1>4, StatementsTrue DEF HandleInstancesCreated
  <1>5. CASE HandleInstancesInserted(e)
    BY <1>1, <1>3, <1>5, StatementsTrue DEF HandleInstancesInserted, Deliverable, EventTrue
  <1>6. CASE HandleGroupInstancesDeleted(e)
    BY <1>1, <1>3, <1>6, StatementsTrue
       DEF HandleGroupInstancesDeleted, Deliverable, EventTrue
  <1>7. CASE HandleInstanceDeleted(e)
    BY <1>1, <1>3, <1>7, StatementsTrue DEF HandleInstanceDeleted, Deliverable, EventTrue
  <1> QED
    BY <1>2, <1>4, <1>5, <1>6, <1>7 DEF Handle

\* The steps of a thread: what it fetched or selected is still true when it is
\* written, however much later that is.
LEMMA ThreadCloud ==
    ASSUME TypeOK, CloudInv, NEW t \in threads, Ack(t) \/ IpStep(t) \/ TrimStep(t)
    PROVE  CloudInv'
  <1>1. /\ t \in Thread /\ ThreadTrue(t)
        /\ TableOK(rows) /\ TableTrue(rows)
    BY DEF CloudInv, TypeOK
  <1>2. ASSUME NEW u, Replace(t, u) \/ threads' = threads \ {t}, ThreadTrue(u),
               TableTrue(rows'), events' \subseteq events, UNCHANGED <<vm, batch, trimming>>
        PROVE  CloudInv'
    <2>1. \A v \in threads' : v \in threads \/ v = u
      BY <1>2 DEF Replace
    <2>2. \A v \in threads' : ThreadTrue(v)'
      BY <1>2, <2>1, StillVm, ThreadsStay DEF CloudInv
    <2>3. \A e \in events' : EventTrue(e)'
      BY <1>2, StillVm, EventsStay DEF CloudInv
    <2> QED
      BY <1>2, <2>2, <2>3, TableWritten, StillVm DEF CloudInv, VmForward
  <1>3. CASE Ack(t)
    <2>1. ThreadTrue([t EXCEPT !.pc = "select"])
      BY <1>1 DEF ThreadTrue, Thread
    <2> QED
      BY <1>1, <1>2, <1>3, <2>1 DEF Ack, cliVars
  <1>4. CASE IpSelect(t)
    <2>1. PICK S : Replace(t, [t EXCEPT !.pc = "fetch", !.todo = S])
      BY <1>4 DEF IpSelect
    <2>2. ThreadTrue([t EXCEPT !.pc = "fetch", !.todo = S])
      BY <1>1 DEF ThreadTrue, Thread
    <2> QED
      BY <1>1, <1>2, <1>4, <2>1, <2>2 DEF IpSelect, cliVars
  <1>5. ASSUME NEW m \in Machines, IpFetch(t, m) PROVE CloudInv'
    <2>1. vm[m] \in {"running", "stopping"} =>
              ThreadTrue([t EXCEPT !.todo = @ \ {m}, !.withIp = @ \cup {m}])
      BY <1>1, <1>5 DEF IpFetch, ThreadTrue, Thread, Addressed
    <2>2. ThreadTrue([t EXCEPT !.todo = @ \ {m}, !.noIp = @ \cup {m}])
      BY <1>1, <1>5 DEF IpFetch, ThreadTrue, Thread
    <2> QED
      BY <1>1, <1>2, <1>5, <2>1, <2>2 DEF IpFetch, cliVars
  <1>6. CASE IpStore(t)
    <2>1. TableTrue(rows')
      BY <1>1, <1>6, StatementsTrue DEF IpStore, ThreadTrue
    <2>2. ThreadTrue([t EXCEPT !.pc = "select", !.withIp = {}, !.noIp = {}])
      BY <1>1 DEF ThreadTrue, Thread
    <2> QED
      BY <1>2, <1>6, <2>1, <2>2 DEF IpStore, cliVars
  <1>7. CASE TrimSelect(t)
    <2>1. TrimCandidates \subseteq Gone
      BY <1>1 DEF TrimCandidates, TableTrue, RowTrue
    <2> DEFINE u == [t EXCEPT !.todo = TrimCandidates,
                              !.pc = IF TrimCandidates = {} THEN "ack" ELSE "trimDelete"]
    <2>2. ThreadTrue(u)
      BY <1>1, <2>1 DEF ThreadTrue, Thread
    <2>3. Replace(t, u)
      BY <1>7 DEF TrimSelect
    <2> HIDE DEF u
    <2> QED
      BY <1>1, <1>2, <1>7, <2>2, <2>3 DEF TrimSelect, cliVars
  <1>8. CASE TrimDelete(t)
    <2>1. TableTrue(rows')
      BY <1>1, <1>8, StatementsTrue DEF TrimDelete
    <2>2. ThreadTrue([t EXCEPT !.todo = {}, !.pc = "ack"])
      BY <1>1 DEF ThreadTrue, Thread
    <2> QED
      BY <1>2, <1>8, <2>1, <2>2 DEF TrimDelete, cliVars
  <1> QED
    BY <1>3, <1>4, <1>5, <1>6, <1>7, <1>8 DEF IpStep, TrimStep

\* Whatever the interleaving, every row, event, fetched address and name to trim
\* is true of the cloud.
THEOREM CloudInvariant == Spec => [](TypeOK /\ CloudInv)
  <1>1. CloudInv /\ TypeOK /\ [Next]_vars => CloudInv'
    <2> SUFFICES ASSUME CloudInv, TypeOK, [Next]_vars PROVE CloudInv'
      OBVIOUS
    <2>1. CASE UNCHANGED vars
      BY <2>1, TableStays, StillVm, EventsStay, ThreadsStay
         DEF CloudInv, VmForward, vars, cliVars
    <2>2. CASE Next
      BY <2>2, CommandCloud, CloudCloud, OtherCloud, HandleCloud, ThreadCloud DEF Next
    <2> QED
      BY <2>1, <2>2
  <1> QED
    BY InitCloud, TypeCorrect, <1>1, PTL DEF Spec

-----------------------------------------------------------------------------
(* What follows for those who read the database *)

\* The database never runs ahead of the cloud: INSERTED, an address,
\* DELETE_REQUESTED and DELETED are written only of instances that came into
\* being, got an address, are leaving, are gone.
THEOREM DatabaseBehindCloud == Spec => []DbBehindCloud
  <1>1. TypeOK /\ CloudInv => DbBehindCloud
    BY DEF CloudInv, TableTrue, RowTrue, DbBehindCloud, Born, Addressed, Leaving, Gone
  <1> QED
    BY CloudInvariant, <1>1, PTL

\* getReturnRequests finds a grace period in every row that it offers.
THEOREM OffersValidate == Spec => []OfferedHasGrace
  <1>1. CloudInv => OfferedHasGrace
    BY DEF CloudInv, TableTrue, RowTrue, OfferedHasGrace, Offered
  <1> QED
    BY CloudInvariant, <1>1, PTL

\* A trim, by the daemon or by trimDB, removes only rows of instances that have
\* left the cloud, although it deletes by name what it selected earlier.
THEOREM TrimsOnlyGone == Spec => TrimOnlyGone
  <1>1. TypeOK /\ CloudInv /\ [Next]_vars =>
            [\A m \in DOMAIN rows \ DOMAIN rows' : vm[m] = "gone"]_vars
    <2> SUFFICES ASSUME TypeOK, CloudInv, Next,
                        NEW m \in DOMAIN rows, m \notin DOMAIN rows'
                 PROVE  vm[m] = "gone"
      OBVIOUS
    <2>1. \/ CmdTrimDelete
          \/ \E t \in threads : TrimDelete(t)
          \/ DOMAIN rows \subseteq DOMAIN rows'
      BY DEF Next, RequestStep, RequestSubmit, RequestStore, RequestAnswer, RequestFails,
             ReturnStep, ReturnRead, ReturnSubmit, ReturnStore, ReturnAnswer, ReturnFails,
             CloudStep, VmInsert, VmAddress, VmDelete, VmPreempt, Expire,
             Handle, HandleInstancesCreated, HandleInstancesInserted,
             HandleGroupInstancesDeleted, HandleInstanceDeleted,
             HandleInstancePreempted, Ack, IpStep, IpSelect, IpFetch, IpStore,
             TrimStep, TrimSelect, CmdTrim, CmdTrimSelect, DaemonStops, Crash,
             InsertRows, UpdateCreated, UpdateInserted, UpdateDeleteRequested,
             UpdateDeleted, UpdateReturned, UpdateIps, vars
    <2>2. CASE CmdTrimDelete
      BY <2>2 DEF CmdTrimDelete, DeleteRows, CloudInv, Gone
    <2>3. CASE \E t \in threads : TrimDelete(t)
      BY <2>3 DEF TrimDelete, DeleteRows, CloudInv, ThreadTrue, Gone
    <2> QED
      BY <2>1, <2>2, <2>3
  <1> QED
    BY CloudInvariant, <1>1, PTL DEF Spec, TrimOnlyGone
=============================================================================
