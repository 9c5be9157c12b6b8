---------------------------- MODULE GceLifeProofs ----------------------------
(***************************************************************************)
(* The GCE provider implements MachineLife; on a quiet day its rows only   *)
(* go forward and miss nothing of what has become of the machines; no      *)
(* address is forgotten while the daemon lives; and the callbacks that may *)
(* wait for ever are bounded by the calls of requestMachines.  For any     *)
(* number of machines, requests, returns, groups and threads, of crashes   *)
(* and of lost acknowledgements.                                           *)
(***************************************************************************)
EXTENDS GceReturnProofs, FiniteSetTheorems

-----------------------------------------------------------------------------
(* Every step is a step of MachineLife *)

DeletedIn(f) == {m \in DOMAIN f : f[m].state = DELETED}
Live == Exists \ Gone

\* The statements that neither make nor delete a row move the set of DELETED rows in
\* one direction.
Tells(f) ==
    /\ DOMAIN f = DOMAIN rows
    /\ DeletedIn(rows) \subseteq DeletedIn(f) \/ DeletedIn(f) \subseteq DeletedIn(rows)

LEMMA StatementsTell ==
    ASSUME TableOK(rows), NEW S, NEW W
    PROVE  /\ Tells(rows)
           /\ Tells(UpdateCreated(S))
           /\ Tells(UpdateInserted(S))
           /\ Tells(UpdateDeleteRequested(S))
           /\ Tells(UpdateDeleted(S))
           /\ \A q \in Returns : Tells(UpdateReturned(q, S))
           /\ Tells(UpdateIps(S, W))
           /\ \A m \in DOMAIN rows : Tells([rows EXCEPT ![m].expired = TRUE])
  <1> USE StatesDiffer DEF Tells, DeletedIn, TableOK, DbRow, Row
  <1>1. Tells(rows)
    OBVIOUS
  <1>2. Tells(UpdateCreated(S))
    BY DEF UpdateCreated
  <1>3. Tells(UpdateInserted(S))
    BY DEF UpdateInserted
  <1>4. Tells(UpdateDeleteRequested(S))
    BY DEF UpdateDeleteRequested
  <1>5. Tells(UpdateDeleted(S))
    BY DEF UpdateDeleted
  <1>6. \A q \in Returns : Tells(UpdateReturned(q, S))
    BY DEF UpdateReturned
  <1>7. Tells(UpdateIps(S, W))
    BY DEF UpdateIps
  <1>8. \A m \in DOMAIN rows : Tells([rows EXCEPT ![m].expired = TRUE])
    OBVIOUS
  <1> QED
    BY <1>1, <1>2, <1>3, <1>4, <1>5, <1>6, <1>7, <1>8

\* The abstract variables, and that the mapped ones are these.
LEMMA Mapping ==
    /\ Life!lifeVars = <<Live, Gone, DOMAIN rows, DeletedIn(rows)>>
    /\ Life!lifeVars' = <<Live', Gone', DOMAIN rows', DeletedIn(rows')>>
  BY DEF Life!lifeVars, Live, DeletedIn

\* A statement on the rows tells or takes back.
LEMMA TellStep ==
    ASSUME TypeOK, CloudInv', TypeOK', UNCHANGED vm, Tells(rows')
    PROVE  [Life!Next]_(Life!lifeVars)
  <1>1. UNCHANGED <<Live, Gone>>
    BY DEF Live, Exists, Gone
  <1>2. DeletedIn(rows') \subseteq Gone
    BY <1>1 DEF CloudInv, TableTrue, RowTrue, DeletedIn
  <1>3. DOMAIN rows' = DOMAIN rows
    BY DEF Tells
  <1>4. DeletedIn(rows) \in SUBSET Machines /\ DeletedIn(rows') \in SUBSET Machines
    BY DEF DeletedIn, TypeOK, TableOK
  <1>5. CASE DeletedIn(rows) \subseteq DeletedIn(rows')
    <2>1. PICK S \in SUBSET Machines : S = DeletedIn(rows')
      BY <1>4
    <2>2. Life!Tell(S)
      BY <1>1, <1>2, <1>3, <1>5, <2>1 DEF Life!Tell, Live, DeletedIn
    <2> QED
      BY <2>2 DEF Life!Next
  <1>6. CASE DeletedIn(rows') \subseteq DeletedIn(rows)
    <2>1. PICK S \in SUBSET Machines : S = DeletedIn(rows) \ DeletedIn(rows')
      BY <1>4
    <2>2. Life!Retract(S)
      BY <1>1, <1>3, <1>6, <2>1 DEF Life!Retract, Live, DeletedIn
    <2> QED
      BY <2>2 DEF Life!Next
  <1> QED
    BY <1>5, <1>6 DEF Tells

\* A trim forgets machines that are gone.
LEMMA ForgetStep ==
    ASSUME TypeOK, NEW S, S \subseteq Gone, UNCHANGED vm, rows' = DeleteRows(S)
    PROVE  [Life!Next]_(Life!lifeVars)
  <1>1. UNCHANGED <<Live, Gone>>
    BY DEF Live, Exists, Gone
  <1>2. DOMAIN rows' = DOMAIN rows \ S /\ DeletedIn(rows') \subseteq DeletedIn(rows)
    BY DEF DeleteRows, DeletedIn
  <1>3. Life!Forget(S)
    BY <1>1, <1>2 DEF Life!Forget, Live, DeletedIn
  <1>4. S \in SUBSET Machines
    BY DEF Gone
  <1> QED
    BY <1>3, <1>4 DEF Life!Next

\* The commands.
LEMMA CommandLife ==
    ASSUME TypeOK, CloudInv, TypeOK', CloudInv',
           \/ \E r \in Requests : RequestStep(r)
           \/ \E q \in Returns : ReturnStep(q)
    PROVE  [Life!Next]_(Life!lifeVars)
  <1>1. ASSUME NEW r \in Requests, RequestSubmit(r) PROVE [Life!Next]_(Life!lifeVars)
    <2>1. PICK S \in SUBSET {m \in Machines : vm[m] = "none"} :
              vm' = [m \in Machines |-> IF m \in S THEN "pending" ELSE vm[m]]
      BY <1>1 DEF RequestSubmit
    <2>2. Live' = Live \cup S /\ Gone' = Gone
      BY <2>1 DEF Live, Exists, Gone, TypeOK
    <2>3. UNCHANGED rows
      BY <1>1 DEF RequestSubmit
    <2>4. Life!Appear(S)
      BY <2>2, <2>3 DEF Life!Appear, Live
    <2> QED
      BY <2>4 DEF Life!Next
  <1>2. ASSUME NEW r \in Requests, RequestStore(r) PROVE [Life!Next]_(Life!lifeVars)
    <2>1. UNCHANGED <<Live, Gone>>
      BY <1>2 DEF RequestStore, Live, Exists, Gone
    <2>2. DOMAIN rows' = DOMAIN rows \cup batch[r]
      BY <1>2 DEF RequestStore, InsertRows
    <2>3. DeletedIn(rows') = DeletedIn(rows)
      BY <1>2, StatesDiffer DEF RequestStore, InsertRows, DeletedIn
    <2>4. batch[r] \subseteq Live \cup Gone
      BY DEF CloudInv, Live
    <2>5. Life!Record(batch[r])
      BY <2>1, <2>2, <2>3, <2>4 DEF Life!Record, Live, DeletedIn
    <2>6. batch[r] \in SUBSET Machines
      BY DEF TypeOK
    <2> QED
      BY <2>5, <2>6 DEF Life!Next
  <1>3. ASSUME NEW q \in Returns, ReturnSubmit(q) PROVE [Life!Next]_(Life!lifeVars)
    <2>1. PICK S : vm' = [m \in Machines |->
                            IF m \in S /\ vm[m] \in {"pending", "staging", "running"}
                            THEN "stopping" ELSE vm[m]]
      BY <1>3 DEF ReturnSubmit
    <2>2. Live' = Live /\ Gone' = Gone
      BY <2>1 DEF Live, Exists, Gone, TypeOK
    <2>3. UNCHANGED rows
      BY <1>3 DEF ReturnSubmit
    <2> QED
      BY <2>2, <2>3, Mapping
  <1>4. ASSUME NEW q \in Returns, ReturnStore(q) PROVE [Life!Next]_(Life!lifeVars)
    <2>1. UNCHANGED vm /\ Tells(rows')
      BY <1>4, StatementsTell DEF ReturnStore, TypeOK
    <2> QED
      BY <2>1, TellStep
  <1>5. ASSUME UNCHANGED <<rows, vm>> PROVE [Life!Next]_(Life!lifeVars)
    BY <1>5, Mapping DEF Live, Exists, Gone
  <1> QED
    BY <1>1, <1>2, <1>3, <1>4, <1>5
       DEF RequestStep, ReturnStep, RequestAnswer, RequestFails, ReturnRead, ReturnAnswer,
           ReturnFails

\* The cloud.
LEMMA CloudLife ==
    ASSUME TypeOK, NEW m \in Machines, CloudStep(m)
    PROVE  [Life!Next]_(Life!lifeVars)
  <1>1. UNCHANGED rows
    BY DEF CloudStep, VmInsert, VmAddress, VmDelete, VmPreempt
  <1>2. CASE VmInsert(m) \/ VmAddress(m)
    <2>1. Live' = Live /\ Gone' = Gone
      BY <1>2 DEF VmInsert, VmAddress, Live, Exists, Gone, TypeOK
    <2> QED
      BY <1>1, <2>1, Mapping
  <1>3. CASE VmDelete(m) \/ VmPreempt(m)
    <2>1. m \in Live /\ Live' = Live \ {m} /\ Gone' = Gone \cup {m}
      BY <1>3 DEF VmDelete, VmPreempt, Live, Exists, Gone, TypeOK
    <2>2. Life!Leave({m})
      BY <1>1, <2>1 DEF Life!Leave, Live
    <2> QED
      BY <2>2 DEF Life!Next
  <1> QED
    BY <1>2, <1>3 DEF CloudStep

\* The daemon, time, trimDB and crashes.
LEMMA DaemonLife ==
    ASSUME TypeOK, CloudInv, TypeOK', CloudInv',
           \/ \E m \in Machines : Expire(m)
           \/ \E e \in events : Handle(e)
           \/ \E t \in threads : Ack(t) \/ IpStep(t) \/ TrimStep(t)
           \/ CmdTrim \/ DaemonStops \/ Crash
    PROVE  [Life!Next]_(Life!lifeVars)
  <1>0. TableOK(rows)
    BY DEF TypeOK
  <1>1. ASSUME UNCHANGED vm, Tells(rows') PROVE [Life!Next]_(Life!lifeVars)
    BY <1>1, TellStep
  <1>2. ASSUME NEW m \in Machines, Expire(m) PROVE [Life!Next]_(Life!lifeVars)
    BY <1>0, <1>1, <1>2, StatementsTell DEF Expire
  <1>3. ASSUME NEW e \in events, Handle(e) PROVE [Life!Next]_(Life!lifeVars)
    BY <1>0, <1>1, <1>3, StatementsTell
       DEF Handle, HandleInstancesCreated, HandleInstancesInserted,
           HandleGroupInstancesDeleted, HandleInstanceDeleted,
           HandleInstancePreempted, vars
  <1>4. ASSUME NEW t \in threads, IpStore(t) PROVE [Life!Next]_(Life!lifeVars)
    BY <1>0, <1>1, <1>4, StatementsTell DEF IpStore
  <1>5. ASSUME NEW t \in threads, TrimDelete(t) PROVE [Life!Next]_(Life!lifeVars)
    <2>1. t.todo \subseteq Gone
      BY <1>5 DEF TrimDelete, CloudInv, ThreadTrue
    <2> QED
      BY <1>5, <2>1, ForgetStep DEF TrimDelete
  <1>6. CASE CmdTrimDelete
    BY <1>6, ForgetStep DEF CmdTrimDelete, CloudInv
  <1>7. ASSUME UNCHANGED <<rows, vm>> PROVE [Life!Next]_(Life!lifeVars)
    BY <1>7, Mapping DEF Live, Exists, Gone
  <1>8. ASSUME NEW t \in threads,
               Ack(t) \/ IpSelect(t) \/ TrimSelect(t) \/ \E m \in Machines : IpFetch(t, m)
        PROVE  [Life!Next]_(Life!lifeVars)
    <2>1. UNCHANGED <<rows, vm>>
      BY <1>8 DEF Ack, IpSelect, IpFetch, TrimSelect
    <2> QED  BY <1>7, <2>1
  <1>9. CASE CmdTrimSelect \/ DaemonStops \/ Crash
    BY <1>7, <1>9 DEF CmdTrimSelect, DaemonStops, Crash
  <1> QED
    BY <1>2, <1>3, <1>4, <1>5, <1>6, <1>8, <1>9 DEF IpStep, TrimStep, CmdTrim

\* The provider is a host provider: it tells of no machine that is not gone, and
\* forgets none that is still there.
THEOREM ImplementsMachineLife == Spec => LifeSpec
  <1>1. Init => Life!Init
    BY DEF Init, Life!Init, Exists, Gone
  <1>2. TypeOK /\ CloudInv /\ TypeOK' /\ CloudInv' /\ [Next]_vars => [Life!Next]_(Life!lifeVars)
    <2> SUFFICES ASSUME TypeOK, CloudInv, TypeOK', CloudInv', [Next]_vars
                 PROVE  [Life!Next]_(Life!lifeVars)
      OBVIOUS
    <2>1. CASE UNCHANGED vars
      BY <2>1, Mapping DEF vars, Live, Exists, Gone
    <2>2. CASE Next
      BY <2>2, CommandLife, CloudLife, DaemonLife DEF Next
    <2> QED
      BY <2>1, <2>2
  <1> QED
    BY <1>1, <1>2, CloudInvariant, PTL DEF Spec, LifeSpec, Life!Spec

\* So what holds of every host provider holds of this one: what it reports as returned
\* has left, and what it has a record of was there.
THEOREM ToldTruthfully == Spec => []Life!Truthful
  <1>1. Life!Init => Life!Truthful
    BY DEF Life!Init, Life!Truthful
  <1>2. Life!Truthful /\ [Life!Next]_(Life!lifeVars) => Life!Truthful'
    <2> SUFFICES ASSUME Life!Truthful, [Life!Next]_(Life!lifeVars) PROVE Life!Truthful'
      OBVIOUS
    <2>1. CASE UNCHANGED Life!lifeVars
      BY <2>1 DEF Life!lifeVars, Life!Truthful
    <2>2. CASE Life!Next
      BY <2>2 DEF Life!Next, Life!Truthful, Life!Appear, Life!Leave, Life!Record,
                  Life!Tell, Life!Retract, Life!Forget
    <2> QED
      BY <2>1, <2>2
  <1> QED
    BY ImplementsMachineLife, <1>1, <1>2, PTL DEF LifeSpec, Life!Spec

-----------------------------------------------------------------------------
(* A quiet day                                                             *)

\* No row goes back.
Forward ==
    \A m \in DOMAIN rows \cap DOMAIN rows' : rows'[m].state >= rows[m].state

\* What the statements that make no row and change no state leave.
SameStates(f) ==
    DOMAIN f \subseteq DOMAIN rows /\ \A m \in DOMAIN f : f[m].state = rows[m].state

LEMMA StatementsKeepStates ==
    ASSUME TableOK(rows), NEW S, NEW W
    PROVE  /\ SameStates(rows)
           /\ \A q \in Returns : SameStates(UpdateReturned(q, S))
           /\ SameStates(UpdateIps(S, W))
           /\ SameStates(DeleteRows(S))
           /\ \A m \in DOMAIN rows : SameStates([rows EXCEPT ![m].expired = TRUE])
  <1> USE DEF SameStates, TableOK, DbRow, Row
  <1>1. SameStates(rows)
    OBVIOUS
  <1>2. \A q \in Returns : SameStates(UpdateReturned(q, S))
    BY DEF UpdateReturned
  <1>3. SameStates(UpdateIps(S, W))
    BY DEF UpdateIps
  <1>4. SameStates(DeleteRows(S))
    BY DEF DeleteRows
  <1>5. \A m \in DOMAIN rows : SameStates([rows EXCEPT ![m].expired = TRUE])
    OBVIOUS
  <1> QED
    BY <1>1, <1>2, <1>3, <1>4, <1>5

\* A step that keeps the states takes no row back, and needs no event less.
LEMMA SameForward ==
    ASSUME TypeOK, SameStates(rows')
    PROVE  Forward /\ \A E \in SUBSET events : NoneBack(rows, events) => NoneBack(rows', E)
  <1>1. \A m \in DOMAIN rows : rows[m].state \in MachineState
    BY DEF TypeOK, TableOK, DbRow, Row
  <1>2. Forward
    BY <1>1, StatesOrdered DEF Forward, SameStates
  <1>3. \A E \in SUBSET events : NoneBack(rows, events) => NoneBack(rows', E)
    BY DEF NoneBack, SameStates
  <1> QED
    BY <1>2, <1>3

\* An event of a machine is delivered after those of its earlier operations.
LEMMA InOrder ==
    ASSUME Orderly, NEW e \in events, NEW type, Deliverable(e, type),
           NEW d \in events, d.machines \cap e.machines # {}
    PROVE  /\ d.type = "createInstances" => type \notin {"insert", "deleteInstances", "delete"}
           /\ d.type = "deleteInstances" => type # "delete"
  <1>1. ~(Rank(d.type) < Rank(type))
    BY DEF Deliverable
  <1> QED
    BY <1>1 DEF Rank

\* The handlers, each after the events that would take its row back.
LEMMA HandleQuiet ==
    ASSUME TypeOK, Orderly, NoneBack(rows, events), NEW e \in events, Handle(e)
    PROVE  Forward /\ NoneBack(rows', events')
  <1> USE StatesDiffer, StatesOrdered DEF TypeOK, TableOK
  <1>1. \A m \in DOMAIN rows : rows[m] \in DbRow /\ rows[m].state \in MachineState
    BY DEF DbRow, Row
  <1>2. CASE HandleInstancesCreated(e)
    <2>1. /\ DOMAIN rows' = DOMAIN rows /\ events' = events /\ e.type = "createInstances"
          /\ \A m \in DOMAIN rows :
                rows'[m].state = IF m \in e.machines THEN CREATED ELSE rows[m].state
      BY <1>1, <1>2 DEF HandleInstancesCreated, Deliverable, UpdateCreated, DbRow, Row
    <2>2. Forward
      BY <1>1, <2>1 DEF Forward, NoneBack, STORED, CREATED, MachineState
    <2> QED
      BY <2>1, <2>2 DEF NoneBack
  <1>3. CASE HandleInstancesInserted(e)
    <2>1. /\ DOMAIN rows' = DOMAIN rows /\ events' = events
          /\ \A m \in DOMAIN rows :
                rows'[m].state = IF m \in e.machines /\ rows[m].state < INSERTED
                                 THEN INSERTED ELSE rows[m].state
      BY <1>1, <1>3 DEF HandleInstancesInserted, UpdateInserted, DbRow, Row
    <2>2. Forward
      BY <1>1, <2>1 DEF Forward
    <2>3. \A d \in events : d.type = "createInstances" => d.machines \cap e.machines = {}
      BY <1>3, InOrder DEF HandleInstancesInserted
    <2> QED
      BY <2>1, <2>2, <2>3 DEF NoneBack
  <1>4. CASE HandleGroupInstancesDeleted(e)
    <2>1. /\ DOMAIN rows' = DOMAIN rows /\ events' = events /\ e.type = "deleteInstances"
          /\ \A m \in DOMAIN rows :
                rows'[m].state = IF m \in e.machines THEN DELETE_REQUESTED ELSE rows[m].state
      BY <1>1, <1>4
      DEF HandleGroupInstancesDeleted, Deliverable, UpdateDeleteRequested, DbRow, Row
    <2>2. Forward
      BY <1>1, <2>1
      DEF Forward, NoneBack, MachineState, STORED, CREATED, INSERTED, DELETE_REQUESTED, DELETED
    <2>3. \A d \in events : d.type = "createInstances" => d.machines \cap e.machines = {}
      BY <1>4, InOrder DEF HandleGroupInstancesDeleted
    <2> QED
      BY <2>1, <2>2, <2>3 DEF NoneBack
  <1>5. CASE HandleInstanceDeleted(e)
    <2>1. /\ DOMAIN rows' = DOMAIN rows /\ events' = events
          /\ \A m \in DOMAIN rows :
                rows'[m].state = IF m \in e.machines THEN DELETED ELSE rows[m].state
      BY <1>1, <1>5 DEF HandleInstanceDeleted, UpdateDeleted, DbRow, Row
    <2>2. Forward
      BY <1>1, <2>1 DEF Forward
    <2>3. \A d \in events :
              d.type \in {"createInstances", "deleteInstances"} => d.machines \cap e.machines = {}
      BY <1>5, InOrder DEF HandleInstanceDeleted
    <2> QED
      BY <2>1, <2>2, <2>3 DEF NoneBack
  <1>6. CASE HandleInstancePreempted(e)
    BY <1>6, SameForward, StatementsKeepStates DEF HandleInstancePreempted, vars
  <1> QED
    BY <1>2, <1>3, <1>4, <1>5, <1>6 DEF Handle

\* What the cloud publishes takes no row back.
LEMMA CloudQuiet ==
    ASSUME TypeOK, NoneBack(rows, events), NEW m \in Machines, CloudStep(m)
    PROVE  Forward /\ NoneBack(rows', events')
  <1>1. UNCHANGED rows
    BY DEF CloudStep, VmInsert, VmAddress, VmDelete, VmPreempt
  <1>2. Forward
    BY <1>1, SameForward, StatementsKeepStates DEF TypeOK
  <1>3. \A e \in events' : e \in events \/ e.type \in {"insert", "delete", "preempted"}
    BY DEF CloudStep, VmInsert, VmAddress, VmDelete, VmPreempt, Publish
  <1> QED
    BY <1>1, <1>2, <1>3 DEF NoneBack

\* The daemon, the cloud, time and trimDB.
LEMMA OthersQuiet ==
    ASSUME TypeOK, Orderly, NoneBack(rows, events), OthersStep
    PROVE  Forward /\ NoneBack(rows', events')
  <1> USE StatementsKeepStates DEF TypeOK
  <1>1. ASSUME SameStates(rows'), events' \subseteq events
        PROVE  Forward /\ NoneBack(rows', events')
    BY <1>1, SameForward
  <1>2. ASSUME NEW m \in Machines, Expire(m) PROVE Forward /\ NoneBack(rows', events')
    BY <1>1, <1>2 DEF Expire
  <1>3. ASSUME NEW t \in threads, IpStore(t) PROVE Forward /\ NoneBack(rows', events')
    BY <1>1, <1>3 DEF IpStore
  <1>4. ASSUME NEW t \in threads, TrimDelete(t) PROVE Forward /\ NoneBack(rows', events')
    BY <1>1, <1>4 DEF TrimDelete
  <1>5. ASSUME NEW t \in threads,
               Ack(t) \/ IpSelect(t) \/ TrimSelect(t) \/ \E m \in Machines : IpFetch(t, m)
        PROVE  Forward /\ NoneBack(rows', events')
    <2>1. UNCHANGED rows /\ events' \subseteq events
      BY <1>5 DEF Ack, IpSelect, IpFetch, TrimSelect
    <2> QED  BY <1>1, <2>1
  <1>6. CASE CmdTrim \/ DaemonStops
    BY <1>1, <1>6 DEF CmdTrim, CmdTrimSelect, CmdTrimDelete, DaemonStops
  <1> QED
    BY <1>2, <1>3, <1>4, <1>5, <1>6, CloudQuiet, HandleQuiet DEF OthersStep, IpStep, TrimStep

\* requestMachines: the events of its machines come before their rows go on.
LEMMA RequestQuiet ==
    ASSUME TypeOK, CloudInv, Orderly, SentOnce, NoneBack(rows, events),
           NEW r \in Requests, RequestStep(r)
    PROVE  Forward /\ SentOnce' /\ NoneBack(rows', events')
  <1> USE DEF TypeOK
  <1>1. SentOnce'
    <2>1. UNCHANGED <<asked, todo, sent>> /\ Leaving' = Leaving
      BY DEF RequestStep, RequestSubmit, RequestStore, RequestAnswer, RequestFails, Leaving,
             VmState
    <2> QED  BY <2>1 DEF SentOnce
  <1>2. CASE RequestSubmit(r)
    <2>1. PICK S \in SUBSET {m \in Machines : vm[m] = "none"} :
              events' = events \cup {[type |-> "createInstances", op |-> r, machines |-> S]}
      BY <1>2 DEF RequestSubmit
    <2>2. S \cap DOMAIN rows = {}
      BY DEF CloudInv, TableTrue, RowTrue, Exists
    <2>3. UNCHANGED rows /\ Forward
      BY <1>2, SameForward, StatementsKeepStates DEF RequestSubmit
    <2> QED
      BY <1>1, <2>1, <2>2, <2>3 DEF NoneBack
  <1>3. CASE RequestStore(r)
    <2>1. /\ UNCHANGED events /\ DOMAIN rows \subseteq DOMAIN rows'
          /\ \A m \in DOMAIN rows' :
                rows'[m].state = IF m \in DOMAIN rows THEN rows[m].state ELSE STORED
      BY <1>3 DEF RequestStore, InsertRows
    <2>2. \A m \in DOMAIN rows : rows[m].state \in MachineState
      BY DEF TableOK, DbRow, Row
    <2>3. Forward
      BY <2>1, <2>2, StatesOrdered DEF Forward
    <2> QED
      BY <1>1, <2>1, <2>3, StatesDiffer DEF NoneBack
  <1>4. CASE RequestAnswer(r)
    <2>1. UNCHANGED <<rows, events>>
      BY <1>4 DEF RequestAnswer
    <2> QED
      BY <1>1, <2>1, SameForward, StatementsKeepStates
  <1> QED
    BY <1>2, <1>3, <1>4 DEF RequestStep, RequestFails

\* requestReturnMachines: a machine that leaves was sent before, and is not again.
LEMMA ReturnQuiet ==
    ASSUME TypeOK, CloudInv, GroupInv, Quiet, SentOnce, NoneBack(rows, events),
           (\E q \in Returns : ReturnStep(q)) \/ Crash
    PROVE  Forward /\ SentOnce' /\ NoneBack(rows', events')
  <1> USE DEF TypeOK, Quiet
  <1>1. ASSUME SameStates(rows'), events' = events
        PROVE  Forward /\ NoneBack(rows', events')
    BY <1>1, SameForward
  <1>2. ASSUME NEW q \in Returns, ReturnRead(q)
        PROVE  Forward /\ SentOnce' /\ NoneBack(rows', events')
    <2>1. PICK S : /\ asked' = [asked EXCEPT ![q] = S]
                   /\ todo' = [todo EXCEPT ![q] = S \cap DOMAIN rows]
                   /\ \A m \in S : \A p \in Returns : m \notin asked[p]
      <3>1. PICK S \in SUBSET Known :
              /\ Orderly => \A m \in S : /\ Usable(m) \/ m \in Offered
                                        /\ \A p \in Returns : m \notin asked[p]
              /\ asked' = [asked EXCEPT ![q] = S]
              /\ todo' = [todo EXCEPT ![q] = S \cap DOMAIN rows]
        BY <1>2 DEF ReturnRead
      <3> QED
        BY <3>1
    <2>2. UNCHANGED <<rows, events, sent>> /\ Leaving' = Leaving
      BY <1>2 DEF ReturnRead, Leaving
    <2>3. S \cap Leaving = {}
      BY <2>1 DEF GroupInv
    <2>4. SentOnce'
      BY <2>1, <2>2, <2>3 DEF SentOnce
    <2> QED
      BY <1>1, <2>2, <2>4, StatementsKeepStates
  <1>3. ASSUME NEW q \in Returns, ReturnSubmit(q)
        PROVE  Forward /\ SentOnce' /\ NoneBack(rows', events')
    <2>1. PICK S \in SUBSET todo[q] :
              /\ vm' = [m \in Machines |->
                          IF m \in S /\ vm[m] \in {"pending", "staging", "running"}
                          THEN "stopping" ELSE vm[m]]
              /\ events' = events \cup
                    {[type |-> "deleteInstances", op |-> NoId, machines |-> S]}
              /\ sent' = [sent EXCEPT ![q] = S]
      <3>1. PICK r \in Requests :
              LET S == {m \in todo[q] : \E s \in Requests : m \in batch[s] /\ igm[s] = igm[r]}
              IN  /\ vm' = [m \in Machines |->
                            IF m \in S /\ vm[m] \in {"pending", "staging", "running"}
                            THEN "stopping" ELSE vm[m]]
                  /\ events' = events \cup
                        {[type |-> "deleteInstances", op |-> NoId, machines |-> S]}
                  /\ sent' = [sent EXCEPT ![q] = S]
        BY <1>3 DEF ReturnSubmit
      <3> DEFINE S == {m \in todo[q] : \E s \in Requests : m \in batch[s] /\ igm[s] = igm[r]}
      <3>2. S \in SUBSET todo[q]
        OBVIOUS
      <3> QED
        BY <3>1, <3>2
    <2>2. UNCHANGED <<rows, asked, todo>> /\ sent[q] = {}
      BY <1>3 DEF ReturnSubmit
    <2>3. Leaving' \subseteq Leaving \cup S
      BY <2>1 DEF Leaving
    <2>4. \A p \in Returns : p # q => todo[p] \cap S = {} /\ sent'[p] = sent[p]
      BY <2>1 DEF SentOnce, GroupInv
    <2>5. SentOnce'
      <3>1. \A p \in Returns : todo[p] \cap Leaving' \subseteq sent'[p]
        BY <2>1, <2>2, <2>3, <2>4 DEF SentOnce
      <3> QED
        BY <2>2, <3>1 DEF SentOnce
    <2>6. \A m \in S \cap DOMAIN rows : rows[m].state # DELETED
      BY <2>2 DEF SentOnce, CloudInv, TableTrue, RowTrue, Gone, Leaving
    <2>7. NoneBack(rows', events')
      BY <2>1, <2>2, <2>6 DEF NoneBack
    <2> QED
      BY <2>2, <2>5, <2>7, SameForward, StatementsKeepStates
  <1>4. ASSUME NEW q \in Returns, ReturnStore(q)
        PROVE  Forward /\ SentOnce' /\ NoneBack(rows', events')
    <2>1. /\ SameStates(rows') /\ UNCHANGED <<events, asked>> /\ Leaving' = Leaving
          /\ todo' = [todo EXCEPT ![q] = @ \ sent[q]] /\ sent' = [sent EXCEPT ![q] = {}]
      BY <1>4, StatementsKeepStates DEF ReturnStore, Leaving
    <2>2. SentOnce'
      BY <2>1 DEF SentOnce
    <2> QED
      BY <1>1, <2>1, <2>2
  <1>5. CASE Crash
    <2>1. UNCHANGED <<rows, events, asked>> /\ Leaving' = Leaving
      BY <1>5 DEF Crash, Leaving
    <2>2. SentOnce'
      BY <1>5, <2>1 DEF Crash, SentOnce
    <2> QED
      BY <1>1, <2>1, <2>2, StatementsKeepStates
  <1>6. ASSUME NEW q \in Returns, ReturnAnswer(q)
        PROVE  Forward /\ SentOnce' /\ NoneBack(rows', events')
    <2>1. UNCHANGED <<rows, events, asked, todo, sent>> /\ Leaving' = Leaving
      BY <1>6 DEF ReturnAnswer, Leaving
    <2>2. SentOnce'
      BY <2>1 DEF SentOnce
    <2> QED
      BY <1>1, <2>1, <2>2, StatementsKeepStates
  <1> QED
    BY <1>2, <1>3, <1>4, <1>5, <1>6 DEF ReturnStep, ReturnFails

\* One step of a quiet day.
LEMMA QuietStep ==
    ASSUME TypeOK, CloudInv, GroupInv, QuietInv, [Next]_vars, Quiet
    PROVE  Forward /\ QuietInv'
  <1> USE DEF Quiet
  <1>1. SentOnce /\ NoneBack(rows, events)
    BY DEF QuietInv
  <1>2. CASE UNCHANGED vars
    <2>1. UNCHANGED <<rows, events, asked, todo, sent>> /\ Leaving' = Leaving
      BY <1>2 DEF vars, cliVars, Leaving
    <2>2. Forward
      BY <2>1, SameForward, StatementsKeepStates DEF TypeOK
    <2> QED
      BY <1>1, <2>1, <2>2 DEF QuietInv, SentOnce
  <1>3. CASE OthersStep
    <2>1. Forward /\ NoneBack(rows', events')
      BY <1>1, <1>3, OthersQuiet
    <2>2. SentOnce'
      BY <1>1, <1>3, OthersKeep, OthersLeaveNone DEF SentOnce, cliVars
    <2> QED
      BY <2>1, <2>2 DEF QuietInv
  <1>4. CASE Next
    BY <1>1, <1>3, <1>4, RequestQuiet, ReturnQuiet DEF Next, OthersStep, QuietInv
  <1> QED
    BY <1>2, <1>4

\* On a quiet day no row of the database ever goes back to an earlier state, the
\* two handlers without a guard included, and in spite of crashes and repetitions.
THEOREM QuietDaysForward == Spec => QuietDayForward
  <1>1. Init => QuietInv
    BY DEF Init, QuietInv, SentOnce, NoneBack
  <1>2. TypeOK /\ CloudInv /\ GroupInv /\ QuietInv /\ [Next]_vars => QuietInv'
    BY QuietStep DEF QuietInv
  <1>3. TypeOK /\ CloudInv /\ GroupInv /\ QuietInv /\ [Next]_vars =>
            [Quiet => \A m \in DOMAIN rows \cap DOMAIN rows' :
                          rows'[m].state >= rows[m].state]_vars
    BY QuietStep DEF Forward
  <1> QED
    BY <1>1, <1>2, <1>3, GroupInvariant, PTL DEF Spec, QuietDayForward

-----------------------------------------------------------------------------
(* What the callbacks have been told                                       *)

\* The handlers that start a callback.
Delivered(e) ==
    \/ HandleInstancesCreated(e) \/ HandleInstancesInserted(e)
    \/ HandleGroupInstancesDeleted(e) \/ HandleInstanceDeleted(e)

\* What a step of the callback t makes of it, if it does not end it.
Goes(t, u) ==
    \/ Ack(t) /\ t.event.type = "createInstances" /\ u = [t EXCEPT !.pc = "select"]
    \/ IpSelect(t) /\ u = [t EXCEPT !.pc = "fetch",
          !.todo = {m \in DOMAIN rows : /\ rows[m].request = t.event.op
                                        /\ ~rows[m].ip /\ rows[m].state >= CREATED}]
    \/ \E m \in t.todo : IpFetch(t, m) /\
          \/ u = [t EXCEPT !.todo = @ \ {m}, !.withIp = @ \cup {m}]
          \/ u = [t EXCEPT !.todo = @ \ {m}, !.noIp = @ \cup {m}]
    \/ IpStore(t) /\ t.noIp # {} /\ u = [t EXCEPT !.pc = "select", !.withIp = {}, !.noIp = {}]
    \/ TrimSelect(t) /\ u = [t EXCEPT !.todo = TrimCandidates,
          !.pc = IF TrimCandidates = {} THEN "ack" ELSE "trimDelete"]
    \/ TrimDelete(t) /\ u = [t EXCEPT !.todo = {}, !.pc = "ack"]

Fresh(u) == u.pc \in {"ack", "trimSelect"} /\ u.withIp = {} /\ u.noIp = {}

\* Every callback was there, has just been given its event, or has taken a step.
LEMMA Callbacks ==
    ASSUME TypeOK, [Next]_vars, NEW u \in threads'
    PROVE  \/ u \in threads
           \/ u.event \in events /\ Delivered(u.event) /\ Fresh(u)
           \/ \E t \in threads : Goes(t, u)
  <1> DEFINE Goal == \/ u \in threads
                     \/ u.event \in events /\ Delivered(u.event) /\ Fresh(u)
                     \/ \E t \in threads : Goes(t, u)
  <1>1. CASE UNCHANGED threads
    BY <1>1
  <1>2. ASSUME NEW t \in threads, Ack(t) \/ IpStep(t) \/ TrimStep(t) PROVE Goal
    <2>1. CASE Ack(t)
      BY <2>1 DEF Ack, Replace, Goes
    <2>2. CASE IpSelect(t)
      BY <2>2 DEF IpSelect, Replace, Goes
    <2>3. ASSUME NEW m \in Machines, IpFetch(t, m) PROVE Goal
      BY <2>3 DEF IpFetch, Replace, Goes
    <2>4. CASE IpStore(t)
      BY <2>4 DEF IpStore, Replace, Goes
    <2>5. CASE TrimSelect(t)
      BY <2>5 DEF TrimSelect, Replace, Goes
    <2>6. CASE TrimDelete(t)
      BY <2>6 DEF TrimDelete, Replace, Goes
    <2> QED
      BY <1>2, <2>1, <2>2, <2>3, <2>4, <2>5, <2>6 DEF IpStep, TrimStep
  <1>3. ASSUME NEW e \in events, Handle(e) PROVE Goal
    <2>1. CASE HandleInstancePreempted(e)
      BY <1>1, <2>1 DEF HandleInstancePreempted, vars
    <2>2. CASE Delivered(e)
      <3>1. \E pc \in {"ack", "trimSelect"} : StartThread(e, pc)
        BY <2>2 DEF Delivered, HandleInstancesCreated, HandleInstancesInserted,
                    HandleGroupInstancesDeleted, HandleInstanceDeleted
      <3>2. u \in threads \/ (u.event = e /\ Fresh(u))
        BY <3>1 DEF StartThread, Fresh
      <3> QED
        BY <2>2, <3>2
    <2> QED
      BY <1>3, <2>1, <2>2 DEF Handle, Delivered
  <1>4. ASSUME NEW m \in Machines, CloudStep(m) \/ Expire(m) PROVE Goal
    BY <1>1, <1>4 DEF CloudStep, VmInsert, VmAddress, VmDelete, VmPreempt, Expire
  <1>5. ASSUME NEW r \in Requests, RequestStep(r) PROVE Goal
    BY <1>1, <1>5 DEF RequestStep, RequestSubmit, RequestStore, RequestAnswer, RequestFails
  <1>6. ASSUME NEW q \in Returns, ReturnStep(q) PROVE Goal
    BY <1>1, <1>6
    DEF ReturnStep, ReturnRead, ReturnSubmit, ReturnStore, ReturnAnswer, ReturnFails
  <1>7. CASE CmdTrim
    BY <1>1, <1>7 DEF CmdTrim, CmdTrimSelect, CmdTrimDelete
  <1>8. CASE DaemonStops \/ Crash
    BY <1>8 DEF DaemonStops, Crash
  <1>9. CASE UNCHANGED vars
    BY <1>1, <1>9 DEF vars
  <1> QED
    BY <1>2, <1>3, <1>4, <1>5, <1>6, <1>7, <1>8, <1>9 DEF Next

\* A callback goes on with its event; what it fetches only moves, or is done with.
LEMMA GoesOn ==
    ASSUME TypeOK, NEW t \in threads, NEW u, Goes(t, u)
    PROVE  /\ u.event = t.event
           /\ u.withIp \cup u.noIp \subseteq t.withIp \cup t.noIp \cup t.todo
           /\ \/ /\ Ack(t) /\ t.event.type = "createInstances" /\ u.pc = "select"
                 /\ u.withIp = t.withIp /\ u.noIp = t.noIp
              \/ /\ IpSelect(t) /\ u.pc = "fetch" /\ u.withIp = t.withIp /\ u.noIp = t.noIp
                 /\ u.todo = {m \in DOMAIN rows : /\ rows[m].request = t.event.op
                                                  /\ ~rows[m].ip /\ rows[m].state >= CREATED}
              \/ /\ \E m \in t.todo : IpFetch(t, m)
                 /\ u.pc = "fetch" /\ u.todo \subseteq t.todo
                 /\ u.todo \cup u.withIp \cup u.noIp = t.todo \cup t.withIp \cup t.noIp
              \/ IpStore(t) /\ t.noIp # {} /\ u.pc = "select" /\ u.withIp = {} /\ u.noIp = {}
              \/ /\ TrimSelect(t) /\ u.pc \in {"ack", "trimDelete"} /\ u.todo = TrimCandidates
                 /\ u.withIp = t.withIp /\ u.noIp = t.noIp
              \/ /\ TrimDelete(t) /\ u.pc = "ack" /\ u.withIp = t.withIp /\ u.noIp = t.noIp
  <1>1. t \in Thread
    BY DEF TypeOK
  <1>2. CASE Ack(t) /\ t.event.type = "createInstances" /\ u = [t EXCEPT !.pc = "select"]
    BY <1>1, <1>2 DEF Thread
  <1>3. CASE IpSelect(t) /\ u = [t EXCEPT !.pc = "fetch",
                !.todo = {m \in DOMAIN rows : /\ rows[m].request = t.event.op
                                              /\ ~rows[m].ip /\ rows[m].state >= CREATED}]
    BY <1>1, <1>3 DEF Thread
  <1>4. ASSUME NEW m \in t.todo, IpFetch(t, m),
               \/ u = [t EXCEPT !.todo = @ \ {m}, !.withIp = @ \cup {m}]
               \/ u = [t EXCEPT !.todo = @ \ {m}, !.noIp = @ \cup {m}]
        PROVE  /\ u.event = t.event /\ u.pc = "fetch" /\ u.todo \subseteq t.todo
               /\ u.todo \cup u.withIp \cup u.noIp = t.todo \cup t.withIp \cup t.noIp
    <2>1. t.pc = "fetch"
      BY <1>4 DEF IpFetch
    <2>2. \/ u.withIp = t.withIp \cup {m} /\ u.noIp = t.noIp
          \/ u.withIp = t.withIp /\ u.noIp = t.noIp \cup {m}
      BY <1>1, <1>4 DEF Thread
    <2>3. u.event = t.event /\ u.pc = t.pc /\ u.todo = t.todo \ {m}
      BY <1>1, <1>4 DEF Thread
    <2> QED
      BY <2>1, <2>2, <2>3
  <1>5. CASE IpStore(t) /\ t.noIp # {} /\ u = [t EXCEPT !.pc = "select", !.withIp = {}, !.noIp = {}]
    BY <1>1, <1>5 DEF Thread
  <1>6. CASE TrimSelect(t) /\ u = [t EXCEPT !.todo = TrimCandidates,
                !.pc = IF TrimCandidates = {} THEN "ack" ELSE "trimDelete"]
    BY <1>1, <1>6 DEF Thread
  <1>7. CASE TrimDelete(t) /\ u = [t EXCEPT !.todo = {}, !.pc = "ack"]
    BY <1>1, <1>7 DEF Thread
  <1> QED
    BY <1>2, <1>3, <1>4, <1>5, <1>6, <1>7 DEF Goes

LEMMA CallbackEvents ==
    ASSUME TypeOK, [Next]_vars, NEW u \in threads'
    PROVE  \/ \E t \in threads : t.event = u.event
           \/ u.event \in events /\ Delivered(u.event)
  BY Callbacks, GoesOn

\* What an event that has just been published says.
Published(e) ==
    \/ \E r \in Requests : RequestSubmit(r) /\ e.type = "createInstances" /\ e.op = r
                             /\ e.machines = batch'[r] /\ batch'[r] \subseteq Exists'
    \/ e.type = "deleteInstances" /\ e.machines \subseteq Exists
    \/ \E m \in Exists : e.type = "insert" /\ e.machines = {m}
    \/ \E m \in Exists \ Gone : e.type = "delete" /\ e.machines = {m} /\ m \in Gone'
    \/ \E m \in Exists \ Gone : e.type = "preempted" /\ e.machines = {m} /\ m \in Gone'

LEMMA NewEvents ==
    ASSUME TypeOK, CloudInv, [Next]_vars, NEW e \in events', e \notin events
    PROVE  Published(e)
  <1> USE DEF TypeOK
  <1>1. ASSUME NEW r \in Requests, RequestSubmit(r) PROVE Published(e)
    <2>1. PICK S \in SUBSET {m \in Machines : vm[m] = "none"} :
              /\ vm' = [m \in Machines |-> IF m \in S THEN "pending" ELSE vm[m]]
              /\ batch' = [batch EXCEPT ![r] = S]
              /\ events' = events \cup
                    {[type |-> "createInstances", op |-> r, machines |-> S]}
      BY <1>1 DEF RequestSubmit
    <2>2. e.type = "createInstances" /\ e.op = r /\ e.machines = S /\ batch'[r] = S
      BY <2>1
    <2>3. S \subseteq Exists'
      BY <2>1 DEF Exists
    <2> QED
      BY <1>1, <2>2, <2>3 DEF Published
  <1>2. ASSUME NEW q \in Returns, ReturnSubmit(q) PROVE Published(e)
    <2>1. PICK r \in Requests :
            LET S == {m \in todo[q] : \E s \in Requests : m \in batch[s] /\ igm[s] = igm[r]}
            IN  events' = events \cup
                    {[type |-> "deleteInstances", op |-> NoId, machines |-> S]}
      BY <1>2 DEF ReturnSubmit
    <2> DEFINE S == {m \in todo[q] : \E s \in Requests : m \in batch[s] /\ igm[s] = igm[r]}
    <2>2. e.type = "deleteInstances" /\ e.machines = S
      BY <2>1
    <2>3. S \subseteq Exists
      BY DEF CloudInv
    <2> QED
      BY <2>2, <2>3 DEF Published
  <1>3. ASSUME NEW m \in Machines, CloudStep(m) PROVE Published(e)
    <2>1. m \in Exists /\ e.machines = {m}
      BY <1>3 DEF CloudStep, VmInsert, VmAddress, VmDelete, VmPreempt, Publish, Exists
    <2>2. CASE VmInsert(m)
      BY <2>1, <2>2 DEF VmInsert, Publish, Published
    <2>3. CASE VmDelete(m) \/ VmPreempt(m)
      <3>1. m \in Exists \ Gone /\ m \in Gone' /\ e.type \in {"delete", "preempted"}
        BY <2>3 DEF VmDelete, VmPreempt, Publish, Exists, Gone
      <3> QED
        BY <2>1, <3>1 DEF Published
    <2> QED
      BY <1>3, <2>2, <2>3 DEF CloudStep, VmAddress
  <1>4. events' \subseteq events \/ (\E r \in Requests : RequestSubmit(r))
            \/ (\E q \in Returns : ReturnSubmit(q)) \/ (\E m \in Machines : CloudStep(m))
    <2>1. ASSUME NEW m \in Machines, Expire(m) PROVE events' \subseteq events
      BY <2>1 DEF Expire
    <2>2. ASSUME NEW r \in Requests, RequestStore(r) \/ RequestAnswer(r) \/ RequestFails(r)
          PROVE  events' \subseteq events
      BY <2>2 DEF RequestStore, RequestAnswer, RequestFails
    <2>3. ASSUME NEW q \in Returns,
                 ReturnRead(q) \/ ReturnStore(q) \/ ReturnAnswer(q) \/ ReturnFails(q)
          PROVE  events' \subseteq events
      BY <2>3 DEF ReturnRead, ReturnStore, ReturnAnswer, ReturnFails
    <2>4. ASSUME NEW d \in events, Handle(d) PROVE events' \subseteq events
      BY <2>4 DEF Handle, HandleInstancesCreated, HandleInstancesInserted,
                  HandleGroupInstancesDeleted, HandleInstanceDeleted,
                  HandleInstancePreempted, vars
    <2>5. ASSUME NEW t \in threads, Ack(t) \/ IpStep(t) \/ TrimStep(t)
          PROVE  events' \subseteq events
      BY <2>5 DEF Ack, IpStep, IpSelect, IpFetch, IpStore, TrimStep, TrimSelect, TrimDelete
    <2>6. CASE CmdTrim \/ DaemonStops \/ Crash \/ UNCHANGED vars
      BY <2>6 DEF CmdTrim, CmdTrimSelect, CmdTrimDelete, DaemonStops, Crash, vars
    <2> QED
      BY <2>1, <2>2, <2>3, <2>4, <2>5, <2>6 DEF Next, RequestStep, ReturnStep
  <1> QED
    BY <1>1, <1>2, <1>3, <1>4

\* Nobody else moves an instance.
LEMMA StepMoves == ASSUME [Next]_vars PROVE MovesVm \/ UNCHANGED vm
  <1>1. ASSUME NEW e \in events, Handle(e) PROVE UNCHANGED vm
    BY <1>1 DEF Handle, HandleInstancesCreated, HandleInstancesInserted,
                HandleGroupInstancesDeleted, HandleInstanceDeleted,
                HandleInstancePreempted, vars
  <1>2. ASSUME NEW t \in threads, Ack(t) \/ IpStep(t) \/ TrimStep(t) PROVE UNCHANGED vm
    BY <1>2 DEF Ack, IpStep, IpSelect, IpFetch, IpStore, TrimStep, TrimSelect, TrimDelete
  <1>3. ASSUME NEW r \in Requests, RequestStep(r) PROVE MovesVm \/ UNCHANGED vm
    BY <1>3 DEF MovesVm, RequestStep, RequestStore, RequestAnswer, RequestFails
  <1>4. ASSUME NEW q \in Returns, ReturnStep(q) PROVE MovesVm \/ UNCHANGED vm
    BY <1>4 DEF MovesVm, ReturnStep, ReturnRead, ReturnStore, ReturnAnswer, ReturnFails
  <1>5. ASSUME NEW m \in Machines, CloudStep(m) \/ Expire(m) PROVE MovesVm \/ UNCHANGED vm
    BY <1>5 DEF MovesVm, Expire
  <1>6. CASE CmdTrim \/ DaemonStops \/ Crash \/ UNCHANGED vars
    BY <1>6 DEF CmdTrim, CmdTrimSelect, CmdTrimDelete, DaemonStops, Crash, vars
  <1> QED
    BY <1>1, <1>2, <1>3, <1>4, <1>5, <1>6 DEF Next

\* The cloud only goes forward, whoever takes the step.
LEMMA StepForward == ASSUME TypeOK, [Next]_vars PROVE VmForward
  BY StepMoves, MovesForward, StillVm

\* A request that was submitted keeps its batch, and only a submission makes one.
LEMMA RequestsFixed ==
    ASSUME TypeOK, [Next]_vars, NEW r \in Requests
    PROVE  /\ reqPc[r] # "idle" => reqPc'[r] # "idle" /\ batch'[r] = batch[r]
           /\ reqPc'[r] = "submitted" => reqPc[r] = "submitted" \/ RequestSubmit(r)
  <1> DEFINE Fixed ==
        /\ reqPc[r] # "idle" => reqPc'[r] # "idle" /\ batch'[r] = batch[r]
        /\ reqPc'[r] = "submitted" => reqPc[r] = "submitted" \/ RequestSubmit(r)
  <1> USE DEF TypeOK
  <1>1. ASSUME NEW s \in Requests, RequestStep(s) PROVE Fixed
    BY <1>1 DEF RequestStep, RequestSubmit, RequestStore, RequestAnswer, RequestFails
  <1>2. ASSUME NEW q \in Returns, ReturnStep(q) PROVE Fixed
    BY <1>2 DEF ReturnStep, ReturnRead, ReturnSubmit, ReturnStore, ReturnAnswer, ReturnFails
  <1>3. CASE OthersStep \/ UNCHANGED vars
    BY <1>3, OthersKeep DEF vars, cliVars
  <1>4. CASE Crash
    BY <1>4 DEF Crash
  <1> QED
    BY <1>1, <1>2, <1>3, <1>4 DEF Next, OthersStep

\* Whatever is heard of exists, and a createInstances event names the whole batch.
LEMMA HeardStep == ASSUME TypeOK, CloudInv, HeardInv, [Next]_vars PROVE HeardInv'
  <1>1. VmForward
    BY StepForward
  <1>2. ASSUME NEW e \in Heard' PROVE e \in Heard \/ Published(e)
    <2>1. CASE e \in events'
      BY <2>1, NewEvents DEF Heard
    <2>2. CASE e \in {t.event : t \in threads'}
      BY <2>2, CallbackEvents DEF Heard
    <2> QED
      BY <2>1, <2>2 DEF Heard
  <1>3. ASSUME NEW e \in Heard' PROVE e.machines \subseteq Exists'
    BY <1>1, <1>2, <1>3 DEF HeardInv, Published, VmForward
  <1>4. ASSUME NEW e \in Heard', e.type = "createInstances"
        PROVE  e.op \in Requests /\ reqPc'[e.op] # "idle" /\ e.machines = batch'[e.op]
    <2>1. CASE e \in Heard
      BY <1>4, <2>1, RequestsFixed DEF HeardInv
    <2>2. CASE Published(e)
      BY <1>4, <2>2 DEF Published, RequestSubmit, TypeOK
    <2> QED
      BY <1>2, <2>1, <2>2
  <1> QED
    BY <1>3, <1>4 DEF HeardInv

\* An event that is about machines whose rows are still to be made waits.
LEMMA ToldStep == ASSUME TypeOK, HeardInv, ToldInv, [Next]_vars PROVE ToldInv'
  <1> SUFFICES ASSUME Orderly, NEW u \in threads', NEW r \in Requests, reqPc'[r] = "submitted"
               PROVE  u.event.machines \cap batch'[r] = {}
    BY DEF ToldInv
  <1>1. u.event \in Heard
    BY CallbackEvents DEF Heard
  <1>2. CASE RequestSubmit(r)
    <2>1. PICK S \in SUBSET {m \in Machines : vm[m] = "none"} :
              batch' = [batch EXCEPT ![r] = S]
      BY <1>2 DEF RequestSubmit
    <2>2. batch'[r] \cap Exists = {}
      BY <2>1 DEF Exists, TypeOK
    <2> QED
      BY <1>1, <2>2 DEF HeardInv
  <1>3. CASE reqPc[r] = "submitted"
    <2>1. batch'[r] = batch[r]
      BY <1>3, RequestsFixed
    <2>2. CASE \E t \in threads : t.event = u.event
      BY <1>3, <2>1, <2>2 DEF ToldInv
    <2>3. CASE Delivered(u.event)
      BY <1>3, <2>1, <2>3
      DEF Delivered, HandleInstancesCreated, HandleInstancesInserted,
          HandleGroupInstancesDeleted, HandleInstanceDeleted, Deliverable
    <2> QED
      BY <2>2, <2>3, CallbackEvents
  <1> QED
    BY <1>2, <1>3, RequestsFixed

-----------------------------------------------------------------------------
(* On a quiet day the database misses nothing                              *)

\* The levels, and what has become of the machines, type by type.
LEMMA Types ==
    /\ StoredType = {"createInstances", "insert", "deleteInstances", "delete"}
    /\ Level("createInstances") = CREATED /\ Level("insert") = INSERTED
    /\ Level("deleteInstances") = DELETE_REQUESTED /\ Level("delete") = DELETED
    /\ Past("createInstances") = Exists /\ Past("insert") = Born
    /\ Past("deleteInstances") = Leaving /\ Past("delete") = Gone
    /\ Past("createInstances")' = Exists' /\ Past("insert")' = Born'
    /\ Past("deleteInstances")' = Leaving' /\ Past("delete")' = Gone'
  BY DEF StoredType, EventType, Level, Past

\* A handler stores at least what its event says.
LEMMA DeliveredStores ==
    ASSUME TypeOK, NEW e \in events, Delivered(e)
    PROVE  /\ e.type \in StoredType /\ UNCHANGED vm
           /\ DOMAIN rows' = DOMAIN rows
           /\ \A m \in e.machines \cap DOMAIN rows : rows'[m].state >= Level(e.type)
  <1>1. \A m \in DOMAIN rows : rows[m] \in DbRow /\ rows[m].state \in Int
    BY StatesOrdered DEF TypeOK, TableOK, DbRow, Row
  <1>2. CASE HandleInstancesCreated(e)
    <2>1. /\ DOMAIN rows' = DOMAIN rows /\ e.type = "createInstances" /\ UNCHANGED vm
          /\ \A m \in e.machines \cap DOMAIN rows : rows'[m].state = CREATED
      BY <1>1, <1>2 DEF HandleInstancesCreated, Deliverable, UpdateCreated, DbRow, Row
    <2> QED
      BY <2>1, Types DEF CREATED
  <1>3. CASE HandleInstancesInserted(e)
    <2>1. /\ DOMAIN rows' = DOMAIN rows /\ e.type = "insert" /\ UNCHANGED vm
          /\ \A m \in e.machines \cap DOMAIN rows :
                rows'[m].state = IF rows[m].state < INSERTED THEN INSERTED ELSE rows[m].state
      BY <1>1, <1>3 DEF HandleInstancesInserted, Deliverable, UpdateInserted, DbRow, Row
    <2> QED
      BY <1>1, <2>1, Types DEF INSERTED
  <1>4. CASE HandleGroupInstancesDeleted(e)
    <2>1. /\ DOMAIN rows' = DOMAIN rows /\ e.type = "deleteInstances" /\ UNCHANGED vm
          /\ \A m \in e.machines \cap DOMAIN rows : rows'[m].state = DELETE_REQUESTED
      BY <1>1, <1>4
      DEF HandleGroupInstancesDeleted, Deliverable, UpdateDeleteRequested, DbRow, Row
    <2> QED
      BY <2>1, Types DEF DELETE_REQUESTED
  <1>5. CASE HandleInstanceDeleted(e)
    <2>1. /\ DOMAIN rows' = DOMAIN rows /\ e.type = "delete" /\ UNCHANGED vm
          /\ \A m \in e.machines \cap DOMAIN rows : rows'[m].state = DELETED
      BY <1>1, <1>5 DEF HandleInstanceDeleted, Deliverable, UpdateDeleted, DbRow, Row
    <2> QED
      BY <2>1, Types DEF DELETED
  <1> QED
    BY <1>2, <1>3, <1>4, <1>5 DEF Delivered

\* A request whose rows are still to be made has none.
Unmade == \A r \in Requests : reqPc[r] = "submitted" => batch[r] \cap DOMAIN rows = {}
LEMMA UnmadeBatches == ASSUME AnswerInv, GroupInv PROVE Unmade
  BY DEF AnswerInv, GroupInv, Unmade

\* Only a command that goes on makes rows.
LEMMA NewRows ==
    ASSUME TypeOK, [Next]_vars, NEW m \in DOMAIN rows', m \notin DOMAIN rows
    PROVE  \E r \in Requests : RequestStore(r) /\ m \in batch[r]
  <1>1. CASE OthersStep
    BY <1>1, OthersKeep DEF KeepsReturns
  <1>2. ASSUME NEW r \in Requests, RequestStep(r)
        PROVE  \E s \in Requests : RequestStore(s) /\ m \in batch[s]
    BY <1>2 DEF RequestStep, RequestSubmit, RequestStore, RequestAnswer, RequestFails, InsertRows
  <1>3. ASSUME NEW q \in Returns, ReturnStep(q) PROVE FALSE
    BY <1>3 DEF ReturnStep, ReturnRead, ReturnSubmit, ReturnStore, ReturnAnswer, ReturnFails,
                UpdateReturned
  <1>4. CASE Crash \/ UNCHANGED vars
    BY <1>4 DEF Crash, vars
  <1> QED
    BY <1>1, <1>2, <1>3, <1>4 DEF Next, OthersStep

\* A machine that is awaited has just been made, or was awaited and keeps its row.
LEMMA AwaitedStep ==
    ASSUME TypeOK, Unmade, [Next]_vars, NEW m \in Awaited'
    PROVE  \/ \E r \in Requests : RequestSubmit(r) /\ m \in batch'[r]
           \/ m \in Awaited /\ (m \in DOMAIN rows => m \in DOMAIN rows')
  <1>1. ASSUME NEW r \in Requests, reqPc'[r] = "submitted", m \in batch'[r]
        PROVE  \/ RequestSubmit(r)
               \/ m \in Awaited /\ m \notin DOMAIN rows
    BY <1>1, RequestsFixed DEF Awaited, Unmade
  <1>2. CASE m \in DOMAIN rows'
    <2>1. CASE m \in DOMAIN rows
      BY <1>2, <2>1 DEF Awaited
    <2>2. CASE m \notin DOMAIN rows
      BY <1>2, <2>2, NewRows DEF Awaited, RequestStore
    <2> QED
      BY <2>1, <2>2
  <1> QED
    BY <1>1, <1>2 DEF Awaited

\* An event goes only when a callback acknowledges it.
LEMMA EventsAcked ==
    ASSUME TypeOK, [Next]_vars, NEW e \in events, e \notin events'
    PROVE  \E t \in threads : Ack(t) /\ t.event = e
  <1>1. ASSUME NEW t \in threads, IpStep(t) \/ TrimStep(t) PROVE FALSE
    BY <1>1 DEF IpStep, IpSelect, IpFetch, IpStore, TrimStep, TrimSelect, TrimDelete
  <1>2. ASSUME NEW d \in events, Handle(d) PROVE FALSE
    BY <1>2 DEF Handle, HandleInstancesCreated, HandleInstancesInserted,
                HandleGroupInstancesDeleted, HandleInstanceDeleted,
                HandleInstancePreempted, vars
  <1>3. ASSUME NEW m \in Machines, CloudStep(m) \/ Expire(m) PROVE FALSE
    BY <1>3 DEF CloudStep, VmInsert, VmAddress, VmDelete, VmPreempt, Publish, Expire
  <1>4. ASSUME NEW r \in Requests, RequestStep(r) PROVE FALSE
    BY <1>4 DEF RequestStep, RequestSubmit, RequestStore, RequestAnswer, RequestFails
  <1>5. ASSUME NEW q \in Returns, ReturnStep(q) PROVE FALSE
    BY <1>5 DEF ReturnStep, ReturnRead, ReturnSubmit, ReturnStore, ReturnAnswer, ReturnFails
  <1>6. CASE CmdTrim \/ DaemonStops \/ Crash \/ UNCHANGED vars
    BY <1>6 DEF CmdTrim, CmdTrimSelect, CmdTrimDelete, DaemonStops, Crash, vars
  <1>7. ASSUME NEW t \in threads, Ack(t) PROVE t.event = e
    BY <1>7 DEF Ack
  <1> QED
    BY <1>1, <1>2, <1>3, <1>4, <1>5, <1>6, <1>7 DEF Next

\* On an orderly day only machines that run, or have run, are returned.
LEMMA AskedStep == ASSUME TypeOK, CloudInv, AskedInv, [Next]_vars PROVE AskedInv'
  <1> SUFFICES ASSUME Orderly, NEW p \in Returns, NEW m \in asked'[p] PROVE m \in Addressed'
    BY DEF AskedInv
  <1> USE DEF TypeOK
  <1>1. VmForward
    BY StepForward
  <1>2. CASE m \in asked[p]
    BY <1>1, <1>2 DEF AskedInv, VmForward
  <1>3. ASSUME NEW q \in Returns, ReturnRead(q), m \notin asked[p] PROVE m \in Addressed
    <2>1. PICK S \in SUBSET Known :
              /\ \A n \in S : Usable(n) \/ n \in Offered
              /\ asked' = [asked EXCEPT ![q] = S]
      BY <1>3 DEF ReturnRead
    <2>2. Usable(m) \/ m \in Offered
      BY <1>3, <2>1
    <2>3. CASE Usable(m)
      BY <2>3 DEF Usable, MachineResult, CloudInv, TableTrue, RowTrue
    <2>4. CASE m \in Offered
      BY <2>4 DEF Offered, CloudInv, TableTrue, RowTrue, Gone, Addressed
    <2> QED
      BY <2>2, <2>3, <2>4
  <1>4. ASSUME NEW q \in Returns,
               ReturnSubmit(q) \/ ReturnStore(q) \/ ReturnAnswer(q) \/ ReturnFails(q)
        PROVE  UNCHANGED asked
    BY <1>4 DEF ReturnSubmit, ReturnStore, ReturnAnswer, ReturnFails
  <1>5. ASSUME NEW r \in Requests, RequestStep(r) PROVE UNCHANGED asked
    BY <1>5 DEF RequestStep, RequestSubmit, RequestStore, RequestAnswer, RequestFails
  <1>6. CASE OthersStep
    BY <1>2, <1>6, OthersKeep DEF cliVars
  <1>7. CASE Crash \/ UNCHANGED vars
    BY <1>2, <1>7 DEF Crash, vars, cliVars
  <1> QED
    BY <1>1, <1>2, <1>3, <1>4, <1>5, <1>6, <1>7 DEF Next, OthersStep, ReturnStep, VmForward

\* An event that has been published says what it says.
LEMMA Saying ==
    ASSUME NEW type, NEW op, NEW S, NEW m \in S,
           [type |-> type, op |-> op, machines |-> S] \in events'
    PROVE  Says(type, m)'
  BY DEF Says

\* On a quiet day an event is published whenever something becomes of a machine.
LEMMA PastSaid ==
    ASSUME TypeOK, GroupInv, AskedInv, Quiet, [Next]_vars, NEW type \in StoredType,
           NEW m \in Past(type)', m \notin Past(type)
    PROVE  Says(type, m)'
  <1> USE Types DEF Exists, Born, Leaving, Gone, TypeOK, VmState, Quiet
  <1>1. ASSUME NEW r \in Requests, RequestSubmit(r) PROVE Says(type, m)'
    <2>1. PICK S \in SUBSET {n \in Machines : vm[n] = "none"} :
              /\ vm' = [n \in Machines |-> IF n \in S THEN "pending" ELSE vm[n]]
              /\ events' = events \cup
                    {[type |-> "createInstances", op |-> r, machines |-> S]}
      BY <1>1 DEF RequestSubmit
    <2>2. m \in S /\ type = "createInstances"
      <3>1. CASE type = "createInstances"
        BY <2>1, <3>1
      <3>2. CASE type # "createInstances"
        BY <2>1, <3>2
      <3> QED
        BY <3>1, <3>2
    <2> QED
      BY <2>1, <2>2, Saying
  <1>2. ASSUME NEW q \in Returns, ReturnSubmit(q) PROVE Says(type, m)'
    <2>1. PICK r \in Requests :
            LET S == {n \in todo[q] : \E s \in Requests : n \in batch[s] /\ igm[s] = igm[r]}
            IN  /\ vm' = [n \in Machines |->
                            IF n \in S /\ vm[n] \in {"pending", "staging", "running"}
                            THEN "stopping" ELSE vm[n]]
                /\ events' = events \cup
                    {[type |-> "deleteInstances", op |-> NoId, machines |-> S]}
      BY <1>2 DEF ReturnSubmit
    <2> DEFINE S == {n \in todo[q] : \E s \in Requests : n \in batch[s] /\ igm[s] = igm[r]}
    <2>2. /\ vm' = [n \in Machines |->
                      IF n \in S /\ vm[n] \in {"pending", "staging", "running"}
                      THEN "stopping" ELSE vm[n]]
          /\ [type |-> "deleteInstances", op |-> NoId, machines |-> S] \in events'
      BY <2>1
    <2>3. S \subseteq Addressed
      BY DEF GroupInv, AskedInv
    <2> HIDE DEF S
    <2>4. m \in S /\ type = "deleteInstances"
      BY <2>2, <2>3 DEF Addressed
    <2> QED
      BY <2>2, <2>4, Saying
  <1>3. ASSUME NEW n \in Machines, CloudStep(n) PROVE Says(type, m)'
    <2>1. CASE VmInsert(n)
      <3>1. m = n /\ type = "insert"
        BY <2>1 DEF VmInsert
      <3> QED
        BY <2>1, <3>1, Saying DEF VmInsert, Publish
    <2>2. CASE VmAddress(n)
      BY <2>2 DEF VmAddress
    <2>3. CASE VmDelete(n)
      <3>1. m = n /\ type = "delete"
        BY <2>3 DEF VmDelete
      <3> QED
        BY <2>3, <3>1, Saying DEF VmDelete, Publish
    <2> QED
      BY <1>3, <2>1, <2>2, <2>3 DEF CloudStep, VmPreempt
  <1>4. \/ UNCHANGED vm
        \/ \E r \in Requests : RequestSubmit(r)
        \/ \E q \in Returns : ReturnSubmit(q)
        \/ \E n \in Machines : CloudStep(n)
    BY StepMoves DEF MovesVm
  <1> QED
    BY <1>1, <1>2, <1>3, <1>4

\* What a callback has been told is in the rows, and stays there.
LEMMA StoredStep ==
    ASSUME TypeOK, TypeOK', ToldInv, StoredInv, Forward, Quiet, [Next]_vars
    PROVE  StoredInv'
  <1> SUFFICES ASSUME NEW u \in threads'
               PROVE  u.event.type \in StoredType
                        /\ \A m \in u.event.machines \cap DOMAIN rows' :
                              rows'[m].state >= Level(u.event.type)
    BY DEF StoredInv, Stored, Level
  <1>1. CASE u.event \in events /\ Delivered(u.event)
    BY <1>1, DeliveredStores
  <1>2. ASSUME NEW t \in threads, t.event = u.event,
               NEW m \in u.event.machines \cap DOMAIN rows'
        PROVE  rows'[m].state >= Level(u.event.type)
    <2>1. m \in DOMAIN rows
      <3>1. ASSUME NEW r \in Requests, RequestStore(r), m \in batch[r] PROVE FALSE
        BY <1>2, <3>1 DEF ToldInv, Quiet, RequestStore
      <3> QED
        BY <3>1, NewRows
    <2>2. rows[m].state >= Level(u.event.type) /\ rows'[m].state >= rows[m].state
      BY <1>2, <2>1 DEF StoredInv, Stored, Forward
    <2>3. rows[m].state \in Int /\ rows'[m].state \in Int /\ Level(u.event.type) \in Int
      <3>1. Level(u.event.type) \in Int
        BY <1>2, Types DEF StoredInv, CREATED, INSERTED, DELETE_REQUESTED, DELETED
      <3> QED
        BY <2>1, <3>1, StatesOrdered DEF TypeOK, TableOK, DbRow, Row
    <2> QED
      BY <2>2, <2>3
  <1> QED
    BY <1>1, <1>2, CallbackEvents DEF StoredInv

\* What is missed neither in the rows nor in the events is missed by nobody.
LEMMA MissedStep ==
    ASSUME TypeOK, TypeOK', CloudInv, AnswerInv, GroupInv, AskedInv, ToldInv, StoredInv,
           NothingMissed, Forward, Quiet, [Next]_vars,
           NEW m \in Awaited', NEW type \in StoredType, m \in Past(type)'
    PROVE  StateOf(m)' >= Level(type) \/ Says(type, m)'
  <1>1. CASE m \notin Past(type)
    BY <1>1, PastSaid
  <1>2. ASSUME NEW r \in Requests, RequestSubmit(r), m \in batch'[r] PROVE m \notin Past(type)
    <2>1. PICK S \in SUBSET {n \in Machines : vm[n] = "none"} :
              batch' = [batch EXCEPT ![r] = S]
      BY <1>2 DEF RequestSubmit
    <2>2. vm[m] = "none"
      BY <1>2, <2>1 DEF TypeOK
    <2> QED
      BY <2>2, Types DEF Exists, Born, Leaving, Gone
  <1>3. ASSUME m \in Awaited, m \in DOMAIN rows => m \in DOMAIN rows', m \in Past(type)
        PROVE  StateOf(m)' >= Level(type) \/ Says(type, m)'
    <2>1. StateOf(m) >= Level(type) => StateOf(m)' >= Level(type)
      <3>1. StateOf(m) \in Int /\ StateOf(m)' \in Int /\ Level(type) \in Int
        BY StatesOrdered, Types
        DEF TypeOK, TableOK, DbRow, Row, StateOf, STORED, CREATED, INSERTED,
            DELETE_REQUESTED, DELETED
      <3>2. CASE m \in DOMAIN rows
        BY <1>3, <3>1, <3>2 DEF StateOf, Forward
      <3>3. CASE m \notin DOMAIN rows
        BY <3>1, <3>3, Types
        DEF StateOf, STORED, CREATED, INSERTED, DELETE_REQUESTED, DELETED
      <3> QED
        BY <3>2, <3>3
    <2>2. ASSUME Says(type, m) PROVE StateOf(m)' >= Level(type) \/ Says(type, m)'
      <3>1. PICK e \in events : e.type = type /\ m \in e.machines
        BY <2>2 DEF Says
      <3>2. CASE e \in events'
        BY <3>1, <3>2 DEF Says
      <3>3. ASSUME NEW t \in threads, Ack(t), t.event = e
            PROVE  StateOf(m)' >= Level(type)
        <4>1. m \in DOMAIN rows
          BY <1>3, <3>1, <3>3 DEF Awaited, ToldInv, Quiet
        <4>2. rows[m].state >= Level(type)
          BY <3>1, <3>3, <4>1 DEF StoredInv, Stored
        <4> QED
          BY <3>3, <4>1, <4>2 DEF Ack, StateOf
      <3> QED
        BY <3>2, <3>3, EventsAcked
    <2> QED
      BY <1>3, <2>1, <2>2 DEF NothingMissed
  <1>4. Unmade
    BY UnmadeBatches
  <1> QED
    BY <1>1, <1>2, <1>3, <1>4, AwaitedStep

\* What the commands, the daemon and Pub/Sub have heard of, with all it rests on.
QuietBase == TypeOK /\ CloudInv /\ AnswerInv /\ GroupInv
LEMMA HeardInvariant == Spec => [](QuietBase /\ HeardInv /\ ToldInv /\ AskedInv)
  <1>1. Init => HeardInv /\ ToldInv /\ AskedInv
    BY DEF Init, HeardInv, ToldInv, AskedInv, Heard
  <1>2. QuietBase /\ HeardInv /\ ToldInv /\ AskedInv /\ [Next]_vars =>
            HeardInv' /\ ToldInv' /\ AskedInv'
    BY HeardStep, ToldStep, AskedStep DEF QuietBase
  <1> QED
    BY <1>1, <1>2, GroupInvariant, PTL DEF Spec, QuietBase

\* On a quiet day whatever has become of a machine is in its row or in an event that is
\* still to be acknowledged, crashes, lost acknowledgements and repetitions included.
THEOREM QuietDaysMissNothing == Spec => []NothingMissed
  <1> DEFINE Base == QuietBase /\ HeardInv /\ ToldInv /\ AskedInv
             Inv == QuietInv /\ StoredInv /\ NothingMissed
  <1>1. Init => Inv
    BY DEF Init, QuietInv, SentOnce, NoneBack, StoredInv, NothingMissed, Awaited
  <1>2. Base /\ Base' /\ Inv /\ [Next]_vars => Inv'
    <2> SUFFICES ASSUME Base, Base', Inv, [Next]_vars PROVE Inv'
      OBVIOUS
    <2>1. CASE ~Quiet
      BY <2>1 DEF QuietInv, StoredInv, NothingMissed, Quiet
    <2>2. CASE Quiet
      <3>1. Forward /\ QuietInv'
        BY <2>2, QuietStep DEF QuietBase
      <3>2. StoredInv'
        BY <2>2, <3>1, StoredStep DEF QuietBase
      <3>3. ASSUME NEW m \in Awaited', NEW type \in StoredType, m \in Past(type)'
            PROVE  StateOf(m)' >= Level(type)' \/ Says(type, m)'
        BY <2>2, <3>1, <3>3, MissedStep DEF QuietBase, Level
      <3>4. NothingMissed'
        BY <3>3 DEF NothingMissed, StoredType, EventType
      <3> QED
        BY <3>1, <3>2, <3>4
    <2> QED
      BY <2>1, <2>2
  <1> QED
    BY <1>1, <1>2, HeardInvariant, PTL DEF Spec

-----------------------------------------------------------------------------
(* No address is forgotten while the daemon lives                          *)

\* A row that has left STORED does not come back to it.
Begun(f) == \A m \in DOMAIN f \cap DOMAIN rows : rows[m].state # STORED => f[m].state # STORED

LEMMA StatementsBegin ==
    ASSUME TableOK(rows), NEW S, NEW W
    PROVE  /\ Begun(rows)
           /\ \A r \in Requests : Begun(InsertRows(r, S))
           /\ Begun(UpdateCreated(S))
           /\ Begun(UpdateInserted(S))
           /\ Begun(UpdateDeleteRequested(S))
           /\ Begun(UpdateDeleted(S))
           /\ \A q \in Returns : Begun(UpdateReturned(q, S))
           /\ Begun(UpdateIps(S, W))
           /\ Begun(DeleteRows(S))
           /\ \A m \in DOMAIN rows : Begun([rows EXCEPT ![m].expired = TRUE])
  <1> USE StatesDiffer DEF Begun, TableOK, DbRow, Row
  <1>1. Begun(rows)
    OBVIOUS
  <1>2. \A r \in Requests : Begun(InsertRows(r, S))
    BY DEF InsertRows
  <1>3. Begun(UpdateCreated(S))
    BY DEF UpdateCreated
  <1>4. Begun(UpdateInserted(S))
    BY DEF UpdateInserted
  <1>5. Begun(UpdateDeleteRequested(S))
    BY DEF UpdateDeleteRequested
  <1>6. Begun(UpdateDeleted(S))
    BY DEF UpdateDeleted
  <1>7. \A q \in Returns : Begun(UpdateReturned(q, S))
    BY DEF UpdateReturned
  <1>8. Begun(UpdateIps(S, W))
    BY DEF UpdateIps
  <1>9. Begun(DeleteRows(S))
    BY DEF DeleteRows
  <1>10. \A m \in DOMAIN rows : Begun([rows EXCEPT ![m].expired = TRUE])
    OBVIOUS
  <1> QED
    BY <1>1, <1>2, <1>3, <1>4, <1>5, <1>6, <1>7, <1>8, <1>9, <1>10

\* Only a callback that fetches takes an address away.
KeepsIps(f) == \A m \in DOMAIN f \cap DOMAIN rows : rows[m].ip => f[m].ip

LEMMA StatementsKeepIps ==
    ASSUME TableOK(rows), NEW S
    PROVE  /\ KeepsIps(rows)
           /\ \A r \in Requests : KeepsIps(InsertRows(r, S))
           /\ KeepsIps(UpdateCreated(S))
           /\ KeepsIps(UpdateInserted(S))
           /\ KeepsIps(UpdateDeleteRequested(S))
           /\ KeepsIps(UpdateDeleted(S))
           /\ \A q \in Returns : KeepsIps(UpdateReturned(q, S))
           /\ KeepsIps(DeleteRows(S))
           /\ \A m \in DOMAIN rows : KeepsIps([rows EXCEPT ![m].expired = TRUE])
  <1> USE DEF KeepsIps, TableOK, DbRow, Row
  <1>1. KeepsIps(rows)
    OBVIOUS
  <1>2. \A r \in Requests : KeepsIps(InsertRows(r, S))
    BY DEF InsertRows
  <1>3. KeepsIps(UpdateCreated(S))
    BY DEF UpdateCreated
  <1>4. KeepsIps(UpdateInserted(S))
    BY DEF UpdateInserted
  <1>5. KeepsIps(UpdateDeleteRequested(S))
    BY DEF UpdateDeleteRequested
  <1>6. KeepsIps(UpdateDeleted(S))
    BY DEF UpdateDeleted
  <1>7. \A q \in Returns : KeepsIps(UpdateReturned(q, S))
    BY DEF UpdateReturned
  <1>8. KeepsIps(DeleteRows(S))
    BY DEF DeleteRows
  <1>9. \A m \in DOMAIN rows : KeepsIps([rows EXCEPT ![m].expired = TRUE])
    OBVIOUS
  <1> QED
    BY <1>1, <1>2, <1>3, <1>4, <1>5, <1>6, <1>7, <1>8, <1>9

\* Every step makes its rows with one of the statements.
LEMMA StepBegins ==
    ASSUME TypeOK, [Next]_vars
    PROVE  Begun(rows') /\ (KeepsIps(rows') \/ \E t \in threads : IpStore(t))
  <1> USE StatementsBegin, StatementsKeepIps DEF TypeOK
  <1>1. ASSUME NEW r \in Requests, RequestStep(r) PROVE Begun(rows') /\ KeepsIps(rows')
    <2>1. UNCHANGED rows \/ rows' = InsertRows(r, batch[r])
      BY <1>1 DEF RequestStep, RequestSubmit, RequestStore, RequestAnswer, RequestFails
    <2> QED
      BY <2>1
  <1>2. ASSUME NEW q \in Returns, ReturnStep(q) PROVE Begun(rows') /\ KeepsIps(rows')
    <2>1. UNCHANGED rows \/ rows' = UpdateReturned(q, sent[q])
      BY <1>2 DEF ReturnStep, ReturnRead, ReturnSubmit, ReturnStore, ReturnAnswer, ReturnFails
    <2> QED
      BY <2>1
  <1>3. ASSUME NEW m \in Machines, CloudStep(m) \/ Expire(m) PROVE Begun(rows') /\ KeepsIps(rows')
    BY <1>3 DEF CloudStep, VmInsert, VmAddress, VmDelete, VmPreempt, Expire
  <1>4. ASSUME NEW e \in events, Handle(e) PROVE Begun(rows') /\ KeepsIps(rows')
    BY <1>4 DEF Handle, HandleInstancesCreated, HandleInstancesInserted,
                HandleGroupInstancesDeleted, HandleInstanceDeleted,
                HandleInstancePreempted, vars
  <1>5. ASSUME NEW t \in threads, Ack(t) \/ IpStep(t) \/ TrimStep(t)
        PROVE  Begun(rows') /\ (KeepsIps(rows') \/ IpStore(t))
    <2>1. \/ UNCHANGED rows \/ (IpStore(t) /\ rows' = UpdateIps(t.withIp, t.noIp))
          \/ rows' = DeleteRows(t.todo)
      BY <1>5 DEF Ack, IpStep, IpSelect, IpFetch, IpStore, TrimStep, TrimSelect, TrimDelete
    <2> QED
      BY <2>1
  <1>6. CASE CmdTrim \/ DaemonStops \/ Crash \/ UNCHANGED vars
    BY <1>6 DEF CmdTrim, CmdTrimSelect, CmdTrimDelete, DaemonStops, Crash, vars
  <1> QED
    BY <1>1, <1>2, <1>3, <1>4, <1>5, <1>6 DEF Next

\* The rows of the request a row names are those of the event that made them.
LEMMA RowOfRequest ==
    ASSUME CloudInv, AnswerInv, MadeInv, NEW m \in DOMAIN rows
    PROVE  m \in batch[rows[m].request]
  <1>1. PICK r \in Requests : m \in batch[r]
    BY DEF CloudInv, TableTrue, RowTrue, MadeInv
  <1> QED
    BY <1>1 DEF AnswerInv

\* Only a createInstances callback fetches, and only what it was told of and has moved on.
LEMMA SeekStep ==
    ASSUME QuietBase, HeardInv, ToldInv, MadeInv, SeekInv, [Next]_vars
    PROVE  SeekInv'
  <1> USE DEF QuietBase
  <1> SUFFICES ASSUME NEW u \in threads'
               PROVE  /\ u.pc \in {"select", "fetch"} => u.event.type = "createInstances"
                      /\ u.withIp \cup u.noIp \subseteq u.event.machines
                      /\ u.pc = "fetch" => u.todo \subseteq u.event.machines
                      /\ Orderly /\ u.event.type = "createInstances" =>
                            \A m \in u.event.machines \cap DOMAIN rows' :
                                rows'[m].state # STORED
    BY DEF SeekInv
  <1>1. /\ u.pc \in {"select", "fetch"} => u.event.type = "createInstances"
        /\ u.withIp \cup u.noIp \subseteq u.event.machines
        /\ u.pc = "fetch" => u.todo \subseteq u.event.machines
    <2>1. CASE u \in threads
      BY <2>1 DEF SeekInv
    <2>2. CASE Fresh(u)
      BY <2>2 DEF Fresh
    <2>3. ASSUME NEW t \in threads, Goes(t, u)
          PROVE  /\ u.pc \in {"select", "fetch"} => u.event.type = "createInstances"
                 /\ u.withIp \cup u.noIp \subseteq u.event.machines
                 /\ u.pc = "fetch" => u.todo \subseteq u.event.machines
      <3>1. u.event = t.event /\ t.event \in Heard
        BY <2>3, GoesOn DEF Heard
      <3>2. CASE /\ IpSelect(t) /\ u.pc = "fetch" /\ u.withIp = t.withIp /\ u.noIp = t.noIp
                 /\ u.todo = {m \in DOMAIN rows : /\ rows[m].request = t.event.op
                                                  /\ ~rows[m].ip /\ rows[m].state >= CREATED}
        <4>1. t.pc = "select" /\ t.event.type = "createInstances"
          BY <3>2 DEF IpSelect, SeekInv
        <4>2. t.event.machines = batch[t.event.op]
          BY <3>1, <4>1 DEF HeardInv
        <4>3. u.todo \subseteq t.event.machines
          BY <3>2, <4>2, RowOfRequest
        <4> QED
          BY <3>1, <3>2, <4>1, <4>3 DEF SeekInv
      <3>3. CASE /\ \E m \in t.todo : IpFetch(t, m)
                 /\ u.pc = "fetch" /\ u.todo \subseteq t.todo
                 /\ u.todo \cup u.withIp \cup u.noIp = t.todo \cup t.withIp \cup t.noIp
        <4>1. t.pc = "fetch"
          BY <3>3 DEF IpFetch
        <4> QED
          BY <3>1, <3>3, <4>1 DEF SeekInv
      <3>4. CASE IpStore(t) /\ t.noIp # {} /\ u.pc = "select" /\ u.withIp = {} /\ u.noIp = {}
        <4>1. t.pc = "fetch"
          BY <3>4 DEF IpStore
        <4> QED
          BY <3>1, <3>4, <4>1 DEF SeekInv
      <3> QED
        BY <2>3, <3>1, <3>2, <3>3, <3>4, GoesOn DEF SeekInv
    <2> QED
      BY <2>1, <2>2, <2>3, Callbacks
  <1>2. ASSUME Orderly, u.event.type = "createInstances",
               NEW m \in u.event.machines \cap DOMAIN rows'
        PROVE  rows'[m].state # STORED
    <2>1. ASSUME u.event \in events, Delivered(u.event) PROVE rows'[m].state # STORED
      <3>1. m \in DOMAIN rows /\ rows'[m].state >= Level("createInstances")
        BY <1>2, <2>1, DeliveredStores
      <3> QED
        BY <3>1, Types DEF STORED, CREATED
    <2>2. ASSUME NEW t \in threads, t.event = u.event PROVE rows'[m].state # STORED
      <3>1. m \in DOMAIN rows
        <4>1. ASSUME NEW r \in Requests, RequestStore(r), m \in batch[r] PROVE FALSE
          BY <1>2, <2>2, <4>1 DEF ToldInv, RequestStore
        <4> QED
          BY <4>1, NewRows
      <3> QED
        BY <1>2, <2>2, <3>1, StepBegins DEF SeekInv, Begun
    <2> QED
      BY <2>1, <2>2, CallbackEvents
  <1> QED
    BY <1>1, <1>2

\* What becomes of a callback that looks for the address of m.
LEMMA SeeksOn ==
    ASSUME QuietBase, HeardInv, ToldInv, SeekInv, Unmade, Orderly, [Next]_vars,
           crashes' = 0, crashes = 0,
           NEW m \in Awaited', m \in Awaited, NEW t \in threads, Seeks(t, m)
    PROVE  HasAddress(m)' \/ \E u \in threads' : Seeks(u, m)
  <1> USE DEF QuietBase
  <1>0. t \in Thread
    BY DEF TypeOK
  <1>1. m \in DOMAIN rows /\ m \in batch[t.event.op] /\ t.event.op \in Requests
    <2>1. t.event \in Heard /\ t.event.type = "createInstances" /\ m \in t.event.machines
      BY DEF Heard, Seeks
    <2>2. m \in DOMAIN rows
      BY <2>1 DEF Awaited, ToldInv
    <2> QED
      BY <2>1, <2>2 DEF HeardInv
  <1>2. rows[m].request = t.event.op /\ rows[m].state >= CREATED
    <2>1. rows[m].request = t.event.op
      BY <1>1 DEF AnswerInv
    <2>2. rows[m].state # STORED /\ rows[m].state \in MachineState
      BY <1>1 DEF SeekInv, Seeks, TypeOK, TableOK, DbRow, Row
    <2> QED
      BY <2>1, <2>2
      DEF MachineState, STORED, CREATED, INSERTED, DELETE_REQUESTED, DELETED
  <1>3. CASE t \in threads'
    BY <1>3
  <1>4. CASE IpSelect(t)
    <2> DEFINE T == {n \in DOMAIN rows : /\ rows[n].request = t.event.op
                                         /\ ~rows[n].ip /\ rows[n].state >= CREATED}
               u == [t EXCEPT !.pc = "fetch", !.todo = T]
    <2>1. u \in threads' /\ UNCHANGED rows
      BY <1>4 DEF IpSelect, Replace
    <2>2. u.pc = "fetch" /\ u.todo = T /\ u.event = t.event
      BY <1>0 DEF Thread
    <2>3. CASE rows[m].ip
      BY <1>1, <2>1, <2>3 DEF HasAddress
    <2>4. CASE ~rows[m].ip
      <3>1. m \in T
        BY <1>1, <1>2, <2>4
      <3>2. Seeks(u, m)
        BY <2>2, <3>1 DEF Seeks
      <3> QED
        BY <2>1, <3>2
    <2> QED
      BY <2>3, <2>4
  <1>5. ASSUME NEW n \in Machines, IpFetch(t, n) PROVE \E u \in threads' : Seeks(u, m)
    <2>1. PICK u \in threads' : \/ u = [t EXCEPT !.todo = @ \ {n}, !.withIp = @ \cup {n}]
                                \/ u = [t EXCEPT !.todo = @ \ {n}, !.noIp = @ \cup {n}]
      BY <1>5 DEF IpFetch, Replace
    <2>2. u.event = t.event /\ u.pc = t.pc /\ u.todo = t.todo \ {n}
      BY <1>0, <2>1 DEF Thread
    <2>3. \/ u.withIp = t.withIp \cup {n} /\ u.noIp = t.noIp
          \/ u.withIp = t.withIp /\ u.noIp = t.noIp \cup {n}
      BY <1>0, <2>1 DEF Thread
    <2>4. Seeks(u, m)
      BY <2>2, <2>3 DEF Seeks
    <2> QED
      BY <2>4
  <1>6. CASE IpStore(t)
    <2>1. m \in t.withIp \cup t.noIp
      BY <1>6 DEF Seeks, IpStore
    <2>2. CASE m \in t.withIp
      <3>1. m \in DOMAIN rows' /\ rows'[m] = [rows[m] EXCEPT !.ip = TRUE, !.expired = FALSE]
        BY <1>1, <1>6, <2>2 DEF IpStore, UpdateIps
      <3>2. rows[m] \in DbRow
        BY <1>1 DEF TypeOK, TableOK
      <3>3. rows'[m].ip
        BY <3>1, <3>2 DEF DbRow, Row
      <3> QED
        BY <3>1, <3>3 DEF HasAddress
    <2>3. CASE m \in t.noIp
      <3> DEFINE u == [t EXCEPT !.pc = "select", !.withIp = {}, !.noIp = {}]
      <3>1. u \in threads'
        BY <1>6, <2>3 DEF IpStore, Replace
      <3>2. u.event = t.event /\ u.pc = "select"
        BY <1>0 DEF Thread
      <3>3. Seeks(u, m)
        BY <3>2 DEF Seeks
      <3> QED
        BY <3>1, <3>3
    <2> QED
      BY <2>1, <2>2, <2>3
  <1>7. \/ t \in threads' \/ IpSelect(t) \/ IpStore(t)
        \/ \E n \in Machines : IpFetch(t, n)
    <2>1. ASSUME NEW v \in threads, v # t, Ack(v) \/ IpStep(v) \/ TrimStep(v)
          PROVE  t \in threads'
      BY <2>1 DEF Ack, IpStep, IpSelect, IpFetch, IpStore, TrimStep, TrimSelect, TrimDelete,
                  Replace
    <2>2. ~(Ack(t) \/ TrimStep(t))
      BY DEF Seeks, Ack, TrimStep, TrimSelect, TrimDelete
    <2>3. ASSUME NEW e \in events, Handle(e) PROVE t \in threads'
      BY <2>3 DEF Handle, HandleInstancesCreated, HandleInstancesInserted,
                  HandleGroupInstancesDeleted, HandleInstanceDeleted,
                  HandleInstancePreempted, StartThread, vars
    <2>4. ~(DaemonStops \/ Crash)
      BY DEF DaemonStops, Crash
    <2>5. ASSUME NEW n \in Machines, CloudStep(n) \/ Expire(n) PROVE t \in threads'
      BY <2>5 DEF CloudStep, VmInsert, VmAddress, VmDelete, VmPreempt, Expire
    <2>6. ASSUME NEW r \in Requests, RequestStep(r) PROVE t \in threads'
      BY <2>6 DEF RequestStep, RequestSubmit, RequestStore, RequestAnswer, RequestFails
    <2>7. ASSUME NEW q \in Returns, ReturnStep(q) PROVE t \in threads'
      BY <2>7 DEF ReturnStep, ReturnRead, ReturnSubmit, ReturnStore, ReturnAnswer, ReturnFails
    <2>8. CASE CmdTrim \/ UNCHANGED vars
      BY <2>8 DEF CmdTrim, CmdTrimSelect, CmdTrimDelete, vars
    <2> QED
      BY <2>1, <2>2, <2>3, <2>4, <2>5, <2>6, <2>7, <2>8 DEF Next, IpStep
  <1> QED
    BY <1>3, <1>4, <1>5, <1>6, <1>7

\* Two returns of a thread to its work: after an acknowledgement, and after an update
\* that has found no address.
LEMMA SeeksAgain ==
    ASSUME TypeOK, SeekInv, NEW t \in threads, NEW m,
           \/ Ack(t) /\ t.event.type = "createInstances" /\ m \in t.event.machines
           \/ IpStore(t) /\ m \in t.noIp
    PROVE  \E u \in threads' : Seeks(u, m)
  <1>0. t \in Thread
    BY DEF TypeOK
  <1>1. CASE Ack(t) /\ t.event.type = "createInstances" /\ m \in t.event.machines
    <2> DEFINE u == [t EXCEPT !.pc = "select"]
    <2>1. u \in threads'
      BY <1>1 DEF Ack, Replace
    <2>2. u.event = t.event /\ u.pc = "select"
      BY <1>0 DEF Thread
    <2>3. Seeks(u, m)
      BY <1>1, <2>2 DEF Seeks
    <2> QED
      BY <2>1, <2>3
  <1>2. CASE IpStore(t) /\ m \in t.noIp
    <2> DEFINE u == [t EXCEPT !.pc = "select", !.withIp = {}, !.noIp = {}]
    <2>1. u \in threads' /\ t.pc = "fetch"
      BY <1>2 DEF IpStore, Replace
    <2>2. u.event = t.event /\ u.pc = "select"
      BY <1>0 DEF Thread
    <2>3. t.event.type = "createInstances" /\ m \in t.event.machines
      BY <1>2, <2>1 DEF SeekInv
    <2>4. Seeks(u, m)
      BY <2>2, <2>3 DEF Seeks
    <2> QED
      BY <2>1, <2>4
  <1> QED
    BY <1>1, <1>2

\* A machine that has no address is looked for, or was given one that it keeps.
LEMMA AddressStep ==
    ASSUME QuietBase, HeardInv, ToldInv, SeekInv, AddressAwaited, [Next]_vars
    PROVE  AddressAwaited'
  <1> USE DEF QuietBase
  <1> SUFFICES ASSUME Orderly, crashes' = 0, NEW m \in Awaited'
               PROVE  \/ HasAddress(m)' \/ Says("createInstances", m)'
                      \/ \E t \in threads' : Seeks(t, m)
    BY DEF AddressAwaited, Seeks
  <1>1. Unmade
    BY UnmadeBatches
  <1>2. crashes = 0
    <2>1. crashes \in Nat
      BY GceAssumption DEF TypeOK
    <2>2. UNCHANGED crashes \/ crashes' = crashes + 1
      <3>1. ASSUME NEW e \in events, Handle(e) PROVE UNCHANGED crashes
        BY <3>1 DEF Handle, HandleInstancesCreated, HandleInstancesInserted,
                    HandleGroupInstancesDeleted, HandleInstanceDeleted,
                    HandleInstancePreempted, vars, boundVars
      <3>2. ASSUME NEW t \in threads, Ack(t) \/ IpStep(t) \/ TrimStep(t) PROVE UNCHANGED crashes
        BY <3>2 DEF Ack, IpStep, IpSelect, IpFetch, IpStore, TrimStep, TrimSelect, TrimDelete,
                    boundVars
      <3>3. ASSUME NEW r \in Requests, RequestStep(r) PROVE UNCHANGED crashes
        BY <3>3 DEF RequestStep, RequestSubmit, RequestStore, RequestAnswer, RequestFails,
                    boundVars
      <3>4. ASSUME NEW q \in Returns, ReturnStep(q) PROVE UNCHANGED crashes
        BY <3>4 DEF ReturnStep, ReturnRead, ReturnSubmit, ReturnStore, ReturnAnswer, ReturnFails,
                    boundVars
      <3>5. ASSUME NEW n \in Machines, CloudStep(n) \/ Expire(n) PROVE UNCHANGED crashes
        BY <3>5 DEF CloudStep, VmInsert, VmAddress, VmDelete, VmPreempt, Expire, boundVars
      <3>6. CASE CmdTrim \/ UNCHANGED vars
        BY <3>6 DEF CmdTrim, CmdTrimSelect, CmdTrimDelete, vars, boundVars
      <3>7. CASE DaemonStops \/ Crash
        BY <3>7 DEF DaemonStops, Crash
      <3> QED
        BY <3>1, <3>2, <3>3, <3>4, <3>5, <3>6, <3>7 DEF Next
    <2> QED
      BY <2>1, <2>2
  <1>3. ASSUME NEW r \in Requests, RequestSubmit(r), m \in batch'[r]
        PROVE  Says("createInstances", m)'
    <2>1. PICK S \in SUBSET {n \in Machines : vm[n] = "none"} :
              /\ batch' = [batch EXCEPT ![r] = S]
              /\ events' = events \cup
                    {[type |-> "createInstances", op |-> r, machines |-> S]}
      BY <1>3 DEF RequestSubmit
    <2>2. m \in S
      BY <1>3, <2>1 DEF TypeOK
    <2> QED
      BY <2>1, <2>2, Saying
  <1>4. ASSUME m \in Awaited, m \in DOMAIN rows => m \in DOMAIN rows'
        PROVE  \/ HasAddress(m)' \/ Says("createInstances", m)'
               \/ \E t \in threads' : Seeks(t, m)
    <2>1. CASE HasAddress(m)
      <3>1. m \in DOMAIN rows /\ m \in DOMAIN rows' /\ rows[m].ip
        BY <1>4, <2>1 DEF HasAddress
      <3>2. CASE KeepsIps(rows')
        BY <3>1, <3>2 DEF KeepsIps, HasAddress
      <3>3. ASSUME NEW t \in threads, IpStore(t), m \notin t.noIp PROVE HasAddress(m)'
        <4>1. rows'[m] = rows[m] \/ rows'[m] = [rows[m] EXCEPT !.ip = TRUE, !.expired = FALSE]
          BY <3>1, <3>3 DEF IpStore, UpdateIps
        <4>2. rows[m] \in DbRow
          BY <3>1 DEF TypeOK, TableOK
        <4>3. rows'[m].ip
          BY <3>1, <4>1, <4>2 DEF DbRow, Row
        <4> QED
          BY <3>1, <4>3 DEF HasAddress
      <3> QED
        BY <3>2, <3>3, StepBegins, SeeksAgain
    <2>2. CASE Says("createInstances", m)
      <3>1. PICK e \in events : e.type = "createInstances" /\ m \in e.machines
        BY <2>2 DEF Says
      <3>2. CASE e \in events'
        BY <3>1, <3>2 DEF Says
      <3> QED
        BY <3>1, <3>2, EventsAcked, SeeksAgain
    <2>3. ASSUME NEW t \in threads, Seeks(t, m)
          PROVE  HasAddress(m)' \/ \E u \in threads' : Seeks(u, m)
      BY <1>1, <1>2, <1>4, <2>3, SeeksOn
    <2> QED
      BY <1>2, <1>4, <2>1, <2>2, <2>3 DEF AddressAwaited
  <1> QED
    BY <1>1, <1>3, <1>4, AwaitedStep

\* While the daemon lives and events come after the rows, every machine without an
\* address is looked for by an event or by a callback.
THEOREM AddressesAwaited == Spec => []AddressAwaited
  <1> DEFINE Base == QuietBase /\ HeardInv /\ ToldInv /\ AskedInv
             Inv == MadeInv /\ SeekInv /\ AddressAwaited
  <1>1. Init => Inv
    BY DEF Init, MadeInv, Exists, SeekInv, AddressAwaited, Awaited
  <1>2. Base /\ Inv /\ [Next]_vars => Inv'
    BY StepMade, SeekStep, AddressStep DEF QuietBase
  <1> QED
    BY <1>1, <1>2, HeardInvariant, PTL DEF Spec

-----------------------------------------------------------------------------
(* The callbacks that wait are bounded by the requests *)

\* Steps that start no callback, take no event away and submit nothing.
PoolRests ==
    /\ threads' \subseteq threads /\ events \subseteq events'
    /\ UNCHANGED <<Unconfirmed, lostAcks>>
    /\ UNCHANGED Submissions \/ \E r \in Requests : Submissions' = Submissions \cup {r}

\* Set sizes, where one element comes or goes.
LEMMA OneMore ==
    ASSUME NEW S, NEW x, NEW T \in SUBSET (S \cup {x}), IsFiniteSet(S)
    PROVE  /\ IsFiniteSet(T) /\ Cardinality(T) \in Nat /\ Cardinality(S) \in Nat
           /\ Cardinality(T) <= Cardinality(S) + 1
           /\ T \subseteq S => Cardinality(T) <= Cardinality(S)
  <1>1. /\ IsFiniteSet(S \cup {x}) /\ Cardinality(S) \in Nat
        /\ Cardinality(S \cup {x}) <= Cardinality(S) + 1
    <2>1. Cardinality(S) \in Nat
      BY FS_CardinalityType
    <2>2. /\ IsFiniteSet(S \cup {x})
          /\ Cardinality(S \cup {x}) \in {Cardinality(S), Cardinality(S) + 1}
      BY FS_AddElement
    <2> QED
      BY <2>1, <2>2
  <1>2. /\ IsFiniteSet(T) /\ Cardinality(T) <= Cardinality(S \cup {x})
        /\ Cardinality(T) \in Nat /\ Cardinality(S \cup {x}) \in Nat
    BY <1>1, FS_Subset, FS_CardinalityType
  <1>3. T \subseteq S => Cardinality(T) <= Cardinality(S)
    BY FS_Subset
  <1> QED
    BY <1>1, <1>2, <1>3

LEMMA OneForAnother ==
    ASSUME NEW S, NEW x \in S, NEW y, NEW T \in SUBSET ((S \ {x}) \cup {y}), IsFiniteSet(S)
    PROVE  IsFiniteSet(T) /\ Cardinality(T) <= Cardinality(S)
  <1>1. IsFiniteSet(S \ {x}) /\ Cardinality(S \ {x}) = Cardinality(S) - 1
    BY FS_RemoveElement
  <1>2. IsFiniteSet(T) /\ Cardinality(T) <= Cardinality(S \ {x}) + 1
    BY <1>1, OneMore
  <1> QED
    BY <1>1, <1>2, FS_CardinalityType

LEMMA RestKeeps == ASSUME PoolInv, lostAcks \in Nat, PoolRests PROVE PoolInv'
  <1> USE DEF PoolInv, PoolRests
  <1>1. IsFiniteSet(Waiters') /\ Cardinality(Waiters') <= Cardinality(Waiters)
    <2>1. Waiters' \in SUBSET Waiters
      BY DEF Waiters
    <2> QED
      BY <2>1, FS_Subset
  <1>2. IsFiniteSet(Submissions') /\ Cardinality(Submissions) <= Cardinality(Submissions')
    <2>1. CASE UNCHANGED Submissions
      BY <2>1, FS_CardinalityType
    <2>2. ASSUME NEW r \in Requests, Submissions' = Submissions \cup {r}
          PROVE  /\ IsFiniteSet(Submissions')
                 /\ Cardinality(Submissions) <= Cardinality(Submissions')
      <3>1. IsFiniteSet(Submissions \cup {r})
        BY FS_AddElement
      <3> QED
        BY <2>2, <3>1, FS_Subset
    <2> QED
      BY <2>1, <2>2
  <1>3. HeldOnce'
    BY DEF HeldOnce, Holds
  <1>4. /\ Cardinality(Waiters) \in Nat /\ Cardinality(Waiters') \in Nat
        /\ Cardinality(Unconfirmed) \in Nat
        /\ Cardinality(Submissions) \in Nat /\ Cardinality(Submissions') \in Nat
    BY <1>1, <1>2, FS_CardinalityType
  <1>5. IsFiniteSet(Unconfirmed') /\ Cardinality(Unconfirmed') = Cardinality(Unconfirmed)
        /\ lostAcks' = lostAcks
    OBVIOUS
  <1>6. WaitersBounded'
    BY <1>1, <1>2, <1>4, <1>5 DEF WaitersBounded
  <1> QED
    BY <1>1, <1>2, <1>3, <1>5, <1>6

\* requestMachines publishes one event of its own, and is counted with it.
LEMMA SubmitKeeps ==
    ASSUME TypeOK, PoolInv, NEW r \in Requests, RequestSubmit(r)
    PROVE  PoolInv'
  <1> USE DEF PoolInv, TypeOK
  <1>1. UNCHANGED <<threads, lostAcks, Waiters>> /\ lostAcks \in Nat /\ events \subseteq events'
    BY DEF RequestSubmit, boundVars, Waiters
  <1>2. r \notin Submissions /\ Submissions' = Submissions \cup {r}
    BY DEF RequestSubmit, Submissions
  <1>3. PICK e : Unconfirmed' \subseteq Unconfirmed \cup {e}
    BY DEF RequestSubmit, Unconfirmed
  <1>4. /\ IsFiniteSet(Unconfirmed') /\ Cardinality(Unconfirmed') \in Nat
        /\ Cardinality(Unconfirmed') <= Cardinality(Unconfirmed) + 1
    BY <1>3, OneMore
  <1>5. IsFiniteSet(Submissions') /\ Cardinality(Submissions') = Cardinality(Submissions) + 1
    BY <1>2, FS_AddElement
  <1>6. HeldOnce'
    BY <1>1 DEF HeldOnce, Holds
  <1>7. /\ Cardinality(Waiters) \in Nat /\ Cardinality(Unconfirmed) \in Nat
        /\ Cardinality(Submissions) \in Nat /\ Cardinality(Waiters') = Cardinality(Waiters)
    BY <1>1, FS_CardinalityType
  <1>8. WaitersBounded'
    BY <1>1, <1>4, <1>5, <1>7 DEF WaitersBounded
  <1> QED
    BY <1>1, <1>4, <1>5, <1>6, <1>8

\* A delivery: no other callback that has yet to acknowledge holds the event.
LEMMA DeliveryKeeps ==
    ASSUME TypeOK, PoolInv, NEW e \in events, Delivered(e)
    PROVE  PoolInv'
  <1> USE DEF PoolInv
  <1>1. /\ Deliverable(e, e.type) /\ UNCHANGED <<events, reqPc, lostAcks>>
        /\ \E pc \in {"ack", "trimSelect"} : StartThread(e, pc)
    BY DEF Delivered, HandleInstancesCreated, HandleInstancesInserted,
           HandleGroupInstancesDeleted, HandleInstanceDeleted, cliVars, boundVars, Deliverable
  <1>2. PICK u : threads' = threads \cup {u} /\ u.event = e /\ u.pc \in {"ack", "trimSelect"}
    <2>1. PICK pc \in {"ack", "trimSelect"}, w \in Free :
              threads' = threads \cup {[worker |-> w, event |-> e, pc |-> pc,
                                        todo |-> {}, withIp |-> {}, noIp |-> {}]}
      BY <1>1 DEF StartThread
    <2> DEFINE n == [worker |-> w, event |-> e, pc |-> pc,
                     todo |-> {}, withIp |-> {}, noIp |-> {}]
    <2>2. threads' = threads \cup {n} /\ n.event = e /\ n.pc \in {"ack", "trimSelect"}
      BY <2>1
    <2> HIDE DEF n
    <2> QED
      BY <2>2
  <1>3. UNCHANGED <<Waiters, Unconfirmed, Submissions>>
    BY <1>1, <1>2 DEF Waiters, Unconfirmed, Submissions
  <1>4. \A t \in threads : t.event = e => ~Holds(t)
    BY <1>1 DEF Deliverable, Holds
  <1>5. HeldOnce'
    BY <1>1, <1>2, <1>4 DEF HeldOnce, Holds
  <1> QED
    BY <1>1, <1>3, <1>5 DEF WaitersBounded

\* An acknowledgement: the event goes when its callback begins to wait, unless it is lost.
LEMMA AckKeeps ==
    ASSUME TypeOK, PoolInv, NEW t \in threads, Ack(t)
    PROVE  PoolInv'
  <1> USE DEF PoolInv
  <1>1. /\ Holds(t) /\ t.event \in events /\ t \notin Waiters
        /\ UNCHANGED Submissions /\ lostAcks \in Nat
    BY DEF Ack, Holds, HeldOnce, Waiters, Submissions, cliVars, TypeOK
  <1>2. \/ events' = events \ {t.event} /\ lostAcks' = lostAcks
        \/ events' = events /\ lostAcks' = lostAcks + 1
    BY DEF Ack
  <1>3. PICK u : /\ threads' \subseteq (threads \ {t}) \cup {u} /\ ~Holds(u)
                 /\ t.event.type # "createInstances" => threads' = threads \ {t}
    <2>1. ASSUME t.event.type = "createInstances"
          PROVE  \E u : threads' \subseteq (threads \ {t}) \cup {u} /\ ~Holds(u)
      <3>1. threads' = (threads \ {t}) \cup {[t EXCEPT !.pc = "select"]}
        BY <2>1 DEF Ack, Replace
      <3>2. [t EXCEPT !.pc = "select"].pc = "select"
        BY DEF TypeOK, Thread
      <3> QED
        BY <3>1, <3>2 DEF Holds
    <2>2. ASSUME t.event.type # "createInstances"
          PROVE  threads' = threads \ {t} /\ \E u : ~Holds(u)
      <3>1. [pc |-> "select"].pc = "select"
        OBVIOUS
      <3> QED
        BY <2>2, <3>1 DEF Ack, Holds
    <2> QED
      BY <2>1, <2>2
  <1>4. HeldOnce'
    <2>1. \A s \in threads' : Holds(s) => s \in threads \ {t}
      BY <1>3
    <2>2. \A s \in threads \ {t} : Holds(s) => s.event \in events /\ s.event # t.event
      BY <1>1 DEF HeldOnce
    <2> QED
      BY <1>2, <2>1, <2>2 DEF HeldOnce, Holds
  <1>5. Waiters' \subseteq Waiters \cup {u}
    BY <1>3 DEF Waiters
  <1>6. Unconfirmed' \subseteq Unconfirmed
    BY <1>2 DEF Unconfirmed
  <1>7. /\ Cardinality(Waiters) \in Nat /\ Cardinality(Unconfirmed) \in Nat
        /\ Cardinality(Submissions) \in Nat
        /\ IsFiniteSet(Waiters') /\ Cardinality(Waiters') \in Nat
        /\ Cardinality(Waiters') <= Cardinality(Waiters) + 1
        /\ IsFiniteSet(Unconfirmed') /\ Cardinality(Unconfirmed') \in Nat
        /\ Cardinality(Unconfirmed') <= Cardinality(Unconfirmed)
    BY <1>5, <1>6, OneMore, FS_Subset, FS_CardinalityType
  <1>8. CASE t.event.type # "createInstances"
    <2>1. Waiters' \subseteq Waiters
      BY <1>3, <1>8 DEF Waiters
    <2>2. Cardinality(Waiters') <= Cardinality(Waiters)
      BY <2>1, FS_Subset
    <2>3. WaitersBounded'
      BY <1>1, <1>2, <1>7, <2>2 DEF WaitersBounded
    <2> QED
      BY <1>1, <1>4, <1>7, <2>3
  <1>9. CASE t.event.type = "createInstances"
    <2>1. CASE lostAcks' = lostAcks + 1
      BY <1>1, <1>4, <1>7, <2>1 DEF WaitersBounded
    <2>2. CASE events' = events \ {t.event} /\ lostAcks' = lostAcks
      <3>1. t.event \in Unconfirmed /\ Unconfirmed' = Unconfirmed \ {t.event}
        BY <1>1, <1>9, <2>2 DEF Unconfirmed
      <3>2. Cardinality(Unconfirmed') = Cardinality(Unconfirmed) - 1
        BY <3>1, FS_RemoveElement
      <3>3. WaitersBounded'
        BY <1>1, <1>7, <2>2, <3>2 DEF WaitersBounded
      <3> QED
        BY <1>1, <1>4, <1>7, <3>3
    <2> QED
      BY <1>2, <2>1, <2>2
  <1> QED
    BY <1>8, <1>9

\* The other steps of a callback leave it where it is, before or after its
\* acknowledgement.
LEMMA ThreadKeeps ==
    ASSUME TypeOK, PoolInv, NEW t \in threads, IpStep(t) \/ TrimStep(t)
    PROVE  PoolInv'
  <1> USE DEF PoolInv
  <1>1. UNCHANGED <<events, lostAcks, reqPc, Unconfirmed, Submissions>> /\ lostAcks \in Nat
    <2>1. UNCHANGED <<events, lostAcks, reqPc>>
      BY DEF IpStep, IpSelect, IpFetch, IpStore, TrimStep, TrimSelect, TrimDelete,
             cliVars, boundVars
    <2> QED
      BY <2>1 DEF Unconfirmed, Submissions, TypeOK
  <1>2. PICK u : /\ threads' \subseteq (threads \ {t}) \cup {u}
                 /\ u.event = t.event /\ (Holds(u) <=> Holds(t))
    <2>1. ASSUME NEW u, threads' = (threads \ {t}) \cup {u}, Goes(t, u), ~Ack(t)
          PROVE  u.event = t.event /\ (Holds(u) <=> Holds(t))
      BY <2>1, GoesOn DEF Holds, IpSelect, IpFetch, IpStore, TrimSelect, TrimDelete
    <2>2. ~Ack(t)
      BY DEF Ack, IpStep, IpSelect, IpFetch, IpStore, TrimStep, TrimSelect, TrimDelete
    <2>3. \/ threads' = threads \ {t}
          \/ \E u : threads' = (threads \ {t}) \cup {u} /\ Goes(t, u)
      BY DEF IpStep, IpSelect, IpFetch, IpStore, TrimStep, TrimSelect, TrimDelete, Replace, Goes
    <2> QED
      BY <2>1, <2>2, <2>3
  <1>3. HeldOnce'
    <2>1. \A s \in threads' : s \in threads \ {t} \/ s = u
      BY <1>2
    <2> QED
      BY <1>1, <1>2, <2>1 DEF HeldOnce, Holds
  <1>4. IsFiniteSet(Waiters') /\ Cardinality(Waiters') <= Cardinality(Waiters)
    <2>1. CASE Holds(t)
      <3>1. Waiters' \subseteq Waiters
        BY <1>2, <2>1 DEF Waiters, Holds
      <3> QED
        BY <3>1, FS_Subset
    <2>2. CASE ~Holds(t)
      <3>1. t \in Waiters /\ Waiters' \subseteq (Waiters \ {t}) \cup {u}
        BY <1>2, <2>2 DEF Waiters, Holds
      <3> QED
        BY <3>1, OneForAnother
    <2> QED
      BY <2>1, <2>2
  <1>5. /\ Cardinality(Waiters) \in Nat /\ Cardinality(Waiters') \in Nat
        /\ Cardinality(Unconfirmed) \in Nat /\ Cardinality(Submissions) \in Nat
    BY <1>4, FS_CardinalityType
  <1>6. WaitersBounded'
    BY <1>1, <1>4, <1>5 DEF WaitersBounded
  <1> QED
    BY <1>1, <1>3, <1>4, <1>6

\* Nothing else touches the callbacks, the createInstances events or the requests, but
\* for a request that fails before it has submitted anything, and a death.
LEMMA OthersRest ==
    ASSUME TypeOK, [Next]_vars, ~(\E r \in Requests : RequestSubmit(r)),
           ~(\E e \in events : Delivered(e)),
           ~(\E t \in threads : Ack(t) \/ IpStep(t) \/ TrimStep(t))
    PROVE  PoolRests
  <1> USE DEF TypeOK, PoolRests
  <1>1. ASSUME UNCHANGED <<events, reqPc, lostAcks>>, threads' \subseteq threads
        PROVE  PoolRests
    BY <1>1 DEF Unconfirmed, Submissions
  <1>2. ASSUME NEW r \in Requests, RequestStep(r) PROVE PoolRests
    <2>1. UNCHANGED <<events, threads, lostAcks>>
      BY <1>2 DEF RequestStep, RequestStore, RequestAnswer, RequestFails, boundVars
    <2>2. \A s \in Requests : s # r => reqPc'[s] = reqPc[s]
      BY <1>2 DEF RequestStep, RequestStore, RequestAnswer, RequestFails
    <2>3. reqPc'[r] # "idle"
      BY <1>2 DEF RequestStep, RequestStore, RequestAnswer, RequestFails
    <2>4. Submissions' = Submissions \cup {r}
      BY <2>2, <2>3 DEF Submissions
    <2> QED
      BY <2>1, <2>4 DEF Unconfirmed
  <1>3. ASSUME NEW q \in Returns, ReturnStep(q) PROVE PoolRests
    <2>1. CASE ReturnSubmit(q)
      <3>1. PICK S : events' = events \cup
                          {[type |-> "deleteInstances", op |-> NoId, machines |-> S]}
        BY <2>1 DEF ReturnSubmit
      <3>2. UNCHANGED <<threads, reqPc, lostAcks>>
        BY <2>1 DEF ReturnSubmit, boundVars
      <3>3. UNCHANGED <<Unconfirmed, Submissions>>
        BY <3>1, <3>2 DEF Unconfirmed, Submissions
      <3> QED
        BY <3>1, <3>2, <3>3
    <2>2. CASE ~ReturnSubmit(q)
      BY <1>1, <1>3, <2>2
      DEF ReturnStep, ReturnRead, ReturnStore, ReturnAnswer, ReturnFails, boundVars
    <2> QED
      BY <2>1, <2>2
  <1>4. ASSUME NEW m \in Machines, CloudStep(m) \/ Expire(m) PROVE PoolRests
    <2>1. UNCHANGED <<threads, reqPc, lostAcks>>
      BY <1>4 DEF CloudStep, VmInsert, VmAddress, VmDelete, VmPreempt, Expire,
                  cliVars, boundVars
    <2>2. \/ UNCHANGED events
          \/ \E type \in {"insert", "delete", "preempted"} : Publish(type, m)
      BY <1>4 DEF CloudStep, VmInsert, VmAddress, VmDelete, VmPreempt, Expire
    <2>3. UNCHANGED <<Unconfirmed, Submissions>> /\ events \subseteq events'
      BY <2>1, <2>2 DEF Publish, Unconfirmed, Submissions
    <2> QED
      BY <2>1, <2>3
  <1>5. ASSUME NEW e \in events, Handle(e) PROVE PoolRests
    BY <1>1, <1>5 DEF Handle, Delivered, HandleInstancePreempted, vars, cliVars, boundVars
  <1>6. CASE CmdTrim \/ DaemonStops \/ UNCHANGED vars
    BY <1>1, <1>6 DEF CmdTrim, CmdTrimSelect, CmdTrimDelete, DaemonStops, vars, cliVars,
                      boundVars
  <1>7. CASE Crash
    <2>1. UNCHANGED <<events, lostAcks>> /\ threads' = {}
      BY <1>7 DEF Crash
    <2>2. UNCHANGED Submissions
      BY <1>7 DEF Crash, Submissions
    <2> QED
      BY <2>1, <2>2 DEF Unconfirmed
  <1> QED
    BY <1>2, <1>3, <1>4, <1>5, <1>6, <1>7 DEF Next

\* The callbacks that wait for an address, and so hold a worker, are never more than the
\* requests that were made and the acknowledgements that were lost.
THEOREM FewWait == Spec => []WaitersBounded
  <1>1. Init => PoolInv
    <2>1. ASSUME Init PROVE Waiters = {} /\ Unconfirmed = {} /\ Submissions = {} /\ lostAcks = 0
      BY <2>1 DEF Init, Waiters, Unconfirmed, Submissions
    <2>2. ASSUME Init PROVE HeldOnce
      BY <2>2 DEF Init, HeldOnce
    <2> QED
      BY <2>1, <2>2, FS_EmptySet DEF PoolInv, WaitersBounded
  <1>2. TypeOK /\ PoolInv /\ [Next]_vars => PoolInv'
    <2>1. TypeOK => lostAcks \in Nat
      BY DEF TypeOK
    <2> QED
      BY <2>1, OthersRest, RestKeeps, SubmitKeeps, DeliveryKeeps, AckKeeps, ThreadKeeps
  <1>3. PoolInv => WaitersBounded
    BY DEF PoolInv
  <1> QED
    BY <1>1, <1>2, <1>3, TypeCorrect, PTL DEF Spec
=============================================================================
