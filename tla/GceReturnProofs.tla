--------------------------- MODULE GceReturnProofs ---------------------------
(***************************************************************************)
(* For any number of machines, requests, returns and threads: a return     *)
(* that was answered is never forgotten, what is answered complete is so,  *)
(* a return that fails leaves no more behind than one group, and events of *)
(* an instance never take its row back.  The invariants build on one       *)
(* another: CloudInv, ReturnInv, AnswerInv, GroupInv.                      *)
(***************************************************************************)
EXTENDS GceProofs

-----------------------------------------------------------------------------
(* No statement forgets a return request or makes a row but InsertRows *)

\* What ReturnInv and GroupInv need of the rows f after a step.
KeepsReturns(f) ==
    /\ DOMAIN f \subseteq DOMAIN rows
    /\ \A m \in DOMAIN f : rows[m].ret # NoId => f[m].ret # NoId
    /\ \A m \in DOMAIN f : f[m].request = rows[m].request

\* A row keeps its request and its return request, and none comes back.
LEMMA StatementsKeep ==
    ASSUME TableOK(rows), NEW S, NEW W
    PROVE  /\ KeepsReturns(rows)
           /\ KeepsReturns(UpdateCreated(S))
           /\ KeepsReturns(UpdateInserted(S))
           /\ KeepsReturns(UpdateDeleteRequested(S))
           /\ KeepsReturns(UpdateDeleted(S))
           /\ \A q \in Returns : KeepsReturns(UpdateReturned(q, S))
           /\ KeepsReturns(UpdateIps(S, W))
           /\ KeepsReturns(DeleteRows(S))
           /\ \A m \in DOMAIN rows : KeepsReturns([rows EXCEPT ![m].expired = TRUE])
  <1> USE DEF KeepsReturns, TableOK, DbRow, Row
  <1>1. KeepsReturns(rows)
    OBVIOUS
  <1>2. KeepsReturns(UpdateCreated(S))
    BY DEF UpdateCreated
  <1>3. KeepsReturns(UpdateInserted(S))
    BY DEF UpdateInserted
  <1>4. KeepsReturns(UpdateDeleteRequested(S))
    BY DEF UpdateDeleteRequested
  <1>5. KeepsReturns(UpdateDeleted(S))
    BY DEF UpdateDeleted
  <1>6. \A q \in Returns : KeepsReturns(UpdateReturned(q, S))
    BY GceAssumption DEF UpdateReturned
  <1>7. KeepsReturns(UpdateIps(S, W))
    BY DEF UpdateIps
  <1>8. KeepsReturns(DeleteRows(S))
    BY DEF DeleteRows
  <1>9. \A m \in DOMAIN rows : KeepsReturns([rows EXCEPT ![m].expired = TRUE])
    OBVIOUS
  <1> QED
    BY <1>1, <1>2, <1>3, <1>4, <1>5, <1>6, <1>7, <1>8, <1>9

-----------------------------------------------------------------------------
(* ReturnInv is inductive *)

\* Nothing was asked for.
LEMMA InitReturn == Init => ReturnInv
  BY DEF Init, ReturnInv

\* The daemon, the cloud, time and trimDB touch no command.
OthersStep ==
    \/ \E m \in Machines : CloudStep(m) \/ Expire(m)
    \/ \E e \in events : Handle(e)
    \/ \E t \in threads : Ack(t) \/ IpStep(t) \/ TrimStep(t)
    \/ CmdTrim \/ DaemonStops

LEMMA OthersKeep ==
    ASSUME TypeOK, OthersStep
    PROVE  KeepsReturns(rows') /\ UNCHANGED cliVars
  <1> USE StatementsKeep DEF TypeOK
  <1>1. ASSUME NEW m \in Machines, CloudStep(m) \/ Expire(m)
        PROVE  KeepsReturns(rows') /\ UNCHANGED cliVars
    BY <1>1 DEF CloudStep, VmInsert, VmAddress, VmDelete, VmPreempt, Expire
  <1>2. ASSUME NEW e \in events, Handle(e)
        PROVE  KeepsReturns(rows') /\ UNCHANGED cliVars
    BY <1>2 DEF Handle, HandleInstancesCreated, HandleInstancesInserted,
                HandleGroupInstancesDeleted, HandleInstanceDeleted,
                HandleInstancePreempted, vars
  <1>3. ASSUME NEW t \in threads, Ack(t) \/ IpStep(t) \/ TrimStep(t)
        PROVE  KeepsReturns(rows') /\ UNCHANGED cliVars
    <2>1. CASE IpStore(t)
      BY <2>1 DEF IpStore
    <2>2. CASE TrimDelete(t)
      BY <2>2 DEF TrimDelete
    <2>3. CASE Ack(t) \/ IpSelect(t) \/ TrimSelect(t) \/ \E m \in Machines : IpFetch(t, m)
      <3>1. UNCHANGED <<rows, cliVars>>
        BY <2>3 DEF Ack, IpSelect, IpFetch, TrimSelect
      <3> QED  BY <3>1
    <2> QED
      BY <1>3, <2>1, <2>2, <2>3 DEF IpStep, TrimStep
  <1>4. CASE CmdTrim \/ DaemonStops
    BY <1>4 DEF CmdTrim, CmdTrimSelect, CmdTrimDelete, DaemonStops
  <1> QED
    BY <1>1, <1>2, <1>3, <1>4 DEF OthersStep

LEMMA OthersReturn ==
    ASSUME TypeOK, ReturnInv, OthersStep
    PROVE  ReturnInv'
  <1>1. KeepsReturns(rows') /\ UNCHANGED cliVars
    BY OthersKeep
  <1>2. \A m : Recorded(m) => Recorded(m)'
    BY <1>1 DEF Recorded, KeepsReturns
  <1> QED
    BY <1>1, <1>2 DEF ReturnInv, Known, cliVars

\* The steps of the commands, and a crash that fails those under way.
LEMMA CommandsReturn ==
    ASSUME TypeOK, CloudInv, ReturnInv,
           \/ \E r \in Requests : RequestStep(r)
           \/ \E q \in Returns : ReturnStep(q)
           \/ Crash
    PROVE  ReturnInv'
  <1> USE DEF TypeOK
  <1>1. ASSUME NEW r \in Requests, RequestSubmit(r) PROVE ReturnInv'
    <2>1. PICK S \in SUBSET {m \in Machines : vm[m] = "none"} :
              batch' = [batch EXCEPT ![r] = S]
      BY <1>1 DEF RequestSubmit
    <2>2. S \cap Exists = {} /\ \A s \in Requests : batch[s] \subseteq Exists
      BY DEF Exists, CloudInv
    <2>3. \A p, s \in Requests : p # s => batch'[p] \cap batch'[s] = {}
      BY <2>1, <2>2 DEF ReturnInv
    <2>4. Known \subseteq Known'
      BY <1>1, <2>1 DEF RequestSubmit, Known
    <2> QED
      BY <1>1, <2>3, <2>4 DEF RequestSubmit, ReturnInv, Recorded
  <1>2. ASSUME NEW r \in Requests, RequestStore(r) PROVE ReturnInv'
    <2>1. Known \subseteq Known'
      BY <1>2 DEF RequestStore, Known
    <2>2. batch[r] \cap Known = {}
      BY <1>2 DEF RequestStore, Known, ReturnInv
    <2>3. \A m \in Known : Recorded(m) => Recorded(m)'
      BY <1>2, <2>2 DEF RequestStore, Recorded, InsertRows
    <2> QED
      BY <1>2, <2>1, <2>3 DEF RequestStore, ReturnInv
  <1>3. ASSUME NEW r \in Requests, RequestAnswer(r) \/ RequestFails(r) PROVE ReturnInv'
    <2>1. Known \subseteq Known'
      BY <1>3 DEF RequestAnswer, RequestFails, Known
    <2> QED
      BY <1>3, <2>1 DEF RequestAnswer, RequestFails, ReturnInv, Recorded
  <1>4. ASSUME NEW q \in Returns, ReturnRead(q) PROVE ReturnInv'
    BY <1>4 DEF ReturnRead, ReturnInv, Known, Recorded
  <1>5. ASSUME NEW q \in Returns, ReturnSubmit(q) PROVE ReturnInv'
    BY <1>5 DEF ReturnSubmit, ReturnInv, Known, Recorded
  <1>6. ASSUME NEW q \in Returns, ReturnStore(q) PROVE ReturnInv'
    <2>1. \A m : Recorded(m) => Recorded(m)'
      <3>1. KeepsReturns(rows')
        BY <1>6, StatementsKeep DEF ReturnStore
      <3> QED
        BY <3>1 DEF Recorded, KeepsReturns
    <2>2. \A m \in sent[q] : Recorded(m)'
      BY <1>6, GceAssumption DEF ReturnStore, Recorded, UpdateReturned, TableOK, DbRow, Row
    <2>3. Known' = Known
      BY <1>6 DEF ReturnStore, Known
    <2> QED
      BY <1>6, <2>1, <2>2, <2>3 DEF ReturnStore, ReturnInv
  <1>7. ASSUME NEW q \in Returns, ReturnAnswer(q) \/ ReturnFails(q) PROVE ReturnInv'
    BY <1>7 DEF ReturnAnswer, ReturnFails, ReturnInv, Known, Recorded
  <1>8. CASE Crash
    <2>1. /\ \A r \in Requests : reqPc'[r] = "done" <=> reqPc[r] = "done"
          /\ \A q \in Returns : /\ retPc'[q] \notin {"running", "stored"} /\ todo'[q] = {}
                                /\ retPc'[q] = "done" => retPc[q] = "done"
          /\ UNCHANGED <<rows, batch, asked>>
      BY <1>8 DEF Crash
    <2>2. Known' = Known
      BY <2>1 DEF Known
    <2> QED
      BY <2>1, <2>2 DEF ReturnInv, Recorded
  <1> QED
    BY <1>1, <1>2, <1>3, <1>4, <1>5, <1>6, <1>7, <1>8 DEF RequestStep, ReturnStep

\* What a return has dealt with is recorded.
LEMMA ReturnInvariant == Spec => [](TypeOK /\ CloudInv /\ ReturnInv)
  <1>1. TypeOK /\ CloudInv /\ ReturnInv /\ [Next]_vars => ReturnInv'
    <2> SUFFICES ASSUME TypeOK, CloudInv, ReturnInv, [Next]_vars PROVE ReturnInv'
      OBVIOUS
    <2>1. CASE UNCHANGED vars
      BY <2>1 DEF ReturnInv, Known, Recorded, vars, cliVars
    <2>2. CASE Next
      BY <2>2, OthersReturn, CommandsReturn DEF Next, OthersStep
    <2> QED
      BY <2>1, <2>2
  <1> QED
    BY InitReturn, CloudInvariant, <1>1, PTL DEF Spec

\* getReturnRequests offers no machine whose return was answered with a request
\* id, whatever events, other returns, failures, trims or crashes came between.
THEOREM ReturnsNotOffered == Spec => []ReturnedNeverOffered
  <1>1. ReturnInv => ReturnedNeverOffered
    BY DEF ReturnInv, ReturnedNeverOffered, Offered, Recorded
  <1> QED
    BY ReturnInvariant, <1>1, PTL

-----------------------------------------------------------------------------
(* What is answered complete                                               *)

\* What AnswerInv needs of the rows f after a step that stores no request.
KeepsRows(f) ==
    /\ DOMAIN f \subseteq DOMAIN rows /\ DOMAIN rows \subseteq DOMAIN f \cup Gone
    /\ \A m \in DOMAIN f : f[m].request = rows[m].request

\* No statement changes the request of a row.
LEMMA StatementsKeepRows ==
    ASSUME TableOK(rows), NEW S, NEW W
    PROVE  /\ KeepsRows(rows)
           /\ KeepsRows(UpdateCreated(S))
           /\ KeepsRows(UpdateInserted(S))
           /\ KeepsRows(UpdateDeleteRequested(S))
           /\ KeepsRows(UpdateDeleted(S))
           /\ \A q \in Returns : KeepsRows(UpdateReturned(q, S))
           /\ KeepsRows(UpdateIps(S, W))
           /\ S \subseteq Gone => KeepsRows(DeleteRows(S))
           /\ \A m \in DOMAIN rows : KeepsRows([rows EXCEPT ![m].expired = TRUE])
  <1> USE DEF KeepsRows, TableOK, DbRow, Row
  <1>1. KeepsRows(rows)
    OBVIOUS
  <1>2. KeepsRows(UpdateCreated(S))
    BY DEF UpdateCreated
  <1>3. KeepsRows(UpdateInserted(S))
    BY DEF UpdateInserted
  <1>4. KeepsRows(UpdateDeleteRequested(S))
    BY DEF UpdateDeleteRequested
  <1>5. KeepsRows(UpdateDeleted(S))
    BY DEF UpdateDeleted
  <1>6. \A q \in Returns : KeepsRows(UpdateReturned(q, S))
    BY DEF UpdateReturned
  <1>7. KeepsRows(UpdateIps(S, W))
    BY DEF UpdateIps
  <1>8. S \subseteq Gone => KeepsRows(DeleteRows(S))
    BY DEF DeleteRows
  <1>9. \A m \in DOMAIN rows : KeepsRows([rows EXCEPT ![m].expired = TRUE])
    OBVIOUS
  <1> QED
    BY <1>1, <1>2, <1>3, <1>4, <1>5, <1>6, <1>7, <1>8, <1>9

\* Nothing was answered.
LEMMA InitAnswer == Init => AnswerInv
  BY DEF Init, AnswerInv

\* A step that leaves the commands alone, keeps the rows and moves the cloud forward.
LEMMA KeptAnswer ==
    ASSUME AnswerInv, KeepsRows(rows'), VmForward, UNCHANGED cliVars
    PROVE  AnswerInv'
  <1> USE DEF AnswerInv, KeepsRows, VmForward, cliVars
  <1>1. \A r \in Requests : reqPc'[r] = "done" => batch'[r] \subseteq DOMAIN rows' \cup Gone'
    OBVIOUS
  <1>2. \A r \in Requests : \A m \in batch'[r] \cap DOMAIN rows' : rows'[m].request = r
    OBVIOUS
  <1>3. \A q \in Returns : retPc'[q] \in {"running", "done"} =>
            asked'[q] \subseteq todo'[q] \cup Leaving'
    OBVIOUS
  <1>4. \A q \in Returns : sent'[q] \subseteq Leaving'
    OBVIOUS
  <1> QED
    BY <1>1, <1>2, <1>3, <1>4

\* The daemon, the cloud, time and trimDB.
LEMMA OthersAnswer ==
    ASSUME TypeOK, CloudInv, AnswerInv, OthersStep
    PROVE  AnswerInv'
  <1> USE StatementsKeepRows DEF TypeOK
  <1>1. ASSUME NEW m \in Machines, CloudStep(m) PROVE AnswerInv'
    <2>1. VmForward
      BY <1>1, MovesForward DEF MovesVm
    <2>2. UNCHANGED <<rows, cliVars>>
      BY <1>1 DEF CloudStep, VmInsert, VmAddress, VmDelete, VmPreempt
    <2> QED
      BY <2>1, <2>2, KeptAnswer
  <1>2. ASSUME KeepsRows(rows'), UNCHANGED <<vm, cliVars>> PROVE AnswerInv'
    BY <1>2, StillVm, KeptAnswer
  <1>3. ASSUME NEW m \in Machines, Expire(m) PROVE AnswerInv'
    BY <1>2, <1>3 DEF Expire
  <1>4. ASSUME NEW e \in events, Handle(e) PROVE AnswerInv'
    <2>1. KeepsRows(rows') /\ UNCHANGED <<vm, cliVars>>
      BY <1>4 DEF Handle, HandleInstancesCreated, HandleInstancesInserted,
                  HandleGroupInstancesDeleted, HandleInstanceDeleted,
                  HandleInstancePreempted, vars
    <2> QED
      BY <1>2, <2>1
  <1>5. ASSUME NEW t \in threads, IpStore(t) PROVE AnswerInv'
    BY <1>2, <1>5 DEF IpStore
  <1>6. ASSUME NEW t \in threads, TrimDelete(t) PROVE AnswerInv'
    <2>1. t.todo \subseteq Gone
      BY <1>6 DEF TrimDelete, CloudInv, ThreadTrue
    <2> QED
      BY <1>2, <1>6, <2>1 DEF TrimDelete
  <1>7. CASE CmdTrimDelete
    BY <1>2, <1>7 DEF CmdTrimDelete, CloudInv
  <1>8. ASSUME UNCHANGED <<rows, vm, cliVars>> PROVE AnswerInv'
    BY <1>2, <1>8
  <1>9. ASSUME NEW t \in threads,
               Ack(t) \/ IpSelect(t) \/ TrimSelect(t) \/ \E m \in Machines : IpFetch(t, m)
        PROVE  AnswerInv'
    <2>1. UNCHANGED <<rows, vm, cliVars>>
      BY <1>9 DEF Ack, IpSelect, IpFetch, TrimSelect
    <2> QED  BY <1>8, <2>1
  <1>10. CASE CmdTrimSelect \/ DaemonStops
    BY <1>8, <1>10 DEF CmdTrimSelect, DaemonStops
  <1> QED
    BY <1>1, <1>3, <1>4, <1>5, <1>6, <1>7, <1>9, <1>10
    DEF OthersStep, IpStep, TrimStep, CmdTrim

\* requestMachines: the rows are there when the request is done.
LEMMA AnswerOfRequest ==
    ASSUME TypeOK, CloudInv, ReturnInv, AnswerInv, NEW r \in Requests, RequestStep(r)
    PROVE  AnswerInv'
  <1> USE DEF TypeOK
  <1>1. CASE RequestSubmit(r)
    <2>1. VmForward
      BY <1>1, MovesForward DEF MovesVm
    <2>2. PICK S \in SUBSET {m \in Machines : vm[m] = "none"} :
              batch' = [batch EXCEPT ![r] = S]
      BY <1>1 DEF RequestSubmit
    <2>3. S \cap DOMAIN rows = {}
      BY <2>2 DEF CloudInv, TableTrue, RowTrue, Exists
    <2>4. /\ \A s \in Requests :
                reqPc'[s] \in {"stored", "done"} => reqPc[s] \in {"stored", "done"} /\ s # r
          /\ UNCHANGED <<rows, retPc, asked, todo, sent>>
      BY <1>1 DEF RequestSubmit
    <2>5. Gone \subseteq Gone' /\ Leaving \subseteq Leaving'
      BY <2>1 DEF VmForward
    <2>6. \A s \in Requests : reqPc'[s] \in {"stored", "done"} =>
              batch'[s] \subseteq DOMAIN rows' \cup Gone'
      BY <2>2, <2>4, <2>5 DEF AnswerInv
    <2>7. \A s \in Requests : \A m \in batch'[s] \cap DOMAIN rows' : rows'[m].request = s
      BY <2>2, <2>3, <2>4 DEF AnswerInv
    <2>8. \A q \in Returns : /\ sent'[q] \subseteq Leaving'
                             /\ retPc'[q] \in {"running", "stored", "done"} =>
                                    asked'[q] \subseteq todo'[q] \cup Leaving'
      BY <2>4, <2>5 DEF AnswerInv
    <2> QED
      BY <2>6, <2>7, <2>8 DEF AnswerInv
  <1>2. CASE RequestStore(r)
    <2>1. DOMAIN rows' = DOMAIN rows \cup batch[r]
      BY <1>2 DEF RequestStore, InsertRows
    <2>2. \A m \in DOMAIN rows' :
              rows'[m].request = IF m \in DOMAIN rows THEN rows[m].request ELSE r
      BY <1>2 DEF RequestStore, InsertRows
    <2>3. UNCHANGED <<vm, batch, retPc, asked, todo, sent>> /\ UNCHANGED <<Gone, Leaving>>
      BY <1>2 DEF RequestStore, Gone, Leaving
    <2>4. \A s \in Requests :
              reqPc'[s] \in {"stored", "done"} => reqPc[s] \in {"stored", "done"} \/ s = r
      BY <1>2 DEF RequestStore
    <2>5. \A s \in Requests : \A m \in batch[s] \cap DOMAIN rows' : rows'[m].request = s
      BY <2>1, <2>2 DEF ReturnInv, AnswerInv
    <2> QED
      BY <2>1, <2>3, <2>4, <2>5 DEF AnswerInv
  <1>3. CASE RequestAnswer(r) \/ RequestFails(r)
    BY <1>3, StillVm DEF RequestAnswer, RequestFails, AnswerInv, VmForward
  <1> QED
    BY <1>1, <1>2, <1>3 DEF RequestStep

\* requestReturnMachines: what it has dealt with is leaving.
LEMMA AnswerOfReturn ==
    ASSUME TypeOK, CloudInv, ReturnInv, AnswerInv,
           (\E q \in Returns : ReturnStep(q)) \/ Crash
    PROVE  AnswerInv'
  <1> USE DEF TypeOK
  <1>1. ASSUME NEW q \in Returns, ReturnRead(q) PROVE AnswerInv'
    <2>1. PICK S \in SUBSET Known :
              /\ asked' = [asked EXCEPT ![q] = S]
              /\ todo' = [todo EXCEPT ![q] = S \cap DOMAIN rows]
      BY <1>1 DEF ReturnRead
    <2>2. S \subseteq DOMAIN rows \cup Leaving
      BY DEF AnswerInv, Known, Gone, Leaving
    <2>3. \A p \in Returns : p # q => retPc'[p] = retPc[p]
      BY <1>1 DEF ReturnRead
    <2>4. UNCHANGED <<rows, reqPc, batch, sent>> /\ UNCHANGED <<Gone, Leaving>>
      BY <1>1 DEF ReturnRead, Gone, Leaving
    <2>5. \A p \in Returns : retPc'[p] \in {"running", "stored", "done"} =>
              asked'[p] \subseteq todo'[p] \cup Leaving
      BY <2>1, <2>2, <2>3 DEF AnswerInv
    <2> QED
      BY <2>4, <2>5 DEF AnswerInv
  <1>2. ASSUME NEW q \in Returns, ReturnSubmit(q) PROVE AnswerInv'
    <2>1. VmForward
      BY <1>2, MovesForward DEF MovesVm
    <2>2. PICK S : /\ S \subseteq UNION {batch[r] : r \in Requests}
                   /\ vm' = [m \in Machines |->
                              IF m \in S /\ vm[m] \in {"pending", "staging", "running"}
                              THEN "stopping" ELSE vm[m]]
                   /\ sent' = [sent EXCEPT ![q] = S]
      <3>1. PICK r \in Requests :
              LET S == {m \in todo[q] : \E s \in Requests : m \in batch[s] /\ igm[s] = igm[r]}
              IN  /\ vm' = [m \in Machines |->
                            IF m \in S /\ vm[m] \in {"pending", "staging", "running"}
                            THEN "stopping" ELSE vm[m]]
                  /\ sent' = [sent EXCEPT ![q] = S]
        BY <1>2 DEF ReturnSubmit
      <3> DEFINE S == {m \in todo[q] : \E s \in Requests : m \in batch[s] /\ igm[s] = igm[r]}
      <3>2. S \subseteq UNION {batch[s] : s \in Requests}
        OBVIOUS
      <3> QED
        BY <3>1, <3>2
    <2>3. S \subseteq Leaving'
      BY <2>2 DEF CloudInv, Exists, Leaving, VmState
    <2>4. UNCHANGED <<rows, reqPc, batch, retPc, asked, todo>>
      BY <1>2 DEF ReturnSubmit
    <2> QED
      BY <2>1, <2>2, <2>3, <2>4 DEF AnswerInv, VmForward
  <1>3. ASSUME NEW q \in Returns, ReturnStore(q) PROVE AnswerInv'
    <2>1. KeepsRows(rows')
      BY <1>3, StatementsKeepRows DEF ReturnStore
    <2>2. /\ todo' = [todo EXCEPT ![q] = @ \ sent[q]] /\ sent' = [sent EXCEPT ![q] = {}]
          /\ \A p \in Returns : retPc'[p] \in {"running", "stored", "done"} =>
                  retPc[p] \in {"running", "stored", "done"}
          /\ UNCHANGED <<vm, reqPc, batch, asked>>
      BY <1>3 DEF ReturnStore
    <2>3. UNCHANGED <<Gone, Leaving>>
      BY <2>2 DEF Gone, Leaving
    <2>4. \A r \in Requests : reqPc'[r] \in {"stored", "done"} =>
              batch'[r] \subseteq DOMAIN rows' \cup Gone'
      BY <2>1, <2>2, <2>3 DEF AnswerInv, KeepsRows
    <2>5. \A r \in Requests : \A m \in batch'[r] \cap DOMAIN rows' : rows'[m].request = r
      BY <2>1, <2>2 DEF AnswerInv, KeepsRows
    <2>6. \A p \in Returns : /\ sent'[p] \subseteq Leaving'
                             /\ retPc'[p] \in {"running", "stored", "done"} =>
                                    asked'[p] \subseteq todo'[p] \cup Leaving'
      BY <2>2, <2>3 DEF AnswerInv
    <2> QED
      BY <2>4, <2>5, <2>6 DEF AnswerInv
  <1>4. ASSUME NEW q \in Returns, ReturnAnswer(q) \/ ReturnFails(q) PROVE AnswerInv'
    BY <1>4, StillVm DEF ReturnAnswer, ReturnFails, AnswerInv, VmForward
  <1>5. CASE Crash
    <2>1. UNCHANGED <<rows, vm, batch, asked>> /\ UNCHANGED <<Gone, Leaving>>
      BY <1>5 DEF Crash, Gone, Leaving
    <2>2. /\ \A r \in Requests : reqPc'[r] \in {"stored", "done"} => reqPc[r] = "done"
          /\ \A q \in Returns : sent'[q] = {}
      BY <1>5 DEF Crash
    <2>3. \A q \in Returns : retPc'[q] \in {"running", "stored", "done"} =>
              retPc[q] = "done" /\ asked[q] \subseteq Leaving
      BY <1>5 DEF Crash, ReturnInv, AnswerInv
    <2> QED
      BY <2>1, <2>2, <2>3 DEF AnswerInv
  <1> QED
    BY <1>1, <1>2, <1>3, <1>4, <1>5 DEF ReturnStep

\* What was asked for and is not before a return leaves, what was answered is known.
LEMMA AnswerInvariant == Spec => [](TypeOK /\ CloudInv /\ ReturnInv /\ AnswerInv)
  <1>1. TypeOK /\ CloudInv /\ ReturnInv /\ AnswerInv /\ [Next]_vars => AnswerInv'
    <2> SUFFICES ASSUME TypeOK, CloudInv, ReturnInv, AnswerInv, [Next]_vars PROVE AnswerInv'
      OBVIOUS
    <2>1. CASE UNCHANGED vars
      BY <2>1, StillVm DEF AnswerInv, VmForward, vars, cliVars
    <2>2. CASE Next
      BY <2>2, OthersAnswer, AnswerOfRequest, AnswerOfReturn DEF Next, OthersStep
    <2> QED
      BY <2>1, <2>2
  <1> QED
    BY InitAnswer, ReturnInvariant, <1>1, PTL DEF Spec

\* One machine that has not succeeded keeps a request from being complete, in
\* whatever order the rows are.
LEMMA CompleteMeansSucceed ==
    ASSUME NEW results, "complete" \in RequestStatuses(results)
    PROVE  results \subseteq {"succeed"}
  BY DEF RequestStatuses

\* A request answered complete has machines that ran, a return answered complete
\* machines that are gone or that another return has taken over.
THEOREM CompleteAnswersTrue == Spec => []CompleteIsTrue
  <1>1. TypeOK /\ CloudInv /\ ReturnInv /\ AnswerInv => CompleteIsTrue
    <2> SUFFICES ASSUME TypeOK, CloudInv, ReturnInv, AnswerInv PROVE CompleteIsTrue
      OBVIOUS
    <2>1. ASSUME NEW r \in Requests, reqPc[r] = "done", "complete" \in Answers(r),
                 NEW m \in batch[r]
          PROVE  m \in Addressed
      <3>1. CASE m \in Gone
        BY <3>1 DEF Gone, Addressed
      <3>2. CASE m \in DOMAIN rows
        <4>1. m \in RowsOf(r)
          BY <2>1, <3>2 DEF AnswerInv, RowsOf
        <4>2. MachineResult(rows[m]) = "succeed"
          BY <2>1, <4>1, CompleteMeansSucceed DEF Answers
        <4>3. rows[m].ip
          BY <4>2 DEF MachineResult
        <4> QED
          BY <3>2, <4>3 DEF CloudInv, TableTrue, RowTrue
      <3> QED
        BY <2>1, <3>1, <3>2 DEF AnswerInv
    <2>2. ASSUME NEW q \in Returns, retPc[q] = "done", "complete" \in Answers(q),
                 NEW m \in asked[q]
          PROVE  /\ m \in Leaving
                 /\ m \in Gone \/ (m \in DOMAIN rows /\ rows[m].ret \in Returns \ {q})
      <3>1. m \in Leaving
        BY <2>2 DEF ReturnInv, AnswerInv
      <3>2. m \in DOMAIN rows \cup Gone
        BY <2>2 DEF ReturnInv, AnswerInv, Known
      <3>3. ASSUME m \in DOMAIN rows PROVE rows[m].ret \in Returns
        BY <2>2, <3>3 DEF ReturnInv, Recorded, TypeOK, TableOK, DbRow, Row
      <3>4. ASSUME m \in DOMAIN rows, rows[m].ret = q PROVE m \in Gone
        <4>1. m \in RowsOf(q)
          BY <3>4 DEF RowsOf
        <4>2. ReturnResult(rows[m]) = "succeed"
          BY <2>2, <4>1, CompleteMeansSucceed, GceAssumption DEF Answers
        <4>3. rows[m].state = DELETED
          BY <4>2 DEF ReturnResult
        <4> QED
          BY <3>4, <4>3 DEF CloudInv, TableTrue, RowTrue
      <3> QED
        BY <3>1, <3>2, <3>3, <3>4
    <2> QED
      BY <2>1, <2>2 DEF CompleteIsTrue
  <1> QED
    BY AnswerInvariant, <1>1, PTL

-----------------------------------------------------------------------------
(* Instances without a row                                                 *)

\* Only a request makes instances, and it is no longer idle then.
LEMMA StepMade == ASSUME TypeOK, MadeInv, [Next]_vars PROVE MadeInv'
  <1> USE DEF TypeOK
  <1>1. ASSUME NEW r \in Requests, RequestSubmit(r) PROVE MadeInv'
    <2>1. PICK S \in SUBSET {m \in Machines : vm[m] = "none"} :
              /\ vm' = [m \in Machines |-> IF m \in S THEN "pending" ELSE vm[m]]
              /\ batch' = [batch EXCEPT ![r] = S]
      BY <1>1 DEF RequestSubmit
    <2>2. reqPc[r] = "idle" /\ reqPc' = [reqPc EXCEPT ![r] = "submitted"]
      BY <1>1 DEF RequestSubmit
    <2>3. Exists' \subseteq Exists \cup S
      BY <2>1 DEF Exists
    <2> QED
      BY <2>1, <2>2, <2>3 DEF MadeInv
  <1>2. ASSUME Exists' \subseteq Exists, UNCHANGED batch,
               \A r \in Requests : reqPc[r] # "idle" => reqPc'[r] # "idle"
        PROVE  MadeInv'
    BY <1>2 DEF MadeInv
  <1>3. CASE OthersStep
    <2>1. UNCHANGED cliVars
      BY <1>3, OthersKeep
    <2>2. Exists' \subseteq Exists
      <3>1. ASSUME NEW m \in Machines, CloudStep(m) PROVE Exists' \subseteq Exists
        BY <3>1 DEF CloudStep, VmInsert, VmAddress, VmDelete, VmPreempt, Exists
      <3>2. (\E m \in Machines : CloudStep(m)) \/ UNCHANGED vm
        BY <1>3 DEF OthersStep, Expire, Handle, HandleInstancesCreated,
                    HandleInstancesInserted, HandleGroupInstancesDeleted,
                    HandleInstanceDeleted, HandleInstancePreempted, Ack, IpStep, IpSelect,
                    IpFetch, IpStore, TrimStep, TrimSelect, TrimDelete, CmdTrim,
                    CmdTrimSelect, CmdTrimDelete, DaemonStops, vars
      <3> QED
        BY <3>1, <3>2 DEF Exists
    <2> QED
      BY <1>2, <2>1, <2>2 DEF cliVars
  <1>4. ASSUME NEW r \in Requests, RequestStore(r) \/ RequestAnswer(r) \/ RequestFails(r)
        PROVE  MadeInv'
    BY <1>2, <1>4 DEF RequestStore, RequestAnswer, RequestFails, Exists
  <1>5. ASSUME NEW q \in Returns, ReturnStep(q) PROVE MadeInv'
    <2>1. Exists' \subseteq Exists /\ UNCHANGED <<batch, reqPc>>
      BY <1>5 DEF ReturnStep, ReturnRead, ReturnSubmit, ReturnStore, ReturnAnswer, ReturnFails,
                  Exists
    <2> QED
      BY <1>2, <2>1
  <1>6. CASE Crash
    BY <1>2, <1>6 DEF Crash, Exists
  <1>7. CASE UNCHANGED vars
    BY <1>2, <1>7 DEF vars, cliVars, Exists
  <1> QED
    BY <1>1, <1>3, <1>4, <1>5, <1>6, <1>7 DEF Next, OthersStep, RequestStep

\* Every instance that is there has a row, or its request is under way or has failed.
THEOREM OrphansOfFailures == Spec => []OrphansAreFailed
  <1>1. Init => MadeInv
    BY DEF Init, MadeInv, Exists
  <1>2. TypeOK /\ MadeInv /\ [Next]_vars => MadeInv'
    BY StepMade
  <1>3. TypeOK /\ AnswerInv /\ MadeInv => OrphansAreFailed
    <2> SUFFICES ASSUME TypeOK, AnswerInv, MadeInv,
                        NEW m \in (Exists \ Gone) \ (DOMAIN rows \cap Known)
                 PROVE  \E r \in Requests :
                            m \in batch[r] /\ reqPc[r] \in {"submitted", "stored", "failed"}
      BY DEF OrphansAreFailed
    <2>1. PICK r \in Requests : m \in batch[r] /\ reqPc[r] # "idle"
      BY DEF MadeInv
    <2>2. reqPc[r] # "done"
      BY <2>1 DEF AnswerInv, Known
    <2> QED
      BY <2>1, <2>2 DEF TypeOK
  <1> QED
    BY <1>1, <1>2, <1>3, AnswerInvariant, PTL DEF Spec

-----------------------------------------------------------------------------
(* What a return that fails leaves behind                                  *)

\* Nothing was asked for, and nothing has left.
LEMMA InitGroup == Init => GroupInv
  <1> SUFFICES ASSUME Init PROVE GroupInv
    OBVIOUS
  <1>1. Leaving = {} /\ DOMAIN rows = {}
    BY DEF Init, Leaving
  <1>2. \A g : Blames(g)
    BY <1>1 DEF Blames, Unrecorded
  <1>3. [q \in Returns |-> NoId] \in [Returns -> Groups \cup {NoId}]
    OBVIOUS
  <1> QED
    BY <1>1, <1>2, <1>3 DEF Init, GroupInv

\* With nobody in the console a machine leaves only when a return has sent it.
LEMMA OthersLeaveNone ==
    ASSUME TypeOK, OthersStep, Reclaimable = {}
    PROVE  Leaving' = Leaving
  <1> USE DEF TypeOK, VmState, Leaving
  <1>1. ASSUME NEW m \in Machines, CloudStep(m) PROVE Leaving' = Leaving
    BY <1>1 DEF CloudStep, VmInsert, VmAddress, VmDelete, VmPreempt
  <1>2. ASSUME NEW m \in Machines, Expire(m) PROVE Leaving' = Leaving
    BY <1>2 DEF Expire
  <1>3. ASSUME NEW e \in events, Handle(e) PROVE Leaving' = Leaving
    BY <1>3 DEF Handle, HandleInstancesCreated, HandleInstancesInserted,
                HandleGroupInstancesDeleted, HandleInstanceDeleted,
                HandleInstancePreempted, vars
  <1>4. ASSUME NEW t \in threads, Ack(t) \/ IpStep(t) \/ TrimStep(t) PROVE Leaving' = Leaving
    <2>1. UNCHANGED vm
      BY <1>4 DEF Ack, IpStep, IpSelect, IpFetch, IpStore, TrimStep, TrimSelect, TrimDelete
    <2> QED  BY <2>1
  <1>5. CASE CmdTrim \/ DaemonStops
    BY <1>5 DEF CmdTrim, CmdTrimSelect, CmdTrimDelete, DaemonStops
  <1> QED
    BY <1>1, <1>2, <1>3, <1>4, <1>5 DEF OthersStep

\* A step that leaves the commands alone and makes nothing leave.
LEMMA KeptGroup ==
    ASSUME GroupInv, KeepsReturns(rows'), UNCHANGED cliVars,
           Reclaimable = {} => Leaving' = Leaving
    PROVE  GroupInv'
  <1> USE DEF GroupInv, KeepsReturns, cliVars
  <1>1. \A m \in DOMAIN rows' :
            rows'[m].request \in Requests /\ reqPc'[rows'[m].request] # "idle"
    OBVIOUS
  <1>2. ASSUME Reclaimable = {}, NEW g, Blames(g) PROVE Blames(g)'
    <2>1. Unrecorded' \subseteq Unrecorded
      BY <1>2 DEF Unrecorded
    <2>2. \A m \in Unrecorded' : rows'[m].request = rows[m].request
      BY DEF Unrecorded
    <2> QED
      BY <1>2, <2>1, <2>2 DEF Blames, LeftBy
  <1> QED
    BY <1>1, <1>2

\* requestMachines: its new machines were not asked of any return.
LEMMA RequestGroup ==
    ASSUME TypeOK, ReturnInv, AnswerInv, GroupInv, NEW r \in Requests, RequestStep(r)
    PROVE  GroupInv'
  <1> USE DEF TypeOK
  <1>1. /\ reqPc[r] # "done" /\ UNCHANGED <<retPc, asked, todo, sent>>
        /\ \A s \in Requests : s # r => igm'[s] = igm[s] /\ reqPc'[s] = reqPc[s]
    BY DEF RequestStep, RequestSubmit, RequestStore, RequestAnswer, RequestFails
  <1>2. Leaving' = Leaving
    BY DEF RequestStep, RequestSubmit, RequestStore, RequestAnswer, RequestFails, Leaving,
           VmState
  <1>3. /\ reqPc'[r] # "idle"
        /\ \A m \in DOMAIN rows :
              /\ rows[m].request \in Requests
              /\ igm'[rows[m].request] = igm[rows[m].request]
              /\ reqPc'[rows[m].request] \notin {"idle", "submitted"}
    <2>1. \/ reqPc[r] = "idle"
          \/ igm' = igm /\ reqPc'[r] \notin {"idle", "submitted"}
      BY DEF RequestStep, RequestSubmit, RequestStore, RequestAnswer, RequestFails
    <2>2. reqPc'[r] # "idle"
      BY DEF RequestStep, RequestSubmit, RequestStore, RequestAnswer, RequestFails
    <2> QED
      BY <1>1, <2>1, <2>2 DEF GroupInv
  <1>4. CASE RequestStore(r)
    <2>1. /\ DOMAIN rows' = DOMAIN rows \cup batch[r]
          /\ \A m \in DOMAIN rows : rows'[m] = rows[m]
          /\ \A m \in DOMAIN rows' \ DOMAIN rows : rows'[m].request = r
          /\ reqPc'[r] = "stored" /\ igm' = igm
      BY <1>4 DEF RequestStore, InsertRows
    <2>2. \A m \in DOMAIN rows' :
              /\ rows'[m].request \in Requests
              /\ reqPc'[rows'[m].request] \notin {"idle", "submitted"}
      BY <1>1, <1>3, <2>1 DEF GroupInv
    <2>3. ASSUME Reclaimable = {} PROVE Unrecorded' = Unrecorded
      <3>1. Leaving \cap batch[r] = {}
        BY <1>1, <2>3 DEF GroupInv, ReturnInv, Known
      <3> QED
        BY <1>2, <2>1, <3>1 DEF Unrecorded
    <2>4. ASSUME Reclaimable = {}, NEW g, Blames(g) PROVE Blames(g)'
      BY <1>1, <2>1, <2>3, <2>4 DEF Blames, LeftBy, Unrecorded
    <2> QED
      BY <1>1, <1>2, <2>2, <2>4 DEF GroupInv
  <1>5. CASE RequestSubmit(r) \/ RequestAnswer(r) \/ RequestFails(r)
    <2>1. UNCHANGED rows
      BY <1>5 DEF RequestSubmit, RequestAnswer, RequestFails
    <2>2. Unrecorded' = Unrecorded
      BY <1>2, <2>1 DEF Unrecorded
    <2>3. ASSUME NEW g, Blames(g) PROVE Blames(g)'
      BY <1>1, <1>3, <2>1, <2>2, <2>3 DEF Blames, LeftBy, Unrecorded
    <2>4. \A m \in DOMAIN rows' :
              /\ rows'[m].request \in Requests
              /\ reqPc'[rows'[m].request] \notin {"idle", "submitted"}
      BY <1>1, <1>3, <2>1 DEF GroupInv
    <2> QED
      BY <1>1, <1>2, <2>3, <2>4 DEF GroupInv
  <1> QED
    BY <1>4, <1>5 DEF RequestStep

\* requestReturnMachines takes one group at a time, and does not take the next one
\* before it has stored the one it sent.
LEMMA ReturnGroup ==
    ASSUME TypeOK, AnswerInv, GroupInv, NEW q \in Returns, ReturnStep(q)
    PROVE  GroupInv'
  <1> USE DEF TypeOK
  <1>1. CASE ReturnRead(q)
    <2>1. PICK S : /\ asked' = [asked EXCEPT ![q] = S]
                   /\ todo' = [todo EXCEPT ![q] = S \cap DOMAIN rows]
      BY <1>1 DEF ReturnRead
    <2>2. /\ retPc[q] = "idle" /\ asked[q] = {} /\ retPc'[q] # "idle"
          /\ \A p \in Returns : p # q => retPc'[p] = retPc[p]
          /\ UNCHANGED <<rows, reqPc, igm, sent>> /\ Leaving' = Leaving
      BY <1>1 DEF ReturnRead, Leaving, GroupInv
    <2>3. ASSUME NEW g, Blames(g) PROVE Blames(g)'
      BY <2>1, <2>2, <2>3 DEF Blames, LeftBy, Unrecorded
    <2>4. Reclaimable = {} => \A m \in Leaving : \E p \in Returns : m \in asked'[p]
      BY <2>1, <2>2 DEF GroupInv
    <2>5. \A p \in Returns : todo'[p] \subseteq asked'[p]
      BY <2>1 DEF GroupInv
    <2>6. \A p \in Returns : retPc'[p] = "idle" => asked'[p] = {}
      BY <2>1, <2>2 DEF GroupInv
    <2> QED
      BY <2>2, <2>3, <2>4, <2>5, <2>6 DEF GroupInv
  <1>2. CASE ReturnSubmit(q)
    <2>1. PICK r \in Requests :
            LET S == {m \in todo[q] : \E s \in Requests : m \in batch[s] /\ igm[s] = igm[r]}
            IN  /\ vm' = [m \in Machines |->
                          IF m \in S /\ vm[m] \in {"pending", "staging", "running"}
                          THEN "stopping" ELSE vm[m]]
                /\ sent' = [sent EXCEPT ![q] = S]
      BY <1>2 DEF ReturnSubmit
    <2> DEFINE S == {m \in todo[q] : \E s \in Requests : m \in batch[s] /\ igm[s] = igm[r]}
    <2>2. /\ retPc[q] = "running" /\ sent[q] = {}
          /\ UNCHANGED <<rows, reqPc, igm, retPc, asked, todo>>
      BY <1>2 DEF ReturnSubmit
    <2>3. Leaving' \subseteq Leaving \cup S /\ sent'[q] = S /\ S \subseteq asked[q]
      BY <2>1 DEF Leaving, GroupInv
    <2>4. \A p \in Returns : p # q => sent'[p] = sent[p]
      BY <2>1
    <2>5. \A m \in S \cap DOMAIN rows : igm[rows[m].request] = igm[r]
      BY DEF AnswerInv
    <2> HIDE DEF S
    <2>6. ASSUME NEW g \in [Returns -> Groups \cup {NoId}], Blames(g)
          PROVE  \E h \in [Returns -> Groups \cup {NoId}] : Blames(h)'
      <3>1. PICK h \in [Returns -> Groups \cup {NoId}] : h = [g EXCEPT ![q] = igm[r]]
        OBVIOUS
      <3>2. h[q] = igm[r] /\ \A p \in Returns : p # q => h[p] = g[p]
        BY <3>1
      <3>3. ASSUME NEW m \in Unrecorded'
            PROVE  \E p \in Returns :
                      LeftBy(p, m, h[p])' /\ (retPc'[p] = "running" => m \in sent'[p])
        <4>1. CASE m \in S
          BY <2>2, <2>3, <2>5, <3>2, <3>3, <4>1 DEF LeftBy, Unrecorded
        <4>2. CASE m \notin S
          <5>1. m \in Unrecorded
            BY <2>2, <2>3, <3>3, <4>2 DEF Unrecorded
          <5>2. PICK p \in Returns :
                    LeftBy(p, m, g[p]) /\ (retPc[p] = "running" => m \in sent[p])
            BY <2>6, <5>1 DEF Blames
          <5>3. p # q
            BY <2>2, <5>2
          <5> QED
            BY <2>2, <2>4, <3>2, <5>2, <5>3 DEF LeftBy
        <4> QED
          BY <4>1, <4>2
      <3> QED
        BY <3>1, <3>3 DEF Blames
    <2>7. Reclaimable = {} => \A m \in Leaving' : \E p \in Returns : m \in asked'[p]
      BY <2>2, <2>3 DEF GroupInv
    <2> QED
      BY <2>2, <2>6, <2>7 DEF GroupInv
  <1>3. CASE ReturnStore(q)
    <2>1. KeepsReturns(rows')
      BY <1>3, StatementsKeep DEF ReturnStore
    <2>2. /\ retPc[q] = "running" /\ retPc'[q] \in {"running", "stored"}
          /\ \A p \in Returns : p # q => retPc'[p] = retPc[p] /\ sent'[p] = sent[p]
          /\ \A p \in Returns : todo'[p] \subseteq todo[p]
          /\ UNCHANGED <<reqPc, igm, asked>> /\ Leaving' = Leaving
      BY <1>3 DEF ReturnStore, Leaving
    <2>3. \A m \in sent[q] \cap DOMAIN rows' : rows'[m].ret = q
      BY <1>3 DEF ReturnStore, UpdateReturned, TableOK, DbRow, Row
    <2>4. Unrecorded' \subseteq Unrecorded \ sent[q]
      BY <2>1, <2>2, <2>3, GceAssumption DEF Unrecorded, KeepsReturns
    <2>5. ASSUME NEW g, Blames(g) PROVE Blames(g)'
      <3> SUFFICES ASSUME NEW m \in Unrecorded'
                   PROVE  \E p \in Returns :
                      LeftBy(p, m, g[p])' /\ (retPc'[p] = "running" => m \in sent'[p])
        BY DEF Blames
      <3>1. PICK p \in Returns :
                LeftBy(p, m, g[p]) /\ (retPc[p] = "running" => m \in sent[p])
        BY <2>4, <2>5 DEF Blames
      <3>2. p # q /\ rows'[m].request = rows[m].request
        BY <2>1, <2>2, <2>4, <3>1 DEF Unrecorded, KeepsReturns
      <3> QED
        BY <2>2, <3>1, <3>2 DEF LeftBy
    <2>6. \A m \in DOMAIN rows' :
              /\ rows'[m].request \in Requests
              /\ reqPc'[rows'[m].request] \notin {"idle", "submitted"}
      BY <2>1, <2>2 DEF GroupInv, KeepsReturns
    <2>7. \A p \in Returns : retPc'[p] = "idle" => asked'[p] = {}
      BY <2>2 DEF GroupInv
    <2> QED
      BY <2>2, <2>5, <2>6, <2>7 DEF GroupInv
  <1>4. CASE ReturnAnswer(q) \/ ReturnFails(q)
    <2>1. /\ retPc[q] # "idle" /\ retPc'[q] \in {"failed", "done"}
          /\ retPc[q] = "running" => retPc'[q] = "failed"
          /\ retPc[q] # "failed"
          /\ \A p \in Returns : /\ p # q => retPc'[p] = retPc[p] /\ sent'[p] = sent[p]
                                /\ todo'[p] \subseteq todo[p]
          /\ UNCHANGED <<rows, reqPc, igm, asked>> /\ Leaving' = Leaving
      BY <1>4 DEF ReturnAnswer, ReturnFails, Leaving
    <2>2. ASSUME NEW g, Blames(g) PROVE Blames(g)'
      BY <2>1, <2>2 DEF Blames, LeftBy, Unrecorded
    <2> QED
      BY <2>1, <2>2 DEF GroupInv
  <1> QED
    BY <1>1, <1>2, <1>3, <1>4 DEF ReturnStep

\* The host goes down: what was under way has failed.
LEMMA CrashGroup == ASSUME TypeOK, GroupInv, Crash PROVE GroupInv'
  <1> USE DEF TypeOK
  <1>1. /\ \A r \in Requests : reqPc[r] \notin {"idle", "submitted"} =>
                                    reqPc'[r] \notin {"idle", "submitted"}
        /\ \A p \in Returns : todo'[p] = {} /\ (retPc'[p] = "idle" => retPc[p] = "idle")
        /\ \A p \in Returns : /\ retPc'[p] # "running"
                              /\ retPc[p] \in {"running", "failed"} => retPc'[p] = "failed"
        /\ UNCHANGED <<rows, igm, asked>> /\ Leaving' = Leaving
    BY DEF Crash, Leaving
  <1>2. ASSUME NEW g, Blames(g) PROVE Blames(g)'
    BY <1>1, <1>2 DEF Blames, LeftBy, Unrecorded
  <1> QED
    BY <1>1, <1>2 DEF GroupInv

\* Who has asked for what leaves, and what is left behind, in any state.
THEOREM GroupInvariant == Spec => [](TypeOK /\ CloudInv /\ ReturnInv /\ AnswerInv /\ GroupInv)
  <1>1. TypeOK /\ CloudInv /\ ReturnInv /\ AnswerInv /\ GroupInv /\ [Next]_vars => GroupInv'
    <2> SUFFICES ASSUME TypeOK, ReturnInv, AnswerInv, GroupInv, [Next]_vars PROVE GroupInv'
      OBVIOUS
    <2>1. CASE UNCHANGED vars
      <3>1. KeepsReturns(rows') /\ UNCHANGED cliVars /\ Leaving' = Leaving
        BY <2>1, StatementsKeep DEF vars, Leaving, TypeOK
      <3> QED
        BY <3>1, KeptGroup
    <2>2. CASE OthersStep
      BY <2>2, OthersKeep, OthersLeaveNone, KeptGroup
    <2>3. CASE Next
      BY <2>2, <2>3, RequestGroup, ReturnGroup, CrashGroup DEF Next, OthersStep
    <2> QED
      BY <2>1, <2>3
  <1> QED
    BY InitGroup, AnswerInvariant, <1>1, PTL DEF Spec

\* Every machine that leaves without a return request in its row belongs to the one
\* group at which a return that had asked for it failed, or still is.
THEOREM LostInOneGroup == Spec => []UnrecordedInOneGroup
  <1>1. GroupInv => UnrecordedInOneGroup
    BY DEF GroupInv, Blames, UnrecordedInOneGroup
  <1> QED
    BY GroupInvariant, <1>1, PTL

-----------------------------------------------------------------------------
(* The rows of an instance go forward                                    *)

\* The states are numbers, and DELETED is the last of them.
LEMMA StatesOrdered ==
    INSERTED \in Int /\ \A s \in MachineState : s \in Int /\ s <= DELETED
  BY DEF MachineState, STORED, CREATED, INSERTED, DELETE_REQUESTED, DELETED

\* An insert or delete event of an instance, however late or often it is
\* handled, takes no row back to an earlier state.
THEOREM InstanceEventsForward == Spec => InstanceEventsNeverRegress
  <1> DEFINE Forward ==
        \A e \in events :
            HandleInstancesInserted(e) \/ HandleInstanceDeleted(e) =>
                \A m \in DOMAIN rows : rows'[m].state >= rows[m].state
  <1>1. TypeOK /\ [Next]_vars => [Forward]_vars
    <2> SUFFICES ASSUME TypeOK, NEW e \in events, NEW m \in DOMAIN rows,
                        HandleInstancesInserted(e) \/ HandleInstanceDeleted(e)
                 PROVE  rows'[m].state >= rows[m].state
      OBVIOUS
    <2>1. rows[m] \in DbRow /\ rows[m].state \in MachineState
      BY DEF TypeOK, TableOK, DbRow, Row
    <2>2. CASE HandleInstancesInserted(e)
      <3>1. rows'[m].state = IF m \in e.machines /\ rows[m].state < INSERTED
                             THEN INSERTED ELSE rows[m].state
        BY <2>1, <2>2 DEF HandleInstancesInserted, UpdateInserted, DbRow, Row
      <3> QED
        BY <2>1, <3>1, StatesOrdered
    <2>3. CASE HandleInstanceDeleted(e)
      <3>1. rows'[m].state = IF m \in e.machines THEN DELETED ELSE rows[m].state
        BY <2>1, <2>3 DEF HandleInstanceDeleted, UpdateDeleted, DbRow, Row
      <3> QED
        BY <2>1, <3>1, StatesOrdered
    <2> QED
      BY <2>2, <2>3
  <1> QED
    BY TypeCorrect, <1>1, PTL DEF Spec, InstanceEventsNeverRegress
=============================================================================
