----------------------------- MODULE GceMachines -----------------------------
(***************************************************************************)
(* The life of a machine of the GCE provider (hf-provider/src/gce_provider)*)
(* between three parties that share no lock:                               *)
(*                                                                         *)
(*  - the hf-gce command, one process per HostFactory call: requestMachines*)
(*    and requestReturnMachines call the Compute API and then write the    *)
(*    database, trimDB removes old rows;                                   *)
(*  - Google Cloud, which creates and deletes the instances and publishes  *)
(*    an audit event for each operation (external);                        *)
(*  - the hf-monitor daemon, whose callback threads apply each event to    *)
(*    the database, acknowledge it and, for createInstances, then fetch    *)
(*    the addresses of the new instances.                                  *)
(*                                                                         *)
(* Pub/Sub delivers at least once and in any order.  A thread takes one    *)
(* step per database transaction or API call, so that steps of the threads *)
(* and commands interleave, and a crash can fall between any two.          *)
(***************************************************************************)
EXTENDS GceStatus

CONSTANTS
    Machines,       \* names generate_unique_id() may give to instances
    Requests,       \* request ids of requestMachines calls
    Returns,        \* request ids of requestReturnMachines calls
    Groups,         \* the instance groups (and zones) of the templates
    NoId,           \* SQL NULL in an id column
    Reclaimable,    \* machines that may be deleted in the console or preempted
    AutoTrim,       \* AUTO_RUN_TRIM_DB_CMD
    Orderly,        \* see Deliverable and ReturnRead: what a quiet day looks like
    Workers,        \* the threads of the subscriber's pool (external: 10)
    MaxCrashes,     \* bound: how often the daemon or the host goes down
    MaxLostAcks     \* bound: how many acknowledgements are lost

ASSUME GceAssumption ==
    /\ NoId \notin Requests \cup Returns
    /\ Requests \cap Returns = {}
    /\ Reclaimable \subseteq Machines
    /\ AutoTrim \in BOOLEAN /\ Orderly \in BOOLEAN
    /\ MaxCrashes \in Nat /\ MaxLostAcks \in Nat

VARIABLES
    rows,       \* the machines table: a function whose domain is its keys
    vm,         \* the instances in the cloud
    events,     \* published and not yet acknowledged
    threads,    \* what the daemon's workers are at: callbacks under way
    reqPc,      \* where each requestMachines call is
    batch,      \* the machine names it made up
    igm,        \* the instance group its template names
    retPc,      \* where each requestReturnMachines call is
    asked,      \* the machines it was asked to return
    todo,       \* rows it read and has not dealt with
    sent,       \* machines whose deletion was accepted and not yet stored
    trimming,   \* names a trimDB command selected and has not deleted yet
    crashes, lostAcks

cliVars   == <<reqPc, batch, igm, retPc, asked, todo, sent>>
boundVars == <<crashes, lostAcks>>
vars == <<rows, vm, events, threads, cliVars, trimming, boundVars>>

-----------------------------------------------------------------------------
(* Types *)

EventType == {"createInstances", "insert", "deleteInstances", "delete", "preempted"}
Event == [type : EventType, op : Requests \cup {NoId}, machines : SUBSET Machines]

\* A callback under way: its worker, the event it handles, its next step, and the
\* data of the address update (todo, withIp, noIp) or of the trim (todo).
ThreadPc == {"trimSelect", "trimDelete", "ack", "select", "fetch"}
Thread == [worker : Workers, event : Event, pc : ThreadPc,
           todo : SUBSET Machines, withIp : SUBSET Machines, noIp : SUBSET Machines]

VmState == {"none", "pending", "staging", "running", "stopping", "gone"}

DbRow == Row(Requests, Returns \cup {NoId})
TableOK(f) ==
    /\ DOMAIN f \subseteq Machines
    /\ \A m \in DOMAIN f : f[m] \in DbRow

TypeOK ==
    /\ TableOK(rows)
    /\ vm \in [Machines -> VmState]
    /\ events \subseteq Event
    /\ threads \subseteq Thread
    /\ reqPc \in [Requests -> {"idle", "submitted", "stored", "done", "failed"}]
    /\ batch \in [Requests -> SUBSET Machines]
    /\ igm \in [Requests -> Groups \cup {NoId}]
    /\ retPc \in [Returns -> {"idle", "running", "stored", "done", "failed"}]
    /\ asked \in [Returns -> SUBSET Machines]
    /\ todo \in [Returns -> SUBSET Machines]
    /\ sent \in [Returns -> SUBSET Machines]
    /\ trimming \subseteq Machines
    /\ crashes \in 0..MaxCrashes /\ lostAcks \in 0..MaxLostAcks

Init ==
    /\ rows = [m \in {} |-> {}]
    /\ vm = [m \in Machines |-> "none"]
    /\ events = {} /\ threads = {}
    /\ reqPc = [r \in Requests |-> "idle"]
    /\ batch = [r \in Requests |-> {}]
    /\ igm = [r \in Requests |-> NoId]
    /\ retPc = [q \in Returns |-> "idle"]
    /\ asked = [q \in Returns |-> {}]
    /\ todo = [q \in Returns |-> {}]
    /\ sent = [q \in Returns |-> {}]
    /\ trimming = {}
    /\ crashes = 0 /\ lostAcks = 0

-----------------------------------------------------------------------------
(* The statements on the machines table.  Each is one transaction.  Every  *)
(* UPDATE of a row fires the trigger that renews updated_at.               *)
(*                                                                         *)
(* A definition whose name begins with Slip is what its successor would be *)
(* with a plausible mistake.  No action uses it: it serves to confirm that *)
(* a property can fail.                                                    *)

\* INSERT INTO machines: a new row has no return request, no address, state 0.
InsertRows(r, S) ==
    [m \in DOMAIN rows \cup S |->
        IF m \in DOMAIN rows THEN rows[m]
        ELSE [request |-> r, ret |-> NoId, state |-> STORED,
              ip |-> FALSE, grace |-> FALSE, expired |-> FALSE]]

\* A mistake: INSERT OR REPLACE, so that the event alone makes a row.
SlipUpdateCreated(S) ==
    [m \in DOMAIN rows \cup S |->
        IF m \in S
        THEN [request |-> NoId, ret |-> NoId, state |-> CREATED,
              ip |-> FALSE, grace |-> FALSE, expired |-> FALSE]
        ELSE rows[m]]

UpdateCreated(S) ==
    [m \in DOMAIN rows |->
        IF m \in S THEN [rows[m] EXCEPT !.state = CREATED, !.expired = FALSE]
        ELSE rows[m]]

\* A mistake: no guard on the state.
SlipUpdateInserted(S) ==
    [m \in DOMAIN rows |->
        IF m \in S THEN [rows[m] EXCEPT !.state = INSERTED, !.expired = FALSE]
        ELSE rows[m]]

\* A mistake: the guard compares with CREATED.
SlipUpdateInsertedEarly(S) ==
    [m \in DOMAIN rows |->
        IF m \in S /\ rows[m].state < CREATED
        THEN [rows[m] EXCEPT !.state = INSERTED, !.expired = FALSE]
        ELSE rows[m]]

UpdateInserted(S) ==
    [m \in DOMAIN rows |->
        IF m \in S /\ rows[m].state < INSERTED
        THEN [rows[m] EXCEPT !.state = INSERTED, !.expired = FALSE]
        ELSE rows[m]]

\* A mistake: the group's operation is taken for the end of the instances.
SlipUpdateDeleteRequested(S) ==
    [m \in DOMAIN rows |->
        IF m \in S
        THEN [rows[m] EXCEPT !.state = DELETED, !.expired = FALSE]
        ELSE rows[m]]

UpdateDeleteRequested(S) ==
    [m \in DOMAIN rows |->
        IF m \in S
        THEN [rows[m] EXCEPT !.state = DELETE_REQUESTED, !.expired = FALSE]
        ELSE rows[m]]

\* A mistake: the grace period is forgotten.
SlipUpdateDeleted(S) ==
    [m \in DOMAIN rows |->
        IF m \in S THEN [rows[m] EXCEPT !.state = DELETED, !.expired = FALSE]
        ELSE rows[m]]

\* A mistake: only rows whose deletion was not asked for are updated.
SlipUpdateDeletedOnce(S) ==
    [m \in DOMAIN rows |->
        IF m \in S /\ rows[m].state < DELETE_REQUESTED
        THEN [rows[m] EXCEPT !.state = DELETED, !.grace = TRUE, !.expired = FALSE]
        ELSE rows[m]]

UpdateDeleted(S) ==
    [m \in DOMAIN rows |->
        IF m \in S
        THEN [rows[m] EXCEPT !.state = DELETED, !.grace = TRUE, !.expired = FALSE]
        ELSE rows[m]]

\* A mistake: rows that an event has already moved on are left alone.
SlipUpdateReturned(q, S) ==
    [m \in DOMAIN rows |->
        IF m \in S /\ rows[m].state < DELETE_REQUESTED
        THEN [rows[m] EXCEPT !.ret = q, !.expired = FALSE]
        ELSE rows[m]]

\* A mistake: the command writes the state as well, as the event will.
SlipUpdateReturnedState(q, S) ==
    [m \in DOMAIN rows |->
        IF m \in S
        THEN [rows[m] EXCEPT !.ret = q, !.state = DELETE_REQUESTED, !.expired = FALSE]
        ELSE rows[m]]

UpdateReturned(q, S) ==
    [m \in DOMAIN rows |->
        IF m \in S THEN [rows[m] EXCEPT !.ret = q, !.expired = FALSE]
        ELSE rows[m]]

\* An instance that was fetched without an address sets the column to NULL.
UpdateIps(withIp, noIp) ==
    [m \in DOMAIN rows |->
        IF m \in withIp THEN [rows[m] EXCEPT !.ip = TRUE, !.expired = FALSE]
        ELSE IF m \in noIp THEN [rows[m] EXCEPT !.ip = FALSE, !.expired = FALSE]
        ELSE rows[m]]

DeleteRows(S) == [m \in DOMAIN rows \ S |-> rows[m]]

\* What getRequestStatus reads for an id, and what getReturnRequests offers.
RowsOf(id) == {m \in DOMAIN rows : rows[m].request = id \/ rows[m].ret = id}

\* What getRequestStatus may answer: the first row tells a request from a return.
Answers(id) ==
    RequestStatuses(IF id \in Requests THEN {MachineResult(rows[m]) : m \in RowsOf(id)}
                    ELSE {ReturnResult(rows[m]) : m \in RowsOf(id)})

Offered == {m \in DOMAIN rows : rows[m].ret = NoId /\ rows[m].state = DELETED}
\* A mistake: the age of the rows is not asked for, and the state is a bound.
SlipTrimCandidates == {m \in DOMAIN rows : rows[m].state >= DELETE_REQUESTED}
TrimCandidates == {m \in DOMAIN rows : rows[m].state = DELETED /\ rows[m].expired}

-----------------------------------------------------------------------------
(* requestMachines: the API call, then the row of each machine. *)

\* client.create_instances is accepted: the group creates the instances and
\* publishes the audit event of the operation.
RequestSubmit(r) ==
    /\ reqPc[r] = "idle"
    /\ \E S \in SUBSET {m \in Machines : vm[m] = "none"}, g \in Groups :
        /\ S # {}
        /\ vm' = [m \in Machines |-> IF m \in S THEN "pending" ELSE vm[m]]
        /\ batch' = [batch EXCEPT ![r] = S]
        /\ igm' = [igm EXCEPT ![r] = g]
        /\ events' = events \cup
              {[type |-> "createInstances", op |-> r, machines |-> S]}
    /\ reqPc' = [reqPc EXCEPT ![r] = "submitted"]
    /\ UNCHANGED <<rows, threads, retPc, asked, todo, sent, trimming, boundVars>>

\* dao.store_request_machines commits ...
RequestStore(r) ==
    /\ reqPc[r] = "submitted"
    /\ rows' = InsertRows(r, batch[r])
    /\ reqPc' = [reqPc EXCEPT ![r] = "stored"]
    /\ UNCHANGED <<vm, events, threads, batch, igm, retPc, asked, todo, sent,
                   trimming, boundVars>>

\* ... and dispatch_command prints the request id.
RequestAnswer(r) ==
    /\ reqPc[r] = "stored"
    /\ reqPc' = [reqPc EXCEPT ![r] = "done"]
    /\ UNCHANGED <<rows, vm, events, threads, batch, igm, retPc, asked, todo, sent,
                   trimming, boundVars>>

\* A mistake: the request id is printed although the rows could not be stored.
SlipRequestFails(r) ==
    /\ ~Orderly
    /\ reqPc[r] \in {"idle", "submitted"}
    /\ reqPc' = [reqPc EXCEPT ![r] = "done"]
    /\ UNCHANGED <<rows, vm, events, threads, batch, igm, retPc, asked, todo, sent,
                   trimming, boundVars>>

\* The pre-flight check, the API, the database or the launch of the daemon raises,
\* or the command is killed: HostFactory has no request id.
RequestFails(r) ==
    /\ ~Orderly
    /\ reqPc[r] \in {"idle", "submitted", "stored"}
    /\ reqPc' = [reqPc EXCEPT ![r] = "failed"]
    /\ UNCHANGED <<rows, vm, events, threads, batch, igm, retPc, asked, todo, sent,
                   trimming, boundVars>>

-----------------------------------------------------------------------------
(* requestReturnMachines: read the rows, then per instance group the API   *)
(* call and the rows.  A batch of at most 1000 is one whole group here.    *)

\* Names HostFactory knows: getRequestStatus showed them for an id it was given.
Known == UNION {batch[r] : r \in {s \in Requests : reqPc[s] = "done"}}

Usable(m) == m \in DOMAIN rows /\ MachineResult(rows[m]) = "succeed"

\* get_machines_by_name: names that have no row are dropped without a word.
\* On an orderly day HostFactory returns machines that it was told are usable,
\* or that getReturnRequests offered, and each one once.
ReturnRead(q) ==
    /\ retPc[q] = "idle"
    /\ \E S \in SUBSET Known :
        /\ S # {}
        /\ Orderly => \A m \in S : /\ Usable(m) \/ m \in Offered
                                  /\ \A p \in Returns : m \notin asked[p]
        /\ asked' = [asked EXCEPT ![q] = S]
        /\ todo' = [todo EXCEPT ![q] = S \cap DOMAIN rows]
        /\ retPc' = [retPc EXCEPT ![q] =
                        IF S \cap DOMAIN rows = {} THEN "stored" ELSE "running"]
    /\ UNCHANGED <<rows, vm, events, threads, reqPc, batch, igm, sent, trimming,
                   boundVars>>

\* client.delete_instances for one group is accepted.  Instances that are
\* already leaving are skipped, the audit event names them all the same.
ReturnSubmit(q) ==
    /\ retPc[q] = "running" /\ sent[q] = {}
    /\ \E r \in Requests :
        LET S == {m \in todo[q] : \E s \in Requests : m \in batch[s] /\ igm[s] = igm[r]}
        IN  /\ S # {}
            /\ vm' = [m \in Machines |->
                        IF m \in S /\ vm[m] \in {"pending", "staging", "running"}
                        THEN "stopping" ELSE vm[m]]
            /\ events' = events \cup
                  {[type |-> "deleteInstances", op |-> NoId, machines |-> S]}
            /\ sent' = [sent EXCEPT ![q] = S]
    /\ UNCHANGED <<rows, threads, reqPc, batch, igm, retPc, asked, todo, trimming,
                   boundVars>>

\* store_delete_machines, group by group ...
ReturnStore(q) ==
    /\ retPc[q] = "running" /\ sent[q] # {}
    /\ rows' = UpdateReturned(q, sent[q])
    /\ todo' = [todo EXCEPT ![q] = @ \ sent[q]]
    /\ sent' = [sent EXCEPT ![q] = {}]
    /\ retPc' = [retPc EXCEPT ![q] = IF todo[q] = sent[q] THEN "stored" ELSE "running"]
    /\ UNCHANGED <<vm, events, threads, reqPc, batch, igm, asked, trimming, boundVars>>

\* ... and after the last of them dispatch_command prints the id.
ReturnAnswer(q) ==
    /\ retPc[q] = "stored"
    /\ retPc' = [retPc EXCEPT ![q] = "done"]
    /\ UNCHANGED <<rows, vm, events, threads, reqPc, batch, igm, asked, todo, sent,
                   trimming, boundVars>>

\* The API or the database raises, or the command is killed: groups dealt with so
\* far stay dealt with.
ReturnFails(q) ==
    /\ ~Orderly
    /\ retPc[q] \in {"running", "stored"}
    /\ retPc' = [retPc EXCEPT ![q] = "failed"]
    /\ todo' = [todo EXCEPT ![q] = {}]
    /\ sent' = [sent EXCEPT ![q] = {}]
    /\ UNCHANGED <<rows, vm, events, threads, reqPc, batch, igm, asked, trimming,
                   boundVars>>

-----------------------------------------------------------------------------
(* Google Cloud (external). *)

Publish(type, m) ==
    events' = events \cup {[type |-> type, op |-> NoId, machines |-> {m}]}

\* The instance exists; it may not have its address yet.
VmInsert(m) ==
    /\ vm[m] = "pending"
    /\ vm' = [vm EXCEPT ![m] = "staging"]
    /\ Publish("insert", m)
    /\ UNCHANGED <<rows, threads, cliVars, trimming, boundVars>>

VmAddress(m) ==
    /\ vm[m] = "staging"
    /\ vm' = [vm EXCEPT ![m] = "running"]
    /\ UNCHANGED <<rows, events, threads, cliVars, trimming, boundVars>>

\* A requested deletion ends, or somebody deletes the instance in the console.
VmDelete(m) ==
    /\ \/ vm[m] = "stopping"
       \/ m \in Reclaimable /\ vm[m] \in {"staging", "running"}
    /\ vm' = [vm EXCEPT ![m] = "gone"]
    /\ Publish("delete", m)
    /\ UNCHANGED <<rows, threads, cliVars, trimming, boundVars>>

VmPreempt(m) ==
    /\ m \in Reclaimable /\ vm[m] = "running"
    /\ vm' = [vm EXCEPT ![m] = "gone"]
    /\ Publish("preempted", m)
    /\ UNCHANGED <<rows, threads, cliVars, trimming, boundVars>>

-----------------------------------------------------------------------------
(* hf-monitor: update_machine_state, the acknowledgement, the post-ack     *)
(* callback.                                                               *)

Rank(type) ==
    CASE type = "createInstances" -> 1
      [] type = "insert"          -> 2
      [] type = "deleteInstances" -> 3
      [] type \in {"delete", "preempted"} -> 4

Free == Workers \ {t.worker : t \in threads}

\* Pub/Sub gives a published event to a free worker unless one holds it.  On an
\* orderly day the rows are there before the first event, and the events of a
\* machine arrive in the order in which they happened.
Deliverable(e, type) ==
    /\ e \in events /\ e.type = type
    /\ Free # {}
    /\ \A t \in threads : t.event = e => t.pc \in {"select", "fetch"}
    /\ Orderly =>
        /\ \A r \in Requests : e.machines \cap batch[r] # {} => reqPc[r] # "submitted"
        /\ \A d \in events : Rank(d.type) < Rank(type) => d.machines \cap e.machines = {}

StartThread(e, pc) ==
    \E w \in Free :
        threads' = threads \cup {[worker |-> w, event |-> e, pc |-> pc,
                                  todo |-> {}, withIp |-> {}, noIp |-> {}]}

HandleInstancesCreated(e) ==
    /\ Deliverable(e, "createInstances")
    /\ rows' = UpdateCreated(e.machines)
    /\ StartThread(e, "ack")
    /\ UNCHANGED <<vm, events, cliVars, trimming, boundVars>>

HandleInstancesInserted(e) ==
    /\ Deliverable(e, "insert")
    /\ rows' = UpdateInserted(e.machines)
    /\ StartThread(e, "ack")
    /\ UNCHANGED <<vm, events, cliVars, trimming, boundVars>>

\* A mistake: the statement raises, as that of HandleInstancePreempted does.
SlipHandleGroupInstancesDeleted(e) ==
    /\ Deliverable(e, "deleteInstances")
    /\ UNCHANGED vars

HandleGroupInstancesDeleted(e) ==
    /\ Deliverable(e, "deleteInstances")
    /\ rows' = UpdateDeleteRequested(e.machines)
    /\ StartThread(e, "ack")
    /\ UNCHANGED <<vm, events, cliVars, trimming, boundVars>>

\* The trim that follows runs in the same thread, before the acknowledgement,
\* unless the debounce drops it: one trim in five seconds.
HandleInstanceDeleted(e) ==
    /\ Deliverable(e, "delete")
    /\ rows' = UpdateDeleted(e.machines)
    /\ \/ StartThread(e, "ack")
       \/ AutoTrim /\ StartThread(e, "trimSelect")
    /\ UNCHANGED <<vm, events, cliVars, trimming, boundVars>>

\* The statement has one placeholder per name and one parameter more, so the
\* database raises, the transaction rolls back and the event is not acknowledged.
HandleInstancePreempted(e) ==
    /\ Deliverable(e, "preempted")
    /\ UNCHANGED vars

Replace(t, u) == threads' = (threads \ {t}) \cup {u}

\* A mistake: the callback of createInstances comes before the acknowledgement.
SlipAck(t) ==
    /\ t \in threads /\ t.pc = "ack"
    /\ IF t.event.type = "createInstances"
       THEN Replace(t, [t EXCEPT !.pc = "select"]) /\ UNCHANGED events
       ELSE threads' = threads \ {t} /\ events' = events \ {t.event}
    /\ UNCHANGED <<rows, vm, cliVars, trimming, boundVars>>

\* message.ack(): a lost one leaves the event for another delivery.  The
\* callback of createInstances goes on in the same thread.
Ack(t) ==
    /\ t \in threads /\ t.pc = "ack"
    /\ \/ /\ events' = events \ {t.event}
          /\ UNCHANGED lostAcks
       \/ /\ lostAcks < MaxLostAcks
          /\ lostAcks' = lostAcks + 1
          /\ UNCHANGED events
    /\ IF t.event.type = "createInstances"
       THEN Replace(t, [t EXCEPT !.pc = "select"])
       ELSE threads' = threads \ {t}
    /\ UNCHANGED <<rows, vm, cliVars, trimming, crashes>>

\* _update_instance_ips: the rows of the operation that lack an address ...
IpSelect(t) ==
    /\ t \in threads /\ t.pc = "select"
    /\ Replace(t, [t EXCEPT !.pc = "fetch",
          !.todo = {m \in DOMAIN rows : /\ rows[m].request = t.event.op
                                        /\ ~rows[m].ip /\ rows[m].state >= CREATED}])
    /\ UNCHANGED <<rows, vm, events, cliVars, trimming, boundVars>>

\* ... the instance of each: fetch_instance is retried for ever until it exists ...
IpFetch(t, m) ==
    /\ t \in threads /\ t.pc = "fetch" /\ m \in t.todo
    /\ \/ /\ vm[m] \in {"running", "stopping"}
          /\ Replace(t, [t EXCEPT !.todo = @ \ {m}, !.withIp = @ \cup {m}])
       \/ /\ vm[m] \in {"staging", "stopping"}
          /\ Replace(t, [t EXCEPT !.todo = @ \ {m}, !.noIp = @ \cup {m}])
    /\ UNCHANGED <<rows, vm, events, cliVars, trimming, boundVars>>

\* A mistake: the update is not tried again.
SlipIpStore(t) ==
    /\ t \in threads /\ t.pc = "fetch" /\ t.todo = {}
    /\ rows' = UpdateIps(t.withIp, t.noIp)
    /\ threads' = threads \ {t}
    /\ UNCHANGED <<vm, events, cliVars, trimming, boundVars>>

\* ... and the update, from the start again while an address is missing.
IpStore(t) ==
    /\ t \in threads /\ t.pc = "fetch" /\ t.todo = {}
    /\ rows' = UpdateIps(t.withIp, t.noIp)
    /\ IF t.noIp # {}
       THEN Replace(t, [t EXCEPT !.pc = "select", !.withIp = {}, !.noIp = {}])
       ELSE threads' = threads \ {t}
    /\ UNCHANGED <<vm, events, cliVars, trimming, boundVars>>

-----------------------------------------------------------------------------
(* Trimming: candidates are read on one connection and deleted by name in  *)
(* a later transaction, by a daemon thread or by the trimDB command.       *)

TrimSelect(t) ==
    /\ t \in threads /\ t.pc = "trimSelect"
    /\ Replace(t, [t EXCEPT !.todo = TrimCandidates,
                            !.pc = IF TrimCandidates = {} THEN "ack" ELSE "trimDelete"])
    /\ UNCHANGED <<rows, vm, events, cliVars, trimming, boundVars>>

TrimDelete(t) ==
    /\ t \in threads /\ t.pc = "trimDelete"
    /\ rows' = DeleteRows(t.todo)
    /\ Replace(t, [t EXCEPT !.todo = {}, !.pc = "ack"])
    /\ UNCHANGED <<vm, events, cliVars, trimming, boundVars>>

CmdTrimSelect ==
    /\ trimming = {} /\ TrimCandidates # {}
    /\ trimming' = TrimCandidates
    /\ UNCHANGED <<rows, vm, events, threads, cliVars, boundVars>>

CmdTrimDelete ==
    /\ trimming # {}
    /\ rows' = DeleteRows(trimming)
    /\ trimming' = {}
    /\ UNCHANGED <<vm, events, threads, cliVars, boundVars>>

\* RETURNED_VM_TTL days pass since the last update of a deleted row.
Expire(m) ==
    /\ m \in DOMAIN rows /\ rows[m].state = DELETED /\ ~rows[m].expired
    /\ rows' = [rows EXCEPT ![m].expired = TRUE]
    /\ UNCHANGED <<vm, events, threads, cliVars, trimming, boundVars>>

-----------------------------------------------------------------------------
\* hf-monitor alone is killed, or ...
DaemonStops ==
    /\ crashes < MaxCrashes
    /\ crashes' = crashes + 1
    /\ threads' = {}
    /\ UNCHANGED <<rows, vm, events, cliVars, trimming, lostAcks>>

\* ... the host goes down: threads and commands are lost, the database and the
\* subscription are not.  The next command launches hf-monitor again.
Crash ==
    /\ crashes < MaxCrashes
    /\ crashes' = crashes + 1
    /\ threads' = {} /\ trimming' = {}
    /\ reqPc' = [r \in Requests |->
                    IF reqPc[r] \in {"submitted", "stored"} THEN "failed" ELSE reqPc[r]]
    /\ retPc' = [q \in Returns |->
                    IF retPc[q] \in {"running", "stored"} THEN "failed" ELSE retPc[q]]
    /\ todo' = [q \in Returns |-> {}]
    /\ sent' = [q \in Returns |-> {}]
    /\ UNCHANGED <<rows, vm, events, batch, igm, asked, lostAcks>>

RequestStep(r) ==
    RequestSubmit(r) \/ RequestStore(r) \/ RequestAnswer(r) \/ RequestFails(r)
ReturnStep(q) ==
    \/ ReturnRead(q) \/ ReturnSubmit(q) \/ ReturnStore(q)
    \/ ReturnAnswer(q) \/ ReturnFails(q)
CloudStep(m) == VmInsert(m) \/ VmAddress(m) \/ VmDelete(m) \/ VmPreempt(m)
Handle(e) ==
    \/ HandleInstancesCreated(e) \/ HandleInstancesInserted(e)
    \/ HandleGroupInstancesDeleted(e) \/ HandleInstanceDeleted(e)
    \/ HandleInstancePreempted(e)
IpStep(t) == IpSelect(t) \/ (\E m \in Machines : IpFetch(t, m)) \/ IpStore(t)
TrimStep(t) == TrimSelect(t) \/ TrimDelete(t)
CmdTrim == CmdTrimSelect \/ CmdTrimDelete

Next ==
    \/ \E r \in Requests : RequestStep(r)
    \/ \E q \in Returns : ReturnStep(q)
    \/ \E m \in Machines : CloudStep(m) \/ Expire(m)
    \/ \E e \in events : Handle(e)
    \/ \E t \in threads : Ack(t) \/ IpStep(t) \/ TrimStep(t)
    \/ CmdTrim
    \/ DaemonStops \/ Crash

Spec == Init /\ [][Next]_vars

\* A command that has begun goes on, the daemon is launched again by the next
\* command, Pub/Sub delivers what is not acknowledged, and the cloud carries out
\* what it accepted.  Nothing obliges HostFactory to call, time to pass, the
\* console to delete, or a crash to happen.
Fairness ==
    /\ \A r \in Requests : WF_vars(RequestStore(r) \/ RequestAnswer(r))
    /\ \A q \in Returns : WF_vars(ReturnSubmit(q) \/ ReturnStore(q) \/ ReturnAnswer(q))
    /\ \A m \in Machines : WF_vars(VmInsert(m) \/ VmAddress(m))
                           /\ WF_vars(vm[m] = "stopping" /\ VmDelete(m))
    /\ WF_vars(\E e \in events : Handle(e))
    /\ WF_vars(\E t \in threads : Ack(t) \/ TrimStep(t))
    /\ WF_vars(CmdTrimDelete)
    /\ \A r \in Requests : WF_vars(\E t \in threads : t.event.op = r /\ IpStep(t))

FairSpec == Spec /\ Fairness
=============================================================================
