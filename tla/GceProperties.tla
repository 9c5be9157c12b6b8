---------------------------- MODULE GceProperties ----------------------------
(***************************************************************************)
(* What the GCE provider promises about the machines it tracks.            *)
(***************************************************************************)
EXTENDS GceMachines, FiniteSets

\* The database never runs ahead of the cloud, however late, repeated or
\* reordered the events are: a row says INSERTED only of an instance that came
\* into being, has an address only if the instance was given one, says
\* DELETE_REQUESTED only of an instance that is leaving and DELETED only of one
\* that is gone.  So 'succeed' of a request is about a machine that ran, and
\* 'succeed' of a return is about a machine that costs nothing any more.
DbBehindCloud ==
    \A m \in DOMAIN rows :
        /\ rows[m].state = INSERTED => vm[m] \notin {"none", "pending"}
        /\ rows[m].ip => vm[m] \in {"running", "stopping", "gone"}
        /\ rows[m].state = DELETE_REQUESTED => vm[m] \in {"stopping", "gone"}
        /\ rows[m].state = DELETED => vm[m] = "gone"

\* The instances that exist or existed, that came into being, that were given
\* an address if they were to get one, that are leaving, that have left.  Each of
\* these sets only ever grows.
Exists    == {m \in Machines : vm[m] # "none"}
Born      == {m \in Machines : vm[m] \notin {"none", "pending"}}
Addressed == {m \in Machines : vm[m] \in {"running", "stopping", "gone"}}
Leaving   == {m \in Machines : vm[m] \in {"stopping", "gone"}}
Gone      == {m \in Machines : vm[m] = "gone"}

\* What an event under way says has happened.
EventTrue(e) ==
    /\ e.type = "insert" => e.machines \subseteq Born
    /\ e.type = "deleteInstances" => e.machines \subseteq Leaving
    /\ e.type = "delete" => e.machines \subseteq Gone

\* What a thread has read and will write.
ThreadTrue(t) ==
    /\ t.withIp \subseteq Addressed
    /\ t.pc = "trimDelete" => t.todo \subseteq Gone

\* What the row x of machine m says, and that the machine was made at all.
RowTrue(x, m) ==
    /\ m \in Exists
    /\ x.state = INSERTED => m \in Born
    /\ x.ip => m \in Addressed
    /\ x.state = DELETE_REQUESTED => m \in Leaving
    /\ x.state = DELETED => m \in Gone /\ x.grace

TableTrue(f) == \A m \in DOMAIN f : RowTrue(f[m], m)

\* DbBehindCloud made inductive: everything on its way into the database (events,
\* fetched addresses, names to trim, machines to return) is true of the cloud,
\* and a row that says DELETED has its grace period.
CloudInv ==
    /\ TableTrue(rows)
    /\ \A r \in Requests : batch[r] \subseteq Exists
    /\ \A e \in events : EventTrue(e)
    /\ \A t \in threads : ThreadTrue(t)
    /\ trimming \subseteq Gone

\* getReturnRequests offers no machine whose return has been answered with a
\* request id, whatever else (events, other returns, failures, trims) went on.
ReturnedNeverOffered ==
    \A q \in Returns : retPc[q] = "done" => asked[q] \cap Offered = {}

\* ReturnedNeverOffered made inductive.  Batches are disjoint and only stored
\* ones can be returned, so that no row of a returned machine is ever new; and a
\* machine that a return still has to deal with is in todo.
Recorded(m) == m \in DOMAIN rows => rows[m].ret # NoId
ReturnInv ==
    /\ \A r, s \in Requests : r # s => batch[r] \cap batch[s] = {}
    /\ \A q \in Returns : asked[q] \subseteq Known
    /\ \A q \in Returns : retPc[q] \in {"running", "stored", "done"} =>
            \A m \in asked[q] : m \in todo[q] \/ Recorded(m)
    /\ \A q \in Returns : retPc[q] \in {"stored", "done"} => todo[q] = {}

\* A return that fails half way leaves no more behind than the group it was at:
\* with one group for each return that is under way or has failed, every machine
\* that leaves without a return request in its row, and so will be offered again,
\* was asked of a return in whose group it is.  (Stated for a cloud where nothing
\* else deletes instances.)
Unrecorded == {m \in DOMAIN rows \cap Leaving : rows[m].ret = NoId}
LeftBy(q, m, g) ==
    m \in asked[q] /\ retPc[q] \in {"running", "failed"} /\ igm[rows[m].request] = g
UnrecordedInOneGroup ==
    Reclaimable = {} =>
        \E g \in [Returns -> Groups \cup {NoId}] :
            \A m \in Unrecorded : \E q \in Returns : LeftBy(q, m, g[q])

\* UnrecordedInOneGroup made inductive: a machine leaves only if it was asked for,
\* and a return that is under way has left no more behind than what it has sent.
Blames(g) ==
    \A m \in Unrecorded : \E q \in Returns :
        LeftBy(q, m, g[q]) /\ (retPc[q] = "running" => m \in sent[q])
GroupInv ==
    /\ \A m \in DOMAIN rows :
          /\ rows[m].request \in Requests
          /\ reqPc[rows[m].request] \notin {"idle", "submitted"}
    /\ \A q \in Returns : todo[q] \subseteq asked[q]
    /\ \A q \in Returns : retPc[q] = "idle" => asked[q] = {}
    /\ Reclaimable = {} =>
        /\ \A m \in Leaving : \E q \in Returns : m \in asked[q]
        /\ \E g \in [Returns -> Groups \cup {NoId}] : Blames(g)

\* An answered request is complete only if each of its machines was given an
\* address (or is gone and forgotten), in whatever order the rows are reduced.  An
\* answered return is complete only if each of its machines is leaving, and is gone
\* unless another return has taken over its row since.
CompleteIsTrue ==
    /\ \A r \in Requests :
          reqPc[r] = "done" /\ "complete" \in Answers(r) => batch[r] \subseteq Addressed
    /\ \A q \in Returns :
          retPc[q] = "done" /\ "complete" \in Answers(q) =>
              \A m \in asked[q] :
                  /\ m \in Leaving
                  /\ m \in Gone \/ (m \in DOMAIN rows /\ rows[m].ret \in Returns \ {q})

\* CompleteIsTrue made inductive: a name that HostFactory knows has its row until
\* its instance is gone, and a machine that a return has dealt with is leaving.
AnswerInv ==
    /\ \A r \in Requests : reqPc[r] \in {"stored", "done"} =>
            batch[r] \subseteq DOMAIN rows \cup Gone
    /\ \A r \in Requests : \A m \in batch[r] \cap DOMAIN rows : rows[m].request = r
    /\ \A q \in Returns : retPc[q] \in {"running", "stored", "done"} =>
            asked[q] \subseteq todo[q] \cup Leaving
    /\ \A q \in Returns : sent[q] \subseteq Leaving

\* An instance that is there, and has no row or is unknown to HostFactory, was made
\* by a request that is under way or was answered with an error: HostFactory pays for
\* no machine unawares but those of a command that failed, or went down, after the
\* cloud had accepted it, whether or not its rows had been stored by then.
OrphansAreFailed ==
    \A m \in (Exists \ Gone) \ (DOMAIN rows \cap Known) :
        \E r \in Requests :
            m \in batch[r] /\ reqPc[r] \in {"submitted", "stored", "failed"}

\* The part of its inductive invariant that AnswerInv does not have.
MadeInv == \A m \in Exists : \E r \in Requests : m \in batch[r] /\ reqPc[r] # "idle"

\* getReturnRequests puts delete_grace_period into an int field: no machine it
\* offers has NULL there, or the whole answer fails to validate.
OfferedHasGrace == \A m \in Offered : rows[m].grace

\* An insert or delete event of an instance, handled however late or often,
\* never takes a row back to an earlier state.
InstanceEventsNeverRegress ==
    [][\A e \in events :
          HandleInstancesInserted(e) \/ HandleInstanceDeleted(e) =>
              \A m \in DOMAIN rows : rows'[m].state >= rows[m].state]_vars

\* On a quiet day, with nobody in the console, no row goes back at all: not by a
\* createInstances event after an insert one, whose handler has no guard, nor by
\* a deleteInstances event after the delete one, crashes and repetitions included.
Quiet == Orderly /\ Reclaimable = {}
QuietDayForward ==
    [][Quiet => \A m \in DOMAIN rows \cap DOMAIN rows' :
                    rows'[m].state >= rows[m].state]_vars

\* Its inductive invariant: no event is left, and none will come, that would take
\* a row back, since a machine is asked of one return, which sends it once.
NoneBack(f, E) ==
    \A e \in E : \A m \in e.machines \cap DOMAIN f :
        /\ e.type = "createInstances" => f[m].state \in {STORED, CREATED}
        /\ e.type = "deleteInstances" => f[m].state # DELETED
SentOnce ==
    /\ \A p, q \in Returns : p # q => asked[p] \cap asked[q] = {}
    /\ \A q \in Returns : todo[q] \cap Leaving \subseteq sent[q]
QuietInv == Quiet => SentOnce /\ NoneBack(rows, events)

\* The types of events that a handler stores, the machines an event of the type will
\* name once it is published, and the state the handler writes.
StoredType == EventType \ {"preempted"}
Past(type) ==
    CASE type = "createInstances" -> Exists
      [] type = "insert"          -> Born
      [] type = "deleteInstances" -> Leaving
      [] OTHER                    -> Gone
Level(type) ==
    CASE type = "createInstances" -> CREATED
      [] type = "insert"          -> INSERTED
      [] type = "deleteInstances" -> DELETE_REQUESTED
      [] OTHER                    -> DELETED
Says(type, m) == \E e \in events : e.type = type /\ m \in e.machines

\* The machines that have a row, or will when the command that made them goes on.
Awaited == DOMAIN rows \cup UNION {batch[r] : r \in {s \in Requests : reqPc[s] = "submitted"}}
StateOf(m) == IF m \in DOMAIN rows THEN rows[m].state ELSE STORED

\* On a quiet day the database misses nothing: whatever has become of a machine in
\* the cloud is in its row, or the event that will put it there is still to be
\* acknowledged.  A crash between the statement and the acknowledgement, a lost
\* acknowledgement and a second delivery change nothing of this; without it no
\* fairness would let RunningReported or ReturnCompletes hold.
NothingMissed ==
    Quiet => \A m \in Awaited, type \in StoredType :
                m \in Past(type) => StateOf(m) >= Level(type) \/ Says(type, m)

\* It made inductive: what a callback under way has been told is in the rows, none has
\* been told of machines whose rows are still to be made, and only machines that run
\* are returned.
Heard == events \cup {t.event : t \in threads}
HeardInv ==
    /\ \A e \in Heard : e.machines \subseteq Exists
    /\ \A e \in Heard : e.type = "createInstances" =>
          e.op \in Requests /\ reqPc[e.op] # "idle" /\ e.machines = batch[e.op]
Stored(type, S) == \A m \in S \cap DOMAIN rows : rows[m].state >= Level(type)
ToldInv ==
    Orderly => \A t \in threads, r \in Requests :
                  reqPc[r] = "submitted" => t.event.machines \cap batch[r] = {}
AskedInv == Orderly => \A q \in Returns : asked[q] \subseteq Addressed
StoredInv ==
    Quiet => \A t \in threads :
                t.event.type \in StoredType /\ Stored(t.event.type, t.event.machines)

\* As long as the daemon does not go down, and events come after the rows, no machine
\* is left without its address unless a createInstances event or a callback that is
\* past its acknowledgement will look for it: an update that finds no address is
\* repeated, by the thread that took the address away if it must.  (A daemon that dies
\* after the acknowledgement leaves the address out for good.)
Seeks(t, m) ==
    /\ t.event.type = "createInstances" /\ m \in t.event.machines
    /\ t.pc = "fetch" => m \in t.todo \cup t.withIp \cup t.noIp
    /\ t.pc \in {"select", "fetch"}
HasAddress(m) == m \in DOMAIN rows /\ rows[m].ip
AddressAwaited ==
    Orderly /\ crashes = 0 =>
        \A m \in Awaited :
            HasAddress(m) \/ Says("createInstances", m) \/ \E t \in threads : Seeks(t, m)

\* It made inductive: only a callback of createInstances fetches, and only what it was
\* told of, which it has put in state CREATED before.
SeekInv ==
    \A t \in threads :
        /\ t.pc \in {"select", "fetch"} => t.event.type = "createInstances"
        /\ t.withIp \cup t.noIp \subseteq t.event.machines
        /\ t.pc = "fetch" => t.todo \subseteq t.event.machines
        /\ Orderly /\ t.event.type = "createInstances" =>
                \A m \in t.event.machines \cap DOMAIN rows : rows[m].state # STORED

\* A callback past its acknowledgement may wait for ever, since the fetch of an
\* instance that is gone is repeated without end, and keeps its worker.  There is at
\* most one for each createInstances event that was acknowledged and one for each
\* acknowledgement that was lost, however often the update is tried again: what the
\* pool needs is bounded by the calls of requestMachines, not by time.
Waiters     == {t \in threads : t.pc \in {"select", "fetch"}}
Submissions == {r \in Requests : reqPc[r] # "idle"}
Unconfirmed == {e \in events : e.type = "createInstances"}
WaitersBounded ==
    Cardinality(Waiters) + Cardinality(Unconfirmed) <= Cardinality(Submissions) + lostAcks

\* It made inductive: a callback that has yet to acknowledge its event is the only one
\* to hold it, and no acknowledgement but its own takes the event away.
Holds(t) == t.pc \notin {"select", "fetch"}
HeldOnce ==
    /\ \A t \in threads : Holds(t) => t.event \in events
    /\ \A t, u \in threads : Holds(t) /\ Holds(u) /\ t.event = u.event => t = u
PoolInv ==
    /\ IsFiniteSet(Waiters) /\ IsFiniteSet(Unconfirmed) /\ IsFiniteSet(Submissions)
    /\ HeldOnce /\ WaitersBounded

\* A row leaves the table only after its instance has left the cloud, although
\* the candidates of a trim were read some transactions earlier.
TrimOnlyGone == [][\A m \in DOMAIN rows \ DOMAIN rows' : vm[m] = "gone"]_vars

\* The provider seen as any host provider: it knows the machines that have a row and
\* tells of those that are DELETED.  Late, repeated and reordered events may take
\* such a word back, but it is never given for a machine that is still there, and no
\* such machine is forgotten.
Life == INSTANCE MachineLife WITH
            Machine <- Machines, live <- Exists \ Gone, left <- Gone,
            known <- DOMAIN rows, told <- {m \in DOMAIN rows : rows[m].state = DELETED}
LifeSpec == Life!Spec

\* Every published event but a preemption is in the end acknowledged for good, in
\* spite of crashes, lost acknowledgements and callbacks that never end.
EventsDrained == <>[](\A e \in events : e.type = "preempted")

\* A machine that runs in the cloud, and whose request has been answered, is in the
\* end reported with result 'succeed', with two exceptions: the daemon has gone down,
\* which may leave its address out for good; or an acknowledgement was lost, and the
\* second callback waits for an instance of the same operation that is gone by now,
\* which keeps the addresses of the others.
Held(m) == \E r \in Requests : m \in batch[r] /\ batch[r] \cap Gone # {}
RunningReported ==
    \A m \in Machines :
        (vm[m] = "running" /\ m \in Known) ~>
            (vm[m] # "running" \/ Usable(m) \/ crashes > 0 \/ (lostAcks > 0 /\ Held(m)))

\* A preempted instance that has a row is in the end recorded as one that is no more.
PreemptionsRecorded ==
    \A m \in Machines :
        (Says("preempted", m) /\ m \in DOMAIN rows) ~>
            (m \notin DOMAIN rows \/ rows[m].state \in {DELETED, PREEMPTED})

\* A return that was answered is in the end reported complete, and stays so: each
\* machine it was asked for that still has a row is found under its id, with
\* result 'succeed'.
ReturnCompletes ==
    \A q \in Returns :
        <>[](retPc[q] = "done" =>
                \A m \in asked[q] \cap DOMAIN rows :
                    m \in RowsOf(q) /\ ReturnResult(rows[m]) = "succeed")
=============================================================================
