# A TLA+ verification of the Symphony connectors for Google Cloud

IBM Spectrum Symphony's HostFactory asks a *provider* for machines through short-lived
commands (`requestMachines`, `requestReturnMachines`, `getRequestStatus`,
`getReturnRequests`, …) and believes what they print.  This repository holds two
providers and an operator:

- **hf-gce** (`hf-provider/src/gce_provider`) makes Compute Engine instances in managed
  instance groups.  A SQLite database is its only memory; a daemon, `hf-monitor`, keeps it
  up to date from the audit events that Google Cloud publishes to a Pub/Sub topic.
- **hf-gke** (`hf-provider/src/gke_provider`) has no memory of its own: it writes and reads
  custom resources of a Kubernetes cluster.
- **the operator** (`k8s-operator/src/gcp_symphony_operator`) turns those resources into
  pods, follows the pods, and cleans up.

Nothing in either system holds a lock across two of its parts, but for the lock file of
`hf-monitor`.  What can be said of them is therefore said about interleavings: what a
command, an event, a handler and a cleanup do to the same row or resource, in an order
that no test fixes.

**Status.**  Both systems are modelled, model-checked and proved about, each as a whole:
`GceMachines` (hf-gce with its daemon and the cloud) and `SymphonyOperator` (hf-gke, the
operator and the cluster), both of which implement one abstract specification,
`MachineLife`; and `DaemonLock`, the lock of the daemon.  What is left out is in section 7.

## 1. Inventory

Paths are under `hf-provider/src/` (first two tables) and
`k8s-operator/src/gcp_symphony_operator/` (third).

### The GCE provider

| part | state | operations | interacts with |
|---|---|---|---|
| machine store: `gce_provider/db/*` | table `machines`: request, return request, group, state, addresses, grace period, time of the last update | store a request, store a return, one UPDATE per event type, the address update, the trim, three SELECTs | SQLite, one transaction per operation; `instances.get` for addresses |
| commands: `gce_provider/commands/*`, `__main__.py` | none beyond one call | API call(s), then one transaction each | Compute API, the store, launch of the daemon |
| event daemon: `gce_provider/pubsub.py` | callback threads under way | handle, acknowledge, post-acknowledgement callback | Pub/Sub, the store, Compute API |
| daemon lock: `utils/process_lock.py` | a file with a pid | check, remove a stale one, create, remove | other daemons, by the file system only |
| status: `get_request_status.py`, `commands/helpers/*` | none | reduce the rows of an id to a status | the store |
| labels: `utils/instances.py` | none | best-effort label update | Compute API |

Hard behaviours: the API call comes before the database write, and the event of the call
may come before it too; Pub/Sub delivers at least once and in any order; an event is
acknowledged before its long-running part; the daemon or the command may die between any
two of these; a return spans several groups; a trim reads in one transaction and deletes
in another; every command launches a daemon, and only the lock keeps them from running
side by side.  Correct means: the database says nothing that is not so; a machine that
runs is in the end reported; a return in the end completes; a machine that was returned is
not offered for return again; a trim removes nothing that is still alive; every event is
in the end consumed; one daemon listens, and in the end one does.

### The GKE provider

| part | state | operations | interacts with |
|---|---|---|---|
| commands: `gke_provider/commands/*` | none | create a GCPSymphonyResource, create a MachineReturnRequest, build a status from resource and pods, list the machines returned | the resources |
| access: `gke_provider/k8s/*` | none | find the object of a request id, list its pods, list all resources | Kubernetes API |

Hard behaviours: a status is built from what is listed at the moment, pods that are not
made yet or are being deleted included; a missing object means "finished and cleaned up"
and is an error.  Correct means: `complete` is never said of a request or return with work
left, and is said in the end.

### The operator

| part | state | operations | interacts with |
|---|---|---|---|
| resource handlers: `handlers/resource_create.py`, `resource_update.py` | resource phase, conditions, labels | deploy pods one by one; mark Completed when there are none | Kubernetes API, the status queue; retried by kopf |
| pod handlers: `pod_delete.py`, `container_state_change.py`, `preemption.py` | – | turn a pod event into a status update; delete the pods of a preempted node | the status queue, Kubernetes API |
| status worker: `workers/status_update.py` | queue in memory, batch | take a batch, consolidate per resource, merge conditions and returned machines, patch the status, patch the cleanup label | the resource, read some calls before the patch |
| machine return: `handlers/machine_return_request.py` | counts, phase, labels | label and delete the pods, then label and complete itself | Kubernetes API |
| cleanup: `workers/cleanup.py` | – | delete expired objects that are labelled for it | lists, then deletes by name |
| lifecycle: `controller.py`, `operator_context.py`, `register_handlers.py`, `main.py` | tasks, stop event | start and stop the workers | kopf |

Hard behaviours: read-modify-write of one status by the worker while handlers patch it; a
batch that keeps one update per pod; updates lost with the process; handlers repeated from
the start by kopf after half their effects; two deleters of one pod; a stop that waits for
a queue nobody empties; a cleanup acting on an old list.  Correct means: no recorded
machine is forgotten; Completed is only true; every pod of a machine return is deleted
before the return is complete, and recorded under the right id; cleanup deletes nothing
with live pods.

## 2. Plan and modules

| module | what it is | state |
|---|---|---|
| `GceStatus`, `GceMachines` | store, commands and daemon callbacks of hf-gce | done |
| `GceProperties`, `MCGce` | its properties, its small instances | done |
| `GceProofs` | its types, `CloudInv` | done |
| `GceReturnProofs` | returns, answers, what failures leave behind | done |
| `MachineLife` | abstract: what any host provider promises about machines | done |
| `GceLifeProofs` | hf-gce implements `MachineLife`; quiet days; callbacks that wait | done |
| `DaemonLock`, `DaemonLockProofs` | launch, lock file, pids given out again, kills | done |
| `SymphonyObjects` | the Kubernetes objects and the cluster (external) | done |
| `StatusWorker` | queue and status worker, over the objects | done |
| `ResourceHandlers`, `ReturnHandlers` | the handlers, over the worker's queue | done |
| `CleanupWorker` | the cleanup, over the objects | done |
| `GkeProvider` | the hf-gke commands, over all of the above | done |
| `SymphonyOperator` | the composition: process, crash, stop, fairness | done |
| `OperatorProperties`, `MCOperator` | its properties, its small instances | done |
| `OperatorTypeProofs`, `OperatorProofs` | types, `OperatorInv` | done |
| `OperatorFailureProofs` | what failed calls and ended processes can cost, and what is not lost without them | done |
| `OperatorLifeProofs` | the operator and hf-gke implement `MachineLife` | done |

Worth doing next: what an operator may lose of `Attributed` once calls fail (a bound in the
number of failures, as `CompleteMeansAll` has one); what `DeletionNotLost` becomes with
batches of more than one, where `operator_batch` shows that it fails; `machineCount` 0; the
phases of the single machines of a return, which the answers do not use today.

## 3. The models

A definition whose name begins with `Slip` is a plausible mistake in the definition that
follows it (a dropped guard, a forgotten column, a swapped order).  No action uses it: each
has been put in place of its original to confirm that a property fails.

### hf-gce

`GceStatus` holds the numbers of `MachineState` (the code compares them with `<` and `<=`),
the shape of a row, the result of one machine under each evaluator, and the reduction over
the rows of a request.  `GceMachines` is the system.

| variable | in the program |
|---|---|
| `rows` | the table `machines`, a function from the names that have a row.  A row keeps `request` (also its `operation_id`), `ret` (`return_request_id`), `state`, `ip` (internal_ip IS NOT NULL), `grace` (delete_grace_period IS NOT NULL), `expired` (the time to live has passed since `updated_at`) |
| `reqPc`, `batch`, `igm` | each `request_machines` call: where it is, the names it made up, the group of its template |
| `retPc`, `asked`, `todo`, `sent` | each `request_return_machines` call: where it is, the names it was given, the rows read and not dealt with, the group whose deletion was accepted and is not yet stored |
| `vm` | the instances in the cloud (external) |
| `events` | what the subscription has published and not seen acknowledged (external) |
| `threads` | the callbacks under way in the subscriber's pool, each with its worker and its next step |
| `trimming` | what a `trimDB` command has selected and not yet deleted |
| `crashes`, `lostAcks` | count the faults, up to the bounds `MaxCrashes`, `MaxLostAcks` |

There is one action per database transaction or API call:

- `RequestSubmit` / `RequestStore` / `RequestAnswer` / `RequestFails`: `create_instances`, then
  the commit of the rows, then the answer, which `dispatch_command` prints; or an exception,
  or the end of the process, at any point between these.  Until the answer is printed
  HostFactory knows neither the request nor its machines (`Known`).
- `ReturnRead` / `ReturnSubmit` / `ReturnStore` / `ReturnAnswer` / `ReturnFails`: the names that
  have a row (others are dropped silently), then for each group the API call and the
  UPDATE, then the answer.
- `Handle…` are the handlers that `update_machine_state` chooses from, `Ack` the
  acknowledgement (or its loss), `IpSelect`, `IpFetch`, `IpStore` the three parts of
  `_update_instance_ips` and its retry.  `HandleInstancePreempted` changes nothing: its
  statement has one placeholder per name and one parameter more, so sqlite3 raises, the
  transaction rolls back and nothing is acknowledged.
- `TrimSelect`, `TrimDelete` are the trim after a delete event, in its thread before the
  acknowledgement (or left out by the debounce); `CmdTrimSelect`, `CmdTrimDelete` that of
  the command; `Expire` the passing of the time to live.
- `Vm…` are Google Cloud: an instance is inserted, gets its address, is deleted on request
  or by somebody in the console, is preempted.  Each publishes its event.
- `DaemonStops`: the daemon alone is killed.  `Crash`: the host goes down; threads and
  commands are lost, database and subscription are not.

`Answers(id)` is what `getRequestStatus` prints of an id.  The reducer runs over the rows in
the order in which SQLite gives them, which nothing fixes: the operator is the *set* of
the answers that some order produces.

Abstractions.  The address is present or absent.  Labels are left out.  A batch of up to
1000 deletions is one group.  The stop of `_update_instance_ips` after 1000 attempts is
left out: with its waits of a minute it is most of a day away.  `REQUESTED` and `LOGGED`
are written by no caller, `PREEMPTED` by no statement that succeeds, so these states are
not reachable (`PREEMPTED` has its number, for the property that asks for it).  `delete_operation_id` is written and never read.  Instance names are never
made up twice.  A group and its zone are one value.

Assumptions about Google Cloud.  `create_instances` and `delete_instances` publish an event
that names the instances of the request, also those that were gone already
(`skip_instances_on_validation_error` is set).  A preemption publishes
`compute.instances.preempted`, for which the handler is written; the example filter of
`SYMPHONY_GCE_INSTALL.md` does not export it, so with that filter the event does not even
arrive.

`Orderly = TRUE` describes a quiet day, and is what the liveness properties need: no command
fails, rows are stored before their first event arrives, events of one machine arrive in
the order in which they happened, and HostFactory returns each machine once, and only one
that it was told is usable or was offered.  With `Orderly = FALSE` nothing of this holds.

### The daemon lock

`DaemonLock` has one action per file operation of `LockManager.__enter__` (`CheckFile`,
`ReadFile`, `Probe`, `RemoveStale`, `OpenFile`, `WritePid`) and of `__exit__` (`CheckOwn`,
`Unlink`), besides `Launch` (every command launches a daemon), `ListenEnds`, and the host:
`Kill`, and `ForeignStarts`/`ForeignEnds`, a process of another kind that gets the pid in
the file.  `lock` is the content of the file at the path, `linked` the daemons that have
that very file open: one that was removed meanwhile takes a pid that nobody reads.  The
pid reaches the file only when it is closed, so there is a time when it is empty; of two
that write one file the second overwrites the pid of the first, or leaves something that is
nobody's pid if it is shorter (`Mixed`).  `os.kill` says OSError of a process that has ended
and of a process of another user alike: `Probe` takes a foreign pid for either.

### hf-gke and the operator

| variable (module) | in the cluster or the process |
|---|---|
| `cr`, `available`, `crPhase`, `returned`, `completed` (`SymphonyObjects`) | a GCPSymphonyResource: whether it exists, `availableMachines`, `phase`, `returnedMachines`, the condition Completed |
| `pod`, `deleting`, `rid`, `changed`, `handled` | a pod: its phase, `deletionTimestamp`, label `symphony.returnRequestId`, whether kopf has still to handle its container statuses, whether its delete handler has ended |
| `mrr`, `ids`, `mrrPhase`, `triggered` | a MachineReturnRequest: whether it exists, `machineIds`, `phase`, label `triggerUpdate` |
| `labelled` | objects with the label `symphony.waitingCleanup` |
| `left`, `faults` | history: pods whose deletion has ever begun; API calls that failed so far |
| `queue`, `wPc`, `batch`, `job` (`StatusWorker`) | the queue in memory; the worker's next call, the updates it holds, what it will write |
| `createPc`, `toMake`, `seen`, `fieldPc` (`ResourceHandlers`) | the create handler and the handler of `availableMachines` |
| `retPc`, `due`, `trig`, `todo`, `cur` (`ReturnHandlers`) | the handler of each return (and of the taints of the spot node): its step, whether kopf will run it again, the scheduled trigger, the pods still to delete, the one labelled and not yet deleted |
| `condemned` (`CleanupWorker`) | what the list at hand says is to be deleted |
| `life`, `crashes` (`SymphonyOperator`) | up; told to stop while the worker's `get()` takes one more batch; waiting for the queue; how often the process ended |

One action is one await: in between, everything else of the one event loop, the commands of
the provider and the cluster take their steps.

- `StatusCheck`, `CollectBatch`, then per resource of the batch `GetResource`, `ListPods`,
  `PatchStatus`, `PatchCleanupLabel`.  The batch keeps of each pod the update that Python's
  `max()` returns over a timestamp that no update has: the first.
- `CreateStart`, `CreatePod`, `CreateRaises`, `CreateDone`; `FieldIgnore`, `FieldList`,
  `FieldPatch`; `ContainerStatusHandler`, `PodDeleteHandler`.
- `ReturnCreate`, `TriggerUpdate`, `ReturnUpdate`, `LabelPod`, `DeletePod`, `ReturnLabels`,
  `ReturnStatus`; `TaintNode`, `PreemptionHandler`, `PreemptionDone`.  `except (Exception |
  ApiException)` makes Python raise TypeError wherever it is reached, so that a pod that is
  gone ends the run: `Abort`.
- `CleanupList`, `CleanupResource`, `CleanupReturn`.
- `RequestMachines`, `RequestReturnMachines`; the answers `RequestStatus` and
  `ReturnRequests` are functions of the objects.
- `PodReady`, `PodFails`, `EvictPod`, `PodGone`, `CollectGarbage`: the cluster (external).
- `Crash`, `Stop`, `StopReturns`: what is in memory is lost, what is in the objects stays,
  and `Restart` says what kopf resumes.  While the process is stopping no handler runs; the
  worker goes on with the batch at hand, or with the one that a `get()` under way still takes
  (`stopping`, then `joining`), the cleanup worker and scheduled triggers go on as ever.  With an update left in the queue the stop never returns, since nobody takes it
  out any more: only a kill ends the process.

A call that has used up its retries raises: `Fault`, up to `MaxFaults` times, at every call
where the code does something of its own then.  An `ApiException` that the code catches and any
other exception are different disjuncts where they have different effects: the second makes
tenacity repeat the whole of `_process_consolidated_updates` (`PatchCleanupLabel`), or kopf
the handler (`FieldList`, `FieldPatch`, `PodDeleteHandler`).  Exceptions inside the retries
of one call repeat the call and are a stutter.

Abstractions.  Names, addresses, messages and timestamps are left out; of the conditions
only Completed is kept, the others are read by nobody.  A resource is one made by the
provider (it carries the label of its request id from the start) and asks for the pods
that `Owner` gives it, at least one: resources made by hand and `machineCount` 0 are left
out.  The finalizer of kopf is taken to be on a pod from the start.  A `Failed` pod is one
that the kubelet evicted, with its condition DisruptionTarget.  Whether an object is
expired is a choice.  The phase of each machine of a return is left out: a run that comes
to its end has dealt with every machine.  The two or three reads behind one answer of the
provider are taken as one, and the phase that the provider works out for a resource is
left out: no answer uses it.

### MachineLife

The promise common to both providers, in terms of four sets: machines that are `live`, that
have `left`, that are `known` to the provider, that it has `told` to be returned.  It tells
only of machines that have left; it forgets (`Forget`) only machines that are not there.
`GceProperties!Life` maps `known` to the rows and `told` to the rows that are DELETED;
`OperatorProperties!Life` maps `known` to the pods of the resources there are and `told` to
the returned machines together with those of completed returns.  A late or repeated event
of hf-gce may take a word back, and so may a Kubernetes object that is cleaned up, hence
`Retract`; a create handler that is run again makes pods under names that had left, hence
an `Appear` of machines that have left before.

## 4. What is checked

Each of the passing runs is exhaustive.

| run | instance | properties | what it shows |
|---|---|---|---|
| `gce_faults` | 1 machine, 2 returns, 3 workers, 1 crash, 1 lost acknowledgement, console and preemption, auto trim; symmetry | `TypeOK`, `DbBehindCloud`, `ReturnedNeverOffered`, `OfferedHasGrace`, `CompleteIsTrue`, `OrphansAreFailed`, `WaitersBounded`, `InstanceEventsNeverRegress`, `TrimOnlyGone`, `LifeSpec` | the safety of one row and of the answers about it against every fault at once; an instance that HostFactory does not know of is that of a request that failed; the callbacks that wait are bounded; refinement of `MachineLife` (865,781 states) |
| `gce_groups` | 2 machines, 2 requests, 2 groups, 1 return that may fail; symmetry | `UnrecordedInOneGroup`, `GroupInv`, `CloudInv`, `CompleteIsTrue` | a return over two groups that fails leaves no more behind than one of them; an answer over two rows, in any order, is complete only when both are; the inductive invariants (783,747 states) |
| `gce_orderly` | 2 machines, 2 workers, quiet day, auto trim, 1 crash or 1 lost acknowledgement | `NothingMissed`, `AddressAwaited`, `EventsDrained`, `RunningReported`, `ReturnCompletes`, `QuietDayForward` | the promises to HostFactory on a quiet day, on which no row goes back and every event is handled; what an incident costs, an address, and what it does not (176,585 states) |
| `gce_reordered` | 1 machine, any order | `RunningReported` (violated) | an event that overtakes the store costs the address for ever |
| `gce_console` | 1 machine, quiet day, console | `ReturnCompletes` (violated) | returning a machine that was offered takes its row back to DELETE_REQUESTED |
| `gce_preempted` | the same, with preemption | `PreemptionsRecorded` (violated) | no preemption is ever recorded |
| `daemon_lock` | 3 pids, 1 kill, foreign processes | `TypeOK`, `LockHeld`, `LockInv`, `ListenerReturns` | the lock excludes a second listener as long as no two daemons start at once; however they start, somebody listens again (434,247 states) |
| `operator_faults` | 1 resource, 1 pod on a spot node, 1 return, batches of 2; one crash, stop, failed call or taint | `TypeOK`, `Attributed`, `OperatorInv`, `CompleteReturnTrue`, `CompletedTrue`, `NothingToCollect`, `CompleteMeansAll`, `EntriesStay`, `LifeSpec` | what is recorded and answered is true and stays, also where a return and a preemption compete for a pod; a complete request lacks no more than a machine per failed call; refinement of `MachineLife` (511,131 states) |
| `operator_settles` | 1 resource, 1 pod that may be evicted, fail or be returned, batches of 1 | `DeletionNotLost`, `StatusCaughtUp`, `ReturnEnds`, `StatusSettles`, `DeletionRecorded` | no deletion and no status is lost on the way, and what happens in the end (52,055 states) |
| `operator_batch` | the same, no eviction, batches of 2 | `DeletionRecorded` (violated) | of two updates of a pod in a batch the earlier is kept |
| `operator_completed` | the same, batches of 1 | `CompletedAtLast` (violated) | a resource may never become Completed, hence never be cleaned up |
| `operator_stop` | 1 resource, 1 pod, an orderly stop | `StopEnds` (violated) | a stop that finds an update in the queue waits for ever |

*Bounds of hf-gce.*  One machine is enough wherever a property speaks of one row and the
actors that race for it: rows do not influence each other except through the address
update of one operation and the groups of one return, for which there are two machines
(`gce_orderly`, `gce_groups`).  Two returns are the fewest that can race for a machine.  One
lost acknowledgement and one crash give an event three deliveries.  A callback that fetches
an instance that is gone never ends (`fetch_instance` is retried without a limit) and keeps
its worker: `WaitersBounded` says that there is at most one for each call of
`requestMachines` and one more for each lost acknowledgement, so with one request and one
lost acknowledgement at most two of the three workers of `gce_faults` wait.  The subscriber's
pool has ten by default: ten such callbacks stop the daemon until its timeout.
`EventsDrained` is checked on a quiet day, where an instance can be gone before its address
is fetched only after a lost acknowledgement, which leaves one of the two workers free.

In `gce_orderly` one incident happens, a crash or a lost acknowledgement (`OneIncident`, a
CONSTRAINT).  What it may cost `RunningReported` is in the property, below.

*Bounds of the lock.*  Three daemons are needed for a second to remove the file that a third
has just written.  One kill leaves a stale file, empty or with a pid; that `Wedged` excuses
`ListenerReturns` is what the code does with such a file, not a bound.

*Bounds of the operator.*  `MaxCrashes` and `MaxFaults` are 1 in `operator_faults`, and
`OneIncident` (a CONSTRAINT) lets one incident happen in a behaviour: a failed call, the end
of the process, or the taint of the node.  One pod is enough for what competes for it.  That
two returns overwrite each other's label, as a return and a taint do in the run, and that
calls fail and processes end while they compete, is covered by the proofs, whose `Returns`
and bounds are arbitrary.  One resource is enough for what the
worker, the handlers and the cleanup do to it; that the groups of a batch do not mix up two
resources is covered by the proofs, whose `Crs` and `Owner` are arbitrary.  A queue needs no
bound: each pod adds a bounded number of updates to it.  The proofs of section 5 remove
these bounds for every safety property.

*Symmetry* permutes machines, requests, returns, groups and workers, which are compared for
equality only, and only in runs of hf-gce without liveness properties.

*Deadlock* is checked for the lock.  It is not checked elsewhere, since the systems rest when
nobody asks for anything and everything is handled.

*Fairness of hf-gce.*  A command that has begun goes on; the daemon is launched again after
the next command and Pub/Sub delivers again what was not acknowledged; threads run; the
cloud carries out what it accepted.  There is no fairness for HostFactory's calls, failures,
time, trims that nobody runs, the console, preemptions or crashes.  The address update is
fair per operation, so that one that waits for ever does not excuse another.

*Fairness of the lock.*  Commands keep coming, so daemons keep being launched
(HostFactory polls); a daemon that starts or ends goes on.  It may listen for ever.

*Fairness of the operator.*  The worker, and the handlers taken together, go on: they are
tasks of one event loop whose every await returns, and kopf repeats a handler that raised.
Pods become ready, those that are deleted and handled go away, garbage is collected.  There
is no fairness for HostFactory, evictions, failures, the taint, the cleanup (the time to
retain) and the end of the process.

*Only model-checked*: the liveness properties (`EventsDrained`, `RunningReported`,
`ReturnCompletes`, `ListenerReturns`, `ReturnEnds`, `StatusSettles`, `DeletionRecorded`), which
need fairness and so ENABLED, out of the prover's reach.  Every other property of a passing
run is a theorem.  Of four of the seven the safety half is one too, that what has to come to
somebody's notice is not lost before it does: `NothingMissed` for `ReturnCompletes`, with
`AddressAwaited` for `RunningReported`; `DeletionNotLost` for `DeletionRecorded`;
`StatusCaughtUp` for `StatusSettles`.  What the runs add is that the event, callback or update
which is on its way then arrives.

*Hypotheses inside properties.*
- `UnrecordedInOneGroup` and `QuietDayForward` are about a cloud where nobody else deletes
  instances (`Reclaimable = {}`); the latter, like `NothingMissed`, also about ordered events.
  Without the first a machine may be gone for other reasons than a return, without the
  second the two handlers that have no guard do take rows back (`gce_reordered`,
  `gce_console`).  Crashes and repeated deliveries are included in all three.
- `AddressAwaited` is about ordered events and a daemon that has not died, and
  `RunningReported` excuses a machine after a crash: a daemon that dies after the
  acknowledgement of `createInstances` and before `IpStore` leaves the address out for good,
  since nothing in the code looks for it later.
- `RunningReported` excuses besides, after a lost acknowledgement, a machine one of whose
  operation is gone (`Held`).  A `createInstances` event that is delivered again reads a row
  whose address is still missing; its instance goes away, the thread tries to fetch it for
  ever, and with it the addresses of the other machines of the operation are never stored.
  `AddressAwaited` and `NothingMissed` survive that (somebody seeks the address, in vain) and
  are proved for any number of lost acknowledgements.
- `Attributed`, `DeletionNotLost` and `StatusCaughtUp` are about an operator that has neither
  lost a call nor its process.  Where two deleters compete for a pod, and a create handler
  that is run again makes it anew between the deletion by one and the deletion by the
  other, the new pod is deleted without a label and recorded as deleted by the system; a
  queue ends with its process; a delete handler whose first call fails returns and reports
  nothing.
- `DeletionNotLost` is besides about batches of one update.  The status does not depend on
  which update of a batch is kept, since the worker lists the pods anew, and
  `StatusCaughtUp` holds for batches of any size; the deletion does, which is what
  `operator_batch` shows.
- `CompleteMeansAll` counts: a pod whose creation failed is not tried again, so that a
  complete request may lack one machine for each failed call; a crash or an error that ends
  the handler costs none.

### What the violated runs show

- **An event before its row** (`machines.py:210`, `gce_reordered`).  `createInstances` finds
  no row, is acknowledged, and the address update that follows selects nothing and ends.
  The machine then becomes INSERTED without an address: `executing`, for ever.
- **A deletion confirmed twice** (`machines.py:297`, `gce_console`).  The UPDATE of a group
  deletion has no guard on the state.  For an instance that is already DELETED it goes back
  to DELETE_REQUESTED, and no event follows that would end the return.
- **The update that is kept** (`status_update.py:235`, `operator_batch`).  `UpdateEvent` has no
  timestamp, so `max()` keeps the first of a pod's updates where the comment says the
  latest.  When a pod becomes ready and is deleted before the worker gets to it, the
  deletion is lost: the machine is never told to be returned.
- **Completed** (`resource_update.py:35`, `operator_completed`).  It is set only when
  `availableMachines` falls from a positive number to 0.  A machine returned before it was
  counted never makes it positive; and the worker writes the whole list of conditions from
  a copy it read some calls earlier, and may so take Completed away.  Such a resource is
  labelled for cleanup and never cleaned up.

- **Preemptions** (`machines.py:363`, `gce_preempted`).  The statement has one parameter too
  many and always fails: the event is never acknowledged, and HostFactory is told of a
  machine that is gone as of one that is there.  Nothing in the example filter of
  `SYMPHONY_GCE_INSTALL.md` exports the event, so the failure does not show there.
- **Stop** (`status_update.py:464`, `operator_stop`).  `stop()` ends the worker and then waits for
  the queue to be empty.  An update that comes after the worker's last batch is never taken
  out: `kopf_cleanup` hangs before it has told the cleanup worker to stop.

One more disagreement of code and documents, seen in the model and not given a run of its
own: `docs/architecture/README.md:195` says a request is stored before the API is called;
the code (`request_machines.py:70`) calls first, and a crash or error between the two leaves
instances that nothing will ever return; `OrphansAreFailed` says that nothing else does,
but for a command that dies after its commit and before its answer.

## 5. What is proved

All is proved of `Spec`, without fairness, for arbitrary constants: any sets of machines,
pods, requests, returns, resources, groups, workers and pids, any bounds on faults.  The
assumptions are those the modules name: `GceAssumption` (ids of requests and returns differ
from each other and from NULL; bounds are numbers), `LockAssumption` (what a lock file can
hold besides a pid is no pid), `ObjectsAssumption` (every pod has an owner; the ids differ;
there are finitely many pods), `WorkerAssumption`, `ReturnAssumption`, `OperatorAssumption`
(sizes, bounds and the spot node are of their types).

**hf-gce.**
- `GceProofs!TypeCorrect`: `Spec => []TypeOK`.  Lemmas say of each SQL statement that it
  leaves a table of rows, of each step of a callback that it leaves a callback; then one
  lemma per actor.
- `GceProofs!CloudInvariant`: `Spec => [](TypeOK /\ CloudInv)`.  `DbBehindCloud` alone
  is not inductive: a handler believes its event, a callback writes addresses it fetched
  some transactions ago, a trim deletes by name what it selected before.  `CloudInv` adds
  that all of these are true of the cloud: an event says what has happened (`EventTrue`), a
  callback holds addresses of instances that got one and trims names of instances that
  are gone (`ThreadTrue`), batches exist.  It is inductive because these facts are of the
  kind that only become true (`VmForward`): staleness and repetition cannot hurt it.  What
  can hurt is an UPDATE that claims more than its event, and each statement has its
  conjunct in `StatementsTrue`.
- From it: `DatabaseBehindCloud`, `OffersValidate` (no row is offered without the grace period
  its int field needs), `TrimsOnlyGone`.
- `GceReturnProofs!ReturnsNotOffered`: `Spec => []ReturnedNeverOffered`, by `ReturnInv`: batches
  are disjoint (names are new), a machine can be returned only when its row was stored,
  hence no row of a returned machine is ever inserted later; and until the return has
  dealt with a machine it is in `todo`.
- `GceReturnProofs!InstanceEventsForward`: `Spec => InstanceEventsNeverRegress`.  The two other
  events have no such theorem: `createInstances` and `deleteInstances` do take rows back,
  which is what `gce_reordered` and `gce_console` show.
- `GceReturnProofs!CompleteAnswersTrue`: `Spec => []CompleteIsTrue`, by `AnswerInv`: a row that
  HostFactory knows leaves the table only after its instance has left, and a machine that a
  return has dealt with is leaving.
- `GceReturnProofs!OrphansOfFailures`: `Spec => []OrphansAreFailed`.  `MadeInv` says that every
  instance is in the batch of a request that got as far as the cloud; with `AnswerInv`, that
  request cannot have been answered unless the instance has its row, and is known, or is
  gone.
- `GceReturnProofs!GroupInvariant`: `Spec => []GroupInv`, and from it
  `LostInOneGroup`: `Spec => []UnrecordedInOneGroup`.  The
  witness is a function from returns to groups, which the proof carries from step to step:
  it is changed for a return only when that return sends a group, and at that moment what
  it had sent before is all recorded (`sent` is empty, and what is neither in `todo` nor in
  `sent` has its id).  When it fails the function stays as it is, for good.
- `GceLifeProofs!ImplementsMachineLife`: the initial state maps to an initial state, and each
  action to one step of `MachineLife` or a stutter, case by case from `CloudInv`: a delete
  event is a `Tell`, `deleteInstances` a `Retract`, a trim a `Forget`.  `ToldTruthfully`
  follows: what `MachineLife` promises in every state holds of hf-gce.
- `GceLifeProofs!QuietDaysForward`: `Spec => QuietDayForward`, by `QuietInv`: on a quiet day
  there is never an event that would take a row back, nor will there be one, since a machine
  is asked of one return only, and sent by it only once.
- `GceLifeProofs!QuietDaysMissNothing`: `Spec => []NothingMissed`.  It rests on the theorem
  before it: what a row says on a quiet day it says for good, so that an acknowledged event
  need never come again.  What else is needed is that events speak of the batch they were
  published for (`HeardInv`), that none has been acknowledged for a machine whose row is
  still to be made (`ToldInv`), that only machines that run are returned (`AskedInv`), and
  that a callback past its handler has its effect in the rows (`StoredInv`), which a crash
  before the acknowledgement leaves there while the event stays.
- `GceLifeProofs!AddressesAwaited`: `Spec => []AddressAwaited`, by `SeekInv`.  The hard step is
  `IpStore`, which may take away an address that another callback has stored: it is then
  this very callback that seeks it on.  `SeekInv` says that whatever a callback has fetched
  is a machine of its own event, whose row it finds CREATED or further.
- `GceLifeProofs!FewWait`: `Spec => []WaitersBounded`, by `PoolInv`, an invariant about
  cardinalities: an acknowledgement turns an event that counts into a callback that counts,
  and one that is lost leaves both, and adds one to the bound.  For that no two callbacks may
  have the same event to acknowledge, nor one an event that is gone (`HeldOnce`).

**The daemon lock.**  `DaemonLockProofs!LockInvariant`: `Spec => []LockInv`, and from it
`ListenerHoldsLock`.  As long as no two daemons ever started together, at most one is between
its first look at the file and its pid in it; once it has found the file absent or
stale nobody else listens, and the file is its own until it has written it.
`DeadForEver` proves the exception that `ListenerReturns` makes to be one: once the file is
empty, nobody has it open, and nobody is past the look at it, no daemon ever listens again.
TLC reaches such a state with one kill.

**The operator and hf-gke.**
- `OperatorTypeProofs!TypeCorrect`.  It needs `BatchKept`: exactly while the worker is at a
  resource it has an update at hand, whose owner that resource is.
- `OperatorProofs!OperatorInvariant`: `Spec => []OperatorInv`.  Its parts follow an
  entry of `returnedMachines` back to where it comes from: a label is that of who asked
  (`LabelsInv`), an update carries such a label and is about a pod that is leaving
  (`UpdatesInv`), what the worker is about to write has no other entries and misses none
  that is there (`JobInv`), so that what is there stays right (`ReturnedTrue`).  `FinishedInv`
  does the same for Completed: whoever has once found a resource without pods, after its
  create handler had ended, stays right about it, however old the finding is when it is
  used.  `RunsInv` says of a return's run that each of its machines has left, is still to be
  deleted, or is the one at hand.
- From it: `ReturnedIsTrue` (`ReturnedTrue` is model-checked as a conjunct of `OperatorInv`),
  `CompletedIsTrue`, and, with `CleanedInv` (what the cleanup has
  listed or taken was completed when it was listed, and stays so), `CompleteReturnIsTrue`.
- `OperatorFailureProofs!NothingIsCollected`: `Spec => []NothingToCollect`, from `FinishedInv`.
- `OperatorFailureProofs!CompleteIsAll`: `Spec => []CompleteMeansAll`, by `UnmadeInv`: of the
  pods that a create handler has dealt with, no more were never made than calls have failed.
  It is an invariant about cardinalities: a step that swallows an error adds one pod to the
  one side and one call to the other, and a handler that starts again takes all its pods
  back.  When the answer is complete, whatever is listed runs, whatever is gone has left,
  and so what is missing was never made.
- `OperatorFailureProofs!AttributedToReturns`: `Spec => []Attributed`, by `LabelFirstInv`: while
  nothing has failed pods are made once, before anybody deletes them; a pod has its label
  before it is deleted, and none is ever made anew without; so whatever is on its way into
  `returnedMachines` has the id of a return or of the preemption.
- `OperatorFailureProofs!DeletionsNotLost`: `Spec => []DeletionNotLost`, by `DeletionInv`.  A
  pod's deletion goes from its delete handler into the queue, from the queue into the
  batch, from the batch into what the worker will write, and from there into the status;
  `BatchNoted` carries it over the calls between these.  With one update to a batch nothing
  else of the pod can take its place, and the worker writes no entry away, since nobody
  else writes `returnedMachines` between its reading and its patch.
- `OperatorFailureProofs!StatusCatchesUp`: `Spec => []StatusCaughtUp`, by `CaughtUpInv`: while
  the worker holds the answer to its list of pods, any change of them is reported behind
  its back, so that what it writes is either true of the pods there are, or has its
  correction in the queue or still with kopf.  The strengthening is that a pod of which
  kopf has a container status to handle is not being deleted.
- `OperatorLifeProofs!EntriesAreKept`: `Spec => EntriesStay`.
- `OperatorLifeProofs!ImplementsMachineLife`: as for hf-gce; the deletion of pods is a `Leave`,
  the patch of a status or the end of a return a `Tell`, the cleanup of a resource a `Forget`
  (by `FinishedInv` it has no live pods), that of a return a `Retract`.  `ToldTruthfully`
  follows as for hf-gce.

## 6. Running it

    tlc -workers 2 -config gce_faults.cfg MCGce
    tlc -workers 2 -config operator_faults.cfg MCOperator
    tlc -workers 2 -config daemon_lock.cfg DaemonLock
    tlapm OperatorFailureProofs.tla
    tlapm OperatorLifeProofs.tla

Each of the runs takes from a few seconds to three minutes on two cores; the proof modules
take a few minutes together.

## 7. Not modelled

- *Instance labels* (`utils/instances.py`): best effort, after the addresses; failures are
  logged, and no state of the provider depends on them.
- *Configuration, manifests, health files and servers, profiling, command-line parsing,
  template files, shell wrappers, packaging*: pure I/O or data without control of their
  own.  Their settings that change behaviour are constants (`AutoTrim`, `BatchSize`) or
  choices (time to live, time to retain).
- *Resources made by hand*, which get their request id from the create handler, and
  `machineCount` 0, which makes as many pods as the default minimum.
- *The status worker's other conditions*, the phases of single machines of a return, events
  and messages: read by no part of the system.
