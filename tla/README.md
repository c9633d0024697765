# A TLA+ model of scylla-operator

These modules model the parts of scylla-operator in which an order of events
nobody wrote a test for can cost data, stop an operation for good or leave
objects behind: scaling, upgrades, bootstrap, node replacement, cleanup,
certificates, the reconciliation of the objects of its controllers, the
translation of ScyllaClusters behind the webhook, the synchronisation with
ScyllaDB Manager, and the setup and tuning of nodes.
`PROJECT.json` lists the components, the runs, the source lines behind each
definition, the hazards and the theorems. Paths below are relative to the
repository; `S`, `V`, `R` and `T` stand for `sync_statefulsets.go`,
`sync_services.go`, `resource.go` and `status.go` under
`pkg/controller/scylladbdatacenter/`.

## The system

scylla-operator runs ScyllaDB on Kubernetes. A ScyllaDBDatacenter has racks, a
rack is a StatefulSet, a node is a Pod with a PVC and a member Service of its
own. The parts do not call each other: they share the Kubernetes API.

| Part | State | Operations | Correct when |
|---|---|---|---|
| ScyllaDBDatacenter controller: StatefulSets (`S`) | none of its own; reads caches once per sync, then writes | create racks, scale up, request, conclude and hold decommissions, upgrade | no member is scaled away, one operation at a time, every change is carried out |
| the same: Services (`V`) | labels and annotations of member Services | prune Service and PVC of a node that left, create Services, replace nodes | only volumes of nodes that left or are lost are deleted |
| the same: upgrade | the upgrade context ConfigMap, the partition of each StatefulSet | PreHooks, RolloutInit, RolloutRun, PostHooks | one node down at a time, two versions at most, each node backed up, snapshots removed, it ends |
| the same: certificates (`sync_certs.go`, `pkg/kubecrypto`) | Secrets and ConfigMaps | issue and rotate CAs, bundles and leaves | what is served is trusted and valid at every moment |
| the same: cleanup (`sync_jobs.go`) | Jobs and hash annotations | run a cleanup after the ring changed | a node marked clean is clean, each node is cleaned up in the end |
| sidecar, in each Pod (`pkg/controller/sidecar`) | none; reads the Service and ScyllaDB | decommission, confirm by label, publish HostID and token ring hash | a node is confirmed only when it has left |
| bootstrap barrier, status reports, seeds (`pkg/controller/bootstrapbarrier`, `statusreport`, `pkg/sidecar/identity`) | a report per node | hold a new node until the others are up; choose seeds | one cluster forms, nobody waits for ever |
| orphaned PV controller | none | label the Service of a node whose host is gone | only dead nodes are replaced |
| read-your-writes client (`pkg/ctrlclient`) | resource versions of the process's own writes | cached reads that wait for them | a read after a write sees it |
| probe server (`pkg/probeserver`) | none | readiness and liveness | a drained node is not ready and not killed |
| resource apply, prune, controller tools | the managed-hash annotation | create, update, recreate, refuse, delete; event handlers, conditions | objects of others untouched, no change slept through, status true |
| monitoring, NodeConfig, NodeConfigPod, global manager controllers | status of their objects | render and apply | applied state follows the spec |
| ScyllaCluster controller (`pkg/controller/scyllacluster`) | status, annotations | translate, release old objects, move conditions between generations | the status is about the spec it names |
| validating webhook (`pkg/api/scylla/validation`) | none | admit or refuse a write of a spec | no spec is admitted that the controllers cannot carry out safely |
| node setup daemon, on each node (`pkg/controller/nodesetup`, `nodetune`) | status conditions of the NodeConfig | lay out disks, mount, run tuning Jobs | no data is formatted away, the node comes to what is asked |
| ignition, in each Pod (`pkg/controller/ignition`) | the ignition file | hold ScyllaDB back until node and container are tuned | ScyllaDB starts tuned, and starts |
| manager registration and task controllers | ids in statuses, finalizers | create, adopt, update, delete in ScyllaDB Manager | nothing left behind, nothing taken over unasked |
| StatefulSet controller, kubelet, ScyllaDB, ScyllaDB Manager (external) | Pods, volumes, ring, tasks | create, delete, restart, join, leave, drain | as the operator relies on them |

What is hard: a sync works from caches that lag, several writers (user, sidecar,
StatefulSet controller) move the same objects, every write can be refused, lost
or cut off by a crash, some calls (PVC deletion, recreation) have no
precondition, and the steps of a lifecycle span many syncs with no state but
labels.

## Modules

| Module | Models |
|---|---|
| `RackMembership` | abstract: what scaling promises of a rack's size and volumes |
| `RackScaling` | one rack: the user, the controller call by call, caches, sidecars, StatefulSet controller, ScyllaDB |
| `Upgrade`, `MCUpgrade` | all racks of a datacenter: the rollout wait, the upgrade phases, the hooks call by call; the versions of the images for TLC |
| `ClusterBootstrap` | barrier, status reports, choice of seeds, bootstrap of all nodes |
| `NodeReplace` | orphaned PV controller and node replacement of one node |
| `Certificates` | certificate chains of a datacenter over time |
| `CleanupJobs` | ring hashes, cleanup Jobs and marks |
| `ObjectGraph` | the vocabulary in which a controller's objects are described |
| `DatacenterObjects`, `MonitoringObjects`, `NodeConfigObjects` | the description of five controllers: stages, what each make function reads, what wakes them |
| `Reconcile` | any of them against the API server, call by call |
| `Admission` | what the webhook admits of the specs of ScyllaClusters and ScyllaDBDatacenters |
| `ClusterTranslation` | ScyllaCluster to ScyllaDBDatacenter and back, and a rack that comes and goes |
| `ManagerSync` | registrations and tasks against ScyllaDB Manager |
| `NodeDaemon` | a controller of the node setup daemon and the NodeConfig whose status it writes beside others |
| `NodeStorage` | array or loop device, filesystem and mount unit of one node |
| `NodeTuning` | tuning Jobs, the ConfigMap of the Pod, ignition, kubelet |
| `NodeSetup` | composes the last three |
| `RackScalingProofs`, `UpgradeProofs`, `CertificatesProofs`, `ReconcileProofs`, `ClusterTranslationProofs`, `ManagerSyncProofs`, `NodeSetupProofs` | theorems about the module of that name, for every value of its constants: see Proofs |
| `NodeLifecycleProofs` | the same about `ClusterBootstrap`, `NodeReplace` and `CleanupJobs`, which it extends all three; no theorem is about two of them |

### RackScaling

State: `spec`, `sts` (replicas and resource version) and `svc` (uid and
decommissioned label of each member Service) are the API objects; `cspec`,
`csts`, `csvc` the controller's caches; `snap` what the sync in progress read;
`owed` the Services whose own writes the cache has yet to show; `pod` and `disk`
the node's operation mode and what its PVC holds; `doomed` the PVCs with a
deletion timestamp that a Pod still uses.

One sync is a sequence of steps: `StartSync` reads everything; one of `ScaleUp`,
`NothingToScale`, `HoldRack`, `GateStatefulSets`, or `BeginRequests`,
`RequestDecommission` for each node and `ConcludeDecommission` (this is
`syncRackDecommission` and the scaling loop); then, whatever came of it,
`RecheckService`, `PrunePVC` and `PruneService` for each prunable Service
(`pruneServices`), `EndPrune`, `ApplyService` for each required Service and
`EndSync`. Every write can be refused, and writes of Services and PVCs can be
applied with the answer lost; `Crash` forgets the sync at any step.
`GateStatefulSets` stands for all early returns above the scaling loop.

Reads: the list of Services waits until `owed` is empty, as read-your-writes
makes it. The list of StatefulSets waits for nothing, because the scale
subresource write records the version the object had before the write (the
answer is decoded into the Scale body, `S:770`, `S:956`).

Abstractions. An informer jumps to the latest state instead of showing each
version. The sidecar reads its Service live; its update is conditional, so an
old read would only be refused. The StatefulSet controller acts on the current
replicas. Writes of other fields (annotations, status) that could cause
conflicts are refused calls, counted as faults. A Service that the cache shows is
up to date for `ApplyService`, since its labels come from the cached object.
Node names, conditions and events are left out. Pods are created and deleted one
at a time, lower ones ready, unless `Parallel`.

### Upgrade

State: `image` in the spec, `ctx` the phase in the upgrade context, `sts` the
StatefulSet of each rack with the status fields that `IsStatefulSetRolledOut`
reads, `maint` the maintenance labels, `pod`, `ready` and `ran` the nodes, `data`
and `system` the snapshots, and the sync in progress (`pc`, `want`, `rack`,
`failed`, `changed`).

`StartSync` passes the wait for all racks (`S:975`) and dispatches on the phase.
`Maintain`, `Drain`, `SnapshotData`, `Unmaintain`, `DeletePod`, `LowerPartition`
are the calls of one turn of RolloutRun; `Abort` ends the sync before any of
them. `InitRack` applies with the resource version the sync read, so a rack in
`changed` conflicts. `ApplyStatefulSet` is the direct update of a patch release.

Abstractions. The status of a StatefulSet is written from the Pods in one step
and is stale from then on. A scale-down or a scale-up is one step here. All
snapshots of one upgrade have one tag per kind; the system snapshot is per node,
the data snapshot per keyspace. The default branch that resets an unknown phase
is left out. Missing schema agreement is an `Abort`.

### ClusterBootstrap

A node is its rank (creation time of the Service, then name). `phase` says where
its Pod is (absent, at the barrier, in its containers, joining, up), `cluster` whose data
its volume has, `report` and `published` are the annotations of the Pods and the
assembled ScyllaDBDatacenterNodesStatusReport, either of which may be old. A node
lists the Pods there are, ranks them and takes seeds (`getDCSeedCandidates`,
`FallbackSeeds`); the barrier evaluates `isBootstrapPreconditionSatisfied` on what
is published. Containers restart and Pods are deleted at any point (`faults`). Host
IDs are the nodes: none is replaced here. Its specification is `BootstrapSpec`.

### NodeReplace

`svc` carries both labels, the HostID annotation and a resource version, `seen`
and `written` the cache and the read-your-writes bound, `pvc`, `pod` and `memberIDs`
the volume, the Pod with the flag it was started with, and the members this node
has in the cluster. The sync is one action per call: `DeletePVC`, `EvictPod`,
`RecordReplacing`, `FinishReplace`. The orphaned PV controller finds
(`FindOrphan`) and labels (`LabelOrphan`) in separate steps. It finds with the claim
of its cache, `claim`, which is of any age (`ObserveClaim`), and patches the Service by
name, whatever volume there is by then. `mislabelled` records that the label was set
for a claim that had gone; `MaxStale` bounds the finds from an old claim.

### Certificates

Two of the chains of `syncCerts` (client and serving), each a CA Secret, a bundle
ConfigMap and a leaf Secret, written in the order of `ManageCertificates` from
the objects listed at the start, then the connection config. Time is a counter;
`needsRefresh` compares it with the refresh age and the last fifth of the
validity. `MaxGap` is the assumption that some sync succeeds every so often
(resync and the requeue for the earliest expiry); without it nothing stays valid.

### CleanupJobs

A token ring is its set of members and a hash stands for a ring. `extra` is the
data a node still holds for members that joined after it, per keyspace. The
sidecar writes the hash, `ApplyService` takes over the hash of a completed Job,
`PruneJob` and `ApplyJob` delete, create and recreate Jobs by name, and the Pod
goes through the keyspaces (`Cleanup`) and exits with the errors collected.
`Guest` members are other nodes of the datacenter, whose own cleanup is not
followed. Its specification is `CleanupSpec`. Removing a guest gives its data back to the others, and it never returns
with the same tokens.

### Reconcile and the descriptions

A controller is described by data: its inputs (`roots`), objects, stages, which
stage waits for which input, which workload's status a stage reports on, which
event queues the key (`wakes`), and for every object the inputs that its make
function reads. An object's content is the tuple of states it was rendered from.
`Reconcile` gives this one semantics: informers with items delivered in any order
(at most `MaxLag` old at a time), the work queue, `List`, `Prune` and `Apply` with
create, refuse, skip, update and recreate, aggregated conditions, the status
update, edits and deletions by others, other owners of a name, refused calls and
restarts. The behaviour picks the controller in its initial state. A sync is at a
step `pc`: a stage and the number of its objects that are applied.

Two assumptions say what every description is, so that the proofs need no other fact
about the five. `WellDescribed`: names differ, nothing refers to an item that is not
there, a stage waits for earlier ones and applies the workload it reports on.
`WellWired`, which only `NoWakeupIsLost` needs, is about the event handlers: the spec
wakes the controller; an object whose events wake nobody is rendered from nothing and
nothing depends on it; an object through which the events of an input are resolved
(the Pod of a ConfigMap, say) is applied whatever becomes of that input. TLC evaluates
both for all five in `controllers`.

Options that are edits of a spec (`ingress`, `setup`, `labelled`, `managed`) switch
objects on and off, which is what makes pruning happen.

### ClusterTranslation and Admission

`live` and `cache` hold the ScyllaCluster, the datacenter, the tasks, an object
that an older operator left, and the upgrade ConfigMap. Spec, annotations and
tasks are numbered versions; some fields of a ScyllaCluster become annotations of
the datacenter and do not bump its generation, which is why conditions are moved
between generations. The datacenter's controller appears as `DatacenterSync` and
`RollOut`, with the StatefulSet of one rack (`rack`). Every write of a spec, the
user's and the controller's, is one `Admission` admits.

A behaviour has one `topic`: the takeover from an older operator, edits of a CPU
limit and its annotation, a rack that is scaled and removed, or a datacenter
without a ScyllaCluster whose rack the user edits himself. Each brings its own
edits and bound, as no rule relates the fields of two topics. Faults belong to the
first and the last.

`DatacenterSync` works and reports from `copy`, the oldest datacenter and StatefulSet
that its informers may still show, or from what is there. The read-your-writes client
brings `copy` up to its own writes, the report included, but not up to a scale
(`Scales`), which only the resource version guards. A report is refused when the
datacenter has changed. A copy from between the two is a sync taken earlier whose report
was lost. `misreported` records that the last report misses a node. The answers of its
writes are not lost here; `RackScaling` has that.

### ManagerSync

Both controllers run beside each other, each with its own queue and its sync cut
at every call: `cluster` and `tasks` are the Manager's state, changed by calls that
may fail, may take effect and lose their answer, and by others. Statuses hold the
ids, finalizers wait for the deletion. Names are fixed, so at most one task of the
name; schedules and properties are a hash. `lost` remembers the objects whose task was
removed, by others or with its cluster: the owner of the task, and the object that was
about to adopt it. `NoStrayTaskUnlessRemoved` also holds with two faults (11.6
million states); the proof is for any number.

### NodeSetup

The storage and the tune controller of the daemon meet in the NodeConfig alone.
Each is modelled with the others as writers of its status (`NodeDaemon`: the
`old` copies are refused), and a behaviour has one of the two at work (`part`).

`NodeStorage`: `disk` is what is on the node, `unit` the mount unit, `data`
whether ScyllaDB has written to the filesystem, `plan` the sync in progress. Every
call that changes the node (create and size an image, attach, link, mdadm, mkfs,
write, enable, start, disable and remove a unit) is a step that may fail or be the
last before a crash; `Reboot` takes loop devices and mounts away, and systemd starts
what is enabled.

`NodeTuning`: the Jobs are applied in order, named for the container they tune, and
report into the NodeConfig. The NodeConfigPod controller turns that into the ConfigMap
of the Pod. `view` is what it made the ConfigMap from: its copies of the NodeConfig and of
the Pod's status, each updated by an event of its own, so that the other may be of any
age (`syncConfigMaps`). Ignition decides (`EvaluateIgnition`) and touches the file
(`TouchFile`) in separate steps. The kubelet creates containers and reports them late; a
container may crash, be stopped (preStop removes the file) and its Pod be replaced.
`pod.known` records whether the NodeConfigPod controller knew, when the Pod came, that
optimizations are on. Ignition decides on the Pod's status as it is then: until the first
container an older one has no container ID and does not ignite. That its informer lists
an earlier Pod of the same name from an API server that lags is left out.

## Runs

`n` is the number of ordinals; sizes are distinct states.

| Run | Instance | What it shows |
|---|---|---|
| `rack_sequential` | n = 3, one operation at a time, three edits, one fault | `OneDecommissionAtATime`, `RaiseIsDeferred`. Lower, raise, lower is the shortest history in which a raise meets a leaving node and a new request |
| `rack_parallel` | n = 2, parallel, two edits, one fault, one lost answer, one disruption, fair | `IInv`, `MembersBelowReplicas`, the refinement `MembershipSpec`, `OnlyLeftVolumesDeleted`, `NoPodOnLeftVolume`, `EventuallyConverged`. Two ordinals are a node below and one above |
| `upgrade_safety` | 2 racks of 2, four images of three minor versions, two changes, a fault, a container restart | `OneNodeDown`, `TwoMinorVersions`, `NoSnapshotLeft`, `BackedUpBeforeUpgrade` |
| `upgrade_scaling` | 1 rack of up to 3, two changes, two scales, a fault, Pods in parallel, fair | `EventuallyRolledOut` for upgrades and patch releases nobody disturbs |
| `bootstrap` | 3 nodes in 2 racks, one restart or deletion, fair | `OneClusterWhilePodsStay`, `PreconditionIsExact`, `EventuallyFormed`. Three nodes are a founder, one that joins and one that waits |
| `node_replace` | 3 hosts, two losses, one request, one find from an old claim, two faults, fair | `NoStrayMember`, `FinishedMeansReplaced`, `OnlyLostVolumesDeletedUnlessMislabelled`, `EventuallyReplaced`. Two losses: the host of the new volume goes too |
| `certificates` | time 0..7 over two generations of CAs and leaves, one event, fair | `IssuerTrusted`, `ChainValid`, `CAStays`, `EventuallySettled` |
| `cleanup` | 1 node followed, 1 guest that comes and goes, 2 keyspaces, two faults, fair | `MarkedIsClean`, `EventuallyCleanedUp`. `MarkedIsClean` also holds with two nodes, one keyspace and one fault (10.6 million states) |
| `controllers` | each of five controllers with one change by others and one fault, fair | `NoLostWakeup`, `StatusTruthful`, `ForeignUntouched`, `EventuallyConverged` |
| `translation` | takeover with one task, one edit and one fault; two edits of limits; two edits of a rack; three edits and one fault of a datacenter of its own; fair | `LastingClaimIsTrue`, `RackRemovedWhenEmptyUnlessMisreported`, `EventuallySettled`. Scale to zero and remove are two edits; the third puts the rack back |
| `manager` | one edit, one fault, fair | `NoStrayCluster`, `NoStrayTaskUnlessRemoved`, `AdoptedOnRequest`, `EventuallySettled` |
| `node_setup` | storage: an array or a loop device, two edits, two faults, a status write by others; tuning: two containers, one edit, one fault; fair | `DataKept`, `StartsTuned`, `EventuallyServing`. Two edits take a device out and bring it back, two faults are a crash and a reboot; two containers are a restart or a new Pod |

The proofs lift the bounds of the safety properties they state. For the upgrade two racks show their order and two
nodes per rack the first and the last partition. One edit and one fault, at every
point of every sync, is the smallest history for a change between a read and a
write that depends on it, with a retry after it; what needs more is named under
Known disagreements.

What the properties leave out by name:

- `EventuallyConverged` (rack): a node added above a leaving one (`LeavingIsSuffix`
  broken), a rack that grew back over the Pod of a node that left (`LeftNodeIsHeld`
  broken: the Service was pruned before the Pod was gone, a raised count keeps the
  Pod, and its node never becomes ready, although `V:84` expects a new, empty
  node), a node restarted between leaving and its label (`Unconfirmed`: ScyllaDB
  refuses to start and the sidecar cannot read the mode again), and a Service gap
  that persists (`ServiceGap`). `NodesConverged` also tolerates a Service above the
  node count without a label: it is created when the scale-up was refused, and
  `pruneServices` (`V:133`) keeps it although `V:220` means to delete any excessive
  Service.
- `OneNodeDown` is not a property of `upgrade_scaling`: with Pods in parallel a new
  node starts while another restarts.
- `OneClusterWhilePodsStay`: see `OneCluster` below. `EventuallyFormed` has the same
  exception.
- `EventuallyReplaced`: `LostAgain`, see below.
- `EventuallyConverged` (controllers): a name that another owner keeps, or an input
  that is missing. `StatusTruthful` covers the stages that report on the workload
  they applied; Grafana and Prometheus report on the one they listed.
- `EventuallySettled` (translation): `RefusedForGood`, see below; the status must then
  not claim that the spec is rolled out.
- `OnlyLostVolumesDeletedUnlessMislabelled`: a label that the orphaned PV controller set
  for a claim that had gone, see `OnlyLostVolumesDeleted`.
- `RackRemovedWhenEmptyUnlessMisreported`: a rack that has no entry in the status, see
  `PrunedWhenEmpty`, and one whose last report misses a node, see `RackRemovedWhenEmpty`.
  `LastingClaimIsTrue` leaves out the second as well; a status that only just misses a
  node is corrected by the datacenter's next sync.
- `DataKept`: a loop device that the user took out of the NodeConfig, whose image the
  daemon deletes as documented.
- `StartsTuned`: containers after the first of a Pod, Pods during whose life
  optimizations were off, and Pods that came before the NodeConfigPod controller knew
  that they are on, see below.
- `NoStrayTaskUnlessRemoved`: the tasks of an object in `lost`. They are those that others
  removed from the Manager, and those that went with their cluster when the operator
  itself deleted it.
- `EventuallyServing`: `Stuck`, the three states of the disks listed below.
- `EventuallySettled` (manager): what others removed from the Manager, and a task
  being deleted that waits for the id of a registration never registered.

### Fairness and deadlock

Weak fairness only. The work queue retries every failed sync with back-off (`Sync`,
`SyncStep`, `Controller`, `Operator`), an informer keeps watching (`Observe...`,
`Deliver`), each sidecar has its own queue and resync, and the StatefulSet
controller, kubelet, systemd, Job Pods and ScyllaDB make progress per node. The
controllers of the node daemon and ignition are also woken by the resync of their
informers. Crashes,
refusals, losses and user edits have no fairness and are bounded, so the
properties say: once they stop.

Deadlock is checked in the rack runs and in `node_setup`, where a sync may always
begin. The other runs switch it off: once edits and faults are used up the system
really comes to rest (or, in an upgrade, waits for the user, see below).

## Known disagreements

Statements of the repository that the code does not keep, and the instance in
which TLC shows it. Each is reproduced by a configuration with the constants given;
bounds not named are 0.

- `LeavingIsSuffix` (`RackScaling`, `Spec`, n = 2, not parallel, two changes). The
  write of the scale subresource records the resource version from before the
  write, so the next sync can list the old StatefulSet; a lowered count then
  labels the old top node while a new one is added above it (`S:770`).
  `pkg/ctrlclient/readyourwrites.go:9` says "a read that follows a write in the
  same process returns the written state or newer", and `S:543` that a lowered
  count will "keep them a suffix of the rack".
- `AwaitedServiceAppears` (`RackScaling`, `FairSpec`, n = 2, two changes, one fault).
  A crash after a scale-up and before the Service is created, and a lowered count:
  `S:717` says "Services are managed in the other loop. When informers see the new
  service, will get re-queued.", but the other loop only makes Services below the
  node count.
- `MaintenanceEnds` (`MCUpgrade`, `FairSpec`, 1 rack of 2, images 1.0 and 2.0, one
  change, one fault). When the pre-upgrade hook fails between the maintenance label
  and the deletion of the Pod, the drained node is not ready and the rollout wait
  (`S:983`) blocks the hook for ever. `docs/source/operate/use-maintenance-mode.md:62`
  says "You do not need to manage maintenance mode manually during upgrades", `S:1014`
  "hooks are mandated to be reentrant".
- `PartitionAdjusted` (the same, one change, one scale). `R:1142` says "Make sure we
  adjust if it was scaled in between.", but the adjusted object is only applied past
  the rollout wait, which compares with a negative number and never passes.
- `ContextCleanedUp` (the same, two changes). The image is taken back before the
  partitioning; `docs/source/understand/statefulsets-and-racks.md:87` says "after all
  racks have completed the rollout, the Operator cleans up the upgrade context."
- `BackupIsComplete` (the same under `Spec`, one change, one fault). A backup that
  failed after the first keyspace is taken for a complete one on the retry (`S:98`);
  `docs/source/understand/statefulsets-and-racks.md:84` says "take system and data
  snapshots on each node for rollback safety". That page also has the data snapshots
  on all nodes ahead of the rollout; they are taken node by node within it.
- `OneCluster` (`ClusterBootstrap`, 2 nodes, 2 racks, parallel, barrier). Nodes that
  list their candidates before the other's Pod exists each found a cluster: a Pod
  that is missing is not ranked. The same after the deletion of a Pod.
- `EventuallyHealthy` (`NodeReplace`, the constants of `Replace.cfg`). The host of the
  new volume is lost before the replacement ends; the finish branch (`V:363`) waits
  for a Pod that cannot become ready.
- `RaiseIsDeferred` and `OneDecommissionAtATime` (`RackScaling`, the constants of
  `RackSequential.cfg` with one lost answer). A label whose answer is lost is written,
  but the read-your-writes client does not record it; the next sync may read the Service
  without its label, and scales or requests another node to leave.
  `docs/source/operate/scale-add-remove-racks.md:32` says "The next decommission starts
  only after the previous node's Pod is gone, and no rack in the datacenter scales up or
  down in the meantime."
- `NoStrayMember` without the barrier (`NodeReplace`): the eviction precedes the label
  (`V:321`).
- `OnlyLostVolumesDeleted` (`NodeReplace`, `Spec`, 2 hosts, barrier, one loss, one find
  from an old claim). The orphaned PV controller reads claim and volume from its cache
  and patches the Service by name (`pkg/controller/orphanedpv/sync.go:140`). A claim from
  before the replacement sets the label again when the replacement has ended, and the
  volume of the new node is deleted.
  `docs/source/operate/replace-nodes.md:27` says that the condition is a volume that
  "references a node that no longer exists".
- The nil DaemonSet (`Reconcile`, `FairSpec`, `EventuallyConverged`, Controllers
  {"nodeconfig"}, Perturbed {"spec"}, Options {"setup"}, Fresh and Foreign empty, one
  event, MaxLag 2). When a NodeConfig asks neither for a disk setup nor for
  optimizations, `makeNodeSetupDaemonSet` returns nil
  (`pkg/controller/nodeconfig/resource.go:301`), Prune calls `GetName` on it
  (`pkg/controllerhelpers/prune.go:38`) and panics in every sync. The apply loop says
  what is meant, "if ds == nil { continue }" (`sync_daemonsets.go:52`).
- Inputs that are read and not watched (`Reconcile`, `NoLostWakeup`): the Secret of
  `customConfigSecretRef` ("custom" in Perturbed), the RoleBindings of a monitoring
  ("prometheus.RoleBinding"), the Pods of a node that a NodeConfig no longer selects
  ("selecting"). Only a resync or another event repairs them. The RoleBinding needs no
  one else: with Controllers and Fresh {"monitoring"}, Perturbed {"spec"}, Options
  {"managed"}, one event and MaxLag 2, an edit that takes the Prometheus away and comes
  while the RoleBinding is created is carried out before the cache shows it, and it stays.
- `StatusTruthful` (`Reconcile`, Controllers and Fresh {"nodeconfig"}, Perturbed {"spec"},
  Options {"setup"}, one event, MaxLag 3): the DaemonSet is created, the setup is switched
  off before the cache shows it, and the status of the new generation settles while the
  DaemonSet of the old one runs. Once the cache shows it, Prune panics as above.
- `ForeignUntouched` with "dc.StatefulSet" in Foreign and three events (`Reconcile`):
  a recreate deletes by name, without the uid of the object whose owner was checked
  (`pkg/resourceapply/helpers.go:337`).
- `UpgradeMigrated` (`ClusterTranslation`, `Spec`, no tasks, Upgrading "PreHooks",
  RackStart {1}, MaxLag 2). `pkg/controller/scyllacluster/sync_scylladbdatacenter.go:31` says
  "Before we create the migrated ScyllaDBDatacenter, we have to make sure the ongoing
  upgrade state is migrated to new ConfigMap which holds it.", but it tests the
  datacenter for nil, and the generated client answers NotFound with an empty object
  (`vendor/k8s.io/client-go/gentype/type.go:157`): the phase of an upgrade in progress
  is not saved.
- `RackRemovedWhenEmpty` (`ClusterTranslation`, `Spec`, the constants of
  `Translation.cfg`). A rack that goes from 0 to 1 node, back to 0 and away: the sync of
  the third edit may still read the StatefulSet of before the scale, which is not awaited
  (`S:770`, `S:956`), reports no nodes at the current generation
  (`pkg/controller/scylladbdatacenter/status.go:84`), and the webhook admits the removal.
  The StatefulSet is deleted with the node in it (`S:349`). The webhook says "rack %q can't
  be removed because it still has members that have to be scaled down to zero first"
  (`scylladbdatacenter_validation.go:465`), and
  `docs/source/operate/scale-add-remove-racks.md:208` "wait for decommissioning to finish,
  and only then remove the rack".
- `PrunedWhenEmpty` (`ClusterTranslation`, `Spec`, no tasks, OwnEdits 3, one fault,
  RackStart {1}, MaxLag 2). The v1alpha1 validation skips a removed rack that has no
  entry in the status (`scylladbdatacenter_validation.go:470`), where v1 refuses. A rack
  that was added, scaled to zero and removed before its status was written may have a
  node that joined in its StatefulSet, which is deleted.
- `RefusedForGood` is reachable (`ClusterTranslation`, `Spec`, RackStart {0},
  RackEdits 3, MaxLag 2). The webhook admits the removal of a rack from a ScyllaCluster
  on the status of an older datacenter: 0, 1, 0 and removed, of which the datacenter
  saw only the 1, and now refuses the removal for ever. The same when the annotation
  that allows a lower CPU limit is removed before the controller applied the limit, or
  when a field is malformed that v1 does not look at (capacities, names of referenced
  objects, labels, images): the ScyllaCluster is admitted and never carried out.
- `SettledMeansRolledOut` (`ClusterTranslation`, `Spec`, no tasks, SpecEdits 1,
  RackStart {1}, MaxLag 2): a
  condition of an older spec is moved into the current generation
  (`pkg/controller/scyllacluster/sync.go:282`); the next sync corrects it.
- `NoStrayTask` (`ManagerSync`, one edit, two faults): a task removed behind the
  operator's back and made again, whose id was not saved, is not found by the
  finalizer (`pkg/controller/scylladbmanagertask/sync_manager.go:256`).
- A restarted container starts untuned (`NodeTuning`: `StartsTuned` without
  `pod.first`, two containers). The file is removed by preStop, which is not run when
  the container crashes, and ignition may touch it again on an old Pod status.
  `docs/source/understand/ignition.md` says "This ensures that if the container restarts
  (due to a crash or rolling update), the ignition controller must re-evaluate all
  prerequisites".
- `StartsTunedOnceEnabled` (`NodeSetup`, `Spec`, two containers, TuneEdits 1, TuneFaults
  1). Optimizations are enabled and then a Pod comes; the NodeConfigPod controller makes
  its ConfigMap from a NodeConfig in its cache that has them disabled
  (`pkg/controller/nodeconfigpod/sync_configmaps.go:36`, `:74`), which blocks nothing. A
  NodeConfig that is not in its cache yet is the same. `docs/source/understand/ignition.md`
  says "ScyllaDB must not start until" node-level tuning is complete.
- `Stuck` (`NodeStorage`). A daemon that stops between the creation of an image and its
  truncation leaves an empty file that is refused from then on
  (`pkg/disks/loop.go:98`); a renamed array is unmounted and stays degraded; a loop
  device that is removed and comes back around a crash leaves the unit active on the
  deleted image.

Seen while reading, without an instance: a prune of a loop device that is interrupted
after the detach leaves its image and symlink behind; `IsNodeTunedForContainer` compares
no generation; `pkg/cmd/operator/ignition.go:197` passes `nodesBroadcastAddressType` for both
address types; the daemon's `updateStatus` compares a value with a pointer and so
always writes; a Pod that is not Guaranteed and whose container has no process in the
CRI's answer is never listed as tuned.

## Proofs

Each `...Proofs` module is checked by TLAPS for every value of the constants of its
module, all bounds on edits, faults and events included, from the named assumptions of
that module and the one in the last column. Theorems without a run's property state
types or an invariant.

| Module | Theorem | States | Extra assumption |
|---|---|---|---|
| `RackScalingProofs` | `TypeCorrect` | `[]TypeOK` | |
| | `Invariance` | `[]IInv` | |
| | `MembersStayBelowReplicas` | `[]MembersBelowReplicas` | |
| | `PruningIsSafe` | `OnlyLeftVolumesDeleted` | |
| | `NoRecreationOnOldVolume` | `NoPodOnLeftVolume` | |
| | `Refinement` | `MembershipSpec` | |
| | `SequentialDecommission` | `[]OneDecommissionAtATime` | `MaxLost = 0` |
| | `DeferredRaise` | `RaiseIsDeferred` | `MaxLost = 0` |
| `UpgradeProofs` | `TypeCorrect` | `[]TypeOK` | |
| | `SnapshotsAreRemoved` | `[]NoSnapshotLeft` | |
| | `OneNodeDownAtMost` | `[]OneNodeDown` | `MaxScales = 0` |
| | `TwoMinorVersionsAtMost` | `[]TwoMinorVersions` | `MaxScales = 0` |
| | `UpgradedOnlyBackedUp` | `BackedUpBeforeUpgrade` | `MaxScales = 0` |
| `NodeLifecycleProofs` | `BootstrapTypeCorrect` | `[]BootstrapTypeOK` | |
| | `BarrierIsExact` | `[]PreconditionIsExact` | |
| | `OneClusterFormed` | `[]OneClusterWhilePodsStay` | `External \/ ~Parallel` |
| | `ExternalClusterJoined` | `[]OneCluster` | `External` |
| | `TypeCorrect` | `[]TypeOK` (`NodeReplace`) | |
| | `ReplacementIsExact` | `[]NoStrayMember` | `Barrier` |
| | `FinishIsSafe` | `FinishedMeansReplaced` | `Barrier` |
| | `OnlyLostDeleted` | `OnlyLostVolumesDeletedUnlessMislabelled` | `Barrier` |
| | `CleanupTypeCorrect` | `[]CleanupTypeOK` | |
| | `MarksAreTrue` | `[]MarkedIsClean` | |
| `CertificatesProofs` | `TypeCorrect` | `[]TypeOK` | |
| | `CAKeysStay` | `CAStays` | |
| | `LeavesAreTrusted` | `[]IssuerTrusted` | `RotationFits` |
| | `ChainsAreValid` | `[]ChainValid` | `RotationFits` |
| `ReconcileProofs` | `TypeCorrect` | `[]TypeOK` | |
| | `ForeignObjectsUntouched` | `ForeignUntouched` | `NothingForeignIsRecreated` |
| | `StatusIsTruthful` | `[]StatusTruthful` | `WorkloadsRequired` |
| | `NoWakeupIsLost` | `[]NoLostWakeup` | `ChangesAreAnnounced` |
| `ClusterTranslationProofs` | `Invariance` | `[]IInv` | |
| | `TypeCorrect` | `[]TypeOK` | |
| | `NoLastingFalseClaim` | `[]LastingClaimIsTrue` | |
| | `RacksAreRemovedEmpty` | `RackRemovedWhenEmptyUnlessMisreported` | |
| `ManagerSyncProofs` | `Invariance` | `[]IInv` | |
| | `RegistrationsAreCleanedUp` | `[]NoStrayCluster` | |
| | `TasksAreCleanedUp` | `[]NoStrayTaskUnlessRemoved` | |
| | `AdoptionIsAskedFor` | `AdoptedOnRequest` | |
| `NodeSetupProofs` | `DataIsKept` | `DataKept` | |
| | `StartsOnlyTuned` | `StartsTuned` | |

Each action is a lemma, and the proof of an invariant cites one per disjunct of `Next`.
None of the properties is inductive by itself; what each proof adds follows.

### RackScalingProofs

A scale is written from a snapshot. The argument has four parts, the conjuncts of
`IInv`:

1. `ViewsOrdered`: a snapshot is no newer than the cache and the cache no newer
   than the API, and since a scale needs the current resource version no view of
   the StatefulSet is more than one scale behind. A successful scale therefore
   acts on the true replicas.
2. `LabelsMeanLeft`: a label `true` in a view is `true` now (labels move forward
   within a uid) and means the node has left, and a requested node is within the
   replicas of every view. So the ordinals a scale removes have left.
3. `ScaledAwayIsKnown`: a node that is scaled away and not pruned is labelled in
   every view, so no stale view takes its ordinal for a free one.
4. `SyncConsistent`, `NodesConsistent`: what the phases rely on between the live
   read of a Service and the deletion of its PVC, and what modes say of volumes.

`NoRecreationOnOldVolume` adds that a node that has left within the replicas
still has its Pod. The last two theorems add an invariant on the order of the
controller's own label writes: every one not in the cache yet is in `owed`, and
the phase that requests knows all labels. A lost answer to a label write breaks
exactly that, as the write is not recorded (Known disagreements); hence their assumption.

### UpgradeProofs

`GInv` holds with scaling too: which calls go with which phase of the context
(`CallsFit`, above all that a sync only passes the rollout wait when no partition is
above its replicas), and where snapshots may be (`SnapshotsFit`: those of the node next
to upgrade or upgraded last). `Versions` adds, without scaling, that nodes below the
partition run the current revision and those above it the template once a rack counts
as rolled out (`RevisionsFit`), that a node past the partition has the old minor
version only with a snapshot (`BackedUp`), and that all racks share one minor version
outside of the rollout (`OneMinor`). `OneDown` says which node a phase and the
partitions allow to be down in each view of the status.

With scaling, `OneNodeDown` and `TwoMinorVersions` are really violated, as TLC shows on
small instances. With the constants of `UpgradeScaling.cfg` a new Pod starts while
another one restarts. With two racks of one node, two changes of the image, two scale
requests and a fault, the image is changed a second time after a sync that was aborted
between the templates of the two racks; nodes added in the meantime start on different
templates, and three minor versions run at once. `BackedUpBeforeUpgrade` with scaling
is not proved.

### NodeLifecycleProofs: bootstrap

`BarrierIsExact` needs no invariant: it is about what
`isBootstrapPreconditionSatisfied` computes from any set of reports that are up to date.
`OneClusterFormed` rests on `PodsInOrder` (without parallel Pods each comes when those
before it are in the cluster) and `InHome` (a node that is starting has itself as its
only seed only if it is the first). With parallel Pods and no external seeds the
statement is false, see `OneCluster` above; with external seeds it holds even when Pods
are deleted.

### NodeLifecycleProofs: replacement

`ViewsCurrent`: the datacenter controller alone writes the second label and removes the
first, so a cache that shows its own writes has them right. `LabelsNameMembers` and
`VolumeFits`: the label names the present member until the replacement has joined, and
the volume of the new node is never the one being deleted. `PodFits`: a node that
passed the barrier on a new volume is the replacement. The cache of the orphaned PV
controller is of any age; `mislabelled` is set with the label and goes with it. `Barrier`
is a feature gate of the code, without which TLC refutes the statements (Known
disagreements).

### NodeLifecycleProofs: cleanup

A member never comes back with the tokens it had, so a node that is clean for a hash
stays clean for it. `ViewsTrue`: the mark and the hash of a completed Job are such hashes,
in the API, in the cache and in the snapshot of a sync, however old; the Pod of a Job has
cleaned the keyspaces it is through with.

### CertificatesProofs

`AInv`, which holds whatever is deleted, is the form of every CA in the cluster and in
the operator's memory and that their numbers are their own. `IInv` adds that a sync
under way still sees bundle and leaf as they are until it comes to them
(`ViewsCurrent`), and that at the end of the last successful sync every leaf was in the
bundle and within its refresh time, with `MaxGap` to spare while a sync is under way
(`LeavesCovered`). `RotationFits` is: bundles are not deleted, `CARefresh + 2 * MaxGap <
CAValidity`, `CertRefresh + 2 * MaxGap <= CertValidity`. The values in
`sync_certs.go` (CAs and client certificates valid for 10 years and refreshed after 8,
serving certificates valid for 30 days and refreshed after 20) satisfy the last two for
gaps of up to five days between successful syncs; a deleted bundle is empty until the
next sync, which no code could avoid.

### ReconcileProofs

The theorems are about any controller described as above, not about the five. `TInv`
adds to the types that the cache shows every item without an event on its way as the API
server has it.

*Ownership.* A write of a create, update or prune checks the owner in the API server
(by uid, or because a name is taken). A recreate deletes by name, so
`NothingForeignIsRecreated` takes the names that others may take to be no recreated
ones; the dc.StatefulSet shows that it is needed (Known disagreements).

*Status.* `SInv` orders the generations: the one of the status, the one that the
controller has listed (`Known`), the cache's, the API server's. A template is never of a
generation that the controller does not know, and the cache has none newer than the API
server's (`Templates`); so a workload that a sync finds equal, in a cache however old,
has the template of the generation it listed (`AppliedIsCurrent`), and that is the one
the status is about. `WorkloadsRequired`: no edit switches the workload off; Options
"setup" shows that it is needed.

*Wakeups.* `NoLostWakeup` says of an idle controller with nothing on its way that every
object is what the current inputs ask for; what makes it so is earlier, in syncs that read
a cache that lags. The invariant is `Announced /\ Followed`.

1. `Announced`: an object that is there and not in the cache was written by the
   controller itself, an event of an input is of a change by others, an object that wakes
   nobody is right once it is there.
2. Whether an event on its way will wake the controller does not change before it is
   delivered (`WhatWakes`), although the handler decides with what the cache holds then.
3. `Followed`: unless something leads to another sync (`Excused`: the queue, an error of
   the running sync, such an event, a workload rolling out), an idle controller has
   converged, and a running sync has listed what there is, has done or rightly held
   every stage it is past, and has every object right up to the one it is at.
4. A step after which nothing leads to another sync has changed nothing the controller
   hears of (`CalmIsQuiet`), so what was right stays right.
5. A sync that is past all stages has converged: the inputs whose events reach the
   controller only through an object of its own (`Resolved`) are heard of as well, since
   that object is applied by a stage that does not depend on them (`AllAreHeard`).

`ChangesAreAnnounced`: an input that others change wakes the controller whether it is
there or gone, and nobody deletes or switches off an object that wakes nobody. Those
are the disagreements above on inputs that are not watched; the constants of
`Controllers.cfg` without the option "managed" satisfy it. With that option the one event
of the run is too few for the violation, and the run is stricter than the theorem there.
The constants of `Controllers.cfg` satisfy the other two hypotheses. TLC checked the invariant before
it was proved (with three events, two faults and MaxLag 3 for the NodeConfigPod and global manager
controllers, one or two events for the others).

### ClusterTranslationProofs

One invariant carries both properties. `Generations`: the datacenter was translated from
what a sync listed, that from the cache, that from the ScyllaCluster; each is no newer
than the next and has an older generation when its spec differs (`Older`).
`Copies`: the datacenter's controller has a StatefulSet at most one step behind, since a
scale needs the current one, and once it has reported on the present generation it reads
no earlier spec. `ReportIsTrue`: what the datacenter's status says of its present
generation, if it misses no node, is true until that generation ends, of the workload and
of an empty rack; `RackRemovedWhenEmptyUnlessMisreported` follows, as the webhook looks at
that status. `Hashes`: the hash of
the datacenter is of the spec it has. `Unawaited`: with an empty queue the sync works on
what the cache shows, and a status it left that claims to be settled is backed by the
datacenter, conditions moved between generations included, unless an event of either is
on its way.

### ManagerSyncProofs

The facts are stated of values (an object, its cached copy, the sync of its controller),
so that what a step does to them is a lemma without primes. `Life`: a cache or a sync that
saw the finalizer and no deletion sees the object that is there, and an object with a
finalizer is the one that cache and sync know. `RegFacts`: a cluster is in the Manager only
while its registration has the finalizer, and a sync about to remove that has found no
cluster. `TaskFacts`: the ids that object, cache and sync hold are 0 or that of the one
task, and an id that is not 0 is that of a task which suits the object, as long as nobody
removed it and the finalizer is not at work.

### NodeSetupProofs

`StorageInv`: there is no data without a filesystem and no filesystem without its device,
and a loop device is only deleted when it was taken out of the NodeConfig and its mount
is gone. `TuningInv`: a Pod whose optimizations were known to be on has a view with them
on, however old its verdict and container (`ViewsCurrent`); whatever lets ScyllaDB start in
the first container, from the verdict of a sync that may still be written to the file,
means that this container is tuned and stays so (`TunedBeforeStart`).

### Only model-checked

Liveness, the last property of each run that has one: fairness and ENABLED are out of
the prover's reach. All invariants and action properties of the runs are proved under the
hypotheses in the table above, which the instances of their runs satisfy but for the
option named under Wakeups. `BackedUpBeforeUpgrade` on racks that are
scaled is neither proved nor checked by a run.

With larger bounds than the run's (four events, two faults, MaxLag 3) TLC finds the
properties of `Reconcile` true of the NodeConfigPod and global manager controllers;
simulation of the three larger ones found nothing.

## Not modelled

- `createMissingStatefulSets`, `pruneStatefulSets` and several racks in one scaling
  model. `ClusterBootstrap` has the order in which their Pods start.
- The contents of rendered objects (templates, arguments, `scylla.yaml`): pure
  functions under table tests. The descriptions keep what they depend on.
- Adoption of orphans by the refmanager, `ForceOwnership`, allocated fields.
- The Alternator certificate: the same code on a third chain.
- Field by field translation of ScyllaClusters, their deletion, and the task statuses
  that are copied back.
- Nodes: filesystems of another type than asked for, arrays over loop devices, Pods that
  are not Guaranteed, a late view of the sysctl ConfigMap, ignition's wait for a load
  balancer address and the annotation that forces ignition.
- Validation: creation rules of ScyllaClusters and ScyllaDBDatacenters field by field
  (one value, `form`), the validators of the other kinds, warnings, the HTTP handler.
- API types and generated deep copies, command-line wiring, naming helpers.
- Leader election (one active controller is assumed, which may restart at any step),
  operator configuration and must-gather.

## Plan

1. `DatacenterScaling`: several racks, creation one by one, the rollout checks and
   the deletion of racks, each rack abstracted to `RackMembership`.
2. `UpgradeProofs`: `BackedUpBeforeUpgrade` on racks that are scaled during the rollout.
3. `Reconcile`: deletion of the custom resource itself, and finalizers.
