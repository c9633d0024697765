-------------------------- MODULE NodeSetupProofs --------------------------
(* Proofs about NodeSetup: what the node setup daemon does to ScyllaDB's    *)
(* data, and when ScyllaDB may start, for every number of edits, faults,    *)
(* status writes and containers.                                            *)
EXTENDS NodeSetup, TLAPS

Devices == {"none", "a", "b"}
Specs == [want : Devices, enabled : BOOLEAN, sysctl : Nat \ {0}]
Reports == [prog : BOOLEAN, deg : BOOLEAN]
Verdicts == [node : BOOLEAN, ids : SUBSET Nat]
NodeConfigs == [spec : Specs, report : Reports, tuned : Verdicts]

---------------------------------------------------------------------------
(* Storage.                                                                 *)

Plans == [want : Devices, prog : BOOLEAN, deg : BOOLEAN]
Disks == [array : Devices, image : {"none", "empty", "sized"},
          attached : BOOLEAN, link : BOOLEAN, fs : BOOLEAN]
Units == [file : BOOLEAN, managed : BOOLEAN, enabled : BOOLEAN,
          state : {"inactive", "activating", "active", "failed"}, lost : BOOLEAN]

StorageTypes ==
    /\ nc \in NodeConfigs /\ seen \in Specs
    /\ kind \in {"array", "loop"} /\ plan \in Plans
    /\ disk \in Disks /\ data \in BOOLEAN /\ unit \in Units

(* An array always has a name.                                              *)
ArrayNamed ==
    kind = "array" =>
        /\ nc.spec.want # "none" /\ seen.want # "none"
        /\ stage # "idle" => plan.want # "none"

(* There is no data without a filesystem and no filesystem without its      *)
(* array; what is mounted has a filesystem until its image is deleted.      *)
DataOnDevice ==
    /\ data => disk.fs
    /\ kind = "array" /\ disk.fs => disk.array # "none"
    /\ Mounted /\ ~unit.lost => disk.fs

(* Arrays are made for arrays only, and a loop device that is being deleted *)
(* was taken out of the NodeConfig: it is detached, and no mount of it is   *)
(* left in use.                                                             *)
StagesFit ==
    /\ stage = "raids" => kind = "array"
    /\ stage \in {"loops", "truncate", "attach", "link"} => kind = "loop"
    /\ stage \in {"detached", "imageless"} => kind = "loop" /\ plan.want = "none"
    /\ stage = "detached" => ~disk.attached /\ (Mounted => unit.lost)

StorageInv == StorageTypes /\ ArrayNamed /\ DataOnDevice /\ StagesFit
StoragePart == part = "storage" => StorageInv

(* The first stage of a sync, and the one after an error, fit.              *)
LEMMA FirstStageFits ==
    ASSUME NEW want \in Devices
    PROVE  /\ FirstStage(want) \in {"loops", "raids", "filesystems", "mounts"}
           /\ FirstStage(want) = "raids" => kind = "array"
           /\ FirstStage(want) = "loops" => kind = "loop"
BY DEF FirstStage

LEMMA AfterErrorFits ==
    AfterError \in {"filesystems", "mounts", "status"}
BY DEF AfterError

LEMMA StorageInitially == Init /\ part = "storage" => StorageInv
<1> SUFFICES ASSUME Init, part = "storage" PROVE StorageInv
    OBVIOUS
<1>1. PICK e \in BOOLEAN :
        nc = [spec |-> [want |-> "a", enabled |-> e, sysctl |-> 1],
              report |-> Progressing, tuned |-> Untuned]
    BY DEF Init, DaemonInit
<1>2. nc \in NodeConfigs /\ seen \in Specs /\ nc.spec.want = "a" /\ seen = nc.spec
    BY <1>1 DEF Init, DaemonInit, NodeConfigs, Specs, Reports, Verdicts, Devices, Progressing, Untuned
<1>3. kind \in {"array", "loop"} /\ plan \in Plans /\ disk \in Disks /\ data = FALSE /\ unit \in Units
      /\ stage = "idle" /\ disk.fs = FALSE /\ unit.state = "inactive"
    BY KindsAssumption DEF Init, DaemonInit, StorageInit, NoPlan, Plans, Disks, Units, Devices
<1> QED
    BY <1>2, <1>3 DEF StorageInv, StorageTypes, ArrayNamed, DataOnDevice, StagesFit, Mounted

(* Every step of the storage controller, and what is around it, keeps the   *)
(* invariant and the data.                                                  *)
LEMMA StorageStep ==
    StorageInv /\ StorageNext => StorageInv' /\ KeepsData
<1> SUFFICES ASSUME StorageInv, StorageNext PROVE StorageInv' /\ KeepsData
    OBVIOUS
<1> USE DEF StorageInv
<1>t. StorageTypes /\ ArrayNamed /\ DataOnDevice /\ StagesFit
    OBVIOUS
<1>1. CASE ObserveNodeConfig /\ UNCHANGED storage
    BY <1>1, <1>t DEF ObserveNodeConfig, storage, StorageTypes, ArrayNamed, DataOnDevice, StagesFit,
        Mounted, KeepsData, NodeConfigs
<1>2. CASE OthersWriteStatus /\ UNCHANGED storage
    BY <1>2, <1>t DEF OthersWriteStatus, storage, StorageTypes, ArrayNamed, DataOnDevice, StagesFit,
        Mounted, KeepsData
<1>3. CASE StartSetup
  <2>1. /\ plan' = [want |-> seen.want, prog |-> FALSE, deg |-> FALSE]
        /\ seen.want \in Devices /\ stage' = FirstStage(seen.want)
        /\ UNCHANGED <<nc, seen, kind, disk, data, unit>>
      BY <1>3 DEF StartSetup, Begin, NoPlan, StorageTypes, Specs
  <2>2. /\ stage' \in {"loops", "raids", "filesystems", "mounts"}
        /\ stage' = "raids" => kind = "array"
        /\ stage' = "loops" => kind = "loop"
      BY <2>1, FirstStageFits
  <2> QED
      BY <2>1, <2>2 DEF StorageTypes, ArrayNamed, DataOnDevice, StagesFit, Mounted, KeepsData, Plans
<1>4. CASE syncLoopDevices
  <2> UNCHANGED <<nc, seen>>
      BY <1>4 DEF syncLoopDevices, pruneLoopDevices, removeImage, deleteSymlinkToDevice, NoLoopDevices,
        makeLoopDeviceImage, createSparseFile, truncateSparseFile, attachLoopDevice, makeDeviceSymlink, Step
  <2>1. CASE pruneLoopDevices
      BY <2>1 DEF pruneLoopDevices, Step, getRequiredLoopDeviceImages,
           StorageTypes, ArrayNamed, DataOnDevice, StagesFit, Mounted, KeepsData, Disks, Units
  <2>2. CASE removeImage
      BY <2>2 DEF removeImage, Step, OnDisk,
           StorageTypes, ArrayNamed, DataOnDevice, StagesFit, Mounted, KeepsData, Disks, Units
  <2>3. CASE deleteSymlinkToDevice
      BY <2>3 DEF deleteSymlinkToDevice, Step, OnDisk,
           StorageTypes, ArrayNamed, DataOnDevice, StagesFit, Mounted, KeepsData, Disks
  <2>4. CASE NoLoopDevices
      BY <2>4 DEF NoLoopDevices, Step, OnDisk,
           StorageTypes, ArrayNamed, DataOnDevice, StagesFit, Mounted, KeepsData
  <2>5. CASE makeLoopDeviceImage
      BY <2>5 DEF makeLoopDeviceImage, Step, OnDisk, Degraded, Plans,
           StorageTypes, ArrayNamed, DataOnDevice, StagesFit, Mounted, KeepsData
  <2>6. CASE createSparseFile \/ truncateSparseFile
      BY <2>6 DEF createSparseFile, truncateSparseFile, Step, OnDisk,
           StorageTypes, ArrayNamed, DataOnDevice, StagesFit, Mounted, KeepsData, Disks
  <2>7. CASE attachLoopDevice
      BY <2>7 DEF attachLoopDevice, Step, OnDisk,
           StorageTypes, ArrayNamed, DataOnDevice, StagesFit, Mounted, KeepsData, Disks
  <2>8. CASE makeDeviceSymlink
      BY <2>8 DEF makeDeviceSymlink, Step, OnDisk,
           StorageTypes, ArrayNamed, DataOnDevice, StagesFit, Mounted, KeepsData, Disks
  <2> QED
      BY <1>4, <2>1, <2>2, <2>3, <2>4, <2>5, <2>6, <2>7, <2>8 DEF syncLoopDevices
<1>5. CASE syncRAIDs
  <2>1. /\ kind = "array" /\ plan.want \in Devices \ {"none"}
        /\ stage = "raids" /\ stage' = "filesystems" /\ UNCHANGED <<nc, seen, kind, unit>>
      BY <1>5 DEF syncRAIDs, Step, OnDisk, StagesFit, ArrayNamed, StorageTypes, Plans
  <2>2. CASE UNCHANGED <<plan, disk, data>>
      BY <2>1, <2>2 DEF StorageTypes, ArrayNamed, DataOnDevice, StagesFit, Mounted, KeepsData
  <2>3. CASE /\ disk.array = "none"
             /\ disk' = [disk EXCEPT !.array = plan.want, !.fs = FALSE]
             /\ data' = FALSE /\ UNCHANGED plan
    <3>1. ~disk.fs /\ ~data /\ ~(Mounted /\ ~unit.lost)
        BY <2>1, <2>3 DEF DataOnDevice
    <3> QED
        BY <2>1, <2>3, <3>1 DEF StorageTypes, ArrayNamed, DataOnDevice, StagesFit, Mounted, KeepsData, Disks
  <2>4. CASE Degraded /\ UNCHANGED <<disk, data>>
      BY <2>1, <2>4 DEF StorageTypes, ArrayNamed, DataOnDevice, StagesFit, Mounted, KeepsData, Degraded, Plans
  <2> QED
      BY <1>5, <2>2, <2>3, <2>4 DEF syncRAIDs, MakeRAID0
<1>6. CASE syncFilesystems
  <2>1. /\ stage = "filesystems" /\ stage' = "mounts" /\ UNCHANGED <<nc, seen, kind, unit>>
      BY <1>6 DEF syncFilesystems, Step, OnDisk
  <2>2. CASE UNCHANGED <<plan, disk, data>>
      BY <2>1, <2>2 DEF StorageTypes, ArrayNamed, DataOnDevice, StagesFit, Mounted, KeepsData
  <2>3. CASE /\ GetDeviceWithName(plan.want) /\ ~disk.fs
             /\ disk' = [disk EXCEPT !.fs = TRUE] /\ data' = FALSE /\ UNCHANGED plan
    <3>1. ~data /\ (kind = "array" => disk.array # "none")
        BY <2>1, <2>3 DEF DataOnDevice, GetDeviceWithName, ArrayNamed
    <3> QED
        BY <2>1, <2>3, <3>1 DEF StorageTypes, ArrayNamed, DataOnDevice, StagesFit, Mounted, KeepsData, Disks
  <2>4. CASE Degraded /\ UNCHANGED <<disk, data>>
      BY <2>1, <2>4 DEF StorageTypes, ArrayNamed, DataOnDevice, StagesFit, Mounted, KeepsData, Degraded, Plans
  <2> QED
      BY <1>6, <2>2, <2>3, <2>4 DEF syncFilesystems, MakeFS, GetFilesystemType
<1>7. CASE EnsureUnits
  <2>1. /\ UNCHANGED <<nc, seen, kind, disk, data>>
        /\ stage \in {"mounts", "pruning", "managing", "writing", "starting"}
        /\ stage' \in {"pruning", "managing", "writing", "starting", "status"}
      BY <1>7 DEF EnsureUnits, syncMounts, PruneUnit, WriteStatus, WriteUnit, EnableAndStartUnit, Step, OnUnit
  <2>2. unit' \in Units /\ (Mounted' => Mounted) /\ (Mounted' => unit'.lost = unit.lost)
    <3>1. CASE syncMounts
        BY <3>1 DEF syncMounts, Units, Mounted, StorageTypes
    <3>2. CASE PruneUnit \/ WriteStatus \/ WriteUnit
      <4>1. PICK b \in BOOLEAN, f \in BOOLEAN :
              unit' \in {[unit EXCEPT !.file = f], [unit EXCEPT !.managed = b]}
          BY <3>2 DEF PruneUnit, WriteStatus, WriteUnit
      <4> QED
          BY <4>1 DEF Units, Mounted, StorageTypes
    <3>3. CASE EnableAndStartUnit
        BY <3>3 DEF EnableAndStartUnit, Units, Mounted, StorageTypes
    <3> QED
        BY <1>7, <3>1, <3>2, <3>3 DEF EnsureUnits
  <2>3. plan' \in Plans /\ plan'.want = plan.want
    <3>1. CASE syncMounts
        BY <3>1 DEF syncMounts, Plans, StorageTypes
    <3>2. CASE PruneUnit \/ WriteUnit
        BY <3>2 DEF PruneUnit, WriteUnit, StorageTypes
    <3>3. CASE WriteStatus
        BY <3>3 DEF WriteStatus, Plans, StorageTypes
    <3>4. CASE EnableAndStartUnit
        BY <3>4 DEF EnableAndStartUnit, Plans, StorageTypes
    <3> QED
        BY <1>7, <3>1, <3>2, <3>3, <3>4 DEF EnsureUnits
  <2> QED
      BY <2>1, <2>2, <2>3 DEF StorageTypes, ArrayNamed, DataOnDevice, StagesFit, KeepsData
<1>8. CASE updateSetupStatus
  <2>1. /\ stage' = "idle" /\ plan' \in Plans /\ UNCHANGED <<seen, kind, disk, data, unit>>
      BY <1>8 DEF updateSetupStatus, UpdateStatus, NoPlan, Plans, Devices
  <2>2. nc' \in NodeConfigs /\ nc'.spec = nc.spec
    <3>1. [nc EXCEPT !.report = [prog |-> plan.prog, deg |-> plan.deg]] \in NodeConfigs
        BY DEF StorageTypes, NodeConfigs, Reports, Plans
    <3> QED
        BY <1>8, <3>1 DEF updateSetupStatus, UpdateStatus, StorageTypes, NodeConfigs
  <2> QED
      BY <2>1, <2>2 DEF StorageTypes, ArrayNamed, DataOnDevice, StagesFit, Mounted, KeepsData
<1>9. CASE UnitStarts
  <2>1. /\ UNCHANGED <<nc, seen, stage, kind, plan, disk, data>> /\ unit' \in Units
        /\ Mounted' => disk.fs /\ BlockDeviceReady
      BY <1>9 DEF UnitStarts, daemon, Units, StorageTypes, Mounted, DeviceReady
  <2> QED
      BY <2>1 DEF StorageTypes, ArrayNamed, DataOnDevice, StagesFit, KeepsData, BlockDeviceReady
<1>10. CASE ScyllaWrites
    BY <1>10 DEF ScyllaWrites, daemon, StorageTypes, ArrayNamed, DataOnDevice, StagesFit, Mounted, KeepsData
<1>11. CASE EditDevice
  <2>1. /\ nc' = [nc EXCEPT !.spec = [nc.spec EXCEPT !.want = OtherDevice]]
        /\ UNCHANGED <<seen, stage, kind, plan, disk, data, unit>>
      BY <1>11 DEF EditDevice, EditNodeConfig, storage
  <2>2. OtherDevice \in Devices /\ (kind = "array" => OtherDevice # "none")
      BY DEF OtherDevice, Devices
  <2>3. [nc.spec EXCEPT !.want = OtherDevice] \in Specs
      BY <2>2 DEF StorageTypes, NodeConfigs, Specs
  <2>4. nc' \in NodeConfigs /\ nc'.spec.want = OtherDevice
      BY <2>1, <2>3 DEF StorageTypes, NodeConfigs, Specs
  <2> QED
      BY <2>1, <2>2, <2>4 DEF StorageTypes, ArrayNamed, DataOnDevice, StagesFit, Mounted, KeepsData
<1>12. CASE SetupCallFails
    BY <1>12, AfterErrorFits DEF SetupCallFails, Degraded, Plans,
       StorageTypes, ArrayNamed, DataOnDevice, StagesFit, Mounted, KeepsData
<1>13. CASE SetupStatusFails \/ SetupRestarts
  <2>1. /\ stage' = "idle" /\ plan' = NoPlan /\ UNCHANGED <<nc, kind, disk, data, unit>>
        /\ seen' = seen \/ seen' = nc.spec
      BY <1>13 DEF SetupStatusFails, SetupRestarts, StatusCallFails, StartDaemon
  <2>2. NoPlan \in Plans
      BY DEF NoPlan, Plans, Devices
  <2> QED
      BY <2>1, <2>2 DEF StorageTypes, ArrayNamed, DataOnDevice, StagesFit, Mounted, KeepsData, NodeConfigs
<1>14. CASE NodeReboots
  <2>1. /\ stage' = "idle" /\ plan' \in Plans /\ UNCHANGED <<nc, kind, data>>
        /\ seen' = nc.spec
      BY <1>14 DEF NodeReboots, StartDaemon, NoPlan, Plans, Devices
  <2>2. disk' \in Disks /\ disk'.fs = disk.fs /\ disk'.array = disk.array
      BY <1>14 DEF NodeReboots, StorageTypes, Disks
  <2>3. unit' \in Units /\ ~Mounted'
      BY <1>14 DEF NodeReboots, StorageTypes, Units, Mounted
  <2> QED
      BY <2>1, <2>2, <2>3 DEF StorageTypes, ArrayNamed, DataOnDevice, StagesFit, KeepsData, NodeConfigs
<1> QED
    BY <1>1, <1>2, <1>3, <1>4, <1>5, <1>6, <1>7, <1>8, <1>9, <1>10, <1>11, <1>12, <1>13, <1>14
       DEF StorageNext, Setup, SetupFault

(* DataKept holds of every behaviour of the daemon.                         *)
(* ScyllaDB's data is lost to the daemon only with a loop device that the   *)
(* user took out of the NodeConfig, for every number of edits, failed       *)
(* calls, restarts and reboots.  MakeRAID0 discards disks of no array, which *)
(* then hold no filesystem, MakeFS formats what holds none, and the prune   *)
(* of a loop device leaves no mount that ScyllaDB could write to.           *)
THEOREM DataIsKept == Spec => DataKept
<1>1. Init => StoragePart
    BY StorageInitially DEF StoragePart
<1>2. StoragePart /\ [Next]_vars => StoragePart'
  <2> SUFFICES ASSUME StoragePart, [Next]_vars PROVE StoragePart'
      OBVIOUS
  <2>1. CASE StorageNext /\ OnStorage
      BY <2>1, StorageStep DEF StoragePart, OnStorage
  <2>2. CASE TuningNext /\ OnTuning
      BY <2>2 DEF StoragePart, OnTuning
  <2>3. CASE UNCHANGED vars
      BY <2>3 DEF StoragePart, vars, daemon, storage, StorageInv, StorageTypes, ArrayNamed, DataOnDevice,
           StagesFit, Mounted
  <2> QED
      BY <2>1, <2>2, <2>3 DEF Next
<1>3. StoragePart /\ [Next]_vars => [KeepsData]_vars
  <2> SUFFICES ASSUME StoragePart, Next PROVE KeepsData
      OBVIOUS
  <2>1. CASE StorageNext /\ OnStorage
      BY <2>1, StorageStep DEF StoragePart, OnStorage
  <2>2. CASE TuningNext /\ OnTuning
      BY <2>2 DEF OnTuning, storage, KeepsData
  <2> QED
      BY <2>1, <2>2 DEF Next
<1> QED
    BY <1>1, <1>2, <1>3, PTL DEF Spec, DataKept


---------------------------------------------------------------------------
(* Tuning.                                                                  *)

Jobs == [of : Nat, done : BOOLEAN]
Tunes == [id : Nat, enabled : BOOLEAN, sysctl : Nat, verdict : Verdicts]
Pods == [cont : Nat, first : Nat, always : BOOLEAN, known : BOOLEAN, running : BOOLEAN]
Statuses == [id : Nat, up : BOOLEAN]
Views == [enabled : BOOLEAN, old : BOOLEAN, tuned : Verdicts, id : Nat]
Ignitions == [verdict : BOOLEAN, ignited : BOOLEAN, file : BOOLEAN]

TuningTypes ==
    /\ nc \in NodeConfigs /\ seen \in Specs
    /\ made \in Nat /\ sysctl \in Nat
    /\ pod \in Pods /\ status \in Statuses /\ view \in Views /\ ign \in Ignitions
    /\ jobs \in [JobTypes -> Jobs] /\ tune \in Tunes

(* A copy that is not older than the NodeConfig has its spec, and so has a  *)
(* sync that may write the status.                                          *)
CopiesCurrent ==
    /\ "cache" \notin old => seen = nc.spec
    /\ "sync" \notin old /\ stage # "idle" => "cache" \notin old
    /\ "sync" \notin old /\ stage = "apply" => tune.enabled = nc.spec.enabled
    /\ stage = "apply" => tune.sysctl # 0

(* A Job is complete for what it was made for: the only thing to tune the   *)
(* node for is the node, and sysctls are loaded when their Job is complete. *)
JobsFit ==
    /\ jobs["perftune"].of \in {0, 1}
    /\ \A j \in JobTypes : jobs[j].of = 0 => ~jobs[j].done
    /\ jobs["sysctls"].done => sysctl # 0

(* Nothing names a container that is yet to come, and what is kept for a    *)
(* Pod without a container is empty.                                        *)
ContainersNamed ==
    /\ pod.first <= made /\ pod.cont \in {0, made} /\ (pod.first = 0 => pod.cont = 0)
    /\ status.id <= made /\ tune.id <= made
    /\ \A id \in nc.tuned.ids \cup view.tuned.ids \cup tune.verdict.ids : id <= made
    /\ pod.first = 0 => status = NewStatus /\ ~ign.verdict /\ ~ign.file

(* A view that is not old has optimizations as they are, and so has that of *)
(* a Pod which they were on for, and known to be, all the time.             *)
ViewsCurrent ==
    /\ ~view.old => view.enabled = nc.spec.enabled
    /\ pod.always => nc.spec.enabled
    /\ pod.always /\ pod.known => ~view.old

(* The first container of the Pod is up, with optimizations on and known.   *)
Starting == pod.always /\ pod.known /\ pod.cont # 0 /\ pod.cont = pod.first

(* The container is tuned, and whatever the tune controller is at keeps it  *)
(* so: its status is reported and no sync requires other Jobs.              *)
StaysTuned ==
    /\ TunedFor(pod.cont)
    /\ status = [id |-> pod.cont, up |-> TRUE] /\ seen.enabled
    /\ stage = "apply" => tune.id = pod.cont /\ tune.enabled

(* Whatever lets ScyllaDB start in that container, from the verdict of a    *)
(* sync that may be written to the file, means that it stays tuned.         *)
LetsStart ==
    \/ stage = "status" /\ "sync" \notin old /\ tune.verdict.node /\ pod.cont \in tune.verdict.ids
    \/ IsNodeTunedForContainer(nc.tuned, pod.cont)
    \/ IsNodeTunedForContainer(view.tuned, pod.cont)
    \/ ign.verdict \/ ign.file

StatusOfContainer ==
    /\ status.id \in {0, pod.cont}
    /\ status.id = pod.cont => status.up
    /\ stage = "apply" /\ tune.id = pod.cont => status.id = pod.cont

TunedBeforeStart ==
    Starting => StatusOfContainer /\ (LetsStart => StaysTuned)

TuningInv ==
    /\ TuningTypes /\ CopiesCurrent /\ JobsFit
    /\ ContainersNamed /\ ViewsCurrent /\ TunedBeforeStart

TuningPart == part = "tuning" => TuningInv

LEMMA TuningConstants ==
    /\ NoTune \in Tunes /\ NoTune.id = 0 /\ NoTune.verdict = Untuned /\ Untuned \in Verdicts
    /\ NewStatus \in Statuses /\ NewStatus.id = 0 /\ ~NewStatus.up
    /\ NoJob \in Jobs /\ NoJob.of = 0 /\ ~NoJob.done
BY DEF NoTune, Tunes, Untuned, Verdicts, NewStatus, Statuses, NoJob, Jobs

LEMMA TuningInitially == Init /\ part = "tuning" => TuningInv
<1> SUFFICES ASSUME Init, part = "tuning" PROVE TuningInv
    OBVIOUS
<1>1. PICK e \in BOOLEAN :
        nc = [spec |-> [want |-> "a", enabled |-> e, sysctl |-> 1],
              report |-> Progressing, tuned |-> Untuned]
    BY DEF Init, DaemonInit
<1>2. /\ nc \in NodeConfigs /\ seen = nc.spec /\ nc.spec \in Specs /\ nc.spec.enabled = e
      /\ nc.tuned.ids = {} /\ nc.tuned \in Verdicts
    BY <1>1 DEF Init, DaemonInit, NodeConfigs, Specs, Reports, Verdicts, Devices, Progressing, Untuned
<1>3. /\ made = 0 /\ sysctl = 0 /\ stage = "idle" /\ old = {}
      /\ pod = [cont |-> 0, first |-> 0, always |-> e, known |-> TRUE, running |-> FALSE]
      /\ status = NewStatus
      /\ view = [enabled |-> e, old |-> FALSE, tuned |-> nc.tuned, id |-> 0]
      /\ ign = [verdict |-> FALSE, ignited |-> FALSE, file |-> FALSE]
      /\ jobs = [j \in JobTypes |-> NoJob] /\ tune = NoTune
    BY <1>2 DEF Init, DaemonInit, TuningInit, NewPod, StartIgnition
<1>4. TuningTypes
    BY <1>2, <1>3, TuningConstants DEF TuningTypes, Pods, Views, Ignitions
<1>5. CopiesCurrent /\ JobsFit
    BY <1>2, <1>3, TuningConstants DEF CopiesCurrent, JobsFit, JobTypes
<1>6. ContainersNamed /\ ViewsCurrent /\ TunedBeforeStart
    BY <1>2, <1>3, TuningConstants DEF ContainersNamed, ViewsCurrent, TunedBeforeStart, Starting, Untuned
<1> QED
    BY <1>4, <1>5, <1>6 DEF TuningInv

(* What a Pod, its status and its ConfigMap look like in the invariant only *)
(* depends on these variables.                                              *)
LEMMA TuningStutters ==
    TuningInv /\ UNCHANGED <<daemon, tuning>> => TuningInv'
BY DEF daemon, tuning, TuningInv, TuningTypes, CopiesCurrent, JobsFit, ContainersNamed, ViewsCurrent,
   TunedBeforeStart, Starting, StatusOfContainer, LetsStart, StaysTuned, TunedFor, IsNodeTunedForContainer

(* The Jobs that a sync keeps or makes, whatever part of them.              *)
LEMMA ApplyJobFits ==
    ASSUME TuningInv, NEW j \in JobTypes
    PROVE  /\ ApplyJob(j) \in Jobs
           /\ ApplyJob(j).of = 0 => ~ApplyJob(j).done
           /\ ApplyJob(j).done => ApplyJob(j) = jobs[j] /\ (requiredJobs[j] # 0 => jobs[j].of = requiredJobs[j])
           /\ requiredJobs[j] \in Nat
           /\ jobs[j].of = requiredJobs[j] /\ requiredJobs[j] # 0 => ApplyJob(j) = jobs[j]
           /\ j = "perftune" => ApplyJob(j).of \in {0, 1}
<1>1. requiredJobs[j] \in Nat /\ (j = "perftune" => requiredJobs[j] \in {0, 1})
    BY DEF requiredJobs, JobTypes, TuningInv, TuningTypes, Tunes, makeSysctlsJobForNode, makePerftuneJobForNode,
       makePerftuneJobForContainers, makeRlimitsJobForContainer
<1>2. jobs[j] \in Jobs /\ (jobs[j].of = 0 => ~jobs[j].done) /\ (j = "perftune" => jobs[j].of \in {0, 1})
    BY DEF TuningInv, TuningTypes, JobsFit
<1> QED
    BY <1>1, <1>2, TuningConstants DEF ApplyJob, pruneJobs, Jobs

(* Any of the required Jobs applied leaves a tuned container tuned.         *)
LEMMA TunedIsKept ==
    ASSUME TuningInv, Starting, StaysTuned, tune.id = pod.cont, tune.enabled,
           NEW new, new = [j \in JobTypes |-> new[j]],
           \A j \in JobTypes : new[j] \in {jobs[j], ApplyJob(j)}
    PROVE  /\ new["perftune"].done
           /\ \A j \in {"containers", "rlimits"} : new[j] = [of |-> pod.cont, done |-> TRUE]
<1>1. /\ requiredJobs["perftune"] = 1 /\ requiredJobs["containers"] = pod.cont
      /\ requiredJobs["rlimits"] = pod.cont
    BY DEF requiredJobs, makePerftuneJobForNode, makePerftuneJobForContainers, makeRlimitsJobForContainer
<1>2. jobs["perftune"].of = 1 /\ jobs["perftune"].done
    BY DEF StaysTuned, TunedFor, TuningInv, JobsFit, JobTypes
<1>3. \A j \in {"containers", "rlimits"} : jobs[j] = [of |-> pod.cont, done |-> TRUE]
    BY DEF StaysTuned, TunedFor
<1>4. \A j \in {"perftune", "containers", "rlimits"} : ApplyJob(j) = jobs[j]
    BY <1>1, <1>2, <1>3, ApplyJobFits DEF JobTypes, Starting
<1> QED
    BY <1>2, <1>3, <1>4 DEF JobTypes

(* Steps of the tune controller.                                            *)
LEMMA TuneSyncStep ==
    ASSUME TuningInv, StartTune \/ syncJobs PROVE TuningInv'
<1>t. /\ TuningTypes /\ CopiesCurrent /\ JobsFit
      /\ ContainersNamed /\ ViewsCurrent /\ TunedBeforeStart
    BY DEF TuningInv
<1>u. UNCHANGED <<nc, seen, made, pod, status, view, ign, sysctl>> /\ (Starting' = Starting)
    BY DEF StartTune, syncJobs, TuneStep, Step, Begin, Starting
<1>v. ViewsCurrent'
    BY <1>t, <1>u DEF ViewsCurrent
<1>1. CASE StartTune
  <2>1. PICK known \in Inspect(makeJobsForContainers) :
          /\ stage' = (IF known THEN "apply" ELSE "status")
          /\ tune' = IF known
                     THEN [NoTune EXCEPT !.id = makeJobsForContainers,
                                         !.enabled = seen.enabled, !.sysctl = seen.sysctl]
                     ELSE NoTune
      BY <1>1 DEF StartTune, Begin
  <2>2. stage = "idle" /\ UNCHANGED jobs /\ old' = old \cup (IF "cache" \in old THEN {"sync"} ELSE {})
      BY <1>1 DEF StartTune, Begin
  <2>3. makeJobsForContainers \in Nat /\ makeJobsForContainers \in {0, status.id}
      BY <1>t DEF makeJobsForContainers, TuningTypes, Statuses
  <2>4. tune' = NoTune \/ tune' = [id |-> makeJobsForContainers, enabled |-> seen.enabled,
                                   sysctl |-> seen.sysctl, verdict |-> Untuned]
      BY <2>1 DEF NoTune
  <2>5. seen.enabled \in BOOLEAN /\ seen.sysctl \in Nat \ {0}
      BY <1>t DEF TuningTypes, Specs
  <2>6. tune' \in Tunes /\ tune'.verdict = Untuned /\ tune'.id \in {0, status.id}
      BY <2>3, <2>4, <2>5, TuningConstants DEF Tunes
  <2>7. TuningTypes'
      BY <1>t, <1>u, <2>2, <2>6 DEF TuningTypes
  <2>8. stage' = "apply" => tune' = [id |-> makeJobsForContainers, enabled |-> seen.enabled,
                                     sysctl |-> seen.sysctl, verdict |-> Untuned]
      BY <2>1 DEF NoTune
  <2>9. CopiesCurrent'
      BY <1>t, <1>u, <2>1, <2>2, <2>5, <2>8 DEF CopiesCurrent
  <2>10. JobsFit' /\ ContainersNamed'
      BY <1>t, <1>u, <2>2, <2>6 DEF JobsFit, ContainersNamed, Untuned, TuningTypes, Statuses
  <2>11. TunedBeforeStart'
    <3> SUFFICES ASSUME Starting' PROVE StatusOfContainer' /\ (LetsStart' => StaysTuned')
        BY DEF TunedBeforeStart
    <3>1. Starting /\ StatusOfContainer /\ (LetsStart => StaysTuned)
        BY <1>t, <1>u DEF TunedBeforeStart
    <3>2. StatusOfContainer'
        BY <1>u, <2>6, <3>1 DEF StatusOfContainer, Starting
    <3>3. LetsStart' => LetsStart
        BY <1>u, <2>6 DEF LetsStart, Untuned, IsNodeTunedForContainer
    <3>4. StaysTuned => StaysTuned'
      <4> SUFFICES ASSUME StaysTuned PROVE StaysTuned'
          OBVIOUS
      <4>1. makeJobsForContainers = pod.cont /\ seen.enabled
          BY DEF StaysTuned, makeJobsForContainers
      <4>2. stage' \in {"apply", "status"} /\ (stage' = "apply" => tune'.id = pod.cont /\ tune'.enabled)
          BY <2>1, <2>8, <4>1
      <4> QED
          BY <1>u, <2>2, <4>2 DEF StaysTuned, TunedFor
    <3> QED
        BY <3>1, <3>2, <3>3, <3>4
  <2> QED
      BY <1>v, <2>7, <2>9, <2>10, <2>11 DEF TuningInv
<1>2. CASE syncJobs
  <2>1. /\ stage = "apply" /\ stage' = "status" /\ UNCHANGED old
        /\ jobs' = [j \in JobTypes |-> ApplyJob(j)]
        /\ tune' = [NoTune EXCEPT !.verdict = nodeStatus(jobs')]
      BY <1>2 DEF syncJobs, TuneStep, Step
  <2>2. nodeStatus(jobs') \in Verdicts /\ nodeStatus(jobs').ids \subseteq {tune.id}
      BY <1>t DEF nodeStatus, Verdicts, TuningTypes, Tunes
  <2>3. tune' \in Tunes /\ tune'.id = 0 /\ tune'.verdict = nodeStatus(jobs')
      BY <2>1, <2>2, TuningConstants DEF Tunes
  <2>4. TuningTypes'
      BY <1>t, <1>u, <2>1, <2>3, ApplyJobFits DEF TuningTypes
  <2>5. CopiesCurrent' /\ ContainersNamed'
      BY <1>t, <1>u, <2>1, <2>2, <2>3 DEF CopiesCurrent, ContainersNamed, TuningTypes
  <2>6. JobsFit'
      BY <1>t, <1>u, <2>1, ApplyJobFits DEF JobsFit, JobTypes
  <2>7. TunedBeforeStart'
    <3> SUFFICES ASSUME Starting' PROVE StatusOfContainer' /\ (LetsStart' => StaysTuned')
        BY DEF TunedBeforeStart
    <3>1. Starting /\ StatusOfContainer /\ (LetsStart => StaysTuned)
        BY <1>t, <1>u DEF TunedBeforeStart
    <3>2. StatusOfContainer'
        BY <1>u, <2>1, <3>1 DEF StatusOfContainer
    <3>3. ASSUME LetsStart PROVE StaysTuned'
      <4>1. tune.id = pod.cont /\ tune.enabled /\ pod.cont # 0 /\ StaysTuned
          BY <2>1, <3>1, <3>3 DEF StaysTuned, Starting
      <4>2. /\ jobs'["perftune"].done
            /\ \A j \in {"containers", "rlimits"} : jobs'[j] = [of |-> pod.cont, done |-> TRUE]
        <5>1. jobs' = [j \in JobTypes |-> jobs'[j]] /\ \A j \in JobTypes : jobs'[j] \in {jobs[j], ApplyJob(j)}
            BY <2>1
        <5> QED
            BY <3>1, <4>1, <5>1, TunedIsKept
      <4>3. TunedFor(pod.cont)'
          BY <1>u, <4>1, <4>2 DEF StaysTuned, TunedFor
      <4> QED
          BY <1>u, <2>1, <4>1, <4>3 DEF StaysTuned
    <3>4. ASSUME "sync" \notin old, tune'.verdict.node, pod.cont \in tune'.verdict.ids PROVE StaysTuned'
      <4>1. tune.enabled /\ seen.enabled /\ tune.sysctl # 0
          BY <1>t, <2>1, <3>1, <3>4 DEF CopiesCurrent, ViewsCurrent, Starting
      <4>2. pod.cont = tune.id /\ pod.cont # 0
          BY <2>2, <2>3, <3>1, <3>4 DEF Starting
      <4>3. status.id = pod.cont /\ status.up /\ status = [id |-> pod.cont, up |-> TRUE]
          BY <1>t, <2>1, <3>1, <4>2 DEF StatusOfContainer, TuningTypes, Statuses
      <4>4. /\ requiredJobs["perftune"] = 1 /\ requiredJobs["containers"] = pod.cont
            /\ requiredJobs["rlimits"] = pod.cont /\ requiredJobs["sysctls"] # 0
          BY <4>1, <4>2 DEF requiredJobs, makePerftuneJobForNode, makePerftuneJobForContainers,
               makeRlimitsJobForContainer, makeSysctlsJobForNode
      <4>5. /\ \A j \in NodeJobs : requiredJobs[j] # 0 => jobs'[j].done
            /\ \A j \in JobTypes \ NodeJobs : requiredJobs[j] # 0 => jobs'[j].done
          BY <2>3, <3>4 DEF nodeStatus
      <4>6. /\ jobs'["perftune"].done /\ jobs'["sysctls"].done
            /\ jobs'["containers"].done /\ jobs'["rlimits"].done
          BY <4>2, <4>4, <4>5 DEF NodeJobs, JobTypes
      <4>7. \A j \in JobTypes : jobs'[j] = ApplyJob(j)
          BY <2>1
      <4>8. \A j \in {"containers", "rlimits"} : jobs'[j] = jobs[j] /\ jobs[j].of = pod.cont /\ jobs[j].done
          BY <4>2, <4>4, <4>6, <4>7, ApplyJobFits DEF JobTypes
      <4>9. \A j \in {"containers", "rlimits"} : jobs[j] \in [of : Nat, done : BOOLEAN]
          BY <1>t DEF TuningTypes, Jobs, JobTypes
      <4>10. \A j \in {"containers", "rlimits"} : jobs'[j] = [of |-> pod.cont, done |-> TRUE]
          BY <4>8, <4>9
      <4>11. sysctl # 0
          BY <1>t, <4>6, <4>7, ApplyJobFits DEF JobsFit, JobTypes
      <4> QED
          BY <1>u, <2>1, <4>1, <4>3, <4>6, <4>10, <4>11 DEF StaysTuned, TunedFor
    <3>5. LetsStart' => LetsStart \/ ("sync" \notin old /\ tune'.verdict.node /\ pod.cont \in tune'.verdict.ids)
        BY <1>u, <2>1 DEF LetsStart, IsNodeTunedForContainer
    <3> QED
        BY <3>2, <3>3, <3>4, <3>5
  <2> QED
      BY <1>v, <2>4, <2>5, <2>6, <2>7 DEF TuningInv
<1> QED
    BY <1>1, <1>2

(* So does a sync that ends early, and it leaves Jobs that fit.             *)
LEMMA InterruptedSync ==
    ASSUME TuningInv, Interrupted \/ UNCHANGED jobs, UNCHANGED sysctl
    PROVE  /\ jobs' \in [JobTypes -> Jobs] /\ JobsFit'
           /\ Starting /\ StaysTuned =>
                 /\ jobs'["perftune"].done
                 /\ \A j \in {"containers", "rlimits"} : jobs'[j] = [of |-> pod.cont, done |-> TRUE]
<1>t. TuningTypes /\ JobsFit
    BY DEF TuningInv
<1>1. CASE UNCHANGED jobs
    BY <1>t, <1>1 DEF TuningTypes, JobsFit, StaysTuned, TunedFor
<1>2. CASE stage = "apply" /\ PartlySynced
  <2>1. jobs' = [j \in JobTypes |-> jobs'[j]] /\ \A j \in JobTypes : jobs'[j] \in {jobs[j], ApplyJob(j)}
      BY <1>2 DEF PartlySynced
  <2>2. jobs' \in [JobTypes -> Jobs]
      BY <1>t, <2>1, ApplyJobFits DEF TuningTypes
  <2>3. JobsFit'
      BY <1>t, <2>1, ApplyJobFits DEF JobsFit, JobTypes
  <2>4. ASSUME Starting, StaysTuned
        PROVE  /\ jobs'["perftune"].done
               /\ \A j \in {"containers", "rlimits"} : jobs'[j] = [of |-> pod.cont, done |-> TRUE]
    <3>1. tune.id = pod.cont /\ tune.enabled
        BY <1>2, <2>4 DEF StaysTuned
    <3> QED
        BY <2>1, <2>4, <3>1, TunedIsKept
  <2> QED
      BY <2>2, <2>3, <2>4
<1> QED
    BY <1>1, <1>2 DEF Interrupted

(* Where a sync of the tune controller ends, and the Jobs' own steps.       *)
LEMMA TuneEndStep ==
    ASSUME TuningInv,
           updateTuneStatus \/ TuneCallFails \/ TuneStatusFails \/ TuneRestarts
             \/ \E j \in JobTypes : JobCompletes(j)
    PROVE  TuningInv'
<1>t. /\ TuningTypes /\ CopiesCurrent /\ JobsFit
      /\ ContainersNamed /\ ViewsCurrent /\ TunedBeforeStart
    BY DEF TuningInv
<1>u. UNCHANGED <<made, pod, status, view, ign>> /\ (Starting' = Starting)
    BY DEF updateTuneStatus, TuneCallFails, TuneStatusFails, TuneRestarts, JobCompletes, Starting
<1>v. nc'.spec = nc.spec => ViewsCurrent'
    BY <1>t, <1>u DEF ViewsCurrent
<1>s. Starting => StatusOfContainer /\ (LetsStart => StaysTuned)
    BY <1>t DEF TunedBeforeStart
<1>1. CASE updateTuneStatus
  <2>1. /\ stage = "status" /\ stage' = "idle" /\ tune' = NoTune /\ UNCHANGED <<seen, jobs, sysctl>>
        /\ \/ "sync" \in old /\ nc' = nc /\ old' = old \ {"sync"}
           \/ "sync" \notin old /\ nc' = [nc EXCEPT !.tuned = tune.verdict]
              /\ (old' = old \/ "cache" \in old')
      BY <1>1 DEF updateTuneStatus, UpdateStatus, Older
  <2>2. tune.verdict \in Verdicts
      BY <1>t DEF TuningTypes, Tunes
  <2>3. nc' \in NodeConfigs /\ nc'.spec = nc.spec /\ nc'.tuned \in {nc.tuned, tune.verdict}
        /\ ("sync" \in old => nc'.tuned = nc.tuned)
      BY <1>t, <2>1, <2>2 DEF TuningTypes, NodeConfigs
  <2>4. TuningTypes' /\ JobsFit'
      BY <1>t, <1>u, <2>1, <2>3, TuningConstants DEF TuningTypes, JobsFit
  <2>5. CopiesCurrent'
      BY <1>t, <2>1, <2>3 DEF CopiesCurrent
  <2>6. ContainersNamed'
      BY <1>t, <1>u, <2>1, <2>3, TuningConstants DEF ContainersNamed, Untuned, TuningTypes
  <2>7. TunedBeforeStart'
    <3> SUFFICES ASSUME Starting' PROVE StatusOfContainer' /\ (LetsStart' => StaysTuned')
        BY DEF TunedBeforeStart
    <3>1. StatusOfContainer'
        BY <1>s, <1>u, <2>1 DEF StatusOfContainer
    <3>2. LetsStart' => LetsStart
        BY <1>u, <2>1, <2>3 DEF LetsStart, IsNodeTunedForContainer
    <3>3. StaysTuned => StaysTuned'
        BY <1>u, <2>1 DEF StaysTuned, TunedFor
    <3> QED
        BY <1>s, <1>u, <3>1, <3>2, <3>3
  <2> QED
      BY <1>v, <2>3, <2>4, <2>5, <2>6, <2>7 DEF TuningInv
<1>2. CASE TuneCallFails \/ TuneStatusFails \/ TuneRestarts
  <2>1. /\ stage' \in {"status", "idle"} /\ tune' = NoTune /\ UNCHANGED <<nc, sysctl>>
        /\ \/ seen' = seen /\ old' \in {old, old \ {"sync"}} /\ (stage' = "status" => stage # "idle" /\ old' = old)
           \/ seen' = nc.spec /\ old' = {}
      BY <1>2 DEF TuneCallFails, TuneStatusFails, TuneRestarts, StatusCallFails, StartDaemon
  <2>2. Interrupted \/ UNCHANGED jobs
      BY <1>2 DEF TuneCallFails, TuneStatusFails, TuneRestarts, Interrupted
  <2>3. TuningTypes' /\ JobsFit' /\ ViewsCurrent'
      BY <1>t, <1>u, <1>v, <2>1, <2>2, InterruptedSync, TuningConstants DEF TuningTypes, NodeConfigs
  <2>4. CopiesCurrent' /\ ContainersNamed'
      BY <1>t, <1>u, <2>1, TuningConstants DEF CopiesCurrent, ContainersNamed, Untuned, TuningTypes
  <2>5. TunedBeforeStart'
    <3> SUFFICES ASSUME Starting' PROVE StatusOfContainer' /\ (LetsStart' => StaysTuned')
        BY DEF TunedBeforeStart
    <3>1. StatusOfContainer' /\ (LetsStart' => LetsStart)
        BY <1>s, <1>u, <2>1, TuningConstants DEF StatusOfContainer, LetsStart, IsNodeTunedForContainer, Untuned
    <3>2. nc.spec.enabled
        BY <1>t, <1>u DEF ViewsCurrent, Starting
    <3>3. ASSUME StaysTuned PROVE StaysTuned'
      <4>1. /\ jobs'["perftune"].done
            /\ \A j \in {"containers", "rlimits"} : jobs'[j] = [of |-> pod.cont, done |-> TRUE]
          BY <1>u, <2>1, <2>2, <3>3, InterruptedSync
      <4> QED
          BY <1>u, <2>1, <3>2, <3>3, <4>1 DEF StaysTuned, TunedFor
    <3> QED
        BY <1>s, <1>u, <3>1, <3>3
  <2> QED
      BY <2>3, <2>4, <2>5 DEF TuningInv
<1>3. ASSUME NEW j \in JobTypes, JobCompletes(j) PROVE TuningInv'
  <2>1. /\ jobs[j].of # 0 /\ ~jobs[j].done /\ UNCHANGED <<nc, seen, old, stage, tune>>
        /\ jobs' = [jobs EXCEPT ![j] = [jobs[j] EXCEPT !.done = TRUE]]
        /\ sysctl' = IF j = "sysctls" THEN jobs[j].of ELSE sysctl
      BY <1>3 DEF JobCompletes, daemon
  <2>2. jobs[j] \in Jobs /\ [jobs[j] EXCEPT !.done = TRUE] \in Jobs
        /\ [jobs[j] EXCEPT !.done = TRUE].of = jobs[j].of
      BY <1>t DEF TuningTypes, Jobs
  <2>3. TuningTypes'
      BY <1>t, <1>u, <2>1, <2>2 DEF TuningTypes, Jobs
  <2>4. CopiesCurrent' /\ ContainersNamed'
      BY <1>t, <1>u, <2>1 DEF CopiesCurrent, ContainersNamed
  <2>5. jobs'[j].of = jobs[j].of /\ \A k \in JobTypes : k # j => jobs'[k] = jobs[k]
      BY <1>t, <2>1, <2>2 DEF TuningTypes
  <2>6. JobsFit'
      BY <1>t, <2>1, <2>5 DEF JobsFit, JobTypes
  <2>7. TunedBeforeStart'
    <3> SUFFICES ASSUME Starting' PROVE StatusOfContainer' /\ (LetsStart' => StaysTuned')
        BY DEF TunedBeforeStart
    <3>1. StatusOfContainer' /\ (LetsStart' => LetsStart)
        BY <1>s, <1>u, <2>1 DEF StatusOfContainer, LetsStart, IsNodeTunedForContainer
    <3>2. ASSUME StaysTuned PROVE StaysTuned'
      <4>1. j = "sysctls"
          BY <2>1, <3>2 DEF StaysTuned, TunedFor, JobTypes
      <4> QED
          BY <1>u, <2>1, <2>5, <3>2, <4>1 DEF StaysTuned, TunedFor, JobTypes
    <3> QED
        BY <1>s, <1>u, <3>1, <3>2
  <2> QED
      BY <1>v, <2>1, <2>3, <2>4, <2>6, <2>7 DEF TuningInv
<1> QED
    BY <1>1, <1>2, <1>3

(* The NodeConfig's other writers, and the informer.                        *)
LEMMA NodeConfigStep ==
    ASSUME TuningInv,
           EditTuning \/ ((ObserveNodeConfig \/ OthersWriteStatus) /\ UNCHANGED tuning)
    PROVE  TuningInv'
<1>t. /\ TuningTypes /\ CopiesCurrent /\ JobsFit
      /\ ContainersNamed /\ ViewsCurrent /\ TunedBeforeStart
    BY DEF TuningInv
<1>s. Starting => StatusOfContainer /\ (LetsStart => StaysTuned)
    BY <1>t DEF TunedBeforeStart
<1>1. CASE EditTuning
  <2>1. PICK spec :
          /\ nc' = [nc EXCEPT !.spec = spec] /\ old' = Older(stage)
          /\ UNCHANGED <<seen, stage, made, status, ign, jobs, sysctl, tune>>
          /\ \/ spec = [nc.spec EXCEPT !.sysctl = @ + 1] /\ UNCHANGED <<pod, view>>
             \/ /\ spec = [nc.spec EXCEPT !.enabled = ~@] /\ pod' = [pod EXCEPT !.always = FALSE]
                /\ view' = [view EXCEPT !.old = TRUE]
      BY <1>1 DEF EditTuning, EditNodeConfig
  <2>2. nc.spec \in Specs
      BY <1>t DEF TuningTypes, NodeConfigs
  <2>3. /\ spec \in Specs
        /\ \/ spec.enabled = nc.spec.enabled /\ UNCHANGED <<pod, view>>
           \/ pod' = [pod EXCEPT !.always = FALSE] /\ view' = [view EXCEPT !.old = TRUE]
    <3>1. /\ [nc.spec EXCEPT !.sysctl = @ + 1] \in Specs
          /\ [nc.spec EXCEPT !.sysctl = @ + 1].enabled = nc.spec.enabled
        BY <2>2 DEF Specs
    <3>2. (~nc.spec.enabled) \in BOOLEAN
        BY <2>2 DEF Specs
    <3>3. [nc.spec EXCEPT !.enabled = ~@] \in Specs
        BY <2>2, <3>2 DEF Specs
    <3> QED
        BY <2>1, <3>1, <3>3
  <2>4. nc' \in NodeConfigs /\ nc'.spec = spec /\ nc'.tuned = nc.tuned
      BY <1>t, <2>1, <2>3 DEF TuningTypes, NodeConfigs
  <2>5. /\ pod' \in Pods /\ pod'.cont = pod.cont /\ pod'.first = pod.first
        /\ pod'.always => pod' = pod /\ view' = view /\ spec.enabled = nc.spec.enabled
        /\ view' \in Views /\ view'.tuned = view.tuned
        /\ ~view'.old => view' = view /\ spec.enabled = nc.spec.enabled
      BY <1>t, <2>3 DEF TuningTypes, Pods, Views
  <2>6. "cache" \in old' /\ (stage # "idle" => "sync" \in old')
      BY <2>1 DEF Older
  <2>7. TuningTypes' /\ JobsFit'
      BY <1>t, <2>1, <2>4, <2>5 DEF TuningTypes, JobsFit
  <2>8. CopiesCurrent'
      BY <1>t, <2>1, <2>6 DEF CopiesCurrent
  <2>9. ContainersNamed' /\ ViewsCurrent'
      BY <1>t, <2>1, <2>4, <2>5 DEF ContainersNamed, ViewsCurrent
  <2>10. TunedBeforeStart'
    <3> SUFFICES ASSUME Starting' PROVE StatusOfContainer' /\ (LetsStart' => StaysTuned')
        BY DEF TunedBeforeStart
    <3>1. Starting /\ pod' = pod /\ view' = view
        BY <2>5 DEF Starting
    <3>2. StatusOfContainer' /\ (LetsStart' => LetsStart) /\ (StaysTuned => StaysTuned')
        BY <1>s, <2>1, <2>4, <2>6, <3>1 DEF StatusOfContainer, LetsStart, IsNodeTunedForContainer,
             StaysTuned, TunedFor
    <3> QED
        BY <1>s, <3>1, <3>2
  <2> QED
      BY <2>7, <2>8, <2>9, <2>10 DEF TuningInv
<1>2. CASE (ObserveNodeConfig \/ OthersWriteStatus) /\ UNCHANGED tuning
  <2>1. /\ UNCHANGED <<nc, stage, made, pod, status, view, ign, jobs, sysctl, tune>>
        /\ \/ seen' = nc.spec /\ old' = old \ {"cache"}
           \/ seen' = seen /\ "cache" \in old' /\ (stage # "idle" => "sync" \in old')
      BY <1>2 DEF ObserveNodeConfig, OthersWriteStatus, tuning, Older
  <2>2. TuningTypes' /\ JobsFit' /\ ContainersNamed' /\ ViewsCurrent'
      BY <1>t, <2>1 DEF TuningTypes, NodeConfigs, JobsFit, ContainersNamed, ViewsCurrent
  <2>3. CopiesCurrent'
      BY <1>t, <2>1 DEF CopiesCurrent
  <2>4. TunedBeforeStart'
    <3> SUFFICES ASSUME Starting' PROVE StatusOfContainer' /\ (LetsStart' => StaysTuned')
        BY DEF TunedBeforeStart
    <3>1. Starting /\ nc.spec.enabled
        BY <1>t, <2>1 DEF ViewsCurrent, Starting
    <3>2. LetsStart' => LetsStart
        BY <2>1 DEF LetsStart, IsNodeTunedForContainer
    <3>3. StatusOfContainer' /\ (StaysTuned => StaysTuned')
        BY <1>s, <2>1, <3>1 DEF StatusOfContainer, StaysTuned, TunedFor
    <3> QED
        BY <1>s, <3>1, <3>2, <3>3
  <2> QED
      BY <2>2, <2>3, <2>4 DEF TuningInv
<1> QED
    BY <1>1, <1>2

(* The NodeConfigPod controller, the ignition sidecar and the kubelet.      *)
LEMMA PodStep ==
    ASSUME TuningInv,
           syncConfigMaps \/ EvaluateIgnition \/ TouchFile \/ CreateContainer \/ ReportStatus
             \/ StartScylla \/ ContainerExits \/ ReplacePod \/ PodRestarts
    PROVE  TuningInv'
<1>t. /\ TuningTypes /\ CopiesCurrent /\ JobsFit
      /\ ContainersNamed /\ ViewsCurrent /\ TunedBeforeStart
    BY DEF TuningInv
<1>s. Starting => StatusOfContainer /\ (LetsStart => StaysTuned)
    BY <1>t DEF TunedBeforeStart
<1>n. nc \in NodeConfigs /\ nc.tuned \in Verdicts /\ nc.spec \in Specs
    BY <1>t DEF TuningTypes, NodeConfigs
<1>1. CASE syncConfigMaps \/ EvaluateIgnition \/ TouchFile
  <2>1. UNCHANGED <<nc, seen, old, stage, made, pod, status, jobs, sysctl, tune>>
      BY <1>1 DEF syncConfigMaps, EvaluateIgnition, TouchFile, Elsewhere, daemon
  <2>2. /\ view' \in Views /\ view'.tuned \in {view.tuned, nc.tuned} /\ ign' \in Ignitions
        /\ view' = view \/ (view'.old = view.old /\ view'.enabled = view.enabled)
             \/ (~view'.old /\ view'.enabled = nc.spec.enabled)
        /\ ign'.verdict => ign.verdict \/ evaluateIgnitionState
        /\ ign'.file => ign.file \/ ign.verdict
    <3>1. CASE syncConfigMaps
      <4>1. ign' = ign /\ (view' = updateNodeConfig \/ view' = updatePod)
          BY <3>1 DEF syncConfigMaps
      <4>2. nc.spec.enabled \in BOOLEAN /\ status.id \in Nat /\ view \in Views
          BY <1>t, <1>n DEF TuningTypes, Statuses, Specs
      <4>3. updateNodeConfig = [enabled |-> nc.spec.enabled, old |-> FALSE, tuned |-> nc.tuned, id |-> view.id]
          BY DEF updateNodeConfig
      <4>4. updatePod = [enabled |-> view.enabled, old |-> view.old, tuned |-> view.tuned, id |-> status.id]
          BY <4>2 DEF updatePod, Views
      <4>5. view.enabled \in BOOLEAN /\ view.old \in BOOLEAN /\ view.tuned \in Verdicts /\ view.id \in Nat
          BY <4>2 DEF Views
      <4>6. CASE view' = updateNodeConfig
          BY <1>t, <1>n, <4>1, <4>2, <4>3, <4>5, <4>6 DEF Views, TuningTypes
      <4>7. CASE view' = updatePod
          BY <1>t, <4>1, <4>2, <4>4, <4>5, <4>7 DEF Views, TuningTypes
      <4> QED
          BY <4>1, <4>6, <4>7
    <3>2. CASE EvaluateIgnition
      <4>1. view' = view /\ ign' = [ign EXCEPT !.verdict = evaluateIgnitionState,
                                              !.ignited = ign.ignited /\ evaluateIgnitionState]
          BY <3>2 DEF EvaluateIgnition, Elsewhere
      <4>2. evaluateIgnitionState \in BOOLEAN /\ (ign.ignited /\ evaluateIgnitionState) \in BOOLEAN
          BY DEF evaluateIgnitionState
      <4> QED
          BY <1>t, <4>1, <4>2 DEF TuningTypes, Ignitions
    <3>3. CASE TouchFile
        BY <1>t, <3>3 DEF TouchFile, Elsewhere, TuningTypes, Ignitions
    <3> QED
        BY <1>1, <3>1, <3>2, <3>3
  <2>3. TuningTypes' /\ CopiesCurrent' /\ JobsFit'
      BY <1>t, <2>1, <2>2 DEF TuningTypes, CopiesCurrent, JobsFit
  <2>4. ContainersNamed' /\ ViewsCurrent'
    <3>1. status.id = 0 => ~evaluateIgnitionState
        BY DEF evaluateIgnitionState
    <3>2. ContainersNamed'
        BY <1>t, <2>1, <2>2, <3>1, TuningConstants DEF ContainersNamed
    <3>3. ViewsCurrent'
        BY <1>t, <2>1, <2>2 DEF ViewsCurrent
    <3> QED
        BY <3>2, <3>3
  <2>5. TunedBeforeStart'
    <3> SUFFICES ASSUME Starting' PROVE StatusOfContainer' /\ (LetsStart' => StaysTuned')
        BY DEF TunedBeforeStart
    <3>1. Starting /\ nc.spec.enabled /\ view.enabled
        BY <1>t, <2>1 DEF ViewsCurrent, Starting
    <3>2. StatusOfContainer' /\ (StaysTuned => StaysTuned')
        BY <1>s, <2>1, <3>1 DEF StatusOfContainer, StaysTuned, TunedFor
    <3>3. ASSUME evaluateIgnitionState PROVE LetsStart
      <4>1. status.id = pod.cont
          BY <1>s, <3>1, <3>3 DEF evaluateIgnitionState, StatusOfContainer
      <4>2. view.id = pod.cont /\ IsNodeTunedForContainer(view.tuned, view.id)
          BY <3>1, <3>3, <4>1 DEF evaluateIgnitionState, makeConfigMap
      <4> QED
          BY <4>2 DEF LetsStart, IsNodeTunedForContainer
    <3>4. LetsStart' => LetsStart
        BY <2>1, <2>2, <3>3 DEF LetsStart, IsNodeTunedForContainer
    <3> QED
        BY <1>s, <3>1, <3>2, <3>4
  <2> QED
      BY <2>3, <2>4, <2>5 DEF TuningInv
<1>2. CASE CreateContainer
  <2>1. /\ pod.cont = 0 /\ made' = made + 1
        /\ UNCHANGED <<nc, seen, old, stage, jobs, sysctl, tune, status, view, ign>>
        /\ pod' = [pod EXCEPT !.cont = made', !.first = IF @ = 0 THEN made' ELSE @]
      BY <1>2 DEF CreateContainer, OnPod
  <2>2. /\ made \in Nat /\ made' \in Nat /\ pod' \in Pods /\ pod'.cont = made + 1
        /\ pod'.always = pod.always /\ pod'.known = pod.known
        /\ pod'.first = IF pod.first = 0 THEN made + 1 ELSE pod.first
    <3> DEFINE first == IF pod.first = 0 THEN made + 1 ELSE pod.first
    <3>1. made \in Nat /\ pod \in Pods
        BY <1>t DEF TuningTypes
    <3>2. first \in Nat
        BY <3>1 DEF Pods
    <3>3. pod' = [pod EXCEPT !.cont = made + 1, !.first = first]
        BY <2>1, <3>1 DEF Pods
    <3> HIDE DEF first
    <3>4. pod' = [cont |-> made + 1, first |-> first, always |-> pod.always, known |-> pod.known,
                  running |-> pod.running]
        BY <3>1, <3>3 DEF Pods
    <3>5. pod.always \in BOOLEAN /\ pod.known \in BOOLEAN /\ pod.running \in BOOLEAN
        BY <3>1 DEF Pods
    <3>6. /\ pod' \in Pods /\ pod'.cont = made + 1 /\ pod'.first = first
          /\ pod'.always = pod.always /\ pod'.known = pod.known
        BY <3>1, <3>2, <3>4, <3>5 DEF Pods
    <3> QED
        BY <2>1, <3>1, <3>6 DEF first
  <2>3. TuningTypes' /\ CopiesCurrent' /\ JobsFit'
      BY <1>t, <2>1, <2>2 DEF TuningTypes, CopiesCurrent, JobsFit
  <2>4. pod.first \in Nat /\ status.id \in Nat /\ tune.id \in Nat
        /\ nc.tuned.ids \cup view.tuned.ids \cup tune.verdict.ids \subseteq Nat
      BY <1>t, <1>n DEF TuningTypes, Pods, Statuses, Views, Tunes, Verdicts
  <2>5. ContainersNamed' /\ ViewsCurrent'
      BY <1>t, <2>1, <2>2, <2>4 DEF ContainersNamed, ViewsCurrent
  <2>6. TunedBeforeStart'
    <3> SUFFICES ASSUME Starting' PROVE StatusOfContainer' /\ ~LetsStart'
        BY DEF TunedBeforeStart
    <3>1. pod.first = 0
      <4>1. pod.first <= made /\ pod'.cont = pod'.first
          BY <1>t DEF ContainersNamed, Starting
      <4> QED
          BY <2>2, <2>4, <4>1
    <3>2. status.id = 0 /\ ~ign.verdict /\ ~ign.file /\ tune.id <= made
          /\ \A id \in nc.tuned.ids \cup view.tuned.ids \cup tune.verdict.ids : id <= made
        BY <1>t, <3>1, TuningConstants DEF ContainersNamed
    <3> QED
        BY <2>1, <2>2, <2>4, <3>2 DEF StatusOfContainer, LetsStart, IsNodeTunedForContainer
  <2> QED
      BY <2>3, <2>5, <2>6 DEF TuningInv
<1>3. CASE ReportStatus
  <2>1. /\ UNCHANGED <<nc, seen, old, stage, made, pod, jobs, sysctl, tune, view, ign>>
        /\ status' = [id |-> IF pod.first = 0 THEN 0 ELSE made, up |-> pod.cont # 0]
      BY <1>3 DEF ReportStatus, OnPod, Actual
  <2>2. status' \in Statuses
      BY <1>t, <2>1 DEF TuningTypes, Statuses
  <2>3. TuningTypes' /\ CopiesCurrent' /\ JobsFit'
      BY <1>t, <2>1, <2>2 DEF TuningTypes, CopiesCurrent, JobsFit
  <2>4. ContainersNamed' /\ ViewsCurrent'
    <3>1. made \in Nat /\ (pod.first = 0 => pod.cont = 0)
        BY <1>t DEF ContainersNamed, TuningTypes
    <3>2. status'.id <= made
        BY <2>1, <3>1
    <3>3. ASSUME pod.first = 0 PROVE status' = NewStatus
      <4>1. (pod.cont # 0) = FALSE
          BY <3>1, <3>3
      <4> QED
          BY <2>1, <3>3, <4>1 DEF NewStatus
    <3> QED
        BY <1>t, <2>1, <3>1, <3>2, <3>3, TuningConstants DEF ContainersNamed, ViewsCurrent
  <2>5. TunedBeforeStart'
    <3> SUFFICES ASSUME Starting' PROVE StatusOfContainer' /\ (LetsStart' => StaysTuned')
        BY DEF TunedBeforeStart
    <3>1. Starting /\ pod.cont = made /\ pod.first # 0
        BY <1>t, <2>1 DEF ContainersNamed, Starting
    <3>2. status' = [id |-> pod.cont, up |-> TRUE]
        BY <2>1, <3>1 DEF Starting
    <3>3. StatusOfContainer'
        BY <2>1, <3>2 DEF StatusOfContainer
    <3>4. LetsStart' => LetsStart
        BY <2>1 DEF LetsStart, IsNodeTunedForContainer
    <3>5. StaysTuned => StaysTuned'
        BY <2>1, <3>2 DEF StaysTuned, TunedFor
    <3> QED
        BY <1>s, <3>1, <3>3, <3>4, <3>5
  <2> QED
      BY <2>3, <2>4, <2>5 DEF TuningInv
<1>4. CASE StartScylla
  <2>1. /\ UNCHANGED <<nc, seen, old, stage, made, status, jobs, sysctl, tune, view, ign>>
        /\ pod' = [pod EXCEPT !.running = TRUE]
      BY <1>4 DEF StartScylla, OnPod
  <2>2. /\ pod' \in Pods /\ pod'.cont = pod.cont /\ pod'.first = pod.first
        /\ pod'.always = pod.always /\ pod'.known = pod.known
      BY <1>t, <2>1 DEF TuningTypes, Pods
  <2>3. TuningTypes' /\ CopiesCurrent' /\ JobsFit' /\ ContainersNamed' /\ ViewsCurrent'
      BY <1>t, <2>1, <2>2 DEF TuningTypes, CopiesCurrent, JobsFit, ContainersNamed, ViewsCurrent
  <2>4. TunedBeforeStart'
      BY <1>t, <2>1, <2>2 DEF TunedBeforeStart, Starting, StatusOfContainer, LetsStart, IsNodeTunedForContainer,
         StaysTuned, TunedFor
  <2> QED
      BY <2>3, <2>4 DEF TuningInv
<1>5. CASE ContainerExits
  <2>1. /\ UNCHANGED <<nc, seen, old, stage, made, status, jobs, sysctl, tune, view>>
        /\ pod' = [pod EXCEPT !.cont = 0, !.running = FALSE]
        /\ \E stopped \in BOOLEAN : ign' = [ign EXCEPT !.file = ign.file /\ ~stopped]
      BY <1>5 DEF ContainerExits, OnPod
  <2>2. /\ pod' \in Pods /\ pod'.cont = 0 /\ pod'.first = pod.first
        /\ pod'.always = pod.always /\ pod'.known = pod.known
      BY <1>t, <2>1 DEF TuningTypes, Pods
  <2>3. ign' \in Ignitions /\ (ign'.file => ign.file) /\ ign'.verdict = ign.verdict
    <3>1. PICK file \in BOOLEAN : ign' = [ign EXCEPT !.file = file] /\ (file => ign.file)
        BY <2>1
    <3> QED
        BY <1>t, <3>1 DEF TuningTypes, Ignitions
  <2>4. TuningTypes' /\ CopiesCurrent' /\ JobsFit' /\ ContainersNamed' /\ ViewsCurrent'
      BY <1>t, <2>1, <2>2, <2>3 DEF TuningTypes, CopiesCurrent, JobsFit, ContainersNamed, ViewsCurrent
  <2>5. TunedBeforeStart'
      BY <2>2 DEF TunedBeforeStart, Starting
  <2> QED
      BY <2>4, <2>5 DEF TuningInv
<1>6. CASE ReplacePod
  <2>1. /\ UNCHANGED <<nc, seen, old, stage, made, jobs, sysctl, tune>>
        /\ pod' = [cont |-> 0, first |-> 0, always |-> nc.spec.enabled, known |-> ~view.old, running |-> FALSE]
        /\ status' = NewStatus /\ view' = [view EXCEPT !.id = 0]
        /\ ign' = [verdict |-> FALSE, ignited |-> FALSE, file |-> FALSE]
      BY <1>6 DEF ReplacePod, OnPod, NewPod, StartIgnition
  <2>2. pod' \in Pods /\ ign' \in Ignitions
    <3>1. (~view.old) \in BOOLEAN /\ nc.spec.enabled \in BOOLEAN
        BY <1>n DEF Specs
    <3> QED
        BY <2>1, <3>1 DEF Pods, Ignitions
  <2>v. /\ view' \in Views /\ view'.tuned = view.tuned /\ view'.old = view.old
        /\ view'.enabled = view.enabled
      BY <1>t, <2>1 DEF TuningTypes, Views
  <2>3. TuningTypes' /\ CopiesCurrent' /\ JobsFit'
      BY <1>t, <2>1, <2>2, <2>v, TuningConstants DEF TuningTypes, CopiesCurrent, JobsFit
  <2>4. ContainersNamed'
      BY <1>t, <2>1, <2>v, TuningConstants DEF ContainersNamed, TuningTypes
  <2>w. ViewsCurrent'
    <3>1. pod'.always = nc.spec.enabled /\ pod'.known = ~view.old
        BY <2>1, Zenon
    <3> QED
        BY <1>t, <2>1, <2>v, <3>1, Zenon DEF ViewsCurrent
  <2>5. TunedBeforeStart'
      BY <2>1 DEF TunedBeforeStart, Starting
  <2> QED
      BY <2>3, <2>4, <2>5, <2>w DEF TuningInv
<1>7. CASE PodRestarts
  <2>1. /\ UNCHANGED <<nc, made, status, view, sysctl>> /\ Interrupted
        /\ seen' = nc.spec /\ old' = {} /\ stage' = "idle" /\ tune' = NoTune
        /\ pod' = [pod EXCEPT !.cont = 0, !.running = FALSE]
        /\ ign' = [verdict |-> FALSE, ignited |-> FALSE, file |-> ign.file]
      BY <1>7 DEF PodRestarts, StartDaemon, StartIgnition
  <2>2. /\ pod' \in Pods /\ pod'.cont = 0 /\ pod'.first = pod.first
        /\ pod'.always = pod.always /\ pod'.known = pod.known
        /\ ign' \in Ignitions
      BY <1>t, <2>1 DEF TuningTypes, Pods, Ignitions
  <2>3. TuningTypes' /\ CopiesCurrent' /\ JobsFit'
      BY <1>t, <1>n, <2>1, <2>2, InterruptedSync, TuningConstants DEF TuningTypes, CopiesCurrent
  <2>4. ContainersNamed' /\ ViewsCurrent'
      BY <1>t, <2>1, <2>2, TuningConstants DEF ContainersNamed, ViewsCurrent, Untuned, TuningTypes
  <2>5. TunedBeforeStart'
      BY <2>2 DEF TunedBeforeStart, Starting
  <2> QED
      BY <2>3, <2>4, <2>5 DEF TuningInv
<1> QED
    BY <1>1, <1>2, <1>3, <1>4, <1>5, <1>6, <1>7

LEMMA TuningStep ==
    ASSUME TuningInv, TuningNext PROVE TuningInv'
BY TuneSyncStep, TuneEndStep, NodeConfigStep, PodStep DEF TuningNext, Tune, TuneFault

(* ScyllaDB is started by one action only.                                  *)
LEMMA StartIsTuned ==
    ASSUME TuningInv, TuningNext, FirstStart, pod.always, pod.known PROVE TunedFor(pod.cont)
<1> USE DEF FirstStart
<1>1. StartScylla
  <2>1. pod \in Pods
      BY DEF TuningInv, TuningTypes
  <2>2. ~UNCHANGED pod
      OBVIOUS
  <2>3. ~(Tune \/ (\E j \in JobTypes : JobCompletes(j)) \/ TuneCallFails \/ TuneStatusFails \/ TuneRestarts)
      BY <2>2 DEF Tune, StartTune, syncJobs, updateTuneStatus, TuneStep, JobCompletes, TuneCallFails,
         TuneStatusFails, TuneRestarts
  <2>4. ~(syncConfigMaps \/ EvaluateIgnition \/ TouchFile \/ ReportStatus)
      BY <2>2 DEF syncConfigMaps, EvaluateIgnition, TouchFile, ReportStatus, Elsewhere
  <2>5. ~((ObserveNodeConfig \/ OthersWriteStatus) /\ UNCHANGED tuning)
      BY <2>2 DEF tuning
  <2>6. ~(CreateContainer \/ EditTuning)
      BY <2>1, <2>2 DEF CreateContainer, EditTuning, Pods
  <2>7. [pod EXCEPT !.cont = 0, !.running = FALSE].running = FALSE
      BY <2>1 DEF Pods
  <2>8. ~(ContainerExits \/ PodRestarts)
      BY <2>7 DEF ContainerExits, PodRestarts
  <2>9. NewPod(~view.old).running = FALSE
      BY DEF NewPod
  <2>10. ~ReplacePod
      BY <2>9 DEF ReplacePod
  <2> QED
      BY <2>3, <2>4, <2>5, <2>6, <2>8, <2>10 DEF TuningNext, TuneFault
<1>2. Starting /\ LetsStart
    BY <1>1 DEF StartScylla, Starting, LetsStart
<1> QED
    BY <1>2 DEF TuningInv, TunedBeforeStart, StaysTuned

(* StartsTuned holds of every behaviour of the daemon.                      *)
(* In the first container of its Pod, ScyllaDB starts only after the node   *)
(* and that very container were tuned, for every number of containers,      *)
(* edits, faults and status writes, if optimizations are on as long as the  *)
(* Pod is there and the NodeConfigPod controller knew so when it came.      *)
(* The tune controller's status, the copies that makeConfigMap reads, the   *)
(* verdict of the ignition sidecar and the file it touches may each be old, *)
(* yet the container they name is the first one, and no later sync takes    *)
(* back the Jobs that they stand for: the resource version of UpdateStatus  *)
(* shuts out a verdict reached with optimizations off.                      *)
THEOREM StartsOnlyTuned == Spec => StartsTuned
<1>1. Init => TuningPart
    BY TuningInitially DEF TuningPart
<1>2. TuningPart /\ [Next]_vars => TuningPart'
  <2> SUFFICES ASSUME TuningPart, [Next]_vars PROVE TuningPart'
      OBVIOUS
  <2>1. CASE StorageNext /\ OnStorage
      BY <2>1 DEF TuningPart, OnStorage
  <2>2. CASE TuningNext /\ OnTuning
      BY <2>2, TuningStep DEF TuningPart, OnTuning
  <2>3. CASE UNCHANGED vars
      BY <2>3, TuningStutters DEF TuningPart, vars
  <2> QED
      BY <2>1, <2>2, <2>3 DEF Next
<1>3. TuningPart /\ [Next]_vars => [FirstStart /\ pod.always /\ pod.known => TunedFor(pod.cont)]_vars
  <2> SUFFICES ASSUME TuningPart, Next, FirstStart, pod.always, pod.known PROVE TunedFor(pod.cont)
      OBVIOUS
  <2>1. CASE StorageNext /\ OnStorage
      BY <2>1 DEF OnStorage, tuning, FirstStart
  <2>2. CASE TuningNext /\ OnTuning
      BY <2>2, StartIsTuned DEF TuningPart, OnTuning
  <2> QED
      BY <2>1, <2>2 DEF Next
<1> QED
    BY <1>1, <1>2, <1>3, PTL DEF Spec, StartsTuned
=============================================================================
