---------------------------- MODULE NodeStorage ----------------------------
(* The disks of one Kubernetes node, which the node setup daemon lays out   *)
(* as a NodeConfig says: a RAID0 array over the local disks, or a loop      *)
(* device on an image file, then a filesystem on it and a systemd unit that *)
(* mounts it.  Every call that changes the node is a step, as the daemon    *)
(* may stop between any two of them; the stages of a sync that find         *)
(* everything in place are passed over.                                     *)
EXTENDS NodeDaemon

CONSTANT Kinds  \* what the NodeConfig may lay out: "array", "loop"

ASSUME KindsAssumption == Kinds \subseteq {"array", "loop"}

VARIABLES kind,   \* the one it lays out here
          plan,   \* the device that the sync is to lay out, and its conditions
          disk,   \* [array, image, attached, link, fs]
          data,   \* whether ScyllaDB's data is on the filesystem
          unit    \* the mount unit: [file, managed, enabled, state, lost]

storage == <<kind, plan, disk, data, unit>>

NoPlan == [want |-> "none", prog |-> FALSE, deg |-> FALSE]

StorageInit ==
    /\ kind \in Kinds
    /\ plan = NoPlan
    /\ disk = [array |-> "none", image |-> "none", attached |-> FALSE,
               link |-> FALSE, fs |-> FALSE]
    /\ data = FALSE
    /\ unit = [file |-> FALSE, managed |-> FALSE, enabled |-> FALSE,
               state |-> "inactive", lost |-> FALSE]

---------------------------------------------------------------------------
(* What the sync finds on the node.                                         *)

(* The loop devices that have a symlink under /dev/loops.                   *)
discoverNodeConfigLoopDevices == disk.attached /\ disk.link

(* The loop devices of the NodeConfig.                                      *)
getRequiredLoopDeviceImages == kind = "loop" /\ plan.want # "none"

(* The array or the symlink of that name; without it there is no device to  *)
(* format or to mount.                                                      *)
GetDeviceWithName(name) ==
    IF kind = "array" THEN disk.array = name ELSE disk.link /\ name # "none"

(* lsblk tells a filesystem on a device that has a medium.                  *)
GetFilesystemType == disk.fs

Mounted == unit.state = "active"

BlockDeviceReady == kind = "array" \/ disk.attached

Degraded == plan' = [plan EXCEPT !.deg = TRUE]

OnDisk == UNCHANGED <<kind, unit>>
OnUnit == UNCHANGED <<kind, disk, data>>

---------------------------------------------------------------------------
(* Loop devices.                                                            *)

(* The first stage that has something to do for a device of that name.      *)
FirstStage(want) ==
    IF kind = "loop" /\ ~(want # "none" /\ disk.image = "sized" /\ discoverNodeConfigLoopDevices)
    THEN "loops"
    ELSE IF kind = "array" /\ ~GetDeviceWithName(want) THEN "raids"
    ELSE IF ~GetFilesystemType THEN "filesystems" ELSE "mounts"

StartSetup ==
    /\ Begin(FirstStage(seen.want))
    /\ plan' = [NoPlan EXCEPT !.want = seen.want]
    /\ UNCHANGED <<kind, disk, data, unit>>

(* A device that the NodeConfig does not have is deleted: it is detached,   *)
(* lazily as long as it is mounted, then its image and symlink go.          *)
pruneLoopDevices ==
    /\ discoverNodeConfigLoopDevices /\ ~getRequiredLoopDeviceImages
    /\ Step("loops", "detached")
    /\ disk' = [disk EXCEPT !.attached = FALSE]
    /\ unit' = [unit EXCEPT !.lost = unit.state = "active"]
    /\ UNCHANGED <<kind, plan, data>>

removeImage ==
    /\ Step("detached", "imageless")
    /\ disk' = [disk EXCEPT !.image = "none", !.fs = FALSE]
    /\ data' = FALSE
    /\ OnDisk /\ UNCHANGED plan

deleteSymlinkToDevice ==
    /\ Step("imageless", "mounts")
    /\ disk' = [disk EXCEPT !.link = FALSE]
    /\ OnDisk /\ UNCHANGED <<plan, data>>

(* createSparseFile creates the file and then truncates it to its size.     *)
createSparseFile ==
    /\ getRequiredLoopDeviceImages /\ disk.image = "none"
    /\ Step("loops", "truncate")
    /\ disk' = [disk EXCEPT !.image = "empty"]
    /\ OnDisk /\ UNCHANGED <<plan, data>>

truncateSparseFile ==
    /\ Step("truncate", "attach")
    /\ disk' = [disk EXCEPT !.image = "sized"]
    /\ OnDisk /\ UNCHANGED <<plan, data>>

ImageMeansDevice ==  \* mutant: an image that is there is taken to be attached
    /\ getRequiredLoopDeviceImages /\ disk.image # "none"
    /\ Step("loops", "filesystems")
    /\ OnDisk /\ UNCHANGED <<plan, disk, data>>

(* An image of another size is refused, whatever the reason.                *)
makeLoopDeviceImage ==
    /\ getRequiredLoopDeviceImages /\ disk.image # "none"
    /\ \/ disk.image = "sized" /\ Step("loops", "attach") /\ UNCHANGED plan
       \/ disk.image = "empty" /\ Step("loops", "filesystems") /\ Degraded
    /\ OnDisk /\ UNCHANGED <<disk, data>>

attachLoopDevice ==
    /\ Step("attach", "link")
    /\ disk' = [disk EXCEPT !.attached = TRUE]
    /\ OnDisk /\ UNCHANGED <<plan, data>>

makeDeviceSymlink ==
    /\ Step("link", "filesystems")
    /\ disk' = [disk EXCEPT !.link = TRUE]
    /\ OnDisk /\ UNCHANGED <<plan, data>>

NoLoopDevices ==
    /\ ~discoverNodeConfigLoopDevices /\ ~getRequiredLoopDeviceImages
    /\ Step("loops", "mounts")
    /\ OnDisk /\ UNCHANGED <<plan, disk, data>>

syncLoopDevices ==
    \/ pruneLoopDevices \/ removeImage \/ deleteSymlinkToDevice \/ NoLoopDevices
    \/ makeLoopDeviceImage \/ createSparseFile \/ truncateSparseFile
    \/ attachLoopDevice \/ makeDeviceSymlink

---------------------------------------------------------------------------
(* Arrays and filesystems.                                                  *)

(* An array of the name is taken as it is.  Otherwise the disks are         *)
(* discarded and made into one; the kernel lets nobody discard a disk that  *)
(* an array of another name holds.                                          *)
MakeRAID0 ==
    \/ GetDeviceWithName(plan.want) /\ UNCHANGED <<plan, disk, data>>
    \/ /\ ~GetDeviceWithName(plan.want) /\ disk.array = "none"
       /\ disk' = [disk EXCEPT !.array = plan.want, !.fs = FALSE]
       /\ data' = FALSE
       /\ UNCHANGED plan
    \/ ~GetDeviceWithName(plan.want) /\ disk.array # "none"
       /\ Degraded /\ UNCHANGED <<disk, data>>

syncRAIDs == Step("raids", "filesystems") /\ MakeRAID0 /\ OnDisk

MakeFSAnyway ==  \* mutant: a device is formatted whatever is on it
    /\ BlockDeviceReady
    /\ disk' = [disk EXCEPT !.fs = TRUE] /\ data' = FALSE /\ UNCHANGED plan

(* A device that has a filesystem is left alone.                            *)
MakeFS ==
    \/ BlockDeviceReady /\ GetFilesystemType /\ UNCHANGED <<plan, disk, data>>
    \/ /\ BlockDeviceReady /\ ~GetFilesystemType
       /\ disk' = [disk EXCEPT !.fs = TRUE] /\ data' = FALSE /\ UNCHANGED plan
    \/ ~BlockDeviceReady /\ Degraded /\ UNCHANGED <<disk, data>>

syncFilesystems ==
    /\ Step("filesystems", "mounts")
    /\ \/ GetDeviceWithName(plan.want) /\ MakeFS
       \/ ~GetDeviceWithName(plan.want) /\ Degraded /\ UNCHANGED <<disk, data>>
    /\ OnDisk

---------------------------------------------------------------------------
(* Mounts: EnsureUnits of the systemd unit manager.                         *)

(* The unit of a mount whose device is not found is not required either.    *)
RequiredUnit == plan.want # "none" /\ GetDeviceWithName(plan.want)

InPlace == RequiredUnit /\ unit.managed /\ unit.file /\ unit.enabled /\ Mounted

(* A unit that is not required is disabled and stopped, then removed.       *)
syncMounts ==
    LET unresolved == plan.want # "none" /\ ~GetDeviceWithName(plan.want)
        prunes     == unit.managed /\ ~RequiredUnit
    IN /\ Step("mounts", IF prunes THEN "pruning" ELSE IF InPlace THEN "status" ELSE "managing")
       /\ plan' = [plan EXCEPT !.deg = @ \/ unresolved]
       /\ unit' = IF prunes
                  THEN [unit EXCEPT !.enabled = FALSE, !.state = "inactive", !.lost = FALSE]
                  ELSE unit
       /\ OnUnit

PruneUnit ==
    /\ Step("pruning", "managing")
    /\ unit' = [unit EXCEPT !.file = FALSE]
    /\ OnUnit /\ UNCHANGED plan

NotManagedByUs == unit.file /\ ~unit.managed

(* The list of managed units is written before the units are.               *)
WriteStatus ==
    LET kept == RequiredUnit /\ ~NotManagedByUs
    IN /\ Step("managing", IF ~kept THEN "status" ELSE IF unit.file THEN "starting" ELSE "writing")
       /\ unit' = [unit EXCEPT !.managed = kept]
       /\ plan' = [plan EXCEPT !.deg = @ \/ (RequiredUnit /\ NotManagedByUs)]
       /\ OnUnit

WriteUnit ==
    /\ Step("writing", "starting")
    /\ unit' = [unit EXCEPT !.file = TRUE]
    /\ OnUnit /\ UNCHANGED plan

(* The sync asks systemd to start the unit and does not wait for it: it     *)
(* reports the state from before.                                           *)
EnableAndStartUnit ==
    /\ Step("starting", "status")
    /\ unit' = [unit EXCEPT !.enabled = TRUE,
                            !.state = IF @ = "active" THEN @ ELSE "activating"]
    /\ plan' = [plan EXCEPT !.prog = unit.state # "active",
                            !.deg = @ \/ unit.state = "failed"]
    /\ OnUnit

EnsureUnits == syncMounts \/ PruneUnit \/ WriteStatus \/ WriteUnit \/ EnableAndStartUnit

updateSetupStatus ==
    /\ UpdateStatus([nc EXCEPT !.report = [prog |-> plan.prog, deg |-> plan.deg]])
    /\ plan' = NoPlan
    /\ UNCHANGED <<kind, disk, data, unit>>

Setup ==
    \/ StartSetup \/ syncLoopDevices \/ syncRAIDs \/ syncFilesystems
    \/ EnsureUnits \/ updateSetupStatus

---------------------------------------------------------------------------
(* systemd, the kernel and ScyllaDB.                                        *)

DeviceReady == disk.fs /\ BlockDeviceReady

(* A start ends well when the device is there, and fails after a while.     *)
UnitStarts ==
    /\ unit.state = "activating"
    /\ unit' = [unit EXCEPT !.state = IF DeviceReady THEN "active" ELSE "failed"]
    /\ UNCHANGED <<kind, plan, disk, data, daemon, budget>>

ScyllaWrites ==
    /\ Mounted /\ ~unit.lost /\ ~data
    /\ data' = TRUE
    /\ UNCHANGED <<kind, plan, disk, unit, daemon, budget>>

(* The user renames the array, or takes the loop device out and puts it     *)
(* back.                                                                    *)
OtherDevice == IF nc.spec.want # "a" THEN "a" ELSE IF kind = "array" THEN "b" ELSE "none"

EditDevice == EditNodeConfig([nc.spec EXCEPT !.want = OtherDevice]) /\ UNCHANGED storage

---------------------------------------------------------------------------
(* Faults.                                                                  *)

(* An error ends a part of the sync; the parts after it run all the same.   *)
AfterError ==
    CASE stage = "raids"       -> "filesystems"
      [] stage = "filesystems" -> "mounts"
      [] stage \in {"mounts", "pruning", "managing", "writing", "starting"} -> "status"
      [] OTHER -> IF plan.want = "none" THEN "mounts" ELSE "filesystems"

SetupCallFails ==
    /\ Fault
    /\ stage \notin {"idle", "status"}
    /\ stage' = AfterError
    /\ Degraded
    /\ UNCHANGED <<kind, disk, data, unit, nc, seen, old>>

SetupStatusFails ==
    /\ StatusCallFails
    /\ plan' = NoPlan
    /\ UNCHANGED <<kind, disk, data, unit>>

SetupRestarts ==
    /\ StartDaemon
    /\ plan' = NoPlan
    /\ UNCHANGED <<kind, disk, data, unit>>

(* A boot assembles arrays, knows no loop devices, has a new /dev and       *)
(* starts the units that are enabled.                                       *)
NodeReboots ==
    /\ StartDaemon
    /\ plan' = NoPlan
    /\ disk' = [disk EXCEPT !.attached = FALSE, !.link = FALSE]
    /\ unit' = [unit EXCEPT !.state = IF unit.enabled /\ unit.file THEN "activating" ELSE "inactive",
                            !.lost = FALSE]
    /\ UNCHANGED <<kind, data>>

SetupFault == SetupCallFails \/ SetupStatusFails \/ SetupRestarts \/ NodeReboots

StorageNext ==
    \/ (ObserveNodeConfig \/ OthersWriteStatus) /\ UNCHANGED storage
    \/ Setup \/ UnitStarts \/ ScyllaWrites \/ EditDevice \/ SetupFault

---------------------------------------------------------------------------
(* Properties.                                                              *)

(* ScyllaDB's data is never lost to the daemon, whatever fails, restarts or *)
(* is edited, but for a loop device that the user took out of the           *)
(* NodeConfig: MakeRAID0 and MakeFS spare what they find.                   *)
KeepsData == data /\ ~data' => kind = "loop" /\ plan.want = "none"

(* Nothing the daemon does gets it out of these: an array of another name,  *)
(* an image file that was created and not sized, a mounted file that is     *)
(* deleted.                                                                 *)
Stuck == disk.array \notin {"none", nc.spec.want} \/ disk.image = "empty" \/ unit.lost

(* The mount and the report are what the NodeConfig asks for.               *)
SetUp ==
    /\ nc.report = Clean
    /\ IF nc.spec.want = "none" THEN ~unit.file /\ ~Mounted ELSE Mounted /\ DeviceReady
=============================================================================
