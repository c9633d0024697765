------------------------ MODULE ClusterTranslation ------------------------
(* The ScyllaCluster controller: a ScyllaCluster (sc) is translated into a  *)
(* ScyllaDBDatacenter (sdc) and ScyllaDBManagerTasks, objects that an older *)
(* operator left under the ScyllaCluster are released to the datacenter,    *)
(* and the conditions of the datacenter come back, moved into the           *)
(* generations of the ScyllaCluster.  Some fields of the ScyllaCluster's    *)
(* spec become annotations of the datacenter, whose generation they do not  *)
(* bump.  The webhook (Admission) stands before every write of either spec. *)
(* The datacenter's own controller appears here only as what it makes of    *)
(* its spec and of one rack, from copies of its own, and reports; Reconcile *)
(* is about how it works and RackScaling about how a rack is scaled.        *)
EXTENDS Admission, FiniteSets, TLC

CONSTANTS Tasks,      \* the names of manager tasks
          Upgrading,  \* the phase of an upgrade that the old operator left
          SpecEdits,  \* the user's edits when the topic is the takeover ...
          LimitEdits, \* ... the fields whose change is restricted ...
          RackEdits,  \* ... a rack ...
          OwnEdits,   \* ... and a rack of a datacenter without a ScyllaCluster
          RackStart,  \* the node counts that the rack of a ScyllaCluster starts with
          MaxFaults,  \* failing calls and restarts
          MaxLag      \* kinds that may be stale at a time

ASSUME BoundsAssumption ==
    /\ {SpecEdits, LimitEdits, RackEdits, OwnEdits, MaxFaults} \subseteq Nat
    /\ RackStart \subseteq {Absent, 0, 1}
    /\ MaxLag \in Nat \ {0}

VARIABLES live,      \* sc, sdc, tasks, obj, upg as the API server has them
          cache,     \* the same in the informers of the controller
          stale,     \* those with an event that has not been delivered
          queue,     \* whether the key is in the work queue
          pc,        \* where the sync is
          listed,    \* what the sync listed
          own,       \* the conditions of the sync: [prog, deg]
          workload,  \* what the Pods are told to run: [ver, cpu, ann]
          rolled,    \* what they run
          rack,      \* the StatefulSet of one rack, and how far its node is
          copy,      \* the oldest [sdc, rack] that the datacenter's controller may read
          misreported, \* whether the datacenter's status misses a node of the rack
          topic,     \* what the user edits
          edits, faults

vars == <<live, cache, stale, queue, pc, listed, own, workload, rolled, rack, copy,
          misreported, topic, edits, faults>>
datacenter == <<workload, rolled, rack, copy, misreported, topic>>

Kinds == {"sc", "sdc", "tasks", "obj", "upg"}
NoSDC == [gen |-> 0]
NoSC == [gen |-> 0]
Unreported == [gen |-> 0, prog |-> "Unknown", deg |-> "Unknown", rack |-> NoRackStatus]
Quiet == [prog |-> FALSE, deg |-> FALSE]
Template(o) == [ver |-> o.spec.ver, cpu |-> o.spec.cpu, ann |-> o.ann]

(* "absent" has no StatefulSet and "none" one without replicas; the node of *)
(* the others is asked to leave, has left, and is scaled away while its     *)
(* Service is still there.                                                  *)
RackStates == {"absent", "none", "member", "asked", "left", "scaled"}
Target(want) == CASE want = Absent -> "absent" [] want = 0 -> "none" [] OTHER -> "member"
RackReport(r) ==
    [entry   |-> TRUE,
     nodes   |-> IF r \in {"member", "asked", "left"} THEN 1 ELSE 0,
     leaving |-> r \in {"asked", "left", "scaled"},
     stale   |-> r = "absent"]

InitialSpec(want) == [ver |-> 1, cpu |-> 2, fixed |-> 1, form |-> "fine", rack |-> want]
Created(required) ==
    [gen |-> 1, spec |-> required.spec, ann |-> required.ann, hash |-> required,
     status |-> Unreported]
SettledStatus(want) ==
    [gen |-> 1, prog |-> "False", deg |-> "False",
     rack |-> IF want = Absent THEN NoRackStatus ELSE RackReport(Target(want))]

(* An upgrade from an operator that had no ScyllaDBDatacenters: the Pods    *)
(* run, and their objects belong to the ScyllaCluster.                      *)
InitTakeover ==
    /\ topic = "takeover" /\ rack = "absent"
    /\ live = [sc    |-> [gen |-> 1, spec |-> InitialSpec(Absent), ann |-> "a", tasks |-> Tasks,
                          status |-> Unreported, upgrade |-> Upgrading],
               sdc   |-> NoSDC, tasks |-> {}, obj |-> "sc", upg |-> "none"]

(* Otherwise everything has settled; an unmanaged datacenter is the user's  *)
(* own, and has no ScyllaCluster.                                           *)
InitSettled ==
    /\ topic \in {"limits", "racks", "unmanaged"}
    /\ \E want \in CASE topic = "limits"    -> {Absent}
                     [] topic = "racks"     -> RackStart
                     [] OTHER               -> {Absent, 0, 1} :
          LET spec == InitialSpec(want)
              sdc  == [Created([spec |-> spec, ann |-> "none", mark |-> FALSE])
                          EXCEPT !.status = SettledStatus(want)]
              sc   == [gen |-> 1, spec |-> spec, ann |-> "none", tasks |-> {},
                       status |-> SettledStatus(want), upgrade |-> "none"]
          IN /\ rack = Target(want)
             /\ live = [sc |-> IF topic = "unmanaged" THEN NoSC ELSE sc, sdc |-> sdc,
                        tasks |-> {}, obj |-> "sdc", upg |-> "none"]

managed == live.sc # NoSC
User == IF managed THEN live.sc ELSE live.sdc  \* the object that the user edits

Init ==
    /\ InitTakeover \/ InitSettled
    /\ cache = live
    /\ stale = {}
    /\ queue = TRUE
    /\ pc = "idle"
    /\ listed = <<>>
    /\ own = Quiet
    /\ workload = Template(User)
    /\ rolled = workload
    /\ copy = [sdc |-> live.sdc, rack |-> rack]
    /\ misreported = FALSE
    /\ edits = 0
    /\ faults = 0

(* Faults come with the takeover and with a rack of the user's own          *)
(* datacenter: a bound on the model.                                        *)
Fault == faults < MaxFaults /\ topic \in {"takeover", "unmanaged"} /\ faults' = faults + 1

(* A write of the API server, which the informers have yet to deliver.      *)
(* A writer waits when too many are stale: a bound on the model.            *)
Write(kinds, new) ==
    /\ live' = new
    /\ stale' = stale \cup {k \in kinds : new[k] # live[k]}
    /\ Cardinality(stale') <= MaxLag

NoWrite == UNCHANGED <<live, stale>>

EndSync == pc' = "idle" /\ listed' = <<>> /\ own' = Quiet

---------------------------------------------------------------------------
(* Translation.                                                             *)

KeepMissingKeys(ann, existing) == FALSE  \* mutant: a key that is gone is not marked

(* MarkMissingKeysForRemoval: an annotation of the existing datacenter that *)
(* the ScyllaCluster does not have is marked.                               *)
MarkMissingKeysForRemoval(ann, existing) == existing # NoSDC /\ existing.ann # "none" /\ ann = "none"

(* MigrateV1ScyllaClusterToV1Alpha1ScyllaDBDatacenter and what is added to  *)
(* it: its hash decides whether the datacenter is written.                  *)
requiredDatacenter(sc, existing) ==
    [spec |-> sc.spec, ann |-> sc.ann, mark |-> MarkMissingKeysForRemoval(sc.ann, existing)]

(* The API server bumps a generation when the spec changes.                 *)
NextGeneration(sdc, required) == sdc.gen + (IF sdc.spec = required.spec THEN 0 ELSE 1)

(* MergeMetadataInPlace keeps annotations that are not marked.              *)
merged(sdc, required) ==
    [gen  |-> NextGeneration(sdc, required),
     spec |-> required.spec,
     ann  |-> IF required.ann = "none" /\ ~required.mark THEN sdc.ann ELSE required.ann,
     hash |-> required,
     status |-> sdc.status]

(* offsetSDCConditionsToSCGenerationSpace.                                  *)
offset(sc, sdc) ==
    LET shifted == sdc.status.gen + sc.gen - sdc.gen
    IN [sdc.status EXCEPT !.gen = IF shifted < 0 THEN 0 ELSE shifted]

findAnyStatusCondition(sc, sdc) ==  \* mutant: conditions of any generation count
    IF sdc # NoSDC THEN sdc.status ELSE Unreported

(* findStatusConditionOrUnknown.                                            *)
findStatusConditionOrUnknown(sc, sdc) ==
    IF sdc # NoSDC /\ offset(sc, sdc).gen = sc.gen THEN sdc.status ELSE Unreported

(* AggregateStatusConditions of one own condition and one that came back.   *)
aggregate(mine, theirs) ==
    IF mine \/ theirs = "True" THEN "True" ELSE theirs

(* calculateStatus and the conditions that sync adds to it.                 *)
newStatus ==
    LET theirs == findStatusConditionOrUnknown(listed.sc, listed.sdc)
    IN [gen  |-> listed.sc.gen,
        prog |-> aggregate(own.prog, theirs.prog),
        deg  |-> aggregate(own.deg, theirs.deg),
        rack |-> IF listed.sdc = NoSDC THEN listed.sc.status.rack ELSE listed.sdc.status.rack]

(* The phase of an upgrade comes back from the ConfigMap, once there is a   *)
(* datacenter.                                                              *)
newUpgrade == IF listed.sdc = NoSDC THEN listed.sc.upgrade ELSE listed.upg

---------------------------------------------------------------------------
(* The sync.                                                                *)

(* ReleaseObjects: a patch with the cached resource version.  What fails is *)
(* collected and dropped, so the sync goes on either way.                   *)
sync ==
    /\ pc = "idle" /\ queue /\ cache.sc # NoSC
    /\ queue' = FALSE
    /\ listed' = [k \in Kinds \ {"obj"} |-> cache[k]]
    /\ own' = Quiet
    /\ pc' = "datacenter"
    /\ \/ /\ cache.obj = "sc" /\ "obj" \notin stale
          /\ Write({"obj"}, [live EXCEPT !.obj = "none"])
          /\ UNCHANGED faults
       \/ /\ cache.obj # "sc" \/ "obj" \in stale
          /\ NoWrite /\ UNCHANGED faults
       \/ /\ cache.obj = "sc"
          /\ NoWrite /\ Fault
    /\ UNCHANGED <<cache, datacenter, edits>>

(* The generated client returns an empty object, not nil, with a NotFound.  *)
NotFoundIsNil == FALSE

(* The phase of the upgrade is saved before there is a datacenter: "nil"    *)
(* asks the API server, as the cache may be old.  A failure to save it is   *)
(* dropped.                                                                 *)
SavesUpgrade ==
    /\ listed.sc.upgrade # "none" /\ listed.sdc = NoSDC
    /\ NotFoundIsNil /\ live.sdc = NoSDC

withUpgrade == IF SavesUpgrade THEN [live EXCEPT !.upg = listed.sc.upgrade] ELSE live

(* ApplyScyllaDBDatacenter, against the cache of the moment.  The webhook   *)
(* may refuse the translation of what it admitted of the ScyllaCluster.     *)
syncScyllaDBDatacenter ==
    LET required == requiredDatacenter(listed.sc, listed.sdc)
        upToDate == cache.sdc # NoSDC /\ cache.sdc.hash = required
        new      == merged(live.sdc, required)
    IN /\ pc = "datacenter"
       /\ pc' = "tasks"
       /\ \/ /\ cache.sdc = NoSDC /\ live.sdc = NoSDC
             /\ Write({"sdc", "upg"}, [withUpgrade EXCEPT !.sdc = Created(required)])
             /\ own' = [own EXCEPT !.prog = TRUE]
             /\ UNCHANGED faults
          \/ /\ upToDate
             /\ NoWrite
             /\ UNCHANGED <<own, faults>>
          \/ /\ cache.sdc # NoSDC /\ ~upToDate
             /\ "sdc" \notin stale
             /\ IF ValidateScyllaDBDatacenterUpdate(new, live.sdc)
                THEN Write({"sdc"}, [live EXCEPT !.sdc = new]) /\ own' = [own EXCEPT !.prog = TRUE]
                ELSE NoWrite /\ own' = [own EXCEPT !.deg = TRUE]
             /\ UNCHANGED faults
          \/ /\ "sdc" \in stale   \* exists already, or a conflict
             /\ ~upToDate
             /\ NoWrite
             /\ own' = [own EXCEPT !.deg = TRUE]
             /\ UNCHANGED faults
          \/ /\ ~upToDate
             /\ Fault
             /\ NoWrite
             /\ own' = [own EXCEPT !.deg = TRUE]
       /\ UNCHANGED <<cache, queue, listed, datacenter, edits>>

(* MigrateV1ScyllaClusterToV1Alpha1ScyllaDBManagerTasks: the user may opt   *)
(* out of the global ScyllaDB Manager with an annotation.                   *)
requiredTasks(sc) == IF sc.ann = "disable" THEN {} ELSE sc.tasks

(* Prune and apply the tasks.  A delete of what is gone and a create of     *)
(* what exists fail; after a failing delete nothing is created.             *)
syncScyllaDBManagerTasks ==
    LET required == requiredTasks(listed.sc)
        excess   == listed.tasks \ required
        missing  == required \ cache.tasks
        gone     == excess \ live.tasks
        there    == missing \cap live.tasks
    IN /\ pc = "tasks"
       /\ pc' = "status"
       /\ \/ /\ gone = {}
             /\ Write({"tasks"}, [live EXCEPT !.tasks = (@ \ excess) \cup missing])
             /\ own' = [prog |-> own.prog \/ missing \ there # {}, deg |-> own.deg \/ there # {}]
             /\ UNCHANGED faults
          \/ /\ gone # {}
             /\ Write({"tasks"}, [live EXCEPT !.tasks = @ \ excess])
             /\ own' = [own EXCEPT !.deg = TRUE]
             /\ UNCHANGED faults
          \/ /\ excess \cup missing # {}
             /\ Fault
             /\ NoWrite
             /\ own' = [own EXCEPT !.deg = TRUE]
       /\ UNCHANGED <<cache, queue, listed, datacenter, edits>>

(* UpdateStatus is called in every sync: the comparison that should save it *)
(* compares a pointer with a value.  A write that changes nothing has no    *)
(* event.                                                                   *)
updateStatus ==
    /\ pc = "status"
    /\ EndSync
    /\ \/ /\ live.sc = listed.sc
          /\ Write({"sc"}, [live EXCEPT !.sc.status = newStatus, !.sc.upgrade = newUpgrade])
          /\ queue' = (queue \/ own.deg)
          /\ UNCHANGED faults
       \/ /\ live.sc # listed.sc
          /\ NoWrite
          /\ queue' = TRUE
          /\ UNCHANGED faults
       \/ /\ Fault
          /\ NoWrite
          /\ queue' = TRUE
    /\ UNCHANGED <<cache, datacenter, edits>>

Controller == sync \/ syncScyllaDBDatacenter \/ syncScyllaDBManagerTasks \/ updateStatus

(* Every kind has handlers that enqueue the ScyllaCluster, directly or      *)
(* through what owns it; the upgrade's ConfigMap has no owner until the     *)
(* datacenter adopts it.                                                    *)
Enqueues(k) == k # "upg"

Deliver(k) ==
    /\ k \in stale
    /\ stale' = stale \ {k}
    /\ cache' = [cache EXCEPT ![k] = live[k]]
    /\ queue' = (queue \/ Enqueues(k))
    /\ UNCHANGED <<live, pc, listed, own, datacenter, edits, faults>>

Restart ==
    /\ Fault
    /\ cache' = live
    /\ stale' = {}
    /\ queue' = TRUE
    /\ EndSync
    /\ copy' = [sdc |-> live.sdc, rack |-> rack]
    /\ UNCHANGED <<live, workload, rolled, rack, misreported, topic, edits>>

---------------------------------------------------------------------------
(* The datacenter's controller and its Pods.                                *)

(* What one sync does about the rack: a StatefulSet of no rack is deleted   *)
(* as it is, a missing one is created with the nodes that the spec wants,   *)
(* and a leaving node is waited for, scaled away and pruned.                *)
RackStep(r, want) ==
    IF want = Absent
    THEN "absent"
    ELSE CASE r \in {"absent", "none"} -> Target(want)
           [] r = "member"             -> IF want = 0 THEN "asked" ELSE "member"
           [] r = "asked"              -> "asked"
           [] r = "left"               -> "scaled"
           [] OTHER                    -> "none"

(* calculateStatus looks before the sync acts; only a new StatefulSet is    *)
(* added afterwards, and has observed nothing.                              *)
RackStatus(r, want) ==
    IF want = Absent THEN NoRackStatus
    ELSE IF r = "absent" THEN [RackReport(Target(want)) EXCEPT !.stale = TRUE]
    ELSE RackReport(r)

(* A scale update has the resource version of the StatefulSet in the cache, *)
(* which need not show it afterwards: the read-your-writes client waits for *)
(* the other writes alone.                                                  *)
Scales(r, want) == <<r, RackStep(r, want)>> \in {<<"none", "member">>, <<"left", "scaled">>}

(* One sync, with these in its cache: it adopts what is released, cannot    *)
(* write what is not, and reports on the generation that it read.  The      *)
(* report is lost if the datacenter has changed or the call fails.          *)
SyncWith(sdc, r) ==
    LET want     == sdc.spec.rack
        obj      == IF live.obj = "sc" THEN "sc" ELSE "sdc"
        pods     == IF live.obj = "sc" THEN workload ELSE Template(sdc)
        step     == RackStep(r, want)
        refused  == Scales(r, want) /\ r # rack
        done     == pods = Template(sdc) /\ rolled = pods /\ r = Target(want)
        reported == [gen  |-> sdc.gen,
                     prog |-> IF done THEN "False" ELSE "True",
                     deg  |-> IF obj = "sdc" /\ ~refused THEN "False" ELSE "True",
                     rack |-> RackStatus(r, want)]
        written  == [sdc EXCEPT !.status = reported]
    IN /\ sdc # NoSDC
       /\ <<obj, pods, step, written>> # <<live.obj, workload, r, sdc>>
       /\ workload' = pods
       /\ rack' = IF step = r \/ refused THEN rack ELSE step
       /\ \E reports \in BOOLEAN :
             /\ reports => sdc = live.sdc
             /\ Write({"obj", "sdc"}, [live EXCEPT !.obj = obj, !.sdc = IF reports THEN written ELSE @])
             /\ copy' = [sdc |-> IF reports THEN written ELSE sdc, rack |-> IF Scales(r, want) THEN r ELSE step]
             /\ misreported' = IF reports THEN r = "none" /\ rack = "member" ELSE misreported
             /\ IF reports \/ sdc # live.sdc THEN UNCHANGED faults ELSE Fault
       /\ UNCHANGED <<cache, queue, pc, listed, own, rolled, topic, edits>>

(* The informers are as far as in its last sync, or up to date.  A sync     *)
(* that reads a datacenter from between the two is one that took place      *)
(* before the next change, with its report lost.                            *)
DatacenterSync == \E sdc \in {copy.sdc, live.sdc}, r \in {copy.rack, rack} : SyncWith(sdc, r)

(* The sidecar of a node that is asked to leave reports that it has.        *)
Leave ==
    /\ rack = "asked"
    /\ rack' = "left"
    /\ UNCHANGED <<live, cache, stale, queue, pc, listed, own, workload, rolled, copy,
                   misreported, topic, edits, faults>>

RollOut ==
    /\ rolled # workload
    /\ rolled' = workload
    /\ UNCHANGED <<live, cache, stale, queue, pc, listed, own, workload, rack, copy,
                   misreported, topic, edits, faults>>

(* The user updates the object: [spec, ann].  Only a new spec bumps its     *)
(* generation, and "a" is a field of it that becomes an annotation.         *)
Update(spec, ann, bump) ==
    LET new == [User EXCEPT !.gen = @ + (IF bump THEN 1 ELSE 0), !.spec = spec, !.ann = ann]
    IN /\ <<spec, ann>> # <<User.spec, User.ann>>
       /\ IF managed
          THEN ValidateScyllaClusterUpdate(new, User) /\ Write({"sc"}, [live EXCEPT !.sc = new])
          ELSE ValidateScyllaDBDatacenterUpdate(new, User) /\ Write({"sdc"}, [live EXCEPT !.sdc = new])

MayEdit(t, bound) == topic = t /\ edits < bound /\ edits' = edits + 1

EditTakeover ==
    /\ MayEdit("takeover", SpecEdits)
    /\ \/ Update([live.sc.spec EXCEPT !.ver = edits + 2], live.sc.ann, TRUE)
       \/ Update(live.sc.spec, "none", TRUE)
       \/ Update(live.sc.spec, "disable", FALSE)
       \/ \E tasks \in SUBSET Tasks \ {live.sc.tasks} :
             Write({"sc"}, [live EXCEPT !.sc.gen = @ + 1, !.sc.tasks = tasks])

(* CPU limits with or without the annotation that forces a decrease, fields *)
(* that may not change, and fields that are not well formed.                *)
EditLimits ==
    /\ MayEdit("limits", LimitEdits)
    /\ \/ \E cpu \in {1, 2}, ann \in {"none", "force"} :
             Update([live.sc.spec EXCEPT !.cpu = cpu], ann, cpu # live.sc.spec.cpu)
       \/ Update([live.sc.spec EXCEPT !.fixed = 3 - @], live.sc.ann, TRUE)
       \/ \E form \in Forms : Update([live.sc.spec EXCEPT !.form = form], live.sc.ann, TRUE)

EditRack ==
    /\ MayEdit("racks", RackEdits) \/ MayEdit("unmanaged", OwnEdits)
    /\ \E want \in {Absent, 0, 1} : Update([User.spec EXCEPT !.rack = want], User.ann, TRUE)

Edit ==
    /\ EditTakeover \/ EditLimits \/ EditRack
    /\ UNCHANGED <<cache, queue, pc, listed, own, datacenter, faults>>

Next ==
    \/ Controller \/ (\E k \in stale : Deliver(k)) \/ Restart
    \/ DatacenterSync \/ Leave \/ RollOut \/ Edit

Spec == Init /\ [][Next]_vars

(* The controllers, their informers and the Pods keep going.  The           *)
(* subscripts are what the steps change.                                    *)
FairSpec ==
    /\ Spec
    /\ WF_pc(Controller) /\ WF_stale(\E k \in stale : Deliver(k))
    /\ WF_vars(SyncWith(live.sdc, rack)) /\ WF_<<rack, rolled>>(Leave \/ RollOut)

---------------------------------------------------------------------------
(* Properties.                                                              *)

ConditionStatus == {"True", "False", "Unknown"}

(* Generations, owners and conditions keep their types, what is not stale   *)
(* is cached as it is, and a datacenter never has more generations than the *)
(* ScyllaCluster it was translated from.                                    *)
TypeOK ==
    /\ User.gen \in 1 .. 1 + edits /\ (managed => live.sdc.gen <= live.sc.gen)
    /\ {User.status.prog, User.status.deg} \subseteq ConditionStatus
    /\ live.obj \in {"sc", "none", "sdc"} /\ rack \in RackStates
    /\ stale \subseteq Kinds /\ \A k \in Kinds \ stale : cache[k] = live[k]
    /\ queue \in BOOLEAN /\ pc \in {"idle", "datacenter", "tasks", "status"}
    /\ faults \in 0 .. MaxFaults

Settled(status) == status.prog = "False" /\ status.deg = "False"

Claims == Settled(User.status) /\ User.status.gen = User.gen

Serves == rolled.ver = User.spec.ver /\ rolled.cpu = User.spec.cpu /\ rack = Target(User.spec.rack)

(* The Pods run the spec that was translated whenever the status says that  *)
(* the current generation is settled.                                       *)
SettledMeansRolledOut == Claims => Serves

(* When the ScyllaCluster's controller has nothing left to do, and so will  *)
(* not correct it, a status that says that the current generation is        *)
(* settled is right about the spec: a false one never lasts.  This takes    *)
(* that the datacenter's status misses no node.                             *)
LastingClaimIsTrue ==
    (Claims /\ pc = "idle" /\ (managed => ~queue) /\ stale = {} /\ ~misreported) => Serves

(* The phase of an upgrade that an older operator began is saved before the *)
(* datacenter takes over.                                                   *)
UpgradeMigrated == (topic = "takeover" /\ live.sdc # NoSDC) => live.upg = Upgrading

RemovesKnownRack ==
    live.sdc # NoSDC /\ RemovesRack(live'.sdc, live.sdc) /\ live.sdc.status.rack.entry

(* A rack that the webhook knows the status of leaves the datacenter only   *)
(* when no node is left in it, whatever the spec of the rack was meanwhile  *)
(* and whichever of the two objects the user edits: its StatefulSet is then *)
(* deleted without a look at its nodes.  This takes that the status does    *)
(* not miss a node because calculateRackStatus was given a StatefulSet from *)
(* before the scale update that brought it.                                 *)
RackRemovedWhenEmptyUnlessMisreported ==
    [][RemovesKnownRack /\ ~misreported => rack = "none"]_vars

(* The same, whatever StatefulSet the status was made from.                 *)
RackRemovedWhenEmpty == [][RemovesKnownRack => rack = "none"]_vars

(* A StatefulSet is deleted only when it has no node.                       *)
PrunedWhenEmpty == [][rack' = "absent" => rack \in {"absent", "none"}]_vars

(* The datacenter refuses for good what was admitted of the ScyllaCluster:  *)
(* it looks at more fields, it has missed the scale-down that came before   *)
(* the removal, or the annotation that allowed the decrease is gone.        *)
RefusedForGood ==
    /\ live.sdc # NoSDC
    /\ \/ User.spec.form = "admitted"
       \/ User.spec.rack = Absent /\ live.sdc.spec.rack = 1
       \/ User.spec.cpu < live.sdc.spec.cpu /\ User.ann # "force"

(* Once the user stops, the datacenter, its annotations, its tasks and the  *)
(* ownership of what is old follow the ScyllaCluster, and the status says   *)
(* so for good; or the datacenter refuses the translation and the status    *)
(* never says so.                                                           *)
EventuallySettled ==
    \/ <>[](/\ Claims
            /\ Serves /\ rolled = Template(User)
            /\ live.sdc # NoSDC /\ Template(live.sdc) = Template(User) /\ live.sdc.spec = User.spec
            /\ managed => live.tasks = requiredTasks(live.sc)
            /\ live.obj = "sdc")
    \/ <>[](RefusedForGood /\ ~Claims)
=============================================================================
