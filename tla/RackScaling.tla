---------------------------- MODULE RackScaling ----------------------------
(***************************************************************************)
(* Scaling of one rack of a ScyllaDBDatacenter.                            *)
(*                                                                         *)
(* Four parties share the Kubernetes API: the user, who edits the rack's   *)
(* node count; the ScyllaDBDatacenter controller (syncStatefulSets and     *)
(* syncServices), which reads its caches once per sync and then issues one *)
(* API call at a time; the sidecar of each node, which decommissions       *)
(* ScyllaDB and flips the node's label; and the StatefulSet controller and *)
(* ScyllaDB itself, which are external and modelled from how the operator  *)
(* relies on them.                                                         *)
(*                                                                         *)
(* A node is its ordinal.  Its member Service is a record: uid counts the  *)
(* Services ever created under the name, label is the value of the         *)
(* scylla/decommissioned label, with "absent" for a Service that does not  *)
(* exist and "none" for one without the label.  Labels only move forward   *)
(* within a uid, so equality of records is equality of resource versions.  *)
(***************************************************************************)
EXTENDS Integers, FiniteSetsExt

CONSTANTS
  MaxNodes,        \* ordinals are below this bound
  Parallel,        \* effective spec.enableParallelNodeOperations
  MaxChanges,      \* node count edits by the user
  MaxFaults,       \* controller crashes, API calls refused, passes held by a gate
  MaxLost,         \* writes that are applied but answered with an error
  MaxDisruptions   \* Pod restarts, drains and failed decommissions

ASSUME BoundsAssumption ==
  /\ MaxNodes \in Nat \ {0}
  /\ Parallel \in BOOLEAN
  /\ MaxChanges \in Nat /\ MaxFaults \in Nat
  /\ MaxLost \in Nat /\ MaxDisruptions \in Nat

VARIABLES
  \* API objects
  spec,        \* node count of the rack in the ScyllaDBDatacenter
  sts,         \* the rack's StatefulSet: replicas and resource version
  svc,         \* member Service of each ordinal
  \* the cluster
  pod,         \* operation mode of the node in the ordinal's Pod
  disk,        \* what the ordinal's PVC holds
  doomed,      \* ordinals whose PVC is deleted but still in use by a Pod
  \* the controller's informer caches
  cspec, csts, csvc,
  owed,        \* Services the controller wrote and its cache has not shown yet
  \* the sync in progress
  pc, snap, todo, cur, failed,
  \* how much of each bound is used
  used

apiVars == <<spec, sts, svc>>
nodeVars == <<pod, disk, doomed>>
cacheVars == <<cspec, csts, csvc, owed>>
syncVars == <<pc, snap, todo, cur, failed>>
vars == <<spec, sts, svc, pod, disk, doomed, cspec, csts, csvc, owed,
          pc, snap, todo, cur, failed, used>>

Ord == 0 .. (MaxNodes - 1)
NodeCount == 0 .. MaxNodes
Labels == {"absent", "none", "false", "true"}
Service == [uid : Nat, label : Labels]
StatefulSet == [replicas : NodeCount, rv : Nat]
Modes == {"none", "starting", "joining", "normal", "drained", "leaving",
          "decommissioned", "down"}
Disks == {"none", "fresh", "member", "left"}
Phases == {"idle", "scale", "request", "prune", "prunePVC", "pruneSvc", "apply"}
Snapshot == [spec : NodeCount, sts : StatefulSet, svc : [Ord -> Service]]

TypeOK ==
  /\ spec \in NodeCount /\ cspec \in NodeCount
  /\ sts \in StatefulSet /\ csts \in StatefulSet
  /\ svc \in [Ord -> Service] /\ csvc \in [Ord -> Service]
  /\ pod \in [Ord -> Modes] /\ disk \in [Ord -> Disks]
  /\ doomed \subseteq Ord /\ owed \subseteq Ord /\ todo \subseteq Ord
  /\ pc \in Phases /\ snap \in Snapshot /\ cur \in Ord /\ failed \in BOOLEAN
  /\ used \in [changes : Nat, faults : Nat, lost : Nat, disruptions : Nat]

-----------------------------------------------------------------------------
(* Bounds. *)

Change == /\ used.changes < MaxChanges
          /\ used' = [used EXCEPT !.changes = @ + 1]
Fault == /\ used.faults < MaxFaults
         /\ used' = [used EXCEPT !.faults = @ + 1]
Lose == /\ used.lost < MaxLost
        /\ used' = [used EXCEPT !.lost = @ + 1]
Disrupt == /\ used.disruptions < MaxDisruptions
           /\ used' = [used EXCEPT !.disruptions = @ + 1]

-----------------------------------------------------------------------------
(* What a sync derives from its snapshot s. *)

\* calculateDecommissioningNodes
Leaving(s) == {o \in Ord : s.svc[o].label \in {"false", "true"}}

InFlight(s) == {o \in Ord : s.svc[o].label = "false"}

\* Mutant: leaving nodes do not hold the rack.
NotHeldWhileLeaving(s) == s.spec >= s.sts.replicas

\* syncRackDecommission returns no progressing condition.
NotHeld(s) == Leaving(s) = {} /\ s.spec >= s.sts.replicas

\* getRackScaleDownTargetNodeCount
TargetNodeCount(s) == Min({s.sts.replicas, s.spec} \cup Leaving(s))

LowestLeavingOrdinal(s) ==
  IF Parallel THEN TargetNodeCount(s) ELSE s.sts.replicas - 1

\* The nodes that leave in this step.
StepNodes(s) == {o \in Ord : LowestLeavingOrdinal(s) <= o /\ o < s.sts.replicas}

\* Mutant: nodes in flight do not delay the next request.
MustWaitIgnoringInFlight(s) ==
  \/ s.sts.replicas = TargetNodeCount(s)
  \/ \E o \in StepNodes(s) : s.svc[o].label = "absent"

\* The held rack has nothing to request or scale yet: a decommission is in
\* flight, only the pruning is left, or a Service is missing.
MustWait(s) ==
  \/ ~Parallel /\ InFlight(s) # {}
  \/ s.sts.replicas = TargetNodeCount(s)
  \/ \E o \in StepNodes(s) : s.svc[o].label = "absent"

\* Mutant: a requested node counts as a decommissioned one.
ScaleDownReplicasOnRequest(s, n) ==
  /\ n = s.sts.replicas \/ n \in StepNodes(s)
  /\ \A o \in Ord : n <= o /\ o < s.sts.replicas => s.svc[o].label \in {"false", "true"}
  /\ n - 1 \in StepNodes(s) => s.svc[n - 1].label \notin {"false", "true"}

\* getRackScaleDownReplicas returns n: the lowest ordinal of the run of
\* decommissioned nodes at the top of the rack, no lower than the step's lowest.
ScaleDownReplicas(s, n) ==
  /\ n = s.sts.replicas \/ n \in StepNodes(s)
  /\ \A o \in Ord : n <= o /\ o < s.sts.replicas => s.svc[o].label = "true"
  /\ n - 1 \in StepNodes(s) => s.svc[n - 1].label # "true"

\* makeServices: the ordinals whose Service is required.
Required(s) == {o \in Ord : o < s.spec}

\* Mutant: the Service of an ordinal the StatefulSet still has is pruned.
PrunableWithinReplicas(s, o) == s.svc[o].label = "true"

\* Mutant: a required Service is kept although its node was decommissioned.
PrunableUnlessRequired(s, o) ==
  /\ o \notin Required(s)
  /\ o >= s.sts.replicas
  /\ s.svc[o].label = "true"

\* The checks of pruneServices that need no API call.
Prunable(s, o) ==
  /\ s.svc[o].label # "absent"
  /\ ~(o \in Required(s) /\ s.svc[o].label # "true")
  /\ o >= s.sts.replicas
  /\ s.svc[o].label = "true"

Blank == [spec |-> 0, sts |-> [replicas |-> 0, rv |-> 0],
          svc |-> [o \in Ord |-> [uid |-> 0, label |-> "absent"]]]

-----------------------------------------------------------------------------
(* The controller. *)

Idle == /\ pc' = "idle" /\ snap' = Blank /\ todo' = {} /\ cur' = 0
        /\ failed' = FALSE

\* Reconcile reads every kind from the caches before it writes anything.  The
\* read-your-writes client makes the List of Services wait for the controller's
\* own Service writes; a scale records the version before the write, so the List
\* of StatefulSets waits for nothing.
StartSync ==
  /\ pc = "idle" /\ owed = {}
  /\ snap' = [spec |-> cspec, sts |-> csts, svc |-> csvc]
  /\ pc' = "scale"
  /\ UNCHANGED <<apiVars, nodeVars, cacheVars, todo, cur, failed, used>>

\* Services are synced next whatever came of the StatefulSets.
ToPrune == /\ pc' = "prune" /\ todo' = {o \in Ord : Prunable(snap, o)}
           /\ UNCHANGED <<snap, cur, failed>>

\* Mutant: the scale is written without the snapshot's resource version.
ScaleToUnconditionally(n) ==
  \/ sts' = [replicas |-> n, rv |-> sts.rv + 1] /\ UNCHANGED used
  \/ Fault /\ UNCHANGED sts

\* Update of the scale subresource with the snapshot's resource version.
ScaleTo(n) ==
  \/ /\ sts = snap.sts
     /\ sts' = [replicas |-> n, rv |-> sts.rv + 1]
     /\ UNCHANGED used
  \/ /\ sts # snap.sts
     /\ UNCHANGED <<sts, used>>
  \/ Fault /\ UNCHANGED sts

ScaleUp ==
  /\ pc = "scale"
  /\ NotHeld(snap) /\ snap.spec > snap.sts.replicas
  /\ ScaleTo(snap.spec)
  /\ ToPrune
  /\ UNCHANGED <<spec, svc, nodeVars, cacheVars>>

NothingToScale ==
  /\ pc = "scale"
  /\ NotHeld(snap) /\ snap.spec = snap.sts.replicas
  /\ ToPrune
  /\ UNCHANGED <<apiVars, nodeVars, cacheVars, used>>

HoldRack ==
  /\ pc = "scale"
  /\ ~NotHeld(snap) /\ MustWait(snap)
  /\ ToPrune
  /\ UNCHANGED <<apiVars, nodeVars, cacheVars, used>>

\* syncStatefulSets returns before its scaling loop: the node exporter image or
\* the managed config is missing, or the status report has not settled.
GateStatefulSets ==
  /\ pc = "scale"
  /\ Fault
  /\ ToPrune
  /\ UNCHANGED <<apiVars, nodeVars, cacheVars>>

BeginRequests ==
  /\ pc = "scale"
  /\ ~NotHeld(snap) /\ ~MustWait(snap)
  /\ pc' = "request"
  /\ todo' = {o \in StepNodes(snap) : snap.svc[o].label = "none"}
  /\ UNCHANGED <<apiVars, nodeVars, cacheVars, snap, cur, failed, used>>

\* Stamp the highest node not requested yet; an error ends the StatefulSet sync.
RequestDecommission(o) ==
  /\ pc = "request" /\ o \in todo /\ \A p \in todo : p <= o
  /\ \/ /\ svc[o] = snap.svc[o]
        /\ svc' = [svc EXCEPT ![o] = [uid |-> @.uid, label |-> "false"]]
        /\ \/ /\ owed' = owed \cup {o}
              /\ todo' = todo \ {o}
              /\ UNCHANGED <<pc, snap, cur, failed, used>>
           \/ Lose /\ ToPrune /\ UNCHANGED owed
     \/ /\ \/ svc[o] # snap.svc[o] /\ UNCHANGED used
           \/ Fault
        /\ ToPrune
        /\ UNCHANGED <<svc, owed>>
  /\ UNCHANGED <<spec, sts, nodeVars, cspec, csts, csvc>>

\* Scale below the decommissioned nodes at the top of the snapshot's rack.
ConcludeDecommission ==
  /\ pc = "request" /\ todo = {}
  /\ \E n \in NodeCount :
       /\ ScaleDownReplicas(snap, n)
       /\ IF n = snap.sts.replicas THEN UNCHANGED <<sts, used>> ELSE ScaleTo(n)
  /\ ToPrune
  /\ UNCHANGED <<spec, svc, nodeVars, cacheVars>>

SkipPruned(o, err) == /\ pc' = "prune" /\ todo' = todo \ {o}
                      /\ failed' = (failed \/ err) /\ cur' = 0

\* The live Get before the PVC is deleted.
RecheckService(o) ==
  /\ pc = "prune" /\ o \in todo
  /\ \/ /\ svc[o].label = "true" /\ svc[o].uid = snap.svc[o].uid
        /\ pc' = "prunePVC" /\ cur' = o
        /\ UNCHANGED <<todo, failed, used>>
     \/ /\ svc[o].label = "absent" /\ SkipPruned(o, TRUE) /\ UNCHANGED used
     \/ /\ svc[o].label # "absent"
        /\ svc[o].label # "true" \/ svc[o].uid # snap.svc[o].uid
        /\ SkipPruned(o, FALSE) /\ UNCHANGED used
     \/ Fault /\ SkipPruned(o, TRUE)
  /\ UNCHANGED <<apiVars, nodeVars, cacheVars, snap>>

\* The PVC of a Pod that still runs goes away with the Pod.
DeleteVolume(o) ==
  IF pod[o] = "none"
    THEN disk' = [disk EXCEPT ![o] = "none"] /\ UNCHANGED doomed
    ELSE doomed' = doomed \cup {o} /\ UNCHANGED disk

\* Mutant: the Service is deleted although the PVC could not be.
PrunePVCIgnoringErrors ==
  /\ pc = "prunePVC"
  /\ pc' = "pruneSvc" /\ UNCHANGED <<todo, cur, failed>>
  /\ \/ DeleteVolume(cur) /\ UNCHANGED used
     \/ Fault /\ UNCHANGED <<disk, doomed>>
  /\ UNCHANGED <<apiVars, pod, cacheVars, snap>>

PrunePVC ==
  /\ pc = "prunePVC"
  /\ \/ /\ DeleteVolume(cur)
        /\ \/ pc' = "pruneSvc" /\ UNCHANGED <<todo, cur, failed, used>>
           \/ Lose /\ SkipPruned(cur, TRUE)
     \/ /\ Fault /\ SkipPruned(cur, TRUE)
        /\ UNCHANGED <<disk, doomed>>
  /\ UNCHANGED <<apiVars, pod, cacheVars, snap>>

PruneService ==
  /\ pc = "pruneSvc"
  /\ \/ /\ svc[cur] = snap.svc[cur]
        /\ svc' = [svc EXCEPT ![cur] = [uid |-> @.uid, label |-> "absent"]]
        /\ \/ /\ owed' = owed \cup {cur}
              /\ SkipPruned(cur, FALSE) /\ UNCHANGED used
           \/ Lose /\ SkipPruned(cur, TRUE) /\ UNCHANGED owed
     \/ /\ \/ /\ svc[cur] # snap.svc[cur]
              /\ SkipPruned(cur, svc[cur].label # "absent") /\ UNCHANGED used
           \/ Fault /\ SkipPruned(cur, TRUE)
        /\ UNCHANGED <<svc, owed>>
  /\ UNCHANGED <<spec, sts, nodeVars, cspec, csts, csvc, snap>>

\* A failed pruning returns before the required Services are applied.
EndPrune ==
  /\ pc = "prune" /\ todo = {}
  /\ IF failed
       THEN Idle
       ELSE pc' = "apply" /\ todo' = Required(snap) /\ UNCHANGED <<snap, cur, failed>>
  /\ UNCHANGED <<apiVars, nodeVars, cacheVars, used>>

\* ApplyService: the cached Get waits for the controller's own write of that
\* Service; a Service the cache shows is up to date, a missing one is created.
ApplyService(o) ==
  /\ pc = "apply" /\ o \in todo /\ \A p \in todo : o <= p
  /\ o \notin owed
  /\ \/ /\ csvc[o].label # "absent"
        /\ todo' = todo \ {o}
        /\ UNCHANGED <<svc, owed, pc, snap, cur, failed, used>>
     \/ /\ csvc[o].label = "absent" /\ svc[o].label = "absent"
        /\ svc' = [svc EXCEPT ![o] = [uid |-> @.uid + 1, label |-> "none"]]
        /\ \/ /\ owed' = owed \cup {o}
              /\ todo' = todo \ {o}
              /\ UNCHANGED <<pc, snap, cur, failed, used>>
           \/ Lose /\ Idle /\ UNCHANGED owed
     \/ /\ csvc[o].label = "absent"
        /\ \/ svc[o].label # "absent" /\ UNCHANGED used
           \/ Fault
        /\ Idle /\ UNCHANGED <<svc, owed>>
  /\ UNCHANGED <<spec, sts, nodeVars, cspec, csts, csvc>>

EndSync ==
  /\ pc = "apply" /\ todo = {}
  /\ Idle
  /\ UNCHANGED <<apiVars, nodeVars, cacheVars, used>>

\* The operator restarts, or its standby takes the lease: the sync is forgotten
\* and the caches are listed anew.
Crash ==
  /\ Fault
  /\ Idle
  /\ cspec' = spec /\ csts' = sts /\ csvc' = svc /\ owed' = {}
  /\ UNCHANGED <<apiVars, nodeVars>>

Sync ==
  \/ StartSync \/ ScaleUp \/ NothingToScale \/ HoldRack \/ GateStatefulSets
  \/ BeginRequests \/ ConcludeDecommission
  \/ PrunePVC \/ PruneService \/ EndPrune \/ EndSync
  \/ \E o \in Ord : RequestDecommission(o) \/ RecheckService(o) \/ ApplyService(o)

-----------------------------------------------------------------------------
(* Informers: the watch of each kind catches up with the API on its own. *)

ObserveSpec == /\ cspec # spec /\ cspec' = spec
               /\ UNCHANGED <<apiVars, nodeVars, csts, csvc, owed, syncVars, used>>
ObserveSts == /\ csts # sts /\ csts' = sts
              /\ UNCHANGED <<apiVars, nodeVars, cspec, csvc, owed, syncVars, used>>
ObserveSvc == /\ csvc # svc \/ owed # {}
              /\ csvc' = svc /\ owed' = {}
              /\ UNCHANGED <<apiVars, nodeVars, cspec, csts, syncVars, used>>
Observe == ObserveSpec \/ ObserveSts \/ ObserveSvc

-----------------------------------------------------------------------------
(* The user. *)

SetNodeCount(n) ==
  /\ n # spec /\ Change /\ spec' = n
  /\ UNCHANGED <<sts, svc, nodeVars, cacheVars, syncVars>>

-----------------------------------------------------------------------------
(* The sidecar of node o: decommissionNode, by operation mode. *)

\* NORMAL with the native transport up: the decommission call is made.
SidecarDecommission(o) ==
  /\ svc[o].label = "false" /\ pod[o] = "normal"
  /\ pod' = [pod EXCEPT ![o] = "leaving"]
  /\ UNCHANGED <<apiVars, disk, doomed, cacheVars, syncVars, used>>

\* DRAINED: supervisorctl restart scylla.
SidecarRestartDrained(o) ==
  /\ svc[o].label = "false" /\ pod[o] = "drained"
  /\ pod' = [pod EXCEPT ![o] = "starting"]
  /\ UNCHANGED <<apiVars, disk, doomed, cacheVars, syncVars, used>>

\* Mutant: a node that is still LEAVING is confirmed.
SidecarConfirmLeaving(o) ==
  /\ svc[o].label = "false" /\ pod[o] \in {"leaving", "decommissioned"}
  /\ svc' = [svc EXCEPT ![o] = [uid |-> @.uid, label |-> "true"]]
  /\ UNCHANGED <<spec, sts, nodeVars, cacheVars, syncVars, used>>

\* DECOMMISSIONED: the label is set to true.
SidecarConfirm(o) ==
  /\ svc[o].label = "false" /\ pod[o] = "decommissioned"
  /\ svc' = [svc EXCEPT ![o] = [uid |-> @.uid, label |-> "true"]]
  /\ UNCHANGED <<spec, sts, nodeVars, cacheVars, syncVars, used>>

Sidecar(o) == SidecarDecommission(o) \/ SidecarRestartDrained(o) \/ SidecarConfirm(o)

-----------------------------------------------------------------------------
(* ScyllaDB and the StatefulSet controller. *)

Ready(o) == pod[o] = "normal"

CreatePod(o) ==
  /\ pod[o] = "none" /\ o < sts.replicas /\ o \notin doomed
  /\ Parallel \/ \A p \in Ord : p < o => Ready(p)
  /\ pod' = [pod EXCEPT ![o] = "starting"]
  /\ disk' = [disk EXCEPT ![o] = IF @ = "none" THEN "fresh" ELSE @]
  /\ UNCHANGED <<apiVars, doomed, cacheVars, syncVars, used>>

\* The sidecar starts ScyllaDB once the member Service exists.  A node that has
\* left the cluster refuses to start.
StartNode(o) ==
  /\ pod[o] = "starting" /\ svc[o].label # "absent"
  /\ pod' = [pod EXCEPT ![o] = IF disk[o] = "member" THEN "normal"
                               ELSE IF disk[o] = "left" THEN "down" ELSE "joining"]
  /\ UNCHANGED <<apiVars, disk, doomed, cacheVars, syncVars, used>>

JoinCluster(o) ==
  /\ pod[o] = "joining"
  /\ pod' = [pod EXCEPT ![o] = "normal"]
  /\ disk' = [disk EXCEPT ![o] = "member"]
  /\ UNCHANGED <<apiVars, doomed, cacheVars, syncVars, used>>

LeaveCluster(o) ==
  /\ pod[o] = "leaving"
  /\ pod' = [pod EXCEPT ![o] = "decommissioned"]
  /\ disk' = [disk EXCEPT ![o] = "left"]
  /\ UNCHANGED <<apiVars, doomed, cacheVars, syncVars, used>>

\* Highest ordinal first and one at a time unless Pods are managed in parallel.
DeletePod(o) ==
  /\ pod[o] # "none" /\ o >= sts.replicas
  /\ Parallel \/ \A p \in Ord : /\ p > o => pod[p] = "none"
                                /\ p < sts.replicas => Ready(p)
  /\ pod' = [pod EXCEPT ![o] = "none"]
  /\ disk' = [disk EXCEPT ![o] = IF o \in doomed THEN "none" ELSE @]
  /\ doomed' = doomed \ {o}
  /\ UNCHANGED <<apiVars, cacheVars, syncVars, used>>

\* An administrator takes a node into maintenance, and back.
DrainNode(o) ==
  /\ pod[o] = "normal" /\ Disrupt
  /\ pod' = [pod EXCEPT ![o] = "drained"]
  /\ UNCHANGED <<apiVars, disk, doomed, cacheVars, syncVars>>

EndMaintenance(o) ==
  /\ pod[o] = "drained"
  /\ pod' = [pod EXCEPT ![o] = "starting"]
  /\ UNCHANGED <<apiVars, disk, doomed, cacheVars, syncVars, used>>

RestartPod(o) ==
  /\ pod[o] \notin {"none", "starting"} /\ Disrupt
  /\ pod' = [pod EXCEPT ![o] = "starting"]
  /\ UNCHANGED <<apiVars, disk, doomed, cacheVars, syncVars>>

FailDecommission(o) ==
  /\ pod[o] = "leaving" /\ Disrupt
  /\ pod' = [pod EXCEPT ![o] = "normal"]
  /\ UNCHANGED <<apiVars, disk, doomed, cacheVars, syncVars>>

Cluster(o) ==
  \/ CreatePod(o) \/ StartNode(o) \/ JoinCluster(o) \/ LeaveCluster(o)
  \/ DeletePod(o) \/ EndMaintenance(o)

-----------------------------------------------------------------------------
\* A rack that is rolled out.
Init ==
  /\ spec \in NodeCount
  /\ sts = [replicas |-> spec, rv |-> 0]
  /\ svc = [o \in Ord |-> IF o < spec THEN [uid |-> 1, label |-> "none"]
                                      ELSE [uid |-> 0, label |-> "absent"]]
  /\ pod = [o \in Ord |-> IF o < spec THEN "normal" ELSE "none"]
  /\ disk = [o \in Ord |-> IF o < spec THEN "member" ELSE "none"]
  /\ doomed = {}
  /\ cspec = spec /\ csts = sts /\ csvc = svc /\ owed = {}
  /\ pc = "idle" /\ snap = Blank /\ todo = {} /\ cur = 0 /\ failed = FALSE
  /\ used = [changes |-> 0, faults |-> 0, lost |-> 0, disruptions |-> 0]

Next ==
  \/ Sync \/ Crash \/ Observe
  \/ \E n \in NodeCount : SetNodeCount(n)
  \/ \E o \in Ord : \/ Sidecar(o) \/ Cluster(o)
                    \/ DrainNode(o) \/ RestartPod(o) \/ FailDecommission(o)

Spec == Init /\ [][Next]_vars

\* The work queue retries a failed sync, an informer keeps watching, and the
\* sidecars, ScyllaDB and the StatefulSet controller keep making progress.
Fairness ==
  /\ WF_vars(Sync)
  /\ WF_vars(ObserveSpec) /\ WF_vars(ObserveSts) /\ WF_vars(ObserveSvc)
  /\ \A o \in Ord : WF_vars(Sidecar(o)) /\ WF_vars(Cluster(o))

FairSpec == Spec /\ Fairness

-----------------------------------------------------------------------------
(* Safety. *)

\* No node is scaled away before it has left the cluster: whatever the order of
\* label updates, cache lag and retries, a node that joins or is a member has an
\* ordinal below the StatefulSet's replicas.
MembersBelowReplicas == \A o \in Ord : disk[o] \in {"fresh", "member"} => o < sts.replicas

\* pruneServices deletes the PVC by name, with no precondition: it must only ever
\* hit the volume of a node that has left and that the StatefulSet was scaled
\* below.
DeletesLeftVolume ==
  \A o \in Ord : \/ disk'[o] = "none" /\ disk[o] # "none"
                 \/ o \in doomed' \ doomed
                 => disk[o] = "left" /\ o >= sts.replicas
OnlyLeftVolumesDeleted == [][DeletesLeftVolume]_vars

\* A raised node count must not recreate a leaving node on its old PVC: a Pod is
\* only ever created on an empty volume or on that of a member.
CreatesPodOnLiveVolume ==
  \A o \in Ord : pod[o] = "none" /\ pod'[o] # "none" => disk[o] # "left"
NoPodOnLeftVolume == [][CreatesPodOnLiveVolume]_vars

\* The rack's StatefulSet and volumes follow RackMembership, from the labels the
\* sidecars set and the stale, partial view each sync works from.
Membership == INSTANCE RackMembership WITH size <- sts.replicas, node <- disk
MembershipSpec == Membership!Spec

\* A node that has left and is within the replicas is still labelled.
LeftNodeIsHeld ==
  \A o \in Ord : disk[o] = "left" /\ o < sts.replicas => svc[o].label \in {"false", "true"}

\* With parallel node operations disabled at most one decommission is in flight
\* in the rack.
OneDecommissionAtATime ==
  Parallel \/ \A o, p \in Ord : svc[o].label = "false" /\ svc[p].label = "false" => o = p

\* "While any node is leaving, a raised spec node count is deferred": the
\* StatefulSet does not grow while a Service carries the decommissioned label.
RaisesWhenNoneLeaves ==
  sts'.replicas > sts.replicas => \A o \in Ord : svc[o].label \in {"absent", "none"}
RaiseIsDeferred == [][RaisesWhenNoneLeaves]_vars

\* The leaving nodes are a suffix of the rack.
LeavingIsSuffix ==
  \A o, p \in Ord : o < p /\ p < sts.replicas /\ svc[o].label \in {"false", "true"}
                      => svc[p].label \in {"false", "true"}

-----------------------------------------------------------------------------
(* The inductive invariant. *)

Rank == [none |-> 0, false |-> 1, true |-> 2, absent |-> 3]
\* Service version a is b or an earlier version of the Services of that name.
Older(a, b) == a.uid < b.uid \/ (a.uid = b.uid /\ Rank[a.label] <= Rank[b.label])

Labelled(v) == v.label \in {"false", "true"}
Active == pc # "idle"
Pruning == pc \in {"prunePVC", "pruneSvc"}

\* A snapshot is no newer than the cache, and the cache than the API; a scale needs
\* the current StatefulSet, so no view of it is more than one version behind.
ViewsOrdered ==
  /\ csts.rv <= sts.rv /\ sts.rv <= csts.rv + 1
  /\ csts.rv = sts.rv => csts = sts
  /\ Active => /\ snap.sts.rv <= csts.rv /\ sts.rv <= snap.sts.rv + 1
               /\ snap.sts.rv = csts.rv => snap.sts = csts
  /\ \A o \in Ord : /\ Older(csvc[o], svc[o])
                    /\ Active => Older(snap.svc[o], csvc[o])

\* What the nodes' modes say of their volumes.
NodesConsistent ==
  \A o \in Ord :
    /\ pod[o] # "none" => disk[o] # "none"
    /\ pod[o] = "joining" => disk[o] = "fresh"
    /\ pod[o] \in {"normal", "drained", "leaving"} => disk[o] = "member"
    /\ pod[o] \in {"decommissioned", "down"} => disk[o] = "left"
    /\ o \in doomed => disk[o] = "left" /\ pod[o] # "none"

\* What the labels say of the nodes and of the views.
LabelsMeanLeft ==
  \A o \in Ord :
    /\ svc[o].label = "true" => disk[o] = "left" \/ (disk[o] = "none" /\ o >= sts.replicas)
    /\ svc[o].label = "false" => o < sts.replicas
    /\ Labelled(svc[o]) /\ o < sts.replicas =>
         o < csts.replicas /\ (Active => o < snap.sts.replicas)
    /\ disk[o] = "left" /\ o \notin doomed /\ o >= sts.replicas => svc[o].label = "true"

\* A node that is scaled away and not pruned is labelled in every view, and a view
\* that still counts it knows so.
ScaledAwayIsKnown ==
  \A o \in Ord :
    /\ o >= sts.replicas /\ svc[o].label = "true" =>
         csvc[o] = svc[o] /\ (Active => snap.svc[o] = svc[o])
    /\ o >= sts.replicas /\ csvc[o].label = "true" /\ Active => snap.svc[o] = csvc[o]
    /\ o >= sts.replicas /\ (o < csts.replicas \/ (Active /\ o < snap.sts.replicas))
         => svc[o].label = "true"
    /\ o < sts.replicas /\ csvc[o].label = "true" => svc[o] = csvc[o]
    /\ Active /\ o < sts.replicas /\ snap.svc[o].label = "true" => svc[o] = snap.svc[o]

\* What the phases of a sync rely on.
SyncConsistent ==
  /\ pc = "request" => \A o \in todo : o < snap.sts.replicas /\ snap.svc[o].label = "none"
  /\ pc = "prune" \/ Pruning =>
       \A o \in todo : o >= snap.sts.replicas /\ snap.svc[o].label = "true"
  /\ Pruning => cur \in todo /\ svc[cur].label = "true"
  /\ pc = "pruneSvc" => cur \in doomed \/ disk[cur] # "left"

IInv == /\ TypeOK /\ ViewsOrdered /\ NodesConsistent /\ LabelsMeanLeft
        /\ ScaledAwayIsKnown /\ SyncConsistent /\ MembersBelowReplicas

-----------------------------------------------------------------------------
(* Liveness. *)

\* The rack has the nodes its node count calls for, all of them up.
NodesConverged ==
  /\ sts.replicas = spec
  /\ \A o \in Ord :
       IF o < spec THEN pod[o] = "normal" /\ disk[o] = "member" /\ svc[o].label = "none"
                   ELSE pod[o] = "none" /\ disk[o] = "none" /\ svc[o].label \in {"absent", "none"}

\* A node awaits a Service that nothing creates: the StatefulSet has the ordinal,
\* the node count does not, and the Service is missing.
ServiceGap == \E o \in Ord : spec <= o /\ o < sts.replicas /\ svc[o].label = "absent"

\* A node left the cluster and was restarted before its sidecar could say so.
Unconfirmed == \E o \in Ord : svc[o].label = "false" /\ disk[o] = "left" /\ pod[o] = "starting"

\* Once the user stops editing, every scale-up and scale-down runs to its end,
\* unless a node was added above a leaving one, the rack was released while the
\* Pod of a node that left still ran, a node restarts between leaving the cluster
\* and its label, or a Service gap persists.
EventuallyConverged ==
  []LeavingIsSuffix /\ []LeftNodeIsHeld /\ []~Unconfirmed /\ []<>~ServiceGap
    => <>[]NodesConverged

\* "Services are managed in the other loop": a Service that syncRackDecommission
\* waits for is created, or the node is scaled away.
AwaitedServiceAppears ==
  \A o \in Ord : (o < sts.replicas /\ svc[o].label = "absent")
                   ~> (o >= sts.replicas \/ svc[o].label # "absent")
=============================================================================
