------------------------------ MODULE Upgrade ------------------------------
(***************************************************************************)
(* Rolling out a new ScyllaDB image over the racks of a ScyllaDBDatacenter:*)
(* the part of syncStatefulSets that follows the scaling, and the upgrade  *)
(* hooks it runs.                                                          *)
(*                                                                         *)
(* An image of another minor version is rolled out under an upgrade        *)
(* context, a ConfigMap that holds the phase of the upgrade, one node per  *)
(* sync: the node is drained, backed up and deleted, and the partition of  *)
(* its StatefulSet is lowered so that the Pod comes back with the new      *)
(* image.  Any other image is applied directly, and the StatefulSet        *)
(* controller restarts the Pods.  The StatefulSet controller, the kubelet  *)
(* and ScyllaDB are external and modelled from how the operator relies on  *)
(* them.                                                                   *)
(***************************************************************************)
EXTENDS Integers, FiniteSets

CONSTANTS
  NumRacks,           \* racks are 1 .. NumRacks, in the order of the spec
  MaxNodes,           \* ordinals are below this bound
  InitialNodes,       \* nodes of each rack at first
  Images,             \* ScyllaDB images
  MinorVersion(_),    \* major and minor version of an image
  InitialImage,
  Keyspaces,          \* the keyspaces that are not system keyspaces
  OrderedReady,       \* getPodManagementPolicy: not Parallel
  MaxChanges,         \* image changes by the user
  MaxScales,          \* racks scaled by one node
  MaxFaults,          \* operator crashes and failed calls
  MaxRestarts         \* ScyllaDB containers that restart by themselves

ASSUME UpgradeAssumption ==
  /\ NumRacks \in Nat \ {0}
  /\ MaxNodes \in Nat \ {0} /\ InitialNodes \in 1 .. MaxNodes
  /\ InitialImage \in Images /\ "none" \notin Images
  /\ Keyspaces # {} /\ IsFiniteSet(Keyspaces)
  /\ OrderedReady \in BOOLEAN
  /\ MaxChanges \in Nat /\ MaxScales \in Nat
  /\ MaxFaults \in Nat /\ MaxRestarts \in Nat

VARIABLES
  image,     \* spec.scyllaDB.image
  ctx,       \* phase in the upgrade context ConfigMap, "none" without one
  sts,       \* StatefulSet of each rack: spec and the rollout part of status
  maint,     \* nodes whose Service has the node maintenance label
  pod,       \* state of each node's Pod and of ScyllaDB in it
  ready,     \* nodes whose Pod the kubelet last reported ready
  ran,       \* image that last ran on each node's volume, "none" on a new one
  data,      \* keyspaces in each node's data snapshot, {} without the tag
  system,    \* nodes that hold the system snapshot
  pc,        \* next call of the sync in progress
  want,      \* image the sync in progress read
  rack,      \* rack the sync in progress works on
  failed,    \* an error is aggregated in the sync in progress
  changed,   \* StatefulSets written since the sync in progress read them
  used       \* how much of each bound is used

clusterVars == <<maint, pod, ready, ran, data, system>>
syncVars == <<pc, want, rack, failed, changed>>
vars == <<image, ctx, sts, maint, pod, ready, ran, data, system,
          pc, want, rack, failed, changed, used>>

Racks == 1 .. NumRacks
Ord == 0 .. (MaxNodes - 1)
Node == Racks \X Ord
UpgradePhases == {"none", "PreHooks", "RolloutInit", "RolloutRun", "PostHooks"}
Calls == {"idle", "begin", "snapshotSystem", "startInit", "init", "startRun",
          "after", "maintain", "drain", "snapshotData", "unmaintain",
          "delete", "lower", "endRun", "clearSystem", "deleteContext"}
StatefulSet == [replicas : 0 .. MaxNodes, template : Images, partition : 0 .. MaxNodes,
                observed : BOOLEAN, readyReplicas : 0 .. MaxNodes,
                updatedReplicas : 0 .. MaxNodes, current : Images]

TypeOK ==
  /\ image \in Images /\ want \in Images
  /\ ctx \in UpgradePhases /\ pc \in Calls
  /\ sts \in [Racks -> StatefulSet]
  /\ maint \subseteq Node /\ ready \subseteq Node /\ system \subseteq Node
  /\ pod \in [Node -> {"none", "starting", "up", "draining", "drained"}]
  /\ ran \in [Node -> Images \cup {"none"}]
  /\ data \in [Node -> SUBSET Keyspaces]
  /\ rack \in Racks
  /\ failed \in BOOLEAN /\ changed \subseteq Racks
  /\ used \in [changes : 0 .. MaxChanges, scales : 0 .. MaxScales,
               faults : 0 .. MaxFaults, restarts : 0 .. MaxRestarts]

\* The nodes of a rack, and of the datacenter.
Members(r) == {n \in Node : n[1] = r /\ n[2] < sts[r].replicas}
AllMembers == UNION {Members(r) : r \in Racks}

-----------------------------------------------------------------------------
(* Bounds. *)

Change == /\ used.changes < MaxChanges
          /\ used' = [used EXCEPT !.changes = @ + 1]
Scale == /\ used.scales < MaxScales
         /\ used' = [used EXCEPT !.scales = @ + 1]
Fault == /\ used.faults < MaxFaults
         /\ used' = [used EXCEPT !.faults = @ + 1]
Restart == /\ used.restarts < MaxRestarts
           /\ used' = [used EXCEPT !.restarts = @ + 1]

-----------------------------------------------------------------------------
(* What the controller derives from the objects it read. *)

\* Mutant: the status of an older generation counts.
RolledOutUnobserved(r) ==
  /\ sts[r].readyReplicas = sts[r].replicas
  /\ sts[r].updatedReplicas = sts[r].replicas - sts[r].partition

\* IsStatefulSetRolledOut.  The status is as old as its last update.
RolledOut(r) ==
  /\ sts[r].observed
  /\ sts[r].readyReplicas = sts[r].replicas
  /\ sts[r].updatedReplicas = sts[r].replicas - sts[r].partition

\* The partition of the required StatefulSet: the existing one, adjusted if
\* the rack was scaled in between.
RequiredPartition(r) ==
  IF sts[r].partition > sts[r].replicas THEN sts[r].replicas ELSE sts[r].partition

\* The node that the next step of the rollout upgrades, and the one that its
\* last step upgraded.
NextNode == <<rack, RequiredPartition(rack) - 1>>
LastNode == <<rack, RequiredPartition(rack)>>

\* ScyllaDB's API answers.
Reachable(n) == pod[n] \in {"up", "draining", "drained"}

-----------------------------------------------------------------------------
(* The user, and the rest of the sync. *)

ChangeImage(i) ==
  /\ i # image
  /\ Change
  /\ image' = i
  /\ UNCHANGED <<ctx, sts, clusterVars, syncVars>>

\* A StatefulSet is written by another writer: the sync's copy is old.
Touch(r) == changed' = IF pc = "idle" THEN changed ELSE changed \cup {r}

\* A whole scale-down by one node (RackScaling.tla has its steps).  It needs the
\* other racks rolled out, and goes ahead of any upgrade in progress.
ScaleDown(r) ==
  LET top == <<r, sts[r].replicas - 1>> IN
  /\ pc = "idle"
  /\ sts[r].replicas > 1
  /\ \A q \in Racks \ {r} : RolledOut(q)
  /\ Scale
  /\ sts' = [sts EXCEPT ![r].replicas = @ - 1, ![r].observed = FALSE]
  /\ pod' = [pod EXCEPT ![top] = "none"]
  /\ ran' = [ran EXCEPT ![top] = "none"]
  /\ data' = [data EXCEPT ![top] = {}]
  /\ maint' = maint \ {top} /\ ready' = ready \ {top} /\ system' = system \ {top}
  /\ UNCHANGED <<image, ctx, syncVars>>

ScaleUp(r) ==
  /\ pc = "idle"
  /\ sts[r].replicas < MaxNodes
  /\ \A q \in Racks \ {r} : RolledOut(q)
  /\ Scale
  /\ sts' = [sts EXCEPT ![r].replicas = @ + 1, ![r].observed = FALSE]
  /\ UNCHANGED <<image, ctx, clusterVars, syncVars>>

-----------------------------------------------------------------------------
(* The sync, from the wait for all racks to be up and ready. *)

EndSync ==
  /\ pc' = "idle" /\ rack' = 1 /\ failed' = FALSE /\ changed' = {}
  /\ want' = InitialImage

Goto(call) == pc' = call /\ UNCHANGED <<want, rack, failed, changed>>

FirstCall == [none |-> "begin", PreHooks |-> "snapshotSystem", RolloutInit |-> "init",
              RolloutRun |-> "after", PostHooks |-> "clearSystem"]

StartSync ==
  /\ pc = "idle"
  /\ \A r \in Racks : RolledOut(r)
  /\ pc' = FirstCall[ctx] /\ want' = image
  /\ UNCHANGED <<image, ctx, sts, clusterVars, rack, failed, changed, used>>

\* Applying the upgrade context with the next phase.
SetPhase(call, phase) ==
  /\ pc = call
  /\ ctx' = phase
  /\ EndSync
  /\ UNCHANGED <<image, sts, clusterVars, used>>

\* The controller crashes, or its next call fails without effect.
Abort ==
  /\ pc # "idle"
  /\ Fault
  /\ EndSync
  /\ UNCHANGED <<image, ctx, sts, clusterVars>>

\* A hook cannot reach ScyllaDB on the node it is about to call.
HookFails ==
  /\ \/ pc \in {"snapshotSystem", "clearSystem"} /\ \E n \in AllMembers : ~Reachable(n)
     \/ pc = "after" /\ RequiredPartition(rack) < sts[rack].replicas /\ ~Reachable(LastNode)
     \/ pc \in {"drain", "snapshotData"} /\ ~Reachable(NextNode)
  /\ EndSync
  /\ UNCHANGED <<image, ctx, sts, clusterVars, used>>

-----------------------------------------------------------------------------
(* No upgrade in progress: begin the update, rack by rack. *)

NeedsUpgrade == MinorVersion(sts[rack].template) # MinorVersion(want)

StartUpgrade == NeedsUpgrade /\ SetPhase("begin", "PreHooks")

\* Apply the StatefulSet, which then waits to be observed.
ApplyStatefulSet ==
  /\ pc = "begin" /\ ~NeedsUpgrade /\ sts[rack].template # want
  /\ sts' = IF rack \in changed THEN sts
            ELSE [sts EXCEPT ![rack].template = want, ![rack].observed = FALSE,
                             ![rack].partition = RequiredPartition(rack)]
  /\ EndSync
  /\ UNCHANGED <<image, ctx, clusterVars, used>>

\* Nothing to apply: go on to the next rack once this one is rolled out.
SkipRack ==
  /\ pc = "begin" /\ sts[rack].template = want
  /\ IF RolledOut(rack) /\ rack < NumRacks
       THEN rack' = rack + 1 /\ UNCHANGED <<pc, want, failed, changed>>
       ELSE EndSync
  /\ UNCHANGED <<image, ctx, sts, clusterVars, used>>

-----------------------------------------------------------------------------
(* PreHooks: beforeUpgrade. *)

\* Without schema agreement the hook is repeated later, which is an Abort.
SnapshotSystem ==
  /\ pc = "snapshotSystem"
  /\ \A n \in AllMembers : Reachable(n)
  /\ \/ /\ system' = system \cup AllMembers
        /\ Goto("startInit")
        /\ UNCHANGED used
     \/ /\ \E S \in SUBSET AllMembers : system' = system \cup S
        /\ Fault
        /\ EndSync
  /\ UNCHANGED <<image, ctx, sts, maint, pod, ready, ran, data>>

-----------------------------------------------------------------------------
(* RolloutInit: partition all StatefulSets and apply the template. *)

\* Apply with the resource version the sync read; errors are aggregated.
InitRack ==
  /\ pc = "init"
  /\ \/ /\ rack \notin changed
        /\ sts' = IF sts[rack].template = want /\ sts[rack].partition = sts[rack].replicas
                  THEN sts
                  ELSE [sts EXCEPT ![rack].template = want, ![rack].observed = FALSE,
                                   ![rack].partition = sts[rack].replicas]
        /\ failed' = failed
     \/ /\ rack \in changed
        /\ sts' = sts
        /\ failed' = TRUE
  /\ rack' = IF rack < NumRacks THEN rack + 1 ELSE rack
  /\ pc' = IF rack < NumRacks THEN pc ELSE "startRun"
  /\ UNCHANGED <<image, ctx, clusterVars, want, changed, used>>

StartRun ==
  \/ ~failed /\ SetPhase("startRun", "RolloutRun")
  \/ failed /\ SetPhase("startRun", ctx)

-----------------------------------------------------------------------------
(* RolloutRun: one node of one rack per sync. *)

\* The hook itself: the data snapshot of the upgraded node is removed.
RemoveDataSnapshot == [data EXCEPT ![LastNode] = {}]

\* Mutant: a finished rack is skipped before the hook of its last node.
AfterNodeUpgradeSkippingFinished ==
  LET partition == RequiredPartition(rack)
      begun == partition > 0 /\ partition < sts[rack].replicas IN
  /\ pc = "after"
  /\ sts[rack].partition = partition
  /\ begun => Reachable(LastNode)
  /\ data' = IF begun THEN RemoveDataSnapshot ELSE data
  /\ CASE partition > 0 -> Goto("maintain")
       [] partition = 0 /\ rack < NumRacks ->
            rack' = rack + 1 /\ UNCHANGED <<pc, want, failed, changed>>
       [] partition = 0 /\ rack = NumRacks -> Goto("endRun")
  /\ UNCHANGED <<image, ctx, sts, maint, pod, ready, ran, system, used>>

\* afterNodeUpgrade, when the rollout of the rack has begun, then the next node
\* or the next rack.  The live partition is the required one: no rack of which
\* it is not counts as rolled out.
AfterNodeUpgrade ==
  LET partition == RequiredPartition(rack)
      begun == partition < sts[rack].replicas IN
  /\ pc = "after"
  /\ sts[rack].partition = partition
  /\ begun => Reachable(LastNode)
  /\ data' = IF begun THEN RemoveDataSnapshot ELSE data
  /\ CASE partition > 0 -> Goto("maintain")
       [] partition = 0 /\ rack < NumRacks ->
            rack' = rack + 1 /\ UNCHANGED <<pc, want, failed, changed>>
       [] partition = 0 /\ rack = NumRacks -> Goto("endRun")
  /\ UNCHANGED <<image, ctx, sts, maint, pod, ready, ran, system, used>>

\* beforeNodeUpgrade, call by call.
Maintain ==
  /\ pc = "maintain"
  /\ maint' = maint \cup {NextNode}
  /\ Goto("drain")
  /\ UNCHANGED <<image, ctx, sts, pod, ready, ran, data, system, used>>

\* A drain that times out goes on in ScyllaDB.
Drain ==
  /\ pc = "drain"
  /\ \/ /\ pod[NextNode] \in {"up", "drained"}
        /\ pod' = [pod EXCEPT ![NextNode] = "drained"]
        /\ Goto("snapshotData")
        /\ UNCHANGED used
     \/ /\ pod[NextNode] = "draining"
        /\ EndSync
        /\ UNCHANGED <<pod, used>>
     \/ /\ pod[NextNode] = "up"
        /\ pod' = [pod EXCEPT ![NextNode] = "draining"]
        /\ Fault
        /\ EndSync
  /\ UNCHANGED <<image, ctx, sts, maint, ready, ran, data, system>>

\* Mutant: an error of the backup is ignored.
SnapshotDataIgnoringErrors ==
  /\ pc = "snapshotData"
  /\ \/ data' = [data EXCEPT ![NextNode] = Keyspaces] /\ UNCHANGED used
     \/ UNCHANGED data /\ Fault
  /\ Goto("unmaintain")
  /\ UNCHANGED <<image, ctx, sts, maint, pod, ready, ran, system>>

\* backupKeyspaces: nothing is done when the tag exists.
Backup(snapshot) == IF snapshot # {} THEN snapshot ELSE Keyspaces

\* The keyspaces are snapshotted one by one.
SnapshotData ==
  /\ pc = "snapshotData"
  /\ Reachable(NextNode)
  /\ \/ /\ data' = [data EXCEPT ![NextNode] = Backup(@)]
        /\ Goto("unmaintain")
        /\ UNCHANGED used
     \/ /\ data[NextNode] = {}
        /\ \E S \in SUBSET Keyspaces \ {Keyspaces} : data' = [data EXCEPT ![NextNode] = S]
        /\ Fault
        /\ EndSync
  /\ UNCHANGED <<image, ctx, sts, maint, pod, ready, ran, system>>

\* Mutant: the label is left on the Service.
UnmaintainNothing ==
  /\ pc = "unmaintain"
  /\ Goto("delete")
  /\ UNCHANGED <<image, ctx, sts, clusterVars, used>>

Unmaintain ==
  /\ pc = "unmaintain"
  /\ maint' = maint \ {NextNode}
  /\ Goto("delete")
  /\ UNCHANGED <<image, ctx, sts, pod, ready, ran, data, system, used>>

DeletePod ==
  /\ pc = "delete"
  /\ pod' = [pod EXCEPT ![NextNode] = "none"]
  /\ ready' = ready \ {NextNode}
  /\ Goto("lower")
  /\ UNCHANGED <<image, ctx, sts, maint, ran, data, system, used>>

\* Mutant: the update carries the required template.
LowerPartitionWithTemplate ==
  /\ pc = "lower"
  /\ sts' = [sts EXCEPT ![rack].partition = @ - 1, ![rack].observed = FALSE,
                        ![rack].template = want]
  /\ EndSync
  /\ UNCHANGED <<image, ctx, clusterVars, used>>

\* A live read and an update, retried on conflict.
LowerPartition ==
  /\ pc = "lower"
  /\ sts' = [sts EXCEPT ![rack].partition = @ - 1, ![rack].observed = FALSE]
  /\ EndSync
  /\ UNCHANGED <<image, ctx, clusterVars, used>>

EndRun == SetPhase("endRun", "PostHooks")

-----------------------------------------------------------------------------
(* PostHooks: afterUpgrade, then the upgrade context is deleted. *)

ClearSystem ==
  /\ pc = "clearSystem"
  /\ \A n \in AllMembers : Reachable(n)
  /\ \/ /\ system' = system \ AllMembers
        /\ Goto("deleteContext")
        /\ UNCHANGED used
     \/ /\ \E S \in SUBSET AllMembers : system' = system \ S
        /\ Fault
        /\ EndSync
  /\ UNCHANGED <<image, ctx, sts, maint, pod, ready, ran, data>>

DeleteContext == SetPhase("deleteContext", "none")

-----------------------------------------------------------------------------
(* External: the StatefulSet controller, the kubelet and ScyllaDB. *)

\* A missing Pod is created, of the current revision below the partition.
CreatePod(n) ==
  LET s == sts[n[1]] IN
  /\ n \in AllMembers /\ pod[n] = "none"
  /\ OrderedReady => \A m \in Members(n[1]) : m[2] < n[2] => m \in ready
  /\ pod' = [pod EXCEPT ![n] = "starting"]
  /\ ran' = [ran EXCEPT ![n] = IF n[2] < s.partition THEN s.current ELSE s.template]
  /\ UNCHANGED <<image, ctx, sts, maint, ready, data, system, syncVars, used>>

\* The highest outdated Pod at or above the partition is deleted once the Pods
\* above it are updated and ready, and with OrderedReady all Pods are ready.
RestartPod(n) ==
  LET s == sts[n[1]] IN
  /\ n \in AllMembers /\ pod[n] # "none" /\ ran[n] # s.template /\ n[2] >= s.partition
  /\ \A m \in Members(n[1]) : OrderedReady \/ m[2] > n[2] => m \in ready
  /\ \A m \in Members(n[1]) : m[2] > n[2] => ran[m] = s.template
  /\ pod' = [pod EXCEPT ![n] = "none"]
  /\ ready' = ready \ {n}
  /\ UNCHANGED <<image, ctx, sts, maint, ran, data, system, syncVars, used>>

\* The status counts the Pods; a finished update makes its revision current.
UpdateStatus(r) ==
  LET s == sts[r]
      updated == Cardinality({n \in Members(r) : pod[n] # "none" /\ ran[n] = s.template})
      readyNow == Cardinality(Members(r) \cap ready)
      new == [s EXCEPT !.observed = TRUE, !.readyReplicas = readyNow,
                !.updatedReplicas = updated,
                !.current = IF updated = s.replicas /\ readyNow = s.replicas
                            THEN s.template ELSE @] IN
  /\ new # s
  /\ sts' = [sts EXCEPT ![r] = new]
  /\ Touch(r)
  /\ UNCHANGED <<image, ctx, clusterVars, pc, want, rack, failed, used>>

StartNode(n) ==
  /\ pod[n] = "starting"
  /\ pod' = [pod EXCEPT ![n] = "up"]
  /\ UNCHANGED <<image, ctx, sts, maint, ready, ran, data, system, syncVars, used>>

\* The container restarts; the kubelet has yet to notice.
RestartNode(n) ==
  /\ Reachable(n)
  /\ Restart
  /\ pod' = [pod EXCEPT ![n] = "starting"]
  /\ UNCHANGED <<image, ctx, sts, maint, ready, ran, data, system, syncVars>>

FinishDrain(n) ==
  /\ pod[n] = "draining"
  /\ pod' = [pod EXCEPT ![n] = "drained"]
  /\ UNCHANGED <<image, ctx, sts, maint, ready, ran, data, system, syncVars, used>>

\* The readiness probe (Prober.Readyz).  The liveness probe (Prober.Healthz)
\* passes in every state of a started node, so nothing restarts a drained one.
Readyz(n) ==
  LET ok == pod[n] = "up" /\ n \notin maint IN
  /\ ok # (n \in ready)
  /\ ready' = IF ok THEN ready \cup {n} ELSE ready \ {n}
  /\ UNCHANGED <<image, ctx, sts, maint, pod, ran, data, system, syncVars, used>>

-----------------------------------------------------------------------------

Init ==
  /\ image = InitialImage /\ want = InitialImage
  /\ ctx = "none" /\ pc = "idle" /\ rack = 1 /\ failed = FALSE /\ changed = {}
  /\ sts = [r \in Racks |-> [replicas |-> InitialNodes, template |-> InitialImage,
              partition |-> 0, observed |-> TRUE, readyReplicas |-> InitialNodes,
              updatedReplicas |-> InitialNodes, current |-> InitialImage]]
  /\ maint = {} /\ system = {}
  /\ pod = [n \in Node |-> IF n[2] < InitialNodes THEN "up" ELSE "none"]
  /\ ready = {n \in Node : n[2] < InitialNodes}
  /\ ran = [n \in Node |-> IF n[2] < InitialNodes THEN InitialImage ELSE "none"]
  /\ data = [n \in Node |-> {}]
  /\ used = [changes |-> 0, scales |-> 0, faults |-> 0, restarts |-> 0]

SyncStep ==
  \/ StartSync \/ HookFails
  \/ StartUpgrade \/ ApplyStatefulSet \/ SkipRack
  \/ SnapshotSystem \/ SetPhase("startInit", "RolloutInit")
  \/ InitRack \/ StartRun
  \/ AfterNodeUpgrade \/ Maintain \/ Drain \/ SnapshotData
  \/ Unmaintain \/ DeletePod \/ LowerPartition \/ EndRun
  \/ ClearSystem \/ DeleteContext

NodeStep(n) ==
  CreatePod(n) \/ RestartPod(n) \/ StartNode(n) \/ FinishDrain(n) \/ Readyz(n)

Next ==
  \/ \E i \in Images : ChangeImage(i)
  \/ \E r \in Racks : ScaleDown(r) \/ ScaleUp(r) \/ UpdateStatus(r)
  \/ SyncStep \/ Abort
  \/ \E n \in Node : NodeStep(n) \/ RestartNode(n)

Spec == Init /\ [][Next]_vars

\* The controller keeps working through its queue, the StatefulSet controller
\* keeps reconciling, and nodes start, drain and are probed.
Fairness ==
  /\ WF_vars(SyncStep)
  /\ \A r \in Racks : WF_vars(UpdateStatus(r))
  /\ \A n \in Node : WF_vars(NodeStep(n))

FairSpec == Spec /\ Fairness

-----------------------------------------------------------------------------
(* Properties. *)

\* On racks that are not scaled meanwhile, a rollout takes at most one node of the
\* datacenter down at a time (drained, stopped or starting), whatever the image
\* changes, faults and delays: the wait
\* for all racks to be rolled out sees the last restarted node before the next
\* one is touched.  Containers that restart by themselves come on top.
OneNodeDown == Cardinality({n \in AllMembers : pod[n] # "up"}) <= 1 + used.restarts

\* On racks that are not scaled meanwhile, the nodes never run more than two minor
\* versions at once, even when the user changes the image again in the middle of an
\* upgrade.
TwoMinorVersions ==
  Cardinality({MinorVersion(ran[n]) : n \in {m \in AllMembers : ran[m] # "none"}}) <= 2

\* A node only changes its minor version with a data snapshot of its own.
ChangesMinorVersion(n) ==
  /\ ran[n] # "none" /\ ran'[n] # "none"
  /\ MinorVersion(ran'[n]) # MinorVersion(ran[n])

BackedUpBeforeUpgrade ==
  [][\A n \in Node : ChangesMinorVersion(n) => data[n] # {}]_vars

\* The hooks remove every snapshot they took by the time the upgrade ends.
NoSnapshotLeft == ctx = "none" => system = {} /\ \A n \in Node : data[n] = {}

\* One image change at a time, on racks that are not scaled meanwhile, by an
\* operator none of whose calls fail, on nodes that do not restart by
\* themselves: what any of these may leave behind is the subject of the
\* properties at the end.
Undisturbed ==
  used.changes <= 1 /\ used.scales = 0 /\ used.faults = 0 /\ used.restarts = 0

\* Undisturbed, the image of the spec ends up running on every node, and the
\* upgrade ends.
EventuallyRolledOut ==
  <>[](Undisturbed =>
         ctx = "none" /\ \A n \in AllMembers : pod[n] = "up" /\ ran[n] = image)

-----------------------------------------------------------------------------
(* What the documentation and the comments say, and the code does not do. *)

\* The operator ends the maintenance of a node it put under maintenance.
MaintenanceEnds == \A n \in Node : n \in maint ~> n \notin maint

\* A partition above the replicas is adjusted after the rack was scaled.
PartitionAdjusted ==
  \A r \in Racks : sts[r].partition > sts[r].replicas ~> sts[r].partition <= sts[r].replicas

\* The upgrade context is cleaned up after the upgrade.
ContextCleanedUp == ctx # "none" ~> ctx = "none"

\* A node only changes its minor version with all its keyspaces in the snapshot.
BackupIsComplete ==
  [][\A n \in Node : ChangesMinorVersion(n) => data[n] = Keyspaces]_vars
=============================================================================
