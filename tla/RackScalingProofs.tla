------------------------- MODULE RackScalingProofs -------------------------
(***************************************************************************)
(* Proofs about RackScaling, for every number of nodes, both modes of node *)
(* operations and every bound on edits and faults.                         *)
(***************************************************************************)
EXTENDS RackScaling, TLAPS

LEMMA OrdFacts == /\ Ord \subseteq Nat /\ NodeCount \subseteq Nat
                  /\ 0 \in Ord
                  /\ \A o \in Ord : o \in NodeCount /\ o < MaxNodes
  BY BoundsAssumption DEF Ord, NodeCount

\* The two ways a record of the model is built.
LEMMA ServiceType ==
  /\ \A u \in Nat, l \in Labels : [uid |-> u, label |-> l] \in Service
  /\ \A v \in Service : v.uid \in Nat /\ v.label \in Labels
  BY DEF Service

LEMMA StsType ==
  /\ \A n \in NodeCount, r \in Nat : [replicas |-> n, rv |-> r] \in StatefulSet
  /\ \A v \in StatefulSet : v.replicas \in NodeCount /\ v.rv \in Nat
  BY DEF StatefulSet

LEMMA BlankType == Blank \in Snapshot
  BY OrdFacts, BoundsAssumption DEF Blank, Snapshot, StatefulSet, Service, Labels, NodeCount

LEMMA IdleType == Idle => /\ pc' \in Phases /\ snap' \in Snapshot /\ todo' \subseteq Ord
                          /\ cur' \in Ord /\ failed' \in BOOLEAN
  BY BlankType, OrdFacts DEF Idle, Phases

LEMMA UsedType ==
  ASSUME TypeOK
  PROVE /\ Change => used' \in [changes : Nat, faults : Nat, lost : Nat, disruptions : Nat]
        /\ Fault => used' \in [changes : Nat, faults : Nat, lost : Nat, disruptions : Nat]
        /\ Lose => used' \in [changes : Nat, faults : Nat, lost : Nat, disruptions : Nat]
        /\ Disrupt => used' \in [changes : Nat, faults : Nat, lost : Nat, disruptions : Nat]
  BY DEF TypeOK, Change, Fault, Lose, Disrupt
USE DEF apiVars, nodeVars, cacheVars, syncVars

LEMMA ToPruneType ==
  ASSUME TypeOK, ToPrune
  PROVE pc' \in Phases /\ snap' \in Snapshot /\ todo' \subseteq Ord /\ cur' \in Ord
        /\ failed' \in BOOLEAN
  BY DEF ToPrune, TypeOK, Phases

LEMMA ScaleToType ==
  ASSUME TypeOK, NEW n \in NodeCount, ScaleTo(n)
  PROVE sts' \in StatefulSet
        /\ used' \in [changes : Nat, faults : Nat, lost : Nat, disruptions : Nat]
<1>1. sts.rv + 1 \in Nat
  BY StsType DEF TypeOK
<1>2. sts' \in StatefulSet
  BY <1>1, StsType DEF ScaleTo, TypeOK
<1>3. used' \in [changes : Nat, faults : Nat, lost : Nat, disruptions : Nat]
  BY UsedType DEF ScaleTo, TypeOK
<1> QED BY <1>2, <1>3

LEMMA SkipPrunedType ==
  ASSUME TypeOK, NEW o \in Ord, NEW e \in BOOLEAN, SkipPruned(o, e)
  PROVE pc' \in Phases /\ todo' \subseteq Ord /\ cur' \in Ord /\ failed' \in BOOLEAN
  BY OrdFacts DEF SkipPruned, TypeOK, Phases

\* Every step of the rack reconciliation keeps the types.
LEMMA TypeSync ==
  ASSUME TypeOK, Sync
  PROVE TypeOK'
<1>1. CASE StartSync
  BY <1>1 DEF StartSync, TypeOK, Snapshot, Phases
<1>2. CASE ScaleUp
  <2>1. snap.spec \in NodeCount
    BY DEF TypeOK, Snapshot
  <2> QED BY <1>2, <2>1, ScaleToType, ToPruneType DEF ScaleUp, TypeOK
<1>3. CASE NothingToScale
  BY <1>3, ToPruneType DEF NothingToScale, TypeOK
<1>4. CASE HoldRack
  BY <1>4, ToPruneType DEF HoldRack, TypeOK
<1>5. CASE GateStatefulSets
  BY <1>5, ToPruneType, UsedType DEF GateStatefulSets, TypeOK
<1>6. CASE BeginRequests
  BY <1>6 DEF BeginRequests, TypeOK, Phases, StepNodes
<1>7. CASE ConcludeDecommission
  BY <1>7, ScaleToType, ToPruneType DEF ConcludeDecommission, TypeOK
<1>8. CASE PrunePVC
  <2>1. disk' \in [Ord -> Disks] /\ doomed' \subseteq Ord
    BY <1>8 DEF PrunePVC, DeleteVolume, TypeOK, Disks
  <2>2. SkipPruned(cur, TRUE) => pc' \in Phases /\ todo' \subseteq Ord /\ cur' \in Ord /\ failed' \in BOOLEAN
    BY SkipPrunedType DEF TypeOK
  <2> QED BY <1>8, <2>1, <2>2, UsedType DEF PrunePVC, TypeOK, Phases
<1>9. CASE PruneService
  <2>1. svc' \in [Ord -> Service]
    <3>1. svc' = svc \/ svc' = [svc EXCEPT ![cur] = [uid |-> @.uid, label |-> "absent"]]
      BY <1>9 DEF PruneService
    <3>2. cur \in Ord /\ svc \in [Ord -> Service]
      BY DEF TypeOK
    <3> QED BY <3>1, <3>2 DEF Service, Labels
  <2>2. \A e \in BOOLEAN : SkipPruned(cur, e) => pc' \in Phases /\ todo' \subseteq Ord /\ cur' \in Ord /\ failed' \in BOOLEAN
    BY SkipPrunedType DEF TypeOK
  <2> QED BY <1>9, <2>1, <2>2, UsedType DEF PruneService, TypeOK
<1>10. CASE EndPrune
  BY <1>10, IdleType DEF EndPrune, TypeOK, Phases, Required
<1>11. CASE EndSync
  BY <1>11, IdleType DEF EndSync, TypeOK
<1>12. ASSUME NEW o \in Ord, RequestDecommission(o) PROVE TypeOK'
  <2>1. svc' \in [Ord -> Service]
    <3>1. svc' = svc \/ svc' = [svc EXCEPT ![o] = [uid |-> @.uid, label |-> "false"]]
      BY <1>12 DEF RequestDecommission
    <3> QED BY <1>12, <3>1 DEF TypeOK, Service, Labels
  <2> QED BY <1>12, <2>1, ToPruneType, UsedType DEF RequestDecommission, TypeOK
<1>13. ASSUME NEW o \in Ord, RecheckService(o) PROVE TypeOK'
  BY <1>13, SkipPrunedType, UsedType DEF RecheckService, TypeOK, Phases
<1>14. ASSUME NEW o \in Ord, ApplyService(o) PROVE TypeOK'
  <2>1. svc' \in [Ord -> Service]
    <3>1. svc' = svc \/ svc' = [svc EXCEPT ![o] = [uid |-> @.uid + 1, label |-> "none"]]
      BY <1>14 DEF ApplyService
    <3> QED BY <1>14, <3>1 DEF TypeOK, Service, Labels
  <2> QED BY <1>14, <2>1, IdleType, UsedType DEF ApplyService, TypeOK
<1> QED
  BY <1>1, <1>2, <1>3, <1>4, <1>5, <1>6, <1>7, <1>8, <1>9, <1>10, <1>11, <1>12,
     <1>13, <1>14 DEF Sync

LEMMA TypeNext ==
  ASSUME TypeOK, [Next]_vars
  PROVE TypeOK'
<1>1. CASE Sync
  BY <1>1, TypeSync
<1>2. CASE Crash
  BY <1>2, IdleType, UsedType DEF Crash, TypeOK
<1>3. CASE Observe
  BY <1>3 DEF Observe, ObserveSpec, ObserveSts, ObserveSvc, TypeOK
<1>4. ASSUME NEW n \in NodeCount, SetNodeCount(n) PROVE TypeOK'
  BY <1>4, UsedType DEF SetNodeCount, TypeOK
<1>5. ASSUME NEW o \in Ord, SidecarConfirm(o) PROVE TypeOK'
  <2>1. svc' \in [Ord -> Service]
    BY <1>5 DEF SidecarConfirm, TypeOK, Service, Labels
  <2> QED BY <1>5, <2>1 DEF SidecarConfirm, TypeOK
<1>6. ASSUME NEW o \in Ord, SidecarDecommission(o) \/ SidecarRestartDrained(o)
                              \/ StartNode(o) \/ EndMaintenance(o)
      PROVE TypeOK'
  BY <1>6 DEF SidecarDecommission, SidecarRestartDrained, StartNode, EndMaintenance, TypeOK, Modes
<1>7. ASSUME NEW o \in Ord, CreatePod(o) \/ JoinCluster(o) \/ LeaveCluster(o) \/ DeletePod(o)
      PROVE TypeOK'
  BY <1>7 DEF CreatePod, JoinCluster, LeaveCluster, DeletePod, TypeOK, Modes, Disks
<1>8. ASSUME NEW o \in Ord, DrainNode(o) \/ RestartPod(o) \/ FailDecommission(o)
      PROVE TypeOK'
  BY <1>8, UsedType DEF DrainNode, RestartPod, FailDecommission, TypeOK, Modes
<1>9. CASE UNCHANGED vars
  BY <1>9 DEF vars, TypeOK
<1> QED
  BY <1>1, <1>2, <1>3, <1>4, <1>5, <1>6, <1>7, <1>8, <1>9 DEF Next, Sidecar, Cluster

LEMMA TypeInit == Init => TypeOK
<1>1. ASSUME Init PROVE svc \in [Ord -> Service] /\ pod \in [Ord -> Modes] /\ disk \in [Ord -> Disks]
  BY <1>1 DEF Init, Service, Labels, Modes, Disks
<1>2. ASSUME Init PROVE sts \in StatefulSet /\ snap \in Snapshot /\ cur \in Ord /\ failed \in BOOLEAN
  BY <1>2, BlankType, StsType, OrdFacts DEF Init
<1>3. ASSUME Init PROVE used \in [changes : Nat, faults : Nat, lost : Nat, disruptions : Nat]
  BY <1>3 DEF Init
<1> QED BY <1>1, <1>2, <1>3 DEF Init, TypeOK, Phases

\* The operator's writes keep every object, cache and sync phase well-formed.
THEOREM TypeCorrect == Spec => []TypeOK
  BY TypeInit, TypeNext, PTL DEF Spec
-----------------------------------------------------------------------------
(* Versions of a Service. *)

LEMMA RankFacts == /\ Rank["none"] = 0 /\ Rank["false"] = 1
                   /\ Rank["true"] = 2 /\ Rank["absent"] = 3
  BY DEF Rank

LEMMA OlderFacts ==
  /\ \A a \in Service : Older(a, a)
  /\ \A a, b, c \in Service : Older(a, b) /\ Older(b, c) => Older(a, c)
  /\ \A a, b \in Service : Older(a, b) /\ Older(b, a) => a = b
<1>1. \A a \in Service : Rank[a.label] \in Nat /\ a.uid \in Nat
  BY RankFacts DEF Service, Labels
<1>2. \A a, b \in Service : Rank[a.label] = Rank[b.label] => a.label = b.label
  BY RankFacts DEF Service, Labels
<1>3. \A a, b \in Service : a.label = b.label /\ a.uid = b.uid => a = b
  BY DEF Service
<1>4. \A a, b \in Service : Older(a, b) /\ Older(b, a) => a = b
  BY <1>1, <1>2, <1>3 DEF Older
<1> QED BY <1>1, <1>4 DEF Older
\* A label only moves forward, and a new Service follows every earlier one.
LEMMA OlderWrites ==
  ASSUME NEW a \in Service, NEW v \in Service, Older(a, v)
  PROVE /\ v.label = "none" => Older(a, [uid |-> v.uid, label |-> "false"])
        /\ v.label = "false" => Older(a, [uid |-> v.uid, label |-> "true"])
        /\ v.label = "true" => Older(a, [uid |-> v.uid, label |-> "absent"])
        /\ v.label = "absent" => Older(a, [uid |-> v.uid + 1, label |-> "none"])
<1>1. a.uid \in Nat /\ v.uid \in Nat /\ a.label \in Labels /\ v.label \in Labels
  BY ServiceType
<1>2. Rank[a.label] \in 0 .. 3 /\ Rank[v.label] \in 0 .. 3
  BY <1>1, RankFacts DEF Labels
<1> QED BY <1>1, <1>2, RankFacts DEF Older

-----------------------------------------------------------------------------
(* Frames: what a step leaves alone. *)

LEMMA TypeFacts ==
  ASSUME TypeOK
  PROVE /\ sts.replicas \in Nat /\ sts.rv \in Nat
        /\ csts.replicas \in Nat /\ csts.rv \in Nat
        /\ snap.sts \in StatefulSet /\ snap.sts.replicas \in Nat /\ snap.sts.rv \in Nat
        /\ snap.spec \in Nat
        /\ \A o \in Ord : /\ svc[o] \in Service /\ csvc[o] \in Service
                          /\ snap.svc[o] \in Service /\ o \in Nat
        /\ cur \in Ord /\ todo \subseteq Ord
<1>1. snap.sts \in StatefulSet /\ snap.spec \in NodeCount /\ snap.svc \in [Ord -> Service]
  BY DEF TypeOK, Snapshot
<1> QED BY <1>1, StsType, OrdFacts DEF TypeOK

\* The views stay as they are, or the sync ends.
KeepViews == /\ UNCHANGED <<sts, csts, svc, csvc>>
             /\ Active' => Active /\ snap' = snap

LEMMA FrameViews ==
  ASSUME IInv, KeepViews
  PROVE ViewsOrdered' /\ ScaledAwayIsKnown'
  BY DEF IInv, KeepViews, ViewsOrdered, ScaledAwayIsKnown

LEMMA FrameLabels ==
  ASSUME IInv, KeepViews, UNCHANGED <<disk, doomed>>
  PROVE LabelsMeanLeft'
  BY DEF IInv, KeepViews, LabelsMeanLeft

LEMMA FrameNodes ==
  ASSUME IInv, UNCHANGED nodeVars
  PROVE NodesConsistent'
  BY DEF IInv, NodesConsistent

LEMMA FrameMembers ==
  ASSUME IInv, UNCHANGED <<disk, sts>>
  PROVE MembersBelowReplicas'
  BY DEF IInv, MembersBelowReplicas

LEMMA FrameSync ==
  ASSUME IInv, UNCHANGED <<syncVars, svc, disk, doomed>>
  PROVE SyncConsistent'
  BY DEF IInv, SyncConsistent, Pruning

LEMMA IdleSync ==
  ASSUME Idle
  PROVE ~Active' /\ SyncConsistent'
  BY DEF Idle, Active, SyncConsistent, Pruning

LEMMA ToPruneSync ==
  ASSUME TypeOK, ToPrune
  PROVE /\ Active' /\ snap' = snap
        /\ SyncConsistent'
<1>1. \A o \in todo' : o >= snap.sts.replicas /\ snap.svc[o].label = "true"
  BY DEF ToPrune, Prunable
<1> QED BY <1>1 DEF ToPrune, Active, SyncConsistent, Pruning

-----------------------------------------------------------------------------
(* Steps of ScyllaDB and of the StatefulSet controller. *)

LEMMA PodStep ==
  ASSUME IInv, TypeOK', NEW o \in Ord,
         \/ SidecarDecommission(o) \/ SidecarRestartDrained(o) \/ StartNode(o)
         \/ EndMaintenance(o) \/ DrainNode(o) \/ RestartPod(o) \/ FailDecommission(o)
  PROVE IInv'
<1>1. /\ UNCHANGED <<apiVars, disk, doomed, cacheVars, syncVars>>
      /\ \E m \in Modes : pod' = [pod EXCEPT ![o] = m]
  BY DEF SidecarDecommission, SidecarRestartDrained, StartNode, EndMaintenance,
         DrainNode, RestartPod, FailDecommission, Modes
<1>2. NodesConsistent'
  <2>1. pod \in [Ord -> Modes] /\ disk \in [Ord -> Disks] /\ NodesConsistent
    BY DEF IInv, TypeOK
  <2>2. CASE StartNode(o)
    BY <2>1, <2>2 DEF StartNode, NodesConsistent, Disks
  <2>3. CASE SidecarDecommission(o) \/ SidecarRestartDrained(o) \/ EndMaintenance(o)
    BY <2>1, <2>3 DEF SidecarDecommission, SidecarRestartDrained, EndMaintenance, NodesConsistent
  <2>4. CASE DrainNode(o) \/ RestartPod(o) \/ FailDecommission(o)
    BY <2>1, <2>4 DEF DrainNode, RestartPod, FailDecommission, NodesConsistent
  <2> QED BY <2>2, <2>3, <2>4
<1>3. KeepViews
  BY <1>1 DEF KeepViews, Active
<1> QED BY <1>1, <1>2, <1>3, FrameViews, FrameLabels, FrameMembers, FrameSync DEF IInv

LEMMA VolumeStep ==
  ASSUME IInv, TypeOK', NEW o \in Ord,
         CreatePod(o) \/ JoinCluster(o) \/ LeaveCluster(o) \/ DeletePod(o)
  PROVE IInv'
<1> USE TypeFacts, OrdFacts DEF IInv
<1>1. UNCHANGED <<apiVars, cacheVars, syncVars>>
  BY DEF CreatePod, JoinCluster, LeaveCluster, DeletePod
<1>2. KeepViews
  BY <1>1 DEF KeepViews, Active
<1>3. pod \in [Ord -> Modes] /\ disk \in [Ord -> Disks]
  BY DEF TypeOK
<1>4. CASE CreatePod(o)
  <2>1. NodesConsistent'
    BY <1>3, <1>4 DEF CreatePod, NodesConsistent
  <2>2. LabelsMeanLeft'
    BY <1>1, <1>2, <1>3, <1>4 DEF CreatePod, LabelsMeanLeft, KeepViews
  <2>3. MembersBelowReplicas'
    BY <1>3, <1>4 DEF CreatePod, MembersBelowReplicas
  <2>4. SyncConsistent'
    BY <1>1, <1>3, <1>4 DEF CreatePod, SyncConsistent, Pruning
  <2> QED BY <1>2, <2>1, <2>2, <2>3, <2>4, FrameViews
<1>5. CASE JoinCluster(o)
  <2>1. NodesConsistent'
    BY <1>3, <1>5 DEF JoinCluster, NodesConsistent
  <2>2. LabelsMeanLeft'
    BY <1>1, <1>2, <1>3, <1>5 DEF JoinCluster, LabelsMeanLeft, KeepViews, NodesConsistent
  <2>3. MembersBelowReplicas'
    BY <1>3, <1>5 DEF JoinCluster, MembersBelowReplicas, NodesConsistent
  <2>4. SyncConsistent'
    BY <1>1, <1>3, <1>5 DEF JoinCluster, SyncConsistent, Pruning
  <2> QED BY <1>2, <2>1, <2>2, <2>3, <2>4, FrameViews
<1>6. CASE LeaveCluster(o)
  <2>1. NodesConsistent'
    BY <1>3, <1>6 DEF LeaveCluster, NodesConsistent
  <2>2. disk[o] = "member" /\ o < sts.replicas
    BY <1>6 DEF LeaveCluster, NodesConsistent, MembersBelowReplicas
  <2>3. LabelsMeanLeft'
    BY <1>1, <1>2, <1>3, <1>6, <2>2 DEF LeaveCluster, LabelsMeanLeft, KeepViews
  <2>4. MembersBelowReplicas'
    BY <1>3, <1>6 DEF LeaveCluster, MembersBelowReplicas
  <2>5. SyncConsistent'
    BY <1>1, <1>3, <1>6, <2>2 DEF LeaveCluster, SyncConsistent, Pruning, LabelsMeanLeft
  <2> QED BY <1>2, <2>1, <2>3, <2>4, <2>5, FrameViews
<1>7. CASE DeletePod(o)
  <2>1. NodesConsistent'
    BY <1>3, <1>7 DEF DeletePod, NodesConsistent
  <2>2. LabelsMeanLeft'
    BY <1>1, <1>2, <1>3, <1>7 DEF DeletePod, LabelsMeanLeft, KeepViews
  <2>3. MembersBelowReplicas'
    BY <1>3, <1>7 DEF DeletePod, MembersBelowReplicas
  <2>4. SyncConsistent'
    BY <1>1, <1>3, <1>7 DEF DeletePod, SyncConsistent, Pruning
  <2> QED BY <1>2, <2>1, <2>2, <2>3, <2>4, FrameViews
<1> QED BY <1>4, <1>5, <1>6, <1>7
-----------------------------------------------------------------------------
(* The sidecar's confirmation, informers, crashes. *)

LEMMA ConfirmStep ==
  ASSUME IInv, TypeOK', NEW o \in Ord, SidecarConfirm(o)
  PROVE IInv'
<1> USE TypeFacts, OrdFacts DEF IInv
<1>1. /\ UNCHANGED <<spec, sts, nodeVars, cacheVars, syncVars, used>>
      /\ svc[o].label = "false"
      /\ disk[o] = "left" /\ o < sts.replicas
  BY DEF SidecarConfirm, NodesConsistent, LabelsMeanLeft
<1>2. /\ svc'[o] = [uid |-> svc[o].uid, label |-> "true"]
      /\ \A p \in Ord \ {o} : svc'[p] = svc[p]
  BY DEF SidecarConfirm, TypeOK
<1>3. ViewsOrdered'
  <2>1. \A p \in Ord : Older(csvc[p], svc'[p])
    BY <1>1, <1>2, OlderWrites DEF ViewsOrdered
  <2> QED BY <1>1, <2>1 DEF ViewsOrdered, Active
<1>4. NodesConsistent' /\ MembersBelowReplicas'
  BY <1>1, FrameNodes, FrameMembers
<1>5. LabelsMeanLeft'
  BY <1>1, <1>2 DEF LabelsMeanLeft, Labelled, Active
<1>6. ScaledAwayIsKnown'
  BY <1>1, <1>2 DEF ScaledAwayIsKnown, Active
<1>7. SyncConsistent'
  BY <1>1, <1>2 DEF SyncConsistent, Pruning
<1> QED BY <1>3, <1>4, <1>5, <1>6, <1>7

LEMMA ObserveStep ==
  ASSUME IInv, TypeOK', Observe
  PROVE IInv'
<1> USE TypeFacts, OrdFacts DEF IInv
<1>1. UNCHANGED <<apiVars, nodeVars, syncVars, used>>
  BY DEF Observe, ObserveSpec, ObserveSts, ObserveSvc
<1>2. NodesConsistent' /\ MembersBelowReplicas' /\ SyncConsistent'
  BY <1>1, FrameNodes, FrameMembers, FrameSync
<1>3. CASE ObserveSpec
  <2>1. KeepViews
    BY <1>1, <1>3 DEF ObserveSpec, KeepViews, Active
  <2> QED BY <1>1, <1>2, <2>1, FrameViews, FrameLabels
<1>4. CASE ObserveSts
  <2>1. csts' = sts /\ csvc' = csvc
    BY <1>4 DEF ObserveSts
  <2>2. ViewsOrdered'
    BY <1>1, <2>1 DEF ViewsOrdered, Active
  <2>3. LabelsMeanLeft'
    BY <1>1, <2>1 DEF LabelsMeanLeft, Active
  <2>4. ScaledAwayIsKnown'
    BY <1>1, <2>1 DEF ScaledAwayIsKnown, Active
  <2> QED BY <1>2, <2>2, <2>3, <2>4
<1>5. CASE ObserveSvc
  <2>1. csvc' = svc /\ csts' = csts
    BY <1>5 DEF ObserveSvc
  <2>2. ViewsOrdered'
    <3>1. \A o \in Ord : Older(svc[o], svc[o]) /\ (Active => Older(snap.svc[o], svc[o]))
      BY OlderFacts DEF ViewsOrdered
    <3> QED BY <1>1, <2>1, <3>1 DEF ViewsOrdered, Active
  <2>3. LabelsMeanLeft'
    BY <1>1, <2>1 DEF LabelsMeanLeft, Active
  <2>4. ScaledAwayIsKnown'
    BY <1>1, <2>1 DEF ScaledAwayIsKnown, Active
  <2> QED BY <1>2, <2>2, <2>3, <2>4
<1> QED BY <1>3, <1>4, <1>5 DEF Observe

LEMMA CrashStep ==
  ASSUME IInv, TypeOK', Crash
  PROVE IInv'
<1>0. TypeOK /\ ViewsOrdered /\ LabelsMeanLeft /\ ScaledAwayIsKnown
  BY DEF IInv
<1>1. UNCHANGED <<apiVars, nodeVars>> /\ csts' = sts /\ csvc' = svc /\ ~Active' /\ SyncConsistent'
  BY IdleSync DEF Crash
<1>2. NodesConsistent' /\ MembersBelowReplicas'
  BY <1>1, FrameNodes, FrameMembers
<1>3. ViewsOrdered'
  BY <1>0, <1>1, TypeFacts, OlderFacts DEF ViewsOrdered
<1>4. LabelsMeanLeft'
  BY <1>0, <1>1 DEF LabelsMeanLeft
<1>5. ScaledAwayIsKnown'
  BY <1>0, <1>1, TypeFacts DEF ScaledAwayIsKnown
<1> QED BY <1>1, <1>2, <1>3, <1>4, <1>5 DEF IInv

LEMMA StartSyncStep ==
  ASSUME IInv, TypeOK', StartSync
  PROVE IInv'
<1> USE TypeFacts, OrdFacts DEF IInv
<1>1. /\ UNCHANGED <<apiVars, nodeVars, cacheVars>>
      /\ snap'.sts = csts /\ snap'.svc = csvc /\ ~Active /\ Active' /\ pc' = "scale"
  BY DEF StartSync, Active
<1>2. NodesConsistent' /\ MembersBelowReplicas'
  BY <1>1, FrameNodes, FrameMembers
<1>3. ViewsOrdered'
  BY <1>1, OlderFacts DEF ViewsOrdered
<1>4. LabelsMeanLeft'
  BY <1>1 DEF LabelsMeanLeft
<1>5. ScaledAwayIsKnown'
  BY <1>1 DEF ScaledAwayIsKnown
<1>6. SyncConsistent'
  BY <1>1 DEF SyncConsistent, Pruning
<1> QED BY <1>2, <1>3, <1>4, <1>5, <1>6

-----------------------------------------------------------------------------
(* Scaling. *)

\* Steps that only move the sync to the pruning of Services.
LEMMA ToPruneStep ==
  ASSUME IInv, TypeOK', Active, ToPrune, UNCHANGED <<apiVars, nodeVars, cacheVars>>
  PROVE IInv'
<1>1. KeepViews
  BY ToPruneSync DEF KeepViews, IInv
<1>2. SyncConsistent'
  BY ToPruneSync DEF IInv
<1> QED BY <1>1, <1>2, FrameViews, FrameLabels, FrameNodes, FrameMembers DEF IInv

\* A scale that is accepted finds every view of the StatefulSet up to date.
LEMMA AcceptedScale ==
  ASSUME IInv, Active, sts = snap.sts
  PROVE csts = sts
  BY TypeFacts DEF IInv, ViewsOrdered

LEMMA GrowStep ==
  ASSUME IInv, TypeOK', Active, ToPrune, NEW n \in NodeCount,
         sts = snap.sts, n > sts.replicas, Leaving(snap) = {},
         sts' = [replicas |-> n, rv |-> sts.rv + 1],
         UNCHANGED <<spec, svc, nodeVars, cacheVars>>
  PROVE IInv'
<1>0. /\ TypeOK /\ ViewsOrdered /\ LabelsMeanLeft /\ ScaledAwayIsKnown /\ MembersBelowReplicas
      /\ n \in Nat /\ csts = sts /\ Active' /\ snap' = snap /\ SyncConsistent'
  BY AcceptedScale, ToPruneSync, OrdFacts DEF IInv
<1>1. \A o \in Ord : snap.svc[o].label \notin {"false", "true"}
  BY <1>0, TypeFacts DEF Leaving
<1>2. sts'.replicas = n /\ sts'.rv = sts.rv + 1
  BY <1>0, TypeFacts
<1>3. \A o \in Ord : o >= sts.replicas => svc[o].label # "true" /\ svc[o].label # "false"
  BY <1>0, TypeFacts, <1>1 DEF ScaledAwayIsKnown, LabelsMeanLeft
<1>4. \A o \in Ord : o >= sts.replicas => csvc[o].label # "true"
  BY <1>0, TypeFacts, <1>1 DEF ScaledAwayIsKnown
<1>5. ViewsOrdered'
  BY <1>0, TypeFacts, <1>2 DEF ViewsOrdered
<1>6. LabelsMeanLeft'
  BY <1>0, TypeFacts, <1>2, <1>3 DEF LabelsMeanLeft, Labelled
<1>7. ScaledAwayIsKnown'
  BY <1>0, TypeFacts, <1>1, <1>2, <1>3, <1>4 DEF ScaledAwayIsKnown
<1>8. MembersBelowReplicas'
  BY <1>0, TypeFacts, <1>2 DEF MembersBelowReplicas
<1> QED BY <1>0, <1>5, <1>6, <1>7, <1>8, FrameNodes DEF IInv

LEMMA ShrinkStep ==
  ASSUME IInv, TypeOK', Active, ToPrune, NEW n \in NodeCount,
         sts = snap.sts, n < sts.replicas,
         \A o \in Ord : n <= o /\ o < sts.replicas => snap.svc[o].label = "true",
         sts' = [replicas |-> n, rv |-> sts.rv + 1],
         UNCHANGED <<spec, svc, nodeVars, cacheVars>>
  PROVE IInv'
<1>0. /\ TypeOK /\ ViewsOrdered /\ LabelsMeanLeft /\ ScaledAwayIsKnown /\ MembersBelowReplicas
      /\ n \in Nat /\ csts = sts /\ Active' /\ snap' = snap /\ SyncConsistent'
  BY AcceptedScale, ToPruneSync, OrdFacts DEF IInv
<1>2. sts'.replicas = n /\ sts'.rv = sts.rv + 1
  BY <1>0, TypeFacts
<1>3. \A o \in Ord : n <= o /\ o < sts.replicas =>
        svc[o] = snap.svc[o] /\ csvc[o] = snap.svc[o] /\ disk[o] = "left"
  <2>1. ASSUME NEW o \in Ord, n <= o, o < sts.replicas PROVE svc[o] = snap.svc[o]
    BY <1>0, TypeFacts, <2>1 DEF ScaledAwayIsKnown
  <2>2. ASSUME NEW o \in Ord, n <= o, o < sts.replicas PROVE csvc[o] = snap.svc[o]
    <3>1. Older(csvc[o], snap.svc[o]) /\ Older(snap.svc[o], csvc[o])
      BY <1>0, <2>1, <2>2 DEF ViewsOrdered
    <3> QED BY <1>0, TypeFacts, <2>2, <3>1, OlderFacts
  <2>3. ASSUME NEW o \in Ord, n <= o, o < sts.replicas PROVE disk[o] = "left"
    BY <1>0, TypeFacts, <2>1, <2>3 DEF LabelsMeanLeft
  <2> QED BY <2>1, <2>2, <2>3
<1>5. ViewsOrdered'
  BY <1>0, TypeFacts, <1>2 DEF ViewsOrdered
<1>6. LabelsMeanLeft'
  BY <1>0, TypeFacts, <1>2, <1>3 DEF LabelsMeanLeft, Labelled
<1>7. ScaledAwayIsKnown'
  BY <1>0, TypeFacts, <1>2, <1>3 DEF ScaledAwayIsKnown
<1>8. MembersBelowReplicas'
  BY <1>0, TypeFacts, <1>2, <1>3 DEF MembersBelowReplicas
<1> QED BY <1>0, <1>5, <1>6, <1>7, <1>8, FrameNodes DEF IInv
LEMMA ScaleUpStep ==
  ASSUME IInv, TypeOK', ScaleUp
  PROVE IInv'
<1>1. /\ Active /\ ToPrune /\ UNCHANGED <<spec, svc, nodeVars, cacheVars>>
      /\ snap.spec \in NodeCount /\ Leaving(snap) = {} /\ snap.spec > snap.sts.replicas
      /\ ScaleTo(snap.spec)
  BY DEF ScaleUp, NotHeld, Active, IInv, TypeOK, Snapshot
<1>2. CASE sts = snap.sts /\ sts' = [replicas |-> snap.spec, rv |-> sts.rv + 1]
  BY <1>1, <1>2, GrowStep
<1>3. CASE UNCHANGED sts
  BY <1>1, <1>3, ToPruneStep
<1> QED BY <1>1, <1>2, <1>3 DEF ScaleTo

LEMMA ConcludeStep ==
  ASSUME IInv, TypeOK', ConcludeDecommission
  PROVE IInv'
<1>1. Active /\ ToPrune /\ UNCHANGED <<spec, svc, nodeVars, cacheVars>>
  BY DEF ConcludeDecommission, Active
<1>2. PICK n \in NodeCount :
        /\ ScaleDownReplicas(snap, n)
        /\ IF n = snap.sts.replicas THEN UNCHANGED <<sts, used>> ELSE ScaleTo(n)
  BY DEF ConcludeDecommission
<1>3. CASE UNCHANGED sts
  BY <1>1, <1>3, ToPruneStep
<1>4. CASE /\ n # snap.sts.replicas /\ sts = snap.sts
           /\ sts' = [replicas |-> n, rv |-> sts.rv + 1]
  <2>1. n < sts.replicas
    BY <1>2, <1>4, TypeFacts, OrdFacts DEF ScaleDownReplicas, StepNodes, IInv
  <2>2. \A o \in Ord : n <= o /\ o < sts.replicas => snap.svc[o].label = "true"
    BY <1>2, <1>4 DEF ScaleDownReplicas
  <2> QED BY <1>1, <1>2, <1>4, <2>1, <2>2, ShrinkStep
<1> QED BY <1>2, <1>3, <1>4 DEF ScaleTo

-----------------------------------------------------------------------------
(* Requests. *)

LEMMA BeginRequestsStep ==
  ASSUME IInv, TypeOK', BeginRequests
  PROVE IInv'
<1>1. KeepViews /\ UNCHANGED <<apiVars, nodeVars>>
  BY DEF BeginRequests, KeepViews, Active
<1>2. SyncConsistent'
  BY DEF BeginRequests, SyncConsistent, Pruning, StepNodes
<1> QED BY <1>1, <1>2, FrameViews, FrameLabels, FrameNodes, FrameMembers DEF IInv

\* A node that a sync still counts and has not seen labelled is one of the rack's.
LEMMA RequestStep ==
  ASSUME IInv, TypeOK', NEW o \in Ord, RequestDecommission(o)
  PROVE IInv'
<1>0. TypeOK /\ ViewsOrdered /\ LabelsMeanLeft /\ ScaledAwayIsKnown /\ SyncConsistent
  BY DEF IInv
<1>1. /\ pc = "request" /\ o \in todo /\ Active
      /\ UNCHANGED <<spec, sts, nodeVars, cspec, csts, csvc>>
  BY DEF RequestDecommission, Active
<1>2. /\ Active' /\ snap' = snap
      /\ \/ pc' = "request" /\ todo' = todo \ {o}
         \/ ToPrune
  BY ToPruneSync, <1>0, <1>1 DEF RequestDecommission, Active
<1>3. SyncConsistent'
  <2>1. CASE ToPrune
    BY <2>1, <1>0, ToPruneSync
  <2>2. CASE pc' = "request" /\ todo' = todo \ {o}
    BY <2>2, <1>0, <1>1, <1>2 DEF SyncConsistent, Pruning
  <2> QED BY <1>2, <2>1, <2>2
<1>4. CASE UNCHANGED svc
  <2>1. KeepViews
    BY <1>1, <1>2, <1>4 DEF KeepViews
  <2> QED BY <1>1, <1>3, <2>1, FrameViews, FrameLabels, FrameNodes, FrameMembers DEF IInv
<1>5. CASE svc[o] = snap.svc[o] /\ svc' = [svc EXCEPT ![o] = [uid |-> @.uid, label |-> "false"]]
  <2>1. svc[o].label = "none" /\ o < snap.sts.replicas
    BY <1>0, <1>1, <1>5 DEF SyncConsistent
  <2>2. /\ svc'[o] = [uid |-> svc[o].uid, label |-> "false"]
        /\ \A p \in Ord \ {o} : svc'[p] = svc[p]
    BY <1>0, <1>5 DEF TypeOK
  <2>3. csvc[o] = svc[o]
    <3>1. Older(csvc[o], svc[o]) /\ Older(svc[o], csvc[o])
      BY <1>0, <1>1, <1>5 DEF ViewsOrdered
    <3> QED BY <3>1, <1>0, TypeFacts, OlderFacts
  <2>4. o < sts.replicas
    BY <1>0, <1>1, <2>1, TypeFacts DEF ScaledAwayIsKnown
  <2>5. o < csts.replicas
    BY <1>0, <1>1, <2>1, <2>4, TypeFacts DEF ViewsOrdered
  <2>6. ViewsOrdered'
    <3>1. \A p \in Ord : Older(csvc[p], svc'[p])
      BY <1>0, <2>1, <2>2, TypeFacts, OlderWrites DEF ViewsOrdered
    <3> QED BY <1>0, <1>1, <1>2, <3>1 DEF ViewsOrdered
  <2>7. LabelsMeanLeft'
    BY <1>0, <1>1, <1>2, <2>1, <2>2, <2>4, <2>5, TypeFacts DEF LabelsMeanLeft, Labelled
  <2>8. ScaledAwayIsKnown'
    BY <1>0, <1>1, <1>2, <1>5, <2>1, <2>2, <2>3, <2>4, TypeFacts DEF ScaledAwayIsKnown
  <2> QED BY <1>1, <1>3, <2>6, <2>7, <2>8, FrameNodes, FrameMembers DEF IInv
<1> QED BY <1>4, <1>5 DEF RequestDecommission

-----------------------------------------------------------------------------
(* Pruning and applying Services. *)

LEMMA SkipPrunedSync ==
  ASSUME TypeOK, SyncConsistent, pc = "prune" \/ Pruning, NEW o \in Ord, NEW e \in BOOLEAN,
         SkipPruned(o, e), snap' = snap
  PROVE Active' /\ SyncConsistent'
  BY DEF SkipPruned, SyncConsistent, Pruning, Active

LEMMA RecheckStep ==
  ASSUME IInv, TypeOK', NEW o \in Ord, RecheckService(o)
  PROVE IInv'
<1>0. TypeOK /\ SyncConsistent
  BY DEF IInv
<1>1. /\ pc = "prune" /\ o \in todo /\ Active
      /\ UNCHANGED <<apiVars, nodeVars, cacheVars, snap>>
  BY DEF RecheckService, Active
<1>2. CASE \E e \in BOOLEAN : SkipPruned(o, e)
  <2>1. KeepViews /\ SyncConsistent'
    BY <1>0, <1>1, <1>2, SkipPrunedSync DEF KeepViews
  <2> QED BY <1>1, <2>1, FrameViews, FrameLabels, FrameNodes, FrameMembers DEF IInv
<1>3. CASE svc[o].label = "true" /\ pc' = "prunePVC" /\ cur' = o /\ UNCHANGED todo
  <2>1. SyncConsistent'
    BY <1>0, <1>1, <1>3 DEF SyncConsistent, Pruning
  <2>2. KeepViews
    BY <1>1, <1>3 DEF KeepViews, Active
  <2> QED BY <1>1, <2>1, <2>2, FrameViews, FrameLabels, FrameNodes, FrameMembers DEF IInv
<1> QED BY <1>2, <1>3 DEF RecheckService

\* The ordinal whose Service is being pruned is scaled away in every view.
LEMMA PrunedIsScaledAway ==
  ASSUME IInv, Pruning
  PROVE /\ Active /\ cur \in Ord /\ svc[cur].label = "true"
        /\ cur >= sts.replicas /\ cur >= csts.replicas /\ cur >= snap.sts.replicas
<1>0. TypeOK /\ ViewsOrdered /\ LabelsMeanLeft /\ SyncConsistent
  BY DEF IInv
<1>1. Active /\ cur \in Ord /\ svc[cur].label = "true" /\ cur >= snap.sts.replicas
  BY <1>0, TypeFacts DEF SyncConsistent, Pruning, Active
<1>2. cur >= sts.replicas
  BY <1>0, <1>1, TypeFacts DEF LabelsMeanLeft, Labelled
<1>3. csts = snap.sts \/ csts = sts
  BY <1>0, <1>1, TypeFacts DEF ViewsOrdered
<1> QED BY <1>1, <1>2, <1>3

LEMMA PrunePVCStep ==
  ASSUME IInv, TypeOK', PrunePVC
  PROVE IInv'
<1>0. /\ TypeOK /\ NodesConsistent /\ LabelsMeanLeft /\ SyncConsistent /\ MembersBelowReplicas
      /\ pc = "prunePVC" /\ Pruning
  BY DEF IInv, PrunePVC, Pruning
<1>1. UNCHANGED <<apiVars, pod, cacheVars, snap>>
  BY DEF PrunePVC
<1>2. Active' /\ Active
  BY <1>0 DEF PrunePVC, SkipPruned, Active
<1>3. KeepViews
  BY <1>1, <1>2 DEF KeepViews
<1>4. CASE UNCHANGED <<disk, doomed>> /\ SkipPruned(cur, TRUE)
  <2>1. SyncConsistent'
    BY <1>0, <1>1, <1>4, PrunedIsScaledAway, SkipPrunedSync
  <2> QED BY <1>1, <1>3, <1>4, <2>1, FrameViews, FrameLabels, FrameNodes, FrameMembers DEF IInv
<1>5. CASE DeleteVolume(cur)
  <2>1. /\ cur \in Ord /\ cur >= sts.replicas /\ svc[cur].label = "true"
        /\ disk \in [Ord -> Disks]
    BY <1>0, PrunedIsScaledAway DEF TypeOK
  <2>2. NodesConsistent'
    BY <1>0, <1>1, <1>5, <2>1 DEF DeleteVolume, NodesConsistent, LabelsMeanLeft
  <2>3. LabelsMeanLeft'
    BY <1>0, <1>1, <1>2, <1>5, <2>1, TypeFacts DEF DeleteVolume, LabelsMeanLeft
  <2>4. MembersBelowReplicas'
    BY <1>0, <1>1, <1>5, <2>1 DEF DeleteVolume, MembersBelowReplicas
  <2>5. SyncConsistent'
    <3>1. CASE SkipPruned(cur, TRUE)
      BY <1>0, <1>1, <2>1, <3>1, SkipPrunedSync
    <3>2. CASE pc' = "pruneSvc" /\ UNCHANGED <<todo, cur>>
      BY <1>0, <1>1, <1>5, <2>1, <3>2 DEF DeleteVolume, SyncConsistent, Pruning
    <3> QED BY <3>1, <3>2 DEF PrunePVC
  <2> QED BY <1>3, <2>2, <2>3, <2>4, <2>5, FrameViews DEF IInv
<1> QED BY <1>4, <1>5 DEF PrunePVC

LEMMA PruneServiceStep ==
  ASSUME IInv, TypeOK', PruneService
  PROVE IInv'
<1>0. /\ TypeOK /\ ViewsOrdered /\ LabelsMeanLeft /\ ScaledAwayIsKnown /\ SyncConsistent
      /\ pc = "pruneSvc" /\ Pruning /\ cur \in Ord
  BY DEF IInv, PruneService, Pruning, TypeOK
<1>1. UNCHANGED <<spec, sts, nodeVars, cspec, csts, csvc, snap>>
  BY DEF PruneService
<1>2. \E e \in BOOLEAN : SkipPruned(cur, e)
  BY DEF PruneService
<1>3. Active' /\ SyncConsistent' /\ Active
  BY <1>0, <1>1, <1>2, SkipPrunedSync DEF Active
<1>4. CASE UNCHANGED svc
  <2>1. KeepViews
    BY <1>1, <1>3, <1>4 DEF KeepViews
  <2> QED BY <1>1, <1>3, <2>1, FrameViews, FrameLabels, FrameNodes, FrameMembers DEF IInv
<1>5. CASE svc' = [svc EXCEPT ![cur] = [uid |-> @.uid, label |-> "absent"]]
  <2>1. /\ svc'[cur] = [uid |-> svc[cur].uid, label |-> "absent"]
        /\ \A p \in Ord \ {cur} : svc'[p] = svc[p]
    BY <1>0, <1>5 DEF TypeOK
  <2>2. /\ svc[cur].label = "true" /\ cur >= sts.replicas
        /\ cur >= csts.replicas /\ cur >= snap.sts.replicas
        /\ cur \in doomed \/ disk[cur] # "left"
    BY <1>0, PrunedIsScaledAway DEF SyncConsistent
  <2>3. ViewsOrdered'
    <3>1. \A p \in Ord : Older(csvc[p], svc'[p])
      BY <1>0, <2>1, <2>2, TypeFacts, OlderWrites DEF ViewsOrdered
    <3> QED BY <1>0, <1>1, <1>3, <3>1 DEF ViewsOrdered
  <2>4. LabelsMeanLeft'
    BY <1>0, <1>1, <1>3, <2>1, <2>2, TypeFacts DEF LabelsMeanLeft, Labelled
  <2>5. ScaledAwayIsKnown'
    BY <1>0, <1>1, <1>3, <2>1, <2>2, TypeFacts DEF ScaledAwayIsKnown
  <2> QED BY <1>1, <1>3, <2>3, <2>4, <2>5, FrameNodes, FrameMembers DEF IInv
<1> QED BY <1>4, <1>5 DEF PruneService

LEMMA EndPruneStep ==
  ASSUME IInv, TypeOK', EndPrune \/ EndSync
  PROVE IInv'
<1>1. UNCHANGED <<apiVars, nodeVars, cacheVars>> /\ Active
  BY DEF EndPrune, EndSync, Active
<1>2. CASE Idle
  BY <1>1, <1>2, IdleSync, FrameViews, FrameLabels, FrameNodes, FrameMembers DEF IInv, KeepViews
<1>3. CASE pc' = "apply" /\ UNCHANGED snap
  <2>1. KeepViews /\ SyncConsistent'
    BY <1>1, <1>3 DEF KeepViews, Active, SyncConsistent, Pruning
  <2> QED BY <1>1, <2>1, FrameViews, FrameLabels, FrameNodes, FrameMembers DEF IInv
<1> QED BY <1>2, <1>3 DEF EndPrune, EndSync

LEMMA ApplyServiceStep ==
  ASSUME IInv, TypeOK', NEW o \in Ord, ApplyService(o)
  PROVE IInv'
<1>0. TypeOK /\ ViewsOrdered /\ LabelsMeanLeft /\ ScaledAwayIsKnown
  BY DEF IInv
<1>1. /\ pc = "apply" /\ Active
      /\ UNCHANGED <<spec, sts, nodeVars, cspec, csts, csvc>>
      /\ Idle \/ (pc' = "apply" /\ UNCHANGED snap)
  BY DEF ApplyService, Active
<1>2. SyncConsistent' /\ (Active' => Active /\ snap' = snap)
  BY <1>1, IdleSync DEF Active, SyncConsistent, Pruning
<1>3. CASE UNCHANGED svc
  <2>1. KeepViews
    BY <1>1, <1>2, <1>3 DEF KeepViews
  <2> QED BY <1>1, <1>2, <2>1, FrameViews, FrameLabels, FrameNodes, FrameMembers DEF IInv
<1>4. CASE /\ csvc[o].label = "absent" /\ svc[o].label = "absent"
           /\ svc' = [svc EXCEPT ![o] = [uid |-> @.uid + 1, label |-> "none"]]
  <2>1. /\ svc'[o] = [uid |-> svc[o].uid + 1, label |-> "none"]
        /\ \A p \in Ord \ {o} : svc'[p] = svc[p]
    BY <1>0, <1>4 DEF TypeOK
  <2>2. ViewsOrdered'
    <3>1. \A p \in Ord : Older(csvc[p], svc'[p])
      BY <1>0, <1>4, <2>1, TypeFacts, OlderWrites DEF ViewsOrdered
    <3> QED BY <1>0, <1>1, <1>2, <3>1 DEF ViewsOrdered
  <2>3. LabelsMeanLeft'
    BY <1>0, <1>1, <1>2, <1>4, <2>1, TypeFacts DEF LabelsMeanLeft, Labelled
  <2>4. ScaledAwayIsKnown'
    BY <1>0, <1>1, <1>2, <1>4, <2>1, TypeFacts DEF ScaledAwayIsKnown
  <2> QED BY <1>1, <1>2, <2>2, <2>3, <2>4, FrameNodes, FrameMembers DEF IInv
<1> QED BY <1>3, <1>4 DEF ApplyService

-----------------------------------------------------------------------------

LEMMA InvInit == Init => IInv
<1> SUFFICES ASSUME Init PROVE IInv
  OBVIOUS
<1>0. TypeOK /\ spec \in Nat
  BY TypeInit, OrdFacts DEF Init
<1>1. \A o \in Ord : /\ csvc[o] = svc[o] /\ svc[o].label \in {"absent", "none"}
                     /\ disk[o] = (IF o < spec THEN "member" ELSE "none")
                     /\ pod[o] = (IF o < spec THEN "normal" ELSE "none")
  BY DEF Init
<1>2. csts = sts /\ sts.replicas = spec /\ ~Active /\ pc = "idle" /\ doomed = {}
  BY DEF Init, Active
<1>3. ViewsOrdered
  BY <1>0, <1>1, <1>2, TypeFacts, OlderFacts DEF ViewsOrdered
<1>4. NodesConsistent
  BY <1>1, <1>2 DEF NodesConsistent
<1>5. LabelsMeanLeft
  BY <1>1, <1>2 DEF LabelsMeanLeft, Labelled
<1>6. ScaledAwayIsKnown
  BY <1>0, <1>1, <1>2, TypeFacts DEF ScaledAwayIsKnown
<1>7. SyncConsistent
  BY <1>2 DEF SyncConsistent, Pruning
<1>8. MembersBelowReplicas
  BY <1>1, <1>2 DEF MembersBelowReplicas
<1> QED BY <1>0, <1>3, <1>4, <1>5, <1>6, <1>7, <1>8 DEF IInv

LEMMA InvNext ==
  ASSUME IInv, [Next]_vars
  PROVE IInv'
<1>0. TypeOK'
  BY TypeNext DEF IInv
<1>1. CASE Sync
  <2>1. CASE StartSync
    BY <1>0, <2>1, StartSyncStep
  <2>2. CASE ScaleUp
    BY <1>0, <2>2, ScaleUpStep
  <2>3. CASE NothingToScale \/ HoldRack \/ GateStatefulSets
    <3>1. Active /\ ToPrune /\ UNCHANGED <<apiVars, nodeVars, cacheVars>>
      BY <2>3 DEF NothingToScale, HoldRack, GateStatefulSets, Active
    <3> QED BY <1>0, <3>1, ToPruneStep
  <2>4. CASE BeginRequests
    BY <1>0, <2>4, BeginRequestsStep
  <2>5. CASE ConcludeDecommission
    BY <1>0, <2>5, ConcludeStep
  <2>6. CASE PrunePVC
    BY <1>0, <2>6, PrunePVCStep
  <2>7. CASE PruneService
    BY <1>0, <2>7, PruneServiceStep
  <2>8. CASE EndPrune \/ EndSync
    BY <1>0, <2>8, EndPruneStep
  <2>9. ASSUME NEW o \in Ord, RequestDecommission(o) \/ RecheckService(o) \/ ApplyService(o)
        PROVE IInv'
    BY <1>0, <2>9, RequestStep, RecheckStep, ApplyServiceStep
  <2> QED BY <1>1, <2>1, <2>2, <2>3, <2>4, <2>5, <2>6, <2>7, <2>8, <2>9 DEF Sync
<1>2. CASE Crash
  BY <1>0, <1>2, CrashStep
<1>3. CASE Observe
  BY <1>0, <1>3, ObserveStep
<1>4. ASSUME NEW n \in NodeCount, SetNodeCount(n) PROVE IInv'
  <2>1. UNCHANGED <<sts, svc, nodeVars, cacheVars, syncVars>>
    BY <1>4 DEF SetNodeCount
  <2>2. KeepViews
    BY <2>1 DEF KeepViews, Active
  <2> QED BY <1>0, <2>1, <2>2, FrameViews, FrameLabels, FrameNodes, FrameMembers, FrameSync DEF IInv
<1>5. ASSUME NEW o \in Ord, SidecarConfirm(o) PROVE IInv'
  BY <1>0, <1>5, ConfirmStep
<1>6. ASSUME NEW o \in Ord,
             \/ SidecarDecommission(o) \/ SidecarRestartDrained(o) \/ StartNode(o)
             \/ EndMaintenance(o) \/ DrainNode(o) \/ RestartPod(o) \/ FailDecommission(o)
      PROVE IInv'
  BY <1>0, <1>6, PodStep
<1>7. ASSUME NEW o \in Ord, CreatePod(o) \/ JoinCluster(o) \/ LeaveCluster(o) \/ DeletePod(o)
      PROVE IInv'
  BY <1>0, <1>7, VolumeStep
<1>8. CASE UNCHANGED vars
  <2>1. KeepViews /\ UNCHANGED <<nodeVars, sts, syncVars, svc>>
    BY <1>8 DEF vars, KeepViews, Active
  <2> QED BY <1>0, <2>1, FrameViews, FrameLabels, FrameNodes, FrameMembers, FrameSync DEF IInv
<1> QED
  BY <1>1, <1>2, <1>3, <1>4, <1>5, <1>6, <1>7, <1>8 DEF Next, Sidecar, Cluster

\* What every reachable state of a rack satisfies, whatever the interleaving of
\* edits, syncs on stale caches, crashes, refused and lost calls.
THEOREM Invariance == Spec => []IInv
  BY InvInit, InvNext, PTL DEF Spec

\* syncRackDecommission never scales the StatefulSet below a node that joins or is
\* a member of the cluster.
THEOREM MembersStayBelowReplicas == Spec => []MembersBelowReplicas
<1>1. IInv => MembersBelowReplicas
  BY DEF IInv
<1> QED BY <1>1, Invariance, PTL
-----------------------------------------------------------------------------
(* The two ways a step changes the StatefulSet. *)

Grows == /\ sts'.replicas > sts.replicas /\ UNCHANGED <<svc, nodeVars>>
         /\ sts'.replicas \in NodeCount
         /\ Active /\ Leaving(snap) = {}
         /\ \A o \in Ord : o >= sts.replicas => ~Labelled(svc[o])

Shrinks == /\ sts'.replicas < sts.replicas /\ UNCHANGED <<svc, nodeVars>>
           /\ sts'.replicas \in NodeCount
           /\ \A o \in Ord : sts'.replicas <= o /\ o < sts.replicas => disk[o] = "left"

LEMMA ScaleSteps ==
  ASSUME IInv, [Next]_vars
  PROVE UNCHANGED sts \/ Grows \/ Shrinks
<1>0. TypeOK /\ ViewsOrdered /\ LabelsMeanLeft /\ ScaledAwayIsKnown
  BY DEF IInv
<1>1. CASE ScaleUp
  <2>1. /\ Active /\ UNCHANGED <<svc, nodeVars>> /\ snap.spec \in NodeCount
        /\ Leaving(snap) = {} /\ snap.spec > snap.sts.replicas /\ ScaleTo(snap.spec)
    BY <1>0, <1>1 DEF ScaleUp, NotHeld, Active, TypeOK, Snapshot
  <2>2. \A o \in Ord : o >= sts.replicas => ~Labelled(svc[o])
    <3>1. \A o \in Ord : snap.svc[o].label \notin {"false", "true"}
      BY <2>1 DEF Leaving
    <3> QED BY <1>0, <2>1, <3>1, TypeFacts DEF ScaledAwayIsKnown, LabelsMeanLeft, Labelled
  <2> QED BY <2>1, <2>2 DEF ScaleTo, Grows
<1>2. CASE ConcludeDecommission
  <2>1. Active /\ UNCHANGED <<svc, nodeVars>>
    BY <1>2 DEF ConcludeDecommission, Active
  <2>2. PICK n \in NodeCount :
          /\ ScaleDownReplicas(snap, n)
          /\ IF n = snap.sts.replicas THEN UNCHANGED <<sts, used>> ELSE ScaleTo(n)
    BY <1>2 DEF ConcludeDecommission
  <2>3. CASE /\ n # snap.sts.replicas /\ sts = snap.sts
             /\ sts' = [replicas |-> n, rv |-> sts.rv + 1]
    <3>1. n < sts.replicas
      BY <1>0, <2>2, <2>3, TypeFacts, OrdFacts DEF ScaleDownReplicas, StepNodes
    <3>2. ASSUME NEW o \in Ord, n <= o, o < sts.replicas PROVE disk[o] = "left"
      <4>1. svc[o].label = "true"
        BY <1>0, <2>1, <2>2, <2>3, <3>2 DEF ScaleDownReplicas, ScaledAwayIsKnown
      <4> QED BY <1>0, <3>2, <4>1, TypeFacts DEF LabelsMeanLeft
    <3> QED BY <2>1, <2>3, <3>1, <3>2 DEF Shrinks
  <2> QED BY <2>2, <2>3 DEF ScaleTo
<1>3. CASE Sync /\ ~ScaleUp /\ ~ConcludeDecommission
  BY <1>3 DEF Sync, StartSync, NothingToScale, HoldRack, GateStatefulSets, BeginRequests,
     PrunePVC, PruneService, EndPrune, EndSync, RequestDecommission, RecheckService, ApplyService
<1>4. CASE Crash \/ Observe \/ \E n \in NodeCount : SetNodeCount(n)
  BY <1>4 DEF Crash, Observe, ObserveSpec, ObserveSts, ObserveSvc, SetNodeCount
<1>5. ASSUME NEW o \in Ord, Sidecar(o) \/ Cluster(o) \/ DrainNode(o) \/ RestartPod(o) \/ FailDecommission(o)
      PROVE UNCHANGED sts
  BY <1>5 DEF Sidecar, Cluster, SidecarDecommission, SidecarRestartDrained, SidecarConfirm,
     CreatePod, StartNode, JoinCluster, LeaveCluster, DeletePod, EndMaintenance,
     DrainNode, RestartPod, FailDecommission
<1>6. CASE UNCHANGED vars
  BY <1>6 DEF vars
<1> QED BY <1>1, <1>2, <1>3, <1>4, <1>5, <1>6 DEF Next

-----------------------------------------------------------------------------
(* The ways a step changes a volume or creates a Pod. *)

LEMMA SyncVolumes ==
  ASSUME IInv, Sync, ~PrunePVC
  PROVE UNCHANGED nodeVars
  BY DEF Sync, StartSync, ScaleUp, NothingToScale, HoldRack, GateStatefulSets, BeginRequests,
     ConcludeDecommission, PruneService, EndPrune, EndSync, RequestDecommission,
     RecheckService, ApplyService

\* The PVC that pruneServices deletes is that of a node that left.
LEMMA PrunedVolume ==
  ASSUME IInv, PrunePVC
  PROVE /\ cur \in Ord /\ cur >= sts.replicas /\ UNCHANGED <<pod, sts>>
        /\ disk[cur] = "left" \/ disk[cur] = "none"
        /\ \/ UNCHANGED <<disk, doomed>>
           \/ disk' = [disk EXCEPT ![cur] = "none"] /\ UNCHANGED doomed
           \/ doomed' = doomed \cup {cur} /\ UNCHANGED disk /\ disk[cur] = "left"
<1>0. TypeOK /\ NodesConsistent /\ LabelsMeanLeft /\ Pruning
  BY DEF IInv, PrunePVC, Pruning
<1>1. cur \in Ord /\ cur >= sts.replicas /\ svc[cur].label = "true"
  BY <1>0, PrunedIsScaledAway
<1>2. disk[cur] = "left" \/ disk[cur] = "none"
  BY <1>0, <1>1 DEF LabelsMeanLeft
<1>3. pod[cur] # "none" => disk[cur] = "left"
  BY <1>0, <1>1, <1>2 DEF NodesConsistent
<1> QED BY <1>1, <1>2, <1>3 DEF PrunePVC, DeleteVolume

LEMMA OtherVolumes ==
  ASSUME [Next]_vars, ~PrunePVC, IInv
  PROVE \/ UNCHANGED nodeVars
        \/ \E o \in Ord : \/ CreatePod(o) \/ JoinCluster(o) \/ LeaveCluster(o) \/ DeletePod(o)
                          \/ /\ UNCHANGED <<disk, doomed>> /\ pod[o] # "none"
                             /\ \E m \in Modes \ {"none"} : pod' = [pod EXCEPT ![o] = m]
<1>1. CASE Sync
  BY <1>1, SyncVolumes
<1>2. CASE Crash \/ Observe \/ \E n \in NodeCount : SetNodeCount(n)
  BY <1>2 DEF Crash, Observe, ObserveSpec, ObserveSts, ObserveSvc, SetNodeCount
<1>3. ASSUME NEW o \in Ord, SidecarConfirm(o) PROVE UNCHANGED nodeVars
  BY <1>3 DEF SidecarConfirm
<1>4. ASSUME NEW o \in Ord,
             \/ SidecarDecommission(o) \/ SidecarRestartDrained(o) \/ StartNode(o)
             \/ EndMaintenance(o) \/ DrainNode(o) \/ RestartPod(o) \/ FailDecommission(o)
      PROVE /\ UNCHANGED <<disk, doomed>> /\ pod[o] # "none"
            /\ \E m \in Modes \ {"none"} : pod' = [pod EXCEPT ![o] = m]
  BY <1>4 DEF SidecarDecommission, SidecarRestartDrained, StartNode, EndMaintenance,
     DrainNode, RestartPod, FailDecommission, Modes
<1>5. CASE UNCHANGED vars
  BY <1>5 DEF vars
<1> QED BY <1>1, <1>2, <1>3, <1>4, <1>5 DEF Next, Sidecar, Cluster

\* pruneServices, which deletes PVCs by name, only ever deletes that of a node that
\* left the cluster and was scaled away.
THEOREM PruningIsSafe == Spec => OnlyLeftVolumesDeleted
<1> DEFINE Deletes(o) == (disk'[o] = "none" /\ disk[o] # "none") \/ o \in doomed' \ doomed
<1>1. ASSUME IInv, [Next]_vars, NEW o \in Ord, Deletes(o)
      PROVE disk[o] = "left" /\ o >= sts.replicas
  <2>0. disk \in [Ord -> Disks] /\ NodesConsistent
    BY <1>1 DEF IInv, TypeOK
  <2>1. CASE PrunePVC
    BY <1>1, <2>0, <2>1, PrunedVolume
  <2>2. CASE UNCHANGED nodeVars
    BY <1>1, <2>2
  <2>3. ASSUME NEW p \in Ord, CreatePod(p) \/ JoinCluster(p) \/ LeaveCluster(p)
        PROVE FALSE
    BY <1>1, <2>0, <2>3 DEF CreatePod, JoinCluster, LeaveCluster
  <2>4. ASSUME NEW p \in Ord, DeletePod(p)
        PROVE disk[o] = "left" /\ o >= sts.replicas
    BY <1>1, <2>0, <2>4 DEF DeletePod, NodesConsistent
  <2>5. CASE UNCHANGED <<disk, doomed>>
    BY <1>1, <2>5
  <2> QED BY <1>1, <2>1, <2>2, <2>3, <2>4, <2>5, OtherVolumes
<1>2. ASSUME IInv, [Next]_vars PROVE [DeletesLeftVolume]_vars
  BY <1>1, <1>2 DEF DeletesLeftVolume
<1> QED BY <1>2, Invariance, PTL DEF Spec, OnlyLeftVolumesDeleted

-----------------------------------------------------------------------------
(* Pods are not created on the volumes of nodes that left. *)

\* A node that left and that the StatefulSet still has keeps its Pod.
LeftHasPod == \A o \in Ord : disk[o] = "left" /\ o < sts.replicas => pod[o] # "none"

LEMMA LeftHasPodInit == Init => LeftHasPod
  BY DEF Init, LeftHasPod

LEMMA LeftHasPodNext ==
  ASSUME IInv, LeftHasPod, [Next]_vars
  PROVE LeftHasPod'
<1>0. /\ TypeOK /\ NodesConsistent /\ LabelsMeanLeft /\ TypeOK'
      /\ pod \in [Ord -> Modes] /\ disk \in [Ord -> Disks]
  BY TypeNext DEF IInv, TypeOK
<1>1. CASE Grows
  <2>1. \A o \in Ord : disk[o] = "left" /\ o >= sts.replicas => o \in doomed
    BY <1>0, <1>1 DEF Grows, LabelsMeanLeft, Labelled
  <2> QED BY <1>0, <1>1, <2>1, TypeFacts DEF Grows, LeftHasPod, NodesConsistent
<1>2. CASE Shrinks
  <2>1. sts'.replicas \in Nat /\ sts'.replicas < sts.replicas /\ UNCHANGED nodeVars
    BY <1>2, OrdFacts DEF Shrinks
  <2> QED BY <1>0, <2>1, TypeFacts DEF LeftHasPod
<1>3. CASE UNCHANGED sts
  <2>1. CASE PrunePVC
    BY <1>0, <1>3, <2>1, PrunedVolume, TypeFacts DEF LeftHasPod
  <2>2. CASE UNCHANGED nodeVars
    BY <1>3, <2>2 DEF LeftHasPod
  <2>3. ASSUME NEW o \in Ord, CreatePod(o) \/ JoinCluster(o) \/ LeaveCluster(o) \/ DeletePod(o)
        PROVE LeftHasPod'
    BY <1>0, <1>3, <2>3, TypeFacts DEF CreatePod, JoinCluster, LeaveCluster, DeletePod, LeftHasPod
  <2>4. ASSUME NEW o \in Ord, NEW m \in Modes \ {"none"}, UNCHANGED <<disk, doomed>>,
               pod' = [pod EXCEPT ![o] = m]
        PROVE LeftHasPod'
    BY <1>0, <1>3, <2>4 DEF LeftHasPod
  <2> QED BY <2>1, <2>2, <2>3, <2>4, OtherVolumes
<1> QED BY <1>1, <1>2, <1>3, ScaleSteps

\* syncRackDecommission holds a rack long enough: no Pod is ever created on the
\* volume of a node that left the cluster.
THEOREM NoRecreationOnOldVolume == Spec => NoPodOnLeftVolume
<1>1. ASSUME IInv, LeftHasPod, [Next]_vars PROVE [CreatesPodOnLiveVolume]_vars
  <2>0. pod \in [Ord -> Modes]
    BY <1>1 DEF IInv, TypeOK
  <2>1. CASE PrunePVC \/ UNCHANGED nodeVars
    BY <1>1, <2>1, PrunedVolume DEF CreatesPodOnLiveVolume
  <2>2. ASSUME NEW o \in Ord, CreatePod(o) PROVE CreatesPodOnLiveVolume
    BY <1>1, <2>0, <2>2 DEF CreatePod, LeftHasPod, CreatesPodOnLiveVolume
  <2>3. ASSUME NEW o \in Ord, JoinCluster(o) \/ LeaveCluster(o) \/ DeletePod(o)
        PROVE CreatesPodOnLiveVolume
    BY <2>0, <2>3 DEF JoinCluster, LeaveCluster, DeletePod, CreatesPodOnLiveVolume
  <2>4. ASSUME NEW o \in Ord, NEW m \in Modes \ {"none"}, pod[o] # "none",
               pod' = [pod EXCEPT ![o] = m]
        PROVE CreatesPodOnLiveVolume
    BY <2>0, <2>4 DEF CreatesPodOnLiveVolume
  <2> QED BY <1>1, <2>1, <2>2, <2>3, <2>4, OtherVolumes
<1> QED BY <1>1, Invariance, LeftHasPodInit, LeftHasPodNext, PTL DEF Spec, NoPodOnLeftVolume

-----------------------------------------------------------------------------
(* RackScaling implements RackMembership. *)

\* The operator's syncs, on whatever stale view, move the rack only as the
\* abstract membership protocol allows.
THEOREM Refinement == Spec => MembershipSpec
<1> USE DEF Membership!Ord, Ord
<1>1. Init => Membership!Init
  BY BoundsAssumption DEF Init, Membership!Init, NodeCount
<1>2. ASSUME IInv, [Next]_vars
      PROVE [Membership!Next]_<<sts.replicas, disk>>
  <2>0. /\ TypeOK /\ NodesConsistent /\ MembersBelowReplicas
        /\ disk \in [Ord -> Disks]
    BY <1>2 DEF IInv, TypeOK
  <2>1. CASE Grows
    BY <1>2, <2>1 DEF Grows, Membership!Next, Membership!Grow, NodeCount
  <2>2. CASE Shrinks
    BY <1>2, <2>2 DEF Shrinks, Membership!Next, Membership!Shrink, NodeCount
  <2>3. CASE UNCHANGED sts
    <3>1. CASE PrunePVC
      BY <1>2, <2>0, <2>3, <3>1, PrunedVolume
      DEF Membership!Next, Membership!Reclaim, Membership!Move
    <3>2. CASE UNCHANGED disk
      BY <2>3, <3>2
    <3>3. ASSUME NEW o \in Ord, CreatePod(o)
          PROVE UNCHANGED disk \/ Membership!Provision(o)
      BY <2>0, <2>3, <3>3 DEF CreatePod, Membership!Provision, Membership!Move
    <3>4. ASSUME NEW o \in Ord, JoinCluster(o) PROVE Membership!Join(o)
      BY <2>0, <2>3, <3>4 DEF JoinCluster, Membership!Join, Membership!Move,
         NodesConsistent, MembersBelowReplicas
    <3>5. ASSUME NEW o \in Ord, LeaveCluster(o) PROVE Membership!Leave(o)
      BY <2>0, <2>3, <3>5 DEF LeaveCluster, Membership!Leave, Membership!Move,
         NodesConsistent, MembersBelowReplicas
    <3>6. ASSUME NEW o \in Ord, DeletePod(o)
          PROVE UNCHANGED disk \/ Membership!Reclaim(o)
      BY <2>0, <2>3, <3>6 DEF DeletePod, Membership!Reclaim, Membership!Move, NodesConsistent
    <3> QED BY <1>2, <2>3, <3>1, <3>2, <3>3, <3>4, <3>5, <3>6, OtherVolumes DEF Membership!Next
  <2> QED BY <1>2, <2>1, <2>2, <2>3, ScaleSteps
<1> QED BY <1>1, <1>2, Invariance, PTL DEF Spec, MembershipSpec, Membership!Spec
-----------------------------------------------------------------------------
(* Order of node operations, when no write is lost. *)

\* Past the writes it still waits for, the cache shows every label.
OwnWritesSeen ==
  \A o \in Ord \ owed : /\ csvc[o].uid = svc[o].uid
                        /\ Labelled(svc[o]) => Labelled(csvc[o])

\* A sync that has not written anything yet knows every label.
SnapshotKnowsLabels ==
  pc = "scale" => \A o \in Ord : /\ snap.svc[o].uid = svc[o].uid
                                 /\ Labelled(svc[o]) => Labelled(snap.svc[o])

\* One at a time, a request is only made while no node is in flight.
RequestIsAlone ==
  pc = "request" /\ ~Parallel =>
    \A o \in todo : o = snap.sts.replicas - 1 /\ \A p \in Ord : svc[p].label # "false"

OrderInv == /\ OwnWritesSeen /\ SnapshotKnowsLabels /\ RequestIsAlone
            /\ OneDecommissionAtATime

LEMMA OrderInit == Init => OrderInv
<1> SUFFICES ASSUME Init PROVE OrderInv
  OBVIOUS
<1>1. /\ pc = "idle"
      /\ \A o \in Ord : csvc[o] = svc[o] /\ svc[o].label \in {"absent", "none"}
  BY DEF Init
<1> QED BY <1>1 DEF OrderInv, OwnWritesSeen, SnapshotKnowsLabels, RequestIsAlone,
              OneDecommissionAtATime

\* Steps that write no Service and observe none.
LEMMA OrderFrame ==
  ASSUME IInv, OrderInv, UNCHANGED <<svc, csvc, owed>>,
         \/ pc' \notin {"scale", "request"}
         \/ UNCHANGED <<pc, snap, todo>>
  PROVE OrderInv'
  BY DEF OrderInv, OwnWritesSeen, SnapshotKnowsLabels, RequestIsAlone, OneDecommissionAtATime

LEMMA OrderSync ==
  ASSUME IInv, TypeOK', OrderInv, MaxLost = 0, Sync
  PROVE OrderInv'
<1>0. TypeOK /\ ViewsOrdered /\ ~Lose
  BY BoundsAssumption DEF IInv, Lose, TypeOK
<1>1. CASE StartSync
  <2>1. /\ UNCHANGED <<svc, csvc, owed>> /\ owed = {} /\ pc' = "scale" /\ snap'.svc = csvc
    BY <1>1 DEF StartSync
  <2> QED BY <2>1 DEF OrderInv, OwnWritesSeen, SnapshotKnowsLabels, RequestIsAlone,
                      OneDecommissionAtATime
<1>2. CASE ScaleUp \/ NothingToScale \/ HoldRack \/ GateStatefulSets \/ ConcludeDecommission
  <2>1. UNCHANGED <<svc, csvc, owed>> /\ pc' = "prune"
    BY <1>2 DEF ScaleUp, NothingToScale, HoldRack, GateStatefulSets, ConcludeDecommission, ToPrune
  <2> QED BY <2>1, OrderFrame
<1>3. CASE PrunePVC \/ EndPrune \/ EndSync
  <2>1. UNCHANGED <<svc, csvc, owed>> /\ pc' \notin {"scale", "request"}
    BY <1>3 DEF PrunePVC, EndPrune, EndSync, SkipPruned, Idle
  <2> QED BY <2>1, OrderFrame
<1>4. ASSUME NEW o \in Ord, RecheckService(o) PROVE OrderInv'
  <2>1. UNCHANGED <<svc, csvc, owed>> /\ pc' \notin {"scale", "request"}
    BY <1>4 DEF RecheckService, SkipPruned
  <2> QED BY <2>1, OrderFrame
<1>5. CASE BeginRequests
  <2>1. /\ UNCHANGED <<svc, csvc, owed, snap>> /\ pc = "scale" /\ pc' = "request" /\ Active
        /\ todo' \subseteq StepNodes(snap) /\ ~MustWait(snap)
    BY <1>5 DEF BeginRequests, Active
  <2>2. ASSUME ~Parallel PROVE \A p \in Ord : svc[p].label # "false"
    <3>1. \A p \in Ord : snap.svc[p].label # "false"
      BY <2>1, <2>2 DEF MustWait, InFlight
    <3>2. ASSUME NEW p \in Ord, svc[p].label = "false" PROVE FALSE
      <4>1. snap.svc[p].label = "true" /\ snap.svc[p].uid = svc[p].uid
        BY <2>1, <3>1, <3>2 DEF OrderInv, SnapshotKnowsLabels, Labelled
      <4>2. Older(snap.svc[p], svc[p])
        BY <1>0, <2>1, TypeFacts, OlderFacts DEF ViewsOrdered
      <4> QED BY <1>0, <3>2, <4>1, <4>2, RankFacts, TypeFacts, ServiceType DEF Older
    <3> QED BY <3>2
  <2>3. ASSUME ~Parallel PROVE \A o \in todo' : o = snap.sts.replicas - 1
    BY <1>0, <2>1, <2>3, TypeFacts DEF StepNodes, LowestLeavingOrdinal
  <2> QED BY <2>1, <2>2, <2>3 DEF OrderInv, OwnWritesSeen, SnapshotKnowsLabels, RequestIsAlone,
                                  OneDecommissionAtATime
<1>6. ASSUME NEW o \in Ord, RequestDecommission(o) PROVE OrderInv'
  <2>1. pc = "request" /\ o \in todo /\ UNCHANGED csvc
    BY <1>6 DEF RequestDecommission
  <2>2. CASE UNCHANGED <<svc, owed>> /\ ToPrune
    BY <2>1, <2>2, OrderFrame DEF ToPrune
  <2>3. CASE /\ svc' = [svc EXCEPT ![o] = [uid |-> @.uid, label |-> "false"]]
             /\ owed' = owed \cup {o} /\ todo' = todo \ {o} /\ UNCHANGED <<pc, snap>>
    <3>1. /\ svc'[o] = [uid |-> svc[o].uid, label |-> "false"]
          /\ \A p \in Ord \ {o} : svc'[p] = svc[p]
      BY <1>0, <2>3 DEF TypeOK
    <3>2. OwnWritesSeen' /\ SnapshotKnowsLabels'
      BY <2>1, <2>3, <3>1 DEF OrderInv, OwnWritesSeen, SnapshotKnowsLabels, Labelled
    <3>3. RequestIsAlone'
      BY <2>1, <2>3, <3>1 DEF OrderInv, RequestIsAlone
    <3>4. OneDecommissionAtATime'
      BY <2>1, <2>3, <3>1 DEF OrderInv, RequestIsAlone, OneDecommissionAtATime
    <3> QED BY <3>2, <3>3, <3>4 DEF OrderInv
  <2> QED BY <1>0, <1>6, <2>2, <2>3 DEF RequestDecommission
<1>7. CASE PruneService
  <2>1. pc' = "prune" /\ UNCHANGED csvc /\ cur \in Ord
    BY <1>0, <1>7 DEF PruneService, SkipPruned, TypeOK
  <2>2. CASE UNCHANGED <<svc, owed>>
    BY <2>1, <2>2, OrderFrame
  <2>3. CASE /\ svc' = [svc EXCEPT ![cur] = [uid |-> @.uid, label |-> "absent"]]
             /\ owed' = owed \cup {cur}
    <3>1. /\ svc'[cur].label = "absent"
          /\ \A p \in Ord \ {cur} : svc'[p] = svc[p]
      BY <1>0, <2>3 DEF TypeOK
    <3> QED BY <2>1, <2>3, <3>1 DEF OrderInv, OwnWritesSeen, SnapshotKnowsLabels, RequestIsAlone,
                                    OneDecommissionAtATime, Labelled
  <2> QED BY <1>0, <1>7, <2>2, <2>3 DEF PruneService
<1>8. ASSUME NEW o \in Ord, ApplyService(o) PROVE OrderInv'
  <2>1. pc' \in {"apply", "idle"} /\ UNCHANGED csvc
    BY <1>8 DEF ApplyService, Idle
  <2>2. CASE UNCHANGED <<svc, owed>>
    BY <2>1, <2>2, OrderFrame
  <2>3. CASE /\ svc' = [svc EXCEPT ![o] = [uid |-> @.uid + 1, label |-> "none"]]
             /\ owed' = owed \cup {o}
    <3>1. /\ svc'[o].label = "none"
          /\ \A p \in Ord \ {o} : svc'[p] = svc[p]
      BY <1>0, <2>3 DEF TypeOK
    <3> QED BY <2>1, <2>3, <3>1 DEF OrderInv, OwnWritesSeen, SnapshotKnowsLabels, RequestIsAlone,
                                    OneDecommissionAtATime, Labelled
  <2> QED BY <1>0, <1>8, <2>2, <2>3 DEF ApplyService
<1> QED BY <1>1, <1>2, <1>3, <1>4, <1>5, <1>6, <1>7, <1>8 DEF Sync

LEMMA OrderNext ==
  ASSUME IInv, OrderInv, MaxLost = 0, [Next]_vars
  PROVE OrderInv'
<1>0. TypeOK /\ TypeOK'
  BY TypeNext DEF IInv
<1>1. CASE Sync
  BY <1>0, <1>1, OrderSync
<1>2. CASE Crash
  <2>1. pc' = "idle" /\ svc' = svc /\ csvc' = svc
    BY <1>2 DEF Crash, Idle
  <2> QED BY <2>1 DEF OrderInv, OwnWritesSeen, SnapshotKnowsLabels, RequestIsAlone,
                      OneDecommissionAtATime
<1>3. CASE ObserveSvc
  <2>1. UNCHANGED <<pc, snap, todo, svc>> /\ csvc' = svc
    BY <1>3 DEF ObserveSvc
  <2> QED BY <2>1 DEF OrderInv, OwnWritesSeen, SnapshotKnowsLabels, RequestIsAlone,
                      OneDecommissionAtATime
<1>4. ASSUME NEW o \in Ord, SidecarConfirm(o) PROVE OrderInv'
  <2>1. UNCHANGED <<pc, snap, todo, csvc, owed>> /\ svc[o].label = "false"
    BY <1>4 DEF SidecarConfirm
  <2>2. /\ svc'[o] = [uid |-> svc[o].uid, label |-> "true"]
        /\ \A p \in Ord \ {o} : svc'[p] = svc[p]
    BY <1>0, <1>4 DEF SidecarConfirm, TypeOK
  <2> QED BY <2>1, <2>2 DEF OrderInv, OwnWritesSeen, SnapshotKnowsLabels, RequestIsAlone,
                            OneDecommissionAtATime, Labelled
<1>5. CASE ObserveSpec \/ ObserveSts \/ \E n \in NodeCount : SetNodeCount(n)
  <2>1. UNCHANGED <<pc, snap, todo, svc, csvc, owed>>
    BY <1>5 DEF ObserveSpec, ObserveSts, SetNodeCount
  <2> QED BY <2>1, OrderFrame
<1>6. ASSUME NEW o \in Ord,
             \/ SidecarDecommission(o) \/ SidecarRestartDrained(o) \/ Cluster(o)
             \/ DrainNode(o) \/ RestartPod(o) \/ FailDecommission(o)
      PROVE OrderInv'
  <2>1. UNCHANGED <<pc, snap, todo, svc, csvc, owed>>
    BY <1>6 DEF SidecarDecommission, SidecarRestartDrained, Cluster, CreatePod, StartNode,
       JoinCluster, LeaveCluster, DeletePod, EndMaintenance, DrainNode, RestartPod, FailDecommission
  <2> QED BY <2>1, OrderFrame
<1>7. CASE UNCHANGED vars
  <2>1. UNCHANGED <<pc, snap, todo, svc, csvc, owed>>
    BY <1>7 DEF vars
  <2> QED BY <2>1, OrderFrame
<1> QED BY <1>1, <1>2, <1>3, <1>4, <1>5, <1>6, <1>7 DEF Next, Observe, Sidecar

LEMMA OnlyScaleUpGrows ==
  ASSUME IInv, [Next]_vars, ~ScaleUp
  PROVE ~(sts'.replicas > sts.replicas)
<1>0. TypeOK /\ sts.replicas \in Nat
  BY TypeFacts DEF IInv
<1>1. CASE ConcludeDecommission
  <2>1. PICK n \in NodeCount :
          /\ ScaleDownReplicas(snap, n)
          /\ IF n = snap.sts.replicas THEN UNCHANGED <<sts, used>> ELSE ScaleTo(n)
    BY <1>1 DEF ConcludeDecommission
  <2>2. CASE sts = snap.sts /\ sts' = [replicas |-> n, rv |-> sts.rv + 1]
    BY <1>0, <2>1, <2>2, TypeFacts, OrdFacts DEF ScaleDownReplicas, StepNodes
  <2> QED BY <1>0, <2>1, <2>2 DEF ScaleTo
<1>2. CASE UNCHANGED sts
  BY <1>0, <1>2
<1>3. CASE Sync /\ ~ConcludeDecommission
  <2>1. UNCHANGED sts
    BY <1>3 DEF Sync, StartSync, NothingToScale, HoldRack, GateStatefulSets, BeginRequests,
       PrunePVC, PruneService, EndPrune, EndSync, RequestDecommission, RecheckService, ApplyService
  <2> QED BY <1>2, <2>1
<1>4. CASE ~Sync
  <2>1. UNCHANGED sts
    BY <1>4 DEF Next, vars, Crash, Observe, ObserveSpec, ObserveSts, ObserveSvc, SetNodeCount,
       Sidecar, Cluster, SidecarDecommission, SidecarRestartDrained, SidecarConfirm,
       CreatePod, StartNode, JoinCluster, LeaveCluster, DeletePod, EndMaintenance,
       DrainNode, RestartPod, FailDecommission
  <2> QED BY <1>2, <2>1
<1> QED BY <1>1, <1>3, <1>4

\* With parallel node operations disabled and no answer lost, the
\* read-your-writes reads of syncRackDecommission keep at most one node of the
\* rack decommissioning, through crashes and refused calls.
THEOREM SequentialDecommission ==
  ASSUME MaxLost = 0
  PROVE Spec => []OneDecommissionAtATime
<1>1. OrderInv => OneDecommissionAtATime
  BY DEF OrderInv
<1>2. IInv /\ OrderInv /\ [Next]_vars => OrderInv'
  BY OrderNext
<1> QED BY <1>1, <1>2, OrderInit, Invariance, PTL DEF Spec

\* When no answer is lost, the StatefulSet never grows while a node leaves.
THEOREM DeferredRaise ==
  ASSUME MaxLost = 0
  PROVE Spec => RaiseIsDeferred
<1>1. ASSUME IInv, OrderInv, [Next]_vars PROVE [RaisesWhenNoneLeaves]_vars
  <2>0. TypeOK /\ TypeOK'
    BY <1>1, TypeNext DEF IInv
  <2>1. CASE ScaleUp
    <3>1. \A o \in Ord : ~Labelled(svc[o])
      BY <2>1 , <1>1 DEF ScaleUp, NotHeld, Leaving, OrderInv, SnapshotKnowsLabels, Labelled
    <3> QED BY <2>0, <3>1, TypeFacts, ServiceType DEF Labelled, Labels, RaisesWhenNoneLeaves
  <2>2. CASE ~ScaleUp
    <3>1. ~(sts'.replicas > sts.replicas)
      BY <1>1, <2>0, <2>2, OnlyScaleUpGrows
    <3> QED BY <3>1 DEF RaisesWhenNoneLeaves
  <2> QED BY <2>1, <2>2
<1>2. IInv /\ OrderInv /\ [Next]_vars => OrderInv'
  BY OrderNext
<1>3. IInv /\ OrderInv /\ [Next]_vars => [RaisesWhenNoneLeaves]_vars
  BY <1>1
<1> QED BY <1>2, <1>3, OrderInit, Invariance, PTL DEF Spec, RaiseIsDeferred
=============================================================================
