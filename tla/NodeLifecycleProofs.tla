------------------------- MODULE NodeLifecycleProofs -------------------------
(***************************************************************************)
(* Proofs about what happens to a node: NodeReplace, for every set of hosts *)
(* and every bound on losses, requests and faults, with the bootstrap       *)
(* barrier in place; ClusterBootstrap, for every number of nodes and racks  *)
(* and every bound on faults; and CleanupJobs, for every number of nodes,   *)
(* keyspaces, guests and faults.  No theorem is about two of them.          *)
(***************************************************************************)
EXTENDS NodeReplace, ClusterBootstrap, CleanupJobs, TLAPS, FiniteSetTheorems,
        WellFoundedInduction

-----------------------------------------------------------------------------
(* The replacement of a node. *)

\* A view of the Service is no newer than the Service, and is the Service when it
\* has its resource version.
View(v) == v.rv <= svc.rv /\ (v.rv = svc.rv => v = svc)

\* What the datacenter controller reads and holds.  It is the only one that writes
\* the second label and that removes the first, so a cache that shows its own
\* writes has the second label of the Service, and no first label that is gone.
ViewsCurrent ==
  /\ View(seen) /\ View(snap) /\ written <= svc.rv
  /\ seen.rv >= written =>
       seen.replacing = svc.replacing /\ (seen.replace => svc.replace)
  /\ pc # "idle" => snap.replacing = svc.replacing /\ snap.replace /\ svc.replace
  /\ pc \in {"deletePVC", "evict", "record"} => snap.replacing = 0 /\ snap.hostID # 0
  /\ pc = "finish" => snap.replacing # 0 /\ snap.hostID # snap.replacing

\* The one member is the node that joined last.  The annotation is its Host ID,
\* but for the time between its joining and the sidecar's next write; then the
\* label names the node that it replaced.
LabelsNameMembers ==
  /\ memberIDs = {lastID}
  /\ svc.replacing <= lastID
  /\ svc.replacing # 0 => svc.replace
  /\ svc.replacing \in {0, lastID} => svc.hostID = lastID
  /\ svc.hostID \in {svc.replacing, lastID}

\* A volume that is being deleted is in use by no node that could still start
\* once the Host ID to replace is recorded, and the volume of the node that
\* took its place is there.
VolumeFits ==
  /\ pvc.data \in 0..lastID
  /\ pvc.data # 0 => pvc.exists
  /\ pvc.deleting /\ (svc.replacing # 0 \/ pc = "record") => pod.phase = "absent" \/ pod.going
  /\ svc.replacing \notin {0, lastID} => pvc.data = lastID /\ ~pvc.deleting

\* A node that is up is the member, and one that passed the barrier on a new
\* volume is the replacement of the member.
PodFits ==
  /\ pod.phase # "absent" => pvc.exists
  /\ pod.phase = "up" => pvc.data = lastID
  /\ pod.phase \in {"main", "started"} /\ pvc.data = 0 => svc.replacing = lastID
  /\ pod.phase = "started" /\ pvc.data = 0 => pod.replacing = lastID

IInv == TypeOK /\ ViewsCurrent /\ LabelsNameMembers /\ VolumeFits /\ PodFits

-----------------------------------------------------------------------------

USE DEF operator, orphanedPV, nodeState, Services, NoPod, NoClaim, View

\* What the writes of the Service make of it.
LEMMA ServiceWrites ==
  ASSUME NEW s \in Services
  PROVE /\ \A n \in Nat : [s EXCEPT !.rv = n] \in Services
        /\ \A n \in Nat : [s EXCEPT !.replacing = n] \in Services
        /\ \A n \in Nat : [s EXCEPT !.hostID = n] \in Services
        /\ [s EXCEPT !.replace = TRUE] \in Services
        /\ [s EXCEPT !.replace = FALSE, !.replacing = 0] \in Services
  OBVIOUS

LEMMA WriteType ==
  ASSUME TypeOK, NEW s \in Services, Write(s)
  PROVE svc' \in Services
<1>1. svc.rv + 1 \in Nat
  BY DEF TypeOK
<1> QED BY <1>1, ServiceWrites DEF Write, TypeOK

LEMMA UpdateType ==
  ASSUME TypeOK, NEW s \in Services, Update(s)
  PROVE svc' \in Services /\ written' \in Nat
  BY WriteType DEF Update, TypeOK

\* The counters stay within their bounds.
LEMMA UsedType ==
  ASSUME TypeOK
  PROVE LET U == [losses : 0..MaxLosses, requests : 0..MaxRequests,
                  stale : 0..MaxStale, faults : 0..MaxFaults]
        IN /\ used.losses < MaxLosses => [used EXCEPT !.losses = @ + 1] \in U
           /\ used.requests < MaxRequests => [used EXCEPT !.requests = @ + 1] \in U
           /\ used.stale < MaxStale => [used EXCEPT !.stale = @ + 1] \in U
           /\ used.faults < MaxFaults => [used EXCEPT !.faults = @ + 1] \in U
  BY ReplaceAssumption DEF TypeOK

LEMMA InitIInv == ASSUME Init PROVE IInv
<1>1. TypeOK
  <2>1. PICK h \in Hosts : pvc = [exists |-> TRUE, host |-> h, data |-> 1, deleting |-> FALSE]
    BY DEF Init
  <2>2. memberIDs \subseteq 1..lastID
    BY DEF Init
  <2>3. used \in [losses : 0..MaxLosses, requests : 0..MaxRequests,
                  stale : 0..MaxStale, faults : 0..MaxFaults]
    BY ReplaceAssumption DEF Init
  <2>4. pod = [phase |-> "up", going |-> FALSE, replacing |-> 0]
    BY DEF Init
  <2>5. svc \in Services /\ seen \in Services /\ snap \in Services
    BY DEF Init
  <2>6. /\ pvc \in [exists : BOOLEAN, host : Hosts \cup {NoHost}, data : Nat, deleting : BOOLEAN]
        /\ pod \in [phase : {"absent", "init", "main", "started", "up", "dead"}, going : BOOLEAN,
                    replacing : Nat]
    BY <2>1, <2>4
  <2>7. claim \in Hosts \cup {NoHost}
    BY <2>1 DEF Init
  <2>8. /\ live \subseteq Hosts /\ written \in Nat /\ lastID \in Nat \ {0} /\ pc = "idle"
        /\ orphan = NoHost /\ mislabelled = FALSE
    BY DEF Init
  <2> QED BY <2>2, <2>3, <2>5, <2>6, <2>7, <2>8, ZenonT(60) DEF TypeOK
<1>2. ViewsCurrent /\ LabelsNameMembers /\ VolumeFits /\ PodFits
  BY DEF Init, ViewsCurrent, LabelsNameMembers, VolumeFits, PodFits
<1> QED BY <1>1, <1>2 DEF IInv

LEMMA TypeNext == ASSUME TypeOK, [Next]_vars PROVE TypeOK'
<1>1. CASE Observe
  BY <1>1 DEF Observe, TypeOK
<1>2. CASE replaceNodeUsingHostID
  BY <1>2 DEF replaceNodeUsingHostID, Finishable, TypeOK
<1>3. CASE DeletePVC
  <2>1. pvc' \in [exists : BOOLEAN, host : Hosts \cup {NoHost}, data : Nat, deleting : BOOLEAN]
    BY <1>3 DEF DeletePVC, TypeOK
  <2> QED BY <1>3, <2>1, ZenonT(60) DEF DeletePVC, TypeOK
<1>4. CASE EvictPod
  <2>1. pod' \in [phase : {"absent", "init", "main", "started", "up", "dead"}, going : BOOLEAN,
                  replacing : Nat]
    BY <1>4 DEF EvictPod, TypeOK
  <2> QED BY <1>4, <2>1, ZenonT(60) DEF EvictPod, TypeOK
<1>5. CASE RecordReplacing
  <2>1. [snap EXCEPT !.replacing = snap.hostID] \in Services
    BY ServiceWrites DEF TypeOK
  <2> QED BY <1>5, <2>1, UpdateType DEF RecordReplacing, TypeOK
<1>6. CASE FinishReplace
  <2>1. [snap EXCEPT !.replace = FALSE, !.replacing = 0] \in Services
    BY ServiceWrites DEF TypeOK
  <2> QED BY <1>6, <2>1, UpdateType, ZenonT(60) DEF FinishReplace, TypeOK
<1>7. CASE Abort
  BY <1>7, UsedType DEF Abort, TypeOK
<1>8. CASE FindOrphan
  BY <1>8, UsedType DEF FindOrphan, TypeOK
<1>9. CASE LabelOrphan
  <2>1. svc \in Services /\ [svc EXCEPT !.replace = TRUE] \in Services
    BY ServiceWrites DEF TypeOK
  <2> QED BY <1>9, <2>1, WriteType DEF LabelOrphan, TypeOK
<1>10. CASE RemovePVC
  BY <1>10 DEF RemovePVC, TypeOK
<1>11. CASE RecreatePod
  <2>1. PICK h \in live : pvc' = IF pvc.exists THEN pvc
                                 ELSE [exists |-> TRUE, host |-> h, data |-> 0, deleting |-> FALSE]
    BY <1>11 DEF RecreatePod
  <2>2. pod' = [phase |-> "init", going |-> FALSE, replacing |-> 0]
    BY <1>11 DEF RecreatePod
  <2>3. pvc' \in [exists : BOOLEAN, host : Hosts \cup {NoHost}, data : Nat, deleting : BOOLEAN]
    BY <2>1 DEF TypeOK
  <2>4. pod' \in [phase : {"absent", "init", "main", "started", "up", "dead"}, going : BOOLEAN,
                  replacing : Nat]
    BY <2>2
  <2> QED BY <1>11, <2>3, <2>4 DEF RecreatePod, TypeOK
<1>12. CASE LeaveBarrier
  <2>1. pod' \in [phase : {"absent", "init", "main", "started", "up", "dead"}, going : BOOLEAN,
                  replacing : Nat]
    BY <1>12 DEF LeaveBarrier, TypeOK
  <2> QED BY <1>12, <2>1, ZenonT(60) DEF LeaveBarrier, TypeOK
<1>13. CASE SetupEntrypoint
  <2>1. pod' \in [phase : {"absent", "init", "main", "started", "up", "dead"}, going : BOOLEAN,
                  replacing : Nat]
    BY <1>13 DEF SetupEntrypoint, Services, TypeOK
  <2> QED BY <1>13, <2>1, ZenonT(60) DEF SetupEntrypoint, TypeOK
<1>14. CASE Restart
  <2>1. pod' \in [phase : {"absent", "init", "main", "started", "up", "dead"}, going : BOOLEAN,
                  replacing : Nat]
    BY <1>14 DEF Restart, TypeOK
  <2> QED BY <1>14, <2>1, ZenonT(60) DEF Restart, TypeOK
<1>15. CASE JoinRing
  BY <1>15 DEF JoinRing, TypeOK
<1>16. CASE AnnotateHostID
  <2>1. [svc EXCEPT !.hostID = pvc.data] \in Services
    BY ServiceWrites DEF TypeOK
  <2> QED BY <1>16, <2>1, WriteType DEF AnnotateHostID, TypeOK
<1>17. CASE RemovePod
  BY <1>17 DEF RemovePod, TypeOK
<1>18. CASE DisruptPod
  <2>1. pod' \in [phase : {"absent", "init", "main", "started", "up", "dead"}, going : BOOLEAN,
                  replacing : Nat]
    BY <1>18 DEF DisruptPod, TypeOK
  <2>2. used' \in [losses : 0..MaxLosses, requests : 0..MaxRequests,
                   stale : 0..MaxStale, faults : 0..MaxFaults]
    BY <1>18, UsedType DEF DisruptPod
  <2> QED BY <1>18, <2>1, <2>2, ZenonT(60) DEF DisruptPod, TypeOK
<1>19. CASE RequestReplace
  <2>1. [svc EXCEPT !.replace = TRUE] \in Services
    BY ServiceWrites DEF TypeOK
  <2> QED BY <1>19, <2>1, WriteType, UsedType DEF RequestReplace, TypeOK
<1>22. CASE ObserveClaim
  BY <1>22 DEF ObserveClaim, TypeOK
<1>20. ASSUME NEW h \in Hosts, LoseHost(h) PROVE TypeOK'
  BY <1>20, UsedType DEF LoseHost, TypeOK
<1>21. CASE UNCHANGED vars
  BY <1>21 DEF vars, TypeOK
<1> QED BY <1>1, <1>2, <1>3, <1>4, <1>5, <1>6, <1>7, <1>8, <1>9, <1>10, <1>11, <1>12, <1>13, <1>14, <1>15, <1>16, <1>17, <1>18, <1>19, <1>20, <1>21, <1>22 DEF Next

LEMMA StepIInv == ASSUME Barrier, IInv, [Next]_vars PROVE IInv'
<1>0. TypeOK /\ TypeOK'
  BY TypeNext DEF IInv
<1> USE <1>0 DEF IInv, ViewsCurrent, LabelsNameMembers, VolumeFits, PodFits
<1>1. CASE Observe
  BY <1>1 DEF Observe, TypeOK
<1>2. CASE replaceNodeUsingHostID
  BY <1>2 DEF replaceNodeUsingHostID, Finishable, TypeOK
<1>3. CASE DeletePVC
  BY <1>3 DEF DeletePVC, TypeOK
<1>4. CASE EvictPod
  BY <1>4 DEF EvictPod, TypeOK
<1>5. CASE RecordReplacing
  <2>1. CASE svc.rv # snap.rv
    BY <1>5, <2>1 DEF RecordReplacing, Update, TypeOK
  <2>2. CASE svc.rv = snap.rv
    <3>1. snap = svc /\ svc.replacing = 0 /\ svc.hostID = lastID
      BY <1>5, <2>2 DEF RecordReplacing
    <3>2. svc.hostID # 0
      BY <3>1 DEF TypeOK
    <3>3. [svc EXCEPT !.replacing = svc.hostID] # svc
      BY <3>1, <3>2 DEF TypeOK
    <3>4. /\ svc' = [svc EXCEPT !.replacing = svc.hostID, !.rv = svc.rv + 1]
          /\ written' = svc.rv + 1
      BY <1>5, <2>2, <3>1, <3>3 DEF RecordReplacing, Update, Write
    <3>5. /\ svc'.rv = svc.rv + 1 /\ svc'.replacing = lastID /\ svc'.hostID = lastID
          /\ svc'.replace = svc.replace
      BY <3>1, <3>4 DEF TypeOK
    <3> QED BY <1>5, <3>1, <3>2, <3>4, <3>5 DEF RecordReplacing, TypeOK
  <2> QED BY <2>1, <2>2
<1>6. CASE FinishReplace
  <2>1. CASE svc.rv # snap.rv
    BY <1>6, <2>1 DEF FinishReplace, Update, TypeOK
  <2>2. CASE svc.rv = snap.rv
    <3>1. snap = svc /\ svc.replacing # 0 /\ svc.replacing # lastID /\ svc.hostID = lastID
      BY <1>6, <2>2 DEF FinishReplace
    <3>2. [svc EXCEPT !.replace = FALSE, !.replacing = 0] # svc
      <4>1. [svc EXCEPT !.replace = FALSE, !.replacing = 0].replacing = 0
        BY ONLY <1>0 DEF TypeOK, Services
      <4> QED BY ONLY <4>1, <3>1
    <3>3. /\ svc' = [svc EXCEPT !.replace = FALSE, !.replacing = 0, !.rv = svc.rv + 1]
          /\ written' = svc.rv + 1
      BY <1>6, <2>2, <3>1, <3>2 DEF FinishReplace, Update, Write
    <3>4. /\ svc'.rv = svc.rv + 1 /\ svc'.replacing = 0 /\ svc'.hostID = lastID
          /\ ~svc'.replace
      BY <3>1, <3>3 DEF TypeOK
    <3> QED BY <1>6, <3>1, <3>3, <3>4 DEF FinishReplace, TypeOK
  <2> QED BY <2>1, <2>2
<1>7. CASE Abort
  BY <1>7 DEF Abort, TypeOK
<1>8. CASE FindOrphan
  BY <1>8 DEF FindOrphan, TypeOK
<1>9. CASE LabelOrphan
  BY <1>9 DEF LabelOrphan, Write, TypeOK
<1>10. CASE RemovePVC
  BY <1>10 DEF RemovePVC, TypeOK
<1>11. CASE RecreatePod
  BY <1>11 DEF RecreatePod, TypeOK
<1>12. CASE LeaveBarrier
  BY <1>12 DEF LeaveBarrier, shouldProceedWithBootstrap, TypeOK
<1>13. CASE SetupEntrypoint
  BY <1>13 DEF SetupEntrypoint, TypeOK
<1>14. CASE Restart
  BY <1>14 DEF Restart, TypeOK
<1>15. CASE JoinRing
  <2>1. pod.replacing = lastID /\ svc.replacing = lastID /\ ~pvc.deleting
    BY <1>15 DEF JoinRing, TypeOK
  <2>2. memberIDs' = {lastID'} /\ lastID' = lastID + 1
    BY <1>15, <2>1 DEF JoinRing, TypeOK
  <2>3. /\ pvc'.data = lastID' /\ pvc'.exists = pvc.exists /\ ~pvc'.deleting
        /\ pod'.phase = "up"
    BY <1>15, <2>1 DEF JoinRing, TypeOK
  <2> QED BY <1>15, <2>1, <2>2, <2>3 DEF JoinRing, TypeOK
<1>16. CASE AnnotateHostID
  BY <1>16 DEF AnnotateHostID, Write, TypeOK
<1>17. CASE RemovePod
  BY <1>17 DEF RemovePod, TypeOK
<1>18. CASE DisruptPod
  BY <1>18 DEF DisruptPod, TypeOK
<1>19. CASE RequestReplace
  BY <1>19 DEF RequestReplace, Write, TypeOK
<1>22. CASE ObserveClaim
  BY <1>22 DEF ObserveClaim, TypeOK
<1>20. ASSUME NEW h \in Hosts, LoseHost(h) PROVE IInv'
  BY <1>20 DEF LoseHost, TypeOK
<1>21. CASE UNCHANGED vars
  BY <1>21 DEF vars
<1> QED BY <1>1, <1>2, <1>3, <1>4, <1>5, <1>6, <1>7, <1>8, <1>9, <1>10, <1>11, <1>12, <1>13, <1>14, <1>15, <1>16, <1>17, <1>18, <1>19, <1>20, <1>21, <1>22 DEF Next

LEMMA SpecIInv == ASSUME Barrier PROVE Spec => []IInv
<1>1. Init => IInv
  BY InitIInv
<1>2. IInv /\ [Next]_vars => IInv'
  BY StepIInv
<1> QED BY <1>1, <1>2, PTL DEF Spec

-----------------------------------------------------------------------------

\* Every variable keeps its type, whether or not the barrier is there.
THEOREM TypeCorrect == Spec => []TypeOK
<1>1. Init => TypeOK
  BY InitIInv DEF IInv
<1>2. TypeOK /\ [Next]_vars => TypeOK'
  BY TypeNext
<1> QED BY <1>1, <1>2, PTL DEF Spec

\* With the barrier no replacement leaves the old node in the cluster beside the
\* new one, however the eviction, the restart of the Pod and the write of the label
\* that names the old node interleave (removePodAndAssociatedPVC,
\* initializeReplaceNodeUsingHostID).
THEOREM ReplacementIsExact == ASSUME Barrier PROVE Spec => []NoStrayMember
<1>1. IInv => NoStrayMember
  BY FS_Singleton DEF IInv, LabelsNameMembers, NoStrayMember
<1> QED BY <1>1, SpecIInv, PTL

\* A write of the Service leaves the label that is written.
LEMMA WriteLabel ==
  ASSUME NEW s \in Services, Write(s)
  PROVE svc' = svc \/ svc'.replacing = s.replacing
  BY DEF Write

\* The write of the label takes effect or changes nothing.
LEMMA RecordSetsLabel ==
  ASSUME IInv, RecordReplacing
  PROVE svc' = svc \/ svc'.replacing # 0
<1>1. snap.hostID # 0 /\ snap \in Services /\ snap.hostID \in Nat
  BY DEF RecordReplacing, IInv, ViewsCurrent, TypeOK
<1>2. /\ [snap EXCEPT !.replacing = snap.hostID] \in Services
      /\ [snap EXCEPT !.replacing = snap.hostID].replacing # 0
  BY <1>1
<1> QED BY <1>2, WriteLabel DEF RecordReplacing, Update

\* With the barrier finishOngoingReplaceNodeUsingHostID removes the labels only once
\* the node they name is out of the cluster.
THEOREM FinishIsSafe == ASSUME Barrier PROVE Spec => FinishedMeansReplaced
<1>1. IInv /\ [Next]_vars
        => [svc.replacing # 0 /\ svc'.replacing = 0 => svc.replacing \notin memberIDs']_vars
  <2> SUFFICES ASSUME IInv, Next, svc.replacing # 0, svc'.replacing = 0
               PROVE svc.replacing \notin memberIDs'
    BY DEF vars
  <2>1. ~RecordReplacing
    BY RecordSetsLabel
  <2>2. ~(LabelOrphan \/ AnnotateHostID \/ RequestReplace)
    <3>1. /\ svc \in Services /\ [svc EXCEPT !.replace = TRUE] \in Services
          /\ [svc EXCEPT !.hostID = pvc.data] \in Services
      BY ServiceWrites DEF IInv, TypeOK
    <3>2. /\ [svc EXCEPT !.replace = TRUE].replacing = svc.replacing
          /\ [svc EXCEPT !.hostID = pvc.data].replacing = svc.replacing
      BY <3>1
    <3> QED BY <3>1, <3>2, WriteLabel DEF LabelOrphan, AnnotateHostID, RequestReplace
  <2>3. svc' # svc
    OBVIOUS
  <2>4. FinishReplace
    BY <2>1, <2>2, <2>3
    DEF Next, Observe, replaceNodeUsingHostID, DeletePVC, EvictPod, Abort, ObserveClaim, FindOrphan,
        RemovePVC, RecreatePod, LeaveBarrier, SetupEntrypoint, Restart, JoinRing, RemovePod,
        DisruptPod, LoseHost
  <2>5. svc.rv = snap.rv /\ memberIDs' = memberIDs
    BY <2>3, <2>4 DEF FinishReplace, Update
  <2> QED BY <2>4, <2>5 DEF FinishReplace, IInv, ViewsCurrent, LabelsNameMembers
<1> QED BY <1>1, SpecIInv, PTL DEF Spec, FinishedMeansReplaced

\* The first label without a request of a user and not by mistake: the volume is
\* lost, or it is the new one.
LostWhenLabelled ==
  used.requests = 0 /\ ~mislabelled /\ svc.replace /\ svc.replacing = 0 =>
    pvc.host \notin live \/ pvc.data \notin memberIDs

LEMMA StepLost ==
  ASSUME Barrier, IInv, IInv', LostWhenLabelled, [Next]_vars
  PROVE LostWhenLabelled'
<1>0. TypeOK
  BY DEF IInv
<1> USE <1>0 DEF LostWhenLabelled
<1>1. CASE Observe
  BY <1>1 DEF Observe, TypeOK
<1>2. CASE replaceNodeUsingHostID
  BY <1>2 DEF replaceNodeUsingHostID, TypeOK
<1>3. CASE DeletePVC
  BY <1>3 DEF DeletePVC, TypeOK
<1>4. CASE EvictPod
  BY <1>4 DEF EvictPod, TypeOK
<1>5. CASE RecordReplacing
  BY <1>5, RecordSetsLabel DEF RecordReplacing
<1>6. CASE FinishReplace
  BY <1>6 DEF FinishReplace, Update, Write, TypeOK
<1>7. CASE Abort
  BY <1>7 DEF Abort, TypeOK
<1>8. CASE FindOrphan
  BY <1>8 DEF FindOrphan, TypeOK
<1>9. CASE LabelOrphan
  BY <1>9 DEF LabelOrphan, Write, IsOrphanedPV, TypeOK
<1>10. CASE RemovePVC
  BY <1>10 DEF RemovePVC, TypeOK
<1>11. CASE RecreatePod
  BY <1>11 DEF RecreatePod, TypeOK
<1>12. CASE LeaveBarrier
  BY <1>12 DEF LeaveBarrier, TypeOK
<1>13. CASE SetupEntrypoint
  BY <1>13 DEF SetupEntrypoint, TypeOK
<1>14. CASE Restart
  BY <1>14 DEF Restart, TypeOK
<1>15. CASE JoinRing
  <2>1. svc.replacing # 0
    BY <1>15 DEF JoinRing, IInv, PodFits, TypeOK
  <2> QED BY <1>15, <2>1 DEF JoinRing
<1>16. CASE AnnotateHostID
  BY <1>16 DEF AnnotateHostID, Write, TypeOK
<1>17. CASE RemovePod
  BY <1>17 DEF RemovePod, TypeOK
<1>18. CASE DisruptPod
  BY <1>18 DEF DisruptPod, TypeOK
<1>19. CASE RequestReplace
  BY <1>19 DEF RequestReplace, Write, TypeOK
<1>22. CASE ObserveClaim
  BY <1>22 DEF ObserveClaim, TypeOK
<1>20. ASSUME NEW h \in Hosts, LoseHost(h) PROVE LostWhenLabelled'
  BY <1>20 DEF LoseHost, TypeOK
<1>21. CASE UNCHANGED vars
  BY <1>21 DEF vars
<1> QED BY <1>1, <1>2, <1>3, <1>4, <1>5, <1>6, <1>7, <1>8, <1>9, <1>10, <1>11, <1>12, <1>13, <1>14, <1>15, <1>16, <1>17, <1>18, <1>19, <1>20, <1>21, <1>22 DEF Next

\* With the barrier only the volume of a lost host or an empty one is deleted,
\* unless a user asks for the replacement or the orphaned PV controller labelled the
\* Service for a claim that had gone: however old its cache, whatever is lost,
\* refused or evicted.
THEOREM OnlyLostDeleted ==
  ASSUME Barrier PROVE Spec => OnlyLostVolumesDeletedUnlessMislabelled
<1>1. Init => LostWhenLabelled
  BY DEF Init, LostWhenLabelled
<1>2. IInv /\ LostWhenLabelled /\ [Next]_vars => LostWhenLabelled'
  BY StepIInv, StepLost
<1>3. IInv /\ LostWhenLabelled /\ [Next]_vars
        => [used.requests = 0 /\ ~mislabelled /\ pvc'.deleting /\ ~pvc.deleting =>
              pvc.host \notin live \/ pvc.data \notin memberIDs]_vars
  <2> SUFFICES ASSUME IInv, LostWhenLabelled, Next, used.requests = 0, ~mislabelled,
                      pvc'.deleting, ~pvc.deleting
               PROVE pvc.host \notin live \/ pvc.data \notin memberIDs
    BY DEF vars
  <2>1. DeletePVC
    BY ZenonT(60) DEF Next, Observe, replaceNodeUsingHostID, EvictPod, RecordReplacing, FinishReplace,
           Abort, ObserveClaim, FindOrphan, LabelOrphan, RemovePVC, RecreatePod, LeaveBarrier,
           SetupEntrypoint, Restart, JoinRing, AnnotateHostID, RemovePod, DisruptPod,
           RequestReplace, LoseHost, IInv, TypeOK
  <2> QED BY <2>1 DEF DeletePVC, IInv, ViewsCurrent, LostWhenLabelled
<1> QED BY <1>1, <1>2, <1>3, SpecIInv, PTL DEF Spec, OnlyLostVolumesDeletedUnlessMislabelled

HIDE DEF operator, orphanedPV, nodeState, Services, NoPod, NoClaim, View

-----------------------------------------------------------------------------
(* The barrier's decision. *)

\* No report sees anyone up whose node is not up itself, and the report of a node that
\* is up has every host of its cluster and every one that is joining.
LEMMA ReportSees ==
  ASSUME NEW n \in Node
  PROVE  LET r == getNodeStatusReport(n) IN
         /\ phase[n] # "up" => r.up = {} /\ r.hosts = {}
         /\ phase[n] = "up" => /\ r.hosts = {m \in Node : cluster[m] = cluster[n] \/ phase[m] = "joining"}
                               /\ r.up = {m \in r.hosts : phase[m] \in {"up", "joining"}}
BY DEF getNodeStatusReport, NoReport, Known

LEMMA VerdictIsRight ==
  ASSUME Members # {}, ~External, OneCluster, NEW n \in Node \ Members, phase[n] # "joining"
  PROVE  LET latest == [nodes |-> Members, of |-> [m \in Node |-> getNodeStatusReport(m)]] IN
         isBootstrapPreconditionSatisfied(latest, n) <=> HealthyFor(n)
<1> DEFINE latest == [nodes |-> Members, of |-> [m \in Node |-> getNodeStatusReport(m)]]
           hosts == Members \cup UNION {getNodeStatusReport(m).hosts : m \in Members}
<1>1. Members \subseteq Node /\ Members \ {n} = Members
  BY DEF Members
<1>2. latest.nodes = Members /\ \A m \in Node : latest.of[m] = getNodeStatusReport(m)
  OBVIOUS
<1>3. UNION {latest.of[m].hosts : m \in Members} = UNION {getNodeStatusReport(m).hosts : m \in Members}
  BY <1>1, <1>2
<1>4. isBootstrapPreconditionSatisfied(latest, n) <=>
        \A h \in hosts : h \in Members /\ \A o \in hosts : o \in getNodeStatusReport(h).up
  BY <1>1, <1>2, <1>3 DEF isBootstrapPreconditionSatisfied
<1>5. ASSUME \A h \in hosts : h \in Members /\ \A o \in hosts : o \in getNodeStatusReport(h).up
      PROVE  HealthyFor(n)
  <2>1. \A m \in Members : phase[m] = "up"
    BY <1>1, <1>5, ReportSees
  <2>2. ASSUME NEW k \in Node, phase[k] = "joining" PROVE FALSE
    <3>1. PICK m \in Members : TRUE
      OBVIOUS
    <3>2. k \in getNodeStatusReport(m).hosts
      BY <1>1, <2>1, <2>2, ReportSees
    <3>3. k \in hosts
      BY <3>2
    <3> QED
      BY <1>5, <2>1, <2>2, <3>3
  <2> QED
    BY <2>1, <2>2 DEF HealthyFor
<1>6. ASSUME HealthyFor(n)
      PROVE  \A h \in hosts : h \in Members /\ \A o \in hosts : o \in getNodeStatusReport(h).up
  <2>1. /\ \A m \in Members : phase[m] = "up"
        /\ \A m \in Node : phase[m] # "joining"
    BY <1>1, <1>6 DEF HealthyFor
  <2>2. \A m \in Members : getNodeStatusReport(m).hosts = Members
    BY <1>1, <2>1, ReportSees DEF Members, OneCluster
  <2>3. hosts = Members
    BY <2>2
  <2>4. \A m \in Members : getNodeStatusReport(m).up = Members
    BY <1>1, <2>1, <2>2, ReportSees
  <2> QED
    BY <2>3, <2>4
<1> QED
  BY <1>4, <1>5, <1>6

\* In every state the verdict of isBootstrapPreconditionSatisfied on up-to-date reports
\* is the right one: a new node passes the barrier exactly if no other node is down and
\* none is joining, for every number of nodes.
THEOREM BarrierIsExact == BootstrapSpec => []PreconditionIsExact
<1>1. PreconditionIsExact
  BY VerdictIsRight DEF PreconditionIsExact
<1> QED
  BY <1>1, PTL

-----------------------------------------------------------------------------
(* Types. *)

\* Ranks are natural numbers, so there is always a first candidate.
LEMMA FirstIsThere ==
  ASSUME NEW S \in SUBSET Node, S # {}
  PROVE  FirstRanked(S) \in S /\ \A m \in S : FirstRanked(S) <= m
<1>1. S \subseteq Nat
  BY BootstrapAssumption DEF Node
<1>2. \E x \in S : \A y \in S : ~(<<y, x>> \in OpToRel(<, Nat))
  BY <1>1, NatLessThanWellFounded, WFMin
<1>3. PICK x \in S : \A y \in S : ~(<<y, x>> \in OpToRel(<, Nat))
  BY <1>2
<1>4. OpToRel(<, Nat) = {p \in Nat \X Nat : p[1] < p[2]}
  BY Zenon DEF OpToRel
<1>5. \A y \in S : ~(<<y, x>> \in {p \in Nat \X Nat : p[1] < p[2]})
  BY <1>3, <1>4, Zenon
<1>6. \A y \in S : x <= y
  <2> TAKE y \in S
  <2>1. y \in Nat /\ x \in Nat
    BY <1>1
  <2>2. ~(<<y, x>>[1] < <<y, x>>[2])
    BY <2>1, <1>5
  <2> QED
    BY <2>1, <2>2
<1> QED
  BY <1>6 DEF FirstRanked

LEMMA SeedsAreNodes ==
  ASSUME BootstrapTypeOK, NEW n \in Node, HasPod(n)
  PROVE  /\ setupEntrypoint(n) \subseteq Node \cup ExternalSeeds
         /\ ExternalSeeds \subseteq setupEntrypoint(n)
<1>1. getDCSeedCandidates \in SUBSET Node /\ n \in getDCSeedCandidates
  BY DEF getDCSeedCandidates
<1>2. FirstRanked(getDCSeedCandidates) \in Node
  BY <1>1, FirstIsThere
<1>3. ReadySeeds(n) \subseteq Node
  BY <1>1 DEF ReadySeeds
<1>4. FallbackSeeds(n) \subseteq Node \cup ExternalSeeds /\ ExternalSeeds \subseteq FallbackSeeds(n)
  BY <1>2 DEF FallbackSeeds
<1> QED
  BY <1>3, <1>4 DEF setupEntrypoint, GetSeeds

LEMMA SeedTypes == Node \cup ExternalSeeds \subseteq 1..(N + 1) /\ N \in Nat
BY BootstrapAssumption DEF Node, ExternalSeeds, ExternalCluster

LEMMA ReportTypes ==
  ASSUME BootstrapTypeOK
  PROVE  /\ NoReport \in Reports
         /\ \A n \in Node : getNodeStatusReport(n) \in Reports /\ makeNodeStatusReport(n) \in Reports
         /\ makeScyllaDBDatacenterNodesStatusReport \in [nodes : SUBSET Node, of : [Node -> Reports]]
<1>1. NoReport \in Reports
  BY DEF NoReport, Reports
<1>2. \A n \in Node : getNodeStatusReport(n) \in Reports /\ makeNodeStatusReport(n) \in Reports
  BY <1>1 DEF getNodeStatusReport, makeNodeStatusReport, Reports, Known, BootstrapTypeOK
<1>3. [n \in Node |-> IF n \in joined THEN makeNodeStatusReport(n) ELSE NoReport] \in [Node -> Reports]
  BY <1>1, <1>2
<1> QED
  BY <1>1, <1>2, <1>3 DEF makeScyllaDBDatacenterNodesStatusReport, BootstrapTypeOK

LEMMA ClusterTypes ==
  ASSUME BootstrapTypeOK, NEW s \in 1..(N + 1)
  PROVE  ClusterOf(s) \in 0..(N + 1)
BY BootstrapAssumption DEF BootstrapTypeOK, ClusterOf, Node, ExternalCluster, NoCluster

LEMMA TypeInitially == BootstrapInit => BootstrapTypeOK
<1> SUFFICES ASSUME BootstrapInit PROVE BootstrapTypeOK
  OBVIOUS
<1>1. NoReport \in Reports
  BY DEF NoReport, Reports
<1> QED
  BY <1>1, BootstrapAssumption DEF BootstrapInit, BootstrapTypeOK, Phases, NoCluster

LEMMA TypeStep ==
  ASSUME BootstrapTypeOK, [BootstrapNext]_bootstrapVars
  PROVE  BootstrapTypeOK'
<1>1. CASE UNCHANGED bootstrapVars
  BY <1>1 DEF bootstrapVars, BootstrapTypeOK
<1>2. ASSUME NEW n \in Node,
             PassBarrier(n) \/ RestartNode(n) \/ JoinCluster(n) \/ CreatePod(n) \/ SyncAnnotations(n)
      PROVE  BootstrapTypeOK'
  BY <1>2 DEF PassBarrier, RestartNode, JoinCluster, CreatePod, SyncAnnotations, BootstrapTypeOK, Phases
<1>3. ASSUME NEW n \in Node, RunSidecar(n) PROVE BootstrapTypeOK'
  <2>1. setupEntrypoint(n) \in SUBSET (1..(N + 1))
    BY <1>3, SeedsAreNodes, SeedTypes DEF RunSidecar, HasPod
  <2> QED
    BY <1>3, <2>1 DEF RunSidecar, BootstrapTypeOK, Phases
<1>4. ASSUME NEW n \in Node, FoundCluster(n) PROVE BootstrapTypeOK'
  <2>1. n \in 0..(N + 1)
    BY BootstrapAssumption DEF Node
  <2> QED
    BY <1>4, <2>1 DEF FoundCluster, BootstrapTypeOK, Phases
<1>5. ASSUME NEW n \in Node, FinishJoin(n) PROVE BootstrapTypeOK'
  <2>1. PICK s \in seeds[n] \ {n} : cluster' = [cluster EXCEPT ![n] = ClusterOf(s)]
    BY <1>5 DEF FinishJoin
  <2>2. ClusterOf(s) \in 0..(N + 1)
    BY <2>1, ClusterTypes DEF BootstrapTypeOK
  <2> QED
    BY <1>5, <2>1, <2>2 DEF FinishJoin, BootstrapTypeOK, Phases
<1>6. ASSUME NEW n \in Node, RestartContainer(n) \/ DeletePod(n) PROVE BootstrapTypeOK'
  <2>1. faults' \in [restarts : 0..MaxDisruptions, deletions : 0..MaxDisruptions]
    BY <1>6, BootstrapAssumption DEF RestartContainer, DeletePod, CanFail, BootstrapTypeOK
  <2> QED
    BY <1>6, <2>1, ReportTypes DEF RestartContainer, DeletePod, BootstrapTypeOK, Phases
<1>7. ASSUME NEW n \in Node, ReportStatus(n) PROVE BootstrapTypeOK'
  BY <1>7, ReportTypes DEF ReportStatus, BootstrapTypeOK
<1>8. ASSUME PublishReport PROVE BootstrapTypeOK'
  BY <1>8, ReportTypes DEF PublishReport, BootstrapTypeOK
<1> QED
  BY <1>1, <1>2, <1>3, <1>4, <1>5, <1>6, <1>7, <1>8 DEF BootstrapNext

\* Every state is well typed, in every mode: above all there is a first candidate
\* whenever GetSeeds falls back to it.
THEOREM BootstrapTypeCorrect == BootstrapSpec => []BootstrapTypeOK
BY TypeInitially, TypeStep, PTL DEF BootstrapSpec

-----------------------------------------------------------------------------
(* One cluster. *)

\* The cluster that everyone is to be in.
Home == IF External THEN ExternalCluster ELSE 1

\* Pods come one after the other, each when the nodes before it are in the cluster, and
\* while no Pod is deleted they stay.
PodsInOrder ==
  \A n \in Node :
    /\ cluster[n] # NoCluster => HasPod(n)
    /\ HasPod(n) => \A m \in Node : m < n => HasPod(m) /\ cluster[m] # NoCluster

\* Every node that has data is in the home cluster.  A node that is starting has the
\* external seeds or, without these, only nodes, and is its own only seed if it is the first.
InHome ==
  \A n \in Node :
    /\ cluster[n] \in {NoCluster, Home}
    /\ phase[n] = "up" => cluster[n] # NoCluster
    /\ phase[n] \in {"seeded", "joining"} =>
         /\ ExternalSeeds \subseteq seeds[n] /\ seeds[n] \subseteq Node \cup ExternalSeeds
         /\ seeds[n] = {n} /\ cluster[n] = NoCluster => n = 1

\* Pods may only come in any order, or be deleted, where there is an external cluster.
HInv == BootstrapTypeOK /\ InHome /\ (External \/ PodsInOrder)
BootstrapIInv == BootstrapTypeOK /\ (External \/ faults.deletions = 0 => HInv)

LEMMA HInitially == BootstrapInit => HInv
<1> SUFFICES ASSUME BootstrapInit PROVE HInv
  OBVIOUS
<1>1. BootstrapTypeOK
  BY TypeInitially
<1>2. InHome
  BY DEF BootstrapInit, InHome
<1>3. PodsInOrder
  BY DEF BootstrapInit, PodsInOrder, HasPod
<1> QED
  BY <1>1, <1>2, <1>3 DEF HInv

LEMMA HomeIs == Home # NoCluster /\ ExternalCluster \notin Node /\ NoCluster \notin Node /\ N \in Nat
BY BootstrapAssumption DEF Home, NoCluster, ExternalCluster, Node

\* The seed that a node falls back to is the first one when Pods come in order.
LEMMA FoundsOnlyFirst ==
  ASSUME BootstrapTypeOK, PodsInOrder, ~External, NEW n \in Node, HasPod(n), setupEntrypoint(n) = {n}
  PROVE  n = 1
<1>1. getDCSeedCandidates \in SUBSET Node /\ n \in getDCSeedCandidates
  BY DEF getDCSeedCandidates
<1>2. 1 \in Node /\ n >= 1
  BY BootstrapAssumption DEF Node
<1>3. 1 \in getDCSeedCandidates
  BY <1>1, <1>2 DEF getDCSeedCandidates, PodsInOrder, Node
<1>4. FirstRanked(getDCSeedCandidates) \in Node /\ FirstRanked(getDCSeedCandidates) <= 1
  BY <1>1, <1>3, FirstIsThere
<1>5. FirstRanked(getDCSeedCandidates) = 1
  BY <1>4, BootstrapAssumption DEF Node
<1>6. n \notin ReadySeeds(n)
  BY DEF ReadySeeds
<1>7. setupEntrypoint(n) = FallbackSeeds(n)
  BY <1>6 DEF setupEntrypoint, GetSeeds, ExternalSeeds
<1> QED
  BY <1>5, <1>7 DEF FallbackSeeds, ExternalSeeds

LEMMA JoinsHome ==
  ASSUME HInv, NEW n \in Node, phase[n] \in {"seeded", "joining"}, NEW s \in seeds[n], ClusterOf(s) # NoCluster
  PROVE  ClusterOf(s) = Home
<1>1. s \in Node \cup ExternalSeeds /\ BootstrapTypeOK
  BY DEF HInv, InHome
<1>2. CASE s \in Node
  BY <1>2, HomeIs DEF HInv, InHome, ClusterOf
<1>3. CASE s \in ExternalSeeds
  BY <1>3 DEF ClusterOf, ExternalSeeds, Home
<1> QED
  BY <1>1, <1>2, <1>3

LEMMA HStep ==
  ASSUME External \/ ~Parallel, HInv, [BootstrapNext]_bootstrapVars, External \/ faults'.deletions = 0
  PROVE  HInv'
<1>t. BootstrapTypeOK /\ InHome /\ BootstrapTypeOK' /\ (External \/ PodsInOrder)
  BY TypeStep DEF HInv
<1>1. CASE UNCHANGED bootstrapVars
  BY <1>1, <1>t DEF bootstrapVars, HInv, InHome, PodsInOrder, HasPod
<1>2. ASSUME NEW n \in Node, PassBarrier(n) \/ RestartNode(n) \/ JoinCluster(n) \/ RestartContainer(n)
      PROVE  HInv'
  <2>1. UNCHANGED <<cluster, seeds>> /\ phase[n] # "absent"
    BY <1>2 DEF PassBarrier, RestartNode, JoinCluster, RestartContainer
  <2>2. \A m \in Node \ {n} : phase'[m] = phase[m]
    BY <1>2, <1>t DEF PassBarrier, RestartNode, JoinCluster, RestartContainer, BootstrapTypeOK
  <2>3. /\ phase'[n] # "absent"
        /\ phase'[n] = "up" => cluster[n] # NoCluster
        /\ phase'[n] \in {"seeded", "joining"} => phase[n] \in {"seeded", "joining"}
    BY <1>2, <1>t DEF PassBarrier, RestartNode, JoinCluster, RestartContainer, BootstrapTypeOK
  <2>4. InHome'
    BY <1>t, <2>1, <2>2, <2>3 DEF InHome
  <2>5. PodsInOrder => PodsInOrder'
    BY <2>1, <2>2, <2>3 DEF PodsInOrder, HasPod
  <2> QED
    BY <1>t, <2>4, <2>5 DEF HInv
<1>3. ASSUME NEW n \in Node, RunSidecar(n) PROVE HInv'
  <2>1. /\ phase[n] = "main" /\ phase' = [phase EXCEPT ![n] = "seeded"] /\ cluster' = cluster
        /\ seeds' = [seeds EXCEPT ![n] = setupEntrypoint(n)] /\ HasPod(n)
    BY <1>3 DEF RunSidecar, HasPod
  <2>2. /\ setupEntrypoint(n) \subseteq Node \cup ExternalSeeds
        /\ ExternalSeeds \subseteq setupEntrypoint(n)
    BY <1>t, <2>1, SeedsAreNodes
  <2>3. setupEntrypoint(n) = {n} => n = 1
    <3>1. CASE External
      BY <2>2, <3>1, HomeIs DEF ExternalSeeds
    <3>2. CASE ~External
      BY <1>t, <2>1, <3>2, FoundsOnlyFirst
    <3> QED
      BY <3>1, <3>2
  <2>4. /\ seeds'[n] = setupEntrypoint(n) /\ phase'[n] = "seeded"
        /\ \A m \in Node \ {n} : seeds'[m] = seeds[m] /\ phase'[m] = phase[m]
    BY <1>t, <2>1 DEF BootstrapTypeOK
  <2>5. InHome'
    BY <1>t, <2>1, <2>2, <2>3, <2>4 DEF InHome
  <2>6. PodsInOrder => PodsInOrder'
    BY <2>1, <2>4 DEF PodsInOrder, HasPod
  <2> QED
    BY <1>t, <2>5, <2>6 DEF HInv
<1>4. ASSUME NEW n \in Node, FoundCluster(n) \/ FinishJoin(n) PROVE HInv'
  <2>1. /\ phase[n] \in {"seeded", "joining"} /\ phase' = [phase EXCEPT ![n] = "up"] /\ seeds' = seeds
    BY <1>4 DEF FoundCluster, FinishJoin
  <2>2. cluster' = [cluster EXCEPT ![n] = Home]
    <3>1. CASE FoundCluster(n)
      <4>1. n = 1 /\ seeds[n] = {n} /\ ExternalSeeds \subseteq seeds[n]
        BY <1>t, <3>1 DEF FoundCluster, InHome
      <4>2. ~External
        BY <4>1, HomeIs DEF ExternalSeeds
      <4> QED
        BY <3>1, <4>1, <4>2 DEF FoundCluster, Home
    <3>2. CASE FinishJoin(n)
      <4>1. PICK s \in seeds[n] \ {n} : ClusterOf(s) # NoCluster /\ cluster' = [cluster EXCEPT ![n] = ClusterOf(s)]
        BY <3>2 DEF FinishJoin
      <4> QED
        BY <2>1, <4>1, JoinsHome
    <3> QED
      BY <1>4, <3>1, <3>2
  <2>3. /\ cluster'[n] = Home /\ phase'[n] = "up"
        /\ \A m \in Node \ {n} : cluster'[m] = cluster[m] /\ phase'[m] = phase[m]
    BY <1>t, <2>1, <2>2 DEF BootstrapTypeOK
  <2>4. InHome'
    BY <1>t, <2>1, <2>3, HomeIs DEF InHome
  <2>5. PodsInOrder => PodsInOrder'
    BY <2>1, <2>3, HomeIs DEF PodsInOrder, HasPod
  <2> QED
    BY <1>t, <2>4, <2>5 DEF HInv
<1>5. ASSUME NEW n \in Node, CreatePod(n) PROVE HInv'
  <2>1. /\ phase[n] = "absent" /\ phase' = [phase EXCEPT ![n] = "init"] /\ UNCHANGED <<cluster, seeds>>
    BY <1>5 DEF CreatePod
  <2>2. phase'[n] = "init" /\ \A m \in Node \ {n} : phase'[m] = phase[m]
    BY <1>t, <2>1 DEF BootstrapTypeOK
  <2>3. InHome'
    BY <1>t, <2>1, <2>2 DEF InHome
  <2>4. External \/ PodsInOrder'
    <3> SUFFICES ASSUME ~External PROVE PodsInOrder'
      OBVIOUS
    <3>1. PodsInOrder /\ ~Parallel
      BY <1>t
    <3>2. cluster[n] = NoCluster
      BY <3>1, <2>1 DEF PodsInOrder, HasPod
    <3>3. \A m \in Node : m < n => phase[m] = "up"
      BY <1>5, <3>1, <3>2 DEF CreatePod, IsPodReady
    <3>4. \A m \in Node : m < n => HasPod(m)' /\ cluster[m] # NoCluster
      BY <1>t, <2>1, <2>2, <3>3 DEF HasPod, InHome
    <3> QED
      BY <2>1, <2>2, <3>1, <3>4 DEF PodsInOrder, HasPod
  <2> QED
    BY <1>t, <2>3, <2>4 DEF HInv
<1>6. ASSUME NEW n \in Node, DeletePod(n) PROVE HInv'
  <2>1. faults'.deletions # 0
    BY <1>6, <1>t, BootstrapAssumption DEF DeletePod, BootstrapTypeOK
  <2>2. phase' = [phase EXCEPT ![n] = "absent"] /\ UNCHANGED <<cluster, seeds>>
    BY <1>6 DEF DeletePod
  <2>3. phase'[n] = "absent" /\ \A m \in Node \ {n} : phase'[m] = phase[m]
    BY <1>t, <2>2 DEF BootstrapTypeOK
  <2>4. InHome'
    BY <1>t, <2>2, <2>3 DEF InHome
  <2> QED
    BY <1>t, <2>1, <2>4 DEF HInv
<1>7. ASSUME UNCHANGED <<phase, cluster, seeds>> PROVE HInv'
  BY <1>7, <1>t DEF HInv, InHome, PodsInOrder, HasPod
<1>8. ASSUME PublishReport \/ \E n \in Node : SyncAnnotations(n) \/ ReportStatus(n) PROVE HInv'
  BY <1>7, <1>8 DEF PublishReport, SyncAnnotations, ReportStatus
<1> QED
  BY <1>1, <1>2, <1>3, <1>4, <1>5, <1>6, <1>8 DEF BootstrapNext

LEMMA BootstrapInvariance ==
  ASSUME External \/ ~Parallel
  PROVE  BootstrapSpec => []BootstrapIInv
<1>1. BootstrapInit => BootstrapIInv
  BY HInitially DEF BootstrapIInv, HInv
<1>2. BootstrapIInv /\ [BootstrapNext]_bootstrapVars => BootstrapIInv'
  <2> SUFFICES ASSUME BootstrapIInv, [BootstrapNext]_bootstrapVars PROVE BootstrapIInv'
    OBVIOUS
  <2>1. BootstrapTypeOK'
    BY TypeStep DEF BootstrapIInv
  <2>2. faults'.deletions = 0 => faults.deletions = 0
    <3>1. faults' = faults \/ \E n \in Node : RestartContainer(n) \/ DeletePod(n)
      BY DEF BootstrapNext, bootstrapVars, PassBarrier, RunSidecar, RestartNode, FoundCluster, JoinCluster, FinishJoin,
         CreatePod, SyncAnnotations, ReportStatus, PublishReport
    <3> QED
      BY <3>1, BootstrapAssumption DEF RestartContainer, DeletePod, BootstrapIInv, BootstrapTypeOK
  <2> QED
    BY <2>1, <2>2, HStep DEF BootstrapIInv
<1> QED
  BY <1>1, <1>2, PTL DEF BootstrapSpec

\* Without parallel node operations, or with external seeds, the nodes never found or
\* join different clusters while no Pod is deleted, whatever containers restart and
\* however old the reports: for every number of nodes and racks (GetSeeds,
\* selectDCSeedCandidates, fallBackWithDistinguishedCandidate).
THEOREM OneClusterFormed ==
  ASSUME External \/ ~Parallel
  PROVE  BootstrapSpec => []OneClusterWhilePodsStay
<1>1. BootstrapIInv => OneClusterWhilePodsStay
  BY DEF BootstrapIInv, HInv, InHome, OneClusterWhilePodsStay, OneCluster, Members
<1> QED
  BY <1>1, BootstrapInvariance, PTL

\* With external seeds there is one cluster even when Pods are deleted, with and without
\* parallel node operations: no node is ever left with itself as its only seed.
THEOREM ExternalClusterJoined ==
  ASSUME External
  PROVE  BootstrapSpec => []OneCluster
<1>1. BootstrapIInv => OneCluster
  BY DEF BootstrapIInv, HInv, InHome, OneCluster, Members
<1> QED
  BY <1>1, BootstrapInvariance, PTL

-----------------------------------------------------------------------------
(* Cleanup after a change of the ring. *)

\* A node that holds the data of members x in each keyspace is clean for a hash of
\* one of the rings there were: it holds no data of the members of that ring.
\* (r are all members there ever were.)  Members never come back, and so once clean
\* for a hash a node stays clean for it.
CleanFor(r, x, h) == h \subseteq r \cup {0} /\ \A k \in Keyspace : x[k] \cap h = {}

\* What a copy of a node's Service and Job says is true: the mark and the hash of
\* a completed Job are ones the node is clean for.
ViewFor(r, x, s, j) ==
  /\ s.cur \subseteq r /\ j.hash \subseteq r
  /\ CleanFor(r, x, s.last)
  /\ j.complete => CleanFor(r, x, j.hash)

\* The Pod of a Job has cleaned the keyspaces it is through with.
PodFor(x, j, p) ==
  ~p.failed => \A k \in Keyspace \ p.todo : x[k] \cap j.hash = {}

\* The Service and the Job are such copies, and so are the ones in the cache and
\* in the snapshot of the sync, however old.
ViewsTrue ==
  LET r == ring \cup gone IN
  \A n \in Resident : /\ ViewFor(r, extra[n], service[n], job[n])
                      /\ ViewFor(r, extra[n], cached.svc[n], cached.job[n])
                      /\ ViewFor(r, extra[n], listed.svc[n], listed.job[n])
                      /\ PodFor(extra[n], job[n], jobPod[n])

\* A node holds only data of members.
ExtraOfMembers == \A n \in Resident, k \in Keyspace : extra[n][k] \subseteq ring

CleanupIInv == CleanupTypeOK /\ ViewsTrue /\ ExtraOfMembers

USE DEF scylla, api, syncState

LEMMA MemberSets ==
  /\ 1 \in Resident /\ Resident \subseteq Nat \ {0} /\ Guest \subseteq Nat \ {0}
  /\ 0 \notin Member /\ Resident \subseteq Member /\ Guest \subseteq Member
  BY CleanupAssumption DEF Resident, Guest, Member

LEMMA HashTypes ==
  /\ Missing \in Hashes /\ NeverCleanedUp \in Hashes
  /\ \A h \in SUBSET Member : h \in Hashes
  BY DEF Hashes, Missing, NeverCleanedUp

LEMMA JobTypes ==
  /\ NoJob \in Jobs
  /\ \A h \in Hashes : NewJob(h) \in Jobs
  /\ NoJobPod \in [todo : SUBSET Keyspace, failed : BOOLEAN]
  /\ NewPod \in [todo : SUBSET Keyspace, failed : BOOLEAN]
  BY HashTypes DEF NoJob, NewJob, Jobs, NoJobPod, NewPod

LEMMA RecordUpdates ==
  /\ \A s \in MemberServices, h \in Hashes :
       /\ [s EXCEPT !.last = h] \in MemberServices
       /\ [s EXCEPT !.last = h].cur = s.cur /\ [s EXCEPT !.last = h].last = h
       /\ [s EXCEPT !.cur = h] \in MemberServices
       /\ [s EXCEPT !.cur = h].cur = h /\ [s EXCEPT !.cur = h].last = s.last
  /\ \A j \in Jobs :
       /\ [j EXCEPT !.complete = TRUE] \in Jobs
       /\ [j EXCEPT !.complete = TRUE].hash = j.hash
  BY DEF MemberServices, Jobs

LEMMA SnapType ==
  NoSnap \in [svc : [Resident -> MemberServices], job : [Resident -> Jobs], known : BOOLEAN, ready : BOOLEAN]
  BY HashTypes, JobTypes DEF NoSnap, MemberServices

LEMMA FaultType == ASSUME CleanupTypeOK, Fault PROVE failures' \in 0..MaxFailures
  BY CleanupAssumption DEF CleanupTypeOK, Fault

LEMMA StoreType ==
  ASSUME CleanupTypeOK, NEW n \in Resident, NEW j \in Jobs,
         NEW p \in [todo : SUBSET Keyspace, failed : BOOLEAN], Store(n, j, p)
  PROVE job' \in [Resident -> Jobs] /\ jobPod' \in [Resident -> [todo : SUBSET Keyspace, failed : BOOLEAN]]
  BY DEF CleanupTypeOK, Store

LEMMA FailedType ==
  ASSUME CleanupTypeOK, NEW n \in Resident, NEW stage \in {"services", "jobs"}, Failed(stage, n)
  PROVE errs' \subseteq {"services", "jobs"} /\ left' \subseteq Resident
  BY DEF CleanupTypeOK, Failed

\* What a step of the Pod does to the Pod.
LEMMA CleanupStep ==
  ASSUME CleanupTypeOK, NEW n \in Resident, NEW k \in Keyspace, Cleanup(n, k)
  PROVE \E p \in [todo : SUBSET Keyspace, failed : BOOLEAN] :
          /\ p.todo = jobPod[n].todo \ {k}
          /\ jobPod' = [jobPod EXCEPT ![n] = p]
          /\ \/ p.failed = jobPod[n].failed /\ extra' = [extra EXCEPT ![n] = [extra[n] EXCEPT ![k] = {}]]
             \/ p.failed /\ extra' = extra
<1> DEFINE q == [jobPod[n] EXCEPT !.todo = @ \ {k}]
           f == [jobPod[n] EXCEPT !.todo = @ \ {k}, !.failed = TRUE]
<1>1. /\ q \in [todo : SUBSET Keyspace, failed : BOOLEAN] /\ f \in [todo : SUBSET Keyspace, failed : BOOLEAN]
      /\ q.todo = jobPod[n].todo \ {k} /\ f.todo = jobPod[n].todo \ {k}
      /\ q.failed = jobPod[n].failed /\ f.failed
  BY DEF CleanupTypeOK
<1>2. \/ jobPod' = [jobPod EXCEPT ![n] = q] /\ extra' = [extra EXCEPT ![n] = [extra[n] EXCEPT ![k] = {}]]
      \/ jobPod' = [jobPod EXCEPT ![n] = f] /\ extra' = extra
  BY DEF Cleanup, CleanupTypeOK
<1> QED BY <1>1, <1>2

LEMMA TypeInit == ASSUME CleanupInit PROVE CleanupTypeOK
<1>1. service \in [Resident -> MemberServices] /\ job \in [Resident -> Jobs]
  BY HashTypes, JobTypes DEF CleanupInit, MemberServices
<1>2. ring \subseteq Member
  BY MemberSets DEF CleanupInit
<1>3. failures \in 0..MaxFailures
  BY CleanupAssumption DEF CleanupInit
<1>4. extra \in [Resident -> [Keyspace -> SUBSET Member]]
  BY DEF CleanupInit
<1>5. jobPod \in [Resident -> [todo : SUBSET Keyspace, failed : BOOLEAN]]
  BY JobTypes DEF CleanupInit
<1>6. listed \in [svc : [Resident -> MemberServices], job : [Resident -> Jobs], known : BOOLEAN, ready : BOOLEAN]
  BY SnapType DEF CleanupInit
<1> QED BY <1>1, <1>2, <1>3, <1>4, <1>5, <1>6 DEF CleanupInit, CleanupTypeOK

LEMMA CleanupTypeNext == ASSUME CleanupTypeOK, [CleanupNext]_cleanupVars PROVE CleanupTypeOK'
<1>1. CASE StartSync
  BY <1>1 DEF StartSync, CleanupTypeOK
<1>2. CASE EndServices
  BY <1>2 DEF EndServices, CleanupTypeOK
<1>3. CASE EndPrune
  BY <1>3 DEF EndPrune, CleanupTypeOK
<1>4. CASE EndSync
  BY <1>4, SnapType DEF EndSync, CleanupTypeOK
<1>5. CASE Crash
  BY <1>5, SnapType, FaultType DEF Crash, CleanupTypeOK
<1>6. ASSUME NEW m \in Member, Join(m) PROVE CleanupTypeOK'
  <2>1. extra' \in [Resident -> [Keyspace -> SUBSET Member]]
    BY <1>6 DEF Join, CleanupTypeOK
  <2> QED BY <1>6, <2>1 DEF Join, CleanupTypeOK
<1>7. ASSUME NEW m \in Guest, Leave(m) PROVE CleanupTypeOK'
  <2>1. extra' \in [Resident -> [Keyspace -> SUBSET Member]]
    BY <1>7 DEF Leave, CleanupTypeOK
  <2> QED BY <1>7, <2>1 DEF Leave, CleanupTypeOK
<1>8. ASSUME NEW m \in Guest, Settle(m) PROVE CleanupTypeOK'
  BY <1>8 DEF Settle, CleanupTypeOK
<1>9. ASSUME NEW n \in Resident, ApplyService(n) PROVE CleanupTypeOK'
  <2>1. LastCleanedUp(n) \in Hashes
    BY DEF LastCleanedUp, CleanupTypeOK, MemberServices, Jobs
  <2>2. service' \in [Resident -> MemberServices]
    <3>1. [service[n] EXCEPT !.last = LastCleanedUp(n)] \in MemberServices
      BY <2>1, RecordUpdates DEF CleanupTypeOK
    <3>2. service' = service \/ service' = [service EXCEPT ![n] = [service[n] EXCEPT !.last = LastCleanedUp(n)]]
      BY <1>9 DEF ApplyService
    <3> QED BY <3>1, <3>2 DEF CleanupTypeOK
  <2>3. errs' \subseteq {"services", "jobs"} /\ left' \subseteq Resident
    BY <1>9, FailedType DEF ApplyService, Done, CleanupTypeOK
  <2> QED BY <1>9, <2>2, <2>3 DEF ApplyService, CleanupTypeOK
<1>10. ASSUME NEW n \in Resident, PruneJob(n) PROVE CleanupTypeOK'
  <2>1. errs' \subseteq {"services", "jobs"} /\ left' \subseteq Resident
    BY <1>10, FailedType DEF PruneJob, Done, CleanupTypeOK
  <2> QED BY <1>10, <2>1, StoreType, JobTypes DEF PruneJob, CleanupTypeOK
<1>11. ASSUME NEW n \in Resident, ApplyJob(n) PROVE CleanupTypeOK'
  <2>1. errs' \subseteq {"services", "jobs"} /\ left' \subseteq Resident
    BY <1>11, FailedType DEF ApplyJob, Done, CleanupTypeOK
  <2>2. NewJob(listed.svc[n].cur) \in Jobs
    BY JobTypes DEF CleanupTypeOK, MemberServices
  <2> QED BY <1>11, <2>1, <2>2, StoreType, JobTypes DEF ApplyJob, Reapply, CleanupTypeOK
<1>12. ASSUME NEW n \in Resident, syncAnnotations(n) PROVE CleanupTypeOK'
  <2>1. service' \in [Resident -> MemberServices]
    BY <1>12, HashTypes, ZenonT(60) DEF syncAnnotations, CleanupTypeOK, MemberServices
  <2> QED BY <1>12, <2>1 DEF syncAnnotations, CleanupTypeOK
<1>13. ASSUME NEW n \in Resident, Exit(n) PROVE CleanupTypeOK'
  <2>1. [job[n] EXCEPT !.complete = TRUE] \in Jobs
    BY RecordUpdates DEF CleanupTypeOK
  <2>2. job' = job \/ job' = [job EXCEPT ![n] = [job[n] EXCEPT !.complete = TRUE]]
    BY <1>13 DEF Exit
  <2>3. job' \in [Resident -> Jobs]
    BY <2>1, <2>2 DEF CleanupTypeOK
  <2>4. jobPod' \in [Resident -> [todo : SUBSET Keyspace, failed : BOOLEAN]]
    BY <1>13, JobTypes DEF Exit, CleanupTypeOK
  <2> QED BY <1>13, <2>3, <2>4 DEF Exit, CleanupTypeOK
<1>14. ASSUME NEW n \in Resident, NEW k \in Keyspace, Cleanup(n, k) PROVE CleanupTypeOK'
  <2>1. extra' \in [Resident -> [Keyspace -> SUBSET Member]]
    <3>1. [extra[n] EXCEPT ![k] = {}] \in [Keyspace -> SUBSET Member]
      BY DEF CleanupTypeOK
    <3>2. extra' = extra \/ extra' = [extra EXCEPT ![n] = [extra[n] EXCEPT ![k] = {}]]
      BY <1>14 DEF Cleanup
    <3> QED BY <3>1, <3>2 DEF CleanupTypeOK
  <2>2. jobPod' \in [Resident -> [todo : SUBSET Keyspace, failed : BOOLEAN]]
    BY <1>14, CleanupStep, ZenonT(60) DEF CleanupTypeOK
  <2> QED BY <1>14, <2>1, <2>2, FaultType DEF Cleanup, CleanupTypeOK
<1>15. ASSUME NEW n \in Resident, LosePod(n) PROVE CleanupTypeOK'
  BY <1>15, JobTypes, FaultType DEF LosePod, CleanupTypeOK
<1>16. ASSUME NEW n \in Resident, DeleteJob(n) PROVE CleanupTypeOK'
  BY <1>16, StoreType, JobTypes, FaultType DEF DeleteJob, CleanupTypeOK
<1>17. ASSUME NEW n \in Resident, ObserveService(n) PROVE CleanupTypeOK'
  BY <1>17 DEF ObserveService, CleanupTypeOK
<1>18. ASSUME NEW n \in Resident, ObserveJob(n) PROVE CleanupTypeOK'
  BY <1>18 DEF ObserveJob, CleanupTypeOK
<1>19. ASSUME NEW n \in Resident, Refuse(n) PROVE CleanupTypeOK'
  BY <1>19, FailedType, FaultType DEF Refuse, CleanupTypeOK
<1>20. ASSUME NEW n \in Resident, RefuseCreate(n) PROVE CleanupTypeOK'
  BY <1>20, FailedType, FaultType, StoreType, JobTypes DEF RefuseCreate, CleanupTypeOK
<1>21. CASE UNCHANGED cleanupVars
  BY <1>21 DEF cleanupVars, CleanupTypeOK
<1> QED
  BY <1>1, <1>2, <1>3, <1>4, <1>5, <1>6, <1>7, <1>8, <1>9, <1>10, <1>11, <1>12, <1>13, <1>14,
     <1>15, <1>16, <1>17, <1>18, <1>19, <1>20, <1>21 DEF CleanupNext, Sync, JobPod

-----------------------------------------------------------------------------
(* The views stay true. *)

\* A node that stays clean for a hash: members are only added, and none of those
\* that were there before.
LEMMA CleanStays ==
  ASSUME NEW r, NEW q, NEW x, NEW y, r \subseteq q,
         \A k \in Keyspace : y[k] \cap (r \cup {0}) \subseteq x[k]
  PROVE /\ \A h : CleanFor(r, x, h) => CleanFor(q, y, h)
        /\ \A s, j : ViewFor(r, x, s, j) => ViewFor(q, y, s, j)
        /\ \A j, p : j.hash \subseteq r /\ PodFor(x, j, p) => PodFor(y, j, p)
<1>1. \A h : CleanFor(r, x, h) => CleanFor(q, y, h)
  BY DEF CleanFor
<1>2. \A s, j : ViewFor(r, x, s, j) => ViewFor(q, y, s, j)
  BY <1>1 DEF ViewFor
<1>3. \A j, p : j.hash \subseteq r /\ PodFor(x, j, p) => PodFor(y, j, p)
  BY DEF PodFor
<1> QED BY <1>1, <1>2, <1>3

LEMMA CleanupInitIInv == ASSUME CleanupInit PROVE CleanupIInv
<1>1. CleanupTypeOK
  BY TypeInit
<1>2. ASSUME NEW n \in Resident
      PROVE /\ CleanFor(ring \cup gone, extra[n], Missing)
            /\ CleanFor(ring \cup gone, extra[n], NeverCleanedUp)
  BY MemberSets DEF CleanupInit, CleanFor, Missing, NeverCleanedUp
<1>3. ASSUME NEW n \in Resident
      PROVE /\ service[n].cur = Missing /\ service[n].last = NeverCleanedUp
            /\ job[n] = NoJob /\ jobPod[n] = NoJobPod
            /\ cached.svc[n] = service[n] /\ cached.job[n] = job[n]
            /\ listed.svc[n].cur = Missing /\ listed.svc[n].last = Missing /\ listed.job[n] = NoJob
  BY DEF CleanupInit, NoSnap
<1>4. ViewsTrue
  <2> SUFFICES ASSUME NEW n \in Resident
               PROVE LET r == ring \cup gone IN
                     /\ ViewFor(r, extra[n], service[n], job[n])
                     /\ ViewFor(r, extra[n], cached.svc[n], cached.job[n])
                     /\ ViewFor(r, extra[n], listed.svc[n], listed.job[n])
                     /\ PodFor(extra[n], job[n], jobPod[n])
    BY DEF ViewsTrue
  <2>1. NoJob.hash = {} /\ ~NoJob.complete
    BY DEF NoJob, Missing
  <2>2. PodFor(extra[n], job[n], jobPod[n])
    BY <1>3, <2>1 DEF PodFor
  <2> QED BY <1>2, <1>3, <2>1, <2>2 DEF ViewFor, Missing
<1>5. ExtraOfMembers
  BY DEF CleanupInit, ExtraOfMembers
<1> QED BY <1>1, <1>4, <1>5 DEF CleanupIInv

\* The ring and the data of the nodes.
LEMMA RingSteps ==
  ASSUME CleanupIInv, \/ \E m \in Member : Join(m)
                      \/ \E m \in Guest : Leave(m)
                      \/ \E n \in Resident, k \in Keyspace : Cleanup(n, k)
  PROVE /\ ring \cup gone \subseteq ring' \cup gone'
        /\ \A n \in Resident, k \in Keyspace :
             extra'[n][k] \cap (ring \cup gone \cup {0}) \subseteq extra[n][k]
        /\ ExtraOfMembers'
<1>1. ASSUME NEW m \in Member, Join(m)
      PROVE /\ ring \cup gone \subseteq ring' \cup gone'
            /\ \A n \in Resident, k \in Keyspace :
                 extra'[n][k] \cap (ring \cup gone \cup {0}) \subseteq extra[n][k]
            /\ ExtraOfMembers'
  <2>1. m # 0 /\ m \notin ring \cup gone
    BY <1>1, MemberSets DEF Join
  <2>2. \A n \in Resident, k \in Keyspace :
          extra'[n][k] = IF n \in ring THEN extra[n][k] \cup {m} ELSE {}
    BY <1>1 DEF Join
  <2> QED BY <1>1, <2>1, <2>2 DEF Join, CleanupIInv, ExtraOfMembers
<1>2. ASSUME NEW m \in Guest, Leave(m)
      PROVE /\ ring \cup gone \subseteq ring' \cup gone'
            /\ \A n \in Resident, k \in Keyspace :
                 extra'[n][k] \cap (ring \cup gone \cup {0}) \subseteq extra[n][k]
            /\ ExtraOfMembers'
  <2>1. \A n \in Resident, k \in Keyspace : extra'[n][k] = extra[n][k] \ {m}
    BY <1>2 DEF Leave
  <2> QED BY <1>2, <2>1 DEF Leave, CleanupIInv, ExtraOfMembers
<1>3. ASSUME NEW n \in Resident, NEW k \in Keyspace, Cleanup(n, k)
      PROVE /\ ring \cup gone \subseteq ring' \cup gone'
            /\ \A i \in Resident, j \in Keyspace :
                 extra'[i][j] \cap (ring \cup gone \cup {0}) \subseteq extra[i][j]
            /\ ExtraOfMembers'
  <2>1. \A i \in Resident, j \in Keyspace : extra'[i][j] \subseteq extra[i][j]
    <3>1. extra' = extra \/ extra' = [extra EXCEPT ![n] = [extra[n] EXCEPT ![k] = {}]]
      BY <1>3, CleanupStep DEF CleanupIInv
    <3>2. extra \in [Resident -> [Keyspace -> SUBSET Member]]
      BY DEF CleanupIInv, CleanupTypeOK
    <3>3. \A i \in Resident, j \in Keyspace : extra'[i][j] \in {extra[i][j], {}}
      BY <3>1, <3>2
    <3> QED BY <3>3
  <2>2. ring' = ring /\ gone' = gone
    BY <1>3 DEF Cleanup
  <2> QED BY <2>1, <2>2 DEF CleanupIInv, ExtraOfMembers
<1> QED BY <1>1, <1>2, <1>3

\* A view that is replaced by another one of the same node, or by none.
LEMMA NoViewIsTrue ==
  ASSUME CleanupIInv, NEW n \in Resident
  PROVE /\ ViewFor(ring \cup gone, extra[n], NoSnap.svc[n], NoSnap.job[n])
        /\ \A s \in MemberServices, j \in Jobs :
             ViewFor(ring \cup gone, extra[n], s, j) => ViewFor(ring \cup gone, extra[n], s, NoJob)
        /\ PodFor(extra[n], NoJob, NoJobPod)
  BY DEF NoSnap, ViewFor, CleanFor, PodFor, NoJob, NoJobPod, Missing

LEMMA CleanupStepIInv == ASSUME CleanupIInv, [CleanupNext]_cleanupVars PROVE CleanupIInv'
<1> DEFINE r == ring \cup gone
           True(n, s, j) == ViewFor(r, extra[n], s, j)
<1>0. CleanupTypeOK /\ CleanupTypeOK'
  BY CleanupTypeNext DEF CleanupIInv
<1>a. /\ \A n \in Resident : True(n, service[n], job[n]) /\ True(n, cached.svc[n], cached.job[n])
      /\ \A n \in Resident : True(n, listed.svc[n], listed.job[n]) /\ PodFor(extra[n], job[n], jobPod[n])
  BY DEF CleanupIInv, ViewsTrue
\* The ring or the data changes: the views and the Pods stay.
<1>1. ASSUME \/ \E m \in Member : Join(m)
             \/ \E m \in Guest : Leave(m)
      PROVE CleanupIInv'
  <2>1. UNCHANGED <<service, job, jobPod, cached, listed>>
    BY <1>1 DEF Join, Leave
  <2>2. ASSUME NEW n \in Resident
        PROVE /\ \A s, j : True(n, s, j) => ViewFor(ring' \cup gone', extra'[n], s, j)
              /\ \A j, p : j.hash \subseteq r /\ PodFor(extra[n], j, p) => PodFor(extra'[n], j, p)
    BY <1>1, RingSteps, CleanStays
  <2>3. \A n \in Resident : job[n].hash \subseteq r
    BY <1>a DEF ViewFor
  <2>4. ViewsTrue'
    BY <1>a, <2>1, <2>2, <2>3 DEF ViewsTrue
  <2> QED BY <1>0, <1>1, <2>4, RingSteps DEF CleanupIInv
<1>2. ASSUME NEW n \in Resident, NEW k \in Keyspace, Cleanup(n, k) PROVE CleanupIInv'
  <2>1. UNCHANGED <<ring, gone, service, job, cached, listed>>
    BY <1>2 DEF Cleanup
  <2>2. ASSUME NEW i \in Resident
        PROVE /\ \A s, j : True(i, s, j) => ViewFor(ring' \cup gone', extra'[i], s, j)
              /\ \A j, p : j.hash \subseteq r /\ PodFor(extra[i], j, p) => PodFor(extra'[i], j, p)
    BY <1>2, RingSteps, CleanStays
  <2>3. \A i \in Resident : job[i].hash \subseteq r
    BY <1>a DEF ViewFor
  <2>4. PICK p \in [todo : SUBSET Keyspace, failed : BOOLEAN] :
          /\ p.todo = jobPod[n].todo \ {k}
          /\ jobPod' = [jobPod EXCEPT ![n] = p]
          /\ \/ p.failed = jobPod[n].failed /\ extra' = [extra EXCEPT ![n] = [extra[n] EXCEPT ![k] = {}]]
             \/ p.failed /\ extra' = extra
    BY <1>0, <1>2, CleanupStep
  <2>5. PodFor(extra'[n], job[n], p)
    <3>1. CASE p.failed
      BY <3>1 DEF PodFor
    <3>2. CASE p.failed = jobPod[n].failed /\ extra' = [extra EXCEPT ![n] = [extra[n] EXCEPT ![k] = {}]]
      <4>1. extra'[n][k] = {} /\ \A j \in Keyspace \ {k} : extra'[n][j] = extra[n][j]
        BY <1>0, <3>2 DEF CleanupTypeOK
      <4> QED BY <1>a, <2>4, <3>2, <4>1 DEF PodFor
    <3> QED BY <2>4, <3>1, <3>2
  <2>6. \A i \in Resident : PodFor(extra'[i], job'[i], jobPod'[i])
    BY <1>0, <1>a, <2>1, <2>2, <2>3, <2>4, <2>5 DEF CleanupTypeOK
  <2>7. ViewsTrue'
    BY <1>a, <2>1, <2>2, <2>6 DEF ViewsTrue
  <2> QED BY <1>0, <1>2, <2>7, RingSteps DEF CleanupIInv
\* All other steps leave the data of the nodes alone, and change one of the views.
<1>3. ASSUME UNCHANGED <<ring, gone, extra>>,
             \A n \in Resident : True(n, service'[n], job'[n]) /\ PodFor(extra[n], job'[n], jobPod'[n]),
             \A n \in Resident : True(n, cached'.svc[n], cached'.job[n]),
             \A n \in Resident : True(n, listed'.svc[n], listed'.job[n])
      PROVE CleanupIInv'
  <2>1. ViewsTrue'
    BY <1>3 DEF ViewsTrue
  <2>2. ExtraOfMembers'
    BY <1>3 DEF ExtraOfMembers, CleanupIInv
  <2> QED BY <1>0, <2>1, <2>2 DEF CleanupIInv
<1>4. CASE StartSync
  BY <1>3, <1>4, <1>a DEF StartSync
<1>5. CASE EndServices \/ EndPrune \/ (\E m \in Guest : Settle(m))
  BY <1>3, <1>5, <1>a DEF EndServices, EndPrune, Settle
<1>6. CASE EndSync \/ Crash
  <2>1. \A n \in Resident : True(n, NoSnap.svc[n], NoSnap.job[n])
    BY NoViewIsTrue
  <2>2. CASE EndSync
    BY <1>3, <2>2, <1>a, <2>1 DEF EndSync
  <2>3. CASE Crash
    BY <1>3, <2>3, <1>a, <2>1 DEF Crash
  <2> QED BY <1>6, <2>2, <2>3
<1>7. ASSUME NEW n \in Resident, ApplyService(n) PROVE CleanupIInv'
  <2>1. LastCleanedUp(n) \in Hashes /\ CleanFor(r, extra[n], LastCleanedUp(n))
    BY <1>0, <1>a DEF LastCleanedUp, ViewFor, CleanupTypeOK, MemberServices, Jobs
  <2>2. service' = service \/ service' = [service EXCEPT ![n] = [service[n] EXCEPT !.last = LastCleanedUp(n)]]
    BY <1>7 DEF ApplyService
  <2>3. True(n, [service[n] EXCEPT !.last = LastCleanedUp(n)], job[n])
    <3> DEFINE s == [service[n] EXCEPT !.last = LastCleanedUp(n)]
    <3>1. s.cur = service[n].cur /\ s.last = LastCleanedUp(n)
      BY <1>0, <2>1, RecordUpdates DEF CleanupTypeOK
    <3>2. ASSUME NEW t, t.cur = service[n].cur, t.last = LastCleanedUp(n) PROVE True(n, t, job[n])
      BY <1>a, <2>1, <3>2 DEF ViewFor
    <3> QED BY <3>1, <3>2
  <2>4. \A i \in Resident : True(i, service'[i], job[i])
    BY <1>0, <1>a, <2>2, <2>3 DEF CleanupTypeOK
  <2> QED BY <1>3, <1>7, <1>a, <2>4 DEF ApplyService
<1>8. ASSUME NEW n \in Resident, syncAnnotations(n) PROVE CleanupIInv'
  <2>1. ring \in Hashes
    BY <1>0, HashTypes DEF CleanupTypeOK
  <2>2. service' = [service EXCEPT ![n] = [service[n] EXCEPT !.cur = ring]]
    BY <1>8 DEF syncAnnotations
  <2>3. True(n, [service[n] EXCEPT !.cur = ring], job[n])
    <3> DEFINE s == [service[n] EXCEPT !.cur = ring]
    <3>1. s.cur = ring /\ s.last = service[n].last
      BY <1>0, <2>1, RecordUpdates DEF CleanupTypeOK
    <3>2. ASSUME NEW t, t.cur = ring, t.last = service[n].last PROVE True(n, t, job[n])
      BY <1>a, <3>2 DEF ViewFor
    <3> QED BY <3>1, <3>2
  <2>4. \A i \in Resident : True(i, service'[i], job[i])
    BY <1>0, <1>a, <2>2, <2>3 DEF CleanupTypeOK
  <2> QED BY <1>3, <1>8, <1>a, <2>4 DEF syncAnnotations
\* A Job is deleted, or made for a hash that the sidecar once wrote.
<1>9. ASSUME NEW n \in Resident, NEW j, NEW p, Store(n, j, p),
             True(n, service[n], j), PodFor(extra[n], j, p),
             UNCHANGED <<ring, gone, extra, service, cached, listed>>
      PROVE CleanupIInv'
  <2>1. \A i \in Resident : /\ job'[i] = IF i = n THEN j ELSE job[i]
                            /\ jobPod'[i] = IF i = n THEN p ELSE jobPod[i]
    BY <1>0, <1>9 DEF Store, CleanupTypeOK
  <2> QED BY <1>3, <1>9, <1>a, <2>1
<1>10. ASSUME NEW n \in Resident
       PROVE True(n, service[n], NoJob) /\ PodFor(extra[n], NoJob, NoJobPod)
  BY <1>0, <1>a, NoViewIsTrue DEF CleanupTypeOK
<1>11. ASSUME NEW n \in Resident, PruneJob(n) PROVE CleanupIInv'
  <2>1. CASE Store(n, NoJob, NoJobPod)
    BY <1>9, <1>10, <1>11, <2>1 DEF PruneJob
  <2>2. CASE UNCHANGED <<job, jobPod>>
    BY <1>3, <1>11, <1>a, <2>2 DEF PruneJob
  <2> QED BY <1>11, <2>1, <2>2 DEF PruneJob
<1>12. ASSUME NEW n \in Resident, ApplyJob(n) PROVE CleanupIInv'
  <2>1. CASE Store(n, NewJob(listed.svc[n].cur), NewPod)
    <3>1. True(n, service[n], NewJob(listed.svc[n].cur))
      BY <1>a DEF ViewFor, NewJob
    <3>2. PodFor(extra[n], NewJob(listed.svc[n].cur), NewPod)
      BY DEF PodFor, NewPod
    <3> QED BY <1>9, <1>12, <2>1, <3>1, <3>2 DEF ApplyJob
  <2>2. CASE UNCHANGED <<job, jobPod>>
    BY <1>3, <1>12, <1>a, <2>2 DEF ApplyJob
  <2> QED BY <1>12, <2>1, <2>2 DEF ApplyJob, Reapply
<1>13. ASSUME NEW n \in Resident, DeleteJob(n) \/ RefuseCreate(n) PROVE CleanupIInv'
  BY <1>9, <1>10, <1>13 DEF DeleteJob, RefuseCreate
\* The Pod ends or starts anew.
<1>14. ASSUME NEW n \in Resident, LosePod(n) PROVE CleanupIInv'
  <2>1. \A i \in Resident : jobPod'[i] = IF i = n THEN NewPod ELSE jobPod[i]
    BY <1>0, <1>14 DEF LosePod, CleanupTypeOK
  <2>2. PodFor(extra[n], job[n], NewPod)
    BY DEF PodFor, NewPod
  <2> QED BY <1>3, <1>14, <1>a, <2>1, <2>2 DEF LosePod
<1>15. ASSUME NEW n \in Resident, Exit(n) PROVE CleanupIInv'
  <2>1. CASE ExitsWithError(jobPod[n])
    <3>1. \A i \in Resident : jobPod'[i] = IF i = n THEN NewPod ELSE jobPod[i]
      BY <1>0, <1>15, <2>1 DEF Exit, CleanupTypeOK
    <3>2. PodFor(extra[n], job[n], NewPod)
      BY DEF PodFor, NewPod
    <3> QED BY <1>3, <1>15, <1>a, <2>1, <3>1, <3>2 DEF Exit
  <2>2. CASE ~ExitsWithError(jobPod[n])
    <3> DEFINE c == [job[n] EXCEPT !.complete = TRUE]
    <3>1. c.hash = job[n].hash
      BY <1>0, RecordUpdates DEF CleanupTypeOK
    <3>2. job' = [job EXCEPT ![n] = c] /\ jobPod' = [jobPod EXCEPT ![n] = NoJobPod]
      BY <1>15, <2>2 DEF Exit
    <3>3. \A i \in Resident : /\ job'[i] = IF i = n THEN c ELSE job[i]
                              /\ jobPod'[i] = IF i = n THEN NoJobPod ELSE jobPod[i]
      BY <1>0, <3>2 DEF CleanupTypeOK
    <3>4. jobPod[n].todo = {} /\ ~jobPod[n].failed
      BY <1>15, <2>2 DEF Exit, ExitsWithError
    <3>5. \A k \in Keyspace : extra[n][k] \cap job[n].hash = {}
      BY <1>a, <3>4 DEF PodFor
    <3> HIDE DEF c
    <3>6. True(n, service[n], c) /\ PodFor(extra[n], c, NoJobPod)
      BY <1>a, <3>1, <3>5 DEF ViewFor, CleanFor, PodFor
    <3> QED BY <1>3, <1>15, <1>a, <3>3, <3>6 DEF Exit
  <2> QED BY <2>1, <2>2
\* The cache.
<1>16. ASSUME NEW n \in Resident, ObserveService(n) PROVE CleanupIInv'
  <2>1. /\ cached'.job = cached.job
        /\ \A i \in Resident : cached'.svc[i] = IF i = n THEN service[i] ELSE cached.svc[i]
    BY <1>0, <1>16 DEF ObserveService, CleanupTypeOK
  <2>2. True(n, service[n], cached.job[n])
    BY <1>a DEF ViewFor
  <2> QED BY <1>3, <1>16, <1>a, <2>1, <2>2 DEF ObserveService
<1>17. ASSUME NEW n \in Resident, ObserveJob(n) PROVE CleanupIInv'
  <2>1. /\ cached'.svc = cached.svc
        /\ \A i \in Resident : cached'.job[i] = IF i = n THEN job[i] ELSE cached.job[i]
    BY <1>0, <1>17 DEF ObserveJob, CleanupTypeOK
  <2>2. True(n, cached.svc[n], job[n])
    BY <1>a DEF ViewFor
  <2> QED BY <1>3, <1>17, <1>a, <2>1, <2>2 DEF ObserveJob
<1>18. ASSUME NEW n \in Resident, Refuse(n) PROVE CleanupIInv'
  BY <1>3, <1>18, <1>a DEF Refuse
<1>19. CASE UNCHANGED cleanupVars
  BY <1>3, <1>19, <1>a DEF cleanupVars
<1> QED
  BY <1>1, <1>2, <1>4, <1>5, <1>6, <1>7, <1>8, <1>11, <1>12, <1>13, <1>14, <1>15, <1>16,
     <1>17, <1>18, <1>19 DEF CleanupNext, Sync, JobPod

-----------------------------------------------------------------------------

LEMMA CleanupSpecIInv == CleanupSpec => []CleanupIInv
<1>1. CleanupInit => CleanupIInv
  BY CleanupInitIInv
<1>2. CleanupIInv /\ [CleanupNext]_cleanupVars => CleanupIInv'
  BY CleanupStepIInv
<1> QED BY <1>1, <1>2, PTL DEF CleanupSpec

\* Every variable keeps its type.
THEOREM CleanupTypeCorrect == CleanupSpec => []CleanupTypeOK
<1>1. CleanupIInv => CleanupTypeOK
  BY DEF CleanupIInv
<1> QED BY <1>1, CleanupSpecIInv, PTL

\* The mark that the operator takes over from a completed Job is true: a node marked
\* for the present ring holds no data of other members in any keyspace, however the
\* ring moves meanwhile and however old the copies that MakeJobs and MemberService
\* work from.
THEOREM MarksAreTrue == CleanupSpec => []MarkedIsClean
<1>1. CleanupIInv => MarkedIsClean
  <2> SUFFICES ASSUME CleanupIInv, NEW n \in Resident, service[n].last = ring, NEW k \in Keyspace
               PROVE extra[n][k] = {}
    BY DEF MarkedIsClean
  <2>1. extra[n][k] \cap ring = {}
    BY DEF CleanupIInv, ViewsTrue, ViewFor, CleanFor
  <2>2. extra[n][k] \subseteq ring
    BY DEF CleanupIInv, ExtraOfMembers
  <2> QED BY <2>1, <2>2
<1> QED BY <1>1, CleanupSpecIInv, PTL

=============================================================================
