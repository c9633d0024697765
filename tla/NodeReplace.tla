----------------------------- MODULE NodeReplace -----------------------------
(***************************************************************************)
(* The replacement of one ScyllaDB node: the orphaned PV controller, or a   *)
(* user, labels the member Service; the datacenter controller deletes the   *)
(* volume, evicts the Pod, records the Host ID to replace, and removes both *)
(* labels once the new node is ready.  The other nodes are healthy.         *)
(*                                                                          *)
(* Host IDs are numbered in the order in which ScyllaDB makes them up; 0 is *)
(* the absence of one.  A volume is local to a Kubernetes node, a host.     *)
(***************************************************************************)
EXTENDS Naturals, FiniteSets

CONSTANTS
  Hosts,        \* the Kubernetes nodes
  Barrier,      \* feature gate BootstrapSynchronisation
  MaxLosses,    \* bound on lost hosts
  MaxRequests,  \* bound on replacements a user asks for
  MaxStale,     \* bound on syncs of the orphaned PV controller on an old claim
  MaxFaults     \* bound on crashes, refused calls and evictions by others

ASSUME ReplaceAssumption ==
  /\ Hosts # {} /\ IsFiniteSet(Hosts)
  /\ Barrier \in BOOLEAN
  /\ MaxLosses \in Nat /\ MaxRequests \in Nat /\ MaxStale \in Nat /\ MaxFaults \in Nat

NoHost == "none"

VARIABLES
  live,      \* hosts that exist
  svc,       \* the member Service: resource version, both labels, annotation
  seen,      \* the Service in the datacenter controller's cache
  written,   \* the resource version of that controller's last write
  snap,      \* the Service its sync works on
  pc,        \* the next call of its sync
  claim,     \* where the claim is bound in the orphaned PV controller's cache
  orphan,    \* the host of the volume the orphaned PV controller looks at
  mislabelled, \* history: the label is there for a claim that was gone
  pvc,       \* the volume claim: where it is bound, whose data it has
  pod,       \* the Pod: phase, deleted or not, argument replace-node-first-boot
  memberIDs, \* Host IDs of this node that the cluster holds as members
  lastID,    \* the last Host ID made up
  used       \* losses, requests, old claims and faults so far

vars == <<live, svc, seen, written, snap, pc, claim, orphan, mislabelled,
          pvc, pod, memberIDs, lastID, used>>

\* The state of the datacenter controller, of the orphaned PV controller, and of
\* everything else.
operator == <<seen, written, snap, pc>>
orphanedPV == <<claim, orphan, mislabelled>>
nodeState == <<pvc, pod, memberIDs, lastID>>

Services == [rv : Nat, replace : BOOLEAN, replacing : Nat, hostID : Nat]
NoPod == [phase |-> "absent", going |-> FALSE, replacing |-> 0]
NoClaim == [exists |-> FALSE, host |-> NoHost, data |-> 0, deleting |-> FALSE]

TypeOK ==
  /\ live \subseteq Hosts
  /\ svc \in Services /\ seen \in Services /\ snap \in Services
  /\ written \in Nat
  /\ pc \in {"idle", "deletePVC", "evict", "record", "finish"}
  /\ claim \in Hosts \cup {NoHost} /\ orphan \in Hosts \cup {NoHost}
  /\ mislabelled \in BOOLEAN
  /\ pvc \in [exists : BOOLEAN, host : Hosts \cup {NoHost}, data : Nat, deleting : BOOLEAN]
  /\ pod \in [phase : {"absent", "init", "main", "started", "up", "dead"}, going : BOOLEAN,
              replacing : Nat]
  /\ memberIDs \subseteq 1..lastID
  /\ lastID \in Nat \ {0}
  /\ used \in [losses : 0..MaxLosses, requests : 0..MaxRequests,
               stale : 0..MaxStale, faults : 0..MaxFaults]

Init ==
  /\ live = Hosts
  /\ svc = [rv |-> 1, replace |-> FALSE, replacing |-> 0, hostID |-> 1]
  /\ seen = svc /\ snap = svc /\ written = 0 /\ pc = "idle"
  /\ pvc \in {[exists |-> TRUE, host |-> h, data |-> 1, deleting |-> FALSE] : h \in Hosts}
  /\ claim = pvc.host /\ orphan = NoHost /\ mislabelled = FALSE
  /\ pod = [NoPod EXCEPT !.phase = "up"]
  /\ memberIDs = {1} /\ lastID = 1
  /\ used = [losses |-> 0, requests |-> 0, stale |-> 0, faults |-> 0]

\* A write of the Service; one that changes nothing makes no new version.
Write(s) == svc' = IF s = svc THEN svc ELSE [s EXCEPT !.rv = svc.rv + 1]

-----------------------------------------------------------------------------
(* The datacenter controller. *)

\* The cache catches up.
Observe ==
  /\ seen # svc
  /\ seen' = svc
  /\ UNCHANGED <<live, svc, written, snap, pc, orphanedPV, pvc, pod, memberIDs, lastID, used>>

\* Mutant: the wait for the updated annotation is left out.
FinishableWithOldID(s) == pod.phase = "up"

\* finishOngoingReplaceNodeUsingHostID, up to its write: the Pod is there, the
\* sidecar has annotated another Host ID, and the Pod is ready in a live read.
Finishable(s) == s.hostID # s.replacing /\ pod.phase = "up"

\* replaceNodeUsingHostID: without an annotation the sync waits for one.
replaceNodeUsingHostID ==
  /\ pc = "idle" /\ seen.rv >= written /\ seen.replace /\ seen.hostID # 0
  /\ \/ seen.replacing = 0 /\ pc' = "deletePVC"
     \/ seen.replacing # 0 /\ Finishable(seen) /\ pc' = "finish"
  /\ snap' = seen
  /\ UNCHANGED <<live, svc, seen, written, orphanedPV, nodeState, used>>

\* Mutant: the claim is left alone.
EvictOnly ==
  /\ pc = "deletePVC"
  /\ pc' = "evict"
  /\ UNCHANGED <<live, svc, seen, written, snap, orphanedPV, nodeState, used>>

\* removePodAndAssociatedPVC: the claim is deleted by name, and stays until no Pod
\* uses it.
DeletePVC ==
  /\ pc = "deletePVC"
  /\ pvc' = IF pvc.exists THEN [pvc EXCEPT !.deleting = TRUE] ELSE pvc
  /\ pc' = "evict"
  /\ UNCHANGED <<live, svc, seen, written, snap, orphanedPV, pod, memberIDs, lastID, used>>

\* The eviction only starts the deletion: the Pod may be ready for a while.
EvictPod ==
  /\ pc = "evict"
  /\ pod' = IF pod.phase = "absent" THEN pod ELSE [pod EXCEPT !.going = TRUE]
  /\ pc' = "record"
  /\ UNCHANGED <<live, svc, seen, written, snap, orphanedPV, pvc, memberIDs, lastID, used>>

\* An update of the Service: it conflicts unless the snapshot is current.
Update(s) ==
  \/ svc.rv = snap.rv /\ Write(s) /\ written' = svc.rv + 1
  \/ svc.rv # snap.rv /\ UNCHANGED <<svc, written>>

\* initializeReplaceNodeUsingHostID, its write.
RecordReplacing ==
  /\ pc = "record"
  /\ Update([snap EXCEPT !.replacing = snap.hostID])
  /\ pc' = "idle"
  /\ UNCHANGED <<live, seen, snap, orphanedPV, nodeState, used>>

\* finishOngoingReplaceNodeUsingHostID, its write.
FinishReplace ==
  /\ pc = "finish"
  /\ Update([snap EXCEPT !.replace = FALSE, !.replacing = 0])
  /\ mislabelled' = (mislabelled /\ svc'.replace)
  /\ pc' = "idle"
  /\ UNCHANGED <<live, seen, snap, claim, orphan, nodeState, used>>

\* The controller restarts, or its next call is refused (an eviction by the
\* disruption budget of another node that is down, for one).
Abort ==
  /\ pc # "idle" /\ used.faults < MaxFaults
  /\ pc' = "idle"
  /\ used' = [used EXCEPT !.faults = @ + 1]
  /\ UNCHANGED <<live, svc, seen, written, snap, orphanedPV, nodeState>>

-----------------------------------------------------------------------------
(* The orphaned PV controller. *)

\* Mutant: every volume that is bound counts.
IsBoundPV(h) == h # NoHost

\* IsOrphanedPV: no node matches the affinity of the volume.
IsOrphanedPV(h) == h # NoHost /\ h \notin live

\* The cache of volume claims catches up.
ObserveClaim ==
  /\ claim # pvc.host
  /\ claim' = pvc.host
  /\ UNCHANGED <<live, svc, operator, orphan, mislabelled, nodeState, used>>

\* getPVsForScyllaDBDatacenter and the check against the cached nodes: the claim and
\* its volume are those of the cache, however old.
FindOrphan ==
  /\ orphan = NoHost /\ IsOrphanedPV(claim)
  /\ \/ claim = pvc.host /\ UNCHANGED used
     \/ /\ claim # pvc.host /\ used.stale < MaxStale
        /\ used' = [used EXCEPT !.stale = @ + 1]
  /\ orphan' = claim
  /\ UNCHANGED <<live, svc, operator, claim, mislabelled, nodeState>>

\* The check against a live list of nodes, and the patch of the Service by name,
\* whatever volume the claim has by then.  (A lost host does not come back, so the
\* patch may be late with the list.)
LabelOrphan ==
  /\ IsOrphanedPV(orphan)
  /\ Write([svc EXCEPT !.replace = TRUE])
  /\ mislabelled' = IF svc.replace THEN mislabelled ELSE pvc.host # orphan
  /\ orphan' = NoHost
  /\ UNCHANGED <<live, operator, claim, nodeState, used>>

-----------------------------------------------------------------------------
(* The Pod: the StatefulSet controller, the barrier, the sidecar, ScyllaDB. *)

\* A claim that is being deleted goes when no Pod uses it.
RemovePVC ==
  /\ pvc.deleting /\ pod.phase = "absent"
  /\ pvc' = NoClaim
  /\ UNCHANGED <<live, svc, operator, orphanedPV, pod, memberIDs, lastID, used>>

\* The StatefulSet controller makes the claim and the Pod, which is scheduled to
\* the volume's host, or to any when there is none yet.
RecreatePod ==
  /\ pod.phase = "absent" /\ ~pvc.deleting
  /\ \E h \in live :
       /\ pvc.exists => pvc.host = h
       /\ pvc' = IF pvc.exists THEN pvc ELSE [NoClaim EXCEPT !.exists = TRUE, !.host = h]
  /\ pod' = [NoPod EXCEPT !.phase = "init"]
  /\ UNCHANGED <<live, svc, operator, orphanedPV, memberIDs, lastID, used>>

\* Mutant: the barrier lets every node pass.
PassAlways == TRUE

\* shouldProceedWithBootstrap: a replacing node is not held; another new one is
\* while the reports show a host of the cluster down, as the old node is.
shouldProceedWithBootstrap == svc.replacing # 0 \/ memberIDs = {}

LeaveBarrier ==
  /\ pod.phase = "init" /\ ~pod.going
  /\ Barrier /\ pvc.data = 0 => shouldProceedWithBootstrap
  /\ pod' = [pod EXCEPT !.phase = "main"]
  /\ UNCHANGED <<live, svc, operator, orphanedPV, pvc, memberIDs, lastID, used>>

\* setupEntrypoint of the sidecar reads the label of the Service.
SetupEntrypoint ==
  /\ pod.phase = "main" /\ ~pod.going
  /\ pod' = [pod EXCEPT !.phase = "started", !.replacing = svc.replacing]
  /\ UNCHANGED <<live, svc, operator, orphanedPV, pvc, memberIDs, lastID, used>>

\* A node with data starts if it is still a member.
Restart ==
  /\ pod.phase = "started" /\ ~pod.going /\ pvc.data # 0 /\ pvc.data \in memberIDs
  /\ pod' = [pod EXCEPT !.phase = "up"]
  /\ UNCHANGED <<live, svc, operator, orphanedPV, pvc, memberIDs, lastID, used>>

\* A new node takes the place of the one it replaces, which must be a member.
\* Without the argument it joins beside it.
JoinRing ==
  /\ pod.phase = "started" /\ ~pod.going /\ pvc.data = 0
  /\ pod.replacing # 0 => pod.replacing \in memberIDs
  /\ lastID' = lastID + 1
  /\ memberIDs' = (memberIDs \ {pod.replacing}) \cup {lastID + 1}
  /\ pvc' = [pvc EXCEPT !.data = lastID + 1]
  /\ pod' = [pod EXCEPT !.phase = "up"]
  /\ UNCHANGED <<live, svc, operator, orphanedPV, used>>

\* syncAnnotations of the sidecar: the Host ID of the node it runs beside.
AnnotateHostID ==
  /\ pod.phase = "up" /\ svc.hostID # pvc.data
  /\ Write([svc EXCEPT !.hostID = pvc.data])
  /\ UNCHANGED <<live, operator, orphanedPV, nodeState, used>>

\* A Kubernetes node disappears with what runs on it.
LoseHost(h) ==
  /\ used.losses < MaxLosses /\ h \in live /\ live # {h}
  /\ live' = live \ {h}
  /\ pod' = IF pvc.host = h /\ pod.phase # "absent" THEN [pod EXCEPT !.phase = "dead"] ELSE pod
  /\ used' = [used EXCEPT !.losses = @ + 1]
  /\ UNCHANGED <<svc, operator, orphanedPV, pvc, memberIDs, lastID>>

\* The kubelet removes a deleted Pod, the garbage collector that of a lost host.
RemovePod ==
  /\ pod.phase = "dead" \/ pod.going
  /\ pod' = NoPod
  /\ UNCHANGED <<live, svc, operator, orphanedPV, pvc, memberIDs, lastID, used>>

\* Others evict the Pod: a drain, a rolling update, a user.
DisruptPod ==
  /\ used.faults < MaxFaults /\ pod.phase # "absent" /\ ~pod.going
  /\ pod' = [pod EXCEPT !.going = TRUE]
  /\ used' = [used EXCEPT !.faults = @ + 1]
  /\ UNCHANGED <<live, svc, operator, orphanedPV, pvc, memberIDs, lastID>>

\* A user labels the Service.
RequestReplace ==
  /\ used.requests < MaxRequests /\ ~svc.replace
  /\ Write([svc EXCEPT !.replace = TRUE])
  /\ used' = [used EXCEPT !.requests = @ + 1]
  /\ UNCHANGED <<live, operator, orphanedPV, nodeState>>

-----------------------------------------------------------------------------

Operator == replaceNodeUsingHostID \/ DeletePVC \/ EvictPod \/ RecordReplacing \/ FinishReplace
Scylla == LeaveBarrier \/ SetupEntrypoint \/ Restart \/ JoinRing

Next ==
  \/ Observe \/ replaceNodeUsingHostID \/ DeletePVC \/ EvictPod \/ RecordReplacing
  \/ FinishReplace \/ Abort
  \/ ObserveClaim \/ FindOrphan \/ LabelOrphan
  \/ RemovePVC \/ RecreatePod \/ LeaveBarrier \/ SetupEntrypoint \/ Restart \/ JoinRing
  \/ AnnotateHostID \/ RemovePod \/ DisruptPod \/ RequestReplace
  \/ \E h \in Hosts : LoseHost(h)

Spec == Init /\ [][Next]_vars

\* Every controller, and the Pod, keep running.
FairSpec ==
  /\ Spec
  /\ WF_vars(Observe) /\ WF_vars(Operator)
  /\ WF_vars(ObserveClaim) /\ WF_vars(FindOrphan) /\ WF_vars(LabelOrphan)
  /\ WF_vars(RemovePVC) /\ WF_vars(RemovePod) /\ WF_vars(RecreatePod)
  /\ WF_vars(Scylla) /\ WF_vars(AnnotateHostID)

-----------------------------------------------------------------------------
(* Properties. *)

\* A replacement never leaves the dead node in the cluster beside the new one: no
\* Pod on a new volume joins before the Host ID to replace is recorded, although
\* removePodAndAssociatedPVC evicts the old Pod first.  (It is the bootstrap barrier
\* that holds it: without the feature gate the invariant breaks.)
NoStrayMember == Cardinality(memberIDs) <= 1

\* The labels are only removed when the node they name is out of the cluster: the
\* ready Pod and the annotation that finishOngoingReplaceNodeUsingHostID trusts,
\* which two other processes write, belong to the new node.
FinishedMeansReplaced ==
  [][svc.replacing # 0 /\ svc'.replacing = 0 => svc.replacing \notin memberIDs']_vars

\* Without a request of a user, the claim that the controller deletes has no data
\* of a member on a live host: a conflict or a crash makes it start over, and
\* then it finds the claim of the new Pod under the same name.  Excepted is a label
\* that the orphaned PV controller set for a claim that had gone by then: it reads
\* claim and volume from its cache and patches the Service by name.
OnlyLostVolumesDeletedUnlessMislabelled ==
  [][used.requests = 0 /\ ~mislabelled /\ pvc'.deleting /\ ~pvc.deleting =>
       pvc.host \notin live \/ pvc.data \notin memberIDs]_vars

\* The same without the exception.
OnlyLostVolumesDeleted ==
  [][used.requests = 0 /\ pvc'.deleting /\ ~pvc.deleting =>
       pvc.host \notin live \/ pvc.data \notin memberIDs]_vars

\* The node runs, is the one member, and no replacement is open.
Healthy == pod.phase = "up" /\ memberIDs = {pvc.data} /\ ~svc.replace /\ svc.replacing = 0

\* A replacement was overtaken by the loss of the host of the new volume.
LostAgain == svc.replacing # 0 /\ pvc.exists /\ pvc.host \notin live

\* Every lost or labelled node is replaced, by itself, whatever step crashed.
EventuallyReplaced == <>[](Healthy \/ LostAgain)

\* The same without the exception.
EventuallyHealthy == <>[]Healthy

=============================================================================
