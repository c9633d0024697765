-------------------------- MODULE ClusterBootstrap --------------------------
(***************************************************************************)
(* How the nodes of a datacenter come up and form one ScyllaDB cluster: the *)
(* bootstrap barrier, the status reports it reads (written by the sidecars, *)
(* assembled by the datacenter controller) and the choice of seeds.         *)
(*                                                                          *)
(* A node is identified by its rank: the creation time of its member        *)
(* Service, the name breaking ties.  Host IDs are the nodes themselves, as  *)
(* no node is replaced here (see NodeReplace).                              *)
(***************************************************************************)
EXTENDS Naturals, FiniteSets

CONSTANTS
  N,                         \* number of nodes
  Racks,                     \* number of racks; node n is in rack n % Racks
  Parallel,                  \* enableParallelNodeOperations
  BootstrapSynchronisation,  \* the feature gate: there is a barrier
  External,                  \* externalSeeds are given: there is a cluster to join
  MaxDisruptions             \* bound on container restarts and Pod deletions together

ASSUME BootstrapAssumption ==
  /\ N \in Nat \ {0} /\ Racks \in Nat \ {0}
  /\ Parallel \in BOOLEAN /\ BootstrapSynchronisation \in BOOLEAN /\ External \in BOOLEAN
  /\ MaxDisruptions \in Nat

Node == 1..N

\* The clusters: one per possible founder, and the external one.
NoCluster == 0
ExternalCluster == N + 1

VARIABLES
  phase,     \* node -> where its Pod is
  cluster,   \* node -> the cluster whose data is on its volume, NoCluster if none
  seeds,     \* node -> the seeds its entrypoint was given
  joined,    \* nodes whose Service is annotated as joined
  report,    \* node -> the status report annotated on its Pod
  published, \* the ScyllaDBDatacenterNodesStatusReport
  faults     \* faults so far

bootstrapVars == <<phase, cluster, seeds, joined, report, published, faults>>

Phases == {"absent", "init", "main", "seeded", "joining", "up"}

\* A report is the set of hosts seen and the set of those seen up; no report
\* is seen as one without hosts.
Reports == [hosts : SUBSET Node, up : SUBSET Node]
NoReport == [hosts |-> {}, up |-> {}]

BootstrapTypeOK ==
  /\ phase \in [Node -> Phases]
  /\ cluster \in [Node -> 0..(N + 1)]
  /\ seeds \in [Node -> SUBSET (1..(N + 1))]
  /\ joined \subseteq Node
  /\ report \in [Node -> Reports]
  /\ published \in [nodes : SUBSET Node, of : [Node -> Reports]]
  /\ faults \in [restarts : 0..MaxDisruptions, deletions : 0..MaxDisruptions]

RackOf(n) == n % Racks
HasPod(n) == phase[n] # "absent"
IsPodReady(n) == phase[n] = "up"
Members == {n \in Node : cluster[n] # NoCluster}

BootstrapInit ==
  /\ phase = [n \in Node |-> "absent"]
  /\ cluster = [n \in Node |-> NoCluster]
  /\ seeds = [n \in Node |-> {}]
  /\ joined = {}
  /\ report = [n \in Node |-> NoReport]
  /\ published = [nodes |-> {}, of |-> report]
  /\ faults = [restarts |-> 0, deletions |-> 0]

-----------------------------------------------------------------------------
(* The bootstrap barrier, the init container. *)

\* Mutant: a host without an entry is never waited for.
PreconditionSkippingHosts(pub, self) ==
  LET reporting  == pub.nodes \ {self}
      allHostIDs == reporting \cup UNION {pub.of[m].hosts : m \in reporting}
  IN \A h \in reporting, o \in allHostIDs : o \in pub.of[h].up

\* isBootstrapPreconditionSatisfied: every host that occurs in a report, the
\* node's own entry left out, must have an entry that sees every such host up.
\* With external seeds and a single report, hosts without an entry are skipped
\* as reporters; they must still be seen up.
isBootstrapPreconditionSatisfied(pub, self) ==
  LET reporting  == pub.nodes \ {self}
      allHostIDs == reporting \cup UNION {pub.of[m].hosts : m \in reporting}
  IN \A h \in allHostIDs :
        \/ /\ h \in reporting
           /\ \A o \in allHostIDs : o \in pub.of[h].up
        \/ h \notin reporting /\ External

\* IsBootstrapped: the system.local table on the volume says so.
IsBootstrapped(n) == cluster[n] # NoCluster

\* sync of the barrier's controller: the channel is closed once the precondition
\* holds on the published report.
sync(n) == isBootstrapPreconditionSatisfied(published, n)

\* Run of the init container: a node that finished its bootstrap is never held.
PassBarrier(n) ==
  /\ phase[n] = "init"
  /\ BootstrapSynchronisation /\ ~IsBootstrapped(n) => sync(n)
  /\ phase' = [phase EXCEPT ![n] = "main"]
  /\ UNCHANGED <<cluster, seeds, joined, report, published, faults>>

-----------------------------------------------------------------------------
(* The choice of seeds by the sidecar, before it starts ScyllaDB. *)

\* getDCSeedCandidates: the nodes with a Pod, listed live.
getDCSeedCandidates == {n \in Node : HasPod(n)}

\* The first of a set of candidates by rank.
FirstRanked(S) == CHOOSE n \in S : \A m \in S : n <= m

\* selectDCSeedCandidates, when some candidate is ready: the first ready one of
\* each rack, never the node itself.
ReadySeeds(self) ==
  LET ready == {c \in getDCSeedCandidates \ {self} : IsPodReady(c)}
  IN {c \in ready : c = FirstRanked({d \in ready : RackOf(d) = RackOf(c)})}

ExternalSeeds == IF External THEN {ExternalCluster} ELSE {}

\* Mutant: a node falls back to itself.
FallbackSeedsToSelf(self) == {self} \cup ExternalSeeds

\* fallBackWithDistinguishedCandidate: the first-ranked candidate alone, except
\* that a node does not seed off itself when there are external seeds.
FallbackSeeds(self) ==
  LET c == FirstRanked(getDCSeedCandidates)
  IN IF c = self /\ External THEN ExternalSeeds ELSE {c} \cup ExternalSeeds

\* GetSeeds.
GetSeeds(self) ==
  IF ReadySeeds(self) # {} THEN ReadySeeds(self) \cup ExternalSeeds ELSE FallbackSeeds(self)

\* setupEntrypoint: the argument that matters here is the seeds.
setupEntrypoint(n) == GetSeeds(n)

\* Run of the sidecar: its own Service and Pod are there, it sets ScyllaDB up,
\* starts it and the controllers beside it.
RunSidecar(n) ==
  /\ phase[n] = "main"
  /\ phase' = [phase EXCEPT ![n] = "seeded"]
  /\ seeds' = [seeds EXCEPT ![n] = setupEntrypoint(n)]
  /\ UNCHANGED <<cluster, joined, report, published, faults>>

-----------------------------------------------------------------------------
(* ScyllaDB and the StatefulSet controller. *)

\* A node that bootstrapped earlier finds its peers on disk.
RestartNode(n) ==
  /\ phase[n] = "seeded" /\ cluster[n] # NoCluster
  /\ phase' = [phase EXCEPT ![n] = "up"]
  /\ UNCHANGED <<cluster, seeds, joined, report, published, faults>>

\* A new node whose only seed is itself founds a cluster.
FoundCluster(n) ==
  /\ phase[n] = "seeded" /\ cluster[n] = NoCluster /\ seeds[n] = {n}
  /\ phase' = [phase EXCEPT ![n] = "up"]
  /\ cluster' = [cluster EXCEPT ![n] = n]
  /\ UNCHANGED <<seeds, joined, report, published, faults>>

\* The cluster a seed answers for, if it is up.
ClusterOf(s) ==
  IF s = ExternalCluster THEN ExternalCluster
  ELSE IF phase[s] = "up" THEN cluster[s] ELSE NoCluster

\* Another new node asks its seeds until one answers, and is let in once no
\* member of that cluster is down.
JoinCluster(n) ==
  /\ phase[n] = "seeded" /\ cluster[n] = NoCluster
  /\ \E s \in seeds[n] \ {n} :
       /\ ClusterOf(s) # NoCluster
       /\ \A m \in Members : cluster[m] = ClusterOf(s) => phase[m] = "up"
  /\ phase' = [phase EXCEPT ![n] = "joining"]
  /\ UNCHANGED <<cluster, seeds, joined, report, published, faults>>

FinishJoin(n) ==
  /\ phase[n] = "joining"
  /\ \E s \in seeds[n] \ {n} :
       /\ ClusterOf(s) # NoCluster
       /\ cluster' = [cluster EXCEPT ![n] = ClusterOf(s)]
  /\ phase' = [phase EXCEPT ![n] = "up"]
  /\ UNCHANGED <<seeds, joined, report, published, faults>>

\* Pods of a rack come in order; without parallel node operations each waits for
\* all nodes before it, since racks are created one by one.
CreatePod(n) ==
  /\ phase[n] = "absent"
  /\ \A m \in Node : m < n =>
       \/ Parallel /\ (RackOf(m) = RackOf(n) => HasPod(m))
       \/ IsPodReady(m)
       \/ cluster[n] # NoCluster /\ RackOf(m) # RackOf(n)
  /\ phase' = [phase EXCEPT ![n] = "init"]
  /\ UNCHANGED <<cluster, seeds, joined, report, published, faults>>

CanFail == faults.restarts + faults.deletions < MaxDisruptions

\* The main container restarts: init containers do not run again.
RestartContainer(n) ==
  /\ phase[n] \in {"seeded", "joining", "up"} /\ CanFail
  /\ phase' = [phase EXCEPT ![n] = "main"]
  /\ faults' = [faults EXCEPT !.restarts = @ + 1]
  /\ UNCHANGED <<cluster, seeds, joined, report, published>>

\* The Pod is deleted (drained, evicted), its annotations with it.
DeletePod(n) ==
  /\ HasPod(n) /\ CanFail
  /\ phase' = [phase EXCEPT ![n] = "absent"]
  /\ report' = [report EXCEPT ![n] = NoReport]
  /\ faults' = [faults EXCEPT !.deletions = @ + 1]
  /\ UNCHANGED <<cluster, seeds, joined, published>>

-----------------------------------------------------------------------------
(* Status reports. *)

\* syncAnnotations of the sidecar: a node that owns tokens is annotated as joined.
\* While ScyllaDB is not up the membership is unknown and the annotation stays.
SyncAnnotations(n) ==
  /\ phase[n] = "up" /\ n \notin joined
  /\ joined' = joined \cup {n}
  /\ UNCHANGED <<phase, cluster, seeds, report, published, faults>>

\* The hosts a node knows: members of its cluster and nodes joining it.
Known(n) == {m \in Node : cluster[m] = cluster[n] \/ phase[m] = "joining"}

\* getNodeStatusReport: the gossip view of an up node, an error otherwise.
getNodeStatusReport(n) ==
  IF phase[n] = "up"
  THEN [hosts |-> Known(n), up |-> {m \in Known(n) : phase[m] \in {"up", "joining"}}]
  ELSE NoReport

\* Sync of the status reporter, periodic while the main container runs.
ReportStatus(n) ==
  /\ phase[n] \in {"seeded", "joining", "up"}
  /\ report[n] # getNodeStatusReport(n)
  /\ report' = [report EXCEPT ![n] = getNodeStatusReport(n)]
  /\ UNCHANGED <<phase, cluster, seeds, joined, published, faults>>

\* Mutant: the annotation is not read.
NodeStatusReportOmitted(n) == NoReport

\* makeNodeStatusReport: the entry of a joined node, empty while its Pod or the
\* report on it is missing.
makeNodeStatusReport(n) == IF HasPod(n) THEN report[n] ELSE NoReport

\* makeScyllaDBDatacenterNodesStatusReport, makeRackNodesStatusReport: an entry
\* for each joined node.
makeScyllaDBDatacenterNodesStatusReport ==
  [nodes |-> joined,
   of    |-> [n \in Node |-> IF n \in joined THEN makeNodeStatusReport(n) ELSE NoReport]]

\* syncScyllaDBDatacenterNodesStatusReports.
PublishReport ==
  /\ published # makeScyllaDBDatacenterNodesStatusReport
  /\ published' = makeScyllaDBDatacenterNodesStatusReport
  /\ UNCHANGED <<phase, cluster, seeds, joined, report, faults>>

-----------------------------------------------------------------------------

Progress(n) ==
  \/ PassBarrier(n) \/ RunSidecar(n) \/ RestartNode(n) \/ FoundCluster(n)
  \/ JoinCluster(n) \/ FinishJoin(n) \/ CreatePod(n)

BootstrapNext ==
  \/ \E n \in Node :
       \/ PassBarrier(n) \/ RunSidecar(n)
       \/ RestartNode(n) \/ FoundCluster(n) \/ JoinCluster(n) \/ FinishJoin(n)
       \/ CreatePod(n) \/ RestartContainer(n) \/ DeletePod(n)
       \/ SyncAnnotations(n) \/ ReportStatus(n)
  \/ PublishReport

BootstrapSpec == BootstrapInit /\ [][BootstrapNext]_bootstrapVars

\* Each Pod, sidecar and controller makes progress on its own; faults stop.
FairBootstrapSpec ==
  /\ BootstrapSpec
  /\ \A n \in Node : /\ WF_bootstrapVars(Progress(n))
                     /\ WF_bootstrapVars(SyncAnnotations(n)) /\ WF_bootstrapVars(ReportStatus(n))
  /\ WF_bootstrapVars(PublishReport)

-----------------------------------------------------------------------------
(* Properties. *)

\* All nodes that have data belong to one cluster: the seeds that the nodes choose
\* on their own, while others start and restart, never let two of them found or
\* join different clusters.
OneCluster == \A a, b \in Members : cluster[a] = cluster[b]

\* The same as long as no Pod was deleted.  A Pod that is missing when a new node
\* lists its candidates is not ranked, and that node may be left with itself.
OneClusterWhilePodsStay == faults.deletions = 0 => OneCluster

\* What the barrier is to decide, from the state of the cluster itself: no node
\* but the one that asks is down, and every node that is joining has finished.
HealthyFor(self) ==
  /\ \A m \in Members \ {self} : phase[m] = "up"
  /\ \A m \in Node \ {self} : phase[m] # "joining"

\* The barrier's verdict on up-to-date reports is the right one: when every
\* annotation and report shows the present state, the precondition holds for a
\* new node exactly if the cluster is healthy (of one cluster, see above).
PreconditionIsExact ==
  LET fresh == [nodes |-> Members, of |-> [n \in Node |-> getNodeStatusReport(n)]]
  IN Members # {} /\ ~External /\ OneCluster =>
       \A n \in Node \ Members :
         phase[n] # "joining" => (isBootstrapPreconditionSatisfied(fresh, n) <=> HealthyFor(n))

\* Once restarts stop, every node comes up and stays up: nobody waits at the
\* barrier, or for a seed, for someone who waits in turn.  (The nodes of two
\* clusters do wait for each other's hosts for ever.)
EventuallyFormed == <>[](OneCluster => \A n \in Node : phase[n] = "up")

=============================================================================
