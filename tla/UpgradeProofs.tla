--------------------------- MODULE UpgradeProofs ---------------------------
(***************************************************************************)
(* Proofs about Upgrade, for every number of racks, nodes, images and       *)
(* keyspaces and every bound on image changes, faults and restarts.         *)
(***************************************************************************)
EXTENDS Upgrade, FiniteSetTheorems, TLAPS

Partition(r) == sts[r].partition
Replicas(r) == sts[r].replicas
Template(r) == sts[r].template
Current(r) == sts[r].current

NodeCalls == {"maintain", "drain", "snapshotData", "unmaintain", "delete", "lower"}
RunCalls == NodeCalls \cup {"after"}

-----------------------------------------------------------------------------
(* With or without scaling: types, and where snapshots may be. *)

\* The calls of each phase.  A sync only goes on when every rack was rolled out,
\* which none is whose partition is above its replicas, and works on the first
\* rack that has nodes left.
CallsFit ==
  /\ \A r \in Racks : Replicas(r) >= 1
  /\ pc = "idle" => rack = 1
  /\ pc = "begin" => ctx = "none"
  /\ pc \in {"snapshotSystem", "startInit"} => ctx = "PreHooks"
  /\ pc \in {"init", "startRun"} => ctx = "RolloutInit"
  /\ pc \in RunCalls \cup {"endRun"} => ctx = "RolloutRun"
  /\ pc \in {"clearSystem", "deleteContext"} => ctx = "PostHooks"
  /\ pc # "idle" => \A r \in Racks : Partition(r) <= Replicas(r)
  /\ pc \in NodeCalls => Partition(rack) > 0
  /\ pc \in RunCalls => \A q \in Racks : q < rack => Partition(q) = 0
  /\ pc = "endRun" => \A q \in Racks : Partition(q) = 0

\* Only members hold snapshots.  The system snapshot goes before the context.  A
\* data snapshot is that of the node next to upgrade or of the one upgraded last,
\* and the sync that goes on to the next has removed the last.
SnapshotsFit ==
  /\ \A n \in system : n[2] < Replicas(n[1])
  /\ ctx = "none" \/ pc = "deleteContext" => system = {}
  /\ \A n \in Node : data[n] # {} =>
       /\ ctx = "RolloutRun" /\ pc # "endRun"
       /\ n[2] < Replicas(n[1]) /\ n[2] \in {Partition(n[1]) - 1, Partition(n[1])}
       /\ pc \in RunCalls => n[1] >= rack
       /\ pc \in NodeCalls /\ n[1] = rack => n[2] < Partition(rack)

GInv == TypeOK /\ CallsFit /\ SnapshotsFit

-----------------------------------------------------------------------------
(* Without scaling: versions, and nodes that are down. *)

Member(n) == n[2] < InitialNodes
Below(n) == n[2] < Partition(n[1])
Updated(r) == \A n \in Node : n[1] = r /\ Member(n) /\ ~Below(n) => ran[n] = Template(r)

\* Every rack keeps its nodes, and they all have run; the kubelet reports no node
\* ready that has no Pod.
Steady ==
  /\ used.scales = 0
  /\ \A r \in Racks : Replicas(r) = InitialNodes /\ Partition(r) <= InitialNodes
  /\ \A n \in Node : Member(n) => ran[n] \in Images
  /\ \A n \in ready : pod[n] # "none"

\* Partitions are open outside of the rollout and closed at its beginning.
PartitionsFit ==
  /\ ctx \in {"none", "PreHooks", "PostHooks"} => \A r \in Racks : Partition(r) = 0
  /\ ctx = "RolloutInit" => \A r \in Racks : Partition(r) \in {0, InitialNodes}

\* Nodes below the partition run the current revision.  A rack that counts as rolled
\* out has the nodes from the partition up on its template, which is not the current
\* revision before the last of them is; and so it is with every rack during a sync.
RevisionsFit ==
  /\ \A n \in Node : Member(n) /\ Below(n) => ran[n] = Current(n[1])
  /\ \A r \in Racks : 0 < Partition(r) /\ Partition(r) < InitialNodes => Current(r) # Template(r)
  /\ \A r \in Racks : RolledOut(r) =>
       /\ Updated(r)
       /\ Partition(r) > 0 => Current(r) # Template(r)
       /\ Partition(r) = 0 => Current(r) = Template(r)
  /\ pc # "idle" => \A r \in Racks :
       /\ Updated(r)
       /\ Partition(r) = 0 => Current(r) = Template(r)
       /\ pc \in RunCalls /\ Partition(r) > 0 => Current(r) # Template(r)

\* A node from the partition up has the minor version of the template, or else a
\* snapshot; the sync that is about to lower the partition has made it.
BackedUp ==
  /\ \A n \in Node : Member(n) /\ ~Below(n) =>
       MinorVersion(ran[n]) = MinorVersion(Template(n[1])) \/ data[n] # {}
  /\ pc \in {"unmaintain", "delete", "lower"} => data[NextNode] # {}

\* Outside of the rollout there is one minor version m.  While it is prepared the
\* nodes still run m, and then the racks have one template.
MinorIs(m) ==
  /\ ctx # "RolloutRun" => \A n \in Node : Member(n) => MinorVersion(ran[n]) = m
  /\ ctx \in {"none", "PreHooks", "PostHooks"} => \A r \in Racks : MinorVersion(Template(r)) = m
  /\ ctx = "RolloutInit" => \A r \in Racks : Partition(r) = 0 => MinorVersion(Template(r)) = m
  /\ ctx = "RolloutRun" =>
       /\ \A q, r \in Racks : Template(q) = Template(r)
       /\ \A n \in Node : Member(n) => MinorVersion(ran[n]) \in {m, MinorVersion(Template(n[1]))}
       /\ \A r \in Racks : MinorVersion(Current(r)) \in {m, MinorVersion(Template(r))}
InitDone ==
  /\ pc = "init" /\ ~failed => \A q \in Racks : q < rack => Template(q) = want /\ Partition(q) = InitialNodes
  /\ pc = "startRun" /\ ~failed => \A q \in Racks : Template(q) = want /\ Partition(q) = InitialNodes

OneMinor == (\E m : MinorIs(m)) /\ InitDone

\* The node that a rollout has taken down: the one next to upgrade, all nodes before
\* it being upgraded, ...
NextToUpgrade(x) ==
  /\ ctx = "RolloutRun" /\ x[2] = Partition(x[1]) - 1
  /\ \A q \in Racks : q < x[1] => Partition(q) = 0
  /\ \A r \in Racks : Updated(r)
  /\ pc = "lower" => x \notin ready

\* ... or the one that the StatefulSet controller is to start again, in the only rack
\* that has outdated nodes; that rack does not count as rolled out.
BeingRestarted(x) ==
  /\ pc = "idle" /\ x \notin ready /\ ~Below(x) /\ ~RolledOut(x[1])
  /\ \A r \in Racks \ {x[1]} : Updated(r)
  /\ \A n \in Node : n[1] = x[1] /\ n[2] > x[2] /\ Member(n) => ran[n] = Template(x[1])

\* All nodes are up but for those that restarted by themselves, among them H, and the
\* one that a rollout has taken down.
UpBut(H, x) ==
  /\ \A n \in Node : Member(n) /\ n \notin H \cup {x} => pod[n] = "up"
  /\ pod[x] # "up" /\ x \notin H => NextToUpgrade(x) \/ BeingRestarted(x)

SomeDown ==
  \E H \in SUBSET Node, x \in Node :
    Member(x) /\ Cardinality(H) <= used.restarts /\ UpBut(H, x)

\* No two racks have outdated nodes.
OneRackBehind == \A q, r \in Racks : Updated(q) \/ Updated(r) \/ q = r

OneDown == OneRackBehind /\ SomeDown

Versions == Steady /\ PartitionsFit /\ RevisionsFit /\ BackedUp /\ OneMinor
IInv == GInv /\ Versions /\ OneDown

-----------------------------------------------------------------------------
(* Nodes and StatefulSets. *)

LEMMA NodePairs ==
  ASSUME NEW n \in Node
  PROVE  n[1] \in Racks /\ n[2] \in Ord /\ n[2] \in Nat /\ n = <<n[1], n[2]>>
BY UpgradeAssumption DEF Node, Ord

LEMMA PairsAreNodes ==
  ASSUME NEW r \in Racks, NEW o \in Nat, o < MaxNodes
  PROVE  <<r, o>> \in Node /\ <<r, o>>[1] = r /\ <<r, o>>[2] = o
BY UpgradeAssumption DEF Node, Ord

LEMMA AllMembersAre ==
  \A n : n \in AllMembers <=> n \in Node /\ n[2] < Replicas(n[1])
<1> SUFFICES ASSUME NEW n PROVE n \in AllMembers <=> n \in Node /\ n[2] < Replicas(n[1])
  OBVIOUS
<1>1. n \in AllMembers => n \in Node /\ n[2] < Replicas(n[1])
  BY DEF AllMembers, Members, Replicas
<1>2. ASSUME n \in Node, n[2] < Replicas(n[1]) PROVE n \in AllMembers
  <2>1. n[1] \in Racks /\ n \in Members(n[1])
    BY <1>2, NodePairs DEF Members, Replicas
  <2> QED
    BY <2>1 DEF AllMembers
<1> QED
  BY <1>1, <1>2

LEMMA NodesAreFinite == IsFiniteSet(Node)
<1>1. NumRacks \in Nat /\ MaxNodes - 1 \in Int
  BY UpgradeAssumption
<1>2. IsFiniteSet(Racks)
  BY <1>1, FS_Interval DEF Racks
<1>3. IsFiniteSet(Ord)
  BY <1>1, FS_Interval DEF Ord
<1> QED
  BY <1>2, <1>3, FS_Product DEF Node

\* The nodes of a rack in a range of ordinals are as many as the range.
LEMMA RangeOfRack ==
  ASSUME NEW r \in Racks, NEW a \in Nat, NEW b \in Nat, a <= b, b <= MaxNodes,
         NEW S, S = {n \in Node : n[1] = r /\ a <= n[2] /\ n[2] < b}
  PROVE  IsFiniteSet(S) /\ Cardinality(S) = b - a
<1>1. IsFiniteSet(a .. (b - 1)) /\ Cardinality(a .. (b - 1)) = b - a
  BY FS_Interval
<1> DEFINE f == [o \in a .. (b - 1) |-> <<r, o>>]
<1>2. f \in [a .. (b - 1) -> S]
  <2> SUFFICES ASSUME NEW o \in a .. (b - 1) PROVE <<r, o>> \in S
    OBVIOUS
  <2>1. o \in Nat /\ o < MaxNodes /\ a <= o /\ o < b
    BY UpgradeAssumption
  <2> QED
    BY <2>1, PairsAreNodes
<1>3. \A o, q \in a .. (b - 1) : f[o] = f[q] => o = q
  OBVIOUS
<1>4. \A n \in S : \E o \in a .. (b - 1) : f[o] = n
  <2> SUFFICES ASSUME NEW n \in S PROVE \E o \in a .. (b - 1) : f[o] = n
    OBVIOUS
  <2>1. n = <<n[1], n[2]>> /\ n[2] \in Nat /\ n[1] = r /\ a <= n[2] /\ n[2] < b
    BY NodePairs
  <2>2. n[2] \in a .. (b - 1) /\ f[n[2]] = n
    BY <2>1
  <2> QED
    BY <2>2
<1> HIDE DEF f
<1>5. f \in Bijection(a .. (b - 1), S)
  BY <1>2, <1>3, <1>4, Zenon DEF Bijection, Injection, IsInjective, Surjection
<1>6. ExistsBijection(a .. (b - 1), S)
  BY <1>5 DEF ExistsBijection
<1> QED
  BY <1>1, <1>6, FS_Bijection

LEMMA StatefulSetFields ==
  ASSUME NEW s \in StatefulSet
  PROVE  /\ s.replicas \in 0 .. MaxNodes /\ s.partition \in 0 .. MaxNodes
         /\ s.template \in Images /\ s.current \in Images /\ s.observed \in BOOLEAN
         /\ s.readyReplicas \in 0 .. MaxNodes /\ s.updatedReplicas \in 0 .. MaxNodes
         /\ s.replicas \in Nat /\ s.partition \in Nat
         /\ s.readyReplicas \in Nat /\ s.updatedReplicas \in Nat
BY UpgradeAssumption DEF StatefulSet

LEMMA RacksTyped ==
  ASSUME TypeOK, NEW r \in Racks
  PROVE  /\ sts[r] \in StatefulSet
         /\ Replicas(r) \in Nat /\ Partition(r) \in Nat /\ Replicas(r) <= MaxNodes
         /\ Partition(r) <= MaxNodes /\ Template(r) \in Images /\ Current(r) \in Images
BY StatefulSetFields, UpgradeAssumption DEF TypeOK, Replicas, Partition, Template, Current

\* What a write of a StatefulSet's spec changes: its status is of the spec before.
Written(r, image1, partition1) ==
  /\ sts' \in [Racks -> StatefulSet]
  /\ \A q \in Racks \ {r} : sts'[q] = sts[q]
  /\ sts'[r].template = image1 /\ sts'[r].partition = partition1 /\ ~sts'[r].observed
  /\ sts'[r].replicas = sts[r].replicas /\ sts'[r].current = sts[r].current

LEMMA WriteSpec ==
  ASSUME TypeOK, NEW r \in Racks, NEW i \in Images, NEW p \in 0 .. MaxNodes,
         sts' = [sts EXCEPT ![r] = [sts[r] EXCEPT !.template = i, !.observed = FALSE, !.partition = p]]
  PROVE  Written(r, i, p)
<1> DEFINE new == [sts[r] EXCEPT !.template = i, !.observed = FALSE, !.partition = p]
<1>1. sts \in [Racks -> StatefulSet] /\ sts[r] \in StatefulSet
  BY DEF TypeOK
<1>2. /\ new \in StatefulSet /\ new.template = i /\ new.partition = p /\ new.observed = FALSE
      /\ new.replicas = sts[r].replicas /\ new.current = sts[r].current
  BY <1>1 DEF StatefulSet
<1> HIDE DEF new
<1> QED
  BY <1>1, <1>2 DEF Written, new

LEMMA ApplyWrites ==
  ASSUME TypeOK, ApplyStatefulSet
  PROVE  sts' = sts \/ Written(rack, want, RequiredPartition(rack))
<1>1. rack \in Racks /\ want \in Images /\ sts[rack] \in StatefulSet
  BY DEF TypeOK
<1>2. RequiredPartition(rack) \in 0 .. MaxNodes
  BY <1>1, StatefulSetFields DEF RequiredPartition
<1>3. sts' = sts \/ sts' = [sts EXCEPT ![rack] =
                [sts[rack] EXCEPT !.template = want, !.observed = FALSE, !.partition = RequiredPartition(rack)]]
  BY <1>1 DEF ApplyStatefulSet, TypeOK
<1> QED
  BY <1>1, <1>2, <1>3, WriteSpec

LEMMA InitWrites ==
  ASSUME TypeOK, InitRack
  PROVE  \/ rack \notin changed /\ failed' = failed /\ Written(rack, want, sts[rack].replicas)
         \/ /\ sts' = sts /\ rack \notin changed /\ failed' = failed
            /\ sts[rack].template = want /\ sts[rack].partition = sts[rack].replicas
         \/ sts' = sts /\ failed' = TRUE
<1>1. rack \in Racks /\ want \in Images /\ sts[rack] \in StatefulSet
  BY DEF TypeOK
<1>2. sts[rack].replicas \in 0 .. MaxNodes
  BY <1>1, StatefulSetFields
<1>3. ASSUME rack \notin changed, ~(sts[rack].template = want /\ sts[rack].partition = sts[rack].replicas)
      PROVE  sts' = [sts EXCEPT ![rack] =
                [sts[rack] EXCEPT !.template = want, !.observed = FALSE, !.partition = sts[rack].replicas]]
  BY <1>1, <1>3 DEF InitRack, TypeOK
<1> QED
  BY <1>1, <1>2, <1>3, WriteSpec DEF InitRack

LEMMA LowerWrites ==
  ASSUME TypeOK, CallsFit, LowerPartition
  PROVE  Written(rack, sts[rack].template, sts[rack].partition - 1)
<1>1. rack \in Racks /\ sts[rack] \in StatefulSet /\ sts[rack].template \in Images
  BY StatefulSetFields DEF TypeOK
<1>2. sts[rack].partition - 1 \in 0 .. MaxNodes
  <2>1. sts[rack].partition > 0
    BY DEF LowerPartition, CallsFit, NodeCalls, Partition
  <2>2. sts[rack].partition \in Nat /\ sts[rack].partition <= MaxNodes
    BY <1>1, StatefulSetFields, UpgradeAssumption
  <2> QED
    BY <2>1, <2>2, UpgradeAssumption
<1>3. sts' = [sts EXCEPT ![rack] = [sts[rack] EXCEPT !.partition = sts[rack].partition - 1, !.observed = FALSE]]
  BY <1>1 DEF LowerPartition, TypeOK
<1>4. [sts[rack] EXCEPT !.partition = sts[rack].partition - 1, !.observed = FALSE]
        = [sts[rack] EXCEPT !.template = sts[rack].template, !.observed = FALSE,
                            !.partition = sts[rack].partition - 1]
  BY <1>1 DEF StatefulSet
<1> QED
  BY <1>1, <1>2, <1>3, <1>4, WriteSpec

\* The status of a StatefulSet: its spec stays.
LEMMA StatusWrites ==
  ASSUME TypeOK, NEW r \in Racks, UpdateStatus(r)
  PROVE  LET updated == {n \in Members(r) : pod[n] # "none" /\ ran[n] = sts[r].template} IN
         /\ sts' \in [Racks -> StatefulSet]
         /\ \A q \in Racks \ {r} : sts'[q] = sts[q]
         /\ sts'[r].template = sts[r].template /\ sts'[r].partition = sts[r].partition
         /\ sts'[r].replicas = sts[r].replicas
         /\ sts'[r].updatedReplicas = Cardinality(updated)
         /\ sts'[r].readyReplicas = Cardinality(Members(r) \cap ready)
         /\ \/ sts'[r].current = sts[r].current /\ ~(Cardinality(updated) = sts[r].replicas
                   /\ Cardinality(Members(r) \cap ready) = sts[r].replicas)
            \/ sts'[r].current = sts[r].template /\ Cardinality(updated) = sts[r].replicas
               /\ Cardinality(Members(r) \cap ready) = sts[r].replicas
<1> DEFINE U == {n \in Members(r) : pod[n] # "none" /\ ran[n] = sts[r].template}
           u == Cardinality(U)
           y == Cardinality(Members(r) \cap ready)
           c == IF u = sts[r].replicas /\ y = sts[r].replicas THEN sts[r].template ELSE sts[r].current
           new == [sts[r] EXCEPT !.observed = TRUE, !.readyReplicas = y, !.updatedReplicas = u, !.current = c]
<1>1. sts \in [Racks -> StatefulSet] /\ sts[r] \in StatefulSet
  BY DEF TypeOK
<1>2. sts[r].replicas \in Nat /\ sts[r].replicas <= MaxNodes /\ sts[r].template \in Images /\ sts[r].current \in Images
  BY <1>1, StatefulSetFields
<1>3. Members(r) = {n \in Node : n[1] = r /\ 0 <= n[2] /\ n[2] < sts[r].replicas}
  BY NodePairs DEF Members
<1>4. IsFiniteSet(Members(r)) /\ Cardinality(Members(r)) = sts[r].replicas
  <2> DEFINE b == sts[r].replicas
             S == Members(r)
  <2>1. b \in Nat /\ b <= MaxNodes /\ 0 \in Nat /\ 0 <= b /\ b - 0 = b
    BY <1>2
  <2>2. S = {n \in Node : n[1] = r /\ 0 <= n[2] /\ n[2] < b}
    BY <1>3
  <2> HIDE DEF b, S
  <2>3. IsFiniteSet(S) /\ Cardinality(S) = b - 0
    BY <2>1, <2>2, RangeOfRack
  <2> QED
    BY <2>1, <2>3 DEF b, S
<1>5. u \in Nat /\ u <= sts[r].replicas
  <2>1. U \in SUBSET Members(r)
    OBVIOUS
  <2> QED
    BY <1>4, <2>1, FS_Subset, FS_CardinalityType
<1>6. y \in Nat /\ y <= sts[r].replicas
  <2>1. Members(r) \cap ready \in SUBSET Members(r)
    OBVIOUS
  <2> QED
    BY <1>4, <2>1, FS_Subset, FS_CardinalityType
<1>7. u \in 0 .. MaxNodes /\ y \in 0 .. MaxNodes /\ c \in Images
  BY <1>2, <1>5, <1>6, UpgradeAssumption
<1>8. sts' = [sts EXCEPT ![r] = new]
  BY <1>1 DEF UpdateStatus, StatefulSet
<1> HIDE DEF u, y, c
<1>9. /\ new \in StatefulSet /\ new.template = sts[r].template /\ new.partition = sts[r].partition
      /\ new.replicas = sts[r].replicas /\ new.updatedReplicas = u /\ new.readyReplicas = y /\ new.current = c
  BY <1>1, <1>7 DEF StatefulSet
<1> HIDE DEF new
<1>10. /\ sts' \in [Racks -> StatefulSet] /\ sts'[r] = new
       /\ \A q \in Racks \ {r} : sts'[q] = sts[q]
  BY <1>1, <1>8, <1>9
<1> QED
  BY <1>9, <1>10 DEF u, y, c

-----------------------------------------------------------------------------
(* Types and snapshots. *)

LEMMA Budget ==
  ASSUME TypeOK
  PROVE  LET U == [changes : 0 .. MaxChanges, scales : 0 .. MaxScales,
                   faults : 0 .. MaxFaults, restarts : 0 .. MaxRestarts] IN
         /\ Change => used' \in U /\ used'.restarts = used.restarts /\ used'.scales = used.scales
         /\ Scale => used' \in U /\ used'.restarts = used.restarts
         /\ Fault => used' \in U /\ used'.restarts = used.restarts /\ used'.scales = used.scales
         /\ Restart => used' \in U /\ used'.restarts = used.restarts + 1 /\ used'.scales = used.scales
<1> DEFINE U == [changes : 0 .. MaxChanges, scales : 0 .. MaxScales,
                 faults : 0 .. MaxFaults, restarts : 0 .. MaxRestarts]
<1>1. used \in U /\ MaxChanges \in Nat /\ MaxScales \in Nat /\ MaxFaults \in Nat /\ MaxRestarts \in Nat
  BY UpgradeAssumption DEF TypeOK
<1>2. Change => used' \in U /\ used'.restarts = used.restarts /\ used'.scales = used.scales
  BY <1>1 DEF Change
<1>3. Scale => used' \in U /\ used'.restarts = used.restarts
  BY <1>1 DEF Scale
<1>4. Fault => used' \in U /\ used'.restarts = used.restarts /\ used'.scales = used.scales
  BY <1>1 DEF Fault
<1>5. Restart => used' \in U /\ used'.restarts = used.restarts + 1 /\ used'.scales = used.scales
  BY <1>1 DEF Restart
<1> QED
  BY <1>2, <1>3, <1>4, <1>5

LEMMA GInitially == Init => GInv
<1> SUFFICES ASSUME Init PROVE GInv
  OBVIOUS
<1> DEFINE s0 == [replicas |-> InitialNodes, template |-> InitialImage,
              partition |-> 0, observed |-> TRUE, readyReplicas |-> InitialNodes,
              updatedReplicas |-> InitialNodes, current |-> InitialImage]
<1>1. /\ InitialNodes \in Nat /\ InitialNodes >= 1 /\ InitialNodes <= MaxNodes /\ MaxNodes \in Nat
      /\ InitialImage \in Images /\ 1 \in Racks /\ InitialNodes \in 0 .. MaxNodes /\ 0 \in 0 .. MaxNodes
  BY UpgradeAssumption DEF Racks
<1>2. s0 \in StatefulSet
  BY <1>1 DEF StatefulSet
<1>3. sts = [r \in Racks |-> s0]
  BY DEF Init
<1>4. /\ sts \in [Racks -> StatefulSet]
      /\ \A r \in Racks : Replicas(r) = InitialNodes /\ Partition(r) = 0
  BY <1>2, <1>3 DEF Replicas, Partition
<1>5. TypeOK
  <2>1. /\ used \in [changes : 0 .. MaxChanges, scales : 0 .. MaxScales,
                     faults : 0 .. MaxFaults, restarts : 0 .. MaxRestarts]
    BY UpgradeAssumption DEF Init
  <2>2. /\ image \in Images /\ want \in Images /\ rack \in Racks /\ failed \in BOOLEAN /\ changed \subseteq Racks
        /\ maint \subseteq Node /\ ready \subseteq Node /\ system \subseteq Node
    BY <1>1 DEF Init
  <2>3. /\ pod \in [Node -> {"none", "starting", "up", "draining", "drained"}]
        /\ ran \in [Node -> Images \cup {"none"}] /\ data \in [Node -> SUBSET Keyspaces]
    BY <1>1 DEF Init
  <2>4. ctx \in UpgradePhases /\ pc \in Calls
    BY DEF Init, UpgradePhases, Calls
  <2> QED
    BY <1>4, <2>1, <2>2, <2>3, <2>4 DEF TypeOK
<1>6. CallsFit /\ SnapshotsFit
  BY <1>1, <1>4 DEF Init, CallsFit, SnapshotsFit, RunCalls, NodeCalls
<1> QED
  BY <1>5, <1>6 DEF GInv

\* A step that leaves the rollout alone.
LEMMA FitsKept ==
  ASSUME CallsFit, SnapshotsFit, UNCHANGED <<ctx, sts, data, system, pc, rack>>
  PROVE  CallsFit' /\ SnapshotsFit'
BY DEF CallsFit, SnapshotsFit, Replicas, Partition

\* A sync that ends.
LEMMA FitsEnded ==
  ASSUME CallsFit, SnapshotsFit, UNCHANGED <<ctx, sts, data>>, EndSync,
         \/ system' \subseteq system
         \/ ctx # "none" /\ \A n \in system' : n[2] < Replicas(n[1])
  PROVE  CallsFit' /\ SnapshotsFit'
BY DEF CallsFit, SnapshotsFit, Replicas, Partition, EndSync, RunCalls, NodeCalls

LEMMA EndSyncTyped ==
  ASSUME TypeOK, EndSync
  PROVE  want' \in Images /\ pc' \in Calls /\ rack' \in Racks /\ failed' \in BOOLEAN /\ changed' \subseteq Racks
<1>1. 1 \in Racks /\ InitialImage \in Images /\ "idle" \in Calls
  BY UpgradeAssumption DEF Racks, Calls
<1> QED
  BY <1>1 DEF EndSync

LEMMA GotoTyped ==
  ASSUME TypeOK, NEW call \in Calls, Goto(call)
  PROVE  want' \in Images /\ pc' \in Calls /\ rack' \in Racks /\ failed' \in BOOLEAN /\ changed' \subseteq Racks
BY DEF Goto, TypeOK

\* The node that a sync is to upgrade is a member.
LEMMA NextNodeIs ==
  ASSUME TypeOK, CallsFit, pc \in NodeCalls
  PROVE  /\ NextNode \in Node /\ NextNode[1] = rack /\ NextNode[2] = Partition(rack) - 1
         /\ NextNode[2] < Replicas(rack) /\ NextNode[2] \in Nat
         /\ RequiredPartition(rack) = Partition(rack) /\ rack \in Racks
<1>1. rack \in Racks /\ Partition(rack) > 0 /\ Partition(rack) <= Replicas(rack)
  BY DEF TypeOK, CallsFit, NodeCalls
<1>2. Partition(rack) \in Nat /\ Replicas(rack) \in Nat /\ Replicas(rack) <= MaxNodes
  BY <1>1, RacksTyped
<1>3. RequiredPartition(rack) = Partition(rack)
  BY <1>1, <1>2 DEF RequiredPartition, Partition, Replicas
<1>4. Partition(rack) - 1 \in Nat /\ Partition(rack) - 1 < MaxNodes /\ Partition(rack) - 1 < Replicas(rack)
  BY <1>1, <1>2, UpgradeAssumption
<1>5. NextNode = <<rack, Partition(rack) - 1>>
  BY <1>3 DEF NextNode
<1> QED
  BY <1>1, <1>3, <1>4, <1>5, PairsAreNodes

\* The user, the StatefulSet controller, the kubelet and ScyllaDB.
LEMMA GEnvironmentStep ==
  ASSUME GInv,
         \/ \E i \in Images : ChangeImage(i)
         \/ \E n \in Node : NodeStep(n) \/ RestartNode(n)
  PROVE  GInv'
<1>t. TypeOK /\ CallsFit /\ SnapshotsFit
  BY DEF GInv
<1>1. UNCHANGED <<ctx, sts, data, system, pc, rack, want, failed, changed, maint>>
  BY DEF ChangeImage, NodeStep, RestartNode, CreatePod, RestartPod, StartNode, FinishDrain, Readyz,
     clusterVars, syncVars
<1>2. TypeOK'
  <2>1. ASSUME NEW i \in Images, ChangeImage(i) PROVE TypeOK'
    BY <1>t, <1>1, <2>1, Budget DEF TypeOK, ChangeImage, clusterVars
  <2>2. ASSUME NEW n \in Node, CreatePod(n) PROVE TypeOK'
    <3>1. n[1] \in Racks /\ Template(n[1]) \in Images /\ Current(n[1]) \in Images
      BY <1>t, NodePairs, RacksTyped
    <3>2. PICK i \in Images : ran' = [ran EXCEPT ![n] = i]
      BY <2>2, <3>1 DEF CreatePod, Template, Current
    <3>3. pod' = [pod EXCEPT ![n] = "starting"] /\ UNCHANGED <<image, ready, used>>
      BY <2>2 DEF CreatePod
    <3> QED
      BY <1>t, <1>1, <3>2, <3>3 DEF TypeOK
  <2>3. ASSUME NEW n \in Node, RestartPod(n) PROVE TypeOK'
    BY <1>t, <1>1, <2>3 DEF TypeOK, RestartPod
  <2>4. ASSUME NEW n \in Node, StartNode(n) \/ FinishDrain(n) PROVE TypeOK'
    BY <1>t, <1>1, <2>4 DEF TypeOK, StartNode, FinishDrain
  <2>5. ASSUME NEW n \in Node, Readyz(n) PROVE TypeOK'
    BY <1>t, <1>1, <2>5 DEF TypeOK, Readyz
  <2>6. ASSUME NEW n \in Node, RestartNode(n) PROVE TypeOK'
    BY <1>t, <1>1, <2>6, Budget DEF TypeOK, RestartNode
  <2> QED
    BY <2>1, <2>2, <2>3, <2>4, <2>5, <2>6 DEF NodeStep
<1> QED
  BY <1>t, <1>1, <1>2, FitsKept DEF GInv

LEMMA GStatusStep ==
  ASSUME GInv, NEW r \in Racks, UpdateStatus(r)
  PROVE  GInv'
<1>t. TypeOK /\ CallsFit /\ SnapshotsFit
  BY DEF GInv
<1>1. /\ sts' \in [Racks -> StatefulSet]
      /\ \A q \in Racks : sts'[q].template = sts[q].template /\ sts'[q].partition = sts[q].partition
                          /\ sts'[q].replicas = sts[q].replicas
  BY <1>t, StatusWrites
<1>2. UNCHANGED <<image, ctx, maint, pod, ready, ran, data, system, pc, want, rack, failed, used>>
  BY DEF UpdateStatus, clusterVars
<1>3. changed' \subseteq Racks
  BY <1>t DEF UpdateStatus, Touch, TypeOK
<1>4. TypeOK'
  BY <1>t, <1>1, <1>2, <1>3 DEF TypeOK
<1>5. \A q \in Racks : Replicas(q)' = Replicas(q) /\ Partition(q)' = Partition(q)
  BY <1>1 DEF Replicas, Partition
<1>6. rack \in Racks /\ \A n \in Node : n[1] \in Racks
  BY <1>t, NodePairs DEF TypeOK
<1>7. CallsFit'
  BY <1>t, <1>2, <1>5, <1>6 DEF CallsFit
<1>8. SnapshotsFit'
  <2>1. \A n \in system : n[1] \in Racks
    BY <1>t, <1>6 DEF TypeOK
  <2> QED
    BY <1>t, <1>2, <1>5, <1>6, <2>1 DEF SnapshotsFit
<1> QED
  BY <1>4, <1>7, <1>8 DEF GInv

\* A write of the replicas.
LEMMA ScaleWrites ==
  ASSUME TypeOK, NEW r \in Racks, NEW k \in 0 .. MaxNodes,
         sts' = [sts EXCEPT ![r] = [sts[r] EXCEPT !.replicas = k, !.observed = FALSE]]
  PROVE  /\ sts' \in [Racks -> StatefulSet]
         /\ \A q \in Racks : Partition(q)' = Partition(q)
         /\ \A q \in Racks \ {r} : Replicas(q)' = Replicas(q)
         /\ Replicas(r)' = k
<1> DEFINE new == [sts[r] EXCEPT !.replicas = k, !.observed = FALSE]
<1>1. sts \in [Racks -> StatefulSet] /\ sts[r] \in StatefulSet
  BY DEF TypeOK
<1>2. new \in StatefulSet /\ new.replicas = k /\ new.partition = sts[r].partition
  BY <1>1 DEF StatefulSet
<1> HIDE DEF new
<1> QED
  BY <1>1, <1>2 DEF Partition, Replicas, new

LEMMA GScaleStep ==
  ASSUME GInv, NEW r \in Racks, ScaleDown(r) \/ ScaleUp(r)
  PROVE  GInv'
<1>t. TypeOK /\ CallsFit /\ SnapshotsFit
  BY DEF GInv
<1>r. sts[r] \in StatefulSet /\ Replicas(r) \in Nat /\ Replicas(r) <= MaxNodes /\ Replicas(r) >= 1
  BY <1>t, RacksTyped DEF CallsFit
<1>u. /\ UNCHANGED <<image, ctx, want, pc, rack, failed, changed>> /\ pc = "idle"
      /\ used' \in [changes : 0 .. MaxChanges, scales : 0 .. MaxScales,
                    faults : 0 .. MaxFaults, restarts : 0 .. MaxRestarts]
  BY <1>t, Budget DEF ScaleDown, ScaleUp, syncVars
<1>n. \A n \in Node : n[1] \in Racks /\ n[2] \in Nat /\ n = <<n[1], n[2]>>
  BY NodePairs
<1>1. CASE ScaleDown(r)
  <2> DEFINE k == Replicas(r) - 1
             top == <<r, k>>
  <2>1. k \in Nat /\ k >= 1 /\ k < MaxNodes /\ k \in 0 .. MaxNodes
    BY <1>1, <1>r, UpgradeAssumption DEF ScaleDown, Replicas
  <2>2. top \in Node
    BY <2>1, PairsAreNodes
  <2>3. sts' = [sts EXCEPT ![r] = [sts[r] EXCEPT !.replicas = k, !.observed = FALSE]]
    BY <1>1, <1>t DEF ScaleDown, Replicas, TypeOK
  <2>4. /\ pod' = [pod EXCEPT ![top] = "none"] /\ ran' = [ran EXCEPT ![top] = "none"]
        /\ data' = [data EXCEPT ![top] = {}]
        /\ maint' = maint \ {top} /\ ready' = ready \ {top} /\ system' = system \ {top}
    BY <1>1 DEF ScaleDown, Replicas
  <2> HIDE DEF k
  <2>5. /\ sts' \in [Racks -> StatefulSet]
        /\ \A q \in Racks : Partition(q)' = Partition(q)
        /\ \A q \in Racks \ {r} : Replicas(q)' = Replicas(q)
        /\ Replicas(r)' = k
    BY <1>t, <2>1, <2>3, ScaleWrites
  <2>6. TypeOK'
    BY <1>t, <1>u, <2>2, <2>4, <2>5 DEF TypeOK
  <2>7. CallsFit'
    BY <1>t, <1>u, <2>1, <2>5 DEF CallsFit, RunCalls, NodeCalls
  <2>8. ASSUME NEW n \in Node, n # top, n[2] < Replicas(n[1]) PROVE n[2] < Replicas(n[1])'
    <3>1. CASE n[1] = r
      <4>1. n[2] # k
        BY <1>n, <2>8, <3>1
      <4> QED
        BY <1>n, <1>r, <2>1, <2>5, <2>8, <3>1, <4>1 DEF k
    <3>2. CASE n[1] # r
      BY <1>n, <2>5, <2>8, <3>2
    <3> QED
      BY <3>1, <3>2
  <2>9. \A n \in Node : data'[n] # {} => n # top /\ data[n] # {}
    BY <1>t, <2>4 DEF TypeOK
  <2>10. system' \subseteq Node /\ \A n \in system' : n # top /\ n \in system
    BY <1>t, <2>4 DEF TypeOK
  <2>11. SnapshotsFit'
    BY <1>t, <1>u, <1>n, <2>4, <2>5, <2>8, <2>9, <2>10 DEF SnapshotsFit, RunCalls, NodeCalls
  <2> QED
    BY <2>6, <2>7, <2>11 DEF GInv
<1>2. CASE ScaleUp(r)
  <2> DEFINE k == Replicas(r) + 1
  <2>1. k \in Nat /\ k >= 1 /\ k \in 0 .. MaxNodes
    BY <1>2, <1>r, UpgradeAssumption DEF ScaleUp, Replicas
  <2>2. sts' = [sts EXCEPT ![r] = [sts[r] EXCEPT !.replicas = k, !.observed = FALSE]]
    BY <1>2, <1>t DEF ScaleUp, Replicas, TypeOK
  <2>3. UNCHANGED <<maint, pod, ready, ran, data, system>>
    BY <1>2 DEF ScaleUp, clusterVars
  <2> HIDE DEF k
  <2>4. /\ sts' \in [Racks -> StatefulSet]
        /\ \A q \in Racks : Partition(q)' = Partition(q)
        /\ \A q \in Racks \ {r} : Replicas(q)' = Replicas(q)
        /\ Replicas(r)' = k
    BY <1>t, <2>1, <2>2, ScaleWrites
  <2>5. TypeOK'
    BY <1>t, <1>u, <2>3, <2>4 DEF TypeOK
  <2>6. CallsFit'
    BY <1>t, <1>u, <2>1, <2>4 DEF CallsFit, RunCalls, NodeCalls
  <2>7. \A n \in Node : n[2] < Replicas(n[1]) => n[2] < Replicas(n[1])'
    BY <1>n, <1>r, <2>1, <2>4 DEF k
  <2>8. system \subseteq Node
    BY <1>t DEF TypeOK
  <2>9. SnapshotsFit'
    BY <1>t, <1>u, <1>n, <2>3, <2>4, <2>7, <2>8 DEF SnapshotsFit, RunCalls, NodeCalls
  <2> QED
    BY <2>5, <2>6, <2>9 DEF GInv
<1> QED
  BY <1>1, <1>2

\* The phases around the rollout.
LEMMA GPhaseStep ==
  ASSUME GInv,
         \/ StartSync \/ HookFails \/ Abort \/ StartUpgrade \/ SkipRack
         \/ SnapshotSystem \/ SetPhase("startInit", "RolloutInit") \/ StartRun
         \/ EndRun \/ ClearSystem \/ DeleteContext
  PROVE  GInv'
<1>t. TypeOK /\ CallsFit /\ SnapshotsFit
  BY DEF GInv
<1>1. CASE StartSync
  <2>1. /\ pc = "idle" /\ pc' = FirstCall[ctx] /\ want' = image
        /\ UNCHANGED <<image, ctx, sts, maint, pod, ready, ran, data, system, rack, failed, changed, used>>
    BY <1>1 DEF StartSync, clusterVars
  <2>2. /\ ctx = "none" => pc' = "begin"
        /\ ctx = "PreHooks" => pc' = "snapshotSystem"
        /\ ctx = "RolloutInit" => pc' = "init"
        /\ ctx = "RolloutRun" => pc' = "after"
        /\ ctx = "PostHooks" => pc' = "clearSystem"
    BY <2>1 DEF FirstCall
  <2>3. ctx \in {"none", "PreHooks", "RolloutInit", "RolloutRun", "PostHooks"}
    BY <1>t DEF TypeOK, UpgradePhases
  <2>4. pc' \in {"begin", "snapshotSystem", "init", "after", "clearSystem"}
    BY <2>2, <2>3
  <2>5. TypeOK'
    BY <1>t, <2>1, <2>4 DEF TypeOK, Calls
  <2>6. \A r \in Racks : Partition(r) <= Replicas(r)
    <3> SUFFICES ASSUME NEW r \in Racks PROVE Partition(r) <= Replicas(r)
      OBVIOUS
    <3>1. sts[r].updatedReplicas = sts[r].replicas - sts[r].partition
      BY <1>1 DEF StartSync, RolledOut
    <3> QED
      BY <1>t, <3>1, RacksTyped, StatefulSetFields DEF Partition, Replicas
  <2>7. rack = 1
    BY <1>t, <2>1 DEF CallsFit
  <2>8. CallsFit'
    BY <1>t, <2>1, <2>2, <2>3, <2>4, <2>6, <2>7 DEF CallsFit, RunCalls, NodeCalls, Partition, Replicas, Racks
  <2>9. SnapshotsFit'
    BY <1>t, <2>1, <2>2, <2>3, <2>4, <2>7, NodePairs DEF SnapshotsFit, RunCalls, NodeCalls, Partition, Replicas, Racks
  <2> QED
    BY <2>5, <2>8, <2>9 DEF GInv
<1>2. CASE HookFails \/ Abort
  <2>1. EndSync /\ UNCHANGED <<image, ctx, sts, maint, pod, ready, ran, data, system>>
    BY <1>2 DEF HookFails, Abort, clusterVars
  <2>2. used' \in [changes : 0 .. MaxChanges, scales : 0 .. MaxScales,
                   faults : 0 .. MaxFaults, restarts : 0 .. MaxRestarts]
    BY <1>2, <1>t, Budget DEF HookFails, Abort, TypeOK
  <2>3. TypeOK'
    BY <1>t, <2>1, <2>2, EndSyncTyped DEF TypeOK
  <2>4. UNCHANGED <<ctx, sts, data>> /\ system' \subseteq system
    BY <2>1
  <2> QED
    BY <1>t, <2>1, <2>3, <2>4, FitsEnded DEF GInv
<1>3. CASE SkipRack
  <2>1. UNCHANGED <<image, ctx, sts, maint, pod, ready, ran, data, system, used>> /\ pc = "begin"
    BY <1>3 DEF SkipRack, clusterVars
  <2>2. CASE EndSync
    <3>1. TypeOK'
      BY <1>t, <2>1, <2>2, EndSyncTyped DEF TypeOK
    <3>2. UNCHANGED <<ctx, sts, data>> /\ system' \subseteq system
      BY <2>1
    <3> QED
      BY <1>t, <2>2, <3>1, <3>2, FitsEnded DEF GInv
  <2>3. CASE rack < NumRacks /\ rack' = rack + 1 /\ UNCHANGED <<pc, want, failed, changed>>
    <3>1. rack' \in Racks
      BY <1>t, <2>3, UpgradeAssumption DEF TypeOK, Racks
    <3>2. TypeOK'
      BY <1>t, <2>1, <2>3, <3>1 DEF TypeOK
    <3>3. CallsFit' /\ SnapshotsFit'
      BY <1>t, <2>1, <2>3 DEF CallsFit, SnapshotsFit, RunCalls, NodeCalls, Partition, Replicas
    <3> QED
      BY <3>2, <3>3 DEF GInv
  <2> QED
    BY <1>3, <2>2, <2>3 DEF SkipRack
<1>4. ASSUME NEW call, NEW phase \in UpgradePhases, SetPhase(call, phase),
             \/ <<call, phase>> \in {<<"begin", "PreHooks">>, <<"startInit", "RolloutInit">>,
                                     <<"startRun", "RolloutRun">>, <<"endRun", "PostHooks">>,
                                     <<"deleteContext", "none">>}
             \/ phase = ctx
      PROVE  GInv'
  <2>1. pc = call /\ ctx' = phase /\ EndSync /\ UNCHANGED <<image, sts, maint, pod, ready, ran, data, system, used>>
    BY <1>4 DEF SetPhase, clusterVars
  <2>2. TypeOK'
    BY <1>t, <2>1, EndSyncTyped DEF TypeOK
  <2>3. CASE phase = ctx
    <3>1. UNCHANGED <<ctx, sts, data>> /\ system' \subseteq system
      BY <2>1, <2>3
    <3> QED
      BY <1>t, <2>1, <2>2, <3>1, FitsEnded DEF GInv
  <2>4. CASE <<call, phase>> \in {<<"begin", "PreHooks">>, <<"startInit", "RolloutInit">>,
                                  <<"startRun", "RolloutRun">>, <<"endRun", "PostHooks">>,
                                  <<"deleteContext", "none">>}
    <3>1. \A n \in Node : data[n] = {}
      <4>1. ctx # "RolloutRun" \/ pc = "endRun"
        BY <1>t, <2>1, <2>4 DEF CallsFit
      <4> QED
        BY <1>t, <4>1 DEF SnapshotsFit
    <3>2. phase = "none" => system = {}
      BY <1>t, <2>1, <2>4 DEF SnapshotsFit
    <3>3. CallsFit' /\ SnapshotsFit'
      BY <1>t, <2>1, <3>1, <3>2 DEF CallsFit, SnapshotsFit, EndSync, RunCalls, NodeCalls, Partition, Replicas
    <3> QED
      BY <2>2, <3>3 DEF GInv
  <2> QED
    BY <1>4, <2>3, <2>4
<1>5. CASE StartUpgrade \/ SetPhase("startInit", "RolloutInit") \/ StartRun \/ EndRun \/ DeleteContext
  BY <1>4, <1>5, <1>t DEF StartUpgrade, StartRun, EndRun, DeleteContext, UpgradePhases, TypeOK
<1>6. CASE SnapshotSystem \/ ClearSystem
  <2>1. /\ UNCHANGED <<image, ctx, sts, maint, pod, ready, ran, data>>
        /\ ctx \in {"PreHooks", "PostHooks"}
    BY <1>6, <1>t DEF SnapshotSystem, ClearSystem, CallsFit
  <2>2. /\ system' \subseteq Node /\ \A n \in system' : n[2] < Replicas(n[1])
    <3>1. system \cup AllMembers \subseteq Node /\ \A n \in system \cup AllMembers : n[2] < Replicas(n[1])
      BY <1>t, AllMembersAre DEF SnapshotsFit, TypeOK
    <3>2. system' \subseteq system \cup AllMembers
      BY <1>6 DEF SnapshotSystem, ClearSystem
    <3> QED
      BY <3>1, <3>2
  <2>3. CASE EndSync /\ Fault
    <3>1. TypeOK'
      BY <1>t, <2>1, <2>2, <2>3, EndSyncTyped, Budget DEF TypeOK
    <3> QED
      BY <1>t, <2>1, <2>2, <2>3, <3>1, FitsEnded DEF GInv
  <2>4. CASE SnapshotSystem /\ Goto("startInit") /\ UNCHANGED used
    <3>1. TypeOK'
      BY <1>t, <2>1, <2>2, <2>4, GotoTyped DEF TypeOK, Calls
    <3>2. pc = "snapshotSystem" /\ ctx = "PreHooks" /\ pc' = "startInit" /\ rack' = rack
      BY <1>t, <2>4 DEF SnapshotSystem, Goto, CallsFit
    <3>3. CallsFit' /\ SnapshotsFit'
      BY <1>t, <2>1, <2>2, <3>2 DEF CallsFit, SnapshotsFit, RunCalls, NodeCalls, Partition, Replicas
    <3> QED
      BY <3>1, <3>3 DEF GInv
  <2>5. CASE ClearSystem /\ Goto("deleteContext") /\ UNCHANGED used /\ system' = system \ AllMembers
    <3>1. TypeOK'
      BY <1>t, <2>1, <2>2, <2>5, GotoTyped DEF TypeOK, Calls
    <3>2. pc = "clearSystem" /\ ctx = "PostHooks" /\ pc' = "deleteContext" /\ rack' = rack
      BY <1>t, <2>5 DEF ClearSystem, Goto, CallsFit
    <3>3. system' = {}
      BY <1>t, <2>5, AllMembersAre DEF SnapshotsFit, TypeOK
    <3>4. CallsFit' /\ SnapshotsFit'
      BY <1>t, <2>1, <3>2, <3>3 DEF CallsFit, SnapshotsFit, RunCalls, NodeCalls, Partition, Replicas
    <3> QED
      BY <3>1, <3>4 DEF GInv
  <2> QED
    BY <1>6, <2>3, <2>4, <2>5 DEF SnapshotSystem, ClearSystem
<1> QED
  BY <1>1, <1>2, <1>3, <1>5, <1>6

\* The writes of StatefulSets.
LEMMA GWriteStep ==
  ASSUME GInv, ApplyStatefulSet \/ InitRack \/ LowerPartition
  PROVE  GInv'
<1>t. TypeOK /\ CallsFit /\ SnapshotsFit
  BY DEF GInv
<1>r. rack \in Racks /\ Partition(rack) \in Nat /\ Replicas(rack) \in Nat /\ Partition(rack) <= Replicas(rack)
  BY <1>t, RacksTyped DEF TypeOK, CallsFit, ApplyStatefulSet, InitRack, LowerPartition
<1>q. RequiredPartition(rack) = Partition(rack)
  BY <1>r DEF RequiredPartition, Partition, Replicas
<1>u. UNCHANGED <<image, ctx, maint, pod, ready, ran, data, system, used>>
  BY DEF ApplyStatefulSet, InitRack, LowerPartition, clusterVars
<1>n. \A n \in Node : n[1] \in Racks /\ n[2] \in Nat
  BY NodePairs
<1>m. system \subseteq Node
  BY <1>t DEF TypeOK
<1>1. CASE ApplyStatefulSet
  <2>1. EndSync /\ pc = "begin" /\ ctx = "none"
    BY <1>1, <1>t DEF ApplyStatefulSet, CallsFit
  <2>2. /\ sts' \in [Racks -> StatefulSet]
        /\ \A q \in Racks : Partition(q)' = Partition(q) /\ Replicas(q)' = Replicas(q)
    BY <1>1, <1>t, <1>q, <1>r, ApplyWrites DEF Written, Partition, Replicas, TypeOK
  <2>3. TypeOK'
    BY <1>t, <1>u, <2>1, <2>2, EndSyncTyped DEF TypeOK
  <2>4. CallsFit'
    BY <1>t, <1>u, <2>1, <2>2 DEF CallsFit, EndSync, RunCalls, NodeCalls
  <2>5. SnapshotsFit'
    BY <1>t, <1>u, <1>n, <1>m, <2>1, <2>2 DEF SnapshotsFit, EndSync, RunCalls, NodeCalls
  <2> QED
    BY <2>3, <2>4, <2>5 DEF GInv
<1>2. CASE InitRack
  <2>1. /\ pc = "init" /\ ctx = "RolloutInit" /\ pc' \in {"init", "startRun"} /\ UNCHANGED <<want, changed>>
        /\ rack' \in Racks /\ failed' \in BOOLEAN
    <3>1. rack' \in Racks
      BY <1>2, <1>r, UpgradeAssumption DEF InitRack, Racks
    <3> QED
      BY <1>2, <1>t, <3>1 DEF InitRack, CallsFit, TypeOK
  <2>2. /\ sts' \in [Racks -> StatefulSet]
        /\ \A q \in Racks : Replicas(q)' = Replicas(q) /\ Partition(q)' \in {Partition(q), Replicas(q)}
    BY <1>2, <1>t, InitWrites DEF Written, Partition, Replicas, TypeOK
  <2>3. TypeOK'
    BY <1>t, <1>u, <2>1, <2>2 DEF TypeOK, Calls
  <2>4. CallsFit'
    <3>1. \A q \in Racks : Replicas(q) \in Nat /\ Partition(q) <= Replicas(q)
      BY <1>t, <2>1, RacksTyped DEF CallsFit
    <3> QED
      BY <1>t, <1>u, <2>1, <2>2, <3>1 DEF CallsFit, RunCalls, NodeCalls
  <2>5. SnapshotsFit'
    <3>1. \A n \in Node : data[n] = {}
      BY <1>t, <2>1 DEF SnapshotsFit
    <3> QED
      BY <1>t, <1>u, <1>n, <1>m, <2>1, <2>2, <3>1 DEF SnapshotsFit
  <2> QED
    BY <2>3, <2>4, <2>5 DEF GInv
<1>3. CASE LowerPartition
  <2>1. EndSync /\ pc = "lower" /\ ctx = "RolloutRun" /\ Partition(rack) > 0
    BY <1>3, <1>t DEF LowerPartition, CallsFit, RunCalls, NodeCalls
  <2>2. /\ sts' \in [Racks -> StatefulSet]
        /\ \A q \in Racks : Replicas(q)' = Replicas(q)
        /\ \A q \in Racks \ {rack} : Partition(q)' = Partition(q)
        /\ \A q \in Racks : q = rack => Partition(q)' = Partition(rack) - 1
    BY <1>3, <1>t, LowerWrites DEF Written, Partition, Replicas
  <2>3. TypeOK'
    BY <1>t, <1>u, <2>1, <2>2, EndSyncTyped DEF TypeOK
  <2>4. CallsFit'
    BY <1>t, <1>u, <2>1, <2>2 DEF CallsFit, EndSync, RunCalls, NodeCalls
  <2>5. SnapshotsFit'
    <3>1. ASSUME NEW n \in Node, data'[n] # {}
          PROVE  /\ n[2] < Replicas(n[1])'
                 /\ n[2] \in {Partition(n[1])' - 1, Partition(n[1])'}
      <4>1. /\ data[n] # {} /\ n[1] \in Racks /\ n[2] \in Nat
            /\ n[2] < Replicas(n[1]) /\ n[2] \in {Partition(n[1]) - 1, Partition(n[1])}
            /\ n[1] = rack => n[2] < Partition(rack)
        BY <1>t, <1>u, <1>n, <2>1, <3>1 DEF SnapshotsFit, NodeCalls
      <4>2. CASE n[1] = rack
        BY <1>r, <2>2, <4>1, <4>2
      <4>3. CASE n[1] # rack
        BY <2>2, <4>1, <4>3
      <4> QED
        BY <4>2, <4>3
    <3>2. \A n \in system' : n[2] < Replicas(n[1])'
      BY <1>t, <1>u, <1>n, <1>m, <2>2 DEF SnapshotsFit
    <3>3. pc' = "idle" /\ ctx' = "RolloutRun"
      BY <1>u, <2>1 DEF EndSync
    <3> QED
      BY <3>1, <3>2, <3>3 DEF SnapshotsFit, RunCalls, NodeCalls
  <2> QED
    BY <2>3, <2>4, <2>5 DEF GInv
<1> QED
  BY <1>1, <1>2, <1>3

\* The hooks of a node.
LEMMA GNodeCallStep ==
  ASSUME GInv, Maintain \/ Drain \/ SnapshotData \/ Unmaintain \/ DeletePod
  PROVE  GInv'
<1>t. TypeOK /\ CallsFit /\ SnapshotsFit
  BY DEF GInv
<1>c. pc \in NodeCalls \ {"lower"} /\ ctx = "RolloutRun"
  BY <1>t DEF Maintain, Drain, SnapshotData, Unmaintain, DeletePod, CallsFit, RunCalls, NodeCalls
<1>x. /\ NextNode \in Node /\ NextNode[1] = rack /\ NextNode[2] = Partition(rack) - 1
      /\ NextNode[2] < Replicas(rack) /\ NextNode[2] \in Nat /\ rack \in Racks
  BY <1>t, <1>c, NextNodeIs
<1>u. UNCHANGED <<image, ctx, sts, ran, system>>
  BY DEF Maintain, Drain, SnapshotData, Unmaintain, DeletePod
<1>v. used' \in [changes : 0 .. MaxChanges, scales : 0 .. MaxScales,
                 faults : 0 .. MaxFaults, restarts : 0 .. MaxRestarts]
  BY <1>t, Budget DEF Maintain, Drain, SnapshotData, Unmaintain, DeletePod, TypeOK
<1>1. (pc' \in NodeCalls /\ UNCHANGED <<want, rack, failed, changed>>) \/ EndSync
  BY DEF Maintain, Drain, SnapshotData, Unmaintain, DeletePod, Goto, NodeCalls
<1>2. want' \in Images /\ pc' \in Calls /\ rack' \in Racks /\ failed' \in BOOLEAN /\ changed' \subseteq Racks
  BY <1>t, <1>1, EndSyncTyped DEF TypeOK, NodeCalls, Calls
<1>3. CallsFit'
  BY <1>t, <1>c, <1>u, <1>1 DEF CallsFit, EndSync, RunCalls, NodeCalls, Partition, Replicas
<1>4. /\ maint' \subseteq Node /\ ready' \subseteq Node
      /\ pod' \in [Node -> {"none", "starting", "up", "draining", "drained"}]
  BY <1>t, <1>x DEF Maintain, Drain, SnapshotData, Unmaintain, DeletePod, TypeOK
<1>5. data' \in [Node -> SUBSET Keyspaces] /\ \A n \in Node : n # NextNode => data'[n] = data[n]
  <2>1. CASE UNCHANGED data
    BY <1>t, <2>1 DEF TypeOK
  <2>2. CASE SnapshotData
    <3>1. data[NextNode] \in SUBSET Keyspaces
      BY <1>t, <1>x DEF TypeOK
    <3>2. PICK S \in SUBSET Keyspaces : data' = [data EXCEPT ![NextNode] = S]
      <4>1. CASE data' = [data EXCEPT ![NextNode] = Backup(data[NextNode])]
        BY <3>1, <4>1 DEF Backup
      <4>2. CASE \E S \in SUBSET Keyspaces \ {Keyspaces} : data' = [data EXCEPT ![NextNode] = S]
        BY <4>2
      <4>3. data' = [data EXCEPT ![NextNode] = Backup(@)] => data' = [data EXCEPT ![NextNode] = Backup(data[NextNode])]
        BY <1>t, <1>x DEF TypeOK
      <4> QED
        BY <2>2, <4>1, <4>2, <4>3 DEF SnapshotData
    <3> QED
      BY <1>t, <3>2 DEF TypeOK
  <2> QED
    BY <2>1, <2>2 DEF Maintain, Drain, Unmaintain, DeletePod
<1>6. TypeOK'
  BY <1>t, <1>u, <1>v, <1>2, <1>4, <1>5 DEF TypeOK
<1>7. SnapshotsFit'
  <2>1. ASSUME NEW n \in Node, data'[n] # {}
        PROVE  /\ n[2] < Replicas(n[1]) /\ n[2] \in {Partition(n[1]) - 1, Partition(n[1])}
               /\ n[1] >= rack /\ (n[1] = rack => n[2] < Partition(rack))
    <3>1. CASE n = NextNode
      BY <1>x, <3>1, <1>t, RacksTyped DEF Racks
    <3>2. CASE n # NextNode
      BY <1>t, <1>c, <1>5, <2>1, <3>2 DEF SnapshotsFit, RunCalls
    <3> QED
      BY <3>1, <3>2
  <2>2. (pc' \in NodeCalls /\ rack' = rack) \/ pc' = "idle"
    BY <1>1 DEF EndSync
  <2>3. pc' \notin {"endRun", "deleteContext"} /\ ctx' = "RolloutRun"
    BY <1>c, <1>u, <2>2 DEF NodeCalls
  <2>4. \A r : Replicas(r)' = Replicas(r) /\ Partition(r)' = Partition(r)
    BY <1>u DEF Replicas, Partition
  <2>5. \A n \in system' : n[2] < Replicas(n[1])
    BY <1>t, <1>u DEF SnapshotsFit
  <2> QED
    BY <2>1, <2>2, <2>3, <2>4, <2>5 DEF SnapshotsFit, RunCalls, NodeCalls
<1> QED
  BY <1>3, <1>6, <1>7 DEF GInv

LEMMA GAfterStep ==
  ASSUME GInv, AfterNodeUpgrade
  PROVE  GInv'
<1>t. TypeOK /\ CallsFit /\ SnapshotsFit
  BY DEF GInv
<1>c. pc = "after" /\ ctx = "RolloutRun" /\ UNCHANGED <<image, ctx, sts, maint, pod, ready, ran, system, used>>
  BY <1>t DEF AfterNodeUpgrade, CallsFit, RunCalls
<1>r. /\ rack \in Racks /\ Partition(rack) \in Nat /\ Replicas(rack) \in Nat
      /\ Partition(rack) <= Replicas(rack) /\ Replicas(rack) >= 1
  BY <1>t, <1>c, RacksTyped DEF TypeOK, CallsFit
<1>q. RequiredPartition(rack) = Partition(rack)
  BY <1>r DEF RequiredPartition, Partition, Replicas
<1>l. LastNode = <<rack, Partition(rack)>> /\ LastNode[1] = rack /\ LastNode[2] = Partition(rack)
  BY <1>q DEF LastNode
<1>n. \A n \in Node : n[1] \in Racks /\ n[2] \in Nat /\ n = <<n[1], n[2]>>
  BY NodePairs
<1>1. data' = IF Partition(rack) < Replicas(rack) THEN [data EXCEPT ![LastNode] = {}] ELSE data
  BY <1>q DEF AfterNodeUpgrade, RemoveDataSnapshot, Replicas
<1>2. /\ data' \in [Node -> SUBSET Keyspaces]
      /\ \A n \in Node : data'[n] # {} => data[n] # {} /\ n # LastNode
  <2>1. data' \in [Node -> SUBSET Keyspaces] /\ \A n \in Node : data'[n] # {} => data[n] # {}
    BY <1>t, <1>1 DEF TypeOK
  <2>2. ASSUME NEW n \in Node, data'[n] # {}, n = LastNode PROVE FALSE
    <3>1. Partition(rack) < Replicas(rack)
      BY <1>t, <1>l, <2>1, <2>2 DEF SnapshotsFit
    <3> QED
      BY <1>1, <1>t, <2>2, <3>1 DEF TypeOK
  <2> QED
    BY <2>1, <2>2
<1>3. \/ Partition(rack) > 0 /\ Goto("maintain")
      \/ /\ Partition(rack) = 0 /\ rack < NumRacks /\ rack' = rack + 1
         /\ UNCHANGED <<pc, want, failed, changed>>
      \/ Partition(rack) = 0 /\ rack = NumRacks /\ Goto("endRun")
  <2> DEFINE p == RequiredPartition(rack)
  <2>1. p \in Nat /\ rack <= NumRacks /\ rack \in Nat /\ NumRacks \in Nat
    BY <1>q, <1>r, UpgradeAssumption DEF Racks
  <2>2. CASE p > 0
    BY <1>q, <2>1, <2>2 DEF AfterNodeUpgrade
  <2>3. CASE p = 0 /\ rack < NumRacks
    BY <1>q, <2>1, <2>3 DEF AfterNodeUpgrade
  <2>4. CASE p = 0 /\ rack = NumRacks
    BY <1>q, <2>1, <2>4 DEF AfterNodeUpgrade
  <2> QED
    BY <2>1, <2>2, <2>3, <2>4
<1>4. /\ want' \in Images /\ pc' \in {"after", "maintain", "endRun"} /\ rack' \in Racks
      /\ failed' \in BOOLEAN /\ changed' \subseteq Racks
  <2>1. rack < NumRacks => rack + 1 \in Racks
    BY <1>r, UpgradeAssumption DEF Racks
  <2> QED
    BY <1>t, <1>c, <1>3, <2>1 DEF TypeOK, Goto
<1>5. TypeOK'
  BY <1>t, <1>c, <1>2, <1>4 DEF TypeOK, Calls
<1>6. \A r : Replicas(r)' = Replicas(r) /\ Partition(r)' = Partition(r)
  BY <1>c DEF Replicas, Partition
<1>7. \A q \in Racks : q \in Nat /\ q <= NumRacks
  BY UpgradeAssumption DEF Racks
<1>8. CallsFit'
  <2>1. \A q \in Racks : q < rack => Partition(q) = 0
    BY <1>t, <1>c DEF CallsFit, RunCalls
  <2>2. \A q \in Racks : Replicas(q) >= 1 /\ Partition(q) <= Replicas(q)
    BY <1>t, <1>c DEF CallsFit
  <2>3. CASE Partition(rack) > 0 /\ Goto("maintain")
    BY <1>c, <1>6, <2>1, <2>2, <2>3 DEF CallsFit, Goto, RunCalls, NodeCalls
  <2>4. CASE /\ Partition(rack) = 0 /\ rack < NumRacks /\ rack' = rack + 1
             /\ UNCHANGED <<pc, want, failed, changed>>
    <3>1. \A q \in Racks : q < rack' => Partition(q) = 0
      BY <1>7, <1>r, <2>1, <2>4
    <3> QED
      BY <1>c, <1>6, <2>2, <2>4, <3>1 DEF CallsFit, RunCalls, NodeCalls
  <2>5. CASE Partition(rack) = 0 /\ rack = NumRacks /\ Goto("endRun")
    <3>1. \A q \in Racks : Partition(q) = 0
      BY <1>7, <1>r, <2>1, <2>5
    <3> QED
      BY <1>c, <1>6, <2>2, <2>5, <3>1 DEF CallsFit, Goto, RunCalls, NodeCalls
  <2> QED
    BY <1>3, <2>3, <2>4, <2>5
<1>9. SnapshotsFit'
  <2>1. ASSUME NEW n \in Node, data'[n] # {}
        PROVE  /\ n[2] < Replicas(n[1]) /\ n[2] \in {Partition(n[1]) - 1, Partition(n[1])}
               /\ n[1] >= rack /\ (n[1] = rack => n[2] < Partition(rack))
    <3>1. /\ n[2] < Replicas(n[1]) /\ n[2] \in {Partition(n[1]) - 1, Partition(n[1])} /\ n[1] >= rack
          /\ n # LastNode
      BY <1>t, <1>c, <1>2, <2>1 DEF SnapshotsFit, RunCalls
    <3>2. n[1] = rack => n[2] # Partition(rack)
      BY <1>l, <1>n, <3>1
    <3> QED
      BY <1>n, <1>r, <3>1, <3>2
  <2>2. ASSUME Partition(rack) = 0, NEW n \in Node, data'[n] # {} PROVE n[1] > rack
    BY <1>n, <1>r, <1>7, <2>1, <2>2
  <2>3. ASSUME NEW n \in Node, data'[n] # {}
        PROVE  /\ pc' # "endRun" /\ n[1] >= rack'
               /\ pc' \in NodeCalls /\ n[1] = rack' => n[2] < Partition(n[1])
    <3>1. CASE Partition(rack) > 0 /\ Goto("maintain")
      BY <2>1, <2>3, <3>1 DEF Goto
    <3>2. CASE /\ Partition(rack) = 0 /\ rack < NumRacks /\ rack' = rack + 1
               /\ UNCHANGED <<pc, want, failed, changed>>
      BY <1>c, <1>n, <1>r, <1>7, <2>2, <2>3, <3>2 DEF NodeCalls
    <3>3. CASE Partition(rack) = 0 /\ rack = NumRacks /\ Goto("endRun")
      BY <1>n, <1>r, <1>7, <2>2, <2>3, <3>3
    <3> QED
      BY <1>3, <3>1, <3>2, <3>3
  <2>4. \A n \in system' : n[2] < Replicas(n[1])
    BY <1>t, <1>c DEF SnapshotsFit
  <2>5. pc' # "deleteContext" /\ ctx' = "RolloutRun"
    BY <1>c, <1>4
  <2>6. ASSUME NEW n \in Node, data'[n] # {}
        PROVE  pc' \in NodeCalls /\ n[1] = rack' => n[2] < sts'[rack'].partition
    BY <1>6, <2>3, <2>6 DEF Partition
  <2> QED
    BY <1>6, <2>1, <2>3, <2>4, <2>5, <2>6 DEF SnapshotsFit, Partition
<1> QED
  BY <1>5, <1>8, <1>9 DEF GInv

LEMMA GStep == GInv /\ [Next]_vars => GInv'
<1> SUFFICES ASSUME GInv, [Next]_vars PROVE GInv'
  OBVIOUS
<1>1. CASE UNCHANGED vars
  <2>1. TypeOK' /\ CallsFit' /\ SnapshotsFit'
    BY <1>1, FitsKept DEF vars, GInv, TypeOK
  <2> QED
    BY <2>1 DEF GInv
<1>2. CASE Next
  BY <1>2, GEnvironmentStep, GStatusStep, GScaleStep, GPhaseStep, GWriteStep, GNodeCallStep, GAfterStep
     DEF Next, SyncStep
<1> QED
  BY <1>1, <1>2

LEMMA SpecGInv == Spec => []GInv
BY GInitially, GStep, PTL DEF Spec

\* Type correctness, with or without scaling: every state of the rollout is well
\* typed; above all the partition never goes below zero, and the node that the hooks
\* work on exists.
THEOREM TypeCorrect == Spec => []TypeOK
<1>1. GInv => TypeOK
  BY DEF GInv
<1> QED
  BY <1>1, SpecGInv, PTL

\* The hooks remove every snapshot they took by the time the upgrade ends, with or
\* without scaling, whatever sync is interrupted: afterNodeUpgrade of the node
\* upgraded last runs before the next node is touched and before the rollout ends,
\* and afterUpgrade before the upgrade context is deleted.
THEOREM SnapshotsAreRemoved == Spec => []NoSnapshotLeft
<1>1. GInv => NoSnapshotLeft
  BY DEF GInv, SnapshotsFit, NoSnapshotLeft
<1> QED
  BY <1>1, SpecGInv, PTL

-----------------------------------------------------------------------------
(* Versions, without scaling. *)

LEMMA NodesOfRacks ==
  /\ InitialNodes \in Nat /\ InitialNodes >= 1 /\ InitialNodes <= MaxNodes
  /\ \A n \in Node : n[1] \in Racks /\ n[2] \in Nat /\ n = <<n[1], n[2]>>
  /\ \A r \in Racks : <<r, 0>> \in Node /\ <<r, 0>>[1] = r /\ <<r, 0>>[2] = 0 /\ Member(<<r, 0>>)
<1>1. InitialNodes \in Nat /\ InitialNodes >= 1 /\ InitialNodes <= MaxNodes /\ MaxNodes \in Nat
  BY UpgradeAssumption
<1>2. \A r \in Racks : <<r, 0>> \in Node /\ <<r, 0>>[1] = r /\ <<r, 0>>[2] = 0
  BY <1>1, PairsAreNodes
<1> QED
  BY <1>1, <1>2, NodePairs DEF Member

\* A rack with a node below its partition has the first one there.
LEMMA FirstIsBelow ==
  ASSUME TypeOK, NEW r \in Racks, Partition(r) > 0
  PROVE  Below(<<r, 0>>)
BY NodesOfRacks DEF Below

LEMMA VersionsInitially == Init => Versions
<1> SUFFICES ASSUME Init PROVE Versions
  OBVIOUS
<1>1. \A r \in Racks : /\ Partition(r) = 0 /\ Replicas(r) = InitialNodes
                       /\ Template(r) = InitialImage /\ Current(r) = InitialImage
  BY DEF Init, Partition, Replicas, Template, Current
<1>2. \A n \in Node : Member(n) => ran[n] = InitialImage
  BY DEF Init, Member
<1>3. Steady
  <2>1. \A n \in ready : pod[n] # "none"
    BY DEF Init
  <2> QED
    BY <1>1, <1>2, <2>1, NodesOfRacks, UpgradeAssumption DEF Init, Steady
<1>4. PartitionsFit
  BY <1>1 DEF PartitionsFit
<1>5. RevisionsFit
  BY <1>1, <1>2, NodesOfRacks DEF Init, RevisionsFit, Below, Updated
<1>6. BackedUp
  BY <1>1, <1>2, NodesOfRacks DEF Init, BackedUp
<1>7. MinorIs(MinorVersion(InitialImage))
  BY <1>1, <1>2 DEF Init, MinorIs
<1>8. InitDone
  BY DEF Init, InitDone
<1> QED
  BY <1>3, <1>4, <1>5, <1>6, <1>7, <1>8 DEF Versions, OneMinor

\* A step that leaves the rollout alone.
LEMMA VersionsKept ==
  ASSUME Versions, UNCHANGED <<ctx, sts, ran, data, pc, rack, want, failed>>,
         used'.scales = used.scales, \A n \in ready' : pod'[n] # "none"
  PROVE  Versions'
<1>1. Steady' /\ PartitionsFit'
  BY DEF Versions, Steady, PartitionsFit, Partition, Replicas
<1>2. RevisionsFit'
  BY DEF Versions, RevisionsFit, Partition, Current, Template, Updated, Below, RolledOut
<1>3. BackedUp'
  BY DEF Versions, BackedUp, Partition, Template, Below, NextNode, RequiredPartition
<1>4. PICK m : MinorIs(m)
  BY DEF Versions, OneMinor
<1>5. MinorIs(m)'
  BY <1>4 DEF MinorIs, Partition, Template, Current
<1>6. InitDone'
  BY DEF Versions, OneMinor, InitDone, Template, Partition
<1> QED
  BY <1>1, <1>2, <1>3, <1>5, <1>6 DEF Versions, OneMinor

\* A step of a sync, or its end, that leaves the StatefulSets and the images alone.
LEMMA VersionsMoved ==
  ASSUME Versions, UNCHANGED <<ctx, sts, ran>>,
         used'.scales = used.scales, \A n \in ready' : pod'[n] # "none",
         \A n \in Node : Member(n) /\ ~Below(n) => data'[n] = data[n] \/ ran[n] = Template(n[1]),
         pc' # "idle" => pc # "idle", pc' \in RunCalls => pc \in RunCalls,
         pc' \in {"unmaintain", "delete", "lower"} => data'[NextNode'] # {},
         InitDone'
  PROVE  Versions'
<1>1. Steady' /\ PartitionsFit'
  BY DEF Versions, Steady, PartitionsFit, Partition, Replicas
<1>2. RevisionsFit'
  BY DEF Versions, RevisionsFit, Partition, Current, Template, Updated, Below, RolledOut
<1>3. BackedUp'
  BY DEF Versions, BackedUp, Partition, Template, Below
<1>4. PICK m : MinorIs(m)
  BY DEF Versions, OneMinor
<1>5. MinorIs(m)'
  BY <1>4 DEF MinorIs, Partition, Template, Current
<1> QED
  BY <1>1, <1>2, <1>3, <1>5 DEF Versions, OneMinor

LEMMA MembersAre ==
  ASSUME Steady, NEW r \in Racks
  PROVE  /\ Members(r) = {n \in Node : n[1] = r /\ Member(n)}
         /\ IsFiniteSet(Members(r)) /\ Cardinality(Members(r)) = InitialNodes
         /\ \A n : n \in AllMembers <=> n \in Node /\ Member(n)
<1>1. Replicas(r) = InitialNodes /\ \A q \in Racks : Replicas(q) = InitialNodes
  BY DEF Steady
<1>2. Members(r) = {n \in Node : n[1] = r /\ Member(n)}
  BY <1>1 DEF Members, Member, Replicas
<1>3. Members(r) = {n \in Node : n[1] = r /\ 0 <= n[2] /\ n[2] < InitialNodes}
  BY <1>2, NodesOfRacks DEF Member
<1>4. 0 \in Nat /\ 0 <= InitialNodes /\ InitialNodes \in Nat /\ InitialNodes <= MaxNodes /\ InitialNodes - 0 = InitialNodes
  BY NodesOfRacks
<1>5. IsFiniteSet(Members(r)) /\ Cardinality(Members(r)) = InitialNodes - 0
  BY <1>3, <1>4, RangeOfRack
<1> QED
  BY <1>1, <1>2, <1>4, <1>5, AllMembersAre, NodesOfRacks DEF Member

LEMMA VersionsCreate ==
  ASSUME GInv, Versions, NEW n \in Node, CreatePod(n)
  PROVE  Versions'
<1>v. Steady /\ PartitionsFit /\ RevisionsFit /\ BackedUp /\ OneMinor /\ TypeOK
  BY DEF Versions, GInv
<1>n. n[1] \in Racks /\ n[2] \in Nat /\ Member(n)
  BY <1>v, NodesOfRacks, MembersAre DEF CreatePod
<1>1. /\ UNCHANGED <<image, ctx, sts, maint, ready, data, system, pc, want, rack, failed, changed, used>>
      /\ pod[n] = "none" /\ pod' = [pod EXCEPT ![n] = "starting"]
      /\ ran' = [ran EXCEPT ![n] = IF Below(n) THEN Current(n[1]) ELSE Template(n[1])]
  BY DEF CreatePod, syncVars, Below, Partition, Current, Template
<1>2. ran'[n] = (IF Below(n) THEN Current(n[1]) ELSE Template(n[1])) /\ \A k \in Node : k # n => ran'[k] = ran[k]
  BY <1>v, <1>1 DEF TypeOK
<1>3. Below(n) => ran'[n] = ran[n]
  BY <1>v, <1>n, <1>2 DEF RevisionsFit
<1>4. Template(n[1]) \in Images /\ Current(n[1]) \in Images /\ Partition(n[1]) \in Nat
  BY <1>n, <1>v, RacksTyped
<1>s. \A r : /\ Partition(r)' = Partition(r) /\ Template(r)' = Template(r) /\ Current(r)' = Current(r)
             /\ Replicas(r)' = Replicas(r) /\ RolledOut(r)' = RolledOut(r)
  BY <1>1 DEF Partition, Template, Current, Replicas, RolledOut
<1>b. \A k : Below(k)' = Below(k)
  BY <1>1 DEF Below, Partition
<1>5. Steady'
  <2>1. \A k \in ready : pod'[k] # "none"
    BY <1>v, <1>1 DEF TypeOK, Steady
  <2> QED
    BY <1>v, <1>1, <1>2, <1>4, <1>s, <2>1 DEF Steady
<1>6. PartitionsFit'
  BY <1>v, <1>1, <1>s DEF PartitionsFit
<1>7. \A r \in Racks : Updated(r) => Updated(r)'
  BY <1>2, <1>s, <1>b DEF Updated
<1>8. RevisionsFit'
  <2>1. \A k \in Node : Member(k) /\ Below(k) => ran'[k] = Current(k[1])
    BY <1>v, <1>2 DEF RevisionsFit
  <2> QED
    BY <1>v, <1>1, <1>7, <1>s, <1>b, <2>1 DEF RevisionsFit
<1>9. BackedUp'
  <2>1. \A k \in Node : Member(k) /\ ~Below(k) =>
          MinorVersion(ran'[k]) = MinorVersion(Template(k[1])) \/ data[k] # {}
    BY <1>v, <1>2 DEF BackedUp
  <2>2. NextNode' = NextNode
    BY <1>1 DEF NextNode, RequiredPartition
  <2> QED
    BY <1>v, <1>1, <1>s, <1>b, <2>1, <2>2 DEF BackedUp
<1>10. PICK m : MinorIs(m)
  BY <1>v DEF OneMinor
<1>11. MinorIs(m)'
  <2>1. ctx # "RolloutRun" => MinorVersion(ran'[n]) = m
    <3>1. CASE Below(n)
      BY <1>3, <1>n, <1>10, <3>1 DEF MinorIs
    <3>2. CASE ~Below(n) /\ ctx \in {"none", "PreHooks", "PostHooks"}
      BY <1>2, <1>n, <1>10, <3>2 DEF MinorIs
    <3>3. CASE ~Below(n) /\ ctx = "RolloutInit"
      <4>1. Partition(n[1]) = 0
        BY <1>v, <1>n, <1>4, <3>3, NodesOfRacks DEF PartitionsFit, Below, Member
      <4> QED
        BY <1>2, <1>n, <1>10, <3>3, <4>1 DEF MinorIs
    <3> QED
      BY <1>v, <3>1, <3>2, <3>3 DEF TypeOK, UpgradePhases
  <2>2. ctx = "RolloutRun" => MinorVersion(ran'[n]) \in {m, MinorVersion(Template(n[1]))}
    BY <1>2, <1>3, <1>n, <1>10 DEF MinorIs
  <2> QED
    BY <1>1, <1>2, <1>s, <1>10, <2>1, <2>2 DEF MinorIs
<1>12. InitDone'
  BY <1>v, <1>1, <1>s DEF OneMinor, InitDone
<1> QED
  BY <1>5, <1>6, <1>8, <1>9, <1>11, <1>12 DEF Versions, OneMinor

\* What the status update of a rack shows: the status counts a rack as rolled out only
\* if it is, and only a rack that is all updated gets its template as current revision.
LEMMA StatusShows ==
  ASSUME GInv, Versions, NEW r \in Racks, UpdateStatus(r)
  PROVE  /\ \A q \in Racks : /\ Partition(q)' = Partition(q) /\ Replicas(q)' = Replicas(q)
                             /\ Template(q)' = Template(q) /\ Current(q)' \in {Current(q), Template(q)}
         /\ \A q \in Racks \ {r} : Current(q)' = Current(q) /\ RolledOut(q)' = RolledOut(q)
         /\ \A n \in Node : n[1] = r /\ Member(n) /\ Current(r)' # Current(r) => ran[n] = Template(r)
         /\ RolledOut(r)' => /\ Updated(r)
                             /\ Partition(r) = 0 => Current(r)' = Template(r)
                             /\ Partition(r) > 0 => Current(r)' # Template(r)
                             /\ \A n \in Node : n[1] = r /\ Member(n) => n \in ready
<1> DEFINE M == Members(r)
           U == {n \in M : pod[n] # "none" /\ ran[n] = sts[r].template}
<1>v. Steady /\ RevisionsFit /\ TypeOK
  BY DEF Versions, GInv
<1>m. /\ M = {n \in Node : n[1] = r /\ Member(n)} /\ IsFiniteSet(M) /\ Cardinality(M) = InitialNodes
  BY <1>v, MembersAre
<1>p. /\ Partition(r) \in Nat /\ Partition(r) <= InitialNodes /\ Replicas(r) = InitialNodes
      /\ InitialNodes \in Nat /\ InitialNodes <= MaxNodes
  BY <1>v, RacksTyped, NodesOfRacks DEF Steady
<1>w. /\ \A q \in Racks \ {r} : sts'[q] = sts[q]
      /\ sts'[r].template = sts[r].template /\ sts'[r].partition = sts[r].partition
      /\ sts'[r].replicas = sts[r].replicas
      /\ sts'[r].updatedReplicas = Cardinality(U)
      /\ sts'[r].readyReplicas = Cardinality(M \cap ready)
      /\ \/ sts'[r].current = sts[r].current /\ ~(Cardinality(U) = sts[r].replicas
                /\ Cardinality(M \cap ready) = sts[r].replicas)
         \/ sts'[r].current = sts[r].template /\ Cardinality(U) = sts[r].replicas
            /\ Cardinality(M \cap ready) = sts[r].replicas
  BY <1>v, StatusWrites
<1>1. /\ Partition(r)' = Partition(r) /\ Replicas(r)' = Replicas(r) /\ Template(r)' = Template(r)
      /\ Current(r)' \in {Current(r), Template(r)}
      /\ \A q \in Racks \ {r} : /\ Partition(q)' = Partition(q) /\ Replicas(q)' = Replicas(q)
                                /\ Template(q)' = Template(q) /\ Current(q)' = Current(q)
                                /\ RolledOut(q)' = RolledOut(q)
  BY <1>w DEF Partition, Replicas, Template, Current, RolledOut
<1>2. Cardinality(U) = InitialNodes => U = M
  BY <1>m, FS_Subset
<1>3. Current(r)' # Current(r) => U = M
  BY <1>w, <1>p, <1>2 DEF Current, Replicas
<1>4. \A n \in Node : n[1] = r /\ Member(n) /\ Current(r)' # Current(r) => ran[n] = Template(r)
  BY <1>3, <1>m DEF Template
<1>5. ASSUME RolledOut(r)'
      PROVE  /\ Updated(r)
             /\ Partition(r) = 0 => Current(r)' = Template(r)
             /\ Partition(r) > 0 => Current(r)' # Template(r)
             /\ \A n \in Node : n[1] = r /\ Member(n) => n \in ready
  <2>1. Cardinality(M \cap ready) = InitialNodes /\ Cardinality(U) = InitialNodes - Partition(r)
    BY <1>5, <1>w, <1>p DEF RolledOut, Replicas, Partition
  <2>2. M \cap ready = M
    BY <2>1, <1>m, FS_Subset
  <2>3. \A n \in M : n \in ready /\ pod[n] # "none"
    BY <2>2, <1>v DEF Steady
  <2>4. CASE Partition(r) = 0
    <3>1. U = M
      BY <2>1, <2>4, <1>p, <1>2
    <3>2. Updated(r)
      BY <3>1, <1>m DEF Updated, Template
    <3>3. Current(r)' = Template(r)
      BY <2>1, <2>4, <1>p, <1>w DEF Current, Template, Replicas
    <3> QED
      BY <2>3, <2>4, <3>2, <3>3, <1>m
  <2>5. CASE Partition(r) > 0
    <3>1. /\ <<r, 0>> \in M /\ Below(<<r, 0>>) /\ ran[<<r, 0>>] = Current(r)
      BY <2>5, <1>v, <1>m, NodesOfRacks, FirstIsBelow DEF RevisionsFit
    <3>2. Current(r) # Template(r)
      <4> SUFFICES ASSUME Current(r) = Template(r) PROVE FALSE
        OBVIOUS
      <4>1. Partition(r) = InitialNodes
        BY <2>5, <1>p, <1>v DEF RevisionsFit
      <4>2. Cardinality(U) = 0 /\ IsFiniteSet(U)
        BY <4>1, <2>1, <1>p, <1>m, FS_Subset
      <4>3. U = {}
        BY <4>2, FS_EmptySet
      <4>4. <<r, 0>> \in U
        BY <3>1, <2>3 DEF Template
      <4> QED
        BY <4>3, <4>4
    <3>3. Current(r)' = Current(r)
      BY <2>1, <2>5, <1>p, <1>w DEF Current, Replicas
    <3> DEFINE R == {n \in Node : n[1] = r /\ Partition(r) <= n[2] /\ n[2] < InitialNodes}
    <3>4. IsFiniteSet(R) /\ Cardinality(R) = InitialNodes - Partition(r)
      BY <1>p, RangeOfRack
    <3>5. U \subseteq R
      <4> SUFFICES ASSUME NEW n \in U PROVE n \in R
        OBVIOUS
      <4>1. n \in Node /\ n[1] = r /\ Member(n) /\ ran[n] = Template(r) /\ n[2] \in Nat
        BY <1>m, NodesOfRacks DEF Template
      <4>2. ~Below(n)
        BY <4>1, <3>2, <1>v DEF RevisionsFit
      <4> QED
        BY <4>1, <4>2, <1>p DEF Below, Member
    <3>6. U = R
      BY <3>4, <3>5, <2>1, FS_Subset
    <3>7. Updated(r)
      <4> SUFFICES ASSUME NEW n \in Node, n[1] = r, Member(n), ~Below(n) PROVE ran[n] = Template(r)
        BY DEF Updated
      <4>1. n \in R
        BY <1>p, NodesOfRacks DEF Below, Member
      <4> QED
        BY <4>1, <3>6 DEF Template
    <3> QED
      BY <2>3, <2>5, <3>2, <3>3, <3>7, <1>m
  <2> QED
    BY <2>4, <2>5, <1>p
<1> QED
  BY <1>1, <1>4, <1>5

LEMMA VersionsStatus ==
  ASSUME GInv, Versions, NEW r \in Racks, UpdateStatus(r)
  PROVE  Versions'
<1>v. Steady /\ PartitionsFit /\ RevisionsFit /\ BackedUp /\ OneMinor /\ TypeOK
  BY DEF Versions, GInv
<1>1. UNCHANGED <<image, ctx, maint, pod, ready, ran, data, system, pc, want, rack, failed, used>>
  BY DEF UpdateStatus, clusterVars
<1>s. \A q \in Racks : /\ Partition(q)' = Partition(q) /\ Replicas(q)' = Replicas(q)
                       /\ Template(q)' = Template(q) /\ Current(q)' \in {Current(q), Template(q)}
  BY StatusShows
<1>o. \A q \in Racks \ {r} : Current(q)' = Current(q) /\ RolledOut(q)' = RolledOut(q)
  BY StatusShows
<1>c. \A n \in Node : n[1] = r /\ Member(n) /\ Current(r)' # Current(r) => ran[n] = Template(r)
  BY StatusShows
<1>d. RolledOut(r)' => /\ Updated(r)
                       /\ Partition(r) = 0 => Current(r)' = Template(r)
                       /\ Partition(r) > 0 => Current(r)' # Template(r)
  BY StatusShows
<1>b. \A n \in Node : Below(n)' = Below(n)
  BY <1>s, NodesOfRacks DEF Below
<1>u. \A q \in Racks : Updated(q)' = Updated(q)
  BY <1>s, <1>b, <1>1 DEF Updated
<1>5. Steady' /\ PartitionsFit'
  BY <1>v, <1>1, <1>s DEF Steady, PartitionsFit
<1>6. \A q \in Racks : Partition(q) > 0 /\ Current(q)' = Template(q) => Current(q) = Template(q)
  <2> SUFFICES ASSUME Partition(r) > 0, Current(r)' = Template(r), Current(r) # Template(r) PROVE FALSE
    BY <1>o
  <2>1. ran[<<r, 0>>] = Template(r)
    BY <1>c, NodesOfRacks
  <2>2. ran[<<r, 0>>] = Current(r)
    BY <1>v, NodesOfRacks, FirstIsBelow DEF RevisionsFit
  <2> QED
    BY <2>1, <2>2
<1>8. RevisionsFit'
  <2>1. \A n \in Node : Member(n) /\ Below(n) => ran[n] = Current(n[1])'
    BY <1>v, <1>c, <1>s, <1>o, NodesOfRacks DEF RevisionsFit
  <2>2. \A q \in Racks : 0 < Partition(q) /\ Partition(q) < InitialNodes => Current(q)' # Template(q)
    BY <1>v, <1>6 DEF RevisionsFit
  <2>3. \A q \in Racks : RolledOut(q)' =>
       /\ Updated(q)
       /\ Partition(q) > 0 => Current(q)' # Template(q)
       /\ Partition(q) = 0 => Current(q)' = Template(q)
    BY <1>v, <1>d, <1>o DEF RevisionsFit
  <2>4. pc # "idle" => \A q \in Racks :
       /\ Updated(q)
       /\ Partition(q) = 0 => Current(q)' = Template(q)
       /\ pc \in RunCalls /\ Partition(q) > 0 => Current(q)' # Template(q)
    BY <1>v, <1>s, <1>6 DEF RevisionsFit
  <2> QED
    BY <1>1, <1>s, <1>b, <1>u, <2>1, <2>2, <2>3, <2>4, NodesOfRacks DEF RevisionsFit
<1>9. BackedUp'
  <2>2. NextNode' = NextNode
    BY <1>1, <1>s, <1>v DEF NextNode, RequiredPartition, Partition, Replicas, TypeOK
  <2> QED
    BY <1>v, <1>1, <1>s, <1>b, <2>2, NodesOfRacks DEF BackedUp
<1>10. PICK m : MinorIs(m)
  BY <1>v DEF OneMinor
<1>11. MinorIs(m)'
  BY <1>1, <1>s, <1>10, NodesOfRacks DEF MinorIs
<1>12. InitDone'
  BY <1>v, <1>1, <1>s DEF OneMinor, InitDone
<1> QED
  BY <1>5, <1>8, <1>9, <1>11, <1>12 DEF Versions, OneMinor

\* A sync that ends with another phase.
LEMMA VersionsPhased ==
  ASSUME Versions, UNCHANGED <<sts, pod, ready, ran, data, used>>, pc' = "idle",
         PartitionsFit', \E m : MinorIs(m)'
  PROVE  Versions'
<1>1. Steady'
  BY DEF Versions, Steady, Partition, Replicas
<1>2. RevisionsFit'
  BY DEF Versions, RevisionsFit, Partition, Current, Template, Updated, Below, RolledOut
<1>3. BackedUp'
  BY DEF Versions, BackedUp, Partition, Template, Below
<1>4. InitDone'
  BY DEF InitDone
<1> QED
  BY <1>1, <1>2, <1>3, <1>4 DEF Versions, OneMinor

LEMMA VersionsPhase ==
  ASSUME GInv, Versions,
         \/ StartSync \/ HookFails \/ Abort \/ StartUpgrade \/ SkipRack
         \/ SnapshotSystem \/ SetPhase("startInit", "RolloutInit") \/ StartRun
         \/ EndRun \/ ClearSystem \/ DeleteContext
  PROVE  Versions'
<1>v. Steady /\ PartitionsFit /\ RevisionsFit /\ BackedUp /\ OneMinor /\ TypeOK /\ CallsFit /\ SnapshotsFit
  BY DEF Versions, GInv
<1>p. PICK m : MinorIs(m)
  BY <1>v DEF OneMinor
<1>r. \A n \in ready : pod[n] # "none"
  BY <1>v DEF Steady
<1>1. CASE StartSync
  <2>1. /\ pc = "idle" /\ pc' = FirstCall[ctx] /\ rack = 1 /\ \A r \in Racks : RolledOut(r)
        /\ UNCHANGED <<image, ctx, sts, maint, pod, ready, ran, data, system, rack, failed, changed, used>>
    BY <1>1, <1>v DEF StartSync, clusterVars, CallsFit
  <2>2. pc' \in {"begin", "snapshotSystem", "init", "after", "clearSystem"}
    BY <2>1, <1>v DEF FirstCall, TypeOK, UpgradePhases
  <2>3. Steady' /\ PartitionsFit'
    BY <1>v, <2>1 DEF Steady, PartitionsFit, Partition, Replicas
  <2>4. RevisionsFit'
    BY <1>v, <2>1 DEF RevisionsFit, Partition, Current, Template, Updated, Below, RolledOut
  <2>5. BackedUp'
    BY <1>v, <2>1, <2>2 DEF BackedUp, Partition, Template, Below
  <2>6. MinorIs(m)'
    BY <1>p, <2>1 DEF MinorIs, Partition, Template, Current
  <2>7. InitDone'
    <3>1. \A q \in Racks : ~(q < rack')
      BY <2>1, UpgradeAssumption DEF Racks
    <3> QED
      BY <2>2, <3>1 DEF InitDone
  <2> QED
    BY <2>3, <2>4, <2>5, <2>6, <2>7 DEF Versions, OneMinor
<1>2. ASSUME EndSync, UNCHANGED <<ctx, sts, pod, ready, ran, data>>, used'.scales = used.scales
      PROVE  Versions'
  <2>1. pc' = "idle"
    BY <1>2 DEF EndSync
  <2>2. InitDone'
    BY <2>1 DEF InitDone
  <2> QED
    BY <1>2, <1>r, <2>1, <2>2, VersionsMoved DEF RunCalls, NodeCalls
<1>3. CASE HookFails
  BY <1>3, <1>2 DEF HookFails, clusterVars
<1>4. CASE Abort
  BY <1>4, <1>2, <1>v, Budget DEF Abort, clusterVars
<1>5. CASE StartUpgrade
  <2>1. /\ ctx = "none" /\ ctx' = "PreHooks" /\ pc' = "idle"
        /\ UNCHANGED <<sts, maint, pod, ready, ran, data, used>>
    BY <1>5, <1>v DEF StartUpgrade, SetPhase, EndSync, clusterVars, CallsFit
  <2>2. PartitionsFit'
    BY <2>1, <1>v DEF PartitionsFit, Partition
  <2>3. MinorIs(m)'
    BY <2>1, <1>p DEF MinorIs, Template
  <2> QED
    BY <2>1, <2>2, <2>3, VersionsPhased
<1>6. CASE SkipRack
  <2>1. CASE pc' = "idle"
    BY <1>6, <1>2, <2>1 DEF SkipRack, clusterVars
  <2>2. CASE pc' # "idle"
    <3>1. pc = "begin" /\ pc' = "begin" /\ UNCHANGED <<ctx, sts, pod, ready, ran, data, used>>
      BY <1>6, <2>2 DEF SkipRack, EndSync, clusterVars
    <3>2. InitDone'
      BY <3>1 DEF InitDone
    <3> QED
      BY <3>1, <3>2, <1>r, VersionsMoved DEF RunCalls, NodeCalls
  <2> QED
    BY <2>1, <2>2
<1>7. CASE SnapshotSystem \/ ClearSystem
  <2>1. /\ UNCHANGED <<ctx, sts, pod, ready, ran, data>> /\ used'.scales = used.scales
        /\ EndSync \/ (pc' \in {"startInit", "deleteContext"} /\ pc \in {"snapshotSystem", "clearSystem"})
    BY <1>7, <1>v, Budget DEF SnapshotSystem, ClearSystem, Goto
  <2>2. CASE EndSync
    BY <2>1, <2>2, <1>2
  <2>3. CASE pc' \in {"startInit", "deleteContext"} /\ pc \in {"snapshotSystem", "clearSystem"}
    <3>2. InitDone'
      BY <2>3 DEF InitDone
    <3> QED
      BY <2>1, <2>3, <3>2, <1>r, VersionsMoved DEF RunCalls, NodeCalls
  <2> QED
    BY <2>1, <2>2, <2>3
<1>8. CASE SetPhase("startInit", "RolloutInit")
  <2>1. /\ ctx = "PreHooks" /\ ctx' = "RolloutInit" /\ pc' = "idle"
        /\ UNCHANGED <<sts, maint, pod, ready, ran, data, used>>
    BY <1>8, <1>v DEF SetPhase, EndSync, clusterVars, CallsFit
  <2>2. PartitionsFit'
    BY <2>1, <1>v DEF PartitionsFit, Partition
  <2>3. MinorIs(m)'
    BY <2>1, <1>p DEF MinorIs, Template
  <2> QED
    BY <2>1, <2>2, <2>3, VersionsPhased
<1>9. CASE StartRun
  <2>1. /\ ctx = "RolloutInit" /\ pc = "startRun" /\ pc' = "idle" /\ EndSync
        /\ UNCHANGED <<sts, pod, ready, ran, data, used>>
        /\ ctx' = ctx \/ (ctx' = "RolloutRun" /\ ~failed)
    <3>1. pc = "startRun" /\ EndSync /\ UNCHANGED <<sts, clusterVars, used>>
      BY <1>9 DEF StartRun, SetPhase
    <3>2. ctx' = ctx \/ (ctx' = "RolloutRun" /\ ~failed)
      BY <1>9, Zenon DEF StartRun, SetPhase
    <3>3. ctx = "RolloutInit"
      BY <3>1, <1>v DEF CallsFit
    <3> QED
      BY <3>1, <3>2, <3>3 DEF EndSync, clusterVars
  <2>2. CASE ctx' = ctx
    BY <2>1, <2>2, <1>2
  <2>3. CASE ctx' = "RolloutRun" /\ ~failed
    <3>1. \A q \in Racks : Template(q) = want /\ Partition(q) = InitialNodes
      BY <1>v, <2>1, <2>3 DEF OneMinor, InitDone
    <3>2. \A q \in Racks : MinorVersion(Current(q)) = m
      <4> TAKE q \in Racks
      <4>1. ran[<<q, 0>>] = Current(q)
        BY <3>1, <1>v, NodesOfRacks, FirstIsBelow DEF RevisionsFit
      <4> QED
        BY <4>1, <2>1, <1>p, NodesOfRacks DEF MinorIs
    <3>3. PartitionsFit'
      BY <2>3 DEF PartitionsFit
    <3>4. MinorIs(m)'
      BY <2>1, <2>3, <3>1, <3>2, <1>p DEF MinorIs, Template, Current
    <3> QED
      BY <2>1, <3>3, <3>4, VersionsPhased
  <2> QED
    BY <2>1, <2>2, <2>3
<1>10. CASE EndRun
  <2>1. /\ ctx = "RolloutRun" /\ pc = "endRun" /\ ctx' = "PostHooks" /\ pc' = "idle"
        /\ UNCHANGED <<sts, pod, ready, ran, data, used>>
    BY <1>10, <1>v DEF EndRun, SetPhase, EndSync, clusterVars, CallsFit
  <2>2. \A q \in Racks : Partition(q) = 0
    BY <2>1, <1>v DEF CallsFit
  <2>3. \A n \in Node : Member(n) => ran[n] = Template(n[1])
    BY <2>1, <2>2, <1>v, NodesOfRacks DEF RevisionsFit, Updated, Below
  <2>4. \A q, r \in Racks : Template(q) = Template(r)
    BY <2>1, <1>p DEF MinorIs
  <2>5. 1 \in Racks
    BY UpgradeAssumption DEF Racks
  <2>6. PartitionsFit'
    BY <2>1, <2>2 DEF PartitionsFit, Partition
  <2>7. \A q \in Racks : MinorVersion(Template(q)) = MinorVersion(Template(1))
    BY <2>4, <2>5
  <2>8. \A n \in Node : Member(n) => MinorVersion(ran[n]) = MinorVersion(Template(1))
    BY <2>3, <2>7, NodesOfRacks
  <2> DEFINE k == MinorVersion(Template(1))
  <2> HIDE DEF k
  <2>9. MinorIs(k)'
    BY <2>1, <2>7, <2>8 DEF MinorIs, Template, k
  <2> QED
    BY <2>1, <2>6, <2>9, VersionsPhased
<1>11. CASE DeleteContext
  <2>1. /\ ctx = "PostHooks" /\ ctx' = "none" /\ pc' = "idle"
        /\ UNCHANGED <<sts, maint, pod, ready, ran, data, used>>
    BY <1>11, <1>v DEF DeleteContext, SetPhase, EndSync, clusterVars, CallsFit
  <2>2. PartitionsFit'
    BY <2>1, <1>v DEF PartitionsFit, Partition
  <2>3. MinorIs(m)'
    BY <2>1, <1>p DEF MinorIs, Template
  <2> QED
    BY <2>1, <2>2, <2>3, VersionsPhased
<1> QED
  BY <1>1, <1>3, <1>4, <1>5, <1>6, <1>7, <1>8, <1>9, <1>10, <1>11

\* What a write of a rack's StatefulSet leaves, in the words of the invariant.
LEMMA WrittenRack ==
  ASSUME GInv, Steady, NEW r \in Racks, NEW i \in Images, NEW p \in Nat, p <= InitialNodes, Written(r, i, p)
  PROVE  /\ \A q \in Racks \ {r} : /\ Partition(q)' = Partition(q) /\ Template(q)' = Template(q)
                                   /\ Current(q)' = Current(q) /\ RolledOut(q)' = RolledOut(q)
         /\ Partition(r)' = p /\ Template(r)' = i /\ Current(r)' = Current(r) /\ ~RolledOut(r)'
         /\ \A q \in Racks : Replicas(q)' = InitialNodes /\ Partition(q)' <= InitialNodes
         /\ \A n \in Node : n[1] # r => Below(n)' = Below(n)
         /\ \A n \in Node : n[1] = r => (Below(n)' <=> n[2] < p)
<1>1. \A q \in Racks \ {r} : /\ Partition(q)' = Partition(q) /\ Template(q)' = Template(q)
                             /\ Current(q)' = Current(q) /\ RolledOut(q)' = RolledOut(q)
                             /\ Replicas(q)' = Replicas(q)
  BY DEF Written, Partition, Template, Current, RolledOut, Replicas
<1>2. /\ Partition(r)' = p /\ Template(r)' = i /\ Current(r)' = Current(r) /\ ~RolledOut(r)'
      /\ Replicas(r)' = Replicas(r)
  BY DEF Written, Partition, Template, Current, RolledOut, Replicas
<1> QED
  BY <1>1, <1>2, NodesOfRacks DEF Steady, Below

LEMMA VersionsApply ==
  ASSUME GInv, Versions, ApplyStatefulSet
  PROVE  Versions'
<1>v. Steady /\ PartitionsFit /\ RevisionsFit /\ BackedUp /\ OneMinor /\ TypeOK /\ CallsFit /\ SnapshotsFit
  BY DEF Versions, GInv
<1>p. PICK m : MinorIs(m)
  BY <1>v DEF OneMinor
<1>1. /\ pc = "begin" /\ pc' = "idle" /\ ctx = "none"
      /\ UNCHANGED <<image, ctx, maint, pod, ready, ran, data, system, used>>
      /\ MinorVersion(Template(rack)) = MinorVersion(want)
      /\ rack \in Racks /\ want \in Images
  BY <1>v DEF ApplyStatefulSet, EndSync, clusterVars, CallsFit, NeedsUpgrade, Template, TypeOK
<1>i. InitDone'
  BY <1>1 DEF InitDone
<1>2. CASE sts' = sts
  BY <1>1, <1>2, <1>v, <1>i, VersionsMoved DEF Steady, RunCalls, NodeCalls
<1>3. CASE Written(rack, want, RequiredPartition(rack))
  <2>0. \A q \in Racks : Partition(q) = 0
    BY <1>1, <1>v DEF PartitionsFit
  <2>1. RequiredPartition(rack) = 0 /\ 0 \in Nat /\ 0 <= InitialNodes
    BY <2>0, <1>1, <1>v, NodesOfRacks DEF RequiredPartition, Partition, Steady, Replicas
  <2>2. PICK r \in Racks : r = rack
    BY <1>1
  <2>3. Written(r, want, 0)
    BY <1>3, <2>1, <2>2
  <2>4. /\ \A q \in Racks \ {r} : /\ Partition(q)' = Partition(q) /\ Template(q)' = Template(q)
                                  /\ Current(q)' = Current(q) /\ RolledOut(q)' = RolledOut(q)
        /\ Partition(r)' = 0 /\ Template(r)' = want /\ Current(r)' = Current(r) /\ ~RolledOut(r)'
        /\ \A q \in Racks : Replicas(q)' = InitialNodes /\ Partition(q)' <= InitialNodes
        /\ \A n \in Node : n[1] # r => Below(n)' = Below(n)
        /\ \A n \in Node : n[1] = r => (Below(n)' <=> n[2] < 0)
    BY <2>1, <2>2, <2>3, <1>1, <1>v, WrittenRack
  <2>5. \A q \in Racks : Partition(q)' = 0
    BY <2>0, <2>4
  <2>6. \A n \in Node : ~Below(n)'
    BY <2>5, NodesOfRacks DEF Below
  <2>7. Steady' /\ PartitionsFit'
    BY <1>1, <1>v, <2>4, <2>5 DEF Steady, PartitionsFit
  <2>8. \A q \in Racks \ {r} : Updated(q) => Updated(q)'
    BY <2>4, <1>1 DEF Updated
  <2>9. RevisionsFit'
    BY <1>1, <1>v, <2>4, <2>5, <2>6, <2>8 DEF RevisionsFit
  <2>10. \A q \in Racks : MinorVersion(Template(q))' = m
    BY <1>1, <1>p, <2>2, <2>4 DEF MinorIs
  <2>11. MinorIs(m)'
    BY <1>1, <1>p, <2>10 DEF MinorIs
  <2>12. BackedUp'
    BY <1>1, <1>p, <2>10, NodesOfRacks DEF BackedUp, MinorIs
  <2> QED
    BY <2>7, <2>9, <2>11, <2>12, <1>i DEF Versions, OneMinor
<1> QED
  BY <1>2, <1>3, <1>v, ApplyWrites

LEMMA VersionsInit ==
  ASSUME GInv, Versions, InitRack
  PROVE  Versions'
<1>v. Steady /\ PartitionsFit /\ RevisionsFit /\ BackedUp /\ OneMinor /\ TypeOK /\ CallsFit /\ SnapshotsFit
  BY DEF Versions, GInv
<1>p. PICK m : MinorIs(m)
  BY <1>v DEF OneMinor
<1>1. /\ pc = "init" /\ ctx = "RolloutInit" /\ rack \in Racks /\ want \in Images
      /\ UNCHANGED <<image, ctx, maint, pod, ready, ran, data, system, want, used>>
      /\ rack' = (IF rack < NumRacks THEN rack + 1 ELSE rack)
      /\ pc' = (IF rack < NumRacks THEN pc ELSE "startRun")
  BY <1>v DEF InitRack, clusterVars, CallsFit, TypeOK
<1>n. /\ pc' \in {"init", "startRun"} /\ pc' \notin RunCalls
      /\ \A q \in Racks : pc' = "init" /\ q < rack' => q < rack \/ q = rack
      /\ \A q \in Racks : pc' = "startRun" => q < rack \/ q = rack
  BY <1>1, UpgradeAssumption DEF RunCalls, NodeCalls, Racks
<1>t. PICK r \in Racks : r = rack
  BY <1>1
<1>i. ASSUME failed' = failed, \A q \in Racks : q < r => Template(q)' = Template(q) /\ Partition(q)' = Partition(q),
             Template(r)' = want, Partition(r)' = InitialNodes
      PROVE  InitDone'
  <2>1. ~failed' => \A q \in Racks : q < r \/ q = r => Template(q)' = want /\ Partition(q)' = InitialNodes
    BY <1>i, <1>v, <1>1, <1>t DEF OneMinor, InitDone
  <2> QED
    BY <2>1, <1>1, <1>n, <1>t DEF InitDone
<1>2. CASE sts' = sts
  <2>1. InitDone'
    <3>1. CASE failed' = TRUE
      BY <3>1 DEF InitDone
    <3>2. CASE failed' # TRUE
      <4>1. failed' = failed /\ sts[rack].template = want /\ sts[rack].partition = sts[rack].replicas
        BY <1>2, <1>1, <1>v, <3>2, InitWrites DEF Written, TypeOK
      <4>2. Template(r) = want /\ Partition(r) = InitialNodes
        BY <4>1, <1>t, <1>v DEF Template, Partition, Steady, Replicas
      <4> QED
        BY <4>1, <4>2, <1>2, <1>i DEF Template, Partition
    <3> QED
      BY <3>1, <3>2
  <2> QED
    BY <1>1, <1>2, <1>n, <1>v, <2>1, VersionsMoved DEF Steady
<1>3. CASE failed' = failed /\ Written(rack, want, sts[rack].replicas)
  <2>1. sts[rack].replicas = InitialNodes /\ InitialNodes \in Nat /\ InitialNodes <= InitialNodes
    BY <1>1, <1>v, NodesOfRacks DEF Steady, Replicas
  <2>3. Written(r, want, InitialNodes)
    BY <1>3, <1>t, <2>1
  <2>4. /\ \A q \in Racks \ {r} : /\ Partition(q)' = Partition(q) /\ Template(q)' = Template(q)
                                  /\ Current(q)' = Current(q) /\ RolledOut(q)' = RolledOut(q)
        /\ Partition(r)' = InitialNodes /\ Template(r)' = want /\ Current(r)' = Current(r) /\ ~RolledOut(r)'
        /\ \A q \in Racks : Replicas(q)' = InitialNodes /\ Partition(q)' <= InitialNodes
        /\ \A n \in Node : n[1] # r => Below(n)' = Below(n)
        /\ \A n \in Node : n[1] = r => (Below(n)' <=> n[2] < InitialNodes)
    BY <2>1, <2>3, <1>1, <1>v, WrittenRack
  <2>5. Steady' /\ PartitionsFit'
    BY <1>1, <1>v, <2>4 DEF Steady, PartitionsFit
  <2>6. \A n \in Node : n[1] = r /\ Member(n) => ran[n] = Current(r)
    <3>1. CASE Partition(r) = 0
      BY <3>1, <1>1, <1>v, NodesOfRacks DEF RevisionsFit, Updated, Below
    <3>2. CASE Partition(r) = InitialNodes
      BY <3>2, <1>v DEF RevisionsFit, Below, Member
    <3> QED
      BY <3>1, <3>2, <1>1, <1>v DEF PartitionsFit
  <2>7. \A q \in Racks \ {r} : Updated(q)'
    BY <2>4, <1>1, <1>v DEF Updated, RevisionsFit
  <2>8. Updated(r)'
    BY <2>4 DEF Updated, Member
  <2>9. RevisionsFit'
    <3>1. \A n \in Node : Member(n) /\ Below(n)' => ran[n] = Current(n[1])'
      BY <1>v, <2>4, <2>6, NodesOfRacks DEF RevisionsFit
    <3>2. \A q \in Racks : 0 < Partition(q)' /\ Partition(q)' < InitialNodes => Current(q)' # Template(q)'
      BY <1>v, <2>1, <2>4 DEF RevisionsFit
    <3>3. \A q \in Racks : RolledOut(q)' =>
       /\ Updated(q)'
       /\ Partition(q)' > 0 => Current(q)' # Template(q)'
       /\ Partition(q)' = 0 => Current(q)' = Template(q)'
      BY <1>v, <2>4, <2>7 DEF RevisionsFit
    <3>4. \A q \in Racks : Partition(q)' = 0 => Current(q)' = Template(q)'
      BY <1>v, <1>1, <2>1, <2>4, NodesOfRacks DEF RevisionsFit
    <3> QED
      BY <1>1, <1>n, <2>7, <2>8, <3>1, <3>2, <3>3, <3>4 DEF RevisionsFit
  <2>10. BackedUp'
    BY <1>1, <1>n, <1>v, <2>4, NodesOfRacks DEF BackedUp, Member
  <2>11. MinorIs(m)'
    BY <1>1, <1>p, <2>1, <2>4, NodesOfRacks DEF MinorIs
  <2>12. InitDone'
    <3>1. \A q \in Racks : q < r => q # r
      BY DEF Racks
    <3> QED
      BY <1>3, <1>i, <2>4, <3>1
  <2> QED
    BY <2>5, <2>9, <2>10, <2>11, <2>12 DEF Versions, OneMinor
<1> QED
  BY <1>2, <1>3, <1>v, InitWrites

\* The partition is lowered past a node that has a snapshot.
LEMMA VersionsLower ==
  ASSUME GInv, Versions, LowerPartition
  PROVE  Versions'
<1>v. Steady /\ PartitionsFit /\ RevisionsFit /\ BackedUp /\ OneMinor /\ TypeOK /\ CallsFit /\ SnapshotsFit
  BY DEF Versions, GInv
<1>p. PICK m : MinorIs(m)
  BY <1>v DEF OneMinor
<1>1. /\ pc = "lower" /\ pc' = "idle" /\ ctx = "RolloutRun" /\ rack \in Racks
      /\ UNCHANGED <<image, ctx, maint, pod, ready, ran, data, system, used>>
  BY <1>v DEF LowerPartition, EndSync, clusterVars, CallsFit, TypeOK, RunCalls, NodeCalls
<1>2. PICK r \in Racks : r = rack
  BY <1>1
<1>3. /\ Partition(r) \in Nat /\ Partition(r) > 0 /\ Partition(r) <= InitialNodes /\ InitialNodes \in Nat
      /\ Template(r) \in Images
  BY <1>1, <1>2, <1>v, RacksTyped, NodesOfRacks DEF CallsFit, NodeCalls, Steady
<1>4. /\ NextNode \in Node /\ NextNode[1] = r /\ NextNode[2] = Partition(r) - 1 /\ data[NextNode] # {}
  BY <1>1, <1>2, <1>v, NextNodeIs DEF BackedUp, NodeCalls
<1>5. Partition(r) - 1 \in Nat /\ Partition(r) - 1 <= InitialNodes
  BY <1>3
<1>6. Written(r, Template(r), Partition(r) - 1)
  BY <1>2, <1>v, LowerWrites DEF Template, Partition
<1>7. /\ \A q \in Racks \ {r} : /\ Partition(q)' = Partition(q) /\ Template(q)' = Template(q)
                                /\ Current(q)' = Current(q) /\ RolledOut(q)' = RolledOut(q)
      /\ Partition(r)' = Partition(r) - 1 /\ Template(r)' = Template(r)
      /\ Current(r)' = Current(r) /\ ~RolledOut(r)'
      /\ \A q \in Racks : Replicas(q)' = InitialNodes /\ Partition(q)' <= InitialNodes
      /\ \A n \in Node : n[1] # r => Below(n)' = Below(n)
      /\ \A n \in Node : n[1] = r => (Below(n)' <=> n[2] < Partition(r) - 1)
  BY <1>3, <1>5, <1>6, <1>v, WrittenRack
<1>8. Steady' /\ PartitionsFit'
  BY <1>1, <1>v, <1>7 DEF Steady, PartitionsFit
<1>9. \A n \in Node : Below(n)' => Below(n)
  BY <1>3, <1>7, NodesOfRacks DEF Below
<1>10. \A n \in Node : ~Below(n)' => ~Below(n) \/ n = NextNode
  <2> SUFFICES ASSUME NEW n \in Node, ~Below(n)', Below(n), n # NextNode PROVE FALSE
    OBVIOUS
  <2>1. n[1] = r
    BY <1>7
  <2>2. n[2] = NextNode[2]
    BY <2>1, <1>3, <1>4, <1>7, NodesOfRacks DEF Below
  <2> QED
    BY <2>1, <2>2, <1>4, NodesOfRacks
<1>11. \A q \in Racks \ {r} : Updated(q)'
  BY <1>7, <1>1, <1>v DEF Updated, RevisionsFit
<1>12. Current(r) # Template(r)
  BY <1>1, <1>3, <1>v DEF RevisionsFit, RunCalls, NodeCalls
<1>13. RevisionsFit'
  <2>1. \A n \in Node : Member(n) /\ Below(n)' => ran[n] = Current(n[1])'
    BY <1>v, <1>7, <1>9, NodesOfRacks DEF RevisionsFit
  <2>2. \A q \in Racks : 0 < Partition(q)' /\ Partition(q)' < InitialNodes => Current(q)' # Template(q)'
    BY <1>v, <1>7, <1>12 DEF RevisionsFit
  <2>3. \A q \in Racks : RolledOut(q)' =>
     /\ Updated(q)'
     /\ Partition(q)' > 0 => Current(q)' # Template(q)'
     /\ Partition(q)' = 0 => Current(q)' = Template(q)'
    BY <1>v, <1>7, <1>11 DEF RevisionsFit
  <2> QED
    BY <1>1, <2>1, <2>2, <2>3 DEF RevisionsFit
<1>14. BackedUp'
  BY <1>1, <1>4, <1>v, <1>7, <1>10, NodesOfRacks DEF BackedUp
<1>15. MinorIs(m)'
  BY <1>1, <1>p, <1>7, NodesOfRacks DEF MinorIs
<1>16. InitDone'
  BY <1>1 DEF InitDone
<1> QED
  BY <1>8, <1>13, <1>14, <1>15, <1>16 DEF Versions, OneMinor

LEMMA VersionsNodeCalls ==
  ASSUME GInv, Versions, Maintain \/ Drain \/ SnapshotData \/ Unmaintain \/ DeletePod
  PROVE  Versions'
<1>v. Steady /\ BackedUp /\ TypeOK /\ CallsFit
  BY DEF Versions, GInv
<1>c. pc \in NodeCalls
  BY DEF Maintain, Drain, SnapshotData, Unmaintain, DeletePod, NodeCalls
<1>x. NextNode \in Node /\ Below(NextNode)
  <2>1. /\ NextNode \in Node /\ NextNode[1] = rack /\ NextNode[2] = Partition(rack) - 1
        /\ rack \in Racks /\ Partition(rack) \in Nat
    BY <1>v, <1>c, NextNodeIs, RacksTyped
  <2> QED
    BY <2>1 DEF Below
<1>u. UNCHANGED <<ctx, sts, ran>> /\ used'.scales = used.scales
  BY <1>v, Budget DEF Maintain, Drain, SnapshotData, Unmaintain, DeletePod
<1>k. /\ pc' = "idle" \/ pc' \in NodeCalls
      /\ pc' # "idle" => rack' = rack
  BY DEF Maintain, Drain, SnapshotData, Unmaintain, DeletePod, Goto, EndSync, NodeCalls
<1>1. \A n \in ready' : pod'[n] # "none"
  <2>1. CASE DeletePod
    BY <1>v, <2>1 DEF DeletePod, Steady, TypeOK
  <2>2. CASE ~DeletePod
    <3>1. ready' = ready /\ (pod' = pod \/ \E s \in {"draining", "drained"} : pod' = [pod EXCEPT ![NextNode] = s])
      BY <2>2 DEF Maintain, Drain, SnapshotData, Unmaintain
    <3> QED
      BY <1>v, <1>x, <3>1 DEF Steady, TypeOK
  <2> QED
    BY <2>1, <2>2
<1>2. \A n \in Node : Member(n) /\ ~Below(n) => data'[n] = data[n]
  <2>1. \A n \in Node : n # NextNode => data'[n] = data[n]
    BY <1>v DEF Maintain, Drain, SnapshotData, Unmaintain, DeletePod, TypeOK
  <2> QED
    BY <2>1, <1>x
<1>3. InitDone'
  BY <1>k DEF InitDone, NodeCalls
<1>4. pc' \in {"unmaintain", "delete", "lower"} => data'[NextNode'] # {}
  <2> SUFFICES ASSUME pc' \in {"unmaintain", "delete", "lower"} PROVE data'[NextNode'] # {}
    OBVIOUS
  <2>1. NextNode' = NextNode
    BY <1>k, <1>u DEF NextNode, RequiredPartition
  <2>2. CASE SnapshotData
    <3>1. data' = [data EXCEPT ![NextNode] = Backup(data[NextNode])]
      BY <2>2 DEF SnapshotData, EndSync
    <3>2. data'[NextNode] = Backup(data[NextNode])
      BY <3>1, <1>x, <1>v DEF TypeOK
    <3> QED
      BY <2>1, <3>2, UpgradeAssumption DEF Backup
  <2>3. CASE Unmaintain \/ DeletePod
    BY <2>1, <2>3, <1>v DEF Unmaintain, DeletePod, BackedUp
  <2> QED
    BY <2>2, <2>3 DEF Maintain, Drain, Goto, EndSync
<1> QED
  BY <1>c, <1>u, <1>k, <1>1, <1>2, <1>3, <1>4, VersionsMoved DEF RunCalls, NodeCalls

LEMMA AfterGoes ==
  ASSUME TypeOK, CallsFit, AfterNodeUpgrade
  PROVE  pc' \in {"maintain", "after", "endRun"}
<1>1. pc = "after"
  BY DEF AfterNodeUpgrade
<1>2. rack \in Racks /\ Partition(rack) \in Nat /\ Partition(rack) <= Replicas(rack) /\ Replicas(rack) \in Nat
  BY <1>1, RacksTyped DEF TypeOK, CallsFit
<1>3. RequiredPartition(rack) = Partition(rack)
  BY <1>2 DEF RequiredPartition, Partition, Replicas
<1>4. rack < NumRacks \/ rack = NumRacks
  BY <1>2, UpgradeAssumption DEF Racks
<1>5. CASE Partition(rack) > 0
  BY <1>2, <1>3, <1>5 DEF AfterNodeUpgrade, Goto
<1>6. CASE Partition(rack) = 0
  BY <1>1, <1>2, <1>3, <1>4, <1>6 DEF AfterNodeUpgrade, Goto
<1> QED
  BY <1>2, <1>5, <1>6

LEMMA VersionsAfter ==
  ASSUME GInv, Versions, AfterNodeUpgrade
  PROVE  Versions'
<1>v. Steady /\ RevisionsFit /\ TypeOK /\ CallsFit
  BY DEF Versions, GInv
<1>1. /\ pc = "after" /\ UNCHANGED <<image, ctx, sts, maint, pod, ready, ran, system, used>>
      /\ data' = data \/ data' = [data EXCEPT ![LastNode] = {}]
  BY DEF AfterNodeUpgrade, RemoveDataSnapshot
<1>2. pc' \in {"maintain", "after", "endRun"}
  BY <1>v, AfterGoes
<1>3. \A n \in Node : Member(n) /\ ~Below(n) => data'[n] = data[n] \/ ran[n] = Template(n[1])
  BY <1>1, <1>v, NodesOfRacks DEF RevisionsFit, Updated
<1>4. InitDone'
  BY <1>2 DEF InitDone
<1> QED
  BY <1>1, <1>2, <1>3, <1>4, <1>v, VersionsMoved DEF Steady, RunCalls, NodeCalls

LEMMA VersionsEnvironment ==
  ASSUME GInv, Versions,
         \/ \E i \in Images : ChangeImage(i)
         \/ \E n \in Node : NodeStep(n) \/ RestartNode(n)
  PROVE  Versions'
<1>v. Steady /\ TypeOK
  BY DEF Versions, GInv
<1>1. CASE \E i \in Images : ChangeImage(i)
  BY <1>1, <1>v, Budget, VersionsKept DEF ChangeImage, clusterVars, syncVars, Steady
<1>2. ASSUME NEW n \in Node, RestartPod(n) \/ StartNode(n) \/ FinishDrain(n) \/ Readyz(n) \/ RestartNode(n)
      PROVE  Versions'
  <2>1. UNCHANGED <<ctx, sts, ran, data, pc, rack, want, failed>> /\ used'.scales = used.scales
    BY <1>2, <1>v, Budget DEF RestartPod, StartNode, FinishDrain, Readyz, RestartNode, syncVars
  <2>2. \A k \in ready' : pod'[k] # "none"
    <3>1. CASE RestartPod(n)
      BY <1>v, <3>1 DEF RestartPod, Steady, TypeOK
    <3>2. CASE Readyz(n)
      BY <1>v, <3>2 DEF Readyz, Steady, TypeOK
    <3>3. CASE StartNode(n) \/ FinishDrain(n) \/ RestartNode(n)
      BY <1>v, <3>3 DEF StartNode, FinishDrain, RestartNode, Steady, TypeOK
    <3> QED
      BY <1>2, <3>1, <3>2, <3>3
  <2> QED
    BY <2>1, <2>2, VersionsKept
<1> QED
  BY <1>1, <1>2, VersionsCreate DEF NodeStep

LEMMA VersionsStep ==
  ASSUME MaxScales = 0, GInv, Versions, [Next]_vars
  PROVE  Versions'
<1>v. Steady /\ TypeOK
  BY DEF Versions, GInv
<1>1. CASE UNCHANGED vars
  BY <1>1, <1>v, VersionsKept DEF vars, Steady
<1>2. ASSUME NEW r \in Racks PROVE ~ScaleDown(r) /\ ~ScaleUp(r)
  BY <1>v DEF Steady, ScaleDown, ScaleUp, Scale
<1>3. CASE Next
  BY <1>2, <1>3, VersionsEnvironment, VersionsStatus, VersionsPhase, VersionsApply, VersionsInit,
     VersionsLower, VersionsNodeCalls, VersionsAfter DEF Next, SyncStep
<1> QED
  BY <1>1, <1>3

LEMMA SpecVersions ==
  ASSUME MaxScales = 0
  PROVE  Spec => [](GInv /\ Versions)
<1>1. Init => GInv /\ Versions
  BY GInitially, VersionsInitially
<1>2. GInv /\ Versions /\ [Next]_vars => GInv' /\ Versions'
  BY GStep, VersionsStep
<1> QED
  BY <1>1, <1>2, PTL DEF Spec

LEMMA TwoVersions ==
  ASSUME GInv, Versions
  PROVE  TwoMinorVersions
<1>v. Steady /\ OneMinor
  BY DEF Versions
<1>1. PICK m : MinorIs(m)
  BY <1>v DEF OneMinor
<1> DEFINE k == MinorVersion(Template(1))
           ran2 == {MinorVersion(ran[n]) : n \in {l \in AllMembers : ran[l] # "none"}}
<1>2. 1 \in Racks
  BY UpgradeAssumption DEF Racks
<1>3. \A n \in AllMembers : MinorVersion(ran[n]) \in {m, k}
  <2> SUFFICES ASSUME NEW n \in AllMembers PROVE MinorVersion(ran[n]) \in {m, k}
    OBVIOUS
  <2>1. n \in Node /\ Member(n) /\ n[1] \in Racks
    BY <1>2, <1>v, MembersAre, NodesOfRacks
  <2>2. CASE ctx = "RolloutRun"
    <3>1. Template(n[1]) = Template(1)
      BY <1>1, <1>2, <2>1, <2>2 DEF MinorIs
    <3> QED
      BY <1>1, <2>1, <2>2, <3>1 DEF MinorIs
  <2>3. CASE ctx # "RolloutRun"
    BY <1>1, <2>1, <2>3 DEF MinorIs
  <2> QED
    BY <2>2, <2>3
<1> HIDE DEF k
<1>4. ran2 \subseteq {m, k}
  BY <1>3
<1>5. IsFiniteSet({m}) /\ Cardinality({m}) = 1
  BY FS_Singleton
<1>6. IsFiniteSet({m} \cup {k}) /\ Cardinality({m} \cup {k}) <= 2
  <2>1. /\ IsFiniteSet({m} \cup {k})
        /\ Cardinality({m} \cup {k}) = IF k \in {m} THEN Cardinality({m}) ELSE Cardinality({m}) + 1
    BY <1>5, FS_AddElement
  <2> QED
    BY <1>5, <2>1
<1>7. {m} \cup {k} = {m, k}
  OBVIOUS
<1>8. IsFiniteSet({m, k}) /\ Cardinality({m, k}) <= 2 /\ Cardinality({m, k}) \in Nat
  BY <1>6, <1>7, FS_CardinalityType
<1>9. Cardinality(ran2) <= Cardinality({m, k}) /\ Cardinality(ran2) \in Nat
  BY <1>4, <1>8, FS_Subset, FS_CardinalityType
<1>10. Cardinality(ran2) <= 2
  BY <1>8, <1>9
<1> QED
  BY <1>10 DEF TwoMinorVersions

\* On racks that are not scaled meanwhile, the nodes never run more than two minor
\* versions at once, however often the user changes the image and wherever a sync is
\* interrupted: syncStatefulSets lets no other image into the StatefulSets before every
\* node has been through the rollout that the upgrade context is about.
THEOREM TwoMinorVersionsAtMost ==
  ASSUME MaxScales = 0
  PROVE  Spec => []TwoMinorVersions
<1>1. GInv /\ Versions => TwoMinorVersions
  BY TwoVersions
<1> QED
  BY <1>1, SpecVersions, PTL

\* On racks that are not scaled meanwhile, a Pod comes back with another minor version
\* only after beforeNodeUpgrade has made the node's data snapshot, wherever a sync is
\* interrupted: below the partition it comes back as it was, and the partition is only
\* lowered past a node with a snapshot.
THEOREM UpgradedOnlyBackedUp ==
  ASSUME MaxScales = 0
  PROVE  Spec => BackedUpBeforeUpgrade
<1>1. ASSUME GInv, Versions, [Next]_vars
      PROVE  [\A n \in Node : ChangesMinorVersion(n) => data[n] # {}]_vars
  <2>v. Steady /\ RevisionsFit /\ BackedUp /\ TypeOK
    BY <1>1 DEF Versions, GInv
  <2> SUFFICES ASSUME NEW n \in Node, ChangesMinorVersion(n) PROVE data[n] # {}
    OBVIOUS
  <2>1. CASE ran' = ran
    BY <2>1 DEF ChangesMinorVersion
  <2>2. CASE \E k \in Node : CreatePod(k)
    <3>1. PICK k \in Node : CreatePod(k)
      BY <2>2
    <3>2. /\ Member(k) /\ k[1] \in Racks
          /\ ran' = [ran EXCEPT ![k] = IF Below(k) THEN Current(k[1]) ELSE Template(k[1])]
      BY <3>1, <2>v, MembersAre, NodesOfRacks DEF CreatePod, Below, Partition, Current, Template
    <3>3. n = k
      BY <3>2, <2>v DEF ChangesMinorVersion, TypeOK
    <3>4. ran'[n] = IF Below(n) THEN Current(n[1]) ELSE Template(n[1])
      BY <3>2, <3>3, <2>v DEF TypeOK
    <3>5. ~Below(n)
      BY <3>2, <3>3, <3>4, <2>v DEF RevisionsFit, ChangesMinorVersion
    <3> QED
      BY <3>2, <3>3, <3>4, <3>5, <2>v DEF BackedUp, ChangesMinorVersion
  <2>3. CASE \E r \in Racks : ScaleDown(r)
    BY <2>3, <2>v DEF ScaleDown, Scale, Steady
  <2>4. CASE UNCHANGED vars
    BY <2>1, <2>4 DEF vars
  <2>5. SyncStep \/ Abort => ran' = ran
    BY DEF SyncStep, StartSync, HookFails, StartUpgrade, ApplyStatefulSet, SkipRack, SnapshotSystem, SetPhase, InitRack,
       StartRun, AfterNodeUpgrade, Maintain, Drain, SnapshotData, Unmaintain, DeletePod, LowerPartition, EndRun,
       ClearSystem, DeleteContext, Abort, clusterVars
  <2>6. \A k \in Node : NodeStep(k) \/ RestartNode(k) => CreatePod(k) \/ ran' = ran
    BY DEF NodeStep, RestartPod, StartNode, FinishDrain, Readyz, RestartNode
  <2>7. \A r \in Racks : ScaleUp(r) \/ UpdateStatus(r) => ran' = ran
    BY DEF ScaleUp, UpdateStatus, clusterVars
  <2>8. \A i \in Images : ChangeImage(i) => ran' = ran
    BY DEF ChangeImage, clusterVars
  <2> QED
    BY <1>1, <2>1, <2>2, <2>3, <2>4, <2>5, <2>6, <2>7, <2>8 DEF Next
<1> QED
  BY <1>1, SpecVersions, PTL DEF Spec, BackedUpBeforeUpgrade

-----------------------------------------------------------------------------
(* Nodes that are down, without scaling. *)

LEMMA DownInitially == Init => OneDown
<1> SUFFICES ASSUME Init PROVE OneDown
  OBVIOUS
<1>1. 1 \in Racks
  BY UpgradeAssumption DEF Racks
<1>2. <<1, 0>> \in Node /\ Member(<<1, 0>>)
  BY <1>1, NodesOfRacks
<1>3. \A n \in Node : Member(n) => pod[n] = "up" /\ ran[n] = InitialImage
  BY DEF Init, Member
<1>4. OneRackBehind
  BY <1>3 DEF OneRackBehind, Updated, Init, Template
<1>5. UpBut({}, <<1, 0>>)
  BY <1>2, <1>3 DEF UpBut
<1>6. Cardinality({}) <= used.restarts
  BY FS_EmptySet DEF Init
<1> QED
  BY <1>2, <1>4, <1>5, <1>6 DEF OneDown, SomeDown

\* A step that leaves the nodes alone.  A node to be restarted is in a rack that does not
\* count as rolled out, so no sync begins; one next to be upgraded is one of the rollout.
LEMMA DownMoved ==
  ASSUME GInv, OneDown, UNCHANGED <<sts, pod, ready, ran>>, used'.restarts = used.restarts,
         pc' # "lower", pc # "idle" \/ \A r \in Racks : RolledOut(r),
         ctx' = ctx \/ (pc # "idle" /\ (ctx # "RolloutRun" \/ pc = "endRun"))
  PROVE  OneDown'
<1>1. PICK H \in SUBSET Node, x \in Node : Member(x) /\ Cardinality(H) <= used.restarts /\ UpBut(H, x)
  BY DEF OneDown, SomeDown
<1>2. \A r : /\ Partition(r)' = Partition(r) /\ Updated(r)' = Updated(r)
  BY DEF Partition, Updated, Template, Below
<1>3. OneRackBehind'
  BY <1>2 DEF OneDown, OneRackBehind
<1>4. x[1] \in Racks /\ x[2] \in Nat
  BY NodesOfRacks
<1>5. ASSUME pod[x] # "up", x \notin H PROVE NextToUpgrade(x)'
  <2>1. NextToUpgrade(x)
    BY <1>1, <1>4, <1>5 DEF UpBut, BeingRestarted
  <2>2. pc # "endRun"
    BY <2>1, <1>4 DEF GInv, CallsFit, NextToUpgrade
  <2> QED
    BY <2>1, <2>2, <1>2 DEF NextToUpgrade
<1>6. UpBut(H, x)'
  BY <1>1, <1>5 DEF UpBut
<1> QED
  BY <1>1, <1>3, <1>6 DEF OneDown, SomeDown

LEMMA DownSync ==
  ASSUME GInv, OneDown,
         \/ StartSync \/ HookFails \/ Abort \/ StartUpgrade \/ SkipRack
         \/ SnapshotSystem \/ SetPhase("startInit", "RolloutInit") \/ StartRun
         \/ EndRun \/ ClearSystem \/ DeleteContext
         \/ AfterNodeUpgrade \/ Maintain \/ SnapshotData \/ Unmaintain
  PROVE  OneDown'
<1>v. TypeOK /\ CallsFit
  BY DEF GInv
<1>0. SetPhase("startRun", ctx) \/ SetPhase("startRun", "RolloutRun") => pc = "startRun" /\ EndSync
  BY DEF SetPhase
<1>1. /\ UNCHANGED <<sts, pod, ready, ran>>
      /\ used' = used \/ Fault
  BY DEF StartSync, HookFails, StartUpgrade, SkipRack, SnapshotSystem, SetPhase, StartRun, AfterNodeUpgrade,
     Maintain, SnapshotData, Unmaintain, EndRun, ClearSystem, DeleteContext, Abort, clusterVars
<1>2. used'.restarts = used.restarts
  BY <1>1, <1>v, Budget
<1>3. CASE StartSync
  <2>1. ctx' = ctx /\ (\A r \in Racks : RolledOut(r)) /\ pc' # "lower"
    BY <1>3, <1>v DEF StartSync, FirstCall, TypeOK, UpgradePhases
  <2> QED
    BY <1>1, <1>2, <2>1, DownMoved
<1>4. CASE HookFails \/ Abort \/ SkipRack
  <2>1. ctx' = ctx /\ pc # "idle" /\ pc' # "lower"
    BY <1>4 DEF HookFails, Abort, SkipRack, EndSync
  <2> QED
    BY <1>1, <1>2, <2>1, DownMoved
<1>5. CASE SnapshotSystem \/ ClearSystem \/ Maintain \/ SnapshotData \/ Unmaintain
  <2>1. ctx' = ctx /\ pc # "idle" /\ pc' # "lower"
    BY <1>5 DEF SnapshotSystem, ClearSystem, Maintain, SnapshotData, Unmaintain, EndSync, Goto
  <2> QED
    BY <1>1, <1>2, <2>1, DownMoved
<1>6. CASE AfterNodeUpgrade
  <2>1. ctx' = ctx /\ pc = "after"
    BY <1>6 DEF AfterNodeUpgrade
  <2>2. pc' \in {"maintain", "after", "endRun"}
    BY <1>6, <1>v, AfterGoes
  <2> QED
    BY <1>1, <1>2, <2>1, <2>2, DownMoved
<1>7. CASE StartUpgrade \/ SetPhase("startInit", "RolloutInit") \/ StartRun \/ EndRun \/ DeleteContext
  <2>1. pc \in {"begin", "startInit", "startRun", "endRun", "deleteContext"} /\ pc' = "idle"
    BY <1>7, <1>0 DEF StartUpgrade, SetPhase, StartRun, EndRun, DeleteContext, EndSync
  <2>2. pc # "idle" /\ (ctx # "RolloutRun" \/ pc = "endRun")
    BY <2>1, <1>v DEF CallsFit
  <2> QED
    BY <1>1, <1>2, <2>1, <2>2, DownMoved
<1> QED
  BY <1>3, <1>4, <1>5, <1>6, <1>7

LEMMA DownStatus ==
  ASSUME GInv, Versions, OneDown, NEW r \in Racks, UpdateStatus(r)
  PROVE  OneDown'
<1>1. PICK H \in SUBSET Node, x \in Node : Member(x) /\ Cardinality(H) <= used.restarts /\ UpBut(H, x)
  BY DEF OneDown, SomeDown
<1>2. UNCHANGED <<ctx, pod, ready, ran, pc, used>>
  BY DEF UpdateStatus, clusterVars
<1>3. \A q \in Racks : Partition(q)' = Partition(q) /\ Template(q)' = Template(q)
  BY StatusShows
<1>4. \A q \in Racks \ {r} : RolledOut(q)' = RolledOut(q)
  BY StatusShows
<1>5. RolledOut(r)' => \A n \in Node : n[1] = r /\ Member(n) => n \in ready
  BY StatusShows
<1>6. /\ \A n \in Node : Below(n)' = Below(n)
      /\ \A q \in Racks : Updated(q)' = Updated(q)
  BY <1>2, <1>3, NodesOfRacks DEF Below, Updated
<1>7. OneRackBehind'
  BY <1>6 DEF OneDown, OneRackBehind
<1>8. x[1] \in Racks
  BY NodesOfRacks
<1>9. NextToUpgrade(x) => NextToUpgrade(x)'
  BY <1>2, <1>3, <1>6, <1>8 DEF NextToUpgrade
<1>10. BeingRestarted(x) => BeingRestarted(x)'
  BY <1>1, <1>2, <1>3, <1>4, <1>5, <1>6, <1>8 DEF BeingRestarted
<1>11. UpBut(H, x)'
  BY <1>1, <1>2, <1>9, <1>10 DEF UpBut
<1> QED
  BY <1>1, <1>2, <1>7, <1>11 DEF OneDown, SomeDown

\* During a sync that works on a node no other one is down but for those of H.
LEMMA OnlyNextNode ==
  ASSUME GInv, Versions, pc \in NodeCalls, NEW H \in SUBSET Node, NEW x \in Node, UpBut(H, x)
  PROVE  /\ \A n \in Node : Member(n) /\ n \notin H \cup {NextNode} => pod[n] = "up"
         /\ pod[x] # "up" /\ x \notin H => x = NextNode /\ NextToUpgrade(x)
<1>1. /\ NextNode \in Node /\ NextNode[1] = rack /\ NextNode[2] = Partition(rack) - 1 /\ rack \in Racks
      /\ Partition(rack) \in Nat /\ Partition(rack) > 0 /\ \A q \in Racks : q < rack => Partition(q) = 0
  BY NextNodeIs, RacksTyped DEF GInv, CallsFit, RunCalls
<1>2. ASSUME pod[x] # "up", x \notin H PROVE x = NextNode /\ NextToUpgrade(x)
  <2>1. NextToUpgrade(x)
    BY <1>2 DEF UpBut, BeingRestarted, NodeCalls
  <2>2. x[1] \in Racks /\ x[2] \in Nat
    BY NodesOfRacks
  <2>3. Partition(x[1]) # 0
    BY <2>1, <2>2 DEF NextToUpgrade
  <2>4. ~(x[1] < rack) /\ ~(rack < x[1])
    BY <1>1, <2>1, <2>2, <2>3 DEF NextToUpgrade
  <2>5. x[1] = rack
    BY <2>4, <1>1, <2>2 DEF Racks
  <2> QED
    BY <2>1, <2>5, <1>1, NodesOfRacks DEF NextToUpgrade
<1> QED
  BY <1>2 DEF UpBut

\* A sync takes down the node that it works on.
LEMMA DownNodeCalls ==
  ASSUME GInv, Versions, OneDown, Drain \/ DeletePod
  PROVE  OneDown'
<1>v. TypeOK /\ CallsFit /\ Steady /\ RevisionsFit
  BY DEF Versions, GInv
<1>1. PICK H \in SUBSET Node, x \in Node : Member(x) /\ Cardinality(H) <= used.restarts /\ UpBut(H, x)
  BY DEF OneDown, SomeDown
<1>2. pc \in NodeCalls /\ ctx = "RolloutRun"
  BY <1>v DEF Drain, DeletePod, NodeCalls, RunCalls, CallsFit
<1>3. PICK y \in Node : y = NextNode /\ y[1] = rack /\ y[2] = Partition(rack) - 1 /\ Member(y) /\ rack \in Racks
  BY <1>v, <1>2, NextNodeIs DEF Steady, Member
<1>4. \A n \in Node : Member(n) /\ n \notin H \cup {y} => pod[n] = "up"
  BY <1>1, <1>2, <1>3, OnlyNextNode
<1>5. UNCHANGED <<ctx, sts, ran>> /\ used'.restarts = used.restarts
  BY <1>v, Budget DEF Drain, DeletePod
<1>6. \A n \in Node : n # y => pod'[n] = pod[n]
  BY <1>3, <1>v DEF Drain, DeletePod, TypeOK
<1>7. pc' = "lower" => y \notin ready'
  BY <1>3 DEF Drain, DeletePod, Goto, EndSync
<1>8. \A r : Partition(r)' = Partition(r) /\ Updated(r)' = Updated(r)
  BY <1>5 DEF Partition, Updated, Template, Below
<1>9. OneRackBehind'
  BY <1>8 DEF OneDown, OneRackBehind
<1>10. \A q \in Racks : (q < y[1] => Partition(q) = 0) /\ Updated(q)
  BY <1>2, <1>3, <1>v DEF CallsFit, RunCalls, NodeCalls, RevisionsFit
<1>11. NextToUpgrade(y)'
  BY <1>2, <1>3, <1>5, <1>7, <1>8, <1>10 DEF NextToUpgrade
<1>12. UpBut(H, y)'
  BY <1>4, <1>6, <1>11 DEF UpBut
<1> QED
  BY <1>1, <1>3, <1>5, <1>9, <1>12 DEF OneDown, SomeDown

LEMMA DownLower ==
  ASSUME GInv, Versions, OneDown, LowerPartition
  PROVE  OneDown'
<1>v. TypeOK /\ CallsFit /\ Steady /\ RevisionsFit
  BY DEF Versions, GInv
<1>1. PICK H \in SUBSET Node, x \in Node : Member(x) /\ Cardinality(H) <= used.restarts /\ UpBut(H, x)
  BY DEF OneDown, SomeDown
<1>2. /\ pc = "lower" /\ pc' = "idle" /\ rack \in Racks /\ UNCHANGED <<ctx, pod, ready, ran, used>>
  BY <1>v DEF LowerPartition, EndSync, clusterVars, TypeOK
<1>3. PICK r \in Racks : r = rack
  BY <1>2
<1>4. /\ Partition(r) \in Nat /\ Partition(r) > 0 /\ Partition(r) <= InitialNodes /\ InitialNodes \in Nat
      /\ Template(r) \in Images
  BY <1>2, <1>3, <1>v, RacksTyped, NodesOfRacks DEF CallsFit, NodeCalls, Steady
<1>5. Partition(r) - 1 \in Nat /\ Partition(r) - 1 <= InitialNodes
  BY <1>4
<1>6. Written(r, Template(r), Partition(r) - 1)
  BY <1>3, <1>v, LowerWrites DEF Template, Partition
<1>7. /\ \A q \in Racks : Template(q)' = Template(q)
      /\ ~RolledOut(r)'
      /\ \A n \in Node : n[1] # r => Below(n)' = Below(n)
      /\ \A n \in Node : n[1] = r => (Below(n)' <=> n[2] < Partition(r) - 1)
  BY <1>4, <1>5, <1>6, <1>v, WrittenRack
<1>8. \A q \in Racks : Updated(q)
  BY <1>2, <1>v DEF RevisionsFit
<1>9. \A q \in Racks \ {r} : Updated(q)'
  BY <1>2, <1>7, <1>8 DEF Updated
<1>10. OneRackBehind'
  BY <1>9 DEF OneRackBehind
<1>11. ASSUME pod[x] # "up", x \notin H PROVE BeingRestarted(x)'
  <2>1. x = NextNode /\ NextToUpgrade(x)
    BY <1>1, <1>2, <1>11, OnlyNextNode DEF NodeCalls
  <2>2. x[1] = r /\ x[2] = Partition(r) - 1 /\ x \notin ready
    BY <1>2, <1>3, <1>v, <2>1, NextNodeIs DEF NextToUpgrade, NodeCalls
  <2>3. ~Below(x)'
    BY <2>2, <1>4, <1>7
  <2>4. \A n \in Node : n[1] = r /\ n[2] > x[2] /\ Member(n) => ran[n] = Template(r)
    BY <2>2, <1>4, <1>8, NodesOfRacks DEF Updated, Below
  <2> QED
    BY <1>2, <1>7, <1>9, <2>2, <2>3, <2>4 DEF BeingRestarted
<1>12. UpBut(H, x)'
  BY <1>1, <1>2, <1>11 DEF UpBut
<1> QED
  BY <1>1, <1>2, <1>10, <1>12 DEF OneDown, SomeDown

\* Outside of the rollout, a sync that writes a StatefulSet finds no node down but for
\* those of H.
LEMMA DownWrite ==
  ASSUME GInv, Versions, OneDown, ApplyStatefulSet \/ InitRack
  PROVE  OneDown'
<1>v. TypeOK /\ CallsFit /\ Steady /\ RevisionsFit
  BY DEF Versions, GInv
<1>1. PICK H \in SUBSET Node, x \in Node : Member(x) /\ Cardinality(H) <= used.restarts /\ UpBut(H, x)
  BY DEF OneDown, SomeDown
<1>2. /\ pc # "idle" /\ ctx # "RolloutRun" /\ rack \in Racks /\ want \in Images
      /\ UNCHANGED <<ctx, pod, ready, ran, used>>
  BY <1>v DEF ApplyStatefulSet, InitRack, clusterVars, TypeOK, CallsFit
<1>3. \A q \in Racks : Updated(q)
  BY <1>2, <1>v DEF RevisionsFit
<1>4. \A q \in Racks : q # rack => Updated(q)'
  <2>1. \A q \in Racks : q # rack => sts'[q] = sts[q]
    BY <1>v, ApplyWrites, InitWrites DEF Written
  <2>2. \A q \in Racks : q # rack => /\ Template(q)' = Template(q)
                                     /\ \A n \in Node : n[1] = q => Below(n)' = Below(n)
    BY <2>1 DEF Template, Below, Partition
  <2> QED
    BY <1>2, <1>3, <2>2 DEF Updated
<1>5. OneRackBehind'
  BY <1>4 DEF OneRackBehind
<1>6. pod[x] = "up" \/ x \in H
  BY <1>1, <1>2 DEF UpBut, NextToUpgrade, BeingRestarted
<1>7. UpBut(H, x)'
  BY <1>1, <1>2, <1>6 DEF UpBut
<1> QED
  BY <1>1, <1>2, <1>5, <1>7 DEF OneDown, SomeDown

\* A Pod that comes back is not up yet, and never takes an updated rack back.
LEMMA DownCreate ==
  ASSUME GInv, Versions, OneDown, NEW n \in Node, CreatePod(n)
  PROVE  OneDown'
<1>v. TypeOK /\ Steady /\ RevisionsFit
  BY DEF Versions, GInv
<1>1. PICK H \in SUBSET Node, x \in Node : Member(x) /\ Cardinality(H) <= used.restarts /\ UpBut(H, x)
  BY DEF OneDown, SomeDown
<1>2. /\ Member(n) /\ n[1] \in Racks /\ UNCHANGED <<ctx, sts, ready, pc, used>>
      /\ pod[n] = "none" /\ pod' = [pod EXCEPT ![n] = "starting"]
      /\ ran' = [ran EXCEPT ![n] = IF Below(n) THEN Current(n[1]) ELSE Template(n[1])]
  BY <1>v, MembersAre, NodesOfRacks DEF CreatePod, syncVars, Below, Partition, Current, Template
<1>3. /\ \A k \in Node : k # n => ran'[k] = ran[k]
      /\ ~Below(n) => ran'[n] = Template(n[1])
      /\ Below(n) => ran'[n] = ran[n]
  BY <1>v, <1>2 DEF TypeOK, RevisionsFit
<1>4. /\ \A k : Below(k)' = Below(k)
      /\ \A q : Template(q)' = Template(q) /\ Partition(q)' = Partition(q) /\ RolledOut(q)' = RolledOut(q)
  BY <1>2 DEF Below, Template, Partition, RolledOut
<1>5. \A q \in Racks : Updated(q) => Updated(q)'
  BY <1>3, <1>4 DEF Updated
<1>6. OneRackBehind'
  BY <1>5 DEF OneDown, OneRackBehind
<1>7. NextToUpgrade(x) => NextToUpgrade(x)'
  BY <1>2, <1>4, <1>5 DEF NextToUpgrade
<1>8. BeingRestarted(x) => BeingRestarted(x)'
  <2> SUFFICES ASSUME BeingRestarted(x) PROVE BeingRestarted(x)'
    OBVIOUS
  <2>1. \A k \in Node : k[1] = x[1] /\ k[2] > x[2] /\ Member(k) => ran'[k] = Template(x[1])
    BY <1>3 DEF BeingRestarted
  <2> QED
    BY <1>2, <1>4, <1>5, <2>1 DEF BeingRestarted
<1>9. \A k \in Node : (pod'[k] = "up") = (pod[k] = "up")
  BY <1>2, <1>v DEF TypeOK
<1>10. UpBut(H, x)'
  BY <1>1, <1>7, <1>8, <1>9 DEF UpBut
<1> QED
  BY <1>1, <1>2, <1>6, <1>10 DEF OneDown, SomeDown

\* The StatefulSet controller restarts a node only in the rack that has outdated ones,
\* and only the highest of these.
LEMMA DownRestartPod ==
  ASSUME GInv, Versions, OneDown, NEW n \in Node, RestartPod(n)
  PROVE  OneDown'
<1>v. TypeOK /\ Steady /\ RevisionsFit /\ OneRackBehind
  BY DEF Versions, GInv, OneDown
<1>1. PICK H \in SUBSET Node, x \in Node : Member(x) /\ Cardinality(H) <= used.restarts /\ UpBut(H, x)
  BY DEF OneDown, SomeDown
<1>r. PICK r \in Racks : r = n[1]
  BY NodesOfRacks
<1>2. /\ UNCHANGED <<ctx, sts, ran, pc, used>> /\ pod' = [pod EXCEPT ![n] = "none"] /\ ready' = ready \ {n}
      /\ ran[n] # Template(r) /\ n[2] >= Partition(r)
  BY <1>r DEF RestartPod, syncVars, Template, Partition
<1>3. Member(n)
  BY <1>r, <1>v, MembersAre DEF RestartPod
<1>4. \A k \in Node : k[1] = r /\ Member(k) /\ k[2] > n[2] => k \in ready /\ ran[k] = Template(r)
  BY <1>r, <1>v, MembersAre DEF RestartPod, Template
<1>5. ~Below(n)
  BY <1>r, <1>2, <1>v, RacksTyped, NodesOfRacks DEF Below
<1>6. ~Updated(r)
  BY <1>r, <1>2, <1>3, <1>5 DEF Updated
<1>7. pc = "idle" /\ ~RolledOut(r) /\ \A q \in Racks \ {r} : Updated(q)
  BY <1>6, <1>v DEF RevisionsFit, OneRackBehind
<1>8. /\ \A k : Below(k)' = Below(k)
      /\ \A q : Template(q)' = Template(q) /\ Partition(q)' = Partition(q) /\ RolledOut(q)' = RolledOut(q)
  BY <1>2 DEF Below, Template, Partition, RolledOut
<1>u. \A q \in Racks : Updated(q)' = Updated(q)
  BY <1>2, <1>8 DEF Updated
<1>9. BeingRestarted(n)'
  BY <1>r, <1>2, <1>4, <1>5, <1>7, <1>8, <1>u DEF BeingRestarted
<1>10. pod[x] # "up" /\ x \notin H => x = n
  <2> SUFFICES ASSUME pod[x] # "up", x \notin H, x # n PROVE FALSE
    OBVIOUS
  <2>1. BeingRestarted(x)
    BY <1>1, <1>6 DEF UpBut, NextToUpgrade
  <2>2. x[1] = r
    BY <2>1, <1>6 DEF BeingRestarted
  <2>3. ~(x[2] > n[2])
    BY <1>1, <1>4, <2>1, <2>2 DEF BeingRestarted
  <2>4. ~(n[2] > x[2])
    BY <1>r, <1>2, <1>3, <2>1, <2>2 DEF BeingRestarted
  <2> QED
    BY <1>r, <2>2, <2>3, <2>4, NodesOfRacks
<1>11. \A k \in Node : k # n => pod'[k] = pod[k]
  BY <1>2, <1>v DEF TypeOK
<1>12. UpBut(H, n)'
  BY <1>1, <1>9, <1>10, <1>11 DEF UpBut
<1>13. OneRackBehind'
  BY <1>u, <1>v DEF OneRackBehind
<1> QED
  BY <1>1, <1>2, <1>3, <1>12, <1>13 DEF OneDown, SomeDown

\* A container that restarts by itself, a node that comes up or ends its drain, a probe.
LEMMA DownNode ==
  ASSUME GInv, OneDown, NEW n \in Node, StartNode(n) \/ FinishDrain(n) \/ Readyz(n) \/ RestartNode(n)
  PROVE  OneDown'
<1>v. TypeOK /\ OneRackBehind
  BY DEF GInv, OneDown
<1>1. PICK H \in SUBSET Node, x \in Node : Member(x) /\ Cardinality(H) <= used.restarts /\ UpBut(H, x)
  BY DEF OneDown, SomeDown
<1>2. UNCHANGED <<ctx, sts, ran, pc>>
  BY DEF StartNode, FinishDrain, Readyz, RestartNode, syncVars
<1>3. /\ \A k : Below(k)' = Below(k)
      /\ \A q : /\ Template(q)' = Template(q) /\ Partition(q)' = Partition(q)
                /\ RolledOut(q)' = RolledOut(q) /\ Updated(q)' = Updated(q)
  BY <1>2 DEF Below, Template, Partition, RolledOut, Updated
<1>4. OneRackBehind'
  BY <1>3, <1>v DEF OneRackBehind
<1>5. ASSUME x \in ready' => x \in ready
      PROVE  (NextToUpgrade(x) => NextToUpgrade(x)') /\ (BeingRestarted(x) => BeingRestarted(x)')
  BY <1>2, <1>3, <1>5 DEF NextToUpgrade, BeingRestarted
<1>6. CASE StartNode(n) \/ FinishDrain(n)
  <2>1. UNCHANGED <<ready, used>>
    BY <1>6 DEF StartNode, FinishDrain
  <2>2. \A k \in Node : pod[k] = "up" => pod'[k] = "up"
    BY <1>6, <1>v DEF StartNode, FinishDrain, TypeOK
  <2>3. UpBut(H, x)'
    BY <1>1, <1>5, <2>1, <2>2 DEF UpBut
  <2> QED
    BY <1>1, <1>4, <2>1, <2>3 DEF OneDown, SomeDown
<1>7. CASE Readyz(n)
  <2>1. UNCHANGED <<pod, used>>
    BY <1>7 DEF Readyz
  <2>2. pod[x] # "up" => (x \in ready' => x \in ready)
    BY <1>7 DEF Readyz
  <2>3. UpBut(H, x)'
    BY <1>1, <1>5, <2>1, <2>2 DEF UpBut
  <2> QED
    BY <1>1, <1>4, <2>1, <2>3 DEF OneDown, SomeDown
<1>8. CASE RestartNode(n)
  <2>1. ready' = ready /\ used'.restarts = used.restarts + 1
    BY <1>8, <1>v, Budget DEF RestartNode
  <2>2. \A k \in Node : k # n => pod'[k] = pod[k]
    BY <1>8, <1>v DEF RestartNode, TypeOK
  <2>3. IsFiniteSet(H)
    BY NodesAreFinite, FS_Subset
  <2>4. Cardinality(H \cup {n}) <= Cardinality(H) + 1 /\ Cardinality(H) \in Nat
    <3>1. Cardinality(H \cup {n}) = IF n \in H THEN Cardinality(H) ELSE Cardinality(H) + 1
      BY <2>3, FS_AddElement
    <3>2. Cardinality(H) \in Nat
      BY <2>3, FS_CardinalityType
    <3> QED
      BY <3>1, <3>2
  <2>5. Cardinality(H \cup {n}) \in Nat /\ used.restarts \in Nat
    BY <2>3, FS_AddElement, FS_CardinalityType, UpgradeAssumption, <1>v DEF TypeOK
  <2>6. Cardinality(H \cup {n}) <= used'.restarts
    BY <1>1, <2>1, <2>4, <2>5
  <2>7. UpBut(H \cup {n}, x)'
    BY <1>1, <1>5, <2>1, <2>2 DEF UpBut
  <2>8. H \cup {n} \in SUBSET Node
    OBVIOUS
  <2> QED
    BY <1>1, <1>4, <2>6, <2>7, <2>8 DEF OneDown, SomeDown
<1> QED
  BY <1>6, <1>7, <1>8

LEMMA DownStep ==
  ASSUME MaxScales = 0, GInv, Versions, OneDown, [Next]_vars
  PROVE  OneDown'
<1>v. Steady /\ TypeOK
  BY DEF Versions, GInv
<1>1. CASE UNCHANGED vars \/ \E i \in Images : ChangeImage(i)
  <2>1. UNCHANGED <<ctx, sts, pod, ready, ran, pc>> /\ used'.restarts = used.restarts
    BY <1>1, <1>v, Budget DEF vars, ChangeImage, clusterVars, syncVars
  <2>2. OneRackBehind'
    BY <2>1 DEF OneDown, OneRackBehind, Updated, Template, Below, Partition
  <2>3. PICK H \in SUBSET Node, x \in Node : Member(x) /\ Cardinality(H) <= used.restarts /\ UpBut(H, x)
    BY DEF OneDown, SomeDown
  <2>4. UpBut(H, x)'
    BY <2>1, <2>3 DEF UpBut, NextToUpgrade, BeingRestarted, Updated, Template, Below, Partition, RolledOut
  <2> QED
    BY <2>1, <2>2, <2>3, <2>4 DEF OneDown, SomeDown
<1>2. ASSUME NEW r \in Racks PROVE ~ScaleDown(r) /\ ~ScaleUp(r)
  BY <1>v DEF Steady, ScaleDown, ScaleUp, Scale
<1>3. ASSUME NEW n \in Node, NodeStep(n) \/ RestartNode(n) PROVE OneDown'
  BY <1>3, DownCreate, DownRestartPod, DownNode DEF NodeStep
<1>4. CASE SyncStep \/ Abort
  BY <1>4, DownSync, DownNodeCalls, DownLower, DownWrite DEF SyncStep
<1> QED
  BY <1>1, <1>2, <1>3, <1>4, DownStatus DEF Next

LEMMA DownCounts ==
  ASSUME GInv, Versions, OneDown
  PROVE  OneNodeDown
<1>v. Steady /\ TypeOK
  BY DEF Versions, GInv
<1>1. PICK H \in SUBSET Node, x \in Node : Member(x) /\ Cardinality(H) <= used.restarts /\ UpBut(H, x)
  BY DEF OneDown, SomeDown
<1> DEFINE D == {n \in AllMembers : pod[n] # "up"}
<1>2. 1 \in Racks
  BY UpgradeAssumption DEF Racks
<1>3. D \subseteq H \cup {x}
  BY <1>1, <1>2, <1>v, MembersAre DEF UpBut
<1>4. IsFiniteSet(H)
  BY NodesAreFinite, FS_Subset
<1>5. /\ IsFiniteSet(H \cup {x})
      /\ Cardinality(H \cup {x}) = IF x \in H THEN Cardinality(H) ELSE Cardinality(H) + 1
  BY <1>4, FS_AddElement
<1>6. Cardinality(D) <= Cardinality(H \cup {x}) /\ IsFiniteSet(D)
  BY <1>3, <1>5, FS_Subset
<1>7. Cardinality(D) \in Nat /\ Cardinality(H) \in Nat /\ used.restarts \in Nat
  BY <1>4, <1>6, FS_CardinalityType, UpgradeAssumption, <1>v DEF TypeOK
<1>8. Cardinality(D) <= 1 + used.restarts
  BY <1>1, <1>5, <1>6, <1>7
<1> QED
  BY <1>8 DEF OneNodeDown

\* On racks that are not scaled meanwhile, the operator and the StatefulSet controller
\* together take at most one node of the datacenter down at a time, for any number of
\* racks, nodes, image changes, interrupted syncs and containers that restart by
\* themselves: the wait of syncStatefulSets for every rack to be rolled out
\* (IsStatefulSetRolledOut) sees the node restarted last.
THEOREM OneNodeDownAtMost ==
  ASSUME MaxScales = 0
  PROVE  Spec => []OneNodeDown
<1>1. Init => IInv
  BY GInitially, VersionsInitially, DownInitially DEF IInv
<1>2. IInv /\ [Next]_vars => IInv'
  BY GStep, VersionsStep, DownStep DEF IInv
<1>3. IInv => OneNodeDown
  BY DownCounts DEF IInv
<1> QED
  BY <1>1, <1>2, <1>3, PTL DEF Spec
=============================================================================
