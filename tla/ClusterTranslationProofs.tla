---------------------- MODULE ClusterTranslationProofs ----------------------
(***************************************************************************)
(* Proofs about ClusterTranslation, for every number of edits and faults,   *)
(* every set of tasks and any lag of the informers.                         *)
(***************************************************************************)
EXTENDS ClusterTranslation, TLAPS

Counts == {Absent, 0, 1}
Annotations == {"a", "none", "disable", "force"}
Upgrades == {"none", Upgrading}
Specs == [ver : Nat, cpu : Nat, fixed : {1, 2}, form : Forms, rack : Counts]
RackReports == [entry : BOOLEAN, nodes : {0, 1}, leaving : BOOLEAN, stale : BOOLEAN]
Statuses == [gen : Nat, prog : ConditionStatus, deg : ConditionStatus, rack : RackReports]
RequiredDatacenters == [spec : Specs, ann : Annotations, mark : BOOLEAN]
Clusters ==
  [gen : Nat \ {0}, spec : Specs, ann : Annotations, tasks : SUBSET Tasks,
   status : Statuses, upgrade : Upgrades]
Datacenters ==
  [gen : Nat \ {0}, spec : Specs, ann : Annotations, hash : RequiredDatacenters,
   status : Statuses]
Templates == [ver : Nat, cpu : Nat, ann : Annotations]

\* What the API server and the informers may hold; there is a ScyllaCluster unless
\* the datacenter is the user's own.
View(v) ==
  /\ v \in [sc : Clusters \cup {NoSC}, sdc : Datacenters \cup {NoSDC}, tasks : SUBSET Tasks,
            obj : {"sc", "none", "sdc"}, upg : Upgrades]
  /\ (v.sc = NoSC) = (topic = "unmanaged")
  /\ v.sdc = NoSDC => topic = "takeover"

Listed(v) ==
  /\ v.sc \in Clusters
  /\ v.sdc \in Datacenters \cup {NoSDC}
  /\ v.tasks \in SUBSET Tasks
  /\ v.upg \in Upgrades

Types ==
  /\ topic \in {"takeover", "limits", "racks", "unmanaged"}
  /\ View(live) /\ View(cache)
  /\ stale \subseteq Kinds
  /\ \A k \in Kinds \ stale : cache[k] = live[k]
  /\ queue \in BOOLEAN
  /\ pc \in {"idle", "datacenter", "tasks", "status"}
  /\ pc # "idle" => Listed(listed) /\ topic # "unmanaged"
  /\ own \in [prog : BOOLEAN, deg : BOOLEAN]
  /\ workload \in Templates /\ rolled \in Templates
  /\ rack \in RackStates
  /\ copy \in [sdc : Datacenters \cup {NoSDC}, rack : RackStates]
  /\ misreported \in BOOLEAN
  /\ edits \in Nat /\ faults \in 0 .. MaxFaults

\* What was translated from v, or v itself, is not newer than w, and has an older
\* generation when it has another spec.
Older(v, w) == v.gen <= w.gen /\ (v.spec # w.spec => v.gen < w.gen)

\* The datacenter, what the sync listed, the cache and the API server, in the order
\* in which the ScyllaCluster comes to them.
Generations ==
  /\ topic = "unmanaged" => live.sdc.gen <= 1 + edits
  /\ topic # "unmanaged" =>
       /\ live.sc.gen <= 1 + edits
       /\ Older(cache.sc, live.sc)
       /\ live.sdc # NoSDC => Older(live.sdc, cache.sc)
       /\ pc # "idle" =>
            /\ Older(listed.sc, cache.sc)
            /\ live.sdc # NoSDC => Older(live.sdc, listed.sc)

\* What the datacenter runs is what its spec says.
Runs(spec) ==
  /\ workload.ver = spec.ver /\ workload.cpu = spec.cpu
  /\ rolled.ver = spec.ver /\ rolled.cpu = spec.cpu
  /\ rack = Target(spec.rack)

\* What the datacenter's controller may read of the rack is one step behind at most,
\* and once it has reported on a generation it reads no earlier spec.
Copies ==
  /\ \/ copy.rack = rack
     \/ <<copy.rack, rack>> \in {<<"none", "member">>, <<"asked", "left">>, <<"left", "scaled">>}
  /\ (/\ live.sdc # NoSDC /\ copy.sdc # NoSDC
      /\ live.sdc.status.gen = live.sdc.gen) => copy.sdc.spec = live.sdc.spec

\* A report of the datacenter's controller on the present generation that misses no
\* node is true for as long as that generation lasts: whether it is rolled out, and
\* that a rack without nodes is empty.
ReportIsTrue ==
  live.sdc # NoSDC =>
    /\ live.sdc.status.gen <= live.sdc.gen
    /\ (live.sdc.status.gen = live.sdc.gen /\ ~misreported) =>
         /\ live.sdc.status.prog = "False" => Runs(live.sdc.spec)
         /\ (/\ ~live.sdc.status.rack.stale /\ ReportedEmpty(live.sdc)
             /\ live.sdc.spec.rack = 0) => rack = "none"

\* The hash of a translated datacenter is of the spec it has.
Hashed(sdc) == sdc # NoSDC => sdc.hash.spec = sdc.spec

Hashes ==
  topic # "unmanaged" =>
    Hashed(live.sdc) /\ Hashed(cache.sdc) /\ (pc # "idle" => Hashed(listed.sdc))

\* The datacenter has the spec of the ScyllaCluster, and reports it as rolled out.
Backed(sc, sdc) ==
  /\ sdc # NoSDC
  /\ sdc.spec = sc.spec
  /\ sdc.status.gen = sdc.gen /\ sdc.status.prog = "False"

\* Nothing that would wake the controller was delivered since its sync listed the
\* objects, when the queue is empty; so it found the datacenter to be what it
\* requires unless it says otherwise in a condition of its own, and the status it
\* leaves behind is backed by the datacenter.
Unawaited ==
  (topic # "unmanaged" /\ ~queue) =>
    /\ pc # "idle" => listed.sc = cache.sc /\ listed.sdc = cache.sdc
    /\ (pc \in {"tasks", "status"} /\ ~own.prog /\ ~own.deg) =>
         listed.sdc # NoSDC /\ listed.sdc.spec = listed.sc.spec
    /\ (pc = "idle" /\ "sc" \notin stale /\ "sdc" \notin stale /\ Claims) =>
         Backed(live.sc, live.sdc)

IInv == Types /\ Generations /\ Copies /\ ReportIsTrue /\ Hashes /\ Unawaited
-----------------------------------------------------------------------------

LEMMA NoneAreAbsent ==
  /\ NoSC \notin Clusters /\ NoSDC \notin Datacenters
  /\ \A c \in Clusters : c.gen # 0
  /\ \A d \in Datacenters : d.gen # 0
<1>1. \A c \in Clusters : c.gen # 0
  BY DEF Clusters
<1>2. \A d \in Datacenters : d.gen # 0
  BY DEF Datacenters
<1>3. NoSC.gen = 0 /\ NoSDC.gen = 0
  BY DEF NoSC, NoSDC
<1> QED BY <1>1, <1>2, <1>3

LEMMA Bounds == MaxFaults \in Nat /\ RackStart \subseteq Counts
  BY BoundsAssumption DEF Counts

LEMMA SpecTypes ==
  /\ \A want \in Counts : InitialSpec(want) \in Specs /\ InitialSpec(want).rack = want
  /\ Unreported \in Statuses /\ Unreported.gen = 0
  /\ Quiet \in [prog : BOOLEAN, deg : BOOLEAN]
  /\ NoRackStatus \in RackReports
  /\ \A r \in RackStates : RackReport(r) \in RackReports
  /\ \A want \in Counts : Target(want) \in RackStates
<1>1. \A want \in Counts : InitialSpec(want) \in Specs /\ InitialSpec(want).rack = want
  BY DEF InitialSpec, Specs, Counts, Forms
<1>2. NoRackStatus \in RackReports
  BY DEF NoRackStatus, RackReports
<1>3. Unreported \in Statuses /\ Unreported.gen = 0
  BY <1>2 DEF Unreported, Statuses, ConditionStatus
<1>4. Quiet \in [prog : BOOLEAN, deg : BOOLEAN]
  BY DEF Quiet
<1>5. ASSUME NEW r \in RackStates PROVE RackReport(r) \in RackReports
  <2>1. (r \in {"asked", "left", "scaled"}) \in BOOLEAN /\ (r = "absent") \in BOOLEAN
    OBVIOUS
  <2> QED BY <2>1 DEF RackReport, RackReports
<1>6. \A want \in Counts : Target(want) \in RackStates
  BY DEF Target, Counts, RackStates, Absent
<1> QED BY <1>1, <1>2, <1>3, <1>4, <1>5, <1>6

LEMMA TemplateTypes ==
  ASSUME NEW o, o.spec \in Specs, o.ann \in Annotations
  PROVE  /\ Template(o) \in Templates
         /\ Template(o).ver = o.spec.ver /\ Template(o).cpu = o.spec.cpu
  BY DEF Template, Templates, Specs

\* Both ways to begin have the types, and everything is settled or not reported on.
LEMMA InitLive ==
  ASSUME Init
  PROVE  /\ topic \in {"takeover", "limits", "racks", "unmanaged"}
         /\ View(live) /\ rack \in RackStates
         /\ topic # "unmanaged" => live.sc.gen = 1
         /\ live.sdc # NoSDC => /\ live.sdc.gen = 1
                                /\ live.sdc.hash.spec = live.sdc.spec
                                /\ live.sdc.status.gen = 1
                                /\ topic # "unmanaged" => live.sdc.spec = live.sc.spec
                                /\ rack = Target(live.sdc.spec.rack)
                                /\ User.spec = live.sdc.spec
<1>1. CASE InitTakeover
  <2>1. /\ live.sc = [gen |-> 1, spec |-> InitialSpec(Absent), ann |-> "a", tasks |-> Tasks,
                      status |-> Unreported, upgrade |-> Upgrading]
        /\ live.sdc = NoSDC /\ topic = "takeover" /\ rack = "absent"
    BY <1>1 DEF InitTakeover
  <2>2. live.sc \in Clusters
    BY <2>1, SpecTypes DEF Clusters, Counts, Annotations, Upgrades
  <2>3. View(live)
    <3>1. live \in [sc : Clusters \cup {NoSC}, sdc : Datacenters \cup {NoSDC},
                    tasks : SUBSET Tasks, obj : {"sc", "none", "sdc"}, upg : Upgrades]
      BY <1>1, <2>1, <2>2 DEF InitTakeover, Upgrades
    <3> QED BY <2>1, <2>2, <3>1, NoneAreAbsent DEF View
  <2> QED BY <2>1, <2>3 DEF RackStates
<1>2. CASE InitSettled
  <2>0. topic \in {"limits", "racks", "unmanaged"}
    BY <1>2 DEF InitSettled
  <2>1. PICK want \in Counts :
          LET spec == InitialSpec(want)
              sdc  == [Created([spec |-> spec, ann |-> "none", mark |-> FALSE])
                          EXCEPT !.status = SettledStatus(want)]
              sc   == [gen |-> 1, spec |-> spec, ann |-> "none", tasks |-> {},
                       status |-> SettledStatus(want), upgrade |-> "none"]
          IN /\ rack = Target(want)
             /\ live = [sc |-> IF topic = "unmanaged" THEN NoSC ELSE sc, sdc |-> sdc,
                        tasks |-> {}, obj |-> "sdc", upg |-> "none"]
    BY <1>2, Bounds DEF InitSettled, Counts
  <2> DEFINE spec == InitialSpec(want)
             required == [spec |-> spec, ann |-> "none", mark |-> FALSE]
  <2>2. SettledStatus(want) \in Statuses /\ SettledStatus(want).gen = 1
    BY SpecTypes DEF SettledStatus, Statuses, ConditionStatus
  <2>3. spec \in Specs /\ spec.rack = want
    BY SpecTypes
  <2>4. required \in RequiredDatacenters
    BY <2>3 DEF RequiredDatacenters, Annotations
  <2>5. live.sdc = [gen |-> 1, spec |-> spec, ann |-> "none", hash |-> required,
                    status |-> SettledStatus(want)]
    BY <2>1 DEF Created
  <2>6. live.sdc \in Datacenters
    BY <2>2, <2>3, <2>4, <2>5 DEF Datacenters, Annotations
  <2>7. topic # "unmanaged" => live.sc = [gen |-> 1, spec |-> spec, ann |-> "none",
            tasks |-> {}, status |-> SettledStatus(want), upgrade |-> "none"]
    BY <2>1
  <2>8. topic # "unmanaged" => live.sc \in Clusters
    BY <2>2, <2>3, <2>7 DEF Clusters, Annotations, Upgrades
  <2>9. topic = "unmanaged" => live.sc = NoSC
    BY <2>1
  <2>10. View(live)
    BY <2>1, <2>6, <2>8, <2>9, NoneAreAbsent DEF View, Upgrades
  <2>11. rack \in RackStates /\ rack = Target(want)
    BY <2>1, SpecTypes
  <2>12. User.spec = spec
    BY <2>5, <2>7, <2>8, <2>9, NoneAreAbsent DEF User, managed
  <2>13. /\ live.sdc.gen = 1 /\ live.sdc.spec = spec /\ live.sdc.hash = required
         /\ live.sdc.status.gen = 1 /\ required.spec = spec
         /\ topic # "unmanaged" => live.sc.gen = 1 /\ live.sc.spec = spec
    BY <2>2, <2>5, <2>7
  <2> HIDE DEF spec, required
  <2> QED BY <2>0, <2>3, <2>10, <2>11, <2>12, <2>13
<1> QED BY <1>1, <1>2 DEF Init

LEMMA InitIInv == Init => IInv
<1> SUFFICES ASSUME Init PROVE IInv
  OBVIOUS
<1> USE InitLive
<1>0. /\ cache = live /\ stale = {} /\ queue = TRUE /\ pc = "idle" /\ own = Quiet
      /\ workload = Template(User) /\ rolled = workload /\ edits = 0 /\ faults = 0
      /\ copy = [sdc |-> live.sdc, rack |-> rack] /\ misreported = FALSE
  BY DEF Init
<1>1. User.spec \in Specs /\ User.ann \in Annotations
  BY NoneAreAbsent DEF View, User, managed, Clusters, Datacenters
<1>2. /\ workload \in Templates
      /\ workload.ver = User.spec.ver /\ workload.cpu = User.spec.cpu
  BY <1>0, <1>1, TemplateTypes
<1>3. Types
  <2>1. own \in [prog : BOOLEAN, deg : BOOLEAN] /\ faults \in 0 .. MaxFaults
    BY <1>0, SpecTypes, Bounds
  <2>2. View(cache) /\ \A k \in Kinds : cache[k] = live[k]
    BY <1>0 DEF View
  <2>3. copy \in [sdc : Datacenters \cup {NoSDC}, rack : RackStates] /\ misreported \in BOOLEAN
    BY <1>0 DEF View
  <2> QED BY <1>0, <1>2, <2>1, <2>2, <2>3 DEF Types
<1>4. Generations
  <2>1. topic # "unmanaged" => live.sc \in Clusters
    BY DEF View
  <2> QED BY <1>0, <2>1 DEF Generations, Older, View
<1>5. ReportIsTrue
  <2> SUFFICES ASSUME live.sdc # NoSDC PROVE ReportIsTrue
    BY DEF ReportIsTrue
  <2>1. live.sdc.spec.rack = 0 => rack = "none"
    BY DEF Target, Absent
  <2> QED BY <1>0, <1>2, <2>1 DEF ReportIsTrue, Runs
<1>6. Hashes
  BY <1>0 DEF Hashes, Hashed
<1>7. Unawaited
  BY <1>0 DEF Unawaited
<1>8. Copies
  BY <1>0 DEF Copies
<1> QED BY <1>3, <1>4, <1>5, <1>6, <1>7, <1>8 DEF IInv

-----------------------------------------------------------------------------
(* Writes.                                                                 *)

\* A step that writes objects of these kinds, or none, and delivers nothing.
Written(kinds) ==
  /\ View(live)'
  /\ stale' \in SUBSET Kinds /\ stale \subseteq stale'
  /\ \A k \in Kinds \ stale' : cache[k] = live'[k]
  /\ \A k \in Kinds : live'[k] # live[k] => k \in kinds /\ k \in stale'

LEMMA NoWriteWritten ==
  ASSUME Types, UNCHANGED topic, NoWrite PROVE Written({})
  BY DEF Types, NoWrite, Written, View

LEMMA WriteWritten ==
  ASSUME Types, UNCHANGED topic, NEW kinds \in SUBSET Kinds, NEW new, Write(kinds, new),
         View(new), \A k \in Kinds \ kinds : new[k] = live[k]
  PROVE  Written(kinds)
<1>1. live' = new /\ stale' = stale \cup {k \in kinds : new[k] # live[k]}
  BY DEF Write
<1>2. View(live)'
  BY <1>1 DEF View
<1>3. \A k \in Kinds \ stale' : cache[k] = live'[k]
  BY <1>1 DEF Types
<1> QED BY <1>1, <1>2, <1>3 DEF Written, Types

\* What a step that writes keeps of the types.
LEMMA WrittenTypes ==
  ASSUME Types, NEW kinds \in SUBSET Kinds, Written(kinds),
         UNCHANGED <<cache, topic>>
  PROVE  /\ topic' \in {"takeover", "limits", "racks", "unmanaged"}
         /\ View(live)' /\ View(cache)' /\ stale' \subseteq Kinds
         /\ \A k \in Kinds \ stale' : cache'[k] = live'[k]
  BY DEF Types, Written, View

LEMMA Written0 ==
  ASSUME Written({}) PROVE live'.sc = live.sc /\ live'.sdc = live.sdc
  BY DEF Written, Kinds

LEMMA WrittenSC ==
  ASSUME NEW kinds, "sc" \notin kinds, Written(kinds) PROVE live'.sc = live.sc
  BY DEF Written, Kinds

LEMMA WrittenSDC ==
  ASSUME NEW kinds, "sdc" \notin kinds, Written(kinds) PROVE live'.sdc = live.sdc
  BY DEF Written, Kinds

\* What is not written and not stale later on was not stale.
LEMMA WrittenFresh ==
  ASSUME Types, NEW kinds, Written(kinds), NEW k \in Kinds, k \notin stale'
  PROVE  k \notin stale /\ live'[k] = live[k] /\ cache[k] = live[k]
  BY DEF Types, Written

LEMMA ViewSC ==
  ASSUME NEW v, View(v), topic # "unmanaged" PROVE v.sc \in Clusters /\ v.sc # NoSC
  BY NoneAreAbsent DEF View

LEMMA ViewSDC ==
  ASSUME NEW v, View(v), v.sdc # NoSDC PROVE v.sdc \in Datacenters
  BY DEF View

LEMMA CopiesKept ==
  ASSUME Copies, UNCHANGED <<copy, rack>>, live'.sdc = live.sdc PROVE Copies'
  BY DEF Copies

\* Copies are as new as before when a report on the present generation is one on the
\* same spec.
LEMMA CopiesOfSpec ==
  ASSUME Copies, UNCHANGED <<copy, rack>>,
         live'.sdc.status.gen = live'.sdc.gen =>
           /\ live.sdc # NoSDC /\ live.sdc.status.gen = live.sdc.gen
           /\ live'.sdc.spec = live.sdc.spec
  PROVE  Copies'
  BY DEF Copies

LEMMA FaultType ==
  ASSUME Types, Fault \/ UNCHANGED faults PROVE faults' \in 0 .. MaxFaults
  BY Bounds DEF Types, Fault

-----------------------------------------------------------------------------
(* The sync.                                                               *)

LEMMA SyncStep ==
  ASSUME IInv, sync PROVE IInv'
<1> USE DEF IInv
<1>0. /\ pc' = "datacenter" /\ queue' = FALSE /\ own' = Quiet
      /\ UNCHANGED <<cache, workload, rolled, rack, copy, misreported, topic, edits>>
      /\ listed'.sc = cache.sc /\ listed'.sdc = cache.sdc
      /\ listed'.tasks = cache.tasks /\ listed'.upg = cache.upg
  BY DEF sync, datacenter, Kinds
<1>1. topic # "unmanaged"
  BY DEF sync, Types, View
<1>2. Written({"obj"}) /\ faults' \in 0 .. MaxFaults
  <2>1. CASE Write({"obj"}, [live EXCEPT !.obj = "none"]) /\ UNCHANGED faults
    <3>1. View([live EXCEPT !.obj = "none"])
      BY DEF Types, View
    <3>2. \A k \in Kinds \ {"obj"} : [live EXCEPT !.obj = "none"][k] = live[k]
      BY DEF Types, View, Kinds
    <3>3. {"obj"} \in SUBSET Kinds
      BY DEF Kinds
    <3> HIDE DEF IInv
    <3> QED BY <1>0, <2>1, <3>1, <3>2, <3>3, WriteWritten DEF IInv, Types
  <2>2. CASE NoWrite /\ (UNCHANGED faults \/ Fault)
    <3>1. Written({})
      BY <1>0, <2>2, NoWriteWritten
    <3> QED BY <2>2, <3>1, FaultType DEF Written
  <2> QED BY <2>1, <2>2 DEF sync
<1>3. live'.sc = live.sc /\ live'.sdc = live.sdc
  BY <1>2, WrittenSC, WrittenSDC
<1>4. Types'
  <2>1. Listed(listed')
    BY <1>0, <1>1, ViewSC DEF Types, View, Listed
  <2>2. {"obj"} \in SUBSET Kinds
    BY DEF Kinds
  <2>3. own' \in [prog : BOOLEAN, deg : BOOLEAN]
    BY <1>0, SpecTypes
  <2>4. /\ View(live)' /\ View(cache)' /\ stale' \subseteq Kinds
        /\ \A k \in Kinds \ stale' : cache'[k] = live'[k]
    BY <1>0, <1>2, <2>2, WrittenTypes
  <2> QED BY <1>0, <1>1, <1>2, <2>1, <2>3, <2>4 DEF Types, Listed
<1>5. Generations'
  <2>1. cache.sc \in Clusters
    BY <1>1, ViewSC DEF Types
  <2> QED BY <1>0, <1>1, <1>3, <2>1 DEF Generations, Older, Clusters
<1>6. ReportIsTrue'
  BY <1>0, <1>3 DEF ReportIsTrue, Runs, ReportedEmpty
<1>7. Hashes'
  BY <1>0, <1>3 DEF Hashes, Hashed
<1>8. Unawaited'
  BY <1>0 DEF Unawaited
<1>9. Copies'
  BY <1>0, <1>3, CopiesKept
<1> QED BY <1>4, <1>5, <1>6, <1>7, <1>8, <1>9

LEMMA RequiredTypes ==
  ASSUME NEW sc \in Clusters, NEW sdc
  PROVE  /\ requiredDatacenter(sc, sdc) \in RequiredDatacenters
         /\ requiredDatacenter(sc, sdc).spec = sc.spec
<1>1. MarkMissingKeysForRemoval(sc.ann, sdc) \in BOOLEAN
  BY DEF MarkMissingKeysForRemoval
<1> QED BY <1>1 DEF requiredDatacenter, RequiredDatacenters, Clusters

LEMMA CreatedTypes ==
  ASSUME NEW required \in RequiredDatacenters
  PROVE  /\ Created(required) \in Datacenters
         /\ Created(required).gen = 1 /\ Created(required).spec = required.spec
         /\ Created(required).hash = required /\ Created(required).status.gen = 0
  BY SpecTypes DEF Created, RequiredDatacenters, Datacenters

\* The generation counts the specs.
LEMMA MergedTypes ==
  ASSUME NEW sdc \in Datacenters, NEW required \in RequiredDatacenters
  PROVE  /\ merged(sdc, required) \in Datacenters
         /\ merged(sdc, required).spec = required.spec
         /\ merged(sdc, required).hash = required
         /\ merged(sdc, required).status = sdc.status
         /\ merged(sdc, required).gen = sdc.gen + (IF sdc.spec = required.spec THEN 0 ELSE 1)
<1>1. /\ NextGeneration(sdc, required) = sdc.gen + (IF sdc.spec = required.spec THEN 0 ELSE 1)
      /\ NextGeneration(sdc, required) \in Nat \ {0}
  BY DEF NextGeneration, Datacenters
<1> QED BY <1>1 DEF merged, Datacenters, RequiredDatacenters

\* The part of the invariant that is about a write of the datacenter: the new one has
\* the listed spec, and the old status if it has the old generation.
DatacenterWritten ==
  /\ live'.sc = live.sc /\ live'.sdc \in Datacenters
  /\ live'.sdc.spec = listed.sc.spec /\ live'.sdc.hash.spec = listed.sc.spec
  /\ \/ /\ live.sdc = NoSDC /\ live'.sdc.gen = 1 /\ live'.sdc.status.gen = 0
     \/ /\ live.sdc # NoSDC /\ live'.sdc.status = live.sdc.status
        /\ live'.sdc.gen = live.sdc.gen + (IF live.sdc.spec = listed.sc.spec THEN 0 ELSE 1)

LEMMA DatacenterStep ==
  ASSUME IInv, syncScyllaDBDatacenter PROVE IInv'
<1> USE DEF IInv
<1> DEFINE required == requiredDatacenter(listed.sc, listed.sdc)
           upToDate == cache.sdc # NoSDC /\ cache.sdc.hash = required
<1>0. /\ pc = "datacenter" /\ pc' = "tasks"
      /\ UNCHANGED <<cache, queue, listed, workload, rolled, rack, copy, misreported,
                     topic, edits>>
  BY DEF syncScyllaDBDatacenter, datacenter
<1>1. /\ topic # "unmanaged" /\ Listed(listed)
      /\ live.sc \in Clusters /\ cache.sc \in Clusters /\ listed.sc \in Clusters
  BY <1>0, ViewSC DEF Types, Listed
<1>2. required \in RequiredDatacenters /\ required.spec = listed.sc.spec
  BY <1>1, RequiredTypes
<1> HIDE DEF required
<1>3. \/ Written({"sdc", "upg"}) /\ DatacenterWritten /\ own' = [own EXCEPT !.prog = TRUE]
                                 /\ UNCHANGED faults
      \/ Written({}) /\ upToDate /\ UNCHANGED <<own, faults>>
      \/ Written({}) /\ own' = [own EXCEPT !.deg = TRUE] /\ (UNCHANGED faults \/ Fault)
  <2>1. CASE /\ live.sdc = NoSDC /\ own' = [own EXCEPT !.prog = TRUE] /\ UNCHANGED faults
             /\ Write({"sdc", "upg"}, [withUpgrade EXCEPT !.sdc = Created(required)])
    <3> DEFINE new == [withUpgrade EXCEPT !.sdc = Created(required)]
    <3>1. View(withUpgrade) /\ \A k \in Kinds \ {"sdc", "upg"} : withUpgrade[k] = live[k]
      <4>1. listed.sc.upgrade \in Upgrades
        BY <1>1 DEF Clusters
      <4> QED BY <4>1 DEF withUpgrade, SavesUpgrade, Types, View, Kinds
    <3>2. View(new) /\ new.sdc = Created(required) /\ new.sc = live.sc
          /\ \A k \in Kinds \ {"sdc", "upg"} : new[k] = live[k]
      <4>1. Created(required) \in Datacenters
        BY <1>2, CreatedTypes
      <4> QED BY <3>1, <4>1, NoneAreAbsent DEF View, Kinds
    <3>3. {"sdc", "upg"} \in SUBSET Kinds
      BY DEF Kinds
    <3>4. live' = new
      BY <2>1 DEF Write
    <3> HIDE DEF new
    <3>5. Written({"sdc", "upg"})
      BY <1>0, <2>1, <3>2, <3>3, WriteWritten DEF new
    <3> QED BY <1>2, <2>1, <3>2, <3>4, <3>5, CreatedTypes DEF DatacenterWritten
  <2>2. CASE /\ cache.sdc # NoSDC /\ "sdc" \notin stale
             /\ own' = [own EXCEPT !.prog = TRUE] /\ UNCHANGED faults
             /\ Write({"sdc"}, [live EXCEPT !.sdc = merged(live.sdc, required)])
    <3> DEFINE new == [live EXCEPT !.sdc = merged(live.sdc, required)]
    <3>1. live.sdc # NoSDC /\ live.sdc \in Datacenters
      BY <2>2, ViewSDC DEF Types, Kinds
    <3>2. merged(live.sdc, required) \in Datacenters
      BY <1>2, <3>1, MergedTypes
    <3>3. View(new) /\ new.sdc = merged(live.sdc, required) /\ new.sc = live.sc
          /\ \A k \in Kinds \ {"sdc"} : new[k] = live[k]
      BY <3>2, NoneAreAbsent DEF Types, View, Kinds
    <3>4. {"sdc"} \in SUBSET Kinds
      BY DEF Kinds
    <3>5. live' = new
      BY <2>2 DEF Write
    <3> HIDE DEF new
    <3>6. Written({"sdc"})
      BY <1>0, <2>2, <3>3, <3>4, WriteWritten DEF new
    <3>7. Written({"sdc", "upg"})
      BY <3>6 DEF Written
    <3> QED BY <1>2, <2>2, <3>1, <3>2, <3>3, <3>5, <3>7, MergedTypes DEF DatacenterWritten
  <2>3. CASE /\ NoWrite
             /\ \/ upToDate /\ UNCHANGED <<own, faults>>
                \/ own' = [own EXCEPT !.deg = TRUE] /\ (UNCHANGED faults \/ Fault)
    BY <1>0, <2>3, NoWriteWritten
  <2> QED BY <2>1, <2>2, <2>3 DEF syncScyllaDBDatacenter, required
<1>4. Written({"sdc", "upg"}) /\ live'.sc = live.sc
  BY <1>3, WrittenSC DEF Written
<1>5. Types'
  <2>1. {"sdc", "upg"} \in SUBSET Kinds
    BY DEF Kinds
  <2>2. /\ View(live)' /\ View(cache)' /\ stale' \subseteq Kinds
        /\ \A k \in Kinds \ stale' : cache'[k] = live'[k]
    BY <1>0, <1>4, <2>1, WrittenTypes
  <2>3. own' \in [prog : BOOLEAN, deg : BOOLEAN] /\ faults' \in 0 .. MaxFaults
    BY <1>3, FaultType DEF Types
  <2> QED BY <1>0, <1>1, <2>2, <2>3 DEF Types, Listed
<1>6. DatacenterWritten \/ live'.sdc = live.sdc
  BY <1>3, Written0
<1>7. Generations'
  <2>1. CASE live'.sdc = live.sdc
    BY <1>0, <1>1, <1>4, <2>1 DEF Generations
  <2>2. CASE DatacenterWritten
    <3>1. live.sdc # NoSDC => live.sdc \in Datacenters
      BY ViewSDC DEF Types
    <3>2. live'.sdc.gen <= listed.sc.gen
      BY <1>0, <1>1, <2>2, <3>1 DEF DatacenterWritten, Generations, Older, Clusters, Datacenters
    <3>3. Older(live'.sdc, listed.sc)
      BY <2>2, <3>2 DEF DatacenterWritten, Older
    <3>4. Older(live'.sdc, cache.sc)
      BY <1>0, <1>1, <2>2, <3>3 DEF DatacenterWritten, Generations, Older, Clusters, Datacenters
    <3> QED BY <1>0, <1>1, <1>4, <3>3, <3>4 DEF Generations
  <2> QED BY <1>6, <2>1, <2>2
<1>8. ReportIsTrue'
  <2>1. CASE live'.sdc = live.sdc
    BY <1>0, <2>1 DEF ReportIsTrue, Runs, ReportedEmpty
  <2>2. CASE DatacenterWritten /\ live.sdc = NoSDC
    BY <2>2 DEF DatacenterWritten, ReportIsTrue
  <2>3. CASE DatacenterWritten /\ live.sdc # NoSDC
    <3>1. live.sdc \in Datacenters /\ live.sdc.status.gen \in Nat
      BY <2>3, ViewSDC DEF Types, Datacenters, Statuses
    <3>2. live'.sdc.status = live.sdc.status /\ live'.sdc.status.gen <= live'.sdc.gen
      BY <2>3, <3>1 DEF DatacenterWritten, ReportIsTrue, Datacenters
    <3>3. live'.sdc.status.gen = live'.sdc.gen =>
            live'.sdc.spec = live.sdc.spec /\ live.sdc.status.gen = live.sdc.gen
      BY <2>3, <3>1 DEF DatacenterWritten, ReportIsTrue, Datacenters
    <3> QED BY <1>0, <2>3, <3>2, <3>3 DEF ReportIsTrue, Runs, ReportedEmpty
  <2> QED BY <1>6, <2>1, <2>2, <2>3
<1>9. Hashes'
  BY <1>0, <1>1, <1>6 DEF Hashes, Hashed, DatacenterWritten
<1>10. Unawaited'
  <2>1. ~own'.prog /\ ~own'.deg => upToDate
    BY <1>3 DEF Types
  <2> QED BY <1>0, <1>1, <1>2, <2>1 DEF Unawaited, Hashes, Hashed
<1>11. Copies'
  <2>1. CASE live'.sdc = live.sdc
    BY <1>0, <2>1, CopiesKept
  <2>2. CASE DatacenterWritten
    <3>1. live.sdc # NoSDC => live.sdc \in Datacenters /\ live.sdc.status.gen \in Nat
      BY ViewSDC DEF Types, Datacenters, Statuses
    <3>2. live'.sdc.status.gen = live'.sdc.gen =>
            /\ live.sdc # NoSDC /\ live.sdc.status.gen = live.sdc.gen
            /\ live'.sdc.spec = live.sdc.spec
      BY <2>2, <3>1 DEF DatacenterWritten, ReportIsTrue, Datacenters
    <3> QED BY <1>0, <3>2, CopiesOfSpec
  <2> QED BY <1>6, <2>1, <2>2
<1> QED BY <1>5, <1>7, <1>8, <1>9, <1>10, <1>11

LEMMA TasksStep ==
  ASSUME IInv, syncScyllaDBManagerTasks PROVE IInv'
<1> USE DEF IInv
<1> DEFINE required == requiredTasks(listed.sc)
           excess == listed.tasks \ required
           missing == required \ cache.tasks
<1>0. /\ pc = "tasks" /\ pc' = "status"
      /\ UNCHANGED <<cache, queue, listed, workload, rolled, rack, copy, misreported,
                     topic, edits>>
  BY DEF syncScyllaDBManagerTasks, datacenter
<1>1. /\ topic # "unmanaged" /\ Listed(listed)
      /\ live.sc \in Clusters /\ cache.sc \in Clusters /\ listed.sc \in Clusters
  BY <1>0, ViewSC DEF Types, Listed
<1>2. required \subseteq Tasks /\ live.tasks \subseteq Tasks
  BY <1>1 DEF requiredTasks, Clusters, Types, View
<1> HIDE DEF required
<1>3. Written({"tasks"}) /\ (UNCHANGED faults \/ Fault)
  <2>1. ASSUME NEW tasks \in SUBSET Tasks, Write({"tasks"}, [live EXCEPT !.tasks = tasks])
        PROVE  Written({"tasks"})
    <3> DEFINE new == [live EXCEPT !.tasks = tasks]
    <3>1. View(new) /\ \A k \in Kinds \ {"tasks"} : new[k] = live[k]
      BY DEF Types, View, Kinds
    <3>2. {"tasks"} \in SUBSET Kinds
      BY DEF Kinds
    <3> HIDE DEF new
    <3> QED BY <1>0, <2>1, <3>1, <3>2, WriteWritten DEF new
  <2>2. CASE /\ Write({"tasks"}, [live EXCEPT !.tasks = (@ \ excess) \cup missing])
             /\ UNCHANGED faults
    <3>1. (live.tasks \ excess) \cup missing \in SUBSET Tasks
      BY <1>2
    <3> QED BY <2>1, <2>2, <3>1
  <2>3. CASE /\ Write({"tasks"}, [live EXCEPT !.tasks = @ \ excess])
             /\ UNCHANGED faults
    <3>1. live.tasks \ excess \in SUBSET Tasks
      BY <1>2
    <3> QED BY <2>1, <2>3, <3>1
  <2>4. CASE NoWrite /\ Fault
    <3>1. Written({})
      BY <1>0, <2>4, NoWriteWritten
    <3> QED BY <2>4, <3>1 DEF Written
  <2> QED BY <2>2, <2>3, <2>4 DEF syncScyllaDBManagerTasks, required
<1>4. live'.sc = live.sc /\ live'.sdc = live.sdc
  BY <1>3, WrittenSC, WrittenSDC
<1>5. /\ own' \in [prog : BOOLEAN, deg : BOOLEAN]
      /\ (own.prog => own'.prog) /\ (own.deg => own'.deg)
  <2>1. own \in [prog : BOOLEAN, deg : BOOLEAN]
    BY DEF Types
  <2>2. ASSUME NEW p \in BOOLEAN, NEW d \in BOOLEAN,
               own' = [prog |-> own.prog \/ p, deg |-> own.deg \/ d]
        PROVE  /\ own' \in [prog : BOOLEAN, deg : BOOLEAN]
               /\ (own.prog => own'.prog) /\ (own.deg => own'.deg)
    BY <2>1, <2>2
  <2>3. CASE own' = [own EXCEPT !.deg = TRUE]
    BY <2>1, <2>3
  <2>4. CASE \E p, d \in BOOLEAN : own' = [prog |-> own.prog \/ p, deg |-> own.deg \/ d]
    BY <2>2, <2>4
  <2>5. \/ own' = [own EXCEPT !.deg = TRUE]
        \/ own' = [prog |-> own.prog \/ missing \ (missing \cap live.tasks) # {},
                   deg |-> own.deg \/ missing \cap live.tasks # {}]
    BY DEF syncScyllaDBManagerTasks, required
  <2> QED BY <2>3, <2>4, <2>5
<1>6. Types'
  <2>1. {"tasks"} \in SUBSET Kinds
    BY DEF Kinds
  <2>2. /\ View(live)' /\ View(cache)' /\ stale' \subseteq Kinds
        /\ \A k \in Kinds \ stale' : cache'[k] = live'[k]
    BY <1>0, <1>3, <2>1, WrittenTypes
  <2>3. faults' \in 0 .. MaxFaults
    BY <1>3, FaultType
  <2> QED BY <1>0, <1>1, <1>5, <2>2, <2>3 DEF Types, Listed
<1>7. Generations'
  BY <1>0, <1>4 DEF Generations
<1>8. ReportIsTrue'
  BY <1>0, <1>4 DEF ReportIsTrue, Runs, ReportedEmpty
<1>9. Hashes'
  BY <1>0, <1>4 DEF Hashes
<1>10. Unawaited'
  BY <1>0, <1>5 DEF Unawaited
<1>11. Copies'
  BY <1>0, <1>4, CopiesKept
<1> QED BY <1>6, <1>7, <1>8, <1>9, <1>10, <1>11

\* A settled status is one of a sync that found nothing to do and of a datacenter
\* that reports its present generation as rolled out.
LEMMA StatusTypes ==
  ASSUME IInv, pc = "status"
  PROVE  /\ newStatus \in Statuses /\ newStatus.gen = listed.sc.gen
         /\ Settled(newStatus) =>
              /\ ~own.prog /\ ~own.deg
              /\ listed.sdc # NoSDC
              /\ listed.sdc.status.gen = listed.sdc.gen
              /\ listed.sdc.status.prog = "False"
<1> USE DEF IInv
<1> DEFINE theirs == findStatusConditionOrUnknown(listed.sc, listed.sdc)
<1>1. listed.sc \in Clusters /\ (listed.sdc # NoSDC => listed.sdc \in Datacenters)
  BY DEF Types, Listed
<1>2. own \in [prog : BOOLEAN, deg : BOOLEAN]
  BY DEF Types
<1>3. listed.sdc # NoSDC => listed.sdc.status \in Statuses
  BY <1>1 DEF Datacenters
<1>4. theirs \in Statuses
  BY <1>1, <1>3, SpecTypes DEF findStatusConditionOrUnknown
<1>5. Settled(theirs) => /\ listed.sdc # NoSDC /\ theirs = listed.sdc.status
                         /\ listed.sdc.status.gen = listed.sdc.gen
  <2> SUFFICES ASSUME Settled(theirs)
               PROVE  /\ listed.sdc # NoSDC /\ theirs = listed.sdc.status
                      /\ listed.sdc.status.gen = listed.sdc.gen
    OBVIOUS
  <2>1. /\ listed.sdc # NoSDC /\ offset(listed.sc, listed.sdc).gen = listed.sc.gen
        /\ theirs = listed.sdc.status
    BY DEF Settled, findStatusConditionOrUnknown, Unreported
  <2>2. /\ listed.sc.gen \in Nat \ {0} /\ listed.sdc.gen \in Nat
        /\ listed.sdc.status.gen \in Nat
    BY <1>1, <1>3, <2>1 DEF Clusters, Datacenters, Statuses
  <2>3. LET shifted == listed.sdc.status.gen + listed.sc.gen - listed.sdc.gen
        IN  offset(listed.sc, listed.sdc).gen = IF shifted < 0 THEN 0 ELSE shifted
    BY <1>3, <2>1 DEF offset, Statuses
  <2> QED BY <2>1, <2>2, <2>3
<1>6. listed.sc.status.rack \in RackReports /\ listed.sc.gen \in Nat
      /\ (listed.sdc # NoSDC => listed.sdc.status.rack \in RackReports)
  BY <1>1, <1>3 DEF Clusters, Statuses
<1>7. \A mine \in BOOLEAN, c \in ConditionStatus :
        /\ aggregate(mine, c) \in ConditionStatus
        /\ aggregate(mine, c) = "False" => ~mine /\ c = "False"
  BY DEF aggregate, ConditionStatus
<1>8. theirs.prog \in ConditionStatus /\ theirs.deg \in ConditionStatus
  BY <1>4 DEF Statuses
<1> HIDE DEF theirs
<1>9. /\ newStatus.gen = listed.sc.gen
      /\ newStatus.prog = aggregate(own.prog, theirs.prog)
      /\ newStatus.deg = aggregate(own.deg, theirs.deg)
      /\ newStatus \in Statuses
  BY <1>2, <1>6, <1>7, <1>8 DEF newStatus, theirs, Statuses
<1> QED BY <1>2, <1>5, <1>7, <1>8, <1>9 DEF Settled

LEMMA StatusStep ==
  ASSUME IInv, updateStatus PROVE IInv'
<1> USE DEF IInv
<1>0. /\ pc = "status" /\ pc' = "idle" /\ own' = Quiet
      /\ UNCHANGED <<cache, workload, rolled, rack, copy, misreported, topic, edits>>
  BY DEF updateStatus, datacenter, EndSync
<1>1. /\ topic # "unmanaged" /\ Listed(listed)
      /\ live.sc \in Clusters /\ cache.sc \in Clusters /\ listed.sc \in Clusters
  BY <1>0, ViewSC DEF Types, Listed
<1>2. newStatus \in Statuses /\ newUpgrade \in Upgrades
  BY <1>0, <1>1, StatusTypes DEF newUpgrade, Listed, Clusters
<1>3. /\ Written({"sc"}) /\ queue' \in BOOLEAN /\ (UNCHANGED faults \/ Fault)
      /\ live'.sc.gen = live.sc.gen /\ live'.sc.spec = live.sc.spec
      /\ ~queue' => /\ ~queue /\ ~own.deg /\ live.sc = listed.sc
                    /\ live'.sc.status = newStatus
  <2>1. CASE /\ live.sc = listed.sc
             /\ Write({"sc"}, [live EXCEPT !.sc.status = newStatus, !.sc.upgrade = newUpgrade])
             /\ queue' = (queue \/ own.deg)
             /\ UNCHANGED faults
    <3> DEFINE new == [live EXCEPT !.sc.status = newStatus, !.sc.upgrade = newUpgrade]
    <3>1. /\ new.sc \in Clusters /\ new.sc.gen = live.sc.gen /\ new.sc.spec = live.sc.spec
          /\ new.sc.status = newStatus /\ \A k \in Kinds \ {"sc"} : new[k] = live[k]
      BY <1>1, <1>2 DEF Types, View, Clusters, Kinds
    <3>2. View(new)
      BY <1>1, <3>1, NoneAreAbsent DEF Types, View
    <3>3. {"sc"} \in SUBSET Kinds
      BY DEF Kinds
    <3>4. live' = new
      BY <2>1 DEF Write
    <3> HIDE DEF new
    <3>5. Written({"sc"})
      BY <1>0, <2>1, <3>1, <3>2, <3>3, WriteWritten DEF new
    <3> QED BY <2>1, <3>1, <3>4, <3>5 DEF Types
  <2>2. CASE NoWrite /\ queue' = TRUE /\ (UNCHANGED faults \/ Fault)
    <3>1. Written({})
      BY <1>0, <2>2, NoWriteWritten
    <3> QED BY <2>2, <3>1, Written0 DEF Written
  <2> QED BY <2>1, <2>2 DEF updateStatus
<1>4. live'.sdc = live.sdc
  BY <1>3, WrittenSDC
<1>5. Types'
  <2>1. {"sc"} \in SUBSET Kinds
    BY DEF Kinds
  <2>2. /\ View(live)' /\ View(cache)' /\ stale' \subseteq Kinds
        /\ \A k \in Kinds \ stale' : cache'[k] = live'[k]
    BY <1>0, <1>3, <2>1, WrittenTypes
  <2>3. faults' \in 0 .. MaxFaults /\ own' \in [prog : BOOLEAN, deg : BOOLEAN]
    BY <1>0, <1>3, FaultType, SpecTypes
  <2> QED BY <1>0, <1>1, <1>3, <2>2, <2>3 DEF Types
<1>6. Generations'
  BY <1>0, <1>1, <1>3, <1>4 DEF Generations, Older
<1>7. ReportIsTrue'
  BY <1>0, <1>4 DEF ReportIsTrue, Runs, ReportedEmpty
<1>8. Hashes'
  BY <1>0, <1>4 DEF Hashes
<1>9. Unawaited'
  <2> SUFFICES ASSUME ~queue', "sc" \notin stale', "sdc" \notin stale', Claims'
               PROVE  Backed(live.sc, live.sdc)'
    BY <1>0 DEF Unawaited
  <2>1. Settled(newStatus)
    BY <1>0, <1>1, <1>3, <1>5 DEF Claims, User, managed, Types, View
  <2>2. "sdc" \notin stale /\ cache.sdc = live.sdc
    BY <1>3, WrittenFresh DEF Kinds
  <2>3. /\ listed.sdc = live.sdc /\ listed.sc.spec = live'.sc.spec
        /\ listed.sdc # NoSDC /\ listed.sdc.spec = listed.sc.spec
    BY <1>0, <1>1, <1>3, <2>1, <2>2, StatusTypes DEF Unawaited
  <2> QED BY <1>0, <1>4, <2>1, <2>3, StatusTypes DEF Backed
<1>10. Copies'
  BY <1>0, <1>4, CopiesKept
<1> QED BY <1>5, <1>6, <1>7, <1>8, <1>9, <1>10

-----------------------------------------------------------------------------
(* The informers, restarts and the datacenter.                             *)

\* Any item may come to the cache at any time.
LEMMA DeliverStep ==
  ASSUME IInv, NEW k \in stale, Deliver(k) PROVE IInv'
<1> USE DEF IInv
<1>0. /\ stale' = stale \ {k} /\ cache' = [cache EXCEPT ![k] = live[k]]
      /\ queue' = (queue \/ Enqueues(k))
      /\ UNCHANGED <<live, pc, listed, own, workload, rolled, rack, copy, misreported,
                     topic, edits, faults>>
  BY DEF Deliver, datacenter
<1>1. k \in Kinds /\ queue' \in BOOLEAN
  BY <1>0 DEF Types, Enqueues
<1>2. \A i \in Kinds : cache'[i] = IF i = k THEN live[i] ELSE cache[i]
  BY <1>0, <1>1 DEF Types, View, Kinds
<1>3. cache'.sc \in {cache.sc, live.sc} /\ cache'.sdc \in {cache.sdc, live.sdc}
  BY <1>2 DEF Kinds
<1>4. View(cache)'
  <2>1. /\ View(live) /\ View(cache)
    BY DEF Types
  <2>2. cache' \in [sc : Clusters \cup {NoSC}, sdc : Datacenters \cup {NoSDC},
                    tasks : SUBSET Tasks, obj : {"sc", "none", "sdc"}, upg : Upgrades]
    BY <1>0, <1>1, <2>1 DEF View, Kinds
  <2> QED BY <1>0, <1>3, <2>1, <2>2 DEF View
<1>5. Types'
  <2>1. View(live)'
    BY <1>0 DEF Types, View
  <2>2. \A i \in Kinds \ stale' : cache'[i] = live'[i]
    BY <1>0, <1>2 DEF Types
  <2> QED BY <1>0, <1>1, <1>4, <2>1, <2>2 DEF Types
<1>6. Generations'
  <2> SUFFICES ASSUME topic # "unmanaged" PROVE Generations'
    BY <1>0 DEF Generations
  <2>1. /\ live.sc \in Clusters /\ cache.sc \in Clusters
        /\ pc # "idle" => listed.sc \in Clusters
        /\ live.sdc # NoSDC => live.sdc \in Datacenters
    BY ViewSC, ViewSDC DEF Types, Listed
  <2>2. Older(live.sc, live.sc) /\ (pc # "idle" => Older(listed.sc, live.sc))
        /\ (live.sdc # NoSDC => Older(live.sdc, live.sc))
    BY <2>1 DEF Generations, Older, Clusters, Datacenters
  <2> QED BY <1>0, <1>3, <2>2 DEF Generations
<1>7. ReportIsTrue'
  BY <1>0 DEF ReportIsTrue, Runs, ReportedEmpty
<1>8. Hashes'
  BY <1>0, <1>3 DEF Hashes
<1>9. Unawaited'
  <2> SUFFICES ASSUME topic # "unmanaged", ~queue' PROVE Unawaited'
    BY <1>0 DEF Unawaited
  <2>1. ~queue /\ k = "upg"
    BY <1>0, <1>1 DEF Enqueues
  <2>2. cache'.sc = cache.sc /\ cache'.sdc = cache.sdc
    BY <1>2, <2>1 DEF Kinds
  <2>3. /\ "sc" \notin stale' => "sc" \notin stale
        /\ "sdc" \notin stale' => "sdc" \notin stale
    BY <1>0, <2>1
  <2> QED BY <1>0, <2>1, <2>2, <2>3 DEF Unawaited, Claims, User, managed
<1>10. Copies'
  BY <1>0, CopiesKept
<1> QED BY <1>5, <1>6, <1>7, <1>8, <1>9, <1>10

LEMMA RestartStep ==
  ASSUME IInv, Restart PROVE IInv'
<1> USE DEF IInv
<1>0. /\ Fault /\ cache' = live /\ stale' = {} /\ queue' = TRUE /\ pc' = "idle" /\ own' = Quiet
      /\ UNCHANGED <<live, workload, rolled, rack, misreported, topic, edits>>
      /\ copy' = [sdc |-> live.sdc, rack |-> rack]
  BY DEF Restart, EndSync
<1>1. Types'
  <2>1. View(live)' /\ View(cache)'
    BY <1>0 DEF Types, View
  <2>2. faults' \in 0 .. MaxFaults /\ own' \in [prog : BOOLEAN, deg : BOOLEAN]
    BY <1>0, FaultType, SpecTypes
  <2>3. copy' \in [sdc : Datacenters \cup {NoSDC}, rack : RackStates]
    BY <1>0 DEF Types, View
  <2> QED BY <1>0, <2>1, <2>2, <2>3 DEF Types
<1>2. Generations'
  <2> SUFFICES ASSUME topic # "unmanaged" PROVE Generations'
    BY <1>0 DEF Generations
  <2>1. /\ live.sc \in Clusters /\ cache.sc \in Clusters
        /\ live.sdc # NoSDC => live.sdc \in Datacenters
    BY ViewSC, ViewSDC DEF Types
  <2> QED BY <1>0, <2>1 DEF Generations, Older, Clusters, Datacenters
<1>3. Copies' /\ ReportIsTrue' /\ Hashes' /\ Unawaited'
  BY <1>0 DEF Copies, ReportIsTrue, Runs, ReportedEmpty, Hashes, Unawaited
<1> QED BY <1>1, <1>2, <1>3

LEMMA RackTypes ==
  ASSUME NEW r \in RackStates, NEW want \in Counts
  PROVE  /\ RackStep(r, want) \in RackStates
         /\ RackStatus(r, want) \in RackReports
         /\ r = Target(want) => RackStep(r, want) = r
         /\ (want = 0 /\ r = "none") => RackStep(r, want) = "none"
         /\ (/\ want = 0 /\ ~RackStatus(r, want).stale
             /\ RackStatus(r, want).nodes = 0 /\ ~RackStatus(r, want).leaving) => r = "none"
<1>1. RackStep(r, want) \in RackStates /\ (r = Target(want) => RackStep(r, want) = r)
      /\ ((want = 0 /\ r = "none") => RackStep(r, want) = "none")
  BY DEF RackStep, Target, RackStates, Counts, Absent
<1>2. RackReport(Target(want)) \in RackReports /\ RackReport(r) \in RackReports
  BY SpecTypes
<1>3. RackStatus(r, want) \in RackReports
  BY <1>2, SpecTypes DEF RackStatus, RackReports
<1>4. ASSUME want = 0, ~RackStatus(r, want).stale,
             RackStatus(r, want).nodes = 0, ~RackStatus(r, want).leaving
      PROVE  r = "none"
  <2>1. r # "absent"
    BY <1>2, <1>4 DEF RackStatus, RackReports, Absent
  <2>2. RackStatus(r, want) = RackReport(r)
    BY <1>4, <2>1 DEF RackStatus, Absent
  <2>3. r \in {"asked", "left", "scaled"} => RackReport(r).leaving = TRUE
    BY DEF RackReport
  <2>4. r = "member" => RackReport(r).nodes = 1
    BY DEF RackReport
  <2> QED BY <1>4, <2>1, <2>2, <2>3, <2>4 DEF RackStates
<1> QED BY <1>1, <1>3, <1>4

\* What the sync does about the rack, given one that may be a step behind.
RackAfter(r, want) == IF RackStep(r, want) = r \/ (Scales(r, want) /\ r # rack) THEN rack ELSE RackStep(r, want)
CopyAfter(r, want) == IF Scales(r, want) THEN r ELSE RackStep(r, want)

LEMMA RackSyncs ==
  ASSUME rack \in RackStates, copy.rack \in RackStates, Copies, NEW want \in Counts,
         NEW r \in {copy.rack, rack}
  PROVE  /\ RackAfter(r, want) \in RackStates /\ CopyAfter(r, want) \in RackStates
         /\ \/ CopyAfter(r, want) = RackAfter(r, want)
            \/ <<CopyAfter(r, want), RackAfter(r, want)>>
                 \in {<<"none", "member">>, <<"asked", "left">>, <<"left", "scaled">>}
         /\ rack = Target(want) => RackAfter(r, want) = rack
         /\ r = Target(want) => r = rack \/ (r = "none" /\ rack = "member")
<1>1. \/ r = rack
      \/ r = "none" /\ rack = "member"
      \/ r = "asked" /\ rack = "left"
      \/ r = "left" /\ rack = "scaled"
  BY DEF Copies
<1>2. CASE want = Absent
  <2>1. RackStep(r, want) = "absent"
    BY <1>2 DEF RackStep
  <2>2. Target(want) = "absent"
    BY <1>2 DEF Target, Absent
  <2>3. ~Scales(r, want)
    BY <2>1 DEF Scales
  <2> QED BY <1>1, <2>1, <2>2, <2>3 DEF RackAfter, CopyAfter, RackStates
<1>3. CASE want = 0
  <2>0. want # Absent
    BY <1>3 DEF Absent
  <2>1. /\ Target(want) = "none"
        /\ r \in {"absent", "none"} => RackStep(r, want) = "none"
        /\ r \in {"member", "asked"} => RackStep(r, want) = "asked"
        /\ r = "left" => RackStep(r, want) = "scaled"
        /\ r = "scaled" => RackStep(r, want) = "none"
        /\ Scales(r, want) <=> r = "left"
    BY <1>3, <2>0 DEF RackStep, Target, Scales, RackStates
  <2> QED BY <1>1, <2>1 DEF RackAfter, CopyAfter, RackStates
<1>4. CASE want = 1
  <2>0. want # Absent
    BY <1>4 DEF Absent
  <2>1. /\ Target(want) = "member"
        /\ r \in {"absent", "none", "member"} => RackStep(r, want) = "member"
        /\ r = "asked" => RackStep(r, want) = "asked"
        /\ r = "left" => RackStep(r, want) = "scaled"
        /\ r = "scaled" => RackStep(r, want) = "none"
        /\ Scales(r, want) <=> r \in {"none", "left"}
    BY <1>4, <2>0 DEF RackStep, Target, Scales, RackStates
  <2> QED BY <1>1, <2>1 DEF RackAfter, CopyAfter, RackStates
<1> QED BY <1>2, <1>3, <1>4 DEF Counts

\* A report is about the generation that the sync read, is lost if there is another,
\* and stays true when the sync then acts, and when later ones do.
LEMMA SyncWithStep ==
  ASSUME IInv, NEW sdc \in {copy.sdc, live.sdc}, NEW r \in {copy.rack, rack}, SyncWith(sdc, r)
  PROVE  IInv' /\ live'.sdc.spec = live.sdc.spec
<1> USE DEF IInv
<1> DEFINE want     == sdc.spec.rack
           obj      == IF live.obj = "sc" THEN "sc" ELSE "sdc"
           pods     == IF live.obj = "sc" THEN workload ELSE Template(sdc)
           step     == RackStep(r, want)
           refused  == Scales(r, want) /\ r # rack
           done     == pods = Template(sdc) /\ rolled = pods /\ r = Target(want)
           reported == [gen  |-> sdc.gen,
                        prog |-> IF done THEN "False" ELSE "True",
                        deg  |-> IF obj = "sdc" /\ ~refused THEN "False" ELSE "True",
                        rack |-> RackStatus(r, want)]
           written  == [sdc EXCEPT !.status = reported]
<1>0. PICK reports \in BOOLEAN :
        /\ sdc # NoSDC /\ workload' = pods /\ rack' = RackAfter(r, want)
        /\ UNCHANGED <<cache, queue, pc, listed, own, rolled, topic, edits>>
        /\ reports => sdc = live.sdc
        /\ Write({"obj", "sdc"}, [live EXCEPT !.obj = obj, !.sdc = IF reports THEN written ELSE live.sdc])
        /\ copy' = [sdc |-> IF reports THEN written ELSE sdc, rack |-> CopyAfter(r, want)]
        /\ misreported' = IF reports THEN r = "none" /\ rack = "member" ELSE misreported
        /\ UNCHANGED faults \/ Fault
  BY DEF SyncWith, RackAfter, CopyAfter
<1>1. /\ sdc \in Datacenters /\ want \in Counts /\ rack \in RackStates /\ r \in RackStates
      /\ sdc.gen \in Nat \ {0}
      /\ sdc.spec \in Specs /\ sdc.ann \in Annotations
  BY <1>0 DEF Types, View, Datacenters, Specs
<1>2. /\ Template(sdc) \in Templates
      /\ Template(sdc).ver = sdc.spec.ver /\ Template(sdc).cpu = sdc.spec.cpu
  BY <1>1, TemplateTypes
<1>3. reported \in Statuses
  BY <1>1, RackTypes DEF Statuses, ConditionStatus
<1>a. /\ rack' \in RackStates /\ copy'.rack \in RackStates
      /\ \/ copy'.rack = rack'
         \/ <<copy'.rack, rack'>> \in {<<"none", "member">>, <<"asked", "left">>, <<"left", "scaled">>}
      /\ rack = Target(want) => rack' = rack
      /\ r = Target(want) => r = rack \/ (r = "none" /\ rack = "member")
  <2>1. copy.rack \in RackStates
    BY DEF Types
  <2> HIDE DEF IInv, want, written
  <2> QED BY <1>0, <1>1, <2>1, RackSyncs DEF IInv
<1> HIDE DEF reported
<1>b. /\ written \in Datacenters /\ written.gen = sdc.gen /\ written.spec = sdc.spec
      /\ written.hash = sdc.hash /\ written.status = reported
  BY <1>1, <1>3 DEF Datacenters
<1>c. reported.gen = sdc.gen /\ reported.rack = RackStatus(r, want)
      /\ (reported.prog = "False" => done)
  BY DEF reported
<1> HIDE DEF written, done, refused, step
<1> DEFINE after == IF reports THEN written ELSE live.sdc
           new   == [live EXCEPT !.obj = obj, !.sdc = after]
<1>4. Written({"obj", "sdc"}) /\ live'.sdc = after /\ live'.sc = live.sc
  <2>0. obj \in {"sc", "none", "sdc"}
    OBVIOUS
  <2>1. after \in Datacenters \/ after = live.sdc
    BY <1>b
  <2>2. Write({"obj", "sdc"}, new)
    BY <1>0
  <2> HIDE DEF obj, after
  <2>3. /\ new.sdc = after /\ new.sc = live.sc /\ new.tasks = live.tasks /\ new.upg = live.upg
        /\ View(new)
    BY <2>0, <2>1, NoneAreAbsent DEF Types, View
  <2>4. {"obj", "sdc"} \in SUBSET Kinds /\ \A k \in Kinds \ {"obj", "sdc"} : new[k] = live[k]
    BY <2>3 DEF Kinds
  <2>5. live' = new
    BY <2>2 DEF Write
  <2> HIDE DEF new
  <2>6. Written({"obj", "sdc"})
    BY <1>0, <2>2, <2>3, <2>4, WriteWritten
  <2> QED BY <2>3, <2>5, <2>6
<1> HIDE DEF new
<1>5. \/ /\ reports /\ sdc = live.sdc /\ live'.sdc = written /\ copy'.sdc = written
         /\ misreported' = (r = "none" /\ rack = "member")
      \/ ~reports /\ live'.sdc = live.sdc /\ copy'.sdc = sdc /\ misreported' = misreported
  BY <1>0, <1>4
<1>d. (reports /\ ~misreported') => ~(r = "none" /\ rack = "member")
  BY <1>0, Zenon
<1>6. /\ live'.sdc.gen = live.sdc.gen /\ live'.sdc.spec = live.sdc.spec
      /\ live'.sdc # NoSDC =>
           /\ live.sdc # NoSDC /\ live'.sdc.gen = live.sdc.gen /\ live'.sdc.spec = live.sdc.spec
           /\ live'.sdc.hash = live.sdc.hash
  BY <1>0, <1>5, <1>b
<1>7. Types'
  <2>1. {"obj", "sdc"} \in SUBSET Kinds
    BY DEF Kinds
  <2>2. /\ View(live)' /\ View(cache)' /\ stale' \subseteq Kinds
        /\ \A k \in Kinds \ stale' : cache'[k] = live'[k]
    BY <1>0, <1>4, <2>1, WrittenTypes
  <2>3. faults' \in 0 .. MaxFaults
    BY <1>0, FaultType
  <2>4. workload' \in Templates
    BY <1>0, <1>2 DEF Types
  <2>5. copy' \in [sdc : Datacenters \cup {NoSDC}, rack : RackStates]
    BY <1>0, <1>1, <1>a, <1>b
  <2>6. misreported' \in BOOLEAN
    BY <1>5 DEF Types
  <2> QED BY <1>0, <1>a, <2>2, <2>3, <2>4, <2>5, <2>6 DEF Types
<1>8. Generations'
  BY <1>0, <1>4, <1>6 DEF Generations, Older
<1>9. Copies'
  <2>1. (/\ live'.sdc # NoSDC /\ copy'.sdc # NoSDC
         /\ live'.sdc.status.gen = live'.sdc.gen) => copy'.sdc.spec = live'.sdc.spec
    BY <1>5 DEF Copies
  <2> QED BY <1>a, <2>1 DEF Copies
<1>10. ReportIsTrue'
  <2>1. CASE reports
    <3>1. live.sdc = sdc /\ live'.sdc = written
      BY <1>5, <2>1
    <3>2. ASSUME ~misreported', reported.prog = "False" PROVE Runs(live.sdc.spec)'
      <4>1. done
        BY <1>c, <3>2
      <4>2. r = rack
        BY <1>a, <1>d, <2>1, <3>2, <4>1 DEF done
      <4> QED BY <1>0, <1>1, <1>2, <1>a, <1>b, <3>1, <4>1, <4>2 DEF Runs, done
    <3>3. ASSUME ~misreported', ~reported.rack.stale, ReportedEmpty(live'.sdc), want = 0
          PROVE  rack' = "none"
      <4>1. r = "none"
        BY <1>1, <1>b, <1>c, <3>1, <3>3, RackTypes DEF ReportedEmpty
      <4>2. rack = "none"
        BY <1>d, <2>1, <3>3, <4>1 DEF Copies
      <4>3. Target(want) = "none"
        BY <3>3 DEF Target, Absent
      <4> QED BY <1>a, <4>2, <4>3
    <3>4. live'.sdc.spec.rack = want
      BY <1>b, <3>1
    <3> HIDE DEF want
    <3> QED BY <1>1, <1>b, <1>c, <3>1, <3>2, <3>3, <3>4 DEF ReportIsTrue, ReportedEmpty
  <2>2. CASE ~reports
    <3> SUFFICES ASSUME live.sdc # NoSDC PROVE ReportIsTrue'
      BY <1>5, <2>2 DEF ReportIsTrue
    <3>1. live'.sdc = live.sdc /\ misreported' = misreported
      BY <1>5, <2>2
    <3>2. live.sdc.status.gen = live.sdc.gen => sdc.spec = live.sdc.spec
      BY <1>0 DEF Copies
    <3>3. (sdc.spec = live.sdc.spec /\ Runs(live.sdc.spec)) => Runs(live.sdc.spec)'
      BY <1>0, <1>2, <1>a, <3>1 DEF Runs
    <3>4. (rack = "none" /\ want = 0) => rack' = "none"
      <4>1. want = 0 => Target(want) = "none"
        BY DEF Target, Absent
      <4> QED BY <1>a, <4>1
    <3> QED BY <3>1, <3>2, <3>3, <3>4 DEF ReportIsTrue, ReportedEmpty
  <2> QED BY <2>1, <2>2
<1>11. Hashes'
  BY <1>0, <1>6 DEF Hashes, Hashed
<1>12. Unawaited'
  <2>1. ASSUME "sdc" \notin stale' PROVE "sdc" \notin stale /\ live'.sdc = live.sdc
    BY <1>4, <2>1, WrittenFresh DEF Kinds
  <2>2. ASSUME "sc" \notin stale' PROVE "sc" \notin stale
    BY <1>4, <2>2, WrittenFresh DEF Kinds
  <2>3. topic # "unmanaged" => (Claims' = Claims)
    BY <1>0, <1>4, ViewSC DEF Claims, User, managed, Types
  <2> QED BY <1>0, <1>4, <2>1, <2>2, <2>3 DEF Unawaited
<1> QED BY <1>6, <1>7, <1>8, <1>9, <1>10, <1>11, <1>12

LEMMA DatacenterSyncStep ==
  ASSUME IInv, DatacenterSync PROVE IInv'
  BY SyncWithStep DEF DatacenterSync

LEMMA LeaveStep ==
  ASSUME IInv, Leave PROVE IInv'
<1> USE DEF IInv
<1>0. /\ rack = "asked" /\ rack' = "left"
      /\ UNCHANGED <<live, cache, stale, queue, pc, listed, own, workload, rolled, copy,
                     misreported, topic, edits, faults>>
  BY DEF Leave
<1>1. Types'
  BY <1>0 DEF Types, View, Listed, RackStates
<1>2. ReportIsTrue'
  <2> SUFFICES ASSUME live.sdc # NoSDC PROVE ReportIsTrue'
    BY <1>0 DEF ReportIsTrue
  <2>1. live.sdc.spec.rack \in Counts
    BY ViewSDC DEF Types, Datacenters, Specs
  <2>2. ~Runs(live.sdc.spec)
    BY <1>0, <2>1 DEF Runs, Target, Counts, Absent
  <2> QED BY <1>0, <2>2 DEF ReportIsTrue, ReportedEmpty
<1>3. Generations' /\ Hashes' /\ Unawaited'
  BY <1>0 DEF Generations, Hashes, Unawaited, Claims, User, managed
<1>4. Copies'
  BY <1>0 DEF Copies
<1> QED BY <1>1, <1>2, <1>3, <1>4

LEMMA RollOutStep ==
  ASSUME IInv, RollOut PROVE IInv'
<1> USE DEF IInv
<1>0. /\ rolled' = workload
      /\ UNCHANGED <<live, cache, stale, queue, pc, listed, own, workload, rack, copy,
                     misreported, topic, edits, faults>>
  BY DEF RollOut
<1>1. Types'
  BY <1>0 DEF Types, View, Listed
<1>2. Copies' /\ ReportIsTrue'
  BY <1>0 DEF Copies, ReportIsTrue, Runs, ReportedEmpty
<1>3. Generations' /\ Hashes' /\ Unawaited'
  BY <1>0 DEF Generations, Hashes, Unawaited, Claims, User, managed
<1> QED BY <1>1, <1>2, <1>3

-----------------------------------------------------------------------------
(* Edits.                                                                  *)

\* An edit replaces the spec, the annotation or the tasks of the user's object, and
\* bumps its generation at least when it changes the spec.
Edited(new, old) ==
  /\ new.status = old.status
  /\ new.gen \in {old.gen, old.gen + 1}
  /\ new.spec # old.spec => new.gen = old.gen + 1

LEMMA UpdateFacts ==
  ASSUME IInv, UNCHANGED topic, NEW spec \in Specs, NEW ann \in Annotations,
         NEW bump \in BOOLEAN, Update(spec, ann, bump), spec # User.spec => bump
  PROVE  /\ topic # "unmanaged" => /\ Written({"sc"}) /\ Edited(live'.sc, live.sc)
                                   /\ live'.sc.gen <= live.sc.gen + 1
         /\ topic = "unmanaged" => Written({"sdc"}) /\ Edited(live'.sdc, live.sdc)
<1> USE DEF IInv
<1> DEFINE new == [User EXCEPT !.gen = @ + (IF bump THEN 1 ELSE 0), !.spec = spec, !.ann = ann]
           d == IF bump THEN 1 ELSE 0
<1>0. d \in {0, 1} /\ (bump => d = 1)
  OBVIOUS
<1>1. CASE topic # "unmanaged"
  <2>1. live.sc \in Clusters /\ User = live.sc /\ managed
    BY <1>1, ViewSC DEF Types, User, managed
  <2>2. new \in Clusters /\ Edited(new, live.sc)
    <3>1. new = [live.sc EXCEPT !.gen = live.sc.gen + d, !.spec = spec, !.ann = ann]
      BY <2>1
    <3> HIDE DEF new, d
    <3>2. live.sc.gen + d \in Nat \ {0}
      BY <1>0, <2>1 DEF Clusters
    <3>3. new \in Clusters
      BY <2>1, <3>1, <3>2 DEF Clusters
    <3>4. /\ new.gen = live.sc.gen + d /\ new.spec = spec /\ new.status = live.sc.status
      BY <2>1, <3>1 DEF Clusters
    <3> QED BY <1>0, <2>1, <3>3, <3>4 DEF Edited, Clusters
  <2> HIDE DEF new
  <2>3. Write({"sc"}, [live EXCEPT !.sc = new])
    BY <2>1 DEF Update, new
  <2>4. View([live EXCEPT !.sc = new])
    BY <1>1, <2>2, NoneAreAbsent DEF Types, View
  <2>5. /\ \A k \in Kinds \ {"sc"} : [live EXCEPT !.sc = new][k] = live[k]
        /\ [live EXCEPT !.sc = new].sc = new
    BY DEF Types, View, Kinds
  <2>6. {"sc"} \in SUBSET Kinds /\ live'.sc = new
    BY <2>3, <2>5 DEF Write, Kinds
  <2>7. Written({"sc"})
    BY <2>3, <2>4, <2>5, <2>6, WriteWritten
  <2> QED BY <1>1, <2>1, <2>2, <2>6, <2>7 DEF Edited, Clusters
<1>2. CASE topic = "unmanaged"
  <2>1. live.sdc \in Datacenters /\ User = live.sdc /\ ~managed
    BY <1>2, ViewSDC DEF Types, View, User, managed
  <2>2. new \in Datacenters /\ Edited(new, live.sdc)
    <3>1. new = [live.sdc EXCEPT !.gen = live.sdc.gen + d, !.spec = spec, !.ann = ann]
      BY <2>1
    <3> HIDE DEF new, d
    <3>2. live.sdc.gen + d \in Nat \ {0}
      BY <1>0, <2>1 DEF Datacenters
    <3>3. new \in Datacenters
      BY <2>1, <3>1, <3>2 DEF Datacenters
    <3>4. /\ new.gen = live.sdc.gen + d /\ new.spec = spec /\ new.status = live.sdc.status
      BY <2>1, <3>1 DEF Datacenters
    <3> QED BY <1>0, <2>1, <3>3, <3>4 DEF Edited, Datacenters
  <2> HIDE DEF new
  <2>3. Write({"sdc"}, [live EXCEPT !.sdc = new])
    BY <2>1 DEF Update, new
  <2>4. View([live EXCEPT !.sdc = new])
    BY <2>2, NoneAreAbsent DEF Types, View
  <2>5. /\ \A k \in Kinds \ {"sdc"} : [live EXCEPT !.sdc = new][k] = live[k]
        /\ [live EXCEPT !.sdc = new].sdc = new
    BY DEF Types, View, Kinds
  <2>6. {"sdc"} \in SUBSET Kinds /\ live'.sdc = new
    BY <2>3, <2>5 DEF Write, Kinds
  <2>7. Written({"sdc"})
    BY <2>3, <2>4, <2>5, <2>6, WriteWritten
  <2> QED BY <1>2, <2>2, <2>6, <2>7
<1> QED BY <1>1, <1>2

LEMMA EditFacts ==
  ASSUME IInv, Edit
  PROVE  /\ edits' = edits + 1
         /\ UNCHANGED <<cache, queue, pc, listed, own, workload, rolled, rack, copy,
                        misreported, topic, faults>>
         /\ topic # "unmanaged" => Written({"sc"}) /\ Edited(live'.sc, live.sc)
         /\ topic = "unmanaged" => Written({"sdc"}) /\ Edited(live'.sdc, live.sdc)
<1> USE DEF IInv
<1>0. UNCHANGED <<cache, queue, pc, listed, own, workload, rolled, rack, copy,
                        misreported, topic, faults>>
  BY DEF Edit, datacenter
<1>a. edits \in Nat
  BY DEF Types
<1>1. CASE EditTakeover
  <2>1. topic = "takeover" /\ edits' = edits + 1
    BY <1>1 DEF EditTakeover, MayEdit
  <2>2. live.sc \in Clusters /\ User = live.sc /\ live.sc.spec \in Specs /\ live.sc.ann \in Annotations
    BY <2>1, ViewSC DEF Types, User, managed, Clusters
  <2>3. CASE Update([live.sc.spec EXCEPT !.ver = edits + 2], live.sc.ann, TRUE)
    <3>1. [live.sc.spec EXCEPT !.ver = edits + 2] \in Specs
      BY <1>a, <2>2 DEF Specs
    <3> QED BY <1>0, <2>1, <2>2, <2>3, <3>1, UpdateFacts
  <2>4. CASE Update(live.sc.spec, "none", TRUE)
    BY <1>0, <2>1, <2>2, <2>4, UpdateFacts DEF Annotations
  <2>5. CASE Update(live.sc.spec, "disable", FALSE)
    BY <1>0, <2>1, <2>2, <2>5, UpdateFacts DEF Annotations
  <2>6. ASSUME NEW tasks \in SUBSET Tasks,
               Write({"sc"}, [live EXCEPT !.sc.gen = @ + 1, !.sc.tasks = tasks])
        PROVE  Written({"sc"}) /\ Edited(live'.sc, live.sc)
    <3> DEFINE new == [live EXCEPT !.sc.gen = @ + 1, !.sc.tasks = tasks]
               sc == [live.sc EXCEPT !.gen = live.sc.gen + 1, !.tasks = tasks]
    <3>a. sc \in Clusters /\ Edited(sc, live.sc)
      <4>1. live.sc.gen + 1 \in Nat \ {0}
        BY <2>2 DEF Clusters
      <4>2. sc \in Clusters
        BY <2>2, <4>1 DEF Clusters
      <4>3. sc.gen = live.sc.gen + 1 /\ sc.spec = live.sc.spec /\ sc.status = live.sc.status
        BY <2>2 DEF Clusters
      <4> HIDE DEF sc
      <4> QED BY <4>2, <4>3 DEF Edited
    <3>b. new = [live EXCEPT !.sc = sc]
      BY DEF Types, View
    <3> HIDE DEF new, sc
    <3>1. /\ new.sc \in Clusters /\ Edited(new.sc, live.sc)
          /\ \A k \in Kinds \ {"sc"} : new[k] = live[k]
      BY <3>a, <3>b DEF Types, View, Kinds
    <3>2. View(new)
      BY <2>1, <3>1, <3>b, NoneAreAbsent DEF Types, View
    <3>3. {"sc"} \in SUBSET Kinds /\ live' = new
      BY <2>6 DEF Write, Kinds, new
    <3>4. Written({"sc"})
      BY <1>0, <2>6, <3>1, <3>2, <3>3, WriteWritten DEF new
    <3> QED BY <3>1, <3>3, <3>4
  <2>7. (\E tasks \in SUBSET Tasks \ {live.sc.tasks} :
            Write({"sc"}, [live EXCEPT !.sc.gen = @ + 1, !.sc.tasks = tasks]))
          => Written({"sc"}) /\ Edited(live'.sc, live.sc)
    BY <2>6
  <2>8. Written({"sc"}) /\ Edited(live'.sc, live.sc)
    <3> HIDE DEF IInv
    <3> QED BY <1>1, <2>1, <2>3, <2>4, <2>5, <2>7 DEF EditTakeover
  <2> QED BY <1>0, <2>1, <2>8
<1>2. CASE EditLimits
  <2>1. topic = "limits" /\ edits' = edits + 1
    BY <1>2 DEF EditLimits, MayEdit
  <2>2. live.sc \in Clusters /\ User = live.sc /\ live.sc.spec \in Specs /\ live.sc.ann \in Annotations
    BY <2>1, ViewSC DEF Types, User, managed, Clusters
  <2>3. ASSUME NEW cpu \in {1, 2}, NEW ann \in {"none", "force"},
               Update([live.sc.spec EXCEPT !.cpu = cpu], ann, cpu # live.sc.spec.cpu)
        PROVE  Written({"sc"}) /\ Edited(live'.sc, live.sc)
    <3>1. /\ [live.sc.spec EXCEPT !.cpu = cpu] \in Specs
          /\ [live.sc.spec EXCEPT !.cpu = cpu] # live.sc.spec => cpu # live.sc.spec.cpu
      BY <2>2 DEF Specs
    <3>2. (cpu # live.sc.spec.cpu) \in BOOLEAN /\ ann \in Annotations
      BY DEF Annotations
    <3> QED BY <1>0, <2>1, <2>2, <2>3, <3>1, <3>2, UpdateFacts
  <2>4. CASE Update([live.sc.spec EXCEPT !.fixed = 3 - @], live.sc.ann, TRUE)
    <3>1. [live.sc.spec EXCEPT !.fixed = 3 - @] \in Specs
      BY <2>2 DEF Specs
    <3> QED BY <1>0, <2>1, <2>2, <2>4, <3>1, UpdateFacts
  <2>5. ASSUME NEW form \in Forms,
               Update([live.sc.spec EXCEPT !.form = form], live.sc.ann, TRUE)
        PROVE  Written({"sc"}) /\ Edited(live'.sc, live.sc)
    <3>1. [live.sc.spec EXCEPT !.form = form] \in Specs
      BY <2>2 DEF Specs
    <3> QED BY <1>0, <2>1, <2>2, <2>5, <3>1, UpdateFacts
  <2>6. Written({"sc"}) /\ Edited(live'.sc, live.sc)
    <3> HIDE DEF IInv
    <3>1. CASE Update([live.sc.spec EXCEPT !.fixed = 3 - @], live.sc.ann, TRUE)
      BY <2>1, <2>4, <3>1
    <3> QED BY <1>2, <2>3, <2>5, <3>1 DEF EditLimits
  <2> QED BY <1>0, <2>1, <2>6
<1>3. CASE EditRack
  <2>1. topic \in {"racks", "unmanaged"} /\ edits' = edits + 1
    BY <1>3 DEF EditRack, MayEdit
  <2>2. User.spec \in Specs /\ User.ann \in Annotations
    BY NoneAreAbsent, <2>1 DEF Types, View, User, managed, Clusters, Datacenters
  <2>3. PICK want \in Counts : Update([User.spec EXCEPT !.rack = want], User.ann, TRUE)
    BY <1>3 DEF EditRack, Counts
  <2>4. [User.spec EXCEPT !.rack = want] \in Specs
    BY <2>2 DEF Specs
  <2> QED BY <1>0, <2>1, <2>2, <2>3, <2>4, UpdateFacts
<1> QED BY <1>1, <1>2, <1>3 DEF Edit

LEMMA EditStep ==
  ASSUME IInv, Edit PROVE IInv'
<1>0. /\ edits' = edits + 1
      /\ UNCHANGED <<cache, queue, pc, listed, own, workload, rolled, rack, copy,
                        misreported, topic, faults>>
      /\ topic # "unmanaged" => Written({"sc"}) /\ Edited(live'.sc, live.sc)
      /\ topic = "unmanaged" => Written({"sdc"}) /\ Edited(live'.sdc, live.sdc)
  BY EditFacts
<1> USE DEF IInv
<1>1. Types'
  <2>1. PICK kinds \in SUBSET Kinds : Written(kinds)
    BY <1>0 DEF Kinds
  <2>2. /\ View(live)' /\ View(cache)' /\ stale' \subseteq Kinds
        /\ \A k \in Kinds \ stale' : cache'[k] = live'[k]
    BY <1>0, <2>1, WrittenTypes
  <2> QED BY <1>0, <2>2 DEF Types, Listed
<1>2. CASE topic # "unmanaged"
  <2>1. live.sc \in Clusters /\ cache.sc \in Clusters /\ live'.sc \in Clusters
    BY <1>0, <1>1, <1>2, ViewSC DEF Types, View
  <2>2. live'.sdc = live.sdc
    BY <1>0, <1>2, WrittenSDC
  <2>3. Older(live.sc, live'.sc)
    BY <1>0, <1>2, <2>1 DEF Edited, Older, Clusters
  <2>4. Generations'
    BY <1>0, <1>2, <2>1, <2>2, <2>3 DEF Generations, Older, Edited, Clusters, Types
  <2>5. ReportIsTrue'
    BY <1>0, <2>2 DEF ReportIsTrue, Runs, ReportedEmpty
  <2>6. Hashes'
    BY <1>0, <2>2 DEF Hashes
  <2>7. Unawaited'
    <3>1. ASSUME "sc" \notin stale' PROVE "sc" \notin stale /\ live'.sc = live.sc
      BY <1>0, <1>2, <3>1, WrittenFresh DEF Kinds
    <3>2. ASSUME "sdc" \notin stale' PROVE "sdc" \notin stale
      BY <1>0, <1>2, <3>2, WrittenFresh DEF Kinds
    <3> QED BY <1>0, <1>2, <2>2, <3>1, <3>2 DEF Unawaited, Claims, User, managed
  <2>8. Copies'
    BY <1>0, <2>2, CopiesKept
  <2> QED BY <1>1, <2>4, <2>5, <2>6, <2>7, <2>8
<1>3. CASE topic = "unmanaged"
  <2>1. live.sdc \in Datacenters /\ live'.sdc \in Datacenters
    BY <1>0, <1>1, <1>3, ViewSDC DEF Types, View
  <2>2. Generations'
    BY <1>0, <1>3, <2>1 DEF Generations, Edited, Datacenters, Types
  <2>3. Copies' /\ ReportIsTrue'
    <3>1. live'.sdc.status = live.sdc.status /\ live.sdc.status.gen \in Nat
      BY <1>0, <1>3, <2>1 DEF Edited, Datacenters, Statuses
    <3>2. /\ live.sdc.status.gen <= live'.sdc.gen
          /\ live.sdc.status.gen = live'.sdc.gen =>
               live'.sdc.gen = live.sdc.gen /\ live'.sdc.spec = live.sdc.spec
      BY <1>0, <1>3, <2>1, <3>1, NoneAreAbsent DEF Edited, ReportIsTrue, Datacenters
    <3>3. Copies'
      BY <1>0, <2>1, <3>1, <3>2, NoneAreAbsent, CopiesOfSpec
    <3> QED BY <3>3, <1>0, <2>1, <3>1, <3>2, NoneAreAbsent DEF ReportIsTrue, Runs, ReportedEmpty
  <2>4. Hashes' /\ Unawaited'
    BY <1>0, <1>3 DEF Hashes, Unawaited
  <2> QED BY <1>1, <2>2, <2>3, <2>4
<1> QED BY <1>2, <1>3

LEMMA NextIInv == IInv /\ [Next]_vars => IInv'
<1> SUFFICES ASSUME IInv, [Next]_vars PROVE IInv'
  OBVIOUS
<1>1. CASE UNCHANGED vars
  BY <1>1 DEF vars, IInv, Types, View, Listed, Generations, Copies, ReportIsTrue, Runs, ReportedEmpty,
     Hashes, Unawaited, Claims, User, managed
<1> QED
  BY <1>1, SyncStep, DatacenterStep, TasksStep, StatusStep, DeliverStep, RestartStep,
     DatacenterSyncStep, LeaveStep, RollOutStep, EditStep DEF Next, Controller

\* The inductive invariant: the types, the order in which generations reach the
\* datacenter, the cache and a sync, and what a report and a settled status rest on.
THEOREM Invariance == Spec => []IInv
<1>1. Init => IInv
  BY InitIInv
<1>2. IInv /\ [Next]_vars => IInv'
  BY NextIInv
<1> QED BY <1>1, <1>2, PTL DEF Spec

-----------------------------------------------------------------------------

\* Generations, owners and conditions keep their types, and the datacenter never has
\* more generations than the ScyllaCluster it is translated from, although a sync
\* works from an old copy of either and not every edit makes a generation.
THEOREM TypeCorrect == Spec => []TypeOK
<1>1. IInv => TypeOK
  <2> SUFFICES ASSUME IInv PROVE TypeOK
    OBVIOUS
  <2> USE DEF IInv
  <2>1. User \in Clusters \cup Datacenters
    BY NoneAreAbsent DEF Types, View, User, managed
  <2>2. /\ User.status.prog \in ConditionStatus /\ User.status.deg \in ConditionStatus
        /\ User.gen \in Nat \ {0}
    BY <2>1 DEF Clusters, Datacenters, Statuses
  <2>3. User.gen <= 1 + edits
    BY DEF Types, View, Generations, User, managed
  <2>4. managed => live.sdc.gen <= live.sc.gen
    <3> SUFFICES ASSUME managed PROVE live.sdc.gen <= live.sc.gen
      OBVIOUS
    <3>1. topic # "unmanaged" /\ live.sc \in Clusters /\ cache.sc \in Clusters
      BY ViewSC DEF Types, View, managed
    <3>2. CASE live.sdc = NoSDC
      BY <3>1, <3>2 DEF NoSDC, Clusters
    <3>3. CASE live.sdc # NoSDC
      <4>1. live.sdc \in Datacenters
        BY <3>3, ViewSDC DEF Types
      <4> QED BY <3>1, <3>3, <4>1 DEF Generations, Older, Clusters, Datacenters
    <3> QED BY <3>2, <3>3
  <2>5. live.obj \in {"sc", "none", "sdc"} /\ edits \in Nat
    BY DEF Types, View
  <2> QED BY <2>2, <2>3, <2>4, <2>5 DEF Types, TypeOK
<1> QED BY <1>1, Invariance, PTL

\* When the controllers have nothing left to do, a status that says that the current
\* generation is settled is right about what the Pods run and about the rack: a
\* condition that calculateStatus moved from another generation, or aggregated over
\* a stale datacenter, never stays.
THEOREM NoLastingFalseClaim == Spec => []LastingClaimIsTrue
<1>1. IInv => LastingClaimIsTrue
  <2> SUFFICES ASSUME IInv, Claims, pc = "idle", managed => ~queue, stale = {}, ~misreported
               PROVE  Serves
    BY DEF LastingClaimIsTrue
  <2> USE DEF IInv
  <2>1. CASE managed
    <3>1. topic # "unmanaged" /\ User = live.sc
      BY <2>1 DEF Types, View, User, managed
    <3>2. Backed(live.sc, live.sdc)
      BY <2>1, <3>1 DEF Unawaited
    <3> QED BY <3>1, <3>2 DEF Backed, ReportIsTrue, Runs, Serves
  <2>2. CASE ~managed
    <3>1. User = live.sdc /\ live.sdc # NoSDC
      BY <2>2 DEF Types, View, User, managed
    <3> QED BY <3>1 DEF Claims, Settled, ReportIsTrue, Runs, Serves
  <2> QED BY <2>1, <2>2
<1> QED BY <1>1, Invariance, PTL

\* Who removes the rack from the datacenter has the webhook's permission.
LEMMA RemovalIsAdmitted ==
  ASSUME IInv, [Next]_vars, live.sdc # NoSDC, RemovesRack(live'.sdc, live.sdc)
  PROVE  ValidateScyllaDBDatacenterUpdate(live'.sdc, live.sdc)
<1> USE DEF IInv
<1>0. live.sdc \in Datacenters /\ live'.sdc # live.sdc /\ View(live)
  BY ViewSDC DEF Types, RemovesRack
<1>1. CASE syncScyllaDBDatacenter
  <2> DEFINE new == merged(live.sdc, requiredDatacenter(listed.sc, listed.sdc))
  <2>1. live' # live
    BY <1>0
  <2>2. live' = [live EXCEPT !.sdc = new] /\ ValidateScyllaDBDatacenterUpdate(new, live.sdc)
    BY <1>1, <2>1 DEF syncScyllaDBDatacenter, Write, NoWrite
  <2>3. live'.sdc = new
    <3> HIDE DEF new
    <3> QED BY <1>0, <2>2 DEF View
  <2> QED BY <2>2, <2>3
<1>2. CASE Edit
  <2>1. topic = "unmanaged"
    BY <1>0, <1>2, EditFacts, WrittenSDC
  <2>2. ~managed /\ User = live.sdc
    BY <2>1 DEF Types, View, managed, User
  <2>3. PICK spec, ann, bump : Update(spec, ann, bump)
    BY <1>2, <2>1 DEF Edit, EditRack, EditLimits, EditTakeover, MayEdit
  <2> DEFINE new == [User EXCEPT !.gen = @ + (IF bump THEN 1 ELSE 0), !.spec = spec, !.ann = ann]
  <2>4. ValidateScyllaDBDatacenterUpdate(new, live.sdc) /\ live' = [live EXCEPT !.sdc = new]
    BY <2>2, <2>3 DEF Update, Write
  <2>5. live'.sdc = new
    <3> HIDE DEF new
    <3> QED BY <1>0, <2>4 DEF View
  <2> QED BY <2>4, <2>5
<1>3. CASE DatacenterSync
  <2>1. live'.sdc.spec = live.sdc.spec
    BY <1>3, SyncWithStep DEF DatacenterSync
  <2> QED BY <2>1 DEF RemovesRack
<1>4. CASE sync
  BY <1>0, <1>4 DEF sync, Write, NoWrite, View
<1>5. CASE syncScyllaDBManagerTasks
  BY <1>0, <1>5 DEF syncScyllaDBManagerTasks, Write, NoWrite, View
<1>6. CASE updateStatus
  BY <1>0, <1>6 DEF updateStatus, Write, NoWrite, View
<1>7. CASE UNCHANGED live
  BY <1>0, <1>7
<1> QED
  BY <1>1, <1>2, <1>3, <1>4, <1>5, <1>6, <1>7
     DEF Next, Controller, Deliver, Restart, Leave, RollOut, vars

\* A rack that the webhook knows the status of leaves the datacenter only when no
\* node is left in it, unless its status was made from a StatefulSet that is older
\* than the scale update that brought the node.  The webhook decides on the status
\* alone: a report on the present generation, on a spec that the controller reads
\* from then on, and made before the sync that wrote it acted.
THEOREM RacksAreRemovedEmpty == Spec => RackRemovedWhenEmptyUnlessMisreported
<1>1. ASSUME IInv, [Next]_vars, RemovesKnownRack, ~misreported
      PROVE  rack = "none"
  <2>0. live.sdc # NoSDC /\ RemovesRack(live'.sdc, live.sdc)
    BY <1>1 DEF RemovesKnownRack
  <2>1. live.sdc \in Datacenters /\ live.sdc.status.gen \in Nat
    BY <1>1, <2>0, ViewSDC DEF IInv, Types, Datacenters, Statuses
  <2>2. live.sdc.spec.rack = 0 /\ ReportedEmpty(live.sdc) /\ isRackStatusUpToDate(live.sdc)
    BY <1>1, <2>0, RemovalIsAdmitted
       DEF RemovesKnownRack, ValidateScyllaDBDatacenterUpdate, ValidateScyllaDBDatacenterSpecUpdate
  <2> QED BY <1>1, <2>0, <2>1, <2>2 DEF IInv, ReportIsTrue, isRackStatusUpToDate, Datacenters
<1>2. IInv /\ [Next]_vars => [RemovesKnownRack /\ ~misreported => rack = "none"]_vars
  BY <1>1
<1> QED BY <1>2, Invariance, PTL DEF Spec, RackRemovedWhenEmptyUnlessMisreported
=============================================================================
