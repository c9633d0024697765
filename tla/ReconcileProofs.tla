-------------------------- MODULE ReconcileProofs --------------------------
(* Proofs about Reconcile, for every controller that is described as        *)
(* WellDescribed and WellWired ask, and for every bound on events, faults   *)
(* and lag.                                                                 *)
EXTENDS Reconcile, TLAPS

-----------------------------------------------------------------------------
(* What the views of a sync hold.                                            *)

\* The spec as an object of the API server, and an object that a controller applies.
IsSpec(x) ==
  /\ x = [gen |-> x.gen, on |-> x.on, status |-> x.status]
  /\ x.gen \in Nat /\ x.status.gen \in Nat

IsObject(x) ==
  /\ x = [owner |-> x.owner, content |-> x.content, rolled |-> x.rolled]
  /\ x.owner \in {"us", "other", "none"}

IsView(v) ==
  /\ DOMAIN v = Items
  /\ IsSpec(v["spec"])
  /\ \A o \in Objects : IsObject(v[o])
  /\ \A r \in Ctl.roots : v[r] \in 0 .. MaxEvents + 1

IsList(v) ==
  /\ DOMAIN v = Items \ Ctl.roots
  /\ IsSpec(v["spec"])
  /\ \A o \in Objects : IsObject(v[o])

Views ==
  /\ IsView(live) /\ IsView(cache)
  /\ pc # Idle => IsList(listed)
  /\ pc \in Nat \X Nat
  /\ events \in Nat /\ faults \in Nat

TInv == TypeOK /\ Views

\* A step that a sync may be at.
IsStep(p) ==
  /\ p \in Nat \X Nat
  /\ \/ p \in {Idle, StatusStep}
     \/ /\ p[1] \in DOMAIN Ctl.stages
        /\ p[2] \in 0 .. Len(Ctl.stages[p[1]].objects)

-----------------------------------------------------------------------------
(* The description and the steps.                                            *)

LEMMA ItemKinds ==
  ASSUME ctl \in Controllers
  PROVE  /\ "spec" \in Items /\ "spec" \notin Objects /\ "spec" \notin Ctl.roots
         /\ Ctl.roots \cap Objects = {} /\ "none" \notin Objects
         /\ Ctl.roots \subseteq Items /\ Objects \subseteq Items
         /\ \A i \in Items : i = "spec" \/ i \in Ctl.roots \/ i \in Objects
         /\ Ctl.requires \subseteq Ctl.roots
         /\ \A o \in Objects : Ctl.objects[o].reads \subseteq Items /\ Ctl.objects[o].while \subseteq Items
  BY DescriptionAssumption DEF WellDescribed, Ctl, Items, Objects

LEMMA SeqElement ==
  ASSUME NEW S, NEW q \in Seq(S), NEW i \in 1 .. Len(q)
  PROVE  q[i] \in S
  OBVIOUS

LEMMA Stages ==
  ASSUME ctl \in Controllers
  PROVE  /\ Len(Ctl.stages) \in Nat /\ DOMAIN Ctl.stages = 1 .. Len(Ctl.stages)
         /\ StatusStep \in Nat \X Nat /\ StatusStep # Idle /\ FirstStep # Idle
         /\ \A s \in DOMAIN Ctl.stages :
              LET stage == Ctl.stages[s] IN
              /\ stage.waits \subseteq Items \ {"spec"}
              /\ stage.after \subseteq 1 .. s - 1
              /\ Len(stage.objects) \in Nat /\ DOMAIN stage.objects = 1 .. Len(stage.objects)
              /\ \A k \in 1 .. Len(stage.objects) : stage.objects[k] \in Objects
              /\ ToSet(stage.objects) = {stage.objects[k] : k \in 1 .. Len(stage.objects)}
              /\ ToSet(stage.objects) \subseteq Objects
              /\ stage.workload = NoWorkload \/ stage.workload.object \in ToSet(stage.objects)
<1> DEFINE d == Ctl
           inputs == d.roots \cup Objects
           StageType == [waits : SUBSET inputs, after : SUBSET Nat,
                      workload : [object : Objects \cup {"none"},
                                  mode : {"none", "wait", "report", "listed"}],
                      objects : Seq(Objects), filtersNil : BOOLEAN]
<1>1. d.stages \in Seq(StageType)
  BY DescriptionAssumption DEF WellDescribed, Ctl, Objects
<1>2. \A s \in DOMAIN d.stages :
        /\ d.stages[s].after \subseteq 1 .. s - 1
        /\ d.stages[s].workload = NoWorkload \/ d.stages[s].workload.object \in ToSet(d.stages[s].objects)
  BY DescriptionAssumption DEF WellDescribed, Ctl
<1>3. Len(d.stages) \in Nat /\ DOMAIN d.stages = 1 .. Len(d.stages)
  BY <1>1
<1>4. StatusStep \in Nat \X Nat /\ StatusStep # Idle /\ FirstStep # Idle
  BY <1>3 DEF StatusStep, Idle, FirstStep
<1>5. ASSUME NEW s \in DOMAIN d.stages
      PROVE  /\ d.stages[s].waits \subseteq Items \ {"spec"}
             /\ Len(d.stages[s].objects) \in Nat
             /\ DOMAIN d.stages[s].objects = 1 .. Len(d.stages[s].objects)
             /\ \A k \in 1 .. Len(d.stages[s].objects) : d.stages[s].objects[k] \in Objects
  <2>1. d.stages[s] \in StageType
    BY <1>1, <1>3, SeqElement
  <2>2. d.stages[s].waits \subseteq inputs /\ d.stages[s].objects \in Seq(Objects)
    BY <2>1
  <2> QED BY <2>2, ItemKinds
<1>6. ASSUME NEW s \in DOMAIN d.stages
      PROVE  /\ ToSet(d.stages[s].objects)
                  = {d.stages[s].objects[k] : k \in 1 .. Len(d.stages[s].objects)}
             /\ ToSet(d.stages[s].objects) \subseteq Objects
  BY <1>5 DEF ToSet
<1> QED BY <1>2, <1>3, <1>4, <1>5, <1>6

LEMMA Steps ==
  ASSUME TInv
  PROVE  /\ IsStep(pc)
         /\ InStage => /\ pc # Idle /\ pc[1] \in DOMAIN Ctl.stages /\ pc[1] \in Nat
                       /\ pc[2] \in 0 .. Len(CurrentStage.objects)
                       /\ IsStep(AfterStage) /\ AfterStage # Idle
                       /\ IsStep(NextStep) /\ NextStep # Idle
<1>1. ctl \in Controllers /\ pc \in Nat \X Nat
  BY DEF TInv, Views, TypeOK
<1>2. IsStep(pc)
  BY <1>1 DEF IsStep, TInv, TypeOK, CurrentStage
<1>3. ASSUME InStage
      PROVE  /\ pc # Idle /\ pc[1] \in DOMAIN Ctl.stages /\ pc[1] \in Nat
             /\ pc[2] \in 0 .. Len(CurrentStage.objects)
             /\ IsStep(AfterStage) /\ AfterStage # Idle
             /\ IsStep(NextStep) /\ NextStep # Idle
  <2>1. pc # Idle /\ pc[1] \in DOMAIN Ctl.stages /\ pc[2] \in 0 .. Len(CurrentStage.objects)
    BY <1>2, <1>3 DEF InStage, IsStep, CurrentStage
  <2>2. pc[1] \in 1 .. Len(Ctl.stages) /\ Len(Ctl.stages) \in Nat
    BY <1>1, <2>1, Stages
  <2>3. AfterStage = <<pc[1] + 1, 0>> /\ AfterStage \in Nat \X Nat /\ AfterStage # Idle
    BY <2>2 DEF AfterStage, Idle
  <2>4. IsStep(AfterStage)
    <3>1. CASE pc[1] = Len(Ctl.stages)
      BY <2>3, <3>1 DEF IsStep, StatusStep
    <3>2. CASE pc[1] # Len(Ctl.stages)
      <4>1. pc[1] + 1 \in DOMAIN Ctl.stages
        BY <1>1, <2>2, <3>2, Stages
      <4>2. 0 \in 0 .. Len(Ctl.stages[pc[1] + 1].objects)
        BY <1>1, <4>1, Stages
      <4> QED BY <2>3, <4>1, <4>2 DEF IsStep
    <3> QED BY <3>1, <3>2
  <2>5. IsStep(NextStep) /\ NextStep # Idle
    <3>1. CASE EndsStage
      BY <2>3, <2>4, <3>1 DEF NextStep
    <3>2. CASE ~EndsStage
      <4>1. Len(CurrentStage.objects) \in Nat
        BY <1>1, <2>1, Stages DEF CurrentStage
      <4>2. NextStep = <<pc[1], pc[2] + 1>> /\ pc[2] + 1 \in 0 .. Len(CurrentStage.objects)
        BY <2>1, <3>2, <4>1 DEF NextStep, EndsStage
      <4> QED BY <2>1, <2>2, <4>2 DEF IsStep, Idle, CurrentStage
    <3> QED BY <3>1, <3>2
  <2> QED BY <2>1, <2>2, <2>3, <2>4, <2>5
<1> QED BY <1>2, <1>3

\* The object that is applied is one of the current stage, at its position.
LEMMA AppliedObject ==
  ASSUME TInv, NEW o \in Applicable
  PROVE  /\ InStage /\ o \in Objects /\ pc[2] \in 1 .. Len(CurrentStage.objects)
         /\ o = CurrentStage.objects[pc[2]] /\ o \in ToSet(CurrentStage.objects)
<1>1. ctl \in Controllers
  BY DEF TInv, TypeOK
<1>2. InStage /\ pc[2] > 0 /\ o = CurrentStage.objects[pc[2]]
  BY DEF Applicable
<1>3. pc[1] \in DOMAIN Ctl.stages /\ pc[2] \in 1 .. Len(CurrentStage.objects)
  BY <1>1, <1>2, Steps, Stages DEF CurrentStage
<1> QED BY <1>1, <1>2, <1>3, Stages, ZenonT(60) DEF CurrentStage

\* Only stages are Progressing or failed.
LEMMA Progress ==
  ASSUME TInv, NEW s \in DOMAIN Ctl.stages, NEW p \in SUBSET DOMAIN Ctl.stages
  PROVE  /\ OverwriteProgress(s, p) \subseteq DOMAIN Ctl.stages
         /\ Ctl.stages[s].workload.mode # "listed" => OverwriteProgress(s, p) = p
         /\ \A t \in DOMAIN Ctl.stages \ {s} : t \in OverwriteProgress(s, p) <=> t \in p
  BY DEF OverwriteProgress

\* What writing an object makes of the views.
LEMMA WriteView ==
  ASSUME TInv, NEW o \in Objects, NEW x, IsObject(x), live' = [live EXCEPT ![o] = x], ctl' = ctl
  PROVE  /\ IsView(live)'
         /\ live'[o] = x /\ \A i \in Items \ {o} : live'[i] = live[i]
<1>1. ctl \in Controllers /\ IsView(live)
  BY DEF TInv, TypeOK, Views
<1>2. DOMAIN live' = Items /\ live'[o] = x /\ \A i \in Items \ {o} : live'[i] = live[i]
  BY <1>1, ItemKinds DEF IsView
<1>3. Items' = Items /\ Objects' = Objects /\ Ctl' = Ctl
  BY DEF Items, Objects, Ctl
<1> QED BY <1>1, <1>2, <1>3, ItemKinds DEF IsView

LEMMA StoreView ==
  ASSUME TInv, NEW o \in Objects, NEW x, Store(o, x)
  PROVE  live'[o] = x /\ \A i \in Items \ {o} : live'[i] = live[i]
<1>1. DOMAIN live = Items
  BY DEF TInv, Views, IsView
<1>2. o \in Items
  BY ItemKinds DEF TInv, TypeOK
<1>3. live' = [live EXCEPT ![o] = x]
  BY DEF Store
<1> QED BY <1>1, <1>2, <1>3

LEMMA ObjectValues ==
  /\ IsObject(Absent)
  /\ \A x : IsObject([owner |-> "us", content |-> x, rolled |-> <<>>])
  /\ \A x : IsObject([owner |-> "us", content |-> x, rolled |-> x])
  /\ IsObject([owner |-> "other", content |-> <<>>, rolled |-> <<>>])
  /\ \A x, c : IsObject(x) =>
       /\ IsObject([x EXCEPT !.content = c])
       /\ [x EXCEPT !.content = c].owner = x.owner /\ [x EXCEPT !.content = c].content = c
       /\ [x EXCEPT !.content = c].rolled = x.rolled
  /\ \A x : IsObject(x) =>
       /\ IsObject([x EXCEPT !.rolled = x.content])
       /\ [x EXCEPT !.rolled = x.content].owner = x.owner
       /\ [x EXCEPT !.rolled = x.content].content = x.content
       /\ [x EXCEPT !.rolled = x.content].rolled = x.content
<1>1. IsObject(Absent)
  BY DEF IsObject, Absent
<1>2. \A x : IsObject([owner |-> "us", content |-> x, rolled |-> <<>>])
  BY DEF IsObject
<1>3. \A x : IsObject([owner |-> "us", content |-> x, rolled |-> x])
  BY DEF IsObject
<1>4. IsObject([owner |-> "other", content |-> <<>>, rolled |-> <<>>])
  BY DEF IsObject
<1>5. ASSUME NEW x, NEW c, IsObject(x)
      PROVE  /\ IsObject([x EXCEPT !.content = c])
             /\ [x EXCEPT !.content = c].owner = x.owner /\ [x EXCEPT !.content = c].content = c
             /\ [x EXCEPT !.content = c].rolled = x.rolled
  BY <1>5 DEF IsObject
<1>6. ASSUME NEW x, IsObject(x)
      PROVE  /\ IsObject([x EXCEPT !.rolled = x.content])
             /\ [x EXCEPT !.rolled = x.content].owner = x.owner
             /\ [x EXCEPT !.rolled = x.content].content = x.content
             /\ [x EXCEPT !.rolled = x.content].rolled = x.content
  BY <1>6 DEF IsObject
<1> QED BY <1>1, <1>2, <1>3, <1>4, <1>5, <1>6

-----------------------------------------------------------------------------
(* Every step keeps the types.                                               *)

LEMMA SpecValues ==
  ASSUME NEW x, IsSpec(x), NEW t, t.gen \in Nat
  PROVE  LET y == [x EXCEPT !.status = t] IN
         IsSpec(y) /\ y.gen = x.gen /\ y.on = x.on /\ y.status = t
  BY DEF IsSpec

LEMMA RenderView ==
  ASSUME ctl \in Controllers, NEW v, IsView(v)
  PROVE  /\ IsView(RenderAll(v))
         /\ \A i \in Items \ Objects : RenderAll(v)[i] = v[i]
         /\ \A o \in Objects :
              IF Required(o, v)
              THEN RenderAll(v)[o] = [owner |-> "us", content |-> Render(o, v), rolled |-> Render(o, v)]
              ELSE RenderAll(v)[o] = v[o]
<1>1. /\ DOMAIN RenderAll(v) = Items
      /\ \A i \in Items \ Objects : RenderAll(v)[i] = v[i]
      /\ \A o \in Objects :
           IF Required(o, v)
           THEN RenderAll(v)[o] = [owner |-> "us", content |-> Render(o, v), rolled |-> Render(o, v)]
           ELSE RenderAll(v)[o] = v[o]
  BY ItemKinds DEF RenderAll
<1>2. ASSUME NEW o \in Objects PROVE IsObject(RenderAll(v)[o])
  <2>1. IsObject([owner |-> "us", content |-> Render(o, v), rolled |-> Render(o, v)])
    BY DEF IsObject
  <2>2. IsObject(v[o])
    BY DEF IsView
  <2>3. RenderAll(v)[o] = [owner |-> "us", content |-> Render(o, v), rolled |-> Render(o, v)]
          \/ RenderAll(v)[o] = v[o]
    BY <1>1
  <2> QED BY <2>1, <2>2, <2>3
<1> HIDE DEF RenderAll
<1> QED BY <1>1, <1>2, ItemKinds DEF IsView

LEMMA NothingView ==
  ASSUME ctl \in Controllers
  PROVE  /\ IsView(Nothing)
         /\ Nothing["spec"] = [gen |-> 1, on |-> OwnOptions, status |-> NoStatus]
         /\ \A o \in Objects : Nothing[o] = Absent
<1>1. /\ DOMAIN Nothing = Items
      /\ Nothing["spec"] = [gen |-> 1, on |-> OwnOptions, status |-> NoStatus]
      /\ \A o \in Objects : Nothing[o] = Absent
      /\ \A r \in Ctl.roots : Nothing[r] = 1
  BY ItemKinds DEF Nothing
<1>2. IsSpec([gen |-> 1, on |-> OwnOptions, status |-> NoStatus])
  BY DEF IsSpec, NoStatus
<1>3. 1 \in 0 .. MaxEvents + 1
  BY BoundsAssumption
<1> QED BY <1>1, <1>2, <1>3, ObjectValues DEF IsView

LEMMA InstalledView ==
  ASSUME ctl \in Controllers
  PROVE  LET view == RenderAll(Nothing) IN
         /\ IsView(view) /\ IsView(Installed)
         /\ view["spec"] = [gen |-> 1, on |-> OwnOptions, status |-> NoStatus]
         /\ Installed["spec"] = [gen |-> 1, on |-> OwnOptions,
                                 status |-> [gen |-> 1, prog |-> FALSE, deg |-> FALSE]]
         /\ \A o \in Objects :
              IF Required(o, view)
              THEN Installed[o] = [owner |-> "us", content |-> Render(o, view), rolled |-> Render(o, view)]
              ELSE Installed[o] = view[o]
         /\ \A o \in Objects :
              IF Required(o, Nothing)
              THEN view[o] = [owner |-> "us", content |-> Render(o, Nothing), rolled |-> Render(o, Nothing)]
              ELSE view[o] = Absent
<1> DEFINE view == RenderAll(Nothing)
           full == RenderAll(view)
           status == [gen |-> 1, prog |-> FALSE, deg |-> FALSE]
<1>1. IsView(view) /\ IsView(full)
  BY NothingView, RenderView
<1>2. view["spec"] = [gen |-> 1, on |-> OwnOptions, status |-> NoStatus] /\ full["spec"] = view["spec"]
  BY <1>1, NothingView, RenderView, ItemKinds
<1>3. \A o \in Objects :
        IF Required(o, view)
        THEN full[o] = [owner |-> "us", content |-> Render(o, view), rolled |-> Render(o, view)]
        ELSE full[o] = view[o]
  BY <1>1, RenderView
<1>4. \A o \in Objects :
        IF Required(o, Nothing)
        THEN view[o] = [owner |-> "us", content |-> Render(o, Nothing), rolled |-> Render(o, Nothing)]
        ELSE view[o] = Absent
  BY NothingView, RenderView
<1>5. Installed = [full EXCEPT !["spec"] = [gen |-> 1, on |-> OwnOptions, status |-> status]]
  BY DEF Installed
<1> HIDE DEF view, full
<1>6. DOMAIN Installed = Items /\ \A i \in Items \ {"spec"} : Installed[i] = full[i]
  BY <1>1, <1>5, ItemKinds DEF IsView
<1>7. Installed["spec"] = [gen |-> 1, on |-> OwnOptions, status |-> status]
  BY <1>1, <1>5, ItemKinds DEF IsView
<1>8. IsSpec(Installed["spec"])
  BY <1>7 DEF IsSpec
<1>9. IsView(Installed)
  BY <1>1, <1>6, <1>8, ItemKinds DEF IsView
<1> QED BY <1>1, <1>2, <1>3, <1>4, <1>6, <1>7, <1>9, ItemKinds DEF view

LEMMA TypeInit == ASSUME Init PROVE TInv
<1>1. ctl \in Controllers /\ cache = live /\ pc = Idle /\ events = 0 /\ faults = 0
  BY DEF Init
<1>2. IsView(live) /\ IsView(cache)
  BY <1>1, NothingView, InstalledView DEF Init
<1>3. TypeOK
  <2>1. /\ DOMAIN live = Items /\ DOMAIN cache = Items
        /\ \A i \in Ctl.roots : live[i] \in 0 .. MaxEvents + 1 /\ cache[i] \in 0 .. MaxEvents + 1
    BY <1>2 DEF IsView
  <2>2. \A o \in Objects : {live[o].owner, cache[o].owner} \subseteq {"us", "other", "none"}
    BY <1>2 DEF IsView, IsObject
  <2>3. stale = {} /\ queue \in BOOLEAN /\ mine = {} /\ listed = <<>> /\ prog = {} /\ errs = {}
    BY DEF Init
  <2>4. 0 <= MaxEvents /\ 0 <= MaxFaults
    BY BoundsAssumption
  <2> QED BY <1>1, <2>1, <2>2, <2>3, <2>4 DEF TypeOK
<1>4. pc \in Nat \X Nat
  BY <1>1 DEF Idle
<1> QED BY <1>1, <1>2, <1>3, <1>4 DEF TInv, Views

\* A step that leaves the objects alone, as far as their types go.
LEMMA TypeFrom ==
  ASSUME TInv, ctl' = ctl, IsView(live)', IsView(cache)', stale' \subseteq Items, queue' \in BOOLEAN,
         mine' \subseteq stale', \A i \in Items \ stale' : cache'[i] = live'[i],
         IsStep(pc'), pc' # Idle => IsList(listed'),
         pc' = Idle => listed' = <<>> /\ prog' = {} /\ errs' = {},
         prog' \subseteq DOMAIN Ctl.stages, errs' \subseteq DOMAIN Ctl.stages,
         faults' \in Nat, faults' <= MaxFaults, events' \in Nat, events' <= MaxEvents
  PROVE  TInv'
<1>1. /\ ctl' \in Controllers /\ Ctl' = Ctl /\ Items' = Items /\ Objects' = Objects
      /\ StatusStep' = StatusStep
  BY DEF TInv, TypeOK, Ctl, Items, Objects, StatusStep
<1>2. /\ DOMAIN live' = Items /\ DOMAIN cache' = Items
      /\ \A i \in Ctl.roots : live'[i] \in 0 .. MaxEvents + 1 /\ cache'[i] \in 0 .. MaxEvents + 1
      /\ \A o \in Objects : {live'[o].owner, cache'[o].owner} \subseteq {"us", "other", "none"}
  BY <1>1 DEF IsView, IsObject
<1>3. /\ pc' \in Nat \X Nat
      /\ \/ pc' \in {Idle, StatusStep}
         \/ /\ pc'[1] \in DOMAIN Ctl.stages
            /\ pc'[2] \in 0 .. Len(Ctl.stages[pc'[1]].objects)
  BY DEF IsStep
<1>4. pc' # Idle => listed' # <<>>
  <2> SUFFICES ASSUME pc' # Idle PROVE listed' # <<>>
    OBVIOUS
  <2>1. "spec" \in DOMAIN listed'
    BY <1>1, ItemKinds DEF IsList, TInv, TypeOK
  <2>2. DOMAIN <<>> = {}
    OBVIOUS
  <2> QED BY <2>1, <2>2
<1>5. TypeOK'
  BY <1>1, <1>2, <1>3, <1>4 DEF TypeOK, CurrentStage
<1>6. IsList(listed') => IsList(listed)'
  BY <1>1 DEF IsList
<1>7. Views'
  BY <1>3, <1>6 DEF Views
<1> QED BY <1>5, <1>7 DEF TInv

\* What the application of an object may come to: it is not required; it is as it
\* should be in the cache; the call fails and writes nothing; the object is written;
\* or it is deleted, and not created anew.
Outcome(o, kind) ==
  CASE kind = "skipped" -> /\ ~Required(o, Seen) /\ errs' = errs
                           /\ UNCHANGED <<live, stale, mine>>
    [] kind = "equal"   -> /\ Required(o, Seen) /\ errs' = errs
                           /\ cache[o].owner = "us" /\ cache[o].content = Render(o, Seen)
                           /\ UNCHANGED <<live, stale, mine>>
    [] kind = "failed"  -> /\ Required(o, Seen) /\ errs' = errs \cup {pc[1]}
                           /\ UNCHANGED <<live, stale, mine>>
    [] kind = "deleted" -> /\ Required(o, Seen) /\ errs' = errs \cup {pc[1]}
                           /\ Ctl.objects[o].recreated
                           /\ Store(o, Absent)
    [] kind = "written" -> /\ Required(o, Seen) /\ errs' = errs
                           /\ live[o].owner = "other" => Ctl.objects[o].recreated
                           /\ \E x : /\ IsObject(x) /\ x.owner = "us" /\ x.content = Render(o, Seen)
                                     /\ Store(o, x)
    [] OTHER -> FALSE

Kinds == {"skipped", "equal", "failed", "deleted", "written"}

\* What it leaves of the rest.
Passes(o, kind) ==
  /\ pc' = NextStep
  /\ UNCHANGED <<ctl, cache, queue, listed, events>>
  /\ faults' \in Nat /\ faults' <= MaxFaults
  /\ prog' \subseteq DOMAIN Ctl.stages
  /\ \A t \in DOMAIN Ctl.stages \ {pc[1]} : t \in prog' <=> t \in prog
  /\ CurrentStage.workload.mode # "listed" =>
       /\ prog \subseteq prog'
       /\ kind = "written" => pc[1] \in prog'
       /\ kind = "skipped" => prog' = prog
       /\ kind = "equal" /\ pc[1] \in prog' =>
            \/ pc[1] \in prog
            \/ CurrentStage.workload = Workload(o, "report") /\ ~RolledOut(cache[o])

LEMMA AppliedPasses ==
  ASSUME TInv, NEW o \in Applicable, NEW changed \in BOOLEAN, NEW failed \in BOOLEAN,
         NEW rolledOut \in BOOLEAN, Applied(o, changed, failed, rolledOut),
         faults' \in Nat, faults' <= MaxFaults, NEW kind \in Kinds,
         kind = "written" => changed,
         kind = "skipped" => ~changed /\ rolledOut,
         kind = "equal" => ~changed /\ (rolledOut <=> RolledOut(cache[o]))
  PROVE  Passes(o, kind) /\ errs' = IF failed THEN errs \cup {pc[1]} ELSE errs
<1> DEFINE s == pc[1]
           P == IF changed \/ (CurrentStage.workload = Workload(o, "report") /\ ~rolledOut)
                THEN prog \cup {s} ELSE prog
<1>1. InStage /\ s \in DOMAIN Ctl.stages /\ CurrentStage = Ctl.stages[s]
  BY AppliedObject, Steps DEF CurrentStage
<1>2. prog \subseteq DOMAIN Ctl.stages
  BY DEF TInv, TypeOK
<1>3. P \in SUBSET DOMAIN Ctl.stages
  BY <1>1, <1>2
<1>4. prog' = IF EndsStage THEN OverwriteProgress(s, P) ELSE P
  BY DEF Applied, Finish
<1>5. /\ prog' \subseteq DOMAIN Ctl.stages
      /\ CurrentStage.workload.mode # "listed" => prog' = P
      /\ \A t \in DOMAIN Ctl.stages \ {s} : t \in prog' <=> t \in P
  BY <1>1, <1>3, <1>4, Progress
<1>6. \A t \in DOMAIN Ctl.stages \ {s} : t \in P <=> t \in prog
  OBVIOUS
<1>7. /\ pc' = NextStep /\ UNCHANGED <<ctl, cache, queue, listed, events>>
      /\ errs' = IF failed THEN errs \cup {pc[1]} ELSE errs
  BY DEF Applied
<1>8. /\ prog \subseteq P
      /\ kind = "written" => s \in P
      /\ kind = "skipped" => P = prog
      /\ kind = "equal" /\ s \in P =>
           \/ s \in prog
           \/ CurrentStage.workload = Workload(o, "report") /\ ~RolledOut(cache[o])
  OBVIOUS
<1> HIDE DEF P
<1> QED BY <1>5, <1>6, <1>7, <1>8 DEF Passes

LEMMA ApplyOutcome ==
  ASSUME TInv, NEW o \in Applicable,
         \/ NotRequired(o) \/ ApplyCreate(o) \/ ApplyNotOurs(o) \/ ApplyEqual(o)
         \/ ApplyUpdate(o) \/ ApplyRecreate(o) \/ ApplyFails(o)
  PROVE  \E kind \in Kinds : Outcome(o, kind) /\ Passes(o, kind)
<1>1. /\ o \in Objects /\ o \in Items /\ IsObject(live[o])
      /\ faults \in Nat /\ faults <= MaxFaults
      /\ o \notin stale => cache[o] = live[o]
  BY AppliedObject, ItemKinds DEF TInv, TypeOK, Views, IsView
<1>2. MaxFaults \in Nat /\ (faults < MaxFaults => faults + 1 \in Nat /\ faults + 1 <= MaxFaults)
  BY <1>1, BoundsAssumption
<1>3. CASE NotRequired(o)
  <2>1. Outcome(o, "skipped") /\ Passes(o, "skipped")
    BY <1>1, <1>3, AppliedPasses DEF NotRequired, Outcome, Kinds
  <2> QED BY <2>1 DEF Kinds
<1>4. CASE ApplyCreate(o)
  <2>1. CASE live[o].owner = "none"
    <3>1. Passes(o, "written") /\ errs' = errs
      BY <1>1, <1>4, <2>1, AppliedPasses DEF ApplyCreate, Kinds
    <3>2. Outcome(o, "written")
      BY <1>4, <2>1, <3>1, ObjectValues DEF ApplyCreate, Outcome
    <3> QED BY <3>1, <3>2 DEF Kinds
  <2>2. CASE live[o].owner # "none"
    <3>1. Passes(o, "failed") /\ errs' = errs \cup {pc[1]}
      BY <1>1, <1>4, <2>2, AppliedPasses DEF ApplyCreate, Kinds
    <3>2. Outcome(o, "failed")
      BY <1>4, <2>2, <3>1 DEF ApplyCreate, Outcome
    <3> QED BY <3>1, <3>2 DEF Kinds
  <2> QED BY <2>1, <2>2
<1>5. CASE ApplyNotOurs(o)
  <2>1. Passes(o, "failed") /\ errs' = errs \cup {pc[1]}
    BY <1>1, <1>5, AppliedPasses DEF ApplyNotOurs, Kinds
  <2>2. Outcome(o, "failed")
    BY <1>5, <2>1 DEF ApplyNotOurs, Outcome
  <2> QED BY <2>1, <2>2 DEF Kinds
<1>6. CASE ApplyEqual(o)
  <2>1. RolledOut(cache[o]) \in BOOLEAN
    BY DEF RolledOut
  <2>2. Passes(o, "equal") /\ errs' = errs
    BY <1>1, <1>6, <2>1, AppliedPasses DEF ApplyEqual, Kinds
  <2>3. Outcome(o, "equal")
    BY <1>6, <2>2 DEF ApplyEqual, Outcome
  <2> QED BY <2>2, <2>3 DEF Kinds
<1>7. CASE ApplyUpdate(o)
  <2>1. CASE o \notin stale
    <3> DEFINE x == [live[o] EXCEPT !.content = Render(o, Seen)]
    <3>1. Passes(o, "written") /\ errs' = errs
      BY <1>1, <1>7, <2>1, AppliedPasses DEF ApplyUpdate, Kinds
    <3>2. IsObject(x) /\ x.owner = live[o].owner /\ x.content = Render(o, Seen)
      <4>1. IsObject(live[o])
        BY <1>1
      <4> QED BY <4>1, ObjectValues
    <3>3. Store(o, x) /\ Required(o, Seen) /\ live[o].owner = "us"
      BY <1>1, <1>7, <2>1 DEF ApplyUpdate
    <3> HIDE DEF x
    <3>4. Outcome(o, "written")
      BY <3>1, <3>2, <3>3 DEF Outcome
    <3> QED BY <3>1, <3>4 DEF Kinds
  <2>2. CASE o \in stale
    <3>1. Passes(o, "failed") /\ errs' = errs \cup {pc[1]}
      BY <1>1, <1>7, <2>2, AppliedPasses DEF ApplyUpdate, Kinds
    <3>2. Outcome(o, "failed")
      BY <1>7, <2>2, <3>1 DEF ApplyUpdate, Outcome
    <3> QED BY <3>1, <3>2 DEF Kinds
  <2> QED BY <2>1, <2>2
<1>8. CASE ApplyRecreate(o)
  <2>1. CASE live[o].owner = "none" /\ Applied(o, FALSE, TRUE, FALSE) /\ UNCHANGED <<live, stale, mine, faults>>
    <3>1. Passes(o, "failed") /\ errs' = errs \cup {pc[1]}
      BY <1>1, <2>1, AppliedPasses DEF Kinds
    <3>2. Outcome(o, "failed")
      BY <1>8, <2>1, <3>1 DEF ApplyRecreate, Outcome
    <3> QED BY <3>1, <3>2 DEF Kinds
  <2>2. CASE /\ Store(o, [owner |-> "us", content |-> Render(o, Seen), rolled |-> <<>>])
             /\ Applied(o, TRUE, FALSE, FALSE)
             /\ UNCHANGED faults
    <3>1. Passes(o, "written") /\ errs' = errs
      BY <1>1, <2>2, AppliedPasses DEF Kinds
    <3>2. Outcome(o, "written")
      BY <1>8, <2>2, <3>1, ObjectValues DEF ApplyRecreate, Outcome
    <3> QED BY <3>1, <3>2 DEF Kinds
  <2>3. CASE /\ faults < MaxFaults
             /\ faults' = faults + 1
             /\ Store(o, Absent)
             /\ Applied(o, FALSE, TRUE, FALSE)
    <3>1. Passes(o, "deleted") /\ errs' = errs \cup {pc[1]}
      BY <1>2, <2>3, AppliedPasses DEF Kinds
    <3>2. Outcome(o, "deleted")
      BY <1>8, <2>3, <3>1 DEF ApplyRecreate, Outcome
    <3> QED BY <3>1, <3>2 DEF Kinds
  <2> QED BY <1>8, <2>1, <2>2, <2>3 DEF ApplyRecreate
<1>9. CASE ApplyFails(o)
  <2>1. Passes(o, "failed") /\ errs' = errs \cup {pc[1]}
    BY <1>2, <1>9, AppliedPasses DEF ApplyFails, Kinds
  <2>2. Outcome(o, "failed")
    BY <1>9, <2>1 DEF ApplyFails, Outcome
  <2> QED BY <2>1, <2>2 DEF Kinds
<1> QED BY <1>3, <1>4, <1>5, <1>6, <1>7, <1>8, <1>9

\* What a prune deletes, and whether it was all that there was to delete.
Prunes(done, all) ==
  /\ done \subseteq Excess(CurrentStage)
  /\ \A o \in done : live[o].owner = "us"
  /\ live' = [i \in Items |-> IF i \in done THEN Absent ELSE live[i]]
  /\ stale' = stale \cup done /\ mine' = mine \cup done
  /\ IF all THEN /\ done = Excess(CurrentStage)
                 /\ errs' = errs /\ pc' = NextStep
            ELSE errs' = errs \cup {pc[1]} /\ pc' = AfterStage
  /\ UNCHANGED <<queue, listed>>
  /\ prog' \subseteq DOMAIN Ctl.stages
  /\ \A t \in DOMAIN Ctl.stages \ {pc[1]} : t \in prog' <=> t \in prog
  /\ CurrentStage.workload.mode # "listed" =>
       prog \subseteq prog' /\ (pc[1] \in prog' => pc[1] \in prog \/ (all /\ done # {}))

Panics == Return(TRUE) /\ UNCHANGED <<live, stale, mine, faults>>

LEMMA PruneOutcome ==
  ASSUME TInv, Prune
  PROVE  /\ InStage /\ pc[2] = 0 /\ ~Waits(CurrentStage)
         /\ UNCHANGED <<ctl, cache, events>>
         /\ faults' \in Nat /\ faults' <= MaxFaults
         /\ Panics \/ \E done : Prunes(done, TRUE) \/ Prunes(done, FALSE)
<1> DEFINE s == pc[1]
           gone == Excess(CurrentStage)
<1>1. /\ InStage /\ pc[2] = 0 /\ ~Waits(CurrentStage)
      /\ UNCHANGED <<ctl, cache, events>>
      /\ PruneExcess(s, gone) \/ Panics
  BY DEF Prune, Panics
<1>2. /\ faults \in Nat /\ faults <= MaxFaults /\ prog \subseteq DOMAIN Ctl.stages
      /\ s \in DOMAIN Ctl.stages /\ CurrentStage = Ctl.stages[s]
  BY <1>1, Steps DEF TInv, TypeOK, Views, CurrentStage
<1>3. MaxFaults \in Nat /\ (faults < MaxFaults => faults + 1 \in Nat /\ faults + 1 <= MaxFaults)
  BY <1>2, BoundsAssumption
<1>4. CASE Panics
  BY <1>1, <1>2, <1>4 DEF Panics
<1>5. CASE PruneExcess(s, gone)
  <2>1. PICK deleted \in {gone, {}} :
          /\ deleted = gone \/ faults < MaxFaults
          /\ faults' = IF deleted = gone THEN faults ELSE faults + 1
          /\ LET done == {o \in deleted : Deletable(o)}
                 bad  == done # gone
             IN /\ live' = [i \in Items |-> IF i \in done THEN Absent ELSE live[i]]
                /\ stale' = stale \cup done
                /\ mine' = mine \cup done
                /\ errs' = IF bad THEN errs \cup {s} ELSE errs
                /\ prog' = IF bad THEN OverwriteProgress(s, prog)
                           ELSE IF gone # {} /\ Ctl.deletionIsProgress
                                THEN prog \cup {s} ELSE prog
                /\ pc' = IF bad THEN AfterStage ELSE NextStep
          /\ UNCHANGED <<queue, listed>>
    BY <1>5 DEF PruneExcess
  <2> DEFINE done == {o \in deleted : Deletable(o)}
             bad == done # gone
  <2>2. /\ live' = [i \in Items |-> IF i \in done THEN Absent ELSE live[i]]
        /\ stale' = stale \cup done /\ mine' = mine \cup done
        /\ errs' = IF bad THEN errs \cup {s} ELSE errs
        /\ prog' = IF bad THEN OverwriteProgress(s, prog)
                   ELSE IF gone # {} /\ Ctl.deletionIsProgress
                        THEN prog \cup {s} ELSE prog
        /\ pc' = IF bad THEN AfterStage ELSE NextStep
        /\ UNCHANGED <<queue, listed>>
    BY <2>1
  <2>3. done \subseteq gone /\ \A o \in done : live[o].owner = "us"
    BY <2>1 DEF Deletable
  <2> HIDE DEF done, gone
  <2>4. faults' \in Nat /\ faults' <= MaxFaults
    BY <1>2, <1>3, <2>1
  <2>5. CASE bad
    <3>1. /\ prog' \subseteq DOMAIN Ctl.stages
          /\ \A t \in DOMAIN Ctl.stages \ {s} : t \in prog' <=> t \in prog
          /\ CurrentStage.workload.mode # "listed" => prog' = prog
      BY <1>2, <2>2, <2>5, Progress
    <3>2. Prunes(done, FALSE)
      BY <2>2, <2>3, <2>5, <3>1 DEF Prunes, gone
    <3> QED BY <1>1, <2>4, <3>2
  <2>6. CASE ~bad
    <3>1. /\ prog' \subseteq DOMAIN Ctl.stages /\ prog \subseteq prog'
          /\ \A t \in DOMAIN Ctl.stages \ {s} : t \in prog' <=> t \in prog
          /\ s \in prog' => s \in prog \/ done # {}
      BY <1>2, <2>2, <2>6
    <3>2. Prunes(done, TRUE)
      BY <2>2, <2>3, <2>6, <3>1 DEF Prunes, gone
    <3> QED BY <1>1, <2>4, <3>2
  <2> QED BY <2>5, <2>6
<1> QED BY <1>1, <1>4, <1>5

\* What becomes of the views.
LEMMA PrunedView ==
  ASSUME TInv, ctl' = ctl, NEW done, NEW all, Prunes(done, all), InStage
  PROVE  /\ IsView(live)' /\ done \subseteq Objects
         /\ \A i \in Items : live'[i] = IF i \in done THEN Absent ELSE live[i]
<1>1. ctl \in Controllers /\ IsView(live) /\ pc[1] \in DOMAIN Ctl.stages
  BY Steps DEF TInv, TypeOK, Views
<1>2. done \subseteq Objects
  <2>1. ToSet(CurrentStage.objects) \subseteq Objects
    BY <1>1, Stages DEF CurrentStage
  <2> QED BY <2>1 DEF Prunes, Excess
<1>3. DOMAIN live' = Items /\ \A i \in Items : live'[i] = IF i \in done THEN Absent ELSE live[i]
  BY DEF Prunes
<1>4. Items' = Items /\ Objects' = Objects /\ Ctl' = Ctl
  BY DEF Items, Objects, Ctl
<1> QED BY <1>1, <1>2, <1>3, <1>4, ItemKinds, ObjectValues DEF IsView

\* What updateStatus does: the status is written, or it is as it should be, or
\* another sync will write it.
StatusWritten ==
  /\ live["spec"] = listed["spec"]
  /\ live' = [live EXCEPT !["spec"].status = AggregatedStatus]
  /\ stale' = stale \cup {"spec"} /\ mine' = mine \cup {"spec"}

LEMMA StatusOutcome ==
  ASSUME TInv, updateStatus
  PROVE  /\ pc = StatusStep
         /\ UNCHANGED <<ctl, cache, events>>
         /\ pc' = Idle /\ listed' = <<>> /\ prog' = {} /\ errs' = {}
         /\ faults' \in Nat /\ faults' <= MaxFaults
         /\ \/ UNCHANGED <<live, stale, mine>> /\ queue' = (queue \/ errs # {})
               /\ (~Ctl.hasStatus \/ listed["spec"].status = AggregatedStatus)
            \/ UNCHANGED <<live, stale, mine>> /\ queue' = TRUE
            \/ StatusWritten /\ queue' = (queue \/ errs # {})
<1>1. faults \in Nat /\ faults <= MaxFaults /\ MaxFaults \in Nat
  BY BoundsAssumption DEF TInv, TypeOK, Views
<1>2. pc = StatusStep /\ UNCHANGED <<ctl, cache, events>>
  BY DEF updateStatus
<1>3. CASE ~Ctl.hasStatus \/ listed["spec"].status = AggregatedStatus
  BY <1>1, <1>2, <1>3 DEF updateStatus, Return
<1>4. CASE ~(~Ctl.hasStatus \/ listed["spec"].status = AggregatedStatus)
  <2>1. \/ StatusWritten /\ Return(errs # {}) /\ UNCHANGED faults
        \/ StatusNotWritten /\ UNCHANGED faults
        \/ StatusNotWritten /\ faults < MaxFaults /\ faults' = faults + 1
    BY <1>4 DEF updateStatus, StatusWritten
  <2>2. CASE StatusWritten /\ Return(errs # {}) /\ UNCHANGED faults
    BY <1>1, <1>2, <2>2 DEF Return
  <2>3. CASE StatusNotWritten
    <3>1. faults' \in Nat /\ faults' <= MaxFaults
      BY <1>1, <2>1
    <3>2. /\ pc' = Idle /\ listed' = <<>> /\ prog' = {} /\ errs' = {}
          /\ UNCHANGED <<live, stale, mine>> /\ queue' = TRUE
      BY <2>3 DEF Return, StatusNotWritten
    <3> QED BY <1>2, <3>1, <3>2
  <2> QED BY <2>1, <2>2, <2>3
<1> QED BY <1>3, <1>4

LEMMA StatusView ==
  ASSUME TInv, ctl' = ctl, StatusWritten, pc = StatusStep
  PROVE  /\ IsView(live)' /\ "spec" \in Items
         /\ live'["spec"].gen = live["spec"].gen /\ live'["spec"].on = live["spec"].on
         /\ live'["spec"].status = AggregatedStatus
         /\ \A i \in Items \ {"spec"} : live'[i] = live[i]
<1>1. ctl \in Controllers /\ IsView(live) /\ pc # Idle /\ IsList(listed)
  BY Stages DEF TInv, TypeOK, Views
<1>2. IsSpec(live["spec"]) /\ AggregatedStatus.gen \in Nat
  BY <1>1 DEF IsView, IsList, IsSpec, AggregatedStatus
<1> DEFINE y == [live["spec"] EXCEPT !.status = AggregatedStatus]
<1>3. IsSpec(y) /\ y.gen = live["spec"].gen /\ y.on = live["spec"].on /\ y.status = AggregatedStatus
  BY <1>2, SpecValues
<1>4. /\ DOMAIN live' = Items /\ live'["spec"] = y
      /\ \A i \in Items \ {"spec"} : live'[i] = live[i]
  BY <1>1, ItemKinds DEF StatusWritten, IsView
<1>5. Items' = Items /\ Objects' = Objects /\ Ctl' = Ctl
  BY DEF Items, Objects, Ctl
<1> HIDE DEF y
<1> QED BY <1>1, <1>3, <1>4, <1>5, ItemKinds DEF IsView

\* What an edit of the spec does.
LEMMA EditView ==
  ASSUME TInv, EditSpec
  PROVE  /\ IsView(live)'
         /\ \A i \in Items \ {"spec"} : live'[i] = live[i]
         /\ live'["spec"].gen = live["spec"].gen + 1
         /\ live'["spec"].status = live["spec"].status
         /\ \E off \in SUBSET (Options \cap OwnOptions) : live'["spec"].on = OwnOptions \ off
<1>1. ctl \in Controllers /\ IsView(live) /\ IsSpec(live["spec"]) /\ ctl' = ctl
  BY DEF TInv, TypeOK, Views, IsView, EditSpec, Other
<1>2. PICK off \in SUBSET (Options \cap OwnOptions) :
        live' = [live EXCEPT !["spec"] =
                   [gen |-> @.gen + 1, on |-> OwnOptions \ off, status |-> @.status]]
  BY DEF EditSpec
<1> DEFINE y == [gen |-> live["spec"].gen + 1, on |-> OwnOptions \ off, status |-> live["spec"].status]
<1>3. IsSpec(y) /\ y.gen = live["spec"].gen + 1 /\ y.on = OwnOptions \ off /\ y.status = live["spec"].status
  BY <1>1 DEF IsSpec
<1>4. /\ DOMAIN live' = Items /\ live'["spec"] = y
      /\ \A i \in Items \ {"spec"} : live'[i] = live[i]
  BY <1>1, <1>2, ItemKinds DEF IsView
<1>5. Items' = Items /\ Objects' = Objects /\ Ctl' = Ctl
  BY <1>1 DEF Items, Objects, Ctl
<1> HIDE DEF y
<1> QED BY <1>1, <1>3, <1>4, <1>5, ItemKinds DEF IsView

\* The workloads are objects of the controller.
LEMMA WorkloadsAreObjects ==
  ASSUME ctl \in Controllers
  PROVE  /\ Workloads \subseteq Objects
         /\ Workloads = {Ctl.stages[s].workload.object : s \in DOMAIN Ctl.stages} \ {"none"}
<1>1. Workloads = {Ctl.stages[s].workload.object : s \in DOMAIN Ctl.stages} \ {"none"}
  BY DEF Workloads, WorkloadsOf, Ctl
<1>2. ASSUME NEW s \in DOMAIN Ctl.stages
      PROVE  Ctl.stages[s].workload.object \in Objects \cup {"none"}
  <2>1. Ctl.stages[s].workload = NoWorkload \/ Ctl.stages[s].workload.object \in ToSet(Ctl.stages[s].objects)
    BY Stages
  <2>2. ToSet(Ctl.stages[s].objects) \subseteq Objects
    BY Stages
  <2>3. NoWorkload.object = "none"
    BY DEF NoWorkload, Workload
  <2> QED BY <2>1, <2>2, <2>3
<1> QED BY <1>1, <1>2

\* What others do to an object, and what a rollout does.
LEMMA OtherWrites ==
  ASSUME TInv, NEW o \in Objects, DeleteObject(o) \/ TakeName(o) \/ RollOut(o)
  PROVE  /\ IsView(live)' /\ \A i \in Items \ {o} : live'[i] = live[i]
         /\ UNCHANGED <<ctl, cache, mine, queue, pc, listed, prog, errs, faults>>
         /\ stale' = stale \cup {o} /\ events' \in Nat /\ events' <= MaxEvents
         /\ IsObject(live'[o])
         /\ DeleteObject(o) => o \in Perturbed /\ live'[o] = Absent
         /\ TakeName(o) => o \in Foreign /\ live'[o].owner = "other"
         /\ RollOut(o) => /\ o \in Workloads /\ live[o].owner = "us" /\ live'[o].owner = "us"
                          /\ live'[o].content = live[o].content
                          /\ live'[o].rolled = live[o].content
<1>1. /\ UNCHANGED <<ctl, cache, mine, queue, pc, listed, prog, errs, faults>>
      /\ stale' = stale \cup {o}
  BY DEF DeleteObject, TakeName, RollOut, Other
<1>2. events \in Nat /\ events <= MaxEvents /\ MaxEvents \in Nat
  BY BoundsAssumption DEF TInv, TypeOK, Views
<1>3. events' \in Nat /\ events' <= MaxEvents
  BY <1>2 DEF DeleteObject, TakeName, RollOut, Other
<1>4. CASE DeleteObject(o)
  <2>1. live' = [live EXCEPT ![o] = Absent] /\ o \in Perturbed
    BY <1>4 DEF DeleteObject
  <2>2. IsView(live)' /\ live'[o] = Absent /\ \A i \in Items \ {o} : live'[i] = live[i]
    BY <1>1, <2>1, WriteView, ObjectValues
  <2>3. Absent.owner = "none"
    BY DEF Absent
  <2>4. ~TakeName(o) /\ ~RollOut(o)
    <3>1. live'[o].owner = "none"
      BY <2>2, <2>3
    <3>2. TakeName(o) => live'[o].owner = "other"
      <4> SUFFICES ASSUME TakeName(o) PROVE live'[o].owner = "other"
        OBVIOUS
      <4>1. live' = [live EXCEPT ![o] = [owner |-> "other", content |-> <<>>, rolled |-> <<>>]]
        BY DEF TakeName
      <4>2. live'[o] = [owner |-> "other", content |-> <<>>, rolled |-> <<>>]
        BY <1>1, <4>1, WriteView, ObjectValues
      <4> QED BY <4>2
    <3>3. RollOut(o) => live'[o].owner = "us"
      <4> SUFFICES ASSUME RollOut(o) PROVE live'[o].owner = "us"
        OBVIOUS
      <4>1. live' = [live EXCEPT ![o].rolled = live[o].content] /\ live[o].owner = "us"
        BY DEF RollOut, Exists
      <4>2. IsObject(live[o]) /\ o \in DOMAIN live
        BY ItemKinds DEF TInv, TypeOK, Views, IsView
      <4>3. live'[o] = [live[o] EXCEPT !.rolled = live[o].content]
        BY <4>1, <4>2
      <4> QED BY <4>1, <4>2, <4>3, ObjectValues
    <3> QED BY <3>1, <3>2, <3>3
  <2> QED BY <1>1, <1>3, <2>1, <2>2, <2>4, ObjectValues
<1>5. CASE ~DeleteObject(o) /\ TakeName(o)
  <2>1. /\ live' = [live EXCEPT ![o] = [owner |-> "other", content |-> <<>>, rolled |-> <<>>]]
        /\ o \in Foreign
    BY <1>5 DEF TakeName
  <2>2. /\ IsView(live)' /\ live'[o] = [owner |-> "other", content |-> <<>>, rolled |-> <<>>]
        /\ \A i \in Items \ {o} : live'[i] = live[i]
    BY <1>1, <2>1, WriteView, ObjectValues
  <2>3. ~RollOut(o)
    BY <1>5 DEF RollOut, Exists, TakeName
  <2> QED BY <1>1, <1>3, <1>5, <2>1, <2>2, <2>3, ObjectValues
<1>6. CASE ~DeleteObject(o) /\ ~TakeName(o) /\ RollOut(o)
  <2>1. /\ live' = [live EXCEPT ![o].rolled = live[o].content] /\ live[o].owner = "us"
        /\ o \in Workloads
    BY <1>6 DEF RollOut, Exists
  <2>2. IsObject(live[o])
    BY DEF TInv, Views, IsView
  <2> DEFINE x == [live[o] EXCEPT !.rolled = live[o].content]
  <2>3. IsObject(x) /\ x.owner = "us" /\ x.content = live[o].content /\ x.rolled = live[o].content
    BY <2>1, <2>2, ObjectValues
  <2>4. live' = [live EXCEPT ![o] = x]
    BY <2>1
  <2> HIDE DEF x
  <2>5. IsView(live)' /\ live'[o] = x /\ \A i \in Items \ {o} : live'[i] = live[i]
    BY <1>1, <2>3, <2>4, WriteView
  <2> QED BY <1>1, <1>3, <1>6, <2>1, <2>3, <2>5
<1> QED BY <1>4, <1>5, <1>6

LEMMA RootWrites ==
  ASSUME TInv, NEW r, ChangeRoot(r)
  PROVE  /\ r \in Ctl.roots \cap Perturbed
         /\ IsView(live)' /\ \A i \in Items \ {r} : live'[i] = live[i]
         /\ UNCHANGED <<ctl, cache, mine, queue, pc, listed, prog, errs, faults>>
         /\ stale' = stale \cup {r} /\ events' \in Nat /\ events' <= MaxEvents
<1>1. /\ UNCHANGED <<ctl, cache, mine, queue, pc, listed, prog, errs, faults>>
      /\ stale' = stale \cup {r} /\ r \in Ctl.roots \cap Perturbed
      /\ events < MaxEvents /\ events' = events + 1
  BY DEF ChangeRoot, Other
<1>2. events \in Nat /\ events <= MaxEvents /\ MaxEvents \in Nat /\ ctl \in Controllers /\ IsView(live)
  BY BoundsAssumption DEF TInv, TypeOK, Views
<1>3. PICK v \in {0, events + 2} : live' = [live EXCEPT ![r] = v]
  BY DEF ChangeRoot
<1>4. v \in 0 .. MaxEvents + 1
  BY <1>1, <1>2
<1>5. /\ DOMAIN live' = Items /\ live'[r] = v
      /\ \A i \in Items \ {r} : live'[i] = live[i]
  BY <1>1, <1>2, <1>3, ItemKinds DEF IsView
<1>6. Items' = Items /\ Objects' = Objects /\ Ctl' = Ctl
  BY <1>1 DEF Items, Objects, Ctl
<1>7. IsView(live)'
  BY <1>1, <1>2, <1>4, <1>5, <1>6, ItemKinds DEF IsView
<1> QED BY <1>1, <1>2, <1>5, <1>7

\* The views that stay, and those that the informers renew.
LEMMA KeptViews ==
  ASSUME TInv, ctl' = ctl
  PROVE  /\ live' = live => IsView(live)'
         /\ cache' = cache => IsView(cache)'
         /\ cache' = live /\ live' = live => IsView(cache)'
         /\ \A i \in Items : cache' = [cache EXCEPT ![i] = live[i]] =>
              /\ IsView(cache)' /\ cache'[i] = live[i]
              /\ \A j \in Items \ {i} : cache'[j] = cache[j]
<1>1. IsView(live) /\ IsView(cache) /\ ctl \in Controllers
  BY DEF TInv, TypeOK, Views
<1>2. Items' = Items /\ Objects' = Objects /\ Ctl' = Ctl
  BY DEF Items, Objects, Ctl
<1>3. live' = live => IsView(live)'
  BY <1>1, <1>2 DEF IsView
<1>4. cache' = cache => IsView(cache)'
  BY <1>1, <1>2 DEF IsView
<1>5. cache' = live /\ live' = live => IsView(cache)'
  BY <1>1, <1>2 DEF IsView
<1>6. ASSUME NEW i \in Items, cache' = [cache EXCEPT ![i] = live[i]]
      PROVE  /\ IsView(cache)' /\ cache'[i] = live[i]
             /\ \A j \in Items \ {i} : cache'[j] = cache[j]
  <2>1. /\ DOMAIN cache' = Items /\ cache'[i] = live[i]
        /\ \A j \in Items \ {i} : cache'[j] = cache[j]
    BY <1>1, <1>6 DEF IsView
  <2> QED BY <1>1, <1>2, <2>1, ItemKinds DEF IsView
<1> QED BY <1>3, <1>4, <1>5, <1>6

LEMMA ListedView ==
  ASSUME TInv, sync, pc' # Idle
  PROVE  /\ IsList(listed') /\ \A i \in Items \ Ctl.roots : listed'[i] = cache[i]
         /\ pc' = FirstStep /\ queue' = FALSE
         /\ \A i \in Ctl.requires : Exists(i, cache)
         /\ UNCHANGED <<prog, errs>>
<1>1. pc = Idle /\ IsView(cache) /\ ctl \in Controllers
  BY DEF sync, TInv, TypeOK, Views
<1>2. /\ listed' = [i \in Items \ Ctl.roots |-> cache[i]]
      /\ pc' = FirstStep /\ queue' = FALSE
      /\ \A i \in Ctl.requires : Exists(i, cache)
      /\ UNCHANGED <<prog, errs>>
  BY <1>1 DEF sync
<1>3. DOMAIN listed' = Items \ Ctl.roots /\ \A i \in Items \ Ctl.roots : listed'[i] = cache[i]
  BY <1>2
<1> QED BY <1>1, <1>2, <1>3, ItemKinds DEF IsView, IsList

LEMMA TypeNext == ASSUME TInv, [Next]_vars PROVE TInv'
<1>0. /\ ctl \in Controllers /\ stale \subseteq Items /\ mine \subseteq stale
      /\ \A i \in Items \ stale : cache[i] = live[i]
      /\ prog \subseteq DOMAIN Ctl.stages /\ errs \subseteq DOMAIN Ctl.stages /\ queue \in BOOLEAN
      /\ events \in Nat /\ events <= MaxEvents /\ faults \in Nat /\ faults <= MaxFaults
      /\ pc # Idle => IsList(listed)
      /\ pc = Idle => listed = <<>> /\ prog = {} /\ errs = {}
  BY DEF TInv, TypeOK, Views
<1>a. IsStep(pc) /\ IsStep(Idle) /\ IsStep(FirstStep) /\ IsStep(StatusStep)
  <2>1. IsStep(pc)
    BY Steps
  <2>2. Idle \in Nat \X Nat /\ StatusStep \in Nat \X Nat
    BY <1>0, Stages DEF Idle
  <2>3. IsStep(FirstStep)
    <3>1. CASE Len(Ctl.stages) = 0
      BY <2>2, <3>1 DEF IsStep, FirstStep, StatusStep
    <3>2. CASE Len(Ctl.stages) # 0
      <4>1. 1 \in DOMAIN Ctl.stages /\ FirstStep \in Nat \X Nat
        BY <1>0, <3>2, Stages DEF FirstStep
      <4>2. 0 \in 0 .. Len(Ctl.stages[1].objects)
        BY <1>0, <4>1, Stages
      <4> QED BY <4>1, <4>2 DEF IsStep, FirstStep
    <3> QED BY <3>1, <3>2
  <2> QED BY <2>1, <2>2, <2>3 DEF IsStep
\* The sync starts, or cannot.
<1>1. CASE sync
  <2>1. UNCHANGED <<ctl, live, cache, stale, mine, events, faults>> /\ queue' \in BOOLEAN
    BY <1>1 DEF sync, world
  <2>2. CASE pc' = Idle
    <3>1. UNCHANGED <<pc, listed, prog, errs>>
      BY <1>0, <1>1, <1>a, <2>2, Stages DEF sync
    <3> QED BY <1>0, <1>a, <2>1, <3>1, <2>2, KeptViews, TypeFrom
  <2>3. CASE pc' # Idle
    BY <1>0, <1>1, <1>a, <2>1, <2>3, KeptViews, ListedView, TypeFrom
  <2> QED BY <2>2, <2>3
<1>2. CASE StageWaits
  <2>1. /\ UNCHANGED <<ctl, live, cache, stale, mine, events, queue, listed, errs, faults>>
        /\ pc' = AfterStage /\ InStage
        /\ prog' = OverwriteProgress(pc[1], prog \cup {pc[1]})
    BY <1>2 DEF StageWaits, world
  <2>2. pc[1] \in DOMAIN Ctl.stages /\ IsStep(AfterStage) /\ AfterStage # Idle /\ pc # Idle
    BY <2>1, Steps
  <2>3. prog' \subseteq DOMAIN Ctl.stages
    <3>1. prog \cup {pc[1]} \in SUBSET DOMAIN Ctl.stages
      BY <1>0, <2>2
    <3> QED BY <2>1, <2>2, <3>1, Progress
  <2> QED BY <1>0, <2>1, <2>2, <2>3, KeptViews, TypeFrom
<1>3. CASE Prune
  <2>1. /\ InStage /\ UNCHANGED <<ctl, cache, events>>
        /\ faults' \in Nat /\ faults' <= MaxFaults
        /\ Panics \/ \E done : Prunes(done, TRUE) \/ Prunes(done, FALSE)
    BY <1>3, PruneOutcome
  <2>2. CASE Panics
    BY <1>0, <1>a, <2>1, <2>2, KeptViews, TypeFrom DEF Panics, Return
  <2>3. ASSUME NEW done, NEW all \in BOOLEAN, Prunes(done, all) PROVE TInv'
    <3>1. /\ IsView(live)' /\ done \subseteq Objects /\ Objects \subseteq Items
          /\ \A i \in Items : live'[i] = IF i \in done THEN Absent ELSE live[i]
      BY <1>0, <2>1, <2>3, PrunedView, ItemKinds
    <3>2. /\ stale' = stale \cup done /\ mine' = mine \cup done
          /\ UNCHANGED <<queue, listed>> /\ prog' \subseteq DOMAIN Ctl.stages
          /\ errs' = errs \/ errs' = errs \cup {pc[1]}
          /\ pc' = NextStep \/ pc' = AfterStage
      BY <2>3 DEF Prunes
    <3>3. /\ pc[1] \in DOMAIN Ctl.stages /\ pc # Idle /\ IsStep(AfterStage) /\ AfterStage # Idle
          /\ IsStep(NextStep) /\ NextStep # Idle
      BY <2>1, Steps
    <3>4. /\ stale' \subseteq Items /\ mine' \subseteq stale'
          /\ \A i \in Items \ stale' : cache'[i] = live'[i]
      BY <1>0, <2>1, <3>1, <3>2
    <3>5. errs' \subseteq DOMAIN Ctl.stages
      BY <1>0, <3>2, <3>3
    <3> QED BY <1>0, <2>1, <3>1, <3>2, <3>3, <3>4, <3>5, KeptViews, TypeFrom
  <2> QED BY <2>1, <2>2, <2>3
<1>4. CASE ApplyGenericWithHandlers
  <2>1. PICK o \in Applicable :
          \/ NotRequired(o) \/ ApplyCreate(o) \/ ApplyNotOurs(o) \/ ApplyEqual(o)
          \/ ApplyUpdate(o) \/ ApplyRecreate(o) \/ ApplyFails(o)
    BY <1>4 DEF ApplyGenericWithHandlers
  <2>2. PICK kind \in Kinds : Outcome(o, kind) /\ Passes(o, kind)
    BY <2>1, ApplyOutcome
  <2>3. /\ InStage /\ o \in Objects /\ o \in Items /\ pc[1] \in DOMAIN Ctl.stages
        /\ IsStep(NextStep) /\ NextStep # Idle /\ pc # Idle
    BY <1>0, <2>1, AppliedObject, Steps, ItemKinds
  <2>4. /\ pc' = NextStep /\ UNCHANGED <<ctl, cache, queue, listed, events>>
        /\ faults' \in Nat /\ faults' <= MaxFaults /\ prog' \subseteq DOMAIN Ctl.stages
    BY <2>2 DEF Passes
  <2>5. errs' = errs \/ errs' = errs \cup {pc[1]}
    BY <2>2 DEF Outcome
  <2>6. UNCHANGED <<live, stale, mine>> \/ \E x : IsObject(x) /\ Store(o, x)
    BY <2>2, ObjectValues DEF Outcome
  <2>7. CASE UNCHANGED <<live, stale, mine>>
    BY <1>0, <2>3, <2>4, <2>5, <2>7, KeptViews, TypeFrom
  <2>8. ASSUME NEW x, IsObject(x), Store(o, x) PROVE TInv'
    <3>1. IsView(live)' /\ \A i \in Items \ {o} : live'[i] = live[i]
      BY <2>3, <2>4, <2>8, WriteView DEF Store
    <3>2. stale' = stale \cup {o} /\ mine' = mine \cup {o}
      BY <2>8 DEF Store
    <3>3. /\ stale' \subseteq Items /\ mine' \subseteq stale'
          /\ \A i \in Items \ stale' : cache'[i] = live'[i]
      BY <1>0, <2>3, <2>4, <3>1, <3>2
    <3> QED BY <1>0, <2>3, <2>4, <2>5, <3>1, <3>2, <3>3, KeptViews, TypeFrom
  <2> QED BY <2>6, <2>7, <2>8
<1>5. CASE updateStatus
  <2>1. /\ pc = StatusStep /\ UNCHANGED <<ctl, cache, events>>
        /\ pc' = Idle /\ listed' = <<>> /\ prog' = {} /\ errs' = {}
        /\ faults' \in Nat /\ faults' <= MaxFaults /\ queue' \in BOOLEAN
        /\ UNCHANGED <<live, stale, mine>> \/ StatusWritten
    BY <1>0, <1>5, StatusOutcome
  <2>2. CASE UNCHANGED <<live, stale, mine>>
    BY <1>0, <1>a, <2>1, <2>2, KeptViews, TypeFrom
  <2>3. CASE StatusWritten
    <3>1. IsView(live)' /\ "spec" \in Items /\ \A i \in Items \ {"spec"} : live'[i] = live[i]
      BY <2>1, <2>3, StatusView
    <3>2. stale' = stale \cup {"spec"} /\ mine' = mine \cup {"spec"}
      BY <2>3 DEF StatusWritten
    <3>3. /\ stale' \subseteq Items /\ mine' \subseteq stale'
          /\ \A i \in Items \ stale' : cache'[i] = live'[i]
      BY <1>0, <2>1, <3>1, <3>2
    <3> QED BY <1>0, <1>a, <2>1, <3>1, <3>2, <3>3, KeptViews, TypeFrom
  <2> QED BY <2>1, <2>2, <2>3
<1>6. CASE Restart
  <2>1. MaxFaults \in Nat
    BY BoundsAssumption
  <2> QED BY <1>0, <1>6, <1>a, <2>1, KeptViews, TypeFrom DEF Restart
\* The informers and the others.
<1>7. ASSUME NEW i \in stale, Deliver(i) PROVE TInv'
  <2>1. /\ UNCHANGED <<ctl, live, pc, listed, prog, errs, events, faults>>
        /\ cache' = [cache EXCEPT ![i] = live[i]] /\ stale' = stale \ {i} /\ mine' = mine \ {i}
        /\ queue' \in BOOLEAN
    BY <1>7 DEF Deliver
  <2>2. /\ IsView(cache)' /\ cache'[i] = live[i]
        /\ \A j \in Items \ {i} : cache'[j] = cache[j]
    BY <1>0, <2>1, KeptViews
  <2>3. \A j \in Items \ stale' : cache'[j] = live'[j]
    BY <1>0, <2>1, <2>2
  <2>4. stale' \subseteq Items /\ mine' \subseteq stale'
    BY <1>0, <2>1
  <2>5. pc' # Idle => IsList(listed')
    BY <1>0, <2>1
  <2> QED BY <1>0, <1>a, <2>1, <2>2, <2>3, <2>4, <2>5, KeptViews, TypeFrom
<1>8. CASE EditSpec
  <2>1. IsView(live)' /\ \A i \in Items \ {"spec"} : live'[i] = live[i]
    BY <1>8, EditView
  <2>2. /\ UNCHANGED <<ctl, cache, mine, queue, pc, listed, prog, errs, faults>>
        /\ stale' = stale \cup {"spec"} /\ events < MaxEvents /\ events' = events + 1
    BY <1>8 DEF EditSpec, Other
  <2>3. events' \in Nat /\ events' <= MaxEvents
    BY <1>0, <2>2, BoundsAssumption
  <2>4. stale' \subseteq Items /\ mine' \subseteq stale' /\ \A i \in Items \ stale' : cache'[i] = live'[i]
    BY <1>0, <2>1, <2>2, ItemKinds
  <2> QED BY <1>0, <1>a, <2>1, <2>2, <2>3, <2>4, KeptViews, TypeFrom
<1>9. ASSUME NEW i \in Items, ChangeRoot(i) \/ DeleteObject(i) \/ TakeName(i) \/ RollOut(i) PROVE TInv'
  <2>1. /\ IsView(live)' /\ \A j \in Items \ {i} : live'[j] = live[j]
        /\ UNCHANGED <<ctl, cache, mine, queue, pc, listed, prog, errs, faults>>
        /\ stale' = stale \cup {i} /\ events' \in Nat /\ events' <= MaxEvents
    <3>1. CASE ChangeRoot(i)
      BY <3>1, RootWrites
    <3>2. CASE DeleteObject(i) \/ TakeName(i) \/ RollOut(i)
      <4>1. i \in Objects
        <5>1. RollOut(i) => i \in Objects
          BY <1>0, WorkloadsAreObjects DEF RollOut
        <5> QED BY <3>2, <5>1 DEF DeleteObject, TakeName
      <4> QED BY <3>2, <4>1, OtherWrites
    <3> QED BY <1>9, <3>1, <3>2
  <2>2. stale' \subseteq Items /\ mine' \subseteq stale' /\ \A j \in Items \ stale' : cache'[j] = live'[j]
    BY <1>0, <2>1
  <2> QED BY <1>0, <1>a, <2>1, <2>2, KeptViews, TypeFrom
<1>10. CASE UNCHANGED vars
  BY <1>0, <1>10, <1>a, KeptViews, TypeFrom DEF vars
<1>11. \A o \in Workloads : o \in Items
  BY <1>0, WorkloadsAreObjects, ItemKinds
<1> QED BY <1>1, <1>2, <1>3, <1>4, <1>5, <1>6, <1>7, <1>8, <1>9, <1>10, <1>11 DEF Next, Controller, Others

LEMMA SpecTInv == Spec => []TInv
<1>1. Init => TInv
  BY TypeInit
<1>2. TInv /\ [Next]_vars => TInv'
  BY TypeNext
<1> QED BY <1>1, <1>2, PTL DEF Spec

\* Every variable keeps its type, a sync stays at a step that there is, and the cache
\* shows every item as the API server has it unless an event is on its way.
THEOREM TypeCorrect == Spec => []TypeOK
<1>1. TInv => TypeOK
  BY DEF TInv
<1> QED BY <1>1, SpecTInv, PTL

-----------------------------------------------------------------------------
(* Objects of another owner.                                                 *)

\* A name that another owner may take is not one of an object that Apply deletes by
\* name and creates anew.
NothingForeignIsRecreated ==
  \A c \in Controllers : \A o \in DOMAIN Description[c].objects :
    Description[c].objects[o].recreated => o \notin Foreign

\* Others only take the names that they may take.
ForeignNames == \A o \in Objects : live[o].owner = "other" => o \in Foreign

LEMMA ForeignInit == ASSUME Init PROVE ForeignNames
<1> SUFFICES ASSUME NEW o \in Objects PROVE live[o].owner # "other"
  BY DEF ForeignNames
<1>1. ctl \in Controllers
  BY DEF Init
<1>2. Absent.owner = "none"
  BY DEF Absent
<1>3. Nothing[o].owner # "other"
  BY <1>1, <1>2, NothingView
<1>4. RenderAll(Nothing)[o].owner # "other"
  <2>1. \/ RenderAll(Nothing)[o] = [owner |-> "us", content |-> Render(o, Nothing), rolled |-> Render(o, Nothing)]
        \/ RenderAll(Nothing)[o] = Absent
    BY <1>1, InstalledView
  <2> QED BY <1>2, <2>1
<1>5. Installed[o].owner # "other"
  <2> DEFINE view == RenderAll(Nothing)
  <2>1. \/ Installed[o] = [owner |-> "us", content |-> Render(o, view), rolled |-> Render(o, view)]
        \/ Installed[o] = view[o]
    BY <1>1, InstalledView
  <2> QED BY <1>4, <2>1
<1> QED BY <1>3, <1>5 DEF Init

LEMMA ControllerSame == ASSUME Next PROVE ctl' = ctl
  BY DEF Next, Controller, Others, sync, world, StageWaits, Prune, ApplyGenericWithHandlers,
     NotRequired, ApplyCreate, ApplyNotOurs, ApplyEqual, ApplyUpdate, ApplyRecreate, ApplyFails,
     Applied, updateStatus, Restart, Deliver, EditSpec, ChangeRoot, DeleteObject, TakeName, RollOut, Other

\* A step of the controller keeps what another owner controls, and takes no name for it.
LEMMA ControllerKeeps ==
  ASSUME NothingForeignIsRecreated, TInv, ForeignNames, Controller
  PROVE  /\ \A o \in Objects : live[o].owner = "other" => live'[o] = live[o]
         /\ \A o \in Objects : live'[o].owner = "other" => live[o].owner = "other"
<1> DEFINE Keeps == /\ \A o \in Objects : live[o].owner = "other" => live'[o] = live[o]
                    /\ \A o \in Objects : live'[o].owner = "other" => live[o].owner = "other"
<1>0. /\ ctl \in Controllers /\ ctl' = ctl /\ Objects \subseteq Items /\ "spec" \notin Objects
  BY ControllerSame, ItemKinds DEF TInv, TypeOK, Next
<1>1. CASE UNCHANGED live
  BY <1>1
<1>2. CASE sync \/ StageWaits
  BY <1>1, <1>2 DEF sync, StageWaits, world
<1>3. CASE Prune
  <2>1. InStage /\ (Panics \/ \E done : Prunes(done, TRUE) \/ Prunes(done, FALSE))
    BY <1>3, PruneOutcome
  <2>2. CASE Panics
    BY <1>1, <2>2 DEF Panics
  <2>3. ASSUME NEW done, NEW all \in BOOLEAN, Prunes(done, all) PROVE Keeps
    <3>1. \A i \in Items : live'[i] = IF i \in done THEN Absent ELSE live[i]
      BY <1>0, <2>1, <2>3, PrunedView
    <3>2. Absent.owner = "none" /\ \A o \in done : live[o].owner = "us"
      BY <2>3 DEF Absent, Prunes
    <3> QED BY <1>0, <3>1, <3>2
  <2> QED BY <2>1, <2>2, <2>3
<1>4. CASE ApplyGenericWithHandlers
  <2>1. PICK o \in Applicable :
          \/ NotRequired(o) \/ ApplyCreate(o) \/ ApplyNotOurs(o) \/ ApplyEqual(o)
          \/ ApplyUpdate(o) \/ ApplyRecreate(o) \/ ApplyFails(o)
    BY <1>4 DEF ApplyGenericWithHandlers
  <2>2. PICK kind \in Kinds : Outcome(o, kind)
    BY <2>1, ApplyOutcome
  <2>3. o \in Objects
    BY <2>1, AppliedObject
  <2>4. live[o].owner = "other" => ~Ctl.objects[o].recreated
    BY <1>0, <2>3 DEF NothingForeignIsRecreated, ForeignNames, Objects, Ctl
  <2>5. UNCHANGED live
        \/ \E x : IsObject(x) /\ Store(o, x) /\ live[o].owner # "other" /\ x.owner # "other"
    BY <2>2, <2>4, ObjectValues DEF Outcome, Absent
  <2>6. ASSUME NEW x, IsObject(x), Store(o, x), live[o].owner # "other", x.owner # "other"
        PROVE  Keeps
    <3>1. live'[o] = x /\ \A i \in Items \ {o} : live'[i] = live[i]
      BY <1>0, <2>3, <2>6, StoreView
    <3> QED BY <1>0, <2>6, <3>1
  <2> QED BY <1>1, <2>5, <2>6
<1>5. CASE updateStatus
  <2>1. pc = StatusStep /\ (UNCHANGED live \/ StatusWritten)
    BY <1>5, StatusOutcome
  <2>2. CASE StatusWritten
    <3>1. \A i \in Items \ {"spec"} : live'[i] = live[i]
      BY <1>0, <2>1, <2>2, StatusView
    <3> QED BY <1>0, <3>1
  <2> QED BY <1>1, <2>1, <2>2
<1> QED BY <1>2, <1>3, <1>4, <1>5 DEF Controller

LEMMA ForeignStep ==
  ASSUME NothingForeignIsRecreated, TInv, ForeignNames, [Next]_vars
  PROVE  ForeignNames'
<1>0. /\ ctl \in Controllers /\ ctl' = ctl /\ Objects \subseteq Items /\ "spec" \notin Objects
      /\ Ctl.roots \cap Objects = {} /\ Workloads \subseteq Objects
  BY ControllerSame, ItemKinds, WorkloadsAreObjects DEF TInv, TypeOK, vars
<1>1. Objects' = Objects
  BY <1>0 DEF Objects, Ctl
<1>2. ASSUME \A o \in Objects : live'[o].owner = "other" => live[o].owner = "other" PROVE ForeignNames'
  BY <1>1, <1>2 DEF ForeignNames
<1>3. CASE Controller
  BY <1>2, <1>3, ControllerKeeps
<1>4. CASE Restart \/ (\E i \in stale : Deliver(i)) \/ UNCHANGED vars
  BY <1>2, <1>4 DEF Restart, Deliver, vars
<1>5. CASE EditSpec
  <2>1. \A i \in Items \ {"spec"} : live'[i] = live[i]
    BY <1>5, EditView
  <2> QED BY <1>0, <1>2, <2>1
<1>6. ASSUME NEW i, ChangeRoot(i) PROVE ForeignNames'
  <2>1. i \in Ctl.roots /\ \A j \in Items \ {i} : live'[j] = live[j]
    BY <1>6, RootWrites
  <2> QED BY <1>0, <1>2, <2>1
<1>7. ASSUME NEW i \in Objects, DeleteObject(i) \/ TakeName(i) \/ RollOut(i) PROVE ForeignNames'
  <2>1. /\ \A j \in Items \ {i} : live'[j] = live[j]
        /\ DeleteObject(i) => live'[i] = Absent
        /\ TakeName(i) => i \in Foreign
        /\ RollOut(i) => live'[i].owner = "us"
    BY <1>7, OtherWrites
  <2>2. live'[i].owner = "other" => i \in Foreign
    BY <1>7, <2>1 DEF Absent
  <2> QED BY <1>0, <1>1, <2>1, <2>2 DEF ForeignNames
<1>8. ASSUME NEW i, DeleteObject(i) \/ TakeName(i) PROVE i \in Objects
  BY <1>8 DEF DeleteObject, TakeName
<1> QED BY <1>0, <1>3, <1>4, <1>5, <1>6, <1>7, <1>8 DEF Next, Others

\* However old its cache is, the controller neither writes nor deletes an object that
\* another owner controls, unless it is one that Apply deletes by name to create it
\* anew: a create fails on a name that is taken, an update carries the resource version
\* that was read and a delete the UID that was listed.
THEOREM ForeignObjectsUntouched ==
  ASSUME NothingForeignIsRecreated
  PROVE  Spec => ForeignUntouched
<1>1. Init => TInv /\ ForeignNames
  BY TypeInit, ForeignInit
<1>2. TInv /\ ForeignNames /\ [Next]_vars => (TInv /\ ForeignNames)'
  BY TypeNext, ForeignStep
<1>3. TInv /\ ForeignNames /\ [Next]_vars =>
        [Controller => \A o \in Objects : live[o].owner = "other" => live'[o] = live[o]]_vars
  BY ControllerKeeps
<1> QED BY <1>1, <1>2, <1>3, PTL DEF Spec, ForeignUntouched

-----------------------------------------------------------------------------
(* The status.                                                               *)

\* The stages that report on the workload that they apply, and that workload.
Reporting == {s \in DOMAIN Ctl.stages : Ctl.stages[s].workload.mode \in {"wait", "report"}}
WorkloadOf(s) == Ctl.stages[s].workload.object

\* No edit of the spec makes such a workload superfluous, and its template depends on
\* the spec.
WorkloadsRequired ==
  \A c \in Controllers : \A s \in DOMAIN Description[c].stages :
    LET w == Description[c].stages[s].workload
        d == Description[c].objects[w.object]
    IN w.mode \in {"wait", "report"} =>
         d.option \notin Options /\ d.while = {} /\ "spec" \in d.reads

\* The generation that the controller knows: the one its sync has listed.
Known == IF pc = Idle THEN cache["spec"].gen ELSE listed["spec"].gen

\* Generations come to the controller in their order, and its status is never ahead of
\* them.
Generations ==
  /\ Known <= cache["spec"].gen /\ cache["spec"].gen <= live["spec"].gen
  /\ live["spec"].status.gen <= Known

\* What no edit switches off stays on.
SwitchedOn(v) == OwnOptions \ Options \subseteq v["spec"].on
Switches == SwitchedOn(live) /\ SwitchedOn(cache) /\ (pc # Idle => SwitchedOn(listed))

\* Templates are of generations that the controller knows, and the cache shows none
\* that is newer than the API server's.
Generation(w, v) == v[w].content["spec"]
Templates ==
  \A s \in Reporting :
    LET w == WorkloadOf(s) IN
    /\ live[w].owner = "us" => Generation(w, live) \in 0 .. Known
    /\ cache[w].owner = "us" => Generation(w, cache) \in 0 .. Known
    /\ live[w].owner = "us" /\ cache[w].owner = "us" => Generation(w, cache) <= Generation(w, live)

\* The steps that a sync at step p is past.
Past(p, s, k) == s < p[1] \/ (s = p[1] /\ k < p[2])

\* A workload that the sync has applied, with neither progress nor an error to report,
\* has the template of the generation that was listed.
AppliedIsCurrent ==
  pc # Idle =>
    \A s \in Reporting \ (prog \cup errs) : \A k \in DOMAIN Ctl.stages[s].objects :
      LET w == WorkloadOf(s) IN
      Ctl.stages[s].objects[k] = w /\ Past(pc, s, k) /\ live[w].owner = "us"
        => Generation(w, live) = listed["spec"].gen

SInv == Generations /\ Switches /\ Templates /\ AppliedIsCurrent /\ StatusTruthful

\* Such a workload is required by every spec.
LEMMA ReportingFacts ==
  ASSUME WorkloadsRequired, ctl \in Controllers, NEW s \in Reporting
  PROVE  LET w == WorkloadOf(s) IN
         /\ s \in DOMAIN Ctl.stages /\ w \in Objects /\ w \in Items \ {"spec"} /\ w \notin Ctl.roots
         /\ Ctl.stages[s].workload.mode \in {"wait", "report"}
         /\ "spec" \in Ctl.objects[w].reads
         /\ \A v : SwitchedOn(v) => Required(w, v)
         /\ \A v : Render(w, v)["spec"] = v["spec"].gen
<1> DEFINE w == WorkloadOf(s)
<1>1. s \in DOMAIN Ctl.stages /\ Ctl.stages[s].workload.mode \in {"wait", "report"}
  BY DEF Reporting
<1>2. w \in Objects
  <2>1. Ctl.stages[s].workload # NoWorkload
    BY <1>1 DEF NoWorkload, Workload
  <2>2. w \in ToSet(Ctl.stages[s].objects) /\ ToSet(Ctl.stages[s].objects) \subseteq Objects
    BY <1>1, <2>1, Stages DEF WorkloadOf
  <2> QED BY <2>2
<1>3. /\ Ctl.objects[w].option \notin Options /\ Ctl.objects[w].while = {}
      /\ "spec" \in Ctl.objects[w].reads
  BY <1>1 DEF WorkloadsRequired, Ctl, WorkloadOf
<1>4. ASSUME NEW v, SwitchedOn(v) PROVE Required(w, v)
  <2>1. Ctl.objects[w].option \in OwnOptions \cup {"always"}
    BY <1>2 DEF OwnOptions
  <2> QED BY <1>3, <1>4, <2>1 DEF Required, SwitchedOn
<1>5. \A v : Render(w, v)["spec"] = v["spec"].gen
  BY <1>3 DEF Render, Look
<1> QED BY <1>1, <1>2, <1>3, <1>4, <1>5, ItemKinds

\* The numbers.
LEMMA GenTypes ==
  ASSUME TInv
  PROVE  /\ live["spec"].gen \in Nat /\ cache["spec"].gen \in Nat /\ live["spec"].status.gen \in Nat
         /\ Known \in Nat /\ (pc # Idle => Known = listed["spec"].gen /\ listed["spec"].gen \in Nat)
         /\ (pc = Idle => Known = cache["spec"].gen)
  BY DEF TInv, Views, IsView, IsList, IsSpec, Known

LEMMA StatusInit == ASSUME WorkloadsRequired, Init PROVE SInv
<1>1. /\ TInv /\ ctl \in Controllers /\ pc = Idle /\ cache = live
      /\ live = Nothing \/ live = Installed
  BY TypeInit DEF Init
<1>2. /\ live["spec"].gen = 1 /\ live["spec"].on = OwnOptions
      /\ live["spec"].status \in {NoStatus, [gen |-> 1, prog |-> FALSE, deg |-> FALSE]}
  BY <1>1, NothingView, InstalledView
<1>3. Known = 1 /\ Generations /\ Switches
  BY <1>1, <1>2 DEF Known, Generations, Switches, SwitchedOn, NoStatus
<1>4. ASSUME NEW s \in Reporting, live[WorkloadOf(s)].owner = "us"
      PROVE  Generation(WorkloadOf(s), live) = 1 /\ live = Installed
  <2> DEFINE w == WorkloadOf(s)
             view == RenderAll(Nothing)
  <2>1. w \in Objects /\ \A v : SwitchedOn(v) => Required(w, v)
    BY <1>1, <1>4, ReportingFacts
  <2>2. live = Installed
    <3>1. Nothing[w].owner = "none"
      BY <1>1, <2>1, NothingView DEF Absent
    <3> QED BY <1>1, <1>4, <3>1
  <2>3. view["spec"] = [gen |-> 1, on |-> OwnOptions, status |-> NoStatus]
    BY <1>1, InstalledView
  <2>4. Required(w, view)
    BY <2>1, <2>3 DEF SwitchedOn
  <2>5. Installed[w] = [owner |-> "us", content |-> Render(w, view), rolled |-> Render(w, view)]
    BY <1>1, <2>1, <2>4, InstalledView
  <2>6. Render(w, view)["spec"] = 1
    BY <1>1, <1>4, <2>3, ReportingFacts
  <2> QED BY <2>2, <2>5, <2>6 DEF Generation
<1>5. Templates
  BY <1>1, <1>3, <1>4 DEF Templates
<1>6. AppliedIsCurrent
  BY <1>1 DEF AppliedIsCurrent
<1>7. StatusTruthful
  <2> SUFFICES ASSUME NEW s \in DOMAIN Ctl.stages,
                      Ctl.stages[s].workload.mode \in {"wait", "report"},
                      live["spec"].status.gen = live["spec"].gen,
                      Exists(Ctl.stages[s].workload.object, live)
               PROVE  live[Ctl.stages[s].workload.object].content["spec"] = live["spec"].status.gen
    BY DEF StatusTruthful, Truthful
  <2>1. s \in Reporting /\ WorkloadOf(s) = Ctl.stages[s].workload.object
    BY DEF Reporting, WorkloadOf
  <2>2. WorkloadOf(s) \in Objects
    BY <1>1, <2>1, ReportingFacts
  <2> QED BY <1>2, <1>4, <2>1, <2>2 DEF Exists, Generation
<1> QED BY <1>3, <1>5, <1>6, <1>7 DEF SInv

\* What a step may do to the template of a workload, in the API server and in the cache.
TemplatesMove ==
  \A s \in Reporting :
    LET w == WorkloadOf(s) IN
    /\ live'[w].owner = "us" =>
         \/ live[w].owner = "us" /\ live'[w].content = live[w].content
         \/ pc # Idle /\ pc' # Idle /\ listed' = listed /\ Generation(w, live)' = listed["spec"].gen
    /\ \/ cache'[w] = cache[w]
       \/ cache'[w] = live[w] /\ live'[w] = live[w]

\* What it may do to the generations.
GenerationsMove ==
  /\ Known <= Known' /\ Known' <= cache'["spec"].gen /\ cache'["spec"].gen <= live'["spec"].gen
  /\ live["spec"].gen <= live'["spec"].gen
  /\ \/ live'["spec"].status = live["spec"].status
     \/ StatusTruthful' /\ live'["spec"].status.gen <= Known'

LEMMA StatusFrom ==
  ASSUME WorkloadsRequired, TInv, TInv', SInv, ctl' = ctl,
         TemplatesMove, GenerationsMove, Switches', AppliedIsCurrent'
  PROVE  SInv'
<1>1. /\ ctl \in Controllers /\ Reporting' = Reporting /\ \A s : WorkloadOf(s)' = WorkloadOf(s)
      /\ Objects' = Objects /\ Ctl' = Ctl
  BY DEF TInv, TypeOK, Reporting, WorkloadOf, Ctl, Objects
<1>2. /\ live["spec"].gen \in Nat /\ cache["spec"].gen \in Nat /\ live["spec"].status.gen \in Nat /\ Known \in Nat
      /\ live'["spec"].gen \in Nat /\ cache'["spec"].gen \in Nat /\ live'["spec"].status.gen \in Nat /\ Known' \in Nat
      /\ pc # Idle => Known = listed["spec"].gen
      /\ pc' # Idle => Known' = listed'["spec"].gen
  <2>1. /\ live["spec"].gen \in Nat /\ cache["spec"].gen \in Nat /\ live["spec"].status.gen \in Nat
        /\ Known \in Nat /\ (pc # Idle => Known = listed["spec"].gen)
    BY GenTypes
  <2>2. /\ live'["spec"].gen \in Nat /\ cache'["spec"].gen \in Nat /\ live'["spec"].status.gen \in Nat
        /\ Known' \in Nat /\ (pc' # Idle => Known' = listed'["spec"].gen)
    <3>1. (IsView(live) /\ IsView(cache) /\ (pc # Idle => IsList(listed)))'
      BY DEF TInv, Views
    <3>2. /\ live'["spec"].gen \in Nat /\ cache'["spec"].gen \in Nat /\ live'["spec"].status.gen \in Nat
          /\ pc' # Idle => listed'["spec"].gen \in Nat
      BY <3>1 DEF IsView, IsList, IsSpec
    <3> QED BY <3>2 DEF Known
  <2> QED BY <2>1, <2>2
<1>3. Generations'
  BY <1>2 DEF GenerationsMove, Generations, SInv
<1>4. ASSUME NEW s \in Reporting
      PROVE  LET w == WorkloadOf(s) IN
             /\ live'[w].owner = "us" => Generation(w, live)' \in 0 .. Known'
             /\ cache'[w].owner = "us" => Generation(w, cache)' \in 0 .. Known'
             /\ live'[w].owner = "us" /\ cache'[w].owner = "us" => Generation(w, cache)' <= Generation(w, live)'
             /\ live'[w].owner = "us" =>
                  \/ Generation(w, live)' = Known'
                  \/ live[w].owner = "us" /\ Generation(w, live)' = Generation(w, live)
  <2> DEFINE w == WorkloadOf(s)
  <2>1. /\ live[w].owner = "us" => Generation(w, live) \in 0 .. Known
        /\ cache[w].owner = "us" => Generation(w, cache) \in 0 .. Known
        /\ live[w].owner = "us" /\ cache[w].owner = "us" => Generation(w, cache) <= Generation(w, live)
    BY DEF SInv, Templates
  <2>2. live'[w].owner = "us" =>
          \/ live[w].owner = "us" /\ Generation(w, live)' = Generation(w, live)
          \/ Generation(w, live)' = Known' /\ Known' = Known
    <3>1. live'[w].owner = "us" =>
           \/ live[w].owner = "us" /\ live'[w].content = live[w].content
           \/ pc # Idle /\ pc' # Idle /\ listed' = listed /\ Generation(w, live)' = listed["spec"].gen
      BY DEF TemplatesMove
    <3> QED BY <1>1, <1>2, <3>1 DEF Generation
  <2>3. \/ cache'[w].owner = cache[w].owner /\ Generation(w, cache)' = Generation(w, cache)
        \/ /\ cache'[w].owner = live[w].owner /\ Generation(w, cache)' = Generation(w, live)
           /\ Generation(w, live)' = Generation(w, live) /\ live'[w].owner = live[w].owner
    BY <1>1 DEF TemplatesMove, Generation
  <2>4. Known \in Nat /\ Known' \in Nat /\ Known <= Known'
    BY <1>2 DEF GenerationsMove
  <2> HIDE DEF w
  <2>5. live'[w].owner = "us" => Generation(w, live)' \in 0 .. Known'
    BY <2>1, <2>2, <2>4
  <2>6. cache'[w].owner = "us" => Generation(w, cache)' \in 0 .. Known'
    BY <2>1, <2>3, <2>4
  <2>7. live'[w].owner = "us" /\ cache'[w].owner = "us" => Generation(w, cache)' <= Generation(w, live)'
    BY <2>1, <2>2, <2>3, <2>4
  <2> QED BY <2>2, <2>5, <2>6, <2>7 DEF w
<1>5. Templates'
  BY <1>1, <1>4 DEF Templates
<1>6. StatusTruthful'
  <2>1. CASE live'["spec"].status # live["spec"].status
    BY <2>1 DEF GenerationsMove
  <2>2. CASE live'["spec"].status = live["spec"].status
    <3> SUFFICES ASSUME NEW s \in DOMAIN Ctl.stages,
                        Ctl.stages[s].workload.mode \in {"wait", "report"},
                        Settled(live["spec"].status),
                        live["spec"].status.gen = live'["spec"].gen,
                        Exists(Ctl.stages[s].workload.object, live)'
                 PROVE  live'[Ctl.stages[s].workload.object].content["spec"] = live["spec"].status.gen
      BY <1>1, <2>2 DEF StatusTruthful, Truthful, Settled
    <3> DEFINE w == WorkloadOf(s)
    <3>1. s \in Reporting /\ w = Ctl.stages[s].workload.object
      BY DEF Reporting, WorkloadOf
    <3>2. w \in Objects
      BY <1>1, <3>1, ReportingFacts
    <3>3. live'[w].owner = "us"
      BY <1>1, <3>1, <3>2 DEF Exists
    <3>4. live["spec"].status.gen = live["spec"].gen /\ Known = live["spec"].gen /\ Known' = Known
      BY <1>2 DEF SInv, Generations, GenerationsMove
    <3> HIDE DEF w
    <3>0. Generation(w, live)' = live'[w'].content["spec"] /\ w' = w
      BY <1>1 DEF Generation, w
    <3>5. CASE Generation(w, live)' = Known'
      BY <3>0, <3>1, <3>4, <3>5
    <3>6. CASE live[w].owner = "us" /\ Generation(w, live)' = Generation(w, live)
      <4>1. Exists(w, live)
        BY <3>2, <3>6 DEF Exists
      <4>2. live[w].content["spec"] = live["spec"].status.gen
        BY <3>1, <3>4, <4>1 DEF SInv, StatusTruthful, Truthful
      <4>3. Generation(w, live) = live[w].content["spec"]
        BY DEF Generation
      <4> QED BY <3>0, <3>1, <3>6, <4>2, <4>3
    <3> QED BY <1>4, <3>1, <3>3, <3>5, <3>6 DEF w
  <2> QED BY <2>1, <2>2
<1> QED BY <1>3, <1>5, <1>6 DEF SInv

\* The steps that leave the sync where it is.
LEMMA SyncStays ==
  ASSUME SInv, ctl' = ctl, UNCHANGED <<pc, listed, prog, errs>>,
         \A s \in Reporting : LET w == WorkloadOf(s) IN
           live'[w].owner = "us" => live[w].owner = "us" /\ live'[w].content = live[w].content
  PROVE  AppliedIsCurrent'
<1>1. Reporting' = Reporting /\ (\A s : WorkloadOf(s)' = WorkloadOf(s)) /\ Ctl' = Ctl
  BY DEF Reporting, WorkloadOf, Ctl
<1> QED BY <1>1 DEF SInv, AppliedIsCurrent, Generation

\* The steps that leave the sync at an earlier position than any object it is yet to
\* apply, or that find it applied.
LEMMA SyncMoves ==
  ASSUME SInv, ctl' = ctl, listed' = listed, pc # Idle,
         \A s \in Reporting \ (prog' \cup errs') : s \notin prog \cup errs,
         \A s \in Reporting : LET w == WorkloadOf(s) IN
           live'[w].owner = "us" =>
             \/ live[w].owner = "us" /\ live'[w].content = live[w].content
             \/ Generation(w, live)' = listed["spec"].gen,
         \A s \in Reporting \ (prog' \cup errs') : \A k \in DOMAIN Ctl.stages[s].objects :
           LET w == WorkloadOf(s) IN
           Ctl.stages[s].objects[k] = w /\ Past(pc', s, k) /\ live'[w].owner = "us" =>
             Past(pc, s, k) \/ Generation(w, live)' = listed["spec"].gen
  PROVE  AppliedIsCurrent'
<1>1. Reporting' = Reporting /\ (\A s : WorkloadOf(s)' = WorkloadOf(s)) /\ Ctl' = Ctl
  BY DEF Reporting, WorkloadOf, Ctl
<1>2. ASSUME NEW s \in Reporting \ (prog' \cup errs'), NEW k \in DOMAIN Ctl.stages[s].objects,
             Ctl.stages[s].objects[k] = WorkloadOf(s), Past(pc', s, k), live'[WorkloadOf(s)].owner = "us"
      PROVE  Generation(WorkloadOf(s), live)' = listed["spec"].gen
  <2> DEFINE w == WorkloadOf(s)
  <2>1. CASE Generation(w, live)' = listed["spec"].gen
    BY <2>1
  <2>2. CASE live[w].owner = "us" /\ live'[w].content = live[w].content /\ Past(pc, s, k)
    <3>1. Generation(w, live) = listed["spec"].gen
      BY <1>2, <2>2 DEF SInv, AppliedIsCurrent
    <3> QED BY <1>1, <2>2, <3>1 DEF Generation
  <2> QED BY <1>2, <2>1, <2>2
<1>3. \A s, k : Past(pc', s, k) <=> Past(pc, s, k)'
  BY DEF Past
<1> QED BY <1>1, <1>2, <1>3 DEF AppliedIsCurrent

\* The position after a step of a stage.
LEMMA PastNext ==
  ASSUME TInv, InStage, NEW s \in DOMAIN Ctl.stages, NEW k \in DOMAIN Ctl.stages[s].objects
  PROVE  /\ Past(NextStep, s, k) => Past(pc, s, k) \/ (s = pc[1] /\ k = pc[2])
         /\ Past(AfterStage, s, k) => Past(pc, s, k) \/ s = pc[1]
<1>1. /\ ctl \in Controllers /\ pc[1] \in DOMAIN Ctl.stages /\ pc[2] \in 0 .. Len(CurrentStage.objects)
      /\ Len(Ctl.stages) \in Nat /\ DOMAIN Ctl.stages = 1 .. Len(Ctl.stages)
  BY Steps, Stages DEF TInv, TypeOK
<1>2. /\ s \in Nat /\ pc[1] \in Nat /\ k \in 1 .. Len(Ctl.stages[s].objects) /\ k \in Nat
      /\ Len(Ctl.stages[s].objects) \in Nat /\ Len(CurrentStage.objects) \in Nat
  <2>1. s \in Nat /\ pc[1] \in Nat
    BY <1>1
  <2>2. \A t \in DOMAIN Ctl.stages : Len(Ctl.stages[t].objects) \in Nat
                                    /\ DOMAIN Ctl.stages[t].objects = 1 .. Len(Ctl.stages[t].objects)
    BY <1>1, Stages
  <2>3. Len(CurrentStage.objects) \in Nat
    BY <1>1, <2>2 DEF CurrentStage
  <2>4. k \in 1 .. Len(Ctl.stages[s].objects) /\ Len(Ctl.stages[s].objects) \in Nat
    BY <2>2
  <2> QED BY <2>1, <2>3, <2>4
<1>3. AfterStage[1] = pc[1] + 1 /\ AfterStage[2] = 0
  BY DEF AfterStage
<1>4. Past(AfterStage, s, k) => Past(pc, s, k) \/ s = pc[1]
  BY <1>2, <1>3 DEF Past
<1>5. CASE EndsStage
  BY <1>1, <1>2, <1>3, <1>4, <1>5 DEF NextStep, EndsStage, Past, CurrentStage
<1>6. CASE ~EndsStage
  <2>1. NextStep[1] = pc[1] /\ NextStep[2] = pc[2] + 1
    BY <1>6 DEF NextStep
  <2> QED BY <1>1, <1>2, <1>4, <2>1 DEF Past
<1> QED BY <1>5, <1>6

\* What stays when the controller is the same, and what is known of the numbers after
\* a step that keeps the types.
LEMMA SameController ==
  ASSUME ctl' = ctl
  PROVE  /\ Ctl' = Ctl /\ Objects' = Objects /\ Items' = Items /\ OwnOptions' = OwnOptions
         /\ Reporting' = Reporting /\ \A s : WorkloadOf(s)' = WorkloadOf(s)
         /\ StatusStep' = StatusStep
  BY DEF Ctl, Objects, Items, OwnOptions, Reporting, WorkloadOf, StatusStep

\* The generations and the options of a step that keeps the spec in the API server, and
\* the cache and what the sync has listed of it or renews them from there.
LEMMA SpecKept ==
  ASSUME TInv, TInv', SInv, ctl' = ctl, live'["spec"] = live["spec"],
         cache'["spec"] \in {cache["spec"], live["spec"]},
         \/ pc' = pc /\ listed' = listed
         \/ pc' = Idle
         \/ pc' # Idle /\ pc # Idle /\ listed' = listed
         \/ pc' # Idle /\ pc = Idle /\ listed'["spec"] = cache["spec"]
  PROVE  GenerationsMove /\ Switches'
<1>1. /\ live["spec"].gen \in Nat /\ cache["spec"].gen \in Nat /\ Known \in Nat
      /\ (pc # Idle => Known = listed["spec"].gen) /\ (pc = Idle => Known = cache["spec"].gen)
  BY GenTypes
<1>2. Known <= cache["spec"].gen /\ cache["spec"].gen <= live["spec"].gen
  BY DEF SInv, Generations
<1>3. Known' = IF pc' = Idle THEN cache'["spec"].gen ELSE listed'["spec"].gen
  BY DEF Known
<1>4. Known' = Known \/ Known' = cache["spec"].gen \/ (Known' = live["spec"].gen /\ cache'["spec"] = live["spec"])
  BY <1>1, <1>3
<1>5. Known' # Known /\ Known' = live["spec"].gen => cache'["spec"] = live["spec"] \/ live["spec"].gen = cache["spec"].gen
  BY <1>4
<1>6. Known <= Known' /\ Known' <= cache'["spec"].gen /\ cache'["spec"].gen <= live'["spec"].gen
  BY <1>1, <1>2, <1>4
<1>7. GenerationsMove
  BY <1>1, <1>6 DEF GenerationsMove
<1>8. SwitchedOn(live)' /\ SwitchedOn(cache)'
  BY SameController DEF SInv, Switches, SwitchedOn
<1>9. pc' # Idle => SwitchedOn(listed)'
  BY SameController DEF SInv, Switches, SwitchedOn
<1> QED BY <1>7, <1>8, <1>9 DEF Switches

\* A step of others that keeps the spec.
LEMMA ObjectsMove ==
  ASSUME WorkloadsRequired, TInv, TInv', SInv, ctl' = ctl, live'["spec"] = live["spec"],
         UNCHANGED <<cache, pc, listed, prog, errs>>,
         \A w \in Objects : live'[w].owner = "us" =>
           live[w].owner = "us" /\ live'[w].content = live[w].content
  PROVE  SInv'
<1>1. \A s \in Reporting : WorkloadOf(s) \in Objects
  BY ReportingFacts DEF TInv, TypeOK
<1>2. TemplatesMove
  BY <1>1 DEF TemplatesMove
<1>3. GenerationsMove /\ Switches'
  BY SpecKept
<1>4. AppliedIsCurrent'
  BY <1>1, SyncStays
<1> QED BY <1>2, <1>3, <1>4, StatusFrom

LEMMA SyncStatus == ASSUME WorkloadsRequired, TInv, TInv', SInv, sync PROVE SInv'
<1>1. ctl' = ctl /\ UNCHANGED <<live, cache, prog, errs>> /\ pc = Idle
  BY DEF sync, world
<1>2. CASE pc' = Idle
  <2>1. pc' = pc /\ listed' = listed
    BY <1>1, <1>2, Stages DEF sync, TInv, TypeOK
  <2> QED BY <1>1, <2>1, ObjectsMove
<1>3. CASE pc' # Idle
  <2>1. (\A i \in Items \ Ctl.roots : listed'[i] = cache[i]) /\ pc' = FirstStep
    BY <1>3, ListedView
  <2>2. listed'["spec"] = cache["spec"]
    BY <2>1, ItemKinds DEF TInv, TypeOK
  <2>3. GenerationsMove /\ Switches'
    BY <1>1, <1>3, <2>2, SpecKept
  <2>4. TemplatesMove
    BY <1>1 DEF TemplatesMove
  <2>5. AppliedIsCurrent'
    <3>1. ASSUME NEW s \in DOMAIN Ctl.stages, NEW k \in DOMAIN Ctl.stages[s].objects PROVE ~Past(FirstStep, s, k)
      <4>1. DOMAIN Ctl.stages = 1 .. Len(Ctl.stages) /\ DOMAIN Ctl.stages[s].objects = 1 .. Len(Ctl.stages[s].objects)
            /\ Len(Ctl.stages) \in Nat /\ Len(Ctl.stages[s].objects) \in Nat
        BY Stages DEF TInv, TypeOK
      <4>2. s \in Nat /\ s >= 1 /\ k \in Nat /\ k >= 1
        BY <4>1
      <4> QED BY <4>2 DEF Past, FirstStep
    <3>2. Reporting \subseteq DOMAIN Ctl.stages
      BY DEF Reporting
    <3>3. \A s, k : Past(pc, s, k)' <=> Past(FirstStep, s, k)
      BY <2>1 DEF Past
    <3> QED BY <1>1, <3>1, <3>2, <3>3, SameController DEF AppliedIsCurrent
  <2> QED BY <1>1, <2>3, <2>4, <2>5, StatusFrom
<1> QED BY <1>2, <1>3

LEMMA WaitStatus == ASSUME WorkloadsRequired, TInv, TInv', SInv, StageWaits PROVE SInv'
<1>1. /\ UNCHANGED <<ctl, live, cache, listed, errs>>
      /\ pc' = AfterStage /\ InStage
      /\ prog' = OverwriteProgress(pc[1], prog \cup {pc[1]})
  BY DEF StageWaits, world
<1>2. pc[1] \in DOMAIN Ctl.stages /\ AfterStage # Idle /\ pc # Idle
  BY <1>1, Steps
<1>3. GenerationsMove /\ Switches'
  BY <1>1, <1>2, SpecKept
<1>4. TemplatesMove
  BY <1>1 DEF TemplatesMove
<1>5. ASSUME NEW s \in Reporting, s \notin prog' \cup errs' PROVE s \notin prog \cup errs /\ s # pc[1]
  <2> DEFINE P == prog \cup {pc[1]}
  <2>1. s \in DOMAIN Ctl.stages /\ Ctl.stages[s].workload.mode # "listed"
    BY DEF Reporting
  <2>2. P \in SUBSET DOMAIN Ctl.stages
    BY <1>2 DEF TInv, TypeOK
  <2>3. s = pc[1] => prog' = P
    BY <1>1, <1>2, <2>1, <2>2, Progress
  <2>4. s # pc[1] => (s \in prog' <=> s \in P)
    BY <1>1, <1>2, <2>1, <2>2, Progress
  <2> QED BY <1>1, <1>5, <2>3, <2>4
<1>6. AppliedIsCurrent'
  <2>1. ASSUME NEW s \in Reporting, s \notin prog' \cup errs', NEW k \in DOMAIN Ctl.stages[s].objects,
               Past(pc', s, k)
        PROVE  Past(pc, s, k)
    BY <1>1, <1>5, <2>1, PastNext DEF Reporting
  <2> QED BY <1>1, <1>2, <1>5, <2>1, SyncMoves
<1> QED BY <1>1, <1>3, <1>4, <1>6, StatusFrom

LEMMA PruneStatus == ASSUME WorkloadsRequired, TInv, TInv', SInv, Prune PROVE SInv'
<1>1. /\ InStage /\ pc[2] = 0 /\ UNCHANGED <<ctl, cache>>
      /\ Panics \/ \E done : Prunes(done, TRUE) \/ Prunes(done, FALSE)
  BY PruneOutcome
<1>2. pc[1] \in DOMAIN Ctl.stages /\ pc # Idle /\ NextStep # Idle /\ AfterStage # Idle /\ ctl \in Controllers
  BY <1>1, Steps DEF TInv, TypeOK
<1>3. CASE Panics
  <2>1. pc' = Idle /\ UNCHANGED live
    BY <1>3 DEF Panics, Return
  <2>2. GenerationsMove /\ Switches'
    BY <1>1, <2>1, SpecKept
  <2>3. TemplatesMove /\ AppliedIsCurrent'
    BY <1>1, <2>1 DEF TemplatesMove, AppliedIsCurrent
  <2> QED BY <1>1, <2>2, <2>3, StatusFrom
<1>4. ASSUME NEW done, NEW all \in BOOLEAN, Prunes(done, all) PROVE SInv'
  <2>1. done \subseteq Objects /\ \A i \in Items : live'[i] = IF i \in done THEN Absent ELSE live[i]
    BY <1>1, <1>4, PrunedView
  <2>2. /\ listed' = listed /\ pc' # Idle
        /\ (all /\ errs' = errs /\ pc' = NextStep) \/ (errs' = errs \cup {pc[1]} /\ pc' = AfterStage)
        /\ \A t \in DOMAIN Ctl.stages \ {pc[1]} : t \in prog' <=> t \in prog
        /\ CurrentStage.workload.mode # "listed" => prog \subseteq prog'
    BY <1>2, <1>4 DEF Prunes
  <2>3. live'["spec"] = live["spec"]
    BY <1>2, <2>1, ItemKinds
  <2>4. \A s \in Reporting : LET w == WorkloadOf(s) IN
          live'[w].owner = "us" => live[w].owner = "us" /\ live'[w].content = live[w].content
    <3>1. \A s \in Reporting : WorkloadOf(s) \in Items
      BY <1>2, ReportingFacts
    <3>2. Absent.owner = "none"
      BY DEF Absent
    <3> QED BY <2>1, <3>1, <3>2
  <2>5. GenerationsMove /\ Switches'
    BY <1>1, <1>2, <2>2, <2>3, SpecKept
  <2>6. TemplatesMove
    BY <1>1, <2>4 DEF TemplatesMove
  <2>7. ASSUME NEW s \in Reporting, s \notin prog' \cup errs' PROVE s \notin prog \cup errs
    <3>1. s \in DOMAIN Ctl.stages /\ (s = pc[1] => CurrentStage.workload.mode # "listed")
      BY DEF Reporting, CurrentStage
    <3> QED BY <2>2, <2>7, <3>1
  <2>8. ASSUME NEW s \in Reporting, s \notin prog' \cup errs', NEW k \in DOMAIN Ctl.stages[s].objects,
               Past(pc', s, k)
        PROVE  Past(pc, s, k)
    <3>1. s \in DOMAIN Ctl.stages /\ k # 0
      <4>1. s \in DOMAIN Ctl.stages
        BY DEF Reporting
      <4>2. Len(Ctl.stages[s].objects) \in Nat /\ DOMAIN Ctl.stages[s].objects = 1 .. Len(Ctl.stages[s].objects)
        BY <1>2, <4>1, Stages
      <4> QED BY <4>1, <4>2
    <3> QED BY <1>1, <2>2, <2>8, <3>1, PastNext
  <2>9. AppliedIsCurrent'
    BY <1>1, <1>2, <2>2, <2>4, <2>7, <2>8, SyncMoves
  <2> QED BY <1>1, <2>5, <2>6, <2>9, StatusFrom
<1> QED BY <1>1, <1>3, <1>4

LEMMA ApplyStatus == ASSUME WorkloadsRequired, TInv, TInv', SInv, ApplyGenericWithHandlers PROVE SInv'
<1>1. PICK o \in Applicable :
        \/ NotRequired(o) \/ ApplyCreate(o) \/ ApplyNotOurs(o) \/ ApplyEqual(o)
        \/ ApplyUpdate(o) \/ ApplyRecreate(o) \/ ApplyFails(o)
  BY DEF ApplyGenericWithHandlers
<1>2. PICK kind \in Kinds : Outcome(o, kind) /\ Passes(o, kind)
  BY <1>1, ApplyOutcome
<1>3. /\ InStage /\ o \in Objects /\ o \in Items /\ o # "spec" /\ o = CurrentStage.objects[pc[2]]
      /\ pc[1] \in DOMAIN Ctl.stages /\ NextStep # Idle /\ pc # Idle /\ ctl \in Controllers
      /\ "spec" \in Items /\ "spec" \notin Ctl.roots
  BY <1>1, AppliedObject, Steps, ItemKinds DEF TInv, TypeOK
<1>4. /\ pc' = NextStep /\ UNCHANGED <<ctl, cache, listed>>
      /\ \A t \in DOMAIN Ctl.stages \ {pc[1]} : t \in prog' <=> t \in prog
      /\ CurrentStage.workload.mode # "listed" => prog \subseteq prog'
  BY <1>2 DEF Passes
<1>5. errs' = errs \/ errs' = errs \cup {pc[1]}
  BY <1>2 DEF Outcome
<1>6. /\ Seen["spec"] = listed["spec"] /\ SwitchedOn(Seen)
  <2>1. Seen["spec"] = listed["spec"]
    BY <1>3 DEF Seen
  <2> QED BY <1>3, <2>1 DEF SInv, Switches, SwitchedOn
\* What the step makes of the object.
<1>7. \/ UNCHANGED live
      \/ kind = "deleted" /\ live'[o] = Absent /\ \A i \in Items \ {o} : live'[i] = live[i]
      \/ /\ kind = "written" /\ live'[o].content = Render(o, Seen)
         /\ \A i \in Items \ {o} : live'[i] = live[i]
  <2>1. \/ UNCHANGED live
        \/ kind = "deleted" /\ Store(o, Absent)
        \/ kind = "written" /\ \E x : IsObject(x) /\ x.content = Render(o, Seen) /\ Store(o, x)
    BY <1>2 DEF Outcome, Kinds
  <2>2. ASSUME NEW x, IsObject(x), Store(o, x)
        PROVE  live'[o] = x /\ \A i \in Items \ {o} : live'[i] = live[i]
    BY <1>3, <2>2, StoreView
  <2> QED BY <2>1, <2>2, ObjectValues
<1>8. live'["spec"] = live["spec"]
  BY <1>3, <1>7
<1>9. GenerationsMove /\ Switches'
  BY <1>3, <1>4, <1>8, SpecKept
<1>10. ASSUME NEW s \in Reporting
       PROVE  LET w == WorkloadOf(s) IN
              live'[w].owner = "us" =>
                \/ live[w].owner = "us" /\ live'[w].content = live[w].content
                \/ Generation(w, live)' = listed["spec"].gen
  <2> DEFINE w == WorkloadOf(s)
  <2>1. w \in Items /\ Render(w, Seen)["spec"] = Seen["spec"].gen
    BY <1>3, ReportingFacts
  <2>2. Generation(w, live)' = live'[w].content["spec"]
    BY <1>4, SameController DEF Generation
  <2>3. Absent.owner = "none"
    BY DEF Absent
  <2> HIDE DEF w
  <2>4. live'[w].owner = "us" =>
          \/ live[w].owner = "us" /\ live'[w].content = live[w].content
          \/ Generation(w, live)' = listed["spec"].gen
    <3>1. CASE w = o
      BY <1>6, <1>7, <2>1, <2>2, <2>3, <3>1
    <3>2. CASE w # o
      BY <1>7, <2>1, <3>2
    <3> QED BY <3>1, <3>2
  <2> QED BY <2>4 DEF w
<1>11. TemplatesMove
  BY <1>3, <1>4, <1>10 DEF TemplatesMove
<1>12. ASSUME NEW s \in Reporting, s \notin prog' \cup errs' PROVE s \notin prog \cup errs
  <2>1. s \in DOMAIN Ctl.stages /\ (s = pc[1] => CurrentStage.workload.mode # "listed")
    BY DEF Reporting, CurrentStage
  <2> QED BY <1>4, <1>5, <1>12, <2>1
\* The workload whose turn it was has the listed generation.
<1>13. ASSUME NEW s \in Reporting, s \notin prog' \cup errs', s = pc[1], WorkloadOf(s) = o,
              live'[o].owner = "us"
       PROVE  Generation(WorkloadOf(s), live)' = listed["spec"].gen
  <2>1. Required(o, Seen) /\ Render(o, Seen)["spec"] = listed["spec"].gen
    BY <1>3, <1>6, <1>13, ReportingFacts
  <2>2. Generation(WorkloadOf(s), live)' = live'[o].content["spec"]
    BY <1>4, <1>13, SameController DEF Generation
  <2>3. kind \in {"equal", "written"}
    BY <1>2, <1>13, <2>1 DEF Outcome, Kinds
  <2>4. CASE kind = "written"
    <3>1. live'[o].content = Render(o, Seen)
      <4>1. PICK x : x.content = Render(o, Seen) /\ IsObject(x) /\ Store(o, x)
        BY <1>2, <2>4 DEF Outcome
      <4>2. live'[o] = x
        BY <1>3, <4>1, StoreView
      <4> QED BY <4>1, <4>2
    <3> QED BY <2>1, <2>2, <3>1
  <2>5. CASE kind = "equal"
    <3>1. cache[o].owner = "us" /\ cache[o].content = Render(o, Seen) /\ live' = live
      BY <1>2, <2>5 DEF Outcome
    <3>2. Generation(o, cache) = listed["spec"].gen
      BY <2>1, <3>1 DEF Generation
    <3>3. /\ live[o].owner = "us"
          /\ Generation(o, live) \in 0 .. Known /\ Generation(o, cache) <= Generation(o, live)
      BY <1>13, <3>1 DEF SInv, Templates
    <3>4. Known = listed["spec"].gen /\ Known \in Nat
      BY <1>3, GenTypes
    <3>5. Generation(o, live) = listed["spec"].gen
      BY <3>2, <3>3, <3>4
    <3> QED BY <2>2, <3>1, <3>5 DEF Generation
  <2> QED BY <2>3, <2>4, <2>5
<1>14. ASSUME NEW s \in Reporting, s \notin prog' \cup errs', NEW k \in DOMAIN Ctl.stages[s].objects,
              Ctl.stages[s].objects[k] = WorkloadOf(s), Past(pc', s, k), live'[WorkloadOf(s)].owner = "us"
       PROVE  Past(pc, s, k) \/ Generation(WorkloadOf(s), live)' = listed["spec"].gen
  <2>1. Past(pc, s, k) \/ (s = pc[1] /\ k = pc[2])
    BY <1>3, <1>4, <1>14, PastNext DEF Reporting
  <2>2. CASE s = pc[1] /\ k = pc[2]
    <3>1. WorkloadOf(s) = o
      BY <1>3, <1>14, <2>2 DEF CurrentStage
    <3> QED BY <1>13, <1>14, <2>2, <3>1
  <2> QED BY <2>1, <2>2
<1>15. AppliedIsCurrent'
  BY <1>3, <1>4, <1>10, <1>12, <1>14, SyncMoves
<1> QED BY <1>4, <1>9, <1>11, <1>15, StatusFrom

LEMMA UpdateStatus == ASSUME WorkloadsRequired, TInv, TInv', SInv, updateStatus PROVE SInv'
<1>1. /\ pc = StatusStep /\ UNCHANGED <<ctl, cache>> /\ pc' = Idle
      /\ UNCHANGED live \/ StatusWritten
  BY StatusOutcome
<1>2. AppliedIsCurrent' /\ ctl \in Controllers /\ pc # Idle
  BY <1>1, Stages DEF AppliedIsCurrent, TInv, TypeOK
<1>3. CASE UNCHANGED live
  <2>1. GenerationsMove /\ Switches'
    BY <1>1, <1>3, SpecKept
  <2>2. TemplatesMove
    BY <1>1, <1>3 DEF TemplatesMove
  <2> QED BY <1>1, <1>2, <2>1, <2>2, StatusFrom
<1>4. CASE StatusWritten
  <2>1. /\ live'["spec"].gen = live["spec"].gen /\ live'["spec"].on = live["spec"].on
        /\ live'["spec"].status = AggregatedStatus
        /\ \A i \in Items \ {"spec"} : live'[i] = live[i]
    BY <1>1, <1>4, StatusView
  <2>2. listed["spec"] = live["spec"]
    BY <1>4 DEF StatusWritten
  <2>3. TemplatesMove
    <3>1. \A s \in Reporting : WorkloadOf(s) \in Items \ {"spec"}
      BY <1>2, ReportingFacts
    <3> QED BY <1>1, <2>1, <3>1 DEF TemplatesMove
  <2>4. Switches'
    BY <1>1, <2>1, SameController DEF SInv, Switches, SwitchedOn
  <2>5. /\ live["spec"].gen \in Nat /\ cache["spec"].gen \in Nat /\ Known = listed["spec"].gen /\ Known \in Nat
        /\ Known <= cache["spec"].gen /\ cache["spec"].gen <= live["spec"].gen /\ Known' = cache["spec"].gen
    BY <1>1, <1>2, GenTypes DEF SInv, Generations, Known
  <2>6. StatusTruthful'
    <3> SUFFICES ASSUME NEW s \in DOMAIN Ctl.stages,
                        Ctl.stages[s].workload.mode \in {"wait", "report"},
                        Settled(AggregatedStatus),
                        Exists(Ctl.stages[s].workload.object, live)'
                 PROVE  live'[Ctl.stages[s].workload.object].content["spec"] = AggregatedStatus.gen
      BY <1>1, <2>1, SameController DEF StatusTruthful, Truthful, Settled
    <3> DEFINE w == WorkloadOf(s)
    <3>1. s \in Reporting /\ w = Ctl.stages[s].workload.object
      BY DEF Reporting, WorkloadOf
    <3>2. w \in Objects /\ w \in Items \ {"spec"}
      BY <1>2, <3>1, ReportingFacts
    <3>3. live[w].owner = "us" /\ live'[w] = live[w]
      BY <1>1, <2>1, <3>1, <3>2, SameController DEF Exists
    <3>4. prog = {} /\ errs = {} /\ AggregatedStatus.gen = listed["spec"].gen
      BY DEF Settled, AggregatedStatus
    <3>5. PICK k \in DOMAIN Ctl.stages[s].objects : Ctl.stages[s].objects[k] = w
      <4>1. Ctl.stages[s].workload # NoWorkload
        BY <3>1, <3>2, <1>2, ItemKinds DEF NoWorkload, Workload
      <4> QED BY <1>2, <3>1, <4>1, Stages
    <3>6. Past(pc, s, k)
      <4>1. s \in 1 .. Len(Ctl.stages) /\ Len(Ctl.stages) \in Nat
        BY <1>2, Stages
      <4>2. pc[1] = Len(Ctl.stages) + 1
        BY <1>1 DEF StatusStep
      <4> QED BY <4>1, <4>2 DEF Past
    <3>7. Generation(w, live) = listed["spec"].gen
      BY <1>2, <3>1, <3>3, <3>4, <3>5, <3>6 DEF SInv, AppliedIsCurrent
    <3> QED BY <3>1, <3>3, <3>4, <3>7 DEF Generation
  <2>7. GenerationsMove
    <3>1. live'["spec"].status.gen <= Known'
      BY <2>1, <2>5 DEF AggregatedStatus
    <3> QED BY <1>1, <2>1, <2>5, <2>6, <3>1 DEF GenerationsMove
  <2> QED BY <1>1, <1>2, <2>3, <2>4, <2>7, StatusFrom
<1> QED BY <1>1, <1>3, <1>4

LEMMA EditStatus == ASSUME WorkloadsRequired, TInv, TInv', SInv, EditSpec PROVE SInv'
<1>1. UNCHANGED <<ctl, cache, pc, listed, prog, errs>>
  BY DEF EditSpec, Other
<1>2. /\ \A i \in Items \ {"spec"} : live'[i] = live[i]
      /\ live'["spec"].gen = live["spec"].gen + 1
      /\ live'["spec"].status = live["spec"].status
      /\ OwnOptions \ Options \subseteq live'["spec"].on
  BY EditView
<1>3. \A s \in Reporting : WorkloadOf(s) \in Items \ {"spec"}
  BY ReportingFacts DEF TInv, TypeOK
<1>4. TemplatesMove
  BY <1>1, <1>2, <1>3 DEF TemplatesMove
<1>5. Switches'
  BY <1>1, <1>2, SameController DEF SInv, Switches, SwitchedOn
<1>6. GenerationsMove
  <2>1. /\ live["spec"].gen \in Nat /\ cache["spec"].gen \in Nat /\ Known \in Nat
        /\ Known <= cache["spec"].gen /\ cache["spec"].gen <= live["spec"].gen /\ Known' = Known
    BY <1>1, GenTypes DEF SInv, Generations, Known
  <2> QED BY <1>1, <1>2, <2>1 DEF GenerationsMove
<1>7. AppliedIsCurrent'
  BY <1>1, <1>2, <1>3, SyncStays
<1> QED BY <1>1, <1>4, <1>5, <1>6, <1>7, StatusFrom

LEMMA StatusStays == ASSUME WorkloadsRequired, TInv, SInv, [Next]_vars PROVE SInv'
<1>0. TInv' /\ ctl' = ctl /\ ctl \in Controllers
  BY TypeNext, ControllerSame DEF TInv, TypeOK, vars
<1>1. CASE sync
  BY <1>0, <1>1, SyncStatus
<1>2. CASE StageWaits
  BY <1>0, <1>2, WaitStatus
<1>3. CASE Prune
  BY <1>0, <1>3, PruneStatus
<1>4. CASE ApplyGenericWithHandlers
  BY <1>0, <1>4, ApplyStatus
<1>5. CASE updateStatus
  BY <1>0, <1>5, UpdateStatus
<1>6. CASE Restart
  <2>1. cache' = live /\ live' = live /\ pc' = Idle
    BY <1>6 DEF Restart
  <2>2. GenerationsMove /\ Switches'
    BY <1>0, <2>1, SpecKept
  <2>3. TemplatesMove /\ AppliedIsCurrent'
    BY <2>1 DEF TemplatesMove, AppliedIsCurrent
  <2> QED BY <1>0, <2>2, <2>3, StatusFrom
<1>7. ASSUME NEW i \in stale, Deliver(i) PROVE SInv'
  <2>1. /\ UNCHANGED <<live, pc, listed, prog, errs>> /\ i \in Items
        /\ cache' = [cache EXCEPT ![i] = live[i]]
    BY <1>7 DEF Deliver, TInv, TypeOK
  <2>2. cache'[i] = live[i] /\ \A j \in Items \ {i} : cache'[j] = cache[j]
    BY <1>0, <2>1, KeptViews
  <2>3. "spec" \in Items /\ \A s \in Reporting : WorkloadOf(s) \in Items
    BY <1>0, ItemKinds, ReportingFacts
  <2>4. GenerationsMove /\ Switches'
    BY <1>0, <2>1, <2>2, <2>3, SpecKept
  <2>5. TemplatesMove
    BY <2>1, <2>2, <2>3 DEF TemplatesMove
  <2>6. AppliedIsCurrent'
    BY <1>0, <2>1, SyncStays
  <2> QED BY <1>0, <2>4, <2>5, <2>6, StatusFrom
<1>8. CASE EditSpec
  BY <1>0, <1>8, EditStatus
<1>9. ASSUME NEW i, ChangeRoot(i) PROVE SInv'
  <2>1. /\ i \in Ctl.roots /\ \A j \in Items \ {i} : live'[j] = live[j]
        /\ UNCHANGED <<cache, pc, listed, prog, errs>>
    BY <1>9, RootWrites
  <2>2. live'["spec"] = live["spec"] /\ \A w \in Objects : live'[w] = live[w]
    BY <1>0, <2>1, ItemKinds
  <2> QED BY <1>0, <2>1, <2>2, ObjectsMove
<1>10. ASSUME NEW i \in Objects, DeleteObject(i) \/ TakeName(i) \/ RollOut(i) PROVE SInv'
  <2>1. /\ \A j \in Items \ {i} : live'[j] = live[j]
        /\ UNCHANGED <<cache, pc, listed, prog, errs>>
        /\ DeleteObject(i) => live'[i] = Absent
        /\ TakeName(i) => live'[i].owner = "other"
        /\ RollOut(i) => live[i].owner = "us" /\ live'[i].content = live[i].content
    BY <1>10, OtherWrites
  <2>2. live'["spec"] = live["spec"]
    BY <1>0, <2>1, ItemKinds
  <2>3. live'[i].owner = "us" => live[i].owner = "us" /\ live'[i].content = live[i].content
    BY <1>10, <2>1 DEF Absent
  <2>4. \A w \in Objects : live'[w].owner = "us" =>
          live[w].owner = "us" /\ live'[w].content = live[w].content
    BY <1>0, <2>1, <2>3, ItemKinds
  <2> QED BY <1>0, <2>1, <2>2, <2>4, ObjectsMove
<1>11. CASE UNCHANGED vars
  BY <1>0, <1>11, ObjectsMove DEF vars
<1>12. ASSUME NEW i, DeleteObject(i) \/ TakeName(i) \/ RollOut(i) PROVE i \in Objects
  BY <1>0, <1>12, WorkloadsAreObjects DEF DeleteObject, TakeName, RollOut
<1> QED BY <1>1, <1>2, <1>3, <1>4, <1>5, <1>6, <1>7, <1>8, <1>9, <1>10, <1>11, <1>12
        DEF Next, Controller, Others

\* The status never calls the current generation settled while a workload that a stage
\* reports on has the template of another one, however old the cache is, whatever calls
\* fail and whenever the operator dies: if no edit switches such a workload off.
THEOREM StatusIsTruthful ==
  ASSUME WorkloadsRequired
  PROVE  Spec => []StatusTruthful
<1>1. Init => TInv /\ SInv
  BY TypeInit, StatusInit
<1>2. TInv /\ SInv /\ [Next]_vars => (TInv /\ SInv)'
  BY TypeNext, StatusStays
<1>3. SInv => StatusTruthful
  BY DEF SInv
<1> QED BY <1>1, <1>2, <1>3, PTL DEF Spec

-----------------------------------------------------------------------------
(* No wakeup is lost.                                                        *)

\* What others do is announced: an input that they change wakes the controller whether
\* it is there or gone, and an object whose events wake nobody is neither changed by
\* others nor switched off and on.
ChangesAreAnnounced ==
  \A c \in Controllers :
    LET d == Description[c] IN
    /\ Perturbed \cap d.roots \subseteq d.wakes \ d.ifPresent
    /\ \A o \in Unwatched(d) : o \notin Perturbed /\ d.objects[o].option \notin Options

\* The objects of the controller that wake nobody, the inputs whose events are resolved
\* through an object, whether those objects are there, and the items whose changes
\* the controller hears of when they are.
Silent == Unwatched(Ctl)
Resolved == DOMAIN Ctl.through
Attached == \A i \in Resolved : Exists(Ctl.through[i], live)
Heard == Items \ (Silent \cup (IF Attached THEN {} ELSE Resolved))
Depends(o) == Ctl.objects[o].reads \cup Ctl.objects[o].while
HeardStage(s) == \A o \in ToSet(Ctl.stages[s].objects) : Depends(o) \subseteq Heard

\* What still leads to another sync: the queue, an error of the running sync, an event
\* on its way that wakes the controller, a workload that is being rolled out.
Pending == \E i \in stale : Wakes(i)
Rolling == \E o \in Workloads : RollsOut(o)
Excused == queue \/ errs # {} \/ Pending \/ Rolling

\* An item is the same for the controller: objects that are not its own are alike.
SameItem(i, v, w) ==
  IF i \in Objects THEN v[i].owner = "us" \/ w[i].owner = "us" => v[i] = w[i] ELSE v[i] = w[i]

Right(o) ==
  IF Required(o, live) THEN Exists(o, live) /\ live[o].content = Render(o, live) ELSE ~Exists(o, live)

Done(s) == Held(Ctl.stages[s]) \/ UpToDate(Ctl.stages[s])

\* Events of inputs are of changes by others; an object that the cache does not show yet
\* is one that the controller wrote; and a silent object stays once it is there.
Announced ==
  /\ stale \cap Ctl.roots \subseteq Perturbed
  /\ \A o \in Objects : Exists(o, live) /\ ~Exists(o, cache) => o \in mine
  /\ \A o \in Silent : /\ Exists(o, cache) => Exists(o, live)
                       /\ Exists(o, live) => live[o].content = Render(o, live)
  /\ Switches

\* The running sync, when nothing leads to another one: what it listed is what there is,
\* the stages that it is past are held or done, the objects that it is past in the
\* current stage are right, and a stage that others await waits itself.
ListedIsLive == \A i \in Heard \ Ctl.roots : SameItem(i, listed, live)

PassedAreDone == \A s \in DOMAIN Ctl.stages : s < pc[1] /\ HeardStage(s) => Done(s)

CurrentIsRight ==
  InStage /\ HeardStage(pc[1]) /\ pc[2] > 0 =>
    /\ \A o \in ToSet(CurrentStage.objects) : Exists(o, live) => Required(o, live)
    /\ \A k \in 1 .. pc[2] - 1 : Right(CurrentStage.objects[k])

AwaitedAreHeld ==
  \A s \in DOMAIN Ctl.stages : \A a \in Ctl.stages[s].after \cap prog :
    \E i \in Ctl.stages[a].waits : ~Exists(i, live)

Following == ListedIsLive /\ PassedAreDone /\ CurrentIsRight /\ AwaitedAreHeld

Followed == ~Excused => IF pc = Idle THEN Converged ELSE Following

\* The description.
LEMMA Wiring ==
  ASSUME ctl \in Controllers
  PROVE  /\ "spec" \in Ctl.wakes /\ Ctl.ifPresent \subseteq Ctl.roots
         /\ Silent = Objects \ Ctl.wakes /\ Silent \subseteq Objects
         /\ Resolved \subseteq Ctl.roots \ Ctl.requires
         /\ \A o \in Objects : Depends(o) \subseteq Items \ Silent
         /\ \A o \in Silent : Ctl.objects[o].reads = {} /\ Ctl.objects[o].while = {}
                              /\ ~Ctl.objects[o].recreated
         /\ \A i \in Resolved : Ctl.through[i] \in Objects \ Silent
         /\ Workloads \cap Silent = {}
         /\ \A s \in DOMAIN Ctl.stages :
              /\ Ctl.stages[s].waits \subseteq Items \ (Silent \cup Resolved)
              /\ Ctl.stages[s].workload.object \notin Silent
              /\ Ctl.stages[s].after \subseteq DOMAIN Ctl.stages
              /\ \A a \in Ctl.stages[s].after :
                   /\ Ctl.stages[a].after = {} /\ Ctl.stages[a].workload = NoWorkload
                   /\ ToSet(Ctl.stages[a].objects) \cap Silent = {}
<1>1. WellWired(Ctl)
  BY WiringAssumption DEF Ctl
<1>2. /\ "spec" \in Ctl.wakes /\ Ctl.ifPresent \subseteq Ctl.roots
      /\ Resolved \subseteq Ctl.roots \ Ctl.requires
      /\ \A o \in Silent : Ctl.objects[o].reads = {} /\ Ctl.objects[o].while = {}
                           /\ ~Ctl.objects[o].recreated
  BY <1>1 DEF WellWired, Silent, Resolved
<1>3. Silent = Objects \ Ctl.wakes /\ Silent \subseteq Objects
  BY DEF Silent, Unwatched, Objects
<1>4. \A o \in Objects : Depends(o) \subseteq Items \ Silent
  <2>1. \A o \in Objects : Depends(o) \cap Silent = {}
    BY <1>1 DEF WellWired, DependsOn, Silent, Depends, Objects
  <2> QED BY <2>1, ItemKinds DEF Depends
<1>5. \A i \in Resolved : Ctl.through[i] \in Objects \ Silent
  BY <1>1, <1>3 DEF WellWired, Resolved, Objects
<1>6. ASSUME NEW s \in DOMAIN Ctl.stages
      PROVE  /\ Ctl.stages[s].waits \subseteq Items \ (Silent \cup Resolved)
             /\ Ctl.stages[s].workload.object \notin Silent
             /\ Ctl.stages[s].after \subseteq DOMAIN Ctl.stages
             /\ \A a \in Ctl.stages[s].after :
                  /\ Ctl.stages[a].after = {} /\ Ctl.stages[a].workload = NoWorkload
                  /\ ToSet(Ctl.stages[a].objects) \cap Silent = {}
  <2>1. /\ Ctl.stages[s].waits \cap (Silent \cup Resolved) = {}
        /\ Ctl.stages[s].workload.object \notin Silent
        /\ \A a \in Ctl.stages[s].after :
             /\ Ctl.stages[a].after = {} /\ Ctl.stages[a].workload = NoWorkload
             /\ ToSet(Ctl.stages[a].objects) \cap Silent = {}
    BY <1>1 DEF WellWired, Silent, Resolved
  <2>2. Ctl.stages[s].waits \subseteq Items \ {"spec"} /\ Ctl.stages[s].after \subseteq 1 .. s - 1
    BY Stages
  <2>3. DOMAIN Ctl.stages = 1 .. Len(Ctl.stages) /\ Len(Ctl.stages) \in Nat
    BY Stages
  <2>4. Ctl.stages[s].after \subseteq DOMAIN Ctl.stages
    BY <2>2, <2>3
  <2> QED BY <2>1, <2>2, <2>4
<1>7. Workloads \cap Silent = {}
  BY <1>6, WorkloadsAreObjects
<1> QED BY <1>2, <1>3, <1>4, <1>5, <1>6, <1>7

\* Silent objects are required by every spec, and always the same.
LEMMA SilentObjects ==
  ASSUME ChangesAreAnnounced, ctl \in Controllers, NEW o \in Silent
  PROVE  /\ o \in Objects /\ o \notin Perturbed /\ ~Ctl.objects[o].recreated
         /\ \A v : SwitchedOn(v) => Required(o, v)
         /\ \A v, w : Render(o, v) = Render(o, w)
<1>1. /\ o \in Objects /\ Ctl.objects[o].reads = {} /\ Ctl.objects[o].while = {}
      /\ ~Ctl.objects[o].recreated
  BY Wiring
<1>2. o \notin Perturbed /\ Ctl.objects[o].option \notin Options
  BY DEF ChangesAreAnnounced, Silent, Ctl
<1>3. ASSUME NEW v, SwitchedOn(v) PROVE Required(o, v)
  <2>1. Ctl.objects[o].option \in OwnOptions \cup {"always"}
    BY <1>1 DEF OwnOptions
  <2> QED BY <1>1, <1>2, <1>3, <2>1 DEF Required, SwitchedOn
<1>4. \A v, w : Render(o, v) = Render(o, w)
  BY <1>1 DEF Render
<1> QED BY <1>1, <1>2, <1>3, <1>4

\* Which items are heard of.
LEMMA HeardItems ==
  ASSUME ctl \in Controllers
  PROVE  /\ "spec" \in Heard /\ Heard \subseteq Items /\ Objects \ Silent \subseteq Heard
         /\ Heard \cap Silent = {} /\ Ctl.requires \subseteq Heard /\ Ctl.roots \ Resolved \subseteq Heard
         /\ \A s \in DOMAIN Ctl.stages : Ctl.stages[s].waits \subseteq Heard
         /\ Attached => \A s \in DOMAIN Ctl.stages : HeardStage(s)
<1>1. /\ "spec" \in Heard /\ Heard \subseteq Items /\ Objects \ Silent \subseteq Heard
      /\ Heard \cap Silent = {} /\ Ctl.requires \subseteq Heard /\ Ctl.roots \ Resolved \subseteq Heard
  BY Wiring, ItemKinds DEF Heard
<1>2. \A s \in DOMAIN Ctl.stages : Ctl.stages[s].waits \subseteq Heard
  BY Wiring DEF Heard
<1>3. ASSUME Attached, NEW s \in DOMAIN Ctl.stages PROVE HeardStage(s)
  <2>1. ToSet(Ctl.stages[s].objects) \subseteq Objects
    BY Stages
  <2>2. \A o \in Objects : Depends(o) \subseteq Heard
    BY <1>3, Wiring DEF Heard
  <2> QED BY <2>1, <2>2 DEF HeardStage
<1> QED BY <1>1, <1>2, <1>3

\* What depends on items that are the same in two views is the same.
LEMMA Alike ==
  ASSUME ctl \in Controllers, NEW S, "spec" \in S, NEW v, NEW w,
         \A i \in S : SameItem(i, v, w)
  PROVE  /\ \A i \in S : Exists(i, v) <=> Exists(i, w)
         /\ \A o \in Objects : Depends(o) \subseteq S =>
              (Required(o, v) <=> Required(o, w)) /\ Render(o, v) = Render(o, w)
<1>1. v["spec"] = w["spec"]
  BY ItemKinds DEF SameItem
<1>2. \A i \in S : Exists(i, v) <=> Exists(i, w)
  BY DEF SameItem, Exists
<1>3. \A i \in S : Look(i, v) = Look(i, w)
  <2> SUFFICES ASSUME NEW i \in S PROVE Look(i, v) = Look(i, w)
    OBVIOUS
  <2>1. CASE i = "spec"
    BY <1>1, <2>1 DEF Look
  <2>2. CASE i # "spec" /\ i \in Objects
    <3>1. i \notin Ctl.roots
      BY <2>2, ItemKinds
    <3>2. Exists(i, v) => v[i] = w[i]
      BY <2>2 DEF SameItem, Exists
    <3> QED BY <1>2, <2>2, <3>1, <3>2 DEF Look
  <2>3. CASE i # "spec" /\ i \notin Objects
    <3>1. v[i] = w[i]
      BY <2>3 DEF SameItem
    <3>2. Exists(i, v) <=> Exists(i, w)
      BY <1>2
    <3> QED BY <2>3, <3>1, <3>2 DEF Look
  <2> QED BY <2>1, <2>2, <2>3
<1>4. ASSUME NEW o \in Objects, Depends(o) \subseteq S
      PROVE  (Required(o, v) <=> Required(o, w)) /\ Render(o, v) = Render(o, w)
  <2>1. Ctl.objects[o].reads \subseteq S /\ Ctl.objects[o].while \subseteq S
    BY <1>4 DEF Depends
  <2>2. Required(o, v) <=> Required(o, w)
    BY <1>1, <1>2, <2>1 DEF Required
  <2>3. Render(o, v) = Render(o, w)
    BY <1>3, <2>1 DEF Render
  <2> QED BY <2>2, <2>3
<1> QED BY <1>2, <1>4

\* Whether an event that is on its way wakes the controller does not depend on what
\* the API server has by then.
Awakening(i) ==
  /\ i \in Ctl.wakes
  /\ i \in Objects => Exists(i, cache) \/ i \in mine
  /\ i \in Resolved => Exists(Ctl.through[i], cache)

LEMMA WhatWakes ==
  ASSUME ChangesAreAnnounced
  PROVE  TInv /\ Announced => \A k \in stale : Wakes(k) <=> Awakening(k)
<1> SUFFICES ASSUME TInv, Announced, NEW i \in stale PROVE Wakes(i) <=> Awakening(i)
  OBVIOUS
<1>1. ctl \in Controllers /\ i \in Items
  BY DEF TInv, TypeOK
<1>2. i \notin Ctl.ifPresent
  <2>1. i \in Ctl.roots => i \in Perturbed
    BY DEF Announced
  <2>2. Perturbed \cap Ctl.roots \subseteq Ctl.wakes \ Ctl.ifPresent
    BY <1>1 DEF ChangesAreAnnounced, Ctl
  <2> QED BY <1>1, <2>1, <2>2, Wiring
<1>3. i \in Objects /\ Exists(i, live) /\ ~Exists(i, cache) => i \in mine
  BY DEF Announced
<1> QED BY <1>2, <1>3 DEF Wakes, Awakening, Resolved

\* When nothing is pending, the cache shows what there is of everything that is heard of.
LEMMA NothingPending ==
  ASSUME ChangesAreAnnounced, TInv, Announced, ~Pending
  PROVE  /\ \A i \in Heard : SameItem(i, cache, live)
         /\ \A i \in Heard : ~(i \in stale /\ i \in Ctl.roots)
         /\ \A i \in Resolved \cap Heard : Exists(Ctl.through[i], cache)
<1>1. ctl \in Controllers /\ \A i \in Items \ stale : cache[i] = live[i]
  BY DEF TInv, TypeOK
<1>2. \A i \in stale : ~Awakening(i)
  BY WhatWakes DEF Pending
<1>3. ASSUME NEW i \in Objects \ Silent
      PROVE  SameItem(i, cache, live) /\ (Exists(i, live) => Exists(i, cache))
  <2>1. CASE i \notin stale
    BY <1>1, <1>3, <2>1, ItemKinds DEF SameItem, Exists
  <2>2. CASE i \in stale
    <3>1. i \in Ctl.wakes /\ i \notin Resolved
      BY <1>1, <1>3, Wiring, ItemKinds
    <3>2. ~Exists(i, cache) /\ i \notin mine
      BY <1>2, <2>2, <3>1 DEF Awakening
    <3>3. ~Exists(i, live)
      BY <3>2 DEF Announced
    <3> QED BY <3>2, <3>3 DEF SameItem, Exists
  <2> QED BY <2>1, <2>2
<1>4. ASSUME NEW i \in Resolved \cap Heard PROVE Exists(Ctl.through[i], cache)
  <2>1. Attached
    BY <1>4 DEF Heard
  <2>2. Exists(Ctl.through[i], live) /\ Ctl.through[i] \in Objects \ Silent
    BY <1>1, <1>4, <2>1, Wiring DEF Attached
  <2> QED BY <1>3, <2>2
<1>5. ASSUME NEW i \in Heard, i \in stale, i \in Ctl.roots PROVE FALSE
  <2>1. i \in Perturbed /\ i \in Ctl.wakes
    BY <1>1, <1>5 DEF Announced, ChangesAreAnnounced, Ctl
  <2>2. i \notin Objects
    BY <1>1, <1>5, ItemKinds
  <2>3. Awakening(i)
    BY <1>4, <1>5, <2>1, <2>2 DEF Awakening
  <2> QED BY <1>2, <1>5, <2>3
<1>6. ASSUME NEW i \in Heard, i = "spec" PROVE SameItem(i, cache, live)
  <2>1. i \in Items /\ i \notin Objects /\ i \in Ctl.wakes /\ i \notin Resolved
    BY <1>1, <1>6, ItemKinds, Wiring
  <2>2. i \notin stale
    BY <1>2, <2>1 DEF Awakening
  <2> QED BY <1>1, <2>1, <2>2 DEF SameItem
<1>7. ASSUME NEW i \in Heard, i \in Ctl.roots PROVE SameItem(i, cache, live)
  BY <1>1, <1>5, <1>7, ItemKinds DEF SameItem
<1>8. \A i \in Heard : i = "spec" \/ i \in Ctl.roots \/ i \in Objects \ Silent
  BY <1>1, HeardItems, ItemKinds
<1> QED BY <1>3, <1>4, <1>5, <1>6, <1>7, <1>8

\* The options that stay on, when a step keeps those of the spec.
LEMMA SwitchesKept ==
  ASSUME Switches, ctl' = ctl, live'["spec"].on = live["spec"].on,
         cache'["spec"] \in {cache["spec"], live["spec"]},
         \/ pc' = Idle
         \/ pc # Idle /\ listed' = listed
         \/ listed'["spec"] = cache["spec"]
  PROVE  Switches'
<1>1. SwitchedOn(live)' /\ SwitchedOn(cache)'
  BY SameController DEF Switches, SwitchedOn
<1>2. pc' # Idle => SwitchedOn(listed)'
  BY SameController DEF Switches, SwitchedOn
<1> QED BY <1>1, <1>2 DEF Switches

\* What follows for the next state from the views after a step.
LEMMA AnnouncedFrom ==
  ASSUME ChangesAreAnnounced, ctl \in Controllers, ctl' = ctl, Switches',
         stale' \cap Ctl.roots \subseteq Perturbed,
         \A o \in Objects : live'[o].owner = "us" /\ cache'[o].owner # "us" => o \in mine',
         \A o \in Silent : /\ cache'[o].owner = "us" => live'[o].owner = "us"
                           /\ live'[o].owner = "us" => live'[o].content = Render(o, live)
  PROVE  Announced'
<1>1. Ctl' = Ctl /\ Objects' = Objects /\ Silent' = Silent /\ Silent \subseteq Objects
  BY SameController, Wiring DEF Silent
<1>2. ASSUME NEW o \in Silent, live'[o].owner = "us" PROVE live'[o].content = Render(o, live)'
  <2>1. Ctl.objects[o].reads = {}
    BY Wiring
  <2>2. Render(o, live) = Render(o, live)'
    BY <1>1, <2>1 DEF Render
  <2> QED BY <1>2, <2>2
<1> QED BY <1>1, <1>2 DEF Announced, Exists

\* A step that writes some items, marks them as stale, and wakes nobody by itself.
Calm(X) ==
  /\ UNCHANGED <<ctl, cache>> /\ stale' = stale \cup X /\ X \subseteq Items
  /\ mine \subseteq mine'
  /\ \A i \in Items \ X : live'[i] = live[i]
  /\ X \cap Ctl.roots \subseteq Perturbed
  /\ \A o \in X \cap Objects : live'[o].owner = "us" => o \in mine' \/ live[o].owner = "us"
  /\ \A o \in X \cap Silent :
       /\ live[o].owner = "us" => live'[o].owner = "us"
       /\ live'[o].owner = "us" => live'[o].content = Render(o, live)
  /\ queue \/ errs # {} => queue' \/ errs' # {}

LEMMA CalmAnnounced ==
  ASSUME ChangesAreAnnounced, TInv, Announced, NEW X, Calm(X), Switches'
  PROVE  Announced'
<1>1. ctl \in Controllers /\ Objects \subseteq Items /\ Silent \subseteq Objects
  BY ItemKinds, Wiring DEF TInv, TypeOK
<1>2. stale' \cap Ctl.roots \subseteq Perturbed
  BY DEF Announced, Calm
<1>3. ASSUME NEW o \in Objects, live'[o].owner = "us", cache'[o].owner # "us" PROVE o \in mine'
  <2>1. live[o].owner = "us" => o \in mine
    BY <1>3 DEF Announced, Exists, Calm
  <2> QED BY <1>1, <1>3, <2>1 DEF Calm
<1>4. ASSUME NEW o \in Silent
      PROVE  /\ cache'[o].owner = "us" => live'[o].owner = "us"
             /\ live'[o].owner = "us" => live'[o].content = Render(o, live)
  <2>1. /\ cache[o].owner = "us" => live[o].owner = "us"
        /\ live[o].owner = "us" => live[o].content = Render(o, live)
    BY <1>1, <1>4 DEF Announced, Exists
  <2>2. CASE o \in X
    BY <1>4, <2>1, <2>2 DEF Calm
  <2>3. CASE o \notin X
    BY <1>1, <1>4, <2>1, <2>3 DEF Calm
  <2> QED BY <2>2, <2>3
<1> QED BY <1>1, <1>2, <1>3, <1>4, AnnouncedFrom DEF Calm

\* A step after which nothing leads to another sync has changed nothing that is heard of.
Quiet ==
  /\ \A i \in Heard : SameItem(i, live, live')
  /\ \A o \in Silent : live[o].owner = "us" => live'[o].owner = "us"

LEMMA CalmIsQuiet ==
  ASSUME ChangesAreAnnounced, TInv, TInv', Announced, Announced', NEW X, Calm(X), ~Excused'
  PROVE  ~Excused /\ Quiet
<1>1. /\ ctl \in Controllers /\ Ctl' = Ctl /\ Objects' = Objects /\ Resolved' = Resolved
      /\ Workloads' = Workloads /\ Workloads \subseteq Objects \ Silent
      /\ Objects \subseteq Items /\ Silent \subseteq Objects
  <2>1. ctl \in Controllers /\ ctl' = ctl
    BY DEF TInv, TypeOK, Calm
  <2>2. Workloads' = Workloads
    BY <2>1 DEF Workloads
  <2> QED BY <2>1, <2>2, SameController, ItemKinds, Wiring, WorkloadsAreObjects DEF Resolved
<1>2. /\ \A i \in stale : Wakes(i) <=> Awakening(i)
      /\ \A i \in stale' : Wakes(i)' <=> Awakening(i)'
  <2>1. \A i \in stale : Wakes(i) <=> Awakening(i)
    BY WhatWakes
  <2>2. (TInv /\ Announced => \A k \in stale : Wakes(k) <=> Awakening(k))'
    BY WhatWakes, PTL
  <2> QED BY <2>1, <2>2
<1>3. \A i \in stale' : ~Awakening(i)'
  BY <1>2 DEF Excused, Pending
<1>4. \A i : Awakening(i) => Awakening(i)'
  BY <1>1 DEF Awakening, Calm, Exists
<1>5. ~Pending
  BY <1>2, <1>3, <1>4 DEF Pending, Calm
\* An object of the controller that changes is on its way to wake it.
<1>6. ASSUME NEW o \in Objects \ Silent, o \in stale' PROVE live'[o].owner # "us" /\ live[o].owner # "us"
  <2>1. o \in Ctl.wakes /\ o \notin Resolved
    BY <1>1, <1>6, Wiring, ItemKinds
  <2>2. ~Exists(o, cache)' /\ o \notin mine'
    BY <1>1, <1>3, <1>6, <2>1 DEF Awakening
  <2>3. ~Exists(o, live)'
    BY <1>1, <1>6, <2>2 DEF Announced
  <2>4. ~Exists(o, cache) /\ o \notin mine
    BY <1>1, <2>2 DEF Exists, Calm
  <2>5. ~Exists(o, live)
    BY <1>6, <2>4 DEF Announced
  <2> QED BY <1>1, <1>6, <2>3, <2>5 DEF Exists
<1>7. ~Rolling
  <2> SUFFICES ASSUME NEW o \in Workloads, RollsOut(o) PROVE FALSE
    BY DEF Rolling
  <2>1. live[o].owner = "us"
    BY <1>1 DEF RollsOut, Exists
  <2>2. o \notin stale'
    BY <1>1, <1>6, <2>1
  <2>3. live'[o] = live[o]
    BY <1>1, <2>2 DEF Calm
  <2>4. RollsOut(o)'
    BY <1>1, <2>3 DEF RollsOut, Exists
  <2> QED BY <1>1, <2>4 DEF Excused, Rolling
<1>8. ~Excused
  BY <1>5, <1>7 DEF Excused, Calm
<1>9. ASSUME NEW i \in Heard PROVE SameItem(i, live, live')
  <2>1. CASE i \notin X
    BY <1>1, <2>1, HeardItems DEF Calm, SameItem
  <2>2. CASE i \in X
    <3>1. i \in stale'
      BY <2>2 DEF Calm
    <3>2. CASE i \in Objects
      BY <1>1, <1>6, <3>1, <3>2, HeardItems DEF SameItem
    <3>3. CASE i = "spec"
      <4>1. Awakening(i)'
        BY <1>1, <3>3, Wiring, ItemKinds DEF Awakening
      <4> QED BY <1>3, <3>1, <4>1
    <3>4. CASE i \in Ctl.roots
      <4>1. i \in Ctl.wakes
        BY <1>1, <2>2, <3>4 DEF Calm, ChangesAreAnnounced, Ctl
      <4>2. i \in Resolved => Exists(Ctl.through[i], cache)
        BY <1>5, <1>9, NothingPending
      <4>3. Awakening(i)
        BY <1>1, <3>4, <4>1, <4>2, ItemKinds DEF Awakening
      <4> QED BY <1>3, <1>4, <3>1, <4>3
    <3> QED BY <1>1, <1>9, <3>2, <3>3, <3>4, HeardItems, ItemKinds
  <2> QED BY <2>1, <2>2
<1>10. \A o \in Silent : live[o].owner = "us" => live'[o].owner = "us"
  BY <1>1 DEF Calm
<1> QED BY <1>8, <1>9, <1>10 DEF Quiet

LEMMA AnnouncedInit == ASSUME ChangesAreAnnounced, Init PROVE Announced
<1>1. /\ ctl \in Controllers /\ pc = Idle /\ cache = live /\ stale = {}
      /\ live = Nothing \/ live = Installed
  BY DEF Init
<1>2. live["spec"].on = OwnOptions
  BY <1>1, NothingView, InstalledView
<1>3. Switches
  BY <1>1, <1>2 DEF Switches, SwitchedOn
<1>4. ASSUME NEW o \in Silent, Exists(o, live) PROVE live[o].content = Render(o, live)
  <2> DEFINE view == RenderAll(Nothing)
  <2>1. o \in Objects /\ \A v, w : Render(o, v) = Render(o, w)
    BY <1>1, SilentObjects
  <2>2. live[o].owner = "us"
    BY <1>4, <2>1 DEF Exists
  <2>3. Nothing[o].owner = "none"
    BY <1>1, <2>1, NothingView DEF Absent
  <2>4. \/ view[o] = [owner |-> "us", content |-> Render(o, Nothing), rolled |-> Render(o, Nothing)]
        \/ view[o] = Absent
    BY <1>1, <2>1, InstalledView
  <2>5. \/ Installed[o] = [owner |-> "us", content |-> Render(o, view), rolled |-> Render(o, view)]
        \/ Installed[o] = view[o]
    BY <1>1, <2>1, InstalledView
  <2>6. Absent.owner = "none"
    BY DEF Absent
  <2> HIDE DEF view
  <2> QED BY <1>1, <2>1, <2>2, <2>3, <2>4, <2>5, <2>6
<1> QED BY <1>1, <1>3, <1>4 DEF Announced

\* What others do, and rollouts.
LEMMA OthersCalm ==
  ASSUME ChangesAreAnnounced, TInv, Announced, Others \/ (\E o \in Workloads : RollOut(o))
  PROVE  /\ UNCHANGED <<pc, listed, prog, errs>> /\ Announced'
         /\ \E X : Calm(X)
<1> DEFINE Goal == /\ UNCHANGED <<pc, listed, prog, errs>> /\ Announced'
                   /\ \E X : Calm(X)
<1>0. /\ ctl \in Controllers /\ "spec" \in Items /\ "spec" \notin Objects /\ "spec" \notin Ctl.roots
      /\ Ctl.roots \subseteq Items /\ Objects \subseteq Items /\ Ctl.roots \cap Objects = {}
      /\ Silent \subseteq Objects /\ Workloads \subseteq Objects \ Silent /\ Switches
  BY ItemKinds, Wiring, WorkloadsAreObjects DEF TInv, TypeOK, Announced
<1>1. CASE EditSpec
  <2>1. /\ UNCHANGED <<ctl, cache, mine, queue, pc, listed, prog, errs>>
        /\ stale' = stale \cup {"spec"}
    BY <1>1 DEF EditSpec, Other
  <2>2. /\ \A i \in Items \ {"spec"} : live'[i] = live[i]
        /\ OwnOptions \ Options \subseteq live'["spec"].on
    BY <1>1, EditView
  <2>3. Calm({"spec"})
    BY <1>0, <2>1, <2>2 DEF Calm
  <2>4. Switches'
    BY <1>0, <2>1, <2>2, SameController DEF Switches, SwitchedOn
  <2> QED BY <2>1, <2>3, <2>4, CalmAnnounced
<1>2. ASSUME NEW r, ChangeRoot(r) PROVE Goal
  <2>1. /\ r \in Ctl.roots \cap Perturbed
        /\ \A i \in Items \ {r} : live'[i] = live[i]
        /\ UNCHANGED <<ctl, cache, mine, queue, pc, listed, prog, errs>>
        /\ stale' = stale \cup {r}
    BY <1>2, RootWrites
  <2>2. Calm({r})
    BY <1>0, <2>1 DEF Calm
  <2>3. live'["spec"] = live["spec"]
    BY <1>0, <2>1
  <2>4. Switches'
    <3>1. pc' = Idle \/ (pc # Idle /\ listed' = listed)
      BY <2>1
    <3> QED BY <1>0, <2>1, <2>3, <3>1, SwitchesKept
  <2> QED BY <2>1, <2>2, <2>4, CalmAnnounced
<1>3. ASSUME NEW o \in Objects, DeleteObject(o) \/ TakeName(o) \/ RollOut(o) PROVE Goal
  <2>1. /\ \A i \in Items \ {o} : live'[i] = live[i]
        /\ UNCHANGED <<ctl, cache, mine, queue, pc, listed, prog, errs>>
        /\ stale' = stale \cup {o}
        /\ DeleteObject(o) => o \in Perturbed /\ live'[o] = Absent
        /\ TakeName(o) => live'[o].owner = "other"
        /\ RollOut(o) => o \in Workloads /\ live[o].owner = "us"
    BY <1>3, OtherWrites
  <2>2. live'[o].owner = "us" => live[o].owner = "us" /\ o \notin Silent
    BY <1>0, <1>3, <2>1 DEF Absent
  <2>3. o \in Silent => live[o].owner # "us"
    <3>1. o \in Silent => o \notin Perturbed
      BY <1>0, SilentObjects
    <3>2. TakeName(o) => live[o].owner # "us"
      BY DEF TakeName
    <3> QED BY <1>0, <1>3, <2>1, <3>1, <3>2
  <2>4. Calm({o})
    BY <1>0, <2>1, <2>2, <2>3 DEF Calm
  <2>5. live'["spec"] = live["spec"]
    BY <1>0, <2>1
  <2>6. Switches'
    <3>1. pc' = Idle \/ (pc # Idle /\ listed' = listed)
      BY <2>1
    <3> QED BY <1>0, <2>1, <2>5, <3>1, SwitchesKept
  <2> QED BY <2>1, <2>4, <2>6, CalmAnnounced
<1>4. ASSUME NEW o, DeleteObject(o) \/ TakeName(o) PROVE o \in Objects
  BY <1>4 DEF DeleteObject, TakeName
<1> QED BY <1>0, <1>1, <1>2, <1>3, <1>4 DEF Others

\* What a sync sees has the options that stay on.
LEMMA SeenSwitches ==
  ASSUME TInv, Announced, pc # Idle
  PROVE  SwitchedOn(Seen)
<1>1. Seen["spec"] = listed["spec"]
  BY ItemKinds DEF Seen, TInv, TypeOK
<1> QED BY <1>1 DEF Announced, Switches, SwitchedOn

LEMMA PruneCalm ==
  ASSUME ChangesAreAnnounced, TInv, Announced, Prune
  PROVE  /\ Announced' /\ \E X : Calm(X)
         /\ ~Panics => \E done : /\ Prunes(done, TRUE) \/ Prunes(done, FALSE)
                                 /\ Calm(done) /\ done \subseteq Objects \ Silent
<1>1. /\ InStage /\ UNCHANGED <<ctl, cache>>
      /\ Panics \/ \E done : Prunes(done, TRUE) \/ Prunes(done, FALSE)
  BY PruneOutcome
<1>2. /\ pc # Idle /\ ctl \in Controllers /\ NextStep # Idle /\ AfterStage # Idle
      /\ Objects \subseteq Items /\ Ctl.roots \cap Objects = {} /\ "spec" \in Items
      /\ "spec" \notin Objects /\ Silent \subseteq Objects /\ Switches
  BY <1>1, Steps, ItemKinds, Wiring DEF TInv, TypeOK, Announced
<1>3. CASE Panics
  <2>1. UNCHANGED <<live, stale, mine>> /\ pc' = Idle /\ queue' = TRUE
    BY <1>3 DEF Panics, Return
  <2>2. Calm({})
    BY <1>1, <2>1 DEF Calm
  <2>3. Switches'
    BY <1>1, <1>2, <2>1, SwitchesKept
  <2> QED BY <1>3, <2>2, <2>3, CalmAnnounced
<1>4. ASSUME NEW done, NEW all \in BOOLEAN, Prunes(done, all)
      PROVE  Announced' /\ Calm(done) /\ done \subseteq Objects \ Silent
  <2>1. done \subseteq Objects /\ \A i \in Items : live'[i] = IF i \in done THEN Absent ELSE live[i]
    BY <1>1, <1>4, PrunedView
  <2>2. done \cap Silent = {}
    <3>1. \A o \in done : ~Required(o, Seen)
      BY <1>4 DEF Prunes, Excess
    <3> QED BY <1>2, <3>1, SilentObjects, SeenSwitches
  <2>3. /\ stale' = stale \cup done /\ mine' = mine \cup done /\ UNCHANGED <<queue, listed>>
        /\ errs' = errs \/ errs' = errs \cup {pc[1]}
    BY <1>4 DEF Prunes
  <2>4. Calm(done)
    BY <1>1, <1>2, <2>1, <2>2, <2>3 DEF Calm
  <2>5. live'["spec"] = live["spec"]
    BY <1>2, <2>1
  <2>6. Switches'
    BY <1>1, <1>2, <2>3, <2>5, SwitchesKept
  <2> QED BY <2>1, <2>2, <2>4, <2>6, CalmAnnounced
<1> QED BY <1>1, <1>3, <1>4

LEMMA ApplyCalm ==
  ASSUME ChangesAreAnnounced, TInv, Announced, NEW o \in Applicable, NEW kind \in Kinds,
         Outcome(o, kind), Passes(o, kind)
  PROVE  /\ Announced'
         /\ IF kind \in {"written", "deleted"} THEN Calm({o}) /\ o \in mine'
                                               ELSE Calm({}) /\ live' = live
         /\ kind = "written" => /\ live'[o].owner = "us" /\ live'[o].content = Render(o, Seen)
                                /\ \A i \in Items \ {o} : live'[i] = live[i]
<1>1. /\ InStage /\ o \in Objects /\ UNCHANGED <<ctl, cache, queue, listed>> /\ pc' = NextStep
      /\ errs' = errs \/ errs' = errs \cup {pc[1]}
  BY AppliedObject DEF Passes, Outcome
<1>2. /\ pc # Idle /\ ctl \in Controllers /\ NextStep # Idle
      /\ Objects \subseteq Items /\ Ctl.roots \cap Objects = {} /\ "spec" \in Items
      /\ "spec" \notin Objects /\ Silent \subseteq Objects /\ Switches
  BY <1>1, Steps, ItemKinds, Wiring DEF TInv, TypeOK, Announced
<1>3. CASE kind \in {"skipped", "equal", "failed"}
  <2>1. UNCHANGED <<live, stale, mine>>
    BY <1>3 DEF Outcome
  <2>2. Calm({})
    BY <1>1, <2>1 DEF Calm
  <2>3. Switches'
    BY <1>1, <1>2, <2>1, SwitchesKept
  <2> QED BY <1>3, <2>1, <2>2, <2>3, CalmAnnounced
<1>4. ASSUME NEW x, IsObject(x), Store(o, x), o \in Silent => x.owner = "us" /\ x.content = Render(o, live)
      PROVE  /\ Announced' /\ Calm({o}) /\ o \in mine'
             /\ live'[o] = x /\ \A i \in Items \ {o} : live'[i] = live[i]
  <2>1. live'[o] = x /\ \A i \in Items \ {o} : live'[i] = live[i]
    BY <1>1, <1>4, StoreView
  <2>2. stale' = stale \cup {o} /\ mine' = mine \cup {o}
    BY <1>4 DEF Store
  <2>3. Calm({o})
    BY <1>1, <1>2, <1>4, <2>1, <2>2 DEF Calm
  <2>4. live'["spec"] = live["spec"]
    BY <1>1, <1>2, <2>1
  <2>5. Switches'
    BY <1>1, <1>2, <2>4, SwitchesKept
  <2> QED BY <2>1, <2>2, <2>3, <2>5, CalmAnnounced
<1>5. CASE kind = "deleted"
  <2>1. Store(o, Absent) /\ Ctl.objects[o].recreated
    BY <1>5 DEF Outcome
  <2>2. o \notin Silent
    BY <1>2, <2>1, Wiring
  <2> QED BY <1>4, <1>5, <2>1, <2>2, ObjectValues
<1>6. CASE kind = "written"
  <2>1. PICK x : IsObject(x) /\ x.owner = "us" /\ x.content = Render(o, Seen) /\ Store(o, x)
    BY <1>6 DEF Outcome
  <2>2. o \in Silent => x.content = Render(o, live)
    BY <1>2, <2>1, SilentObjects
  <2> QED BY <1>4, <1>6, <2>1, <2>2
<1> QED BY <1>3, <1>5, <1>6 DEF Kinds

LEMMA StatusCalm ==
  ASSUME ChangesAreAnnounced, TInv, Announced, updateStatus
  PROVE  /\ Announced' /\ pc' = Idle
         /\ \/ Calm({}) /\ live' = live /\ (~queue' => errs = {} /\ ~queue)
            \/ Calm({"spec"}) /\ "spec" \in stale'
<1>1. /\ pc = StatusStep /\ UNCHANGED <<ctl, cache>> /\ pc' = Idle
      /\ \/ UNCHANGED <<live, stale, mine>> /\ (queue \/ errs # {} => queue')
         \/ StatusWritten /\ (queue \/ errs # {} => queue')
  BY StatusOutcome
<1>2. /\ ctl \in Controllers /\ "spec" \in Items /\ "spec" \notin Objects /\ "spec" \notin Ctl.roots
      /\ Silent \subseteq Objects /\ Switches
  BY ItemKinds, Wiring DEF TInv, TypeOK, Announced
<1>3. CASE UNCHANGED <<live, stale, mine>> /\ (queue \/ errs # {} => queue')
  <2>1. Calm({})
    BY <1>1, <1>3 DEF Calm
  <2>2. Switches'
    BY <1>1, <1>2, <1>3, SwitchesKept
  <2> QED BY <1>1, <1>3, <2>1, <2>2, CalmAnnounced
<1>4. CASE StatusWritten /\ (queue \/ errs # {} => queue')
  <2>1. /\ live'["spec"].on = live["spec"].on
        /\ \A i \in Items \ {"spec"} : live'[i] = live[i]
    BY <1>1, <1>4, StatusView
  <2>2. stale' = stale \cup {"spec"} /\ mine' = mine \cup {"spec"}
    BY <1>4 DEF StatusWritten
  <2>3. Calm({"spec"})
    BY <1>1, <1>2, <1>4, <2>1, <2>2 DEF Calm
  <2>4. Switches'
    BY <1>1, <1>2, <2>1, SwitchesKept
  <2> QED BY <1>1, <2>2, <2>3, <2>4, CalmAnnounced
<1> QED BY <1>1, <1>3, <1>4

\* A write of an object that wakes the controller, or of its spec, leads to another sync.
LEMMA Marked ==
  ASSUME ChangesAreAnnounced
  PROVE  TInv /\ Announced /\ ("spec" \in stale \/ \E x \in Objects \ Silent : x \in mine) => Excused
<1> SUFFICES ASSUME TInv, Announced, "spec" \in stale \/ \E o \in Objects \ Silent : o \in mine
             PROVE  Pending
  BY DEF Excused
<1>1. ctl \in Controllers /\ mine \subseteq stale
  BY DEF TInv, TypeOK
<1>2. CASE "spec" \in stale
  <2>1. Awakening("spec")
    BY <1>1, Wiring, ItemKinds DEF Awakening
  <2> QED BY <1>2, <2>1, WhatWakes DEF Pending
<1>3. ASSUME NEW o \in Objects \ Silent, o \in mine PROVE Pending
  <2>1. Awakening(o)
    BY <1>1, <1>3, Wiring, ItemKinds DEF Awakening
  <2> QED BY <1>1, <1>3, <2>1, WhatWakes DEF Pending
<1> QED BY <1>2, <1>3

LEMMA NextMarked ==
  ASSUME ChangesAreAnnounced
  PROVE  /\ (TInv /\ Announced /\ ("spec" \in stale \/ \E x \in Objects \ Silent : x \in mine) => Excused)'
         /\ (TInv /\ Announced => \A k \in stale : Wakes(k) <=> Awakening(k))'
<1>1. (TInv /\ Announced /\ ("spec" \in stale \/ \E x \in Objects \ Silent : x \in mine) => Excused)'
  BY Marked, PTL
<1>2. (TInv /\ Announced => \A k \in stale : Wakes(k) <=> Awakening(k))'
  BY WhatWakes, PTL
<1> QED BY <1>1, <1>2

LEMMA NextViews ==
  ASSUME ctl' = ctl
  PROVE  /\ \A i : Exists(i, live)' <=> Exists(i, live')
         /\ \A o : Required(o, live)' <=> Required(o, live')
         /\ \A o : Render(o, live)' = Render(o, live')
         /\ Silent' = Silent /\ Resolved' = Resolved /\ \A o : Depends(o)' = Depends(o)
  BY SameController DEF Exists, Required, Render, Look, Silent, Resolved, Depends

\* What a step that is quiet keeps.
LEMMA QuietStays ==
  ASSUME ChangesAreAnnounced, ctl \in Controllers, ctl' = ctl, Announced, Announced', Quiet
  PROVE  /\ Heard' = Heard /\ \A s : HeardStage(s)' <=> HeardStage(s)
         /\ \A i \in Heard : Exists(i, live)' <=> Exists(i, live)
         /\ \A o \in Objects : Depends(o) \subseteq Heard =>
              /\ (Exists(o, live) => Required(o, live)) => (Exists(o, live)' => Required(o, live)')
              /\ Right(o) => Right(o)'
         /\ \A s \in DOMAIN Ctl.stages : HeardStage(s) /\ Done(s) => Done(s)'
<1>1. /\ "spec" \in Heard /\ Objects \ Silent \subseteq Heard /\ Silent \subseteq Objects
      /\ Ctl' = Ctl /\ Objects' = Objects /\ Items' = Items /\ Silent' = Silent /\ Resolved' = Resolved
  BY HeardItems, Wiring, SameController, NextViews
<1>2. /\ \A i \in Heard : Exists(i, live)' <=> Exists(i, live)
      /\ \A o \in Objects : Depends(o) \subseteq Heard =>
           (Required(o, live)' <=> Required(o, live)) /\ Render(o, live)' = Render(o, live)
  BY <1>1, Alike, NextViews DEF Quiet
<1>3. Attached' <=> Attached
  <2>1. \A i \in Resolved : Ctl.through[i] \in Heard
    BY <1>1, Wiring
  <2> QED BY <1>1, <1>2, <2>1 DEF Attached
<1>4. Heard' = Heard /\ \A s : HeardStage(s)' <=> HeardStage(s)
  <2>1. Heard' = Heard
    BY <1>1, <1>3 DEF Heard
  <2> QED BY <1>1, <2>1, NextViews DEF HeardStage
<1>5. ASSUME NEW o \in Objects, Depends(o) \subseteq Heard
      PROVE  /\ (Exists(o, live) => Required(o, live)) => (Exists(o, live)' => Required(o, live)')
             /\ Right(o) => Right(o)'
  <2>1. CASE o \in Silent
    <3>1. Required(o, live)' /\ Required(o, live)
      BY <1>1, <1>2, <1>5, <2>1, SilentObjects DEF Announced, Switches
    <3>2. Exists(o, live) => Exists(o, live)'
      BY <1>1, <2>1 DEF Quiet, Exists
    <3>3. Exists(o, live)' => live'[o].content = Render(o, live)'
      BY <1>1, <2>1 DEF Announced
    <3> QED BY <3>1, <3>2, <3>3 DEF Right
  <2>2. CASE o \notin Silent
    <3>1. Exists(o, live) => live'[o] = live[o]
      BY <1>1, <2>2 DEF Quiet, SameItem, Exists
    <3> QED BY <1>1, <1>2, <1>5, <2>2, <3>1 DEF Right
  <2> QED BY <2>1, <2>2
<1>6. ASSUME NEW s \in DOMAIN Ctl.stages, HeardStage(s), Done(s) PROVE Done(s)'
  <2>1. /\ Ctl.stages[s].waits \subseteq Heard /\ ToSet(Ctl.stages[s].objects) \subseteq Objects
        /\ \A a \in Ctl.stages[s].after : Ctl.stages[a].waits \subseteq Heard
    BY HeardItems, Wiring, Stages
  <2>2. CASE Held(Ctl.stages[s])
    BY <1>1, <1>2, <2>1, <2>2 DEF Held, Done
  <2>3. CASE UpToDate(Ctl.stages[s])
    <3>1. \A o \in ToSet(Ctl.stages[s].objects) : Right(o)
      BY <2>3 DEF UpToDate, Right
    <3>2. \A o \in ToSet(Ctl.stages[s].objects) : Right(o)'
      BY <1>5, <1>6, <2>1, <3>1 DEF HeardStage
    <3> QED BY <1>1, <3>2 DEF UpToDate, Right, Done
  <2> QED BY <1>6, <2>2, <2>3 DEF Done
<1> QED BY <1>2, <1>4, <1>5, <1>6

\* When the stages that the controller hears of are held or done, it hears of all.
LEMMA AllAreHeard ==
  ASSUME ctl \in Controllers, \A s \in DOMAIN Ctl.stages : HeardStage(s) => Done(s)
  PROVE  Attached /\ \A s \in DOMAIN Ctl.stages : Done(s)
<1>1. WellWired(Ctl)
  BY WiringAssumption DEF Ctl
<1>2. ASSUME NEW s \in DOMAIN Ctl.stages, AppliedRegardless(Ctl, s) PROVE HeardStage(s) /\ Done(s)
  <2>1. ToSet(Ctl.stages[s].objects) \subseteq Objects
    BY Stages
  <2>2. \A o \in ToSet(Ctl.stages[s].objects) : Depends(o) \cap Resolved = {}
    BY <1>2 DEF AppliedRegardless, DependsOn, Depends, Resolved
  <2>3. HeardStage(s)
    BY <2>1, <2>2, Wiring DEF HeardStage, Heard
  <2> QED BY <2>3
<1>3. ASSUME NEW i \in Resolved PROVE Exists(Ctl.through[i], live)
  <2> DEFINE t == Ctl.through[i]
  <2>1. /\ t \in Objects /\ Always(Ctl, t)
        /\ \E s \in DOMAIN Ctl.stages :
             /\ t \in ToSet(Ctl.stages[s].objects) /\ AppliedRegardless(Ctl, s)
             /\ \A a \in Ctl.stages[s].after : Ctl.stages[a].waits = {}
             /\ \A w \in Ctl.stages[s].waits :
                  /\ w \in Objects /\ Always(Ctl, w)
                  /\ \E q \in DOMAIN Ctl.stages :
                       /\ w \in ToSet(Ctl.stages[q].objects) /\ AppliedRegardless(Ctl, q)
                       /\ Ctl.stages[q].waits = {} /\ Ctl.stages[q].after = {}
    BY <1>1 DEF WellWired, Resolved, Objects
  <2>2. PICK s \in DOMAIN Ctl.stages :
          /\ t \in ToSet(Ctl.stages[s].objects) /\ AppliedRegardless(Ctl, s)
          /\ \A a \in Ctl.stages[s].after : Ctl.stages[a].waits = {}
          /\ \A w \in Ctl.stages[s].waits :
               /\ w \in Objects /\ Always(Ctl, w)
               /\ \E q \in DOMAIN Ctl.stages :
                    /\ w \in ToSet(Ctl.stages[q].objects) /\ AppliedRegardless(Ctl, q)
                    /\ Ctl.stages[q].waits = {} /\ Ctl.stages[q].after = {}
    BY <2>1
  <2>3. \A o : Always(Ctl, o) => Required(o, live)
    BY DEF Always, Required
  <2>4. ASSUME NEW w \in Ctl.stages[s].waits PROVE Exists(w, live)
    <3>1. PICK q \in DOMAIN Ctl.stages :
            /\ w \in ToSet(Ctl.stages[q].objects) /\ AppliedRegardless(Ctl, q)
            /\ Ctl.stages[q].waits = {} /\ Ctl.stages[q].after = {}
      BY <2>2
    <3>2. UpToDate(Ctl.stages[q])
      BY <1>2, <3>1 DEF Done, Held
    <3> QED BY <2>2, <2>3, <3>1, <3>2 DEF UpToDate
  <2>5. UpToDate(Ctl.stages[s])
    <3>1. Done(s)
      BY <1>2, <2>2
    <3>2. ~Held(Ctl.stages[s])
      BY <2>2, <2>4 DEF Held
    <3> QED BY <3>1, <3>2 DEF Done
  <2> QED BY <2>1, <2>2, <2>3, <2>5 DEF UpToDate
<1>4. Attached
  BY <1>3 DEF Attached
<1> QED BY <1>4, HeardItems

LEMMA ConvergedStays ==
  ASSUME ChangesAreAnnounced, ctl \in Controllers, ctl' = ctl, Announced, Announced', Quiet, Converged
  PROVE  Converged'
<1>1. Ctl' = Ctl /\ Ctl.requires \subseteq Heard
  BY SameController, HeardItems
<1>2. CASE \E i \in Ctl.requires : ~Exists(i, live)
  <2>1. \E i \in Ctl.requires : ~Exists(i, live)'
    BY <1>1, <1>2, QuietStays
  <2> QED BY <1>1, <2>1 DEF Converged
<1>3. CASE \A s \in DOMAIN Ctl.stages : Done(s)
  <2>1. \A s \in DOMAIN Ctl.stages : HeardStage(s)
    BY <1>3, AllAreHeard, HeardItems
  <2>2. \A s \in DOMAIN Ctl.stages : Done(s)'
    BY <1>3, <2>1, QuietStays
  <2> QED BY <1>1, <2>2 DEF Converged, Done
<1> QED BY <1>2, <1>3 DEF Converged, Done

\* A running sync that a quiet step moves on.
LEMMA FollowingMoves ==
  ASSUME ChangesAreAnnounced, ctl \in Controllers, ctl' = ctl, Announced, Announced', Quiet,
         Following, listed' = listed,
         \A s \in DOMAIN Ctl.stages : s < pc'[1] /\ HeardStage(s) => s < pc[1] \/ Done(s)',
         CurrentIsRight',
         \A s \in DOMAIN Ctl.stages : \A a \in Ctl.stages[s].after \cap prog' :
           a \in prog \/ \E i \in Ctl.stages[a].waits : ~Exists(i, live)
  PROVE  Following'
<1>1. /\ Ctl' = Ctl /\ Objects' = Objects /\ Heard' = Heard /\ Heard \subseteq Items
      /\ \A s : HeardStage(s)' <=> HeardStage(s)
  BY QuietStays, SameController, HeardItems
<1>2. ListedIsLive'
  <2>1. \A i \in Heard \ Ctl.roots : SameItem(i, listed, live) /\ SameItem(i, live, live')
    BY DEF Following, ListedIsLive, Quiet
  <2>2. \A i \in Heard \ Ctl.roots : SameItem(i, listed, live')
    BY <2>1 DEF SameItem
  <2>3. \A i \in Heard \ Ctl.roots : SameItem(i, listed, live)'
    BY <1>1, <2>2 DEF SameItem
  <2> QED BY <1>1, <2>3 DEF ListedIsLive
<1>3. PassedAreDone'
  <2>1. \A s \in DOMAIN Ctl.stages : s < pc[1] /\ HeardStage(s) => Done(s)'
    BY QuietStays DEF Following, PassedAreDone
  <2> QED BY <1>1, <2>1 DEF PassedAreDone
<1>4. AwaitedAreHeld'
  <2>1. ASSUME NEW s \in DOMAIN Ctl.stages, NEW a \in Ctl.stages[s].after \cap prog'
        PROVE  \E i \in Ctl.stages[a].waits : ~Exists(i, live)'
    <3>1. \E i \in Ctl.stages[a].waits : ~Exists(i, live)
      BY <2>1 DEF Following, AwaitedAreHeld
    <3>2. Ctl.stages[a].waits \subseteq Heard
      BY Wiring, HeardItems
    <3> QED BY <3>1, <3>2, QuietStays
  <2> QED BY <1>1, <2>1 DEF AwaitedAreHeld
<1> QED BY <1>2, <1>3, <1>4 DEF Following

\* The objects of the current stage that a quiet step leaves as they are.
LEMMA CurrentStays ==
  ASSUME ChangesAreAnnounced, TInv, ctl' = ctl, Announced, Announced', Quiet,
         CurrentIsRight, InStage, HeardStage(pc[1]), pc[2] > 0
  PROVE  /\ \A o \in ToSet(CurrentStage.objects) : Exists(o, live)' => Required(o, live)'
         /\ \A k \in 1 .. pc[2] - 1 : \A o : o = CurrentStage.objects[k] => Right(o)'
<1>1. ctl \in Controllers /\ pc[1] \in DOMAIN Ctl.stages /\ pc[2] \in 0 .. Len(CurrentStage.objects)
  BY Steps DEF TInv, TypeOK
<1>2. /\ Len(CurrentStage.objects) \in Nat /\ ToSet(CurrentStage.objects) \subseteq Objects
      /\ ToSet(CurrentStage.objects) = {CurrentStage.objects[k] : k \in 1 .. Len(CurrentStage.objects)}
  BY <1>1, Stages DEF CurrentStage
<1>3. \A o \in ToSet(CurrentStage.objects) : o \in Objects /\ Depends(o) \subseteq Heard
  BY <1>2 DEF HeardStage, CurrentStage
<1>4. \A k \in 1 .. pc[2] - 1 : CurrentStage.objects[k] \in ToSet(CurrentStage.objects)
  <2>1. \A k \in 1 .. pc[2] - 1 : k \in 1 .. Len(CurrentStage.objects)
    BY <1>1, <1>2
  <2> QED BY <1>2, <2>1
<1>5. /\ \A o \in ToSet(CurrentStage.objects) : Exists(o, live) => Required(o, live)
      /\ \A k \in 1 .. pc[2] - 1 : Right(CurrentStage.objects[k])
  BY DEF CurrentIsRight
<1>6. \A o \in ToSet(CurrentStage.objects) :
        /\ (Exists(o, live) => Required(o, live)) => (Exists(o, live)' => Required(o, live)')
        /\ Right(o) => Right(o)'
  BY <1>1, <1>3, QuietStays
<1>7. ASSUME NEW k \in 1 .. pc[2] - 1, NEW o, o = CurrentStage.objects[k] PROVE Right(o)'
  <2>1. o \in ToSet(CurrentStage.objects) /\ Right(o)
    BY <1>4, <1>5, <1>7
  <2> QED BY <1>6, <2>1
<1> QED BY <1>5, <1>6, <1>7

LEMMA CurrentFrom ==
  ASSUME ChangesAreAnnounced, ctl \in Controllers, ctl' = ctl, Announced, Announced', Quiet,
         pc' \notin {Idle, StatusStep} /\ HeardStage(pc'[1]) /\ pc'[2] > 0 =>
           /\ \A o \in ToSet(Ctl.stages[pc'[1]].objects) : Exists(o, live)' => Required(o, live)'
           /\ \A k \in 1 .. pc'[2] - 1 : \A o : o = Ctl.stages[pc'[1]].objects[k] => Right(o)'
  PROVE  CurrentIsRight'
<1>1. /\ InStage' <=> pc' \notin {Idle, StatusStep}
      /\ CurrentStage' = Ctl.stages[pc'[1]]
      /\ HeardStage(pc[1])' <=> HeardStage(pc'[1])
  BY QuietStays, SameController, NextViews DEF InStage, CurrentStage, HeardStage
<1>2. CurrentIsRight' <=>
        (InStage' /\ HeardStage(pc[1])' /\ pc'[2] > 0 =>
           /\ \A o \in ToSet(CurrentStage'.objects) : Exists(o, live)' => Required(o, live)'
           /\ \A k \in 1 .. pc'[2] - 1 : \A o : o = CurrentStage'.objects[k] => Right(o)')
  BY DEF CurrentIsRight
<1> QED BY <1>1, <1>2

\* Steps of others, of the informers, and stuttering.
LEMMA OthersFollowed ==
  ASSUME ChangesAreAnnounced, TInv, ctl' = ctl, Announced, Announced', Quiet,
         UNCHANGED <<pc, listed, prog>>, ~Excused, Followed
  PROVE  Followed'
<1>0. ctl \in Controllers
  BY DEF TInv, TypeOK
<1>1. CASE pc = Idle
  <2>1. Converged'
    BY <1>0, <1>1, ConvergedStays DEF Followed
  <2> QED BY <1>1, <2>1 DEF Followed
<1>2. CASE pc # Idle
  <2>1. Following
    BY <1>2 DEF Followed
  <2>2. CurrentIsRight'
    <3>1. InStage /\ HeardStage(pc[1]) /\ pc[2] > 0 =>
            /\ \A o \in ToSet(CurrentStage.objects) : Exists(o, live)' => Required(o, live)'
            /\ \A k \in 1 .. pc[2] - 1 : \A o : o = CurrentStage.objects[k] => Right(o)'
      BY <2>1, CurrentStays DEF Following
    <3> QED BY <1>0, <3>1, CurrentFrom DEF InStage, CurrentStage
  <2>3. Following'
    BY <1>0, <2>1, <2>2, FollowingMoves DEF Following
  <2> QED BY <1>2, <2>3 DEF Followed
<1> QED BY <1>1, <1>2

\* A sync that starts when nothing leads to another one lists what there is.
LEMMA SyncFollowed ==
  ASSUME ChangesAreAnnounced, TInv, Announced, Followed, sync
  PROVE  Announced' /\ Followed'
<1>1. /\ pc = Idle /\ UNCHANGED <<ctl, live, cache, stale, mine, prog, errs>> /\ ctl \in Controllers
      /\ prog = {} /\ errs = {}
  BY DEF sync, world, TInv, TypeOK
<1>2. pc' # Idle => /\ \A i \in Items \ Ctl.roots : listed'[i] = cache[i]
                    /\ pc' = FirstStep
  BY ListedView
<1>3. /\ Ctl' = Ctl /\ Objects' = Objects /\ Items' = Items /\ Heard' = Heard
      /\ "spec" \in Items /\ "spec" \notin Ctl.roots
  <2>1. Heard' = Heard
    BY <1>1, SameController, NextViews DEF Heard, Attached
  <2> QED BY <1>1, <2>1, SameController, ItemKinds
<1>4. Announced'
  <2>1. Switches'
    BY <1>1, <1>2, <1>3, SwitchesKept DEF Announced
  <2>2. /\ \A o \in Objects : live'[o].owner = "us" /\ cache'[o].owner # "us" => o \in mine'
        /\ \A o \in Silent : /\ cache'[o].owner = "us" => live'[o].owner = "us"
                             /\ live'[o].owner = "us" => live'[o].content = Render(o, live)
    BY <1>1, Wiring DEF Announced, Exists
  <2> QED BY <1>1, <2>1, <2>2, AnnouncedFrom DEF Announced
<1>5. Followed'
  <2> SUFFICES ASSUME ~Excused' PROVE IF pc' = Idle THEN Converged' ELSE Following'
    BY DEF Followed
  <2>1. ~Pending
    <3>1. Pending' <=> Pending
      BY <1>1, SameController, NextViews DEF Pending, Wakes, Exists
    <3> QED BY <3>1 DEF Excused
  <2>2. \A i \in Heard : SameItem(i, cache, live)
    BY <2>1, NothingPending
  <2>3. CASE pc' = Idle
    <3>1. PICK i \in Ctl.requires : ~Exists(i, cache)
      BY <1>1, <2>3, Stages DEF sync
    <3>2. i \in Heard /\ "spec" \in Heard
      BY <1>1, HeardItems
    <3>3. ~Exists(i, live)
      BY <1>1, <2>2, <3>1, <3>2, Alike
    <3>4. Converged'
      BY <1>1, <1>3, <3>3, NextViews DEF Converged
    <3> QED BY <2>3, <3>4
  <2>4. CASE pc' # Idle
    <3>1. ListedIsLive'
      <4>1. \A i \in Heard \ Ctl.roots : SameItem(i, listed', live)
        BY <1>1, <1>2, <2>2, <2>4, HeardItems DEF SameItem
      <4>2. \A i \in Heard \ Ctl.roots : SameItem(i, listed, live)'
        BY <1>1, <1>3, <4>1 DEF SameItem
      <4> QED BY <1>3, <4>2 DEF ListedIsLive
    <3>2. pc'[1] = 1 /\ pc'[2] = 0
      BY <1>2, <2>4 DEF FirstStep
    <3>3. PassedAreDone'
      <4>1. \A s \in DOMAIN Ctl.stages : ~(s < 1)
        BY <1>1, Stages
      <4> QED BY <1>3, <3>2, <4>1 DEF PassedAreDone
    <3>4. CurrentIsRight' /\ AwaitedAreHeld'
      BY <1>1, <3>2 DEF CurrentIsRight, AwaitedAreHeld
    <3> QED BY <2>4, <3>1, <3>3, <3>4 DEF Following
  <2> QED BY <2>3, <2>4
<1> QED BY <1>4, <1>5

\* A running sync that nothing leads to another one sees what there is.
LEMMA SeenIsLive ==
  ASSUME ChangesAreAnnounced, TInv, Announced, ~Excused, Following
  PROVE  /\ \A i \in Heard : SameItem(i, Seen, live)
         /\ \A i \in Heard : Exists(i, Seen) <=> Exists(i, live)
         /\ \A o \in Objects : Depends(o) \subseteq Heard =>
              (Required(o, Seen) <=> Required(o, live)) /\ Render(o, Seen) = Render(o, live)
<1>1. ctl \in Controllers /\ "spec" \in Heard /\ Heard \subseteq Items
  BY HeardItems DEF TInv, TypeOK
<1>2. \A i \in Heard : SameItem(i, cache, live)
  BY NothingPending DEF Excused
<1>3. \A i \in Heard : SameItem(i, Seen, live)
  <2>1. \A i \in Heard : Seen[i] = IF i \in Ctl.roots THEN cache[i] ELSE listed[i]
    BY <1>1 DEF Seen
  <2> QED BY <1>2, <2>1 DEF SameItem, Following, ListedIsLive
<1> QED BY <1>1, <1>3, Alike

\* A stage that waits is held by what there is.
LEMMA WaitFollowed ==
  ASSUME ChangesAreAnnounced, TInv, TInv', Announced, Followed, StageWaits
  PROVE  Announced' /\ Followed'
<1>1. /\ UNCHANGED <<ctl, live, cache, stale, mine, queue, listed, errs>>
      /\ pc' = AfterStage /\ InStage /\ Waits(CurrentStage)
      /\ prog' = OverwriteProgress(pc[1], prog \cup {pc[1]})
  BY DEF StageWaits, world
<1>2. /\ ctl \in Controllers /\ pc[1] \in DOMAIN Ctl.stages /\ CurrentStage = Ctl.stages[pc[1]]
      /\ AfterStage # Idle /\ pc # Idle /\ pc[1] \in Nat /\ DOMAIN Ctl.stages \subseteq Nat
      /\ prog \subseteq DOMAIN Ctl.stages
  BY <1>1, Steps, Stages DEF TInv, TypeOK, CurrentStage
<1>3. Calm({})
  BY <1>1 DEF Calm
<1>4. Announced'
  <2>1. Switches'
    BY <1>1, <1>2, SwitchesKept DEF Announced
  <2> QED BY <1>3, <2>1, CalmAnnounced
<1>5. Followed'
  <2> SUFFICES ASSUME ~Excused' PROVE Following'
    BY <1>1, <1>2 DEF Followed
  <2>1. ~Excused /\ Quiet
    BY <1>3, <1>4, CalmIsQuiet
  <2>2. Following /\ errs = {} /\ ~Rolling
    BY <1>2, <2>1 DEF Followed, Excused
  <2>3. \A i \in Heard : Exists(i, Seen) <=> Exists(i, live)
    BY <2>1, <2>2, SeenIsLive
  <2>4. CurrentStage.waits \subseteq Heard
    BY <1>2, HeardItems
\* It does not wait for a rollout, for then there would be one.
  <2>5. \/ \E i \in CurrentStage.waits : ~Exists(i, live)
        \/ CurrentStage.after \cap prog # {}
    <3> SUFFICES ASSUME CurrentStage.workload.mode = "wait",
                        Exists(CurrentStage.workload.object, listed),
                        ~RolledOut(listed[CurrentStage.workload.object])
                 PROVE  FALSE
      BY <1>1, <2>2, <2>3, <2>4 DEF Waits
    <3> DEFINE w == CurrentStage.workload.object
    <3>1. w # "none" /\ w \in Objects
      <4>1. CurrentStage.workload # NoWorkload
        BY DEF NoWorkload, Workload
      <4>2. w \in ToSet(CurrentStage.objects) /\ ToSet(CurrentStage.objects) \subseteq Objects
        BY <1>2, <4>1, Stages
      <4> QED BY <1>2, <4>2, ItemKinds
    <3>2. w \in Workloads
      BY <1>2, <3>1, WorkloadsAreObjects
    <3>3. w \in Heard \ Ctl.roots
      BY <1>2, <3>1, <3>2, HeardItems, Wiring, ItemKinds
    <3>4. listed[w] = live[w] /\ live[w].owner = "us"
      BY <2>2, <3>1, <3>3 DEF Following, ListedIsLive, SameItem, Exists
    <3> QED BY <2>2, <3>1, <3>2, <3>4 DEF Rolling, RollsOut, Exists
  <2>6. Done(pc[1])
    <3>1. CASE \E i \in CurrentStage.waits : ~Exists(i, live)
      BY <1>2, <3>1 DEF Done, Held
    <3>2. ASSUME NEW a \in CurrentStage.after \cap prog PROVE Done(pc[1])
      <4>1. \E i \in Ctl.stages[a].waits : ~Exists(i, live)
        BY <1>2, <2>2, <3>2 DEF Following, AwaitedAreHeld
      <4>2. Ctl.stages[a].waits # {}
        BY <4>1
      <4> QED BY <1>2, <4>1, <4>2 DEF Done, Held
    <3> QED BY <2>5, <3>1, <3>2
  <2>7. \A s \in DOMAIN Ctl.stages : s < pc'[1] /\ HeardStage(s) => s < pc[1] \/ Done(s)'
    <3>1. pc'[1] = pc[1] + 1
      BY <1>1 DEF AfterStage
    <3>2. \A s \in DOMAIN Ctl.stages : s < pc'[1] => s < pc[1] \/ s = pc[1]
      BY <1>2, <3>1
    <3>3. \A s \in DOMAIN Ctl.stages : HeardStage(s) /\ Done(s) => Done(s)'
      BY <1>1, <1>2, <1>4, <2>1, QuietStays
    <3> QED BY <2>6, <3>2, <3>3
  <2>8. CurrentIsRight'
    <3>1. ~(pc'[2] > 0)
      BY <1>1 DEF AfterStage
    <3> QED BY <3>1 DEF CurrentIsRight
  <2>9. ASSUME NEW s \in DOMAIN Ctl.stages, NEW a \in Ctl.stages[s].after \cap prog', a \notin prog
        PROVE  \E i \in Ctl.stages[a].waits : ~Exists(i, live)
    <3>1. a \in DOMAIN Ctl.stages /\ Ctl.stages[a].after = {} /\ Ctl.stages[a].workload = NoWorkload
      BY <1>2, Wiring
    <3>2. a = pc[1]
      <4>1. prog \cup {pc[1]} \in SUBSET DOMAIN Ctl.stages
        BY <1>2
      <4> QED BY <1>1, <1>2, <2>9, <3>1, <4>1, Progress
    <3> QED BY <1>2, <2>5, <3>1, <3>2
  <2> QED BY <1>1, <1>2, <1>4, <2>1, <2>2, <2>7, <2>8, <2>9, FollowingMoves
<1> QED BY <1>4, <1>5

\* A prune that wakes nobody finds nothing to delete.
LEMMA PruneFollowed ==
  ASSUME ChangesAreAnnounced, TInv, TInv', Announced, Followed, Prune
  PROVE  Announced' /\ Followed'
<1>1. /\ InStage /\ pc[2] = 0 /\ UNCHANGED <<ctl, cache, events>> /\ Announced'
      /\ \E X : Calm(X)
      /\ ~Panics => \E done : /\ Prunes(done, TRUE) \/ Prunes(done, FALSE)
                              /\ Calm(done) /\ done \subseteq Objects \ Silent
  BY PruneOutcome, PruneCalm
<1>2. /\ ctl \in Controllers /\ pc[1] \in DOMAIN Ctl.stages /\ CurrentStage = Ctl.stages[pc[1]]
      /\ NextStep # Idle /\ pc # Idle /\ pc[1] \in Nat /\ DOMAIN Ctl.stages \subseteq Nat
      /\ Ctl' = Ctl /\ Objects' = Objects /\ Silent' = Silent
  BY <1>1, Steps, Stages, SameController, NextViews DEF TInv, TypeOK, CurrentStage
<1>3. Followed'
  <2> SUFFICES ASSUME ~Excused' PROVE Following' /\ pc' # Idle
    BY DEF Followed
  <2>1. ~Excused /\ Quiet
    BY <1>1, CalmIsQuiet
  <2>2. Following
    BY <1>2, <2>1 DEF Followed
  <2>3. ~Panics
    BY DEF Panics, Return, Excused
  <2>4. PICK done : /\ Prunes(done, TRUE) \/ Prunes(done, FALSE)
                    /\ Calm(done) /\ done \subseteq Objects \ Silent
    BY <1>1, <2>3
  <2>5. Prunes(done, TRUE)
    BY <2>4 DEF Prunes, Excused
  <2>6. done = {}
    <3>1. (TInv /\ Announced /\ ("spec" \in stale \/ \E x \in Objects \ Silent : x \in mine) => Excused)'
      BY NextMarked
    <3>2. mine' = mine \cup done
      BY <2>5 DEF Prunes
    <3> QED BY <1>1, <1>2, <2>4, <3>1, <3>2
  <2>7. /\ Excess(CurrentStage) = {} /\ pc' = NextStep /\ listed' = listed /\ errs' = errs
        /\ \A t \in DOMAIN Ctl.stages \ {pc[1]} : t \in prog' <=> t \in prog
        /\ CurrentStage.workload.mode # "listed" => (pc[1] \in prog' => pc[1] \in prog)
    BY <2>5, <2>6 DEF Prunes
  <2>8. ASSUME HeardStage(pc[1]), NEW o \in ToSet(CurrentStage.objects)
        PROVE  Exists(o, live) => Required(o, live)
    <3>1. o \in Objects /\ Depends(o) \subseteq Heard /\ o \notin Ctl.roots
      BY <1>2, <2>8, Stages, ItemKinds DEF HeardStage
    <3>2. CASE o \in Silent
      BY <1>2, <3>2, SilentObjects DEF Announced, Switches
    <3>3. CASE o \notin Silent
      <4>1. Exists(o, live) => Exists(o, listed)
        <5>1. o \in Heard
          BY <1>2, <3>1, <3>3, HeardItems
        <5> QED BY <2>2, <3>1, <5>1 DEF Following, ListedIsLive, SameItem, Exists
      <4>2. Exists(o, listed) => Required(o, Seen)
        BY <2>7, <2>8 DEF Excess
      <4> QED BY <2>1, <2>2, <3>1, <4>1, <4>2, SeenIsLive
    <3> QED BY <3>2, <3>3
  <2>9. ASSUME HeardStage(pc[1]), NEW o \in ToSet(CurrentStage.objects)
        PROVE  Exists(o, live)' => Required(o, live)'
    <3>1. o \in Objects /\ Depends(o) \subseteq Heard
      BY <1>2, <2>9, Stages DEF HeardStage
    <3> QED BY <1>1, <1>2, <2>1, <2>8, <2>9, <3>1, QuietStays
  <2>10. /\ DOMAIN CurrentStage.objects = 1 .. Len(CurrentStage.objects) /\ Len(CurrentStage.objects) \in Nat
         /\ ToSet(CurrentStage.objects) = {CurrentStage.objects[k] : k \in 1 .. Len(CurrentStage.objects)}
    BY <1>2, Stages
  <2>11. \A s \in DOMAIN Ctl.stages : s < pc'[1] /\ HeardStage(s) => s < pc[1] \/ Done(s)'
    <3>1. CASE EndsStage
      <4>1. ToSet(CurrentStage.objects) = {}
        BY <1>1, <2>10, <3>1 DEF EndsStage
      <4>2. Done(pc[1])
        BY <1>2, <4>1 DEF Done, UpToDate
      <4>3. pc'[1] = pc[1] + 1
        BY <2>7, <3>1 DEF NextStep, AfterStage
      <4>4. \A s \in DOMAIN Ctl.stages : s < pc'[1] => s < pc[1] \/ s = pc[1]
        BY <1>2, <4>3
      <4>5. \A s \in DOMAIN Ctl.stages : HeardStage(s) /\ Done(s) => Done(s)'
        BY <1>1, <1>2, <2>1, QuietStays
      <4> QED BY <4>2, <4>4, <4>5
    <3>2. CASE ~EndsStage
      BY <2>7, <3>2 DEF NextStep
    <3> QED BY <3>1, <3>2
  <2>12. CurrentIsRight'
    <3>1. CASE EndsStage
      <4>1. pc'[2] = 0
        BY <2>7, <3>1 DEF NextStep, AfterStage
      <4> QED BY <4>1 DEF CurrentIsRight
    <3>2. CASE ~EndsStage
      <4>1. pc'[1] = pc[1] /\ pc'[2] = 1
        BY <1>1, <2>7, <3>2 DEF NextStep
      <4>2. 1 .. pc'[2] - 1 = {}
        BY <4>1
      <4> QED BY <1>1, <1>2, <2>1, <2>9, <4>1, <4>2, CurrentFrom
    <3> QED BY <3>1, <3>2
  <2>13. ASSUME NEW s \in DOMAIN Ctl.stages, NEW a \in Ctl.stages[s].after \cap prog' PROVE a \in prog
    <3>1. a \in DOMAIN Ctl.stages /\ Ctl.stages[a].workload.mode # "listed"
      BY <1>2, Wiring DEF NoWorkload, Workload
    <3> QED BY <1>2, <2>7, <2>13, <3>1
  <2> QED BY <1>1, <1>2, <2>1, <2>2, <2>7, <2>11, <2>12, <2>13, FollowingMoves
<1> QED BY <1>1, <1>3

\* An object that is applied without waking the controller is right.
LEMMA ApplyFollowed ==
  ASSUME ChangesAreAnnounced, TInv, TInv', Announced, Followed, ApplyGenericWithHandlers
  PROVE  Announced' /\ Followed'
<1>1. PICK o \in Applicable :
        \/ NotRequired(o) \/ ApplyCreate(o) \/ ApplyNotOurs(o) \/ ApplyEqual(o)
        \/ ApplyUpdate(o) \/ ApplyRecreate(o) \/ ApplyFails(o)
  BY DEF ApplyGenericWithHandlers
<1>2. PICK kind \in Kinds : Outcome(o, kind) /\ Passes(o, kind)
  BY <1>1, ApplyOutcome
<1>3. /\ InStage /\ o \in Objects /\ pc[2] \in 1 .. Len(CurrentStage.objects)
      /\ o = CurrentStage.objects[pc[2]] /\ o \in ToSet(CurrentStage.objects)
      /\ pc' = NextStep /\ listed' = listed /\ ctl' = ctl
  BY <1>1, <1>2, AppliedObject DEF Passes
<1>4. /\ ctl \in Controllers /\ pc[1] \in DOMAIN Ctl.stages /\ CurrentStage = Ctl.stages[pc[1]]
      /\ NextStep # Idle /\ pc # Idle /\ pc[1] \in Nat /\ DOMAIN Ctl.stages \subseteq Nat
      /\ Ctl' = Ctl /\ Objects' = Objects /\ Silent' = Silent
  <2>1. ctl \in Controllers
    BY DEF TInv, TypeOK
  <2>2. pc[1] \in DOMAIN Ctl.stages /\ NextStep # Idle /\ pc # Idle
    BY <1>3, <2>1, Steps DEF TInv, TypeOK
  <2>3. DOMAIN Ctl.stages \subseteq Nat
    <3>1. DOMAIN Ctl.stages = 1 .. Len(Ctl.stages)
      BY <2>1, Stages
    <3> QED BY <3>1
  <2>4. Ctl' = Ctl /\ Objects' = Objects /\ Silent' = Silent
    BY <1>3, SameController, NextViews
  <2> QED BY <2>1, <2>2, <2>3, <2>4 DEF CurrentStage
<1>5. /\ Announced'
      /\ IF kind \in {"written", "deleted"} THEN Calm({o}) /\ o \in mine'
                                            ELSE Calm({}) /\ live' = live
      /\ kind = "written" => /\ live'[o].owner = "us" /\ live'[o].content = Render(o, Seen)
                             /\ \A i \in Items \ {o} : live'[i] = live[i]
  BY <1>2, ApplyCalm
<1>6. Followed'
  <2> SUFFICES ASSUME ~Excused' PROVE Following' /\ pc' # Idle
    BY DEF Followed
  <2>1. ~Excused /\ Quiet
    BY <1>5, CalmIsQuiet
  <2>2. Following
    BY <1>4, <2>1 DEF Followed
  <2>3. kind \in {"skipped", "equal", "written"} /\ errs' = errs
    BY <1>2 DEF Outcome, Kinds, Excused
  <2>4. kind = "written" => o \in Silent
    <3>1. (TInv /\ Announced /\ ("spec" \in stale \/ \E x \in Objects \ Silent : x \in mine) => Excused)'
      BY NextMarked
    <3> QED BY <1>3, <1>4, <1>5, <3>1
  <2>5. ASSUME HeardStage(pc[1]) PROVE Right(o)'
    <3>1. Depends(o) \subseteq Heard
      BY <1>3, <1>4, <2>5 DEF HeardStage
    <3>2. (Required(o, Seen) <=> Required(o, live)) /\ Render(o, Seen) = Render(o, live)
      BY <1>3, <2>1, <2>2, <3>1, SeenIsLive
    <3>3. Right(o) => Right(o)'
      BY <1>3, <1>4, <1>5, <2>1, <3>1, QuietStays
    <3>4. CASE kind = "skipped"
      <4>1. ~Required(o, live)
        BY <1>2, <3>2, <3>4 DEF Outcome
      <4>2. Exists(o, live) => Required(o, live)
        <5>1. pc[2] > 0
          BY <1>3
        <5> QED BY <1>3, <2>2, <2>5, <5>1 DEF Following, CurrentIsRight
      <4> QED BY <3>3, <4>1, <4>2 DEF Right
    <3>5. CASE kind = "equal"
      <4>1. /\ Required(o, live) /\ cache[o].owner = "us" /\ cache[o].content = Render(o, live)
        BY <1>2, <3>2, <3>5 DEF Outcome
      <4>2. CASE o \in Silent
        BY <1>3, <3>3, <4>1, <4>2 DEF Announced, Exists, Right
      <4>3. CASE o \notin Silent
        <5>1. o \in Heard
          BY <1>3, <1>4, <4>3, HeardItems
        <5>2. SameItem(o, cache, live)
          BY <2>1, <5>1, NothingPending DEF Excused
        <5> QED BY <1>3, <3>3, <4>1, <5>2 DEF SameItem, Exists, Right
      <4> QED BY <4>2, <4>3
    <3>6. CASE kind = "written"
      <4>1. o \in Silent /\ Exists(o, live)'
        BY <1>3, <1>4, <1>5, <2>4, <3>6 DEF Exists
      <4>2. live'[o].content = Render(o, live)'
        BY <1>4, <1>5, <4>1 DEF Announced
      <4>3. Required(o, live)'
        <5>1. SwitchedOn(live')
          BY <1>3, <1>5, SameController DEF Announced, Switches, SwitchedOn
        <5> QED BY <1>3, <1>4, <4>1, <5>1, SilentObjects, NextViews
      <4> QED BY <4>1, <4>2, <4>3 DEF Right
    <3> QED BY <2>3, <3>4, <3>5, <3>6
  <2>6. /\ DOMAIN CurrentStage.objects = 1 .. Len(CurrentStage.objects) /\ Len(CurrentStage.objects) \in Nat
        /\ ToSet(CurrentStage.objects) = {CurrentStage.objects[k] : k \in 1 .. Len(CurrentStage.objects)}
        /\ pc[2] \in Nat /\ pc[2] > 0
    <3>1. /\ DOMAIN CurrentStage.objects = 1 .. Len(CurrentStage.objects) /\ Len(CurrentStage.objects) \in Nat
          /\ ToSet(CurrentStage.objects) = {CurrentStage.objects[k] : k \in 1 .. Len(CurrentStage.objects)}
      BY <1>4, Stages
    <3>2. pc[2] \in 1 .. Len(CurrentStage.objects)
      BY <1>3
    <3>3. pc[2] \in Nat /\ pc[2] > 0
      BY <3>1, <3>2
    <3> QED BY <3>1, <3>3
\* All objects up to this one are right, and none is there that is not required.
  <2>7. ASSUME HeardStage(pc[1])
        PROVE  /\ \A x \in ToSet(CurrentStage.objects) : Exists(x, live)' => Required(x, live)'
               /\ \A k \in 1 .. pc[2] : \A x : x = CurrentStage.objects[k] => Right(x)'
    <3>1. /\ \A x \in ToSet(CurrentStage.objects) : Exists(x, live)' => Required(x, live)'
          /\ \A k \in 1 .. pc[2] - 1 : \A x : x = CurrentStage.objects[k] => Right(x)'
      BY <1>3, <1>5, <2>1, <2>2, <2>6, <2>7, CurrentStays DEF Following
    <3>2. ASSUME NEW k \in 1 .. pc[2], NEW x, x = CurrentStage.objects[k] PROVE Right(x)'
      <4>1. CASE k = pc[2]
        <5>1. x = o
          BY <1>3, <3>2, <4>1
        <5> QED BY <2>5, <2>7, <5>1
      <4>2. CASE k # pc[2]
        <5>1. k \in 1 .. pc[2] - 1
          BY <2>6, <4>2
        <5> QED BY <3>1, <3>2, <5>1
      <4> QED BY <4>1, <4>2
    <3> QED BY <3>1, <3>2
  <2>8. \A s \in DOMAIN Ctl.stages : s < pc'[1] /\ HeardStage(s) => s < pc[1] \/ Done(s)'
    <3>1. CASE EndsStage
      <4>1. ASSUME NEW s \in DOMAIN Ctl.stages, s = pc[1], HeardStage(s) PROVE Done(s)'
        <5>1. \A k \in 1 .. Len(CurrentStage.objects) :
                \A x : x = CurrentStage.objects[k] => Right(x)'
          BY <2>7, <3>1, <4>1 DEF EndsStage
        <5>2. CurrentStage = Ctl.stages[s]
          BY <1>4, <4>1
        <5>3. \A x \in ToSet(Ctl.stages[s].objects) : Right(x)'
          BY <2>6, <5>1, <5>2
        <5> QED BY <1>4, <5>3 DEF UpToDate, Right, Done
      <4>2. pc'[1] = pc[1] + 1
        BY <1>3, <3>1 DEF NextStep, AfterStage
      <4>3. \A s \in DOMAIN Ctl.stages : s < pc'[1] => s < pc[1] \/ s = pc[1]
        BY <1>4, <4>2
      <4> QED BY <4>1, <4>3
    <3>2. CASE ~EndsStage
      BY <1>3, <3>2 DEF NextStep
    <3> QED BY <3>1, <3>2
  <2>9. CurrentIsRight'
    <3>1. CASE EndsStage
      <4>1. pc'[2] = 0
        BY <1>3, <3>1 DEF NextStep, AfterStage
      <4> QED BY <4>1 DEF CurrentIsRight
    <3>2. CASE ~EndsStage
      <4>1. pc'[1] = pc[1] /\ pc'[2] = pc[2] + 1
        BY <1>3, <3>2 DEF NextStep
      <4>2. pc'[2] - 1 = pc[2]
        BY <2>6, <4>1
      <4> QED BY <1>3, <1>4, <1>5, <2>1, <2>7, <4>1, <4>2, CurrentFrom
    <3> QED BY <3>1, <3>2
  <2>10. ASSUME NEW s \in DOMAIN Ctl.stages, NEW a \in Ctl.stages[s].after \cap prog' PROVE a \in prog
    <3>1. /\ a \in DOMAIN Ctl.stages /\ Ctl.stages[a].workload.mode \notin {"listed", "report"}
          /\ ToSet(Ctl.stages[a].objects) \cap Silent = {}
      BY <1>4, Wiring DEF NoWorkload, Workload
    <3>2. CASE a # pc[1]
      BY <1>2, <2>10, <3>1, <3>2 DEF Passes
    <3>3. CASE a = pc[1]
      <4>1. kind \in {"skipped", "equal"}
        BY <1>3, <1>4, <2>3, <2>4, <3>1, <3>3
      <4>2. CurrentStage.workload.mode # "listed" /\ CurrentStage.workload # Workload(o, "report")
        BY <1>4, <3>1, <3>3 DEF Workload
      <4> QED BY <1>2, <2>10, <3>3, <4>1, <4>2 DEF Passes
    <3> QED BY <3>2, <3>3
  <2> QED BY <1>3, <1>4, <1>5, <2>1, <2>2, <2>8, <2>9, <2>10, FollowingMoves
<1> QED BY <1>5, <1>6

\* A sync that ends with nothing left to do has brought everything up to date.
LEMMA StatusFollowed ==
  ASSUME ChangesAreAnnounced, TInv, TInv', Announced, Followed, updateStatus
  PROVE  Announced' /\ Followed'
<1>1. /\ Announced' /\ pc' = Idle /\ pc = StatusStep /\ ctl' = ctl /\ ctl \in Controllers
      /\ \/ Calm({}) /\ live' = live /\ (~queue' => errs = {} /\ ~queue)
         \/ Calm({"spec"}) /\ "spec" \in stale'
  BY StatusCalm, StatusOutcome DEF TInv, TypeOK
<1>2. Followed'
  <2> SUFFICES ASSUME ~Excused' PROVE Converged'
    BY <1>1 DEF Followed
  <2>1. ~("spec" \in stale')
    <3>1. (TInv /\ Announced /\ ("spec" \in stale \/ \E x \in Objects \ Silent : x \in mine) => Excused)'
      BY NextMarked
    <3> QED BY <1>1, <3>1
  <2>2. ~Excused /\ Quiet
    BY <1>1, <2>1, CalmIsQuiet
  <2>3. pc # Idle /\ Following
    BY <1>1, <2>2, Stages DEF Followed
  <2>4. \A s \in DOMAIN Ctl.stages : s < pc[1]
    <3>1. DOMAIN Ctl.stages = 1 .. Len(Ctl.stages) /\ Len(Ctl.stages) \in Nat
      BY <1>1, Stages
    <3>2. pc[1] = Len(Ctl.stages) + 1
      BY <1>1 DEF StatusStep
    <3> QED BY <3>1, <3>2
  <2>5. \A s \in DOMAIN Ctl.stages : HeardStage(s) => Done(s)
    BY <2>3, <2>4 DEF Following, PassedAreDone
  <2>6. Converged
    BY <1>1, <2>5, AllAreHeard DEF Converged, Done
  <2> QED BY <1>1, <2>2, <2>6, ConvergedStays
<1> QED BY <1>1, <1>2

\* An event that is delivered without waking the controller leaves as much to do as before.
LEMMA DeliverFollowed ==
  ASSUME ChangesAreAnnounced, TInv, TInv', Announced, Followed, NEW i \in stale, Deliver(i)
  PROVE  Announced' /\ Followed'
<1>1. /\ UNCHANGED <<ctl, live, pc, listed, prog, errs>> /\ queue' = (queue \/ Wakes(i))
      /\ stale' = stale \ {i} /\ mine' = mine \ {i} /\ i \in Items /\ ctl \in Controllers
      /\ cache' = [cache EXCEPT ![i] = live[i]]
  BY DEF Deliver, TInv, TypeOK
<1>2. cache'[i] = live[i] /\ \A j \in Items \ {i} : cache'[j] = cache[j]
  BY <1>1, KeptViews
<1>3. /\ "spec" \in Items /\ Silent \subseteq Objects /\ Objects \subseteq Items
      /\ Ctl' = Ctl /\ Objects' = Objects /\ Resolved' = Resolved /\ Workloads' = Workloads
      /\ Resolved \cap Objects = {} /\ \A j \in Resolved : Ctl.through[j] \in Objects \ Silent
  <2>1. Workloads' = Workloads
    BY <1>1 DEF Workloads
  <2> QED BY <1>1, <2>1, ItemKinds, Wiring, SameController, NextViews
<1>4. Announced'
  <2>1. Switches'
    BY <1>1, <1>2, <1>3, SwitchesKept DEF Announced
  <2>2. \A o \in Objects : live'[o].owner = "us" /\ cache'[o].owner # "us" => o \in mine'
    BY <1>1, <1>2, <1>3 DEF Announced, Exists
  <2>3. \A o \in Silent : /\ cache'[o].owner = "us" => live'[o].owner = "us"
                          /\ live'[o].owner = "us" => live'[o].content = Render(o, live)
    BY <1>1, <1>2, <1>3 DEF Announced, Exists
  <2> QED BY <1>1, <2>1, <2>2, <2>3, AnnouncedFrom DEF Announced
<1>5. Quiet
  BY <1>1 DEF Quiet, SameItem
<1>6. Followed'
  <2> SUFFICES ASSUME ~Excused' PROVE Followed'
    BY DEF Followed
  <2>1. ~Awakening(i)
    BY <1>1, WhatWakes DEF Excused
  <2>2. ~Pending
    <3> SUFFICES ASSUME NEW j \in stale, Awakening(j) PROVE FALSE
      BY WhatWakes DEF Pending
    <3>1. j # i /\ j \in stale' /\ j \in Items
      BY <1>1, <2>1 DEF TInv, TypeOK
    <3>2. ASSUME j \in Resolved PROVE Exists(Ctl.through[j], cache)'
      <4> DEFINE t == Ctl.through[j]
      <4>1. t \in Objects \ Silent /\ cache[t].owner = "us"
        BY <1>3, <3>2 DEF Awakening, Exists
      <4>2. t # i
        <5>1. t \in Ctl.wakes /\ t \notin Resolved
          BY <1>1, <1>3, <4>1, Wiring
        <5>2. Exists(t, cache)
          BY <4>1 DEF Exists
        <5> QED BY <2>1, <5>1, <5>2 DEF Awakening
      <4> QED BY <1>2, <1>3, <4>1, <4>2 DEF Exists
    <3>3. Awakening(j)'
      <4>1. j \in Objects => (Exists(j, cache)' \/ j \in mine')
        BY <1>1, <1>2, <1>3, <3>1 DEF Awakening, Exists
      <4> QED BY <1>3, <3>2, <4>1 DEF Awakening
    <3>4. (TInv /\ Announced => \A k \in stale : Wakes(k) <=> Awakening(k))'
      BY NextMarked
    <3> QED BY <1>4, <3>1, <3>3, <3>4 DEF Excused, Pending
  <2>3. ~Rolling
    <3>1. Rolling' <=> Rolling
      BY <1>1, <1>3 DEF Rolling, RollsOut, Exists
    <3> QED BY <3>1 DEF Excused
  <2>4. ~Excused
    BY <1>1, <2>2, <2>3 DEF Excused
  <2> QED BY <1>1, <1>4, <1>5, <2>4, OthersFollowed
<1> QED BY <1>4, <1>6

LEMMA FollowedStays ==
  ASSUME ChangesAreAnnounced, TInv, Announced, Followed, [Next]_vars
  PROVE  Announced' /\ Followed'
<1>0. TInv' /\ ctl' = ctl /\ ctl \in Controllers
  BY TypeNext, ControllerSame DEF TInv, TypeOK, vars
<1>1. CASE sync
  BY <1>1, SyncFollowed
<1>2. CASE StageWaits
  BY <1>0, <1>2, WaitFollowed
<1>3. CASE Prune
  BY <1>0, <1>3, PruneFollowed
<1>4. CASE ApplyGenericWithHandlers
  BY <1>0, <1>4, ApplyFollowed
<1>5. CASE updateStatus
  BY <1>0, <1>5, StatusFollowed
<1>6. CASE Restart
  <2>1. /\ live' = live /\ cache' = live /\ stale' = {} /\ mine' = {} /\ pc' = Idle /\ queue' = TRUE
    BY <1>6 DEF Restart
  <2>2. Silent \subseteq Objects
    BY <1>0, Wiring
  <2>3. Switches'
    BY <1>0, <2>1, SwitchesKept DEF Announced
  <2>4. Announced'
    BY <1>0, <2>1, <2>2, <2>3, AnnouncedFrom DEF Announced, Exists
  <2> QED BY <2>1, <2>4 DEF Followed, Excused
<1>7. ASSUME NEW i \in stale, Deliver(i) PROVE Announced' /\ Followed'
  BY <1>0, <1>7, DeliverFollowed
<1>8. CASE Others \/ (\E o \in Workloads : RollOut(o))
  <2>1. /\ UNCHANGED <<pc, listed, prog, errs>> /\ Announced'
        /\ \E X : Calm(X)
    BY <1>8, OthersCalm
  <2>2. ASSUME ~Excused' PROVE Followed'
    BY <1>0, <2>1, <2>2, CalmIsQuiet, OthersFollowed
  <2> QED BY <2>1, <2>2 DEF Followed
<1>9. CASE UNCHANGED vars
  <2>1. /\ UNCHANGED <<ctl, live, cache, stale, mine, queue, pc, listed, prog, errs>> /\ Calm({})
    BY <1>9 DEF vars, Calm
  <2>2. Switches'
    <3>1. pc' = Idle \/ (pc # Idle /\ listed' = listed)
      BY <2>1
    <3> QED BY <2>1, <3>1, SwitchesKept DEF Announced
  <2>3. Announced'
    BY <2>1, <2>2, CalmAnnounced
  <2>4. ASSUME ~Excused' PROVE Followed'
    BY <1>0, <2>1, <2>3, <2>4, CalmIsQuiet, OthersFollowed
  <2> QED BY <2>3, <2>4 DEF Followed
<1> QED BY <1>1, <1>2, <1>3, <1>4, <1>5, <1>6, <1>7, <1>8, <1>9 DEF Next, Controller

\* When nothing is left in the queue, in the informers, in a running sync and to roll
\* out, every object is what the current inputs ask for, however long the informers lag,
\* whatever calls fail and whenever the operator dies: no change of an input, of an owned
\* object or of a reference is slept through, if changes by others are announced.
THEOREM NoWakeupIsLost ==
  ASSUME ChangesAreAnnounced
  PROVE  Spec => []NoLostWakeup
<1>1. Init => TInv /\ Announced /\ Followed
  BY TypeInit, AnnouncedInit DEF Init, Followed, Excused
<1>2. TInv /\ Announced /\ Followed /\ [Next]_vars => (TInv /\ Announced /\ Followed)'
  BY TypeNext, FollowedStays
<1>3. TInv /\ Followed => NoLostWakeup
  BY DEF TInv, TypeOK, Followed, Excused, Pending, Rolling, NoLostWakeup
<1> QED BY <1>1, <1>2, <1>3, PTL DEF Spec

=============================================================================
