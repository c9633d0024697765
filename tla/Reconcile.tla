----------------------------- MODULE Reconcile -----------------------------
(* One controller of the operator against the API server: informer caches   *)
(* that lag behind, the work queue, a sync that lists, prunes, applies and  *)
(* writes its status one API call at a time, other writers of the same      *)
(* objects, failing calls and restarts.  Which controller it is is chosen   *)
(* in the initial state; the description of a controller says what it       *)
(* renders and what wakes it up.                                            *)
EXTENDS ObjectGraph

D == INSTANCE DatacenterObjects
M == INSTANCE MonitoringObjects
N == INSTANCE NodeConfigObjects

CONSTANTS Controllers,  \* the controllers a behaviour may be about
          Fresh,        \* those that start with none of their objects
          Perturbed,    \* items that others change or delete
          Foreign,      \* names that another owner may take
          Options,      \* what an edit of the spec may switch off and on
          MaxEvents,    \* changes made by others
          MaxFaults,    \* failing calls and restarts
          MaxLag        \* items whose cached state may be old at a time

ASSUME BoundsAssumption == MaxEvents \in Nat /\ MaxFaults \in Nat /\ MaxLag \in Nat \ {0}

Description ==
    [datacenter |-> D!ScyllaDBDatacenterController,
     monitoring |-> M!ScyllaDBMonitoringController,
     nodeconfig |-> N!NodeConfigController,
     nodeconfigpod |-> N!NodeConfigPodController,
     globalmanager |-> N!GlobalScyllaDBManagerController]

(* What every description has in common: the items have different names,    *)
(* nothing refers to an item that is not there, a stage waits for earlier   *)
(* stages only, and applies the workload it reports on.                     *)
WellDescribed(d) ==
    LET objects == DOMAIN d.objects
        inputs  == d.roots \cup objects
    IN /\ "spec" \notin inputs /\ "none" \notin objects /\ d.roots \cap objects = {}
       /\ d.requires \subseteq d.roots
       /\ \A o \in objects :
             /\ d.objects[o].reads \subseteq inputs \cup {"spec"}
             /\ d.objects[o].while \subseteq inputs
       /\ d.stages \in Seq([waits : SUBSET inputs, after : SUBSET Nat,
                            workload : [object : objects \cup {"none"},
                                        mode : {"none", "wait", "report", "listed"}],
                            objects : Seq(objects), filtersNil : BOOLEAN])
       /\ \A s \in DOMAIN d.stages :
             LET stage == d.stages[s]
             IN /\ stage.after \subseteq 1 .. s - 1
                /\ stage.workload # NoWorkload =>
                      /\ stage.workload.mode # "none"
                      /\ stage.workload.object \in ToSet(stage.objects)

ASSUME DescriptionAssumption ==
    /\ Controllers \subseteq DOMAIN Description
    /\ \A c \in Controllers : WellDescribed(Description[c])

(* What has to hold of the handlers for a controller never to sleep through *)
(* a change: the spec wakes it; an object whose events wake nobody          *)
(* ("unwatched") is the same whatever else changes, and nothing is rendered *)
(* from it, waits for it or reports on it; and an object through which the  *)
(* events of an input are resolved is applied whatever becomes of the input.*)
Unwatched(d) == DOMAIN d.objects \ d.wakes

Always(d, o) == d.objects[o].option = "always" /\ d.objects[o].while = {}

DependsOn(d, o, items) == (d.objects[o].reads \cup d.objects[o].while) \cap items # {}

AppliedRegardless(d, s) ==
    \A o \in ToSet(d.stages[s].objects) : ~DependsOn(d, o, DOMAIN d.through)

WellWired(d) ==
    /\ "spec" \in d.wakes /\ d.ifPresent \subseteq d.roots
    /\ DOMAIN d.through \subseteq d.roots \ d.requires
    /\ \A o \in DOMAIN d.objects : ~DependsOn(d, o, Unwatched(d))
    /\ \A o \in Unwatched(d) :
          d.objects[o].reads = {} /\ d.objects[o].while = {} /\ ~d.objects[o].recreated
    /\ \A s \in DOMAIN d.stages :
          /\ d.stages[s].waits \cap (Unwatched(d) \cup DOMAIN d.through) = {}
          /\ d.stages[s].workload.object \notin Unwatched(d)
          /\ \A a \in d.stages[s].after :
                /\ d.stages[a].after = {} /\ d.stages[a].workload = NoWorkload
                /\ ToSet(d.stages[a].objects) \cap Unwatched(d) = {}
    /\ \A i \in DOMAIN d.through :
          /\ d.through[i] \in DOMAIN d.objects \cap d.wakes /\ Always(d, d.through[i])
          /\ \E s \in DOMAIN d.stages :
                /\ d.through[i] \in ToSet(d.stages[s].objects) /\ AppliedRegardless(d, s)
                /\ \A a \in d.stages[s].after : d.stages[a].waits = {}
                /\ \A w \in d.stages[s].waits :
                      /\ w \in DOMAIN d.objects /\ Always(d, w)
                      /\ \E q \in DOMAIN d.stages :
                            /\ w \in ToSet(d.stages[q].objects) /\ AppliedRegardless(d, q)
                            /\ d.stages[q].waits = {} /\ d.stages[q].after = {}

ASSUME WiringAssumption == \A c \in Controllers : WellWired(Description[c])

VARIABLES ctl,     \* the controller
          live,    \* the state of every item in the API server
          cache,   \* the state of every item in the informers
          stale,   \* items with an event that the informers have not delivered
          mine,    \* the stale items that a write of ours made stale
          queue,   \* whether the key of the resource is in the work queue
          pc,      \* the step of the sync, Idle when no sync runs
          listed,  \* the spec and the objects as the sync listed them
          prog,    \* stages of this sync that are Progressing
          errs,    \* stages of this sync that failed
          events, faults

vars == <<ctl, live, cache, stale, mine, queue, pc, listed, prog, errs, events, faults>>
world == <<ctl, live, cache, stale, mine, events>>

Ctl == Description[ctl]
Objects == DOMAIN Ctl.objects
Items == {"spec"} \cup Ctl.roots \cup Objects
OwnOptions == {Ctl.objects[o].option : o \in Objects} \ {"always"}
NoStatus == [gen |-> 0, prog |-> TRUE, deg |-> FALSE]
Absent == [owner |-> "none", content |-> <<>>, rolled |-> <<>>]

---------------------------------------------------------------------------
(* Rendering.                                                               *)

Exists(i, view) ==
    IF i \in Objects THEN view[i].owner = "us" ELSE view[i] > 0

(* What a make function finds when it reads an item.                        *)
Look(i, view) ==
    IF i = "spec" THEN view[i].gen
    ELSE IF i \in Ctl.roots THEN view[i]
    ELSE IF Exists(i, view) THEN view[i].content ELSE <<>>

Render(o, view) == [i \in Ctl.objects[o].reads |-> Look(i, view)]

Required(o, view) ==
    /\ Ctl.objects[o].option \in view["spec"].on \cup {"always"}
    /\ \A i \in Ctl.objects[o].while : Exists(i, view)

RolledOut(object) == object.rolled = object.content

(* A sync lists the spec and the objects once and reads the rest as it goes.*)
Seen == [i \in Items |-> IF i \in Ctl.roots THEN cache[i] ELSE listed[i]]

---------------------------------------------------------------------------
(* The steps of a sync: <<s, 0>> enters stage s, <<s, k>> applies its k-th  *)
(* object, and the last step, past all stages, writes the status.           *)
Idle == <<0, 0>>
FirstStep == <<1, 0>>
StatusStep == <<Len(Ctl.stages) + 1, 0>>

InStage == pc \notin {Idle, StatusStep}
CurrentStage == Ctl.stages[pc[1]]

AfterStage == <<pc[1] + 1, 0>>
EndsStage == pc[2] = Len(CurrentStage.objects)
NextStep == IF EndsStage THEN AfterStage ELSE <<pc[1], pc[2] + 1>>

(* The end of a stage whose conditions come from the workload that was      *)
(* listed: they replace what the stage reported.                            *)
OverwriteProgress(s, progress) ==
    LET w == Ctl.stages[s].workload
    IN IF w.mode # "listed" THEN progress
       ELSE IF ~Required(w.object, listed) THEN progress \ {s}
       ELSE IF Exists(w.object, listed) /\ RolledOut(listed[w.object]) THEN progress \ {s}
       ELSE progress \cup {s}

Return(again) ==
    /\ pc' = Idle
    /\ queue' = (queue \/ again)
    /\ listed' = <<>>
    /\ prog' = {}
    /\ errs' = {}

(* A writer waits when too many items are stale: a bound on the model.      *)
MayWrite == Cardinality(stale) < MaxLag

(* Before the first sync, and after the last one of an undisturbed start:   *)
(* some objects are rendered from others, which takes a second round.       *)
Nothing ==
    [i \in Items |-> IF i = "spec" THEN [gen |-> 1, on |-> OwnOptions, status |-> NoStatus]
                     ELSE IF i \in Ctl.roots THEN 1
                     ELSE Absent]

RenderAll(view) ==
    [i \in Items |->
        IF i \in Objects /\ Required(i, view)
        THEN [owner |-> "us", content |-> Render(i, view), rolled |-> Render(i, view)]
        ELSE view[i]]

Installed ==
    [RenderAll(RenderAll(Nothing)) EXCEPT
        !["spec"] = [gen |-> 1, on |-> OwnOptions,
                     status |-> [gen |-> 1, prog |-> FALSE, deg |-> FALSE]]]

Init ==
    /\ ctl \in Controllers
    /\ events = 0
    /\ faults = 0
    /\ stale = {}
    /\ mine = {}
    /\ queue = TRUE
    /\ pc = Idle
    /\ listed = <<>>
    /\ prog = {}
    /\ errs = {}
    /\ live = IF ctl \in Fresh THEN Nothing ELSE Installed
    /\ cache = live

---------------------------------------------------------------------------
(* processNextItem and the head of sync.  A queued key is taken once; the   *)
(* queue holds it again when an event arrives while it is being processed.  *)
sync ==
    /\ pc = Idle /\ queue
    /\ Ctl.readsItsWrites => mine = {}
    /\ IF \E i \in Ctl.requires : ~Exists(i, cache)
       THEN /\ queue' = (Ctl.onMissing = "error")
            /\ UNCHANGED <<pc, listed, prog, errs>>
       ELSE /\ queue' = FALSE
            /\ pc' = FirstStep
            /\ listed' = [i \in Items \ Ctl.roots |-> cache[i]]
            /\ UNCHANGED <<prog, errs>>
    /\ UNCHANGED <<world, faults>>

Waits(stage) ==
    \/ \E i \in stage.waits : ~Exists(i, Seen)
    \/ stage.after \cap (prog \cup errs) # {}
    \/ /\ stage.workload.mode = "wait"
       /\ Exists(stage.workload.object, listed)
       /\ ~RolledOut(listed[stage.workload.object])

(* What Prune deletes: listed, ours, and not required any more.             *)
Excess(stage) ==
    {o \in ToSet(stage.objects) : Exists(o, listed) /\ ~Required(o, Seen)}

(* A delete carries the UID that was listed.                                *)
Deletable(o) == live[o].owner = "us"

(* The stage waits for something: the rest of it is left to a later sync.   *)
StageWaits ==
    /\ InStage /\ pc[2] = 0
    /\ Waits(CurrentStage)
    /\ prog' = OverwriteProgress(pc[1], prog \cup {pc[1]})
    /\ pc' = AfterStage
    /\ UNCHANGED <<world, queue, listed, errs, faults>>

(* One failing delete fails the stage before anything is applied.           *)
PruneExcess(s, gone) ==
    \E deleted \in {gone, {}} :
        /\ deleted = gone \/ faults < MaxFaults
        /\ faults' = IF deleted = gone THEN faults ELSE faults + 1
        /\ LET done == {o \in deleted : Deletable(o)}
               bad  == done # gone
           IN /\ live' = [i \in Items |-> IF i \in done THEN Absent ELSE live[i]]
              /\ stale' = stale \cup done
              /\ mine' = mine \cup done
              /\ errs' = IF bad THEN errs \cup {s} ELSE errs
              /\ prog' = IF bad THEN OverwriteProgress(s, prog)
                         ELSE IF gone # {} /\ Ctl.deletionIsProgress
                              THEN prog \cup {s} ELSE prog
              /\ pc' = IF bad THEN AfterStage ELSE NextStep
        /\ UNCHANGED <<queue, listed>>

(* Where the list of the required objects may hold nil, asking that for its *)
(* name panics: the process starts again, with every key in its queue.      *)
Prune ==
    /\ InStage /\ pc[2] = 0
    /\ LET s     == pc[1]
           stage == CurrentStage
           gone  == Excess(stage)
       IN /\ ~Waits(stage)
          /\ gone # {} => MayWrite
          /\ IF gone = {} \/ stage.filtersNil
             THEN PruneExcess(s, gone)
             ELSE Return(TRUE) /\ UNCHANGED <<live, stale, mine, faults>>
    /\ UNCHANGED <<ctl, cache, events>>

---------------------------------------------------------------------------
(* ApplyGenericWithHandlers for the object of the current step.             *)

(* The object whose turn it is.  A client that reads its own writes waits   *)
(* for the cache to show the last one.                                      *)
Applicable ==
    IF InStage /\ pc[2] > 0
    THEN {CurrentStage.objects[pc[2]]} \ (IF Ctl.readsItsWrites THEN mine ELSE {})
    ELSE {}

Finish(s, progress) ==
    IF EndsStage THEN OverwriteProgress(s, progress) ELSE progress

(* The end of Apply: whether it changed the object, and whether it failed.  *)
Applied(o, changed, failed, rolledOut) ==
    LET s == pc[1]
        unsettled == changed \/ (CurrentStage.workload = Workload(o, "report") /\ ~rolledOut)
    IN /\ pc' = NextStep
       /\ prog' = Finish(s, IF unsettled THEN prog \cup {s} ELSE prog)
       /\ errs' = IF failed THEN errs \cup {s} ELSE errs
       /\ UNCHANGED <<ctl, cache, queue, listed, events>>

NotRequired(o) ==
    /\ ~Required(o, Seen)
    /\ Applied(o, FALSE, FALSE, TRUE)
    /\ UNCHANGED <<live, stale, mine, faults>>

(* Write an object in the API server.                                       *)
Store(o, object) ==
    /\ live' = [live EXCEPT ![o] = object]
    /\ stale' = stale \cup {o}
    /\ mine' = mine \cup {o}

(* Mutant: what exists already under that name is replaced.                 *)
ApplyCreateOrReplace(o) ==
    /\ Required(o, Seen) /\ MayWrite
    /\ cache[o].owner = "none"
    /\ Store(o, [owner |-> "us", content |-> Render(o, Seen), rolled |-> <<>>])
    /\ Applied(o, TRUE, FALSE, FALSE)
    /\ UNCHANGED faults

(* Not in the cache: create it.  When the cache is stale the API server     *)
(* answers that it exists already.                                          *)
ApplyCreate(o) ==
    /\ Required(o, Seen) /\ MayWrite
    /\ cache[o].owner = "none"
    /\ IF live[o].owner = "none"
       THEN /\ Store(o, [owner |-> "us", content |-> Render(o, Seen), rolled |-> <<>>])
            /\ Applied(o, TRUE, FALSE, FALSE)
       ELSE Applied(o, FALSE, TRUE, FALSE) /\ UNCHANGED <<live, stale, mine>>
    /\ UNCHANGED faults

(* In the cache, and controlled by someone else.                            *)
ApplyNotOurs(o) ==
    /\ Required(o, Seen)
    /\ cache[o].owner = "other"
    /\ Applied(o, FALSE, TRUE, FALSE)
    /\ UNCHANGED <<live, stale, mine, faults>>

(* The hashes are equal.                                                    *)
ApplyEqual(o) ==
    /\ Required(o, Seen)
    /\ cache[o].owner = "us" /\ cache[o].content = Render(o, Seen)
    /\ Applied(o, FALSE, FALSE, RolledOut(cache[o]))
    /\ UNCHANGED <<live, stale, mine, faults>>

(* The hashes differ: an update with the resource version of the cache.     *)
ApplyUpdate(o) ==
    /\ Required(o, Seen) /\ MayWrite
    /\ cache[o].owner = "us" /\ cache[o].content # Render(o, Seen)
    /\ IF o \notin stale
       THEN /\ Store(o, [live[o] EXCEPT !.content = Render(o, Seen)])
            /\ Applied(o, TRUE, FALSE, FALSE)
       ELSE Applied(o, FALSE, TRUE, FALSE) /\ UNCHANGED <<live, stale, mine>>
    /\ UNCHANGED faults

(* The hashes differ in an immutable field: delete by name, then create.    *)
(* The second call may fail.                                                *)
ApplyRecreate(o) ==
    /\ Required(o, Seen) /\ MayWrite
    /\ Ctl.objects[o].recreated
    /\ cache[o].owner = "us" /\ cache[o].content # Render(o, Seen)
    /\ \/ /\ live[o].owner = "none"
          /\ Applied(o, FALSE, TRUE, FALSE)
          /\ UNCHANGED <<live, stale, mine, faults>>
       \/ /\ live[o].owner # "none"
          /\ Store(o, [owner |-> "us", content |-> Render(o, Seen), rolled |-> <<>>])
          /\ Applied(o, TRUE, FALSE, FALSE)
          /\ UNCHANGED faults
       \/ /\ live[o].owner # "none"
          /\ faults < MaxFaults
          /\ faults' = faults + 1
          /\ Store(o, Absent)
          /\ Applied(o, FALSE, TRUE, FALSE)

(* The call fails and nothing is written.                                   *)
ApplyFails(o) ==
    /\ Required(o, Seen)
    /\ cache[o].owner = "none" \/ (cache[o].owner = "us" /\ cache[o].content # Render(o, Seen))
    /\ faults < MaxFaults
    /\ faults' = faults + 1
    /\ Applied(o, FALSE, TRUE, FALSE)
    /\ UNCHANGED <<live, stale, mine>>

ApplyGenericWithHandlers ==
    \E o \in Applicable :
        \/ NotRequired(o) \/ ApplyCreate(o) \/ ApplyNotOurs(o) \/ ApplyEqual(o)
        \/ ApplyUpdate(o) \/ ApplyRecreate(o) \/ ApplyFails(o)

---------------------------------------------------------------------------
(* SetAggregatedWorkloadConditions and updateStatus: the status is written  *)
(* when it differs, with the resource version of the spec that was listed.  *)
(* Any error of the sync puts the key back.                                 *)
AggregatedStatusOfErrors ==  \* mutant: only the errors are aggregated
    [gen |-> listed["spec"].gen, prog |-> FALSE, deg |-> errs # {}]

AggregatedStatus ==
    [gen |-> listed["spec"].gen, prog |-> prog # {}, deg |-> errs # {}]

StatusGivenUp == Return(errs # {}) /\ UNCHANGED <<live, stale, mine>>  \* mutant

StatusNotWritten == Return(TRUE) /\ UNCHANGED <<live, stale, mine>>

updateStatus ==
    /\ pc = StatusStep
    /\ IF ~Ctl.hasStatus \/ listed["spec"].status = AggregatedStatus
       THEN Return(errs # {}) /\ UNCHANGED <<live, stale, mine, faults>>
       ELSE /\ MayWrite
            /\ \/ /\ live["spec"] = listed["spec"]
                  /\ stale' = stale \cup {"spec"}
                  /\ live' = [live EXCEPT !["spec"].status = AggregatedStatus]
                  /\ mine' = mine \cup {"spec"}
                  /\ Return(errs # {})
                  /\ UNCHANGED faults
               \/ /\ live["spec"] # listed["spec"]
                  /\ StatusNotWritten
                  /\ UNCHANGED faults
               \/ /\ faults < MaxFaults
                  /\ faults' = faults + 1
                  /\ StatusNotWritten
    /\ UNCHANGED <<ctl, cache, events>>

(* The operator dies and starts again: it lists everything anew.            *)
Restart ==
    /\ faults < MaxFaults
    /\ faults' = faults + 1
    /\ cache' = live
    /\ stale' = {}
    /\ mine' = {}
    /\ pc' = Idle
    /\ queue' = TRUE
    /\ listed' = <<>>
    /\ prog' = {}
    /\ errs' = {}
    /\ UNCHANGED <<ctl, live, events>>

---------------------------------------------------------------------------
(* HandleAdd, HandleUpdate and HandleDelete: an informer delivers the       *)
(* newest state of an item, and the handler of its kind enqueues the owner. *)
Wakes(i) ==
    /\ i \in Ctl.wakes
    /\ i \in Ctl.ifPresent => Exists(i, live)
    /\ i \in Objects => Exists(i, cache) \/ Exists(i, live) \/ i \in mine
    /\ i \in DOMAIN Ctl.through => Exists(Ctl.through[i], cache)

Deliver(i) ==
    /\ i \in stale
    /\ stale' = stale \ {i}
    /\ queue' = (queue \/ Wakes(i))
    /\ cache' = [cache EXCEPT ![i] = live[i]]
    /\ mine' = mine \ {i}
    /\ UNCHANGED <<ctl, live, pc, listed, prog, errs, events, faults>>

---------------------------------------------------------------------------
(* What others do.                                                          *)

Other(i) ==
    /\ i \in Items \cap (Perturbed \cup Foreign)
    /\ events < MaxEvents
    /\ events' = events + 1
    /\ MayWrite
    /\ stale' = stale \cup {i}
    /\ UNCHANGED <<ctl, cache, mine, queue, pc, listed, prog, errs, faults>>

EditSpec ==
    /\ "spec" \in Perturbed
    /\ Other("spec")
    /\ \E off \in SUBSET (Options \cap OwnOptions) :
          live' = [live EXCEPT !["spec"] =
                      [gen |-> @.gen + 1, on |-> OwnOptions \ off, status |-> @.status]]

(* Create, change or delete an item that the controller only reads.         *)
ChangeRoot(i) ==
    /\ i \in Ctl.roots \cap Perturbed
    /\ Other(i)
    /\ \E v \in {0, events + 2} : v # live[i] /\ live' = [live EXCEPT ![i] = v]

DeleteObject(o) ==
    /\ o \in Objects \cap Perturbed
    /\ Other(o)
    /\ live[o].owner # "none"
    /\ live' = [live EXCEPT ![o] = Absent]

(* Another owner creates an object of that name.                            *)
TakeName(o) ==
    /\ o \in Objects \cap Foreign
    /\ Other(o)
    /\ live[o].owner = "none"
    /\ live' = [live EXCEPT ![o] = [owner |-> "other", content |-> <<>>, rolled |-> <<>>]]

(* The controllers of Kubernetes roll a workload out.                       *)
WorkloadsOf(c) ==
    {Description[c].stages[s].workload.object : s \in DOMAIN Description[c].stages} \ {"none"}

Workloads == WorkloadsOf(ctl)

RollOut(o) ==
    /\ o \in Workloads
    /\ Exists(o, live) /\ ~RolledOut(live[o])
    /\ MayWrite
    /\ live' = [live EXCEPT ![o].rolled = live[o].content]
    /\ stale' = stale \cup {o}
    /\ UNCHANGED <<ctl, cache, mine, queue, pc, listed, prog, errs, events, faults>>

Controller ==
    \/ sync \/ StageWaits \/ Prune \/ ApplyGenericWithHandlers \/ updateStatus

Others == EditSpec \/ \E i \in Items : ChangeRoot(i) \/ DeleteObject(i) \/ TakeName(i)

Next == Controller \/ Restart \/ Others \/ (\E i \in stale : Deliver(i)) \/ (\E o \in Workloads : RollOut(o))

AllItems ==
    UNION {{"spec"} \cup Description[c].roots \cup DOMAIN Description[c].objects : c \in Controllers}

AllWorkloads == UNION {WorkloadsOf(c) : c \in Controllers}

Spec == Init /\ [][Next]_vars

FairSpec ==
    /\ Spec
    /\ WF_vars(Controller)
    /\ \A i \in AllItems : WF_vars(Deliver(i))
    /\ \A o \in AllWorkloads : WF_vars(RollOut(o))

---------------------------------------------------------------------------
(* Properties.                                                              *)

(* Every item has a state of its kind, in the API server and in the cache,  *)
(* and the sync never looks at objects it has not listed.                   *)
TypeOK ==
    /\ ctl \in Controllers
    /\ DOMAIN live = Items /\ DOMAIN cache = Items
    /\ \A i \in Ctl.roots : live[i] \in 0 .. MaxEvents + 1 /\ cache[i] \in 0 .. MaxEvents + 1
    /\ \A o \in Objects : {live[o].owner, cache[o].owner} \subseteq {"us", "other", "none"}
    /\ stale \subseteq Items /\ queue \in BOOLEAN
    /\ \/ pc \in {Idle, StatusStep}
       \/ /\ pc[1] \in DOMAIN Ctl.stages
          /\ pc[2] \in 0 .. Len(CurrentStage.objects)
    /\ (pc = Idle) = (listed = <<>>)
    /\ prog \cup errs \subseteq DOMAIN Ctl.stages
    /\ pc = Idle => prog = {} /\ errs = {}
    /\ faults <= MaxFaults /\ events <= MaxEvents
    /\ mine \subseteq stale /\ \A i \in Items \ stale : cache[i] = live[i]

(* A stage that cannot run as things are.                                   *)
Held(stage) ==
    \/ \E i \in stage.waits : ~Exists(i, live)
    \/ \E s \in stage.after : Ctl.stages[s].waits # {} /\ \E i \in Ctl.stages[s].waits : ~Exists(i, live)

UpToDate(stage) ==
    \A o \in ToSet(stage.objects) :
        IF Required(o, live) THEN Exists(o, live) /\ live[o].content = Render(o, live)
        ELSE ~Exists(o, live)

Converged ==
    \/ \E i \in Ctl.requires : ~Exists(i, live)
    \/ \A s \in DOMAIN Ctl.stages : Held(Ctl.stages[s]) \/ UpToDate(Ctl.stages[s])

RollsOut(o) == Exists(o, live) /\ ~RolledOut(live[o])

(* When nothing is left in the queue, in the informers, in a running sync   *)
(* and to roll out, every object is what the current inputs ask for: no     *)
(* change of an input, of an owned object or of a reference is ever slept   *)
(* through.                                                                 *)
NoLostWakeup ==
    (pc = Idle /\ ~queue /\ stale = {} /\ \A o \in Workloads : ~RollsOut(o)) => Converged

Settled(status) == ~status.prog /\ ~status.deg

(* In the stages with one of these modes, a settled status of the current   *)
(* generation means that the workload has the template of that generation.  *)
Truthful(modes) ==
    \A s \in DOMAIN Ctl.stages :
        LET w == Ctl.stages[s].workload
            status == live["spec"].status
        IN (/\ w.mode \in modes /\ Settled(status) /\ status.gen = live["spec"].gen
            /\ Exists(w.object, live))
              => live[w.object].content["spec"] = status.gen

(* A status that reports the current generation as settled is never written *)
(* while a workload still runs an older generation, where the stage reports *)
(* on the workload that it applied, as SetAggregatedWorkloadConditions and  *)
(* the rollout wait mean to make sure.                                      *)
StatusTruthful == Truthful({"wait", "report"})

(* The controller never writes or deletes an object that another owner      *)
(* controls, however old its cache is.                                      *)
ForeignUntouched ==
    [][Controller => \A o \in Objects : live[o].owner = "other" => live'[o] = live[o]]_vars

(* A name is taken or an input is missing.                                  *)
Obstructed ==
    \/ \E o \in Objects : live[o].owner = "other"
    \/ \E i \in Ctl.roots : ~Exists(i, live)

(* Once others stop interfering, the objects follow the spec for good and   *)
(* the status says so, unless a name is taken or an input is missing.       *)
EventuallyConverged ==
    <>[](Obstructed \/ (Converged /\ (Ctl.hasStatus =>
            Settled(live["spec"].status) /\ live["spec"].status.gen = live["spec"].gen)))

=============================================================================
