----------------------------- MODULE NodeTuning -----------------------------
(* Tuning a Kubernetes node for ScyllaDB, and the ignition that holds       *)
(* ScyllaDB back until it is done.  The tune controller of the node setup   *)
(* daemon runs Jobs for the node and for the container of the ScyllaDB Pod  *)
(* on it and reports in the NodeConfig which of them are complete; the      *)
(* NodeConfigPod controller of the operator turns that into a ConfigMap for *)
(* the Pod; the ignition sidecar of the Pod reads it and touches the file   *)
(* that the ScyllaDB container waits for.                                   *)
EXTENDS NodeDaemon

CONSTANT MaxContainers  \* bound: the containers there are, over all Pods

ASSUME MaxContainersAssumption == MaxContainers \in Nat \ {0}

VARIABLES made,    \* the containers so far: they are numbered from 1
          pod,     \* [cont, first, always, known, running], see below
          status,  \* [id, up]: the Pod's status as the kubelet last reported it
          view,    \* [enabled, old, tuned, id]: what the ConfigMap of the Pod was made from
          ign,     \* the ignition sidecar: [verdict, ignited, file]
          jobs,    \* the Jobs: what each is for (0: it is not there), if complete
          sysctl,  \* the version of the sysctls loaded on the node
          tune     \* the tune sync: [id, enabled, sysctl], then its verdict

(* pod.cont is the container that is up (0: none) and pod.first the first   *)
(* one of the Pod.  view.enabled and view.tuned are those of the NodeConfig *)
(* and view.id that of the Pod's status as the NodeConfigPod controller saw *)
(* them last; view.old records that optimizations were switched since.      *)
(* pod.always records that they have been enabled as long as the Pod is     *)
(* there, and pod.known that view was not old when it came.                 *)
tuning == <<made, pod, status, view, ign, jobs, sysctl, tune>>

JobTypes == {"sysctls", "perftune", "containers", "rlimits"}
NodeJobs == {"sysctls", "perftune"}

(* The Jobs are applied in the order sysctls, perftune, containers, rlimits *)
(* and so these are what a failure may leave applied.                       *)
AppliedInOrder == {{}, {"sysctls"}, NodeJobs, NodeJobs \cup {"containers"}}

NoJob == [of |-> 0, done |-> FALSE]
NewPod(known) ==
    [cont |-> 0, first |-> 0, always |-> nc.spec.enabled, known |-> known, running |-> FALSE]
NewStatus == [id |-> 0, up |-> FALSE]
StartIgnition(file) == [verdict |-> FALSE, ignited |-> FALSE, file |-> file]
NoTune == [id |-> 0, enabled |-> FALSE, sysctl |-> 0, verdict |-> Untuned]

TuningInit ==
    /\ made = 0
    /\ pod = NewPod(TRUE)
    /\ status = NewStatus
    /\ view = [enabled |-> nc.spec.enabled, old |-> FALSE, tuned |-> nc.tuned, id |-> 0]
    /\ ign = StartIgnition(FALSE)
    /\ jobs = [j \in JobTypes |-> NoJob]
    /\ sysctl = 0
    /\ tune = NoTune

---------------------------------------------------------------------------
(* The tune controller.                                                     *)

(* The container of the Pod, if the Pod's status says it is running.        *)
makeJobsForContainers == IF status.up THEN status.id ELSE 0

(* The CRI is asked for the mounts and the process of a container: it may   *)
(* or may not know of one that is gone.                                     *)
Inspect(id) == IF id \in {0, pod.cont} THEN {TRUE} ELSE BOOLEAN

StartTune ==
    \E known \in Inspect(makeJobsForContainers) :
       /\ Begin(IF known THEN "apply" ELSE "status")
       /\ tune' = IF known
                  THEN [NoTune EXCEPT !.id = makeJobsForContainers,
                                      !.enabled = seen.enabled, !.sysctl = seen.sysctl]
                  ELSE NoTune
       /\ UNCHANGED <<made, pod, status, view, ign, jobs, sysctl>>

TuneStep(from, to) ==
    /\ Step(from, to)
    /\ UNCHANGED <<made, pod, status, view, ign, sysctl>>

(* What each Job is for, or 0 if it is not required: the version of the     *)
(* sysctls it loads, the node, the container whose ID it carries.  Without  *)
(* optimizations only the sysctls and the limits are left.                  *)
makeSysctlsJobForNode == tune.sysctl
makePerftuneJobForNode == IF tune.enabled THEN 1 ELSE 0
makePerftuneJobForContainers == IF tune.enabled THEN tune.id ELSE 0
makeRlimitsJobForContainer == tune.id

requiredJobs ==
    [sysctls    |-> makeSysctlsJobForNode,
     perftune   |-> makePerftuneJobForNode,
     containers |-> makePerftuneJobForContainers,
     rlimits    |-> makeRlimitsJobForContainer]

pruneJobs(j) == IF requiredJobs[j] = 0 THEN NoJob ELSE jobs[j]

(* A Job for something else has another template, which cannot change: it   *)
(* is deleted and made again.                                               *)
ApplyJob(j) ==
    IF requiredJobs[j] \in {0, jobs[j].of} THEN pruneJobs(j)
    ELSE [of |-> requiredJobs[j], done |-> FALSE]

(* The node is tuned when its Jobs are complete, and the container when     *)
(* its own are.                                                             *)
nodeStatus(applied) ==
    LET done(j) == requiredJobs[j] # 0 => applied[j].done
    IN [node |-> \A j \in NodeJobs : done(j),
        ids  |-> {id \in {tune.id} \ {0} : \A j \in JobTypes \ NodeJobs : done(j)}]

(* The Jobs that are not required are deleted first.  No controller reads   *)
(* the Jobs between the calls, and one that completes there might as well   *)
(* before or after.                                                         *)
syncJobs ==
    /\ TuneStep("apply", "status")
    /\ jobs' = [j \in JobTypes |-> ApplyJob(j)]
    /\ tune' = [NoTune EXCEPT !.verdict = nodeStatus(jobs')]

(* A sync that ends early: it is with the deletions, or with the Jobs in    *)
(* their order.                                                             *)
PartlySynced ==
    LET unneeded == {j \in JobTypes : requiredJobs[j] = 0} IN
    \E gone \in SUBSET unneeded, firsts \in AppliedInOrder :
       /\ firsts # {} => gone = unneeded
       /\ jobs' = [j \in JobTypes |-> IF j \in gone \cup firsts THEN ApplyJob(j) ELSE jobs[j]]

Interrupted == IF stage = "apply" THEN PartlySynced ELSE UNCHANGED jobs

(* A call fails, and what the sync reports is that nothing is tuned.        *)
TuneCallFails ==
    /\ stage = "apply" /\ stage' = "status"
    /\ PartlySynced
    /\ Fault
    /\ tune' = NoTune
    /\ UNCHANGED <<nc, seen, old, made, pod, status, view, ign, sysctl>>

updateTuneStatus ==
    /\ UpdateStatus([nc EXCEPT !.tuned = tune.verdict])
    /\ tune' = NoTune
    /\ UNCHANGED <<made, pod, status, view, ign, jobs, sysctl>>

Tune == StartTune \/ syncJobs \/ updateTuneStatus

(* The limits are those of a process: there is nothing to raise once its    *)
(* container is gone.                                                       *)
changeRlimits == pod.cont = jobs.rlimits.of

(* A Job's Pod runs to its end.                                             *)
JobCompletes(j) ==
    /\ jobs[j].of # 0 /\ ~jobs[j].done
    /\ j = "rlimits" => changeRlimits
    /\ jobs' = [jobs EXCEPT ![j].done = TRUE]
    /\ sysctl' = IF j = "sysctls" THEN jobs[j].of ELSE sysctl
    /\ UNCHANGED <<daemon, budget>>
    /\ UNCHANGED <<made, pod, status, view, ign, tune>>

---------------------------------------------------------------------------
(* The NodeConfigPod controller.                                            *)

(* Its copies after an event of the NodeConfig, and after one of the Pod.   *)
updateNodeConfig ==
    [enabled |-> nc.spec.enabled, old |-> FALSE, tuned |-> nc.tuned, id |-> view.id]
updatePod == [view EXCEPT !.id = status.id]

(* Either event queues the Pod, and its sync makes the ConfigMap from both  *)
(* copies: the other one may be of any age.  An event, a sync or a call     *)
(* that is delayed, refused or retried is this step taken later.            *)
syncConfigMaps ==
    /\ \E copies \in {updateNodeConfig, updatePod} : view # copies /\ view' = copies
    /\ UNCHANGED <<daemon, budget, made, pod, status, ign, jobs, sysctl, tune>>

IsNodeTunedForContainer(tuned, id) == tuned.node /\ id \in tuned.ids

makeConfigMap ==
    [id |-> view.id, blocked |-> view.enabled /\ ~IsNodeTunedForContainer(view.tuned, view.id)]

---------------------------------------------------------------------------
(* The ignition sidecar: what it decides may be old when it acts.           *)

evaluateIgnitionState ==
    status.id # 0 /\ makeConfigMap.id = status.id /\ ~makeConfigMap.blocked

Elsewhere == UNCHANGED <<daemon, budget, made, pod, status, view, jobs, sysctl, tune>>

(* Events of the Pod, the ConfigMap and the Service run it at any time.     *)
(* Not to ignite leaves the file as it is.                                  *)
EvaluateIgnition ==
    /\ ~ign.verdict
    /\ IF evaluateIgnitionState THEN ~(ign.ignited /\ ign.file) ELSE ign.ignited
    /\ ign' = [ign EXCEPT !.verdict = evaluateIgnitionState, !.ignited = @ /\ evaluateIgnitionState]
    /\ Elsewhere

TouchFile ==
    /\ ign.verdict
    /\ ign' = [ign EXCEPT !.verdict = FALSE, !.ignited = TRUE, !.file = TRUE]
    /\ Elsewhere

---------------------------------------------------------------------------
(* The ScyllaDB Pod and the kubelet.                                        *)

OnPod == UNCHANGED <<nc, seen, old, stage, jobs, sysctl, tune>>

CreateContainer ==
    /\ pod.cont = 0 /\ made < MaxContainers
    /\ made' = made + 1
    /\ pod' = [pod EXCEPT !.cont = made', !.first = IF @ = 0 THEN made' ELSE @]
    /\ OnPod /\ UNCHANGED <<budget, status, view, ign>>

Actual == [id |-> IF pod.first = 0 THEN 0 ELSE made, up |-> pod.cont # 0]

ReportStatus ==
    /\ status # Actual
    /\ status' = Actual
    /\ OnPod /\ UNCHANGED <<budget, made, pod, view, ign>>

(* The entrypoint of the container waits for the file, then runs ScyllaDB.  *)
StartScylla ==
    /\ pod.cont # 0 /\ ~pod.running /\ ign.file
    /\ pod' = [pod EXCEPT !.running = TRUE]
    /\ OnPod /\ UNCHANGED <<budget, made, status, view, ign>>

(* A container that the kubelet stops removes the file in its preStop hook; *)
(* one that exits by itself does not run the hook.                          *)
ContainerExits ==
    /\ pod.cont # 0 /\ made < MaxContainers
    /\ pod' = [pod EXCEPT !.cont = 0, !.running = FALSE]
    /\ \E stopped \in BOOLEAN : ign' = [ign EXCEPT !.file = @ /\ ~stopped]
    /\ OnPod /\ Fault /\ UNCHANGED <<made, status, view>>

(* A new Pod has a volume for the file and a ConfigMap of its own.          *)
ReplacePod ==
    /\ pod.first # 0 /\ made < MaxContainers
    /\ pod' = NewPod(~view.old)
    /\ status' = NewStatus
    /\ view' = [view EXCEPT !.id = 0]
    /\ ign' = StartIgnition(FALSE)
    /\ OnPod /\ Fault /\ UNCHANGED made

(* The Pod outlives a reboot of the node, and so does its file.             *)
PodRestarts ==
    /\ pod.cont # 0 => made < MaxContainers
    /\ pod' = [pod EXCEPT !.cont = 0, !.running = FALSE]
    /\ ign' = StartIgnition(ign.file)
    /\ Interrupted
    /\ StartDaemon
    /\ tune' = NoTune
    /\ UNCHANGED <<made, status, view, sysctl>>

TuneStatusFails ==
    /\ StatusCallFails
    /\ tune' = NoTune
    /\ UNCHANGED <<made, pod, status, view, ign, jobs, sysctl>>

TuneRestarts ==
    /\ Interrupted
    /\ StartDaemon
    /\ tune' = NoTune
    /\ UNCHANGED <<made, pod, status, view, ign, sysctl>>

(* The user changes the sysctls, and switches optimizations on or off.      *)
EditTuning ==
    /\ \/ EditNodeConfig([nc.spec EXCEPT !.sysctl = @ + 1]) /\ UNCHANGED <<pod, view>>
       \/ /\ EditNodeConfig([nc.spec EXCEPT !.enabled = ~@])
          /\ pod' = [pod EXCEPT !.always = FALSE]
          /\ view' = [view EXCEPT !.old = TRUE]
    /\ UNCHANGED <<made, status, ign, jobs, sysctl, tune>>

TuneFault ==
    \/ TuneCallFails \/ TuneStatusFails \/ TuneRestarts
    \/ ContainerExits \/ ReplacePod \/ PodRestarts

TuningNext ==
    \/ (ObserveNodeConfig \/ OthersWriteStatus) /\ UNCHANGED tuning
    \/ Tune \/ \E j \in JobTypes : JobCompletes(j)
    \/ syncConfigMaps \/ EvaluateIgnition \/ TouchFile
    \/ CreateContainer \/ ReportStatus \/ StartScylla
    \/ EditTuning \/ TuneFault

---------------------------------------------------------------------------
(* Properties.                                                              *)

TunedFor(id) ==
    /\ sysctl # 0
    /\ jobs.perftune.done
    /\ \A j \in {"containers", "rlimits"} : jobs[j] = [of |-> id, done |-> TRUE]

(* ScyllaDB starts in the first container of the Pod.                       *)
FirstStart == ~pod.running /\ pod'.running /\ pod.cont = pod.first

(* ScyllaDB runs, and its node and container are tuned as the NodeConfig    *)
(* says.                                                                    *)
Serving ==
    /\ pod.running /\ ign.ignited
    /\ nc.spec.enabled => IsNodeTunedForContainer(nc.tuned, pod.cont)
    /\ sysctl = nc.spec.sysctl
=============================================================================
