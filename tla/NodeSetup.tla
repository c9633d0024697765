------------------------------ MODULE NodeSetup ------------------------------
(* The two controllers of the node setup daemon, each with all it works     *)
(* with.  They meet in the NodeConfig alone, where each takes the other for *)
(* one of the many controllers that write its status (NodeDaemon), and so a *)
(* behaviour has one of them at work.                                       *)
EXTENDS NodeStorage, NodeTuning

CONSTANTS SetupEdits, SetupFaults, SetupOthers,  \* bounds: what there is at most
          TuneEdits, TuneFaults, TuneOthers      \* for either controller

ASSUME BoundsAssumption ==
    {SetupEdits, SetupFaults, SetupOthers, TuneEdits, TuneFaults, TuneOthers} \subseteq Nat

VARIABLE part  \* which one: "storage" or "tuning"

vars == <<part, daemon, budget, storage, tuning>>

Init ==
    /\ DaemonInit /\ StorageInit /\ TuningInit
    /\ \/ /\ part = "storage" /\ nc.spec.enabled
          /\ edits = SetupEdits /\ faults = SetupFaults /\ others = SetupOthers
       \/ /\ part = "tuning" /\ kind = CHOOSE k \in Kinds : TRUE
          /\ edits = TuneEdits /\ faults = TuneFaults /\ others = TuneOthers

OnStorage == part = "storage" /\ UNCHANGED <<part, tuning>>
OnTuning == part = "tuning" /\ UNCHANGED <<part, storage>>

Next ==
    \/ StorageNext /\ OnStorage
    \/ TuningNext /\ OnTuning

Spec == Init /\ [][Next]_vars

(* The controllers, the Jobs, the kubelet, ScyllaDB and systemd keep going. *)
(* The subscripts are what the steps change.                                *)
FairSpec ==
    /\ Spec
    /\ WF_old(ObserveNodeConfig)
    /\ WF_<<daemon, storage>>(part = "storage" /\ Setup)
    /\ WF_unit(part = "storage" /\ UnitStarts)
    /\ WF_stage(part = "tuning" /\ Tune)
    /\ \A j \in JobTypes : WF_jobs(part = "tuning" /\ JobCompletes(j))
    /\ WF_view(part = "tuning" /\ syncConfigMaps)
    /\ WF_ign(part = "tuning" /\ (EvaluateIgnition \/ TouchFile))
    /\ WF_made(part = "tuning" /\ CreateContainer)
    /\ WF_status(part = "tuning" /\ ReportStatus)
    /\ WF_pod(part = "tuning" /\ StartScylla)

---------------------------------------------------------------------------
(* Properties.                                                              *)

(* ScyllaDB's data is never lost to the daemon, whatever fails, restarts or *)
(* is edited, but for a loop device that the user took out of the           *)
(* NodeConfig: MakeRAID0 and MakeFS spare what they find.                   *)
DataKept == [][KeepsData]_vars

(* In the first container of a Pod ScyllaDB starts only when the sysctls    *)
(* are loaded, the node has been tuned and both Jobs of this very container *)
(* are complete, however old the status, the copies and the ConfigMap that  *)
(* the tune, NodeConfigPod and ignition controllers acted on.  This takes   *)
(* that optimizations were enabled as long as the Pod was there, and that   *)
(* the NodeConfigPod controller had seen so when it came: a ConfigMap made  *)
(* from a NodeConfig of before they were enabled does not block ScyllaDB.   *)
StartsTuned == [][FirstStart /\ pod.always /\ pod.known => TunedFor(pod.cont)]_vars

(* The same, whether or not the NodeConfigPod controller had seen it.       *)
StartsTunedOnceEnabled == [][FirstStart /\ pod.always => TunedFor(pod.cont)]_vars

(* Once faults and edits end, the node comes to what the NodeConfig asks    *)
(* for and stays there: its filesystem is mounted, and reported; its node   *)
(* and container are tuned, and ScyllaDB runs.                              *)
EventuallyServing ==
    <>[](IF part = "storage" THEN Stuck \/ SetUp ELSE Serving)
=============================================================================
