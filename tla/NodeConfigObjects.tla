------------------------- MODULE NodeConfigObjects -------------------------
(* What the controllers around NodeConfigs and the global ScyllaDB Manager  *)
(* render, from which items, in which order, and which events wake them up. *)
EXTENDS ObjectGraph

---------------------------------------------------------------------------
(* The NodeConfig controller.  Only the DaemonSet and the sysctl ConfigMap  *)
(* depend on the NodeConfig; the rest is the same for all of them.          *)

makeScyllaOperatorNodeTuningNamespace == {}

NodeConfigClusterRole == {}

makeRoles == {}

makeServiceAccounts == {}

makeNodeConfigClusterRoleBinding == {}

makeRoleBindings == {}

(* There is no DaemonSet when the spec asks neither for tuning nor for the  *)
(* setup of local disks.                                                    *)
makeNodeSetupDaemonSet == Object({"spec", "soc"}, "setup", {}, FALSE)

makeConfigMaps == {"spec"}

NodeConfigRenders ==
    "nc.Namespace" :> Plain(makeScyllaOperatorNodeTuningNamespace) @@
    "nc.ClusterRole" :> Plain(NodeConfigClusterRole) @@
    "nc.Role" :> Plain(makeRoles) @@
    "nc.ServiceAccount" :> Plain(makeServiceAccounts) @@
    "nc.ClusterRoleBinding" :> Plain(makeNodeConfigClusterRoleBinding) @@
    "nc.RoleBinding" :> Plain(makeRoleBindings) @@
    "nc.DaemonSet" :> makeNodeSetupDaemonSet @@
    "nc.ConfigMap" :> Plain(makeConfigMaps)

syncNamespaces == Apply1("nc.Namespace")

syncClusterRoles == Apply1("nc.ClusterRole")

syncRoles == Apply1("nc.Role")

syncServiceAccounts == Apply1("nc.ServiceAccount")

syncClusterRoleBindings == Apply1("nc.ClusterRoleBinding")

syncRoleBindings == Apply1("nc.RoleBinding")

(* The list that Prune compares with holds the DaemonSet whether it is      *)
(* required or nil.                                                         *)
syncDaemonSet ==
    Stage({}, {}, Workload("nc.DaemonSet", "report"), <<"nc.DaemonSet">>, FALSE)

syncConfigMaps == Apply1("nc.ConfigMap")

(* Every object of a NodeConfig has handlers that queue its owner, and the  *)
(* operator's configuration has one that queues all NodeConfigs.            *)
NodeConfigHandled == {"spec", "soc"} \cup DOMAIN NodeConfigRenders

(* Every informer has its handlers but the one of the Nodes, on which no    *)
(* object depends: they only decide which conditions the status awaits.     *)
NodeConfigController ==
    [stages    |-> <<syncNamespaces, syncClusterRoles, syncRoles, syncServiceAccounts,
                     syncClusterRoleBindings, syncRoleBindings, syncDaemonSet, syncConfigMaps>>,
     objects   |-> NodeConfigRenders,
     roots     |-> {"soc"},
     requires  |-> {"soc"},
     onMissing |-> "error",
     wakes     |-> NodeConfigHandled,
     ifPresent |-> {},
     through   |-> <<>>,
     deletionIsProgress |-> FALSE,
     hasStatus |-> TRUE,
     readsItsWrites |-> FALSE]

---------------------------------------------------------------------------
(* The NodeConfigPod controller: the ConfigMap that tells the ignition of a *)
(* ScyllaDB Pod which NodeConfigs still block it.  "spec" is the Pod,       *)
(* "selecting" a NodeConfig that selects its node, with its status.         *)
makeConfigMap == {"spec", "selecting"}

syncPodConfigMaps == Apply1("pod.ConfigMap")

(* An update of a NodeConfig enqueues the Pods of the nodes it selects now, *)
(* not of those it selected before.                                         *)
enqueueAllScyllaPodsForNodeConfig == {"selecting"}

NodeConfigPodHandled == {"spec", "pod.ConfigMap", "selecting"}

NodeConfigPodController ==
    [stages    |-> <<syncPodConfigMaps>>,
     objects   |-> "pod.ConfigMap" :> Plain(makeConfigMap),
     roots     |-> {"selecting"},
     requires  |-> {},
     onMissing |-> "error",
     wakes     |-> NodeConfigPodHandled,
     ifPresent |-> enqueueAllScyllaPodsForNodeConfig,
     through   |-> <<>>,
     deletionIsProgress |-> FALSE,
     hasStatus |-> FALSE,
     readsItsWrites |-> FALSE]

---------------------------------------------------------------------------
(* The controller of the global ScyllaDB Manager: one registration for each *)
(* ScyllaDBDatacenter ("spec") that is labelled, as long as the namespace   *)
(* of the manager exists.                                                   *)
makeScyllaDBManagerClusterRegistrationForScyllaDBDatacenter ==
    Object({"spec"}, "labelled", {"namespace"}, FALSE)

syncScyllaDBManagerClusterRegistrations == Apply1("global.Registration")

GlobalManagerHandled == {"spec", "namespace", "global.Registration"}

GlobalScyllaDBManagerController ==
    [stages    |-> <<syncScyllaDBManagerClusterRegistrations>>,
     objects   |-> "global.Registration" :>
                      makeScyllaDBManagerClusterRegistrationForScyllaDBDatacenter,
     roots     |-> {"namespace"},
     requires  |-> {},
     onMissing |-> "error",
     wakes     |-> GlobalManagerHandled,
     ifPresent |-> {},
     through   |-> <<>>,
     deletionIsProgress |-> FALSE,
     hasStatus |-> FALSE,
     readsItsWrites |-> FALSE]
=============================================================================
