------------------------- MODULE DatacenterObjects -------------------------
(* What the ScyllaDBDatacenter controller renders, from which items, in     *)
(* which order, and which events wake it up.  Items that the controller     *)
(* does not create: "soc" the ScyllaOperatorConfig, "custom" the Secret     *)
(* with a custom agent configuration, "override" the Secret an annotation   *)
(* names as the agent's token, "pods" the Pods with the reports of their    *)
(* nodes, "annotations" what the sidecars write on the member Services.     *)
EXTENDS ObjectGraph

---------------------------------------------------------------------------
(* What the make functions read.                                            *)

MakeServiceAccount == {"spec"}

MakeRoleBinding == {"spec"}

getOptionalAgentAuthTokenFromCustomConfig == {"spec", "custom"}

getOptionalAgentAuthTokenOverride == {"spec", "override"}

(* The custom configuration wins over the override, and either over the     *)
(* token that exists already: the Secret depends on all of them.            *)
makeAgentAuthTokenSecret ==
    getOptionalAgentAuthTokenFromCustomConfig \cup getOptionalAgentAuthTokenOverride

MakeManagedScyllaDBConfig == {"spec"}

MakeManagedScyllaDBSnitchConfig == {"spec"}

MakeManagedScyllaDBManagerAgentConfig == {"spec"}

MakeManagedScyllaDBConfigMaps ==
    MakeManagedScyllaDBConfig \cup MakeManagedScyllaDBSnitchConfig
        \cup MakeManagedScyllaDBManagerAgentConfig

makeRackNodesStatusReport == {"annotations", "pods"}

makeScyllaDBDatacenterNodesStatusReport ==
    {"spec", "dc.Service"} \cup makeRackNodesStatusReport

applyRackTemplateOnRackSpec == {"spec"}

containerPorts == {"spec"}

makeInitContainers == {"spec"}

makeSysctlInitContainer == {"spec"}

makeScyllaDBBootstrapBarrierInitContainer == {"spec"}

getScyllaDBManagerAgentContainer == {"spec"}

getScyllaDBNodeExporterContainer == {"soc"}

rackVolumes == {"spec"}

scyllaContainer == {"spec"}

(* The Pod template carries a hash of the managed configuration, so the     *)
(* StatefulSet follows the ConfigMap as it was listed.                      *)
StatefulSetForRack ==
    {"dc.ConfigMap"} \cup applyRackTemplateOnRackSpec \cup rackVolumes \cup containerPorts
        \cup scyllaContainer \cup makeInitContainers \cup makeSysctlInitContainer
        \cup makeScyllaDBBootstrapBarrierInitContainer
        \cup getScyllaDBManagerAgentContainer \cup getScyllaDBNodeExporterContainer

IdentityService == {"spec"}

getServicePorts == {"spec"}

MakePodDisruptionBudget == {"spec"}

MakeIngresses == {"spec", "dc.Service", "annotations"}

---------------------------------------------------------------------------
(* The stages, in the order of sync.                                        *)

syncServiceAccounts == Apply1("dc.ServiceAccount")

syncRoleBindings == Apply1("dc.RoleBinding")

(* A Secret that the spec refers to and that does not exist is waited for.  *)
syncAgentToken == Stage({"custom", "override"}, {}, NoWorkload, <<"dc.Secret">>, TRUE)

syncConfigs == Apply1("dc.ConfigMap")

syncScyllaDBDatacenterNodesStatusReports == Apply1("dc.Report")

(* Stage 5 is syncScyllaDBDatacenterNodesStatusReports.                     *)
syncStatefulSets ==
    Stage({"dc.ConfigMap"}, {5}, Workload("dc.StatefulSet", "wait"), <<"dc.StatefulSet">>, TRUE)

syncServices == Apply1("dc.Service")

syncPodDisruptionBudgets == Apply1("dc.PodDisruptionBudget")

syncIngresses == Apply1("dc.Ingress")

DatacenterStages ==
    << syncServiceAccounts, syncRoleBindings, syncAgentToken, syncConfigs,
       syncScyllaDBDatacenterNodesStatusReports, syncStatefulSets, syncServices,
       syncPodDisruptionBudgets, syncIngresses >>

(* The StatefulSet is created anew when its Pod management policy changes.  *)
DatacenterRenders ==
    "dc.ServiceAccount" :> Plain(MakeServiceAccount) @@
    "dc.RoleBinding" :> Plain(MakeRoleBinding) @@
    "dc.Secret" :> Plain(makeAgentAuthTokenSecret) @@
    "dc.ConfigMap" :> Plain(MakeManagedScyllaDBConfigMaps) @@
    "dc.Report" :> Plain(makeScyllaDBDatacenterNodesStatusReport) @@
    "dc.StatefulSet" :> Object(StatefulSetForRack, "always", {}, TRUE) @@
    "dc.Service" :> Plain(IdentityService \cup getServicePorts) @@
    "dc.PodDisruptionBudget" :> Plain(MakePodDisruptionBudget) @@
    "dc.Ingress" :> Object(MakeIngresses, "ingress", {}, FALSE)

---------------------------------------------------------------------------
(* SetupWithManager: the objects whose events reach the owner, and the      *)
(* items that a mapping function resolves.  The function that maps Secrets  *)
(* finds the datacenters whose annotation names the Secret, and not those   *)
(* whose CustomConfigSecretRef does.  A Pod is resolved through the         *)
(* StatefulSet as the cache knows it.                                       *)
DatacenterOwns == DOMAIN DatacenterRenders

mapSecretToOwnerOrAgentAuthTokenOverrideReferrers == {"override"}

mapPodToOwnerThroughStatefulSet == [pods |-> "dc.StatefulSet"]

mapToNoScyllaDBDatacenters == {}  \* mutant: a change of the configuration wakes nobody

mapToAllScyllaDBDatacenters == {"soc"}

(* Reconcile fails while there is no ScyllaOperatorConfig.                  *)
ScyllaDBDatacenterController ==
    [stages    |-> DatacenterStages,
     objects   |-> DatacenterRenders,
     roots     |-> {"soc", "custom", "override", "pods", "annotations"},
     requires  |-> {"soc"},
     onMissing |-> "error",
     wakes     |-> {"spec", "annotations", "pods"} \cup DatacenterOwns
                      \cup mapToAllScyllaDBDatacenters
                      \cup mapSecretToOwnerOrAgentAuthTokenOverrideReferrers,
     ifPresent |-> {},
     through   |-> mapPodToOwnerThroughStatefulSet,
     deletionIsProgress |-> TRUE,
     hasStatus |-> TRUE,
     readsItsWrites |-> TRUE]
=============================================================================
