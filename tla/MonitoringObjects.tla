------------------------- MODULE MonitoringObjects -------------------------
(* What the ScyllaDBMonitoring controller renders, from which items, in     *)
(* which order, and which events wake it up.  Items that it does not        *)
(* create: "soc" the ScyllaOperatorConfig with the images in its status and *)
(* "refs" the Secrets and ConfigMaps a user's datasource refers to.  Most   *)
(* templates take the name of the resource only, which never changes.  The  *)
(* certificate chains are the subject of Certificates.                      *)
EXTENDS ObjectGraph

makePrometheusSA == {}

makePrometheusRoleBinding == {}

makePrometheusService == {}

makeScyllaDBServiceMonitor == {"spec"}

makeLatencyPrometheusRule == {}

makeAlertsPrometheusRule == {}

makeTablePrometheusRule == {}

makePrometheus == {"spec", "soc"}

makePrometheusIngress == {"spec"}

(* Only a managed Prometheus has a workload of its own; the rules and the   *)
(* ServiceMonitor are rendered for an external one too.                     *)
makeRequiredPrometheusResources ==
    "prometheus.ServiceAccount" :> Object(makePrometheusSA, "managed", {}, FALSE) @@
    "prometheus.Service" :> Object(makePrometheusService, "managed", {}, FALSE) @@
    "prometheus.RoleBinding" :> Object(makePrometheusRoleBinding, "managed", {}, FALSE) @@
    "prometheus.Prometheus" :> Object(makePrometheus, "managed", {}, FALSE) @@
    "prometheus.ServiceMonitor" :> Plain(makeScyllaDBServiceMonitor) @@
    "prometheus.PrometheusRule" :>
        Plain(makeLatencyPrometheusRule \cup makeAlertsPrometheusRule \cup makeTablePrometheusRule) @@
    "prometheus.Ingress" :> Object(makePrometheusIngress, "managed", {}, FALSE)

makeGrafanaPrometheusDatasourceSpec == {"spec"}

makeGrafanaSA == {}

makeGrafanaRoleBinding == {}

makeGrafanaConfigs == {"spec"}

makeGrafanaProvisionings == makeGrafanaPrometheusDatasourceSpec

(* The password that exists is kept.                                        *)
makeGrafanaAdminCredentials == {}

makeGrafanaDashboards == {"spec"}

makeGrafanaService == {}

makeGrafanaIngress == {"spec"}

(* resolveGrafanaReferencedObjects: what has to exist before Grafana is     *)
(* rendered, and what restarts Grafana when it changes.                     *)
resolveGrafanaReferencedObjects == {"refs"}

makeGrafanaDeployment ==
    {"spec", "soc"} \cup resolveGrafanaReferencedObjects \cup makeGrafanaConfigs
        \cup makeGrafanaProvisionings \cup makeGrafanaAdminCredentials
        \cup makeGrafanaPrometheusDatasourceSpec

GrafanaRenders ==
    "grafana.ServiceAccount" :> Plain(makeGrafanaSA) @@
    "grafana.RoleBinding" :> Plain(makeGrafanaRoleBinding) @@
    "grafana.ConfigMap" :> Plain(makeGrafanaConfigs \cup makeGrafanaProvisionings) @@
    "grafana.Secret" :> Plain(makeGrafanaAdminCredentials) @@
    "grafana.Deployment" :> Plain(makeGrafanaDeployment) @@
    "grafana.Service" :> Plain(makeGrafanaService) @@
    "grafana.Dashboards" :> Plain(makeGrafanaDashboards) @@
    "grafana.Ingress" :> Object(makeGrafanaIngress, "managed", {}, FALSE)

---------------------------------------------------------------------------
(* setPrometheusStatusConditions and setGrafanaStatusConditions overwrite   *)
(* what the stage reported with what the listed workload reports.           *)
setPrometheusStatusConditions == Workload("prometheus.Prometheus", "listed")

setGrafanaStatusConditions == Workload("grafana.Deployment", "listed")

syncPrometheus ==
    Stage({}, {}, setPrometheusStatusConditions,
          <<"prometheus.ServiceAccount", "prometheus.Service", "prometheus.RoleBinding",
            "prometheus.Prometheus", "prometheus.ServiceMonitor",
            "prometheus.PrometheusRule", "prometheus.Ingress">>, TRUE)

syncGrafana ==
    Stage(resolveGrafanaReferencedObjects, {}, setGrafanaStatusConditions,
          <<"grafana.ServiceAccount", "grafana.RoleBinding", "grafana.ConfigMap",
            "grafana.Secret", "grafana.Deployment", "grafana.Service",
            "grafana.Dashboards", "grafana.Ingress">>, TRUE)

(* enqueueBySecretRef and enqueueByConfigMapRef find the resources that     *)
(* refer to a Secret or a ConfigMap through an index.                       *)
enqueueByRef == {"refs"}

addScyllaOperatorConfig == {"soc"}

(* NewController adds handlers to every informer it takes except the one of *)
(* the RoleBindings.                                                        *)
MonitoringHandled ==
    (DOMAIN makeRequiredPrometheusResources \cup DOMAIN GrafanaRenders)
        \ {"prometheus.RoleBinding", "grafana.RoleBinding"}

ScyllaDBMonitoringController ==
    [stages    |-> <<syncPrometheus, syncGrafana>>,
     objects   |-> makeRequiredPrometheusResources @@ GrafanaRenders,
     roots     |-> {"soc", "refs"},
     requires  |-> {"soc"},
     onMissing |-> "return",
     wakes     |-> {"spec"} \cup MonitoringHandled \cup enqueueByRef \cup addScyllaOperatorConfig,
     ifPresent |-> {},
     through   |-> <<>>,
     deletionIsProgress |-> FALSE,
     hasStatus |-> TRUE,
     readsItsWrites |-> FALSE]
=============================================================================
