SPECIFICATION FairSpec
CONSTANTS
  Controllers = {"datacenter","monitoring","nodeconfig","nodeconfigpod","globalmanager"}
  Fresh = {"nodeconfigpod","globalmanager"}
  Perturbed = {"spec","soc","override","pods","annotations","refs","namespace","dc.ConfigMap","dc.StatefulSet","grafana.ConfigMap","nc.ConfigMap","nc.DaemonSet","pod.ConfigMap","global.Registration"}
  Foreign = {"pod.ConfigMap","global.Registration"}
  Options = {"ingress", "labelled", "managed"}
  MaxEvents = 1
  MaxFaults = 1
  MaxLag = 2
INVARIANTS NoLostWakeup StatusTruthful
PROPERTIES ForeignUntouched EventuallyConverged
CHECK_DEADLOCK FALSE
