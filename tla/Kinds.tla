-------------------------------- MODULE Kinds --------------------------------
(***************************************************************************)
(* The types of Kubernetes objects that krepl lists, selects and acts on.  *)
(***************************************************************************)

BuiltinKinds ==
  {"Pod", "Namespace", "Node", "Deployment", "ReplicaSet", "StatefulSet",
   "ConfigMap", "Secret", "Job", "CronJob", "DaemonSet", "PersistentVolume",
   "Service", "StorageClass"}

(* Dynamic stands for all resource types found by discovery. *)
Kinds == BuiltinKinds \cup {"Dynamic"}

ClusterScopedKinds == {"Namespace", "Node", "PersistentVolume", "StorageClass"}

(* The kinds deleteRESTTarget has a client and a resource for. *)
DeletableKinds ==
  {"Pod", "Node", "Deployment", "ReplicaSet", "StatefulSet", "ConfigMap",
   "Secret", "CronJob", "DaemonSet", "PersistentVolume", "Service"}

=============================================================================
