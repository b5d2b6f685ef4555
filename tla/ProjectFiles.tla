---------------------------- MODULE ProjectFiles ----------------------------
(***************************************************************************)
(* The files of a project, what the deployment files are rendered from     *)
(* (render/compose.py, render/kubernetes.py), and what a backup archive    *)
(* holds of them (services/backup.py).                                     *)
(*                                                                         *)
(* A file's content is a version.  Of the configuration three things       *)
(* matter: what the compose file or the pod template is rendered from      *)
(* (shape: image, ports, restart policy, health check...), what only the   *)
(* runtime reads (tuning: interval, limits, defaults...) and whether the   *)
(* provider is a file of the project or a database.                        *)
(***************************************************************************)
EXTENDS Naturals, Sequences

CONSTANTS
    Version,        \* versions of what is edited
    Absent,         \* no such file
    Torn            \* a file of which only a part has been written

ASSUME VersionAssumption == Version \subseteq Nat \ {0}

Target == {"local", "synced", "remote_only", "manifests", "helm"}
Kubernetes == {"manifests", "helm"}

(* the provider file is "users", the compose file, kubernetes.yml or       *)
(* values.yaml is "artifact"; host_keys fares as state                     *)
File == {"config", "users", "artifact", "state", "data"}
Directory == {"state", "data"}
Mounted == {"config", "users", "state", "data"}

(* What a provider may be read as: 0 is nobody, as an empty file is read *)
Users == Version \cup {0}

Config == [shape : Version, tuning : Version, provider : {"file", "db"}]

ASSUME AbsentAssumption == Absent \notin Nat \cup Config \cup {Torn}

(* What the scheduler compares to tell whether the container must be made  *)
(* again: the service, with its list of mounts, or the pod's template.     *)
Template == [shape : Version, provider : {"file", "db"}]
template(config) == [shape |-> config.shape, provider |-> config.provider]

(* A compose file mounts the configuration and the provider file: neither  *)
(* is in it.  The ConfigMap of manifests, and of the chart with the values *)
(* written for it, carries both.                                           *)
compose_model(config) == [template |-> template(config), config |-> Absent, users |-> Absent]

bootstrap_text(config, users) ==
    CASE config.provider = "db" -> Absent
      [] config.provider = "file" /\ users = Absent -> 0
      [] OTHER -> users

kubernetes_manifests(config, users) ==
    [template |-> template(config), config |-> config, users |-> bootstrap_text(config, users)]

helm_values_model(config, users) ==
    [template |-> template(config), config |-> config, users |-> bootstrap_text(config, users)]

Rendering == [template : Template, config : Config \cup {Absent}, users : Users \cup {Absent}]

Rendered(target, config, users) ==
    CASE target = "manifests" -> kubernetes_manifests(config, users)
      [] target = "helm" -> helm_values_model(config, users)
      [] OTHER -> compose_model(config)

RenderAnything(target, config, users) == TRUE     \* a mutant: nothing is read first

(* The rendering of a Kubernetes project reads the provider file: without  *)
(* one it renders nobody, one that cannot be parsed ends it.               *)
CanRender(target, config, users) ==
    target \in Kubernetes /\ config.provider = "file" => users # Torn

(* The compose file is listed for a Kubernetes project too, which has none *)
backup_entries(target, files, config, include) ==
    {"config"} \cup {f \in {"artifact"} : target \notin Kubernetes}
               \cup {f \in {"users"} : config.provider = "file"}
               \cup {f \in {"state"} : files[f] # Absent}
               \cup {f \in {"data"} : include /\ files[f] # Absent}

remote_backup_candidates(files, include) ==
    {f \in File : files[f] # Absent /\ (f = "data" => include)}

Taken(files, entries) == [f \in File |-> IF f \in entries THEN files[f] ELSE Absent]

(* restore's choice of the archive's entries: those whose name does not    *)
(* start with "data" unless the data is asked for                          *)
RestoredEntries(archived, include) ==
    {f \in File : archived[f] # Absent /\ (f = "data" => include)}
=============================================================================
