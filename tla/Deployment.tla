----------------------------- MODULE Deployment -----------------------------
(***************************************************************************)
(* `sftpwarden deploy`, `kube apply`, `helm upgrade`, `kube delete` and    *)
(* `refresh` on one context (services/deploy.py, remote/deploy.py,         *)
(* cli_commands/core.py, kubernetes.py and helm.py, refresh/core.py), with *)
(* the container or pod they start.                                        *)
(*                                                                         *)
(* A running container sees a bind-mounted file or folder through its      *)
(* inode: what is written in place it sees, what is put in its place by a  *)
(* rename (rsync) or by removal and copy (restore) it does not, until it   *)
(* is started again; `docker compose up -d` makes it again only when the   *)
(* compose file has changed.  A pod has the configuration as it was when   *)
(* the pod was started (subPath) and the provider file that its init       *)
(* container copied then.  held says what the container keeps of what it   *)
(* was started with, Attached that it follows the file.                    *)
(*                                                                         *)
(* A command is the list of its steps.  docker compose pull and ps, mkdir  *)
(* and the checks of tools change nothing here; like every step they may   *)
(* fail, which ends the command as a kill does (Stop).  A dry run is a     *)
(* deploy that stops after its plan.                                       *)
(***************************************************************************)
EXTENDS ProjectFiles, FiniteSets

CONSTANTS
    Proc,           \* slots of concurrent commands
    Scenarios,      \* <<target, provider>> of the context: one is chosen
    Requests,       \* <<command, flag>> that may be given
    Attached, NotMade, NoArchive, Unread,
    MaxEdits,       \* bound on edits, uploads included
    MaxCommands,    \* bound on commands
    MaxFaults       \* bound on failing steps, kills, reboots and evictions

ASSUME ProcAssumption == Proc \subseteq Nat \ {0}
ASSUME ScenarioAssumption == Scenarios \subseteq Target \X {"file", "db"}
ASSUME RequestsAssumption ==
    Requests \subseteq {"deploy", "apply", "delete", "backup", "restore", "undo"} \X BOOLEAN

VARIABLES
    target,         \* deploy target of the context
    disk,           \* project folder and docker host's folder, or the cluster
    db,             \* users in the external database
    container,      \* the container or pod: template and what it holds
    rollout,        \* a StatefulSet whose pod is to be replaced
    jobs,           \* the command of each process
    archives,       \* the operator's archive (0), and each slot's safety backup
    settled,        \* history: the last deploy is done, nothing edited since
    edits, commands, faults

vars == <<target, disk, db, container, rollout, jobs, archives, settled, edits, commands, faults>>

(* A local project is deployed where it is; a remote-only one has no other *)
(* folder than the remote one.                                             *)
Home == IF target = "remote_only" THEN "server" ELSE "project"
Host == IF target = "local" THEN "project" ELSE "server"
Root == disk[Home]

(* flag: --include-data, or --install of helm upgrade *)
Idle == [op |-> "none", flag |-> FALSE, todo |-> <<>>, loaded |-> Absent, source |-> NoArchive,
         draft |-> NoArchive, edited |-> {}, before |-> Absent]

Nobody == 0
Running == {p \in Proc : jobs[p].op # "none"}
Step(p) == IF jobs[p].todo = <<>> THEN <<"none", "none">> ELSE Head(jobs[p].todo)
Do(steps) == [i \in DOMAIN steps |-> <<steps[i], "none">>]

(* jobs with what somebody else than p has changed under them (a backup    *)
(* changes nothing, and nothing is asked of it)                            *)
Noted(js, p, changed) ==
    [q \in Proc |-> IF q # p /\ js[q].op \notin {"none", "backup"}
                    THEN [js[q] EXCEPT !.edited = @ \cup changed] ELSE js[q]]

Advance(p, changed) == jobs' = Noted([jobs EXCEPT ![p].todo = Tail(@)], p, changed)

-----------------------------------------------------------------------------
(* The container *)

View(f) == IF container.held[f] = Attached THEN disk[Host][f] ELSE container.held[f]

(* what the container still sees of a file whose place another takes *)
Detached(place, f) ==
    IF place = Host /\ container.template # NotMade /\ container.held[f] = Attached
    THEN [container EXCEPT !.held[f] = disk[Host][f]] ELSE container

(* docker creates the missing folders of a bind mount, the cluster the PVCs *)
Created == {f \in Directory : Home = Host /\ Root[f] = Absent}
WithFolders(files) == [f \in File |-> IF f \in Directory /\ files[f] = Absent THEN 0 ELSE files[f]]

Attach(made) ==
    /\ container' = [template |-> made, held |-> [f \in Mounted |-> Attached]]
    /\ disk' = [disk EXCEPT ![Host] = WithFolders(@)]

(* The pod's init container copies the ConfigMap's provider file over the  *)
(* one on the provider's volume.                                           *)
PodStarts ==
    /\ container' = [template |-> disk.server.artifact.template,
                     held |-> [f \in Mounted |->
                                 CASE f = "config" -> disk.server.config
                                   [] f = "users" -> (IF disk.server.users = Absent
                                                      THEN container.held.users
                                                      ELSE disk.server.users)
                                   [] OTHER -> Attached]]
    /\ disk' = [disk EXCEPT !.server = WithFolders(@)]

PodReplaced ==
    /\ rollout /\ rollout' = FALSE
    /\ PodStarts
    /\ UNCHANGED <<target, db, jobs, archives, settled, edits, commands, faults>>

(* Runtime reads the configuration it sees and the users that names, and   *)
(* records what it has applied: a pass of the loop, or the refresh command *)
FileSeen == View("users")            \* a mutant: whatever the provider
Seen == IF View("config").provider = "db" THEN db ELSE View("users")
Wanted == IF Root.config.provider = "db" THEN db ELSE Root.users

refresh_context ==
    /\ container.template # NotMade /\ View("config") \in Config
    /\ View("config").provider = "file" /\ target \notin Kubernetes =>
          container.template.provider = "file"
    /\ Seen \in Users /\ View("state") \in Nat \ {Seen}
    /\ IF container.held.state = Attached
       THEN /\ disk' = [disk EXCEPT ![Host].state = Seen]
            /\ jobs' = IF Home = Host THEN Noted(jobs, Nobody, {"state"}) ELSE jobs
            /\ UNCHANGED container
       ELSE container' = [container EXCEPT !.held.state = Seen] /\ UNCHANGED <<disk, jobs>>
    /\ UNCHANGED <<target, db, rollout, archives, settled, edits, commands, faults>>

(* SFTP clients write below /data *)
Upload ==
    /\ edits < MaxEdits /\ edits' = edits + 1
    /\ container.template # NotMade /\ View("data") \in Nat
    /\ IF container.held.data = Attached
       THEN /\ disk' = [disk EXCEPT ![Host].data = @ + 1]
            /\ jobs' = IF Home = Host THEN Noted(jobs, Nobody, {"data"}) ELSE jobs
            /\ UNCHANGED container
       ELSE container' = [container EXCEPT !.held.data = @ + 1] /\ UNCHANGED <<disk, jobs>>
    /\ UNCHANGED <<target, db, rollout, archives, settled, commands, faults>>

(* The host is rebooted and starts the container again, or the cluster     *)
(* puts another pod in the place of this one.                              *)
Reboot ==
    /\ container.template # NotMade
    /\ faults < MaxFaults /\ faults' = faults + 1
    /\ IF target \in Kubernetes THEN PodStarts ELSE Attach(container.template)
    /\ jobs' = Noted(jobs, Nobody, Created)
    /\ UNCHANGED <<target, db, rollout, archives, settled, edits, commands>>

-----------------------------------------------------------------------------
(* Edits of the project: sftpwarden.yaml by `config` or by hand, users by  *)
(* the user commands, in place; the watcher's rsync of the provider file.  *)

EditConfig(field, value) ==
    /\ edits < MaxEdits /\ edits' = edits + 1
    /\ Root.config \in Config /\ Root.config[field] # value
    /\ disk' = [disk EXCEPT ![Home].config[field] = value]
    /\ jobs' = Noted(jobs, Nobody, {"config"})
    /\ settled' = FALSE
    /\ UNCHANGED <<target, db, container, rollout, archives, commands, faults>>

EditUsers(v) ==
    /\ edits < MaxEdits /\ edits' = edits + 1
    /\ Root.config \in Config /\ Wanted \in Users \ {v}
    /\ IF Root.config.provider = "db"
       THEN db' = v /\ jobs' = Noted(jobs, Nobody, {"db"}) /\ UNCHANGED <<disk, settled>>
       ELSE /\ disk' = [disk EXCEPT ![Home].users = v]
            /\ jobs' = Noted(jobs, Nobody, {"users"})
            /\ settled' = FALSE /\ UNCHANGED db
    /\ UNCHANGED <<target, container, rollout, archives, commands, faults>>

WatcherSync ==
    /\ target = "synced" /\ Root.config \in Config /\ Root.config.provider = "file"
    /\ Root.users # Absent /\ Root.users # disk.server.users
    /\ container' = Detached("server", "users")
    /\ disk' = [disk EXCEPT !.server.users = Root.users]
    /\ UNCHANGED <<target, db, rollout, jobs, archives, settled, edits, commands, faults>>

-----------------------------------------------------------------------------
(* Steps of the deploy commands *)

Unchanged == UNCHANGED <<target, db, archives, edits, commands, faults>>

Loadable == Root.config \in Config
NothingMissing == target = "synced" /\ Root.config.provider = "file" => Root.users # Absent

(* deployment_plan writes the compose file before anybody has asked for    *)
(* more than the plan; apply_deployment_plan loads, plans and writes again *)
write_artifact(p, config) ==
    /\ disk' = [disk EXCEPT ![Home].artifact = Rendered(target, config, Root.users)]

deployment_plan(p) ==
    /\ Step(p)[1] = "plan"
    /\ target # "remote_only" => Loadable /\ NothingMissing
    /\ IF target \in {"local", "synced"}
       THEN write_artifact(p, Root.config) /\ Advance(p, {"artifact"})
       ELSE Advance(p, {}) /\ UNCHANGED disk
    /\ Unchanged /\ UNCHANGED <<container, rollout, settled>>

required_sync_files(config) ==
    IF config.provider = "file" THEN <<"artifact", "config", "users">> ELSE <<"artifact", "config">>

deploy_commands(config) ==
    CASE target = "local" -> Do(<<"up">>)
      [] target = "synced" -> [i \in DOMAIN required_sync_files(config) |->
                                 <<"rsync", required_sync_files(config)[i]>>] \o Do(<<"up">>)
      [] target = "remote_only" -> Do(<<"test", "up">>)
      [] target \in Kubernetes -> Do(<<"apply", "apply_template", "restart">>)

apply_deployment_plan(p) ==
    /\ Step(p)[1] = "apply_plan"
    /\ target # "remote_only" =>
         Loadable /\ NothingMissing /\ CanRender(target, Root.config, Root.users)
    /\ IF target = "remote_only" THEN UNCHANGED disk ELSE write_artifact(p, Root.config)
    /\ jobs' = Noted([jobs EXCEPT ![p].todo = deploy_commands(Root.config) \o Do(<<"done">>)],
                     p, {"artifact"})
    /\ Unchanged /\ UNCHANGED <<container, rollout, settled>>

(* `kube apply` and `helm upgrade` load once, and render from that after   *)
(* the questions about the provider's schema                               *)
LoadConfig(p) ==
    /\ Step(p)[1] = "load" /\ Loadable
    /\ jobs' = [jobs EXCEPT ![p].todo = Tail(@), ![p].loaded = Root.config]
    /\ Unchanged /\ UNCHANGED <<disk, container, rollout, settled>>

RenderLoaded(p) ==
    /\ Step(p)[1] = "render" /\ CanRender(target, jobs[p].loaded, Root.users)
    /\ write_artifact(p, jobs[p].loaded)
    /\ Advance(p, {"artifact"})
    /\ Unchanged /\ UNCHANGED <<container, rollout, settled>>

(* A file whose size or mtime differs is renamed into place.  One of equal *)
(* content may have been rewritten since it was sent, or not; one of other *)
(* content is sent (but see the README: another content of the same size   *)
(* and mtime would not be).                                                *)
remote_rsync(p) ==
    LET f == Step(p)[2] IN
    /\ Step(p)[1] = "rsync" /\ Root[f] # Absent
    /\ disk' = [disk EXCEPT !.server[f] = Root[f]]
    /\ \/ container' = IF f \in Mounted THEN Detached("server", f) ELSE container
       \/ Root[f] = disk.server[f] /\ UNCHANGED container
    /\ Advance(p, {})
    /\ Unchanged /\ UNCHANGED <<rollout, settled>>

TestRemote(p) ==
    /\ Step(p)[1] = "test" /\ Root.config # Absent /\ Root.artifact # Absent
    /\ Advance(p, {})
    /\ Unchanged /\ UNCHANGED <<disk, container, rollout, settled>>

compose_up(p) ==
    /\ Step(p)[1] = "up" /\ disk[Host].artifact \in Rendering
    /\ IF container.template = disk[Host].artifact.template
       THEN UNCHANGED <<disk, container>> /\ Advance(p, {})
       ELSE Attach(disk[Host].artifact.template) /\ Advance(p, Created)
    /\ Unchanged /\ UNCHANGED <<rollout, settled>>

(* kubectl or helm reads the file, and applies its resources one by one *)
apply_config_map(p) ==
    /\ Step(p)[1] = "apply" /\ Root.artifact \in Rendering
    /\ target = "helm" /\ jobs[p].op = "apply" /\ ~jobs[p].flag => disk.server.artifact # Absent
    /\ disk' = [disk EXCEPT !.server.config = Root.artifact.config,
                            !.server.users = Root.artifact.users]
    /\ jobs' = [jobs EXCEPT ![p].todo = Tail(@), ![p].loaded = Root.artifact]
    /\ Unchanged /\ UNCHANGED <<container, rollout, settled>>

apply_stateful_set(p) ==
    /\ Step(p)[1] = "apply_template"
    /\ disk' = [disk EXCEPT !.server.artifact = jobs[p].loaded]
    /\ rollout' = (rollout \/ container.template # jobs[p].loaded.template)
    /\ Advance(p, {})
    /\ Unchanged /\ UNCHANGED <<container, settled>>

NoRestart(p) ==                     \* a mutant: the pod keeps its mounts
    /\ Step(p)[1] = "restart" /\ disk.server.artifact # Absent
    /\ Advance(p, {})
    /\ Unchanged /\ UNCHANGED <<disk, container, rollout, settled>>

rollout_restart(p) ==
    /\ Step(p)[1] = "restart" /\ disk.server.artifact # Absent
    /\ rollout' = TRUE
    /\ Advance(p, {})
    /\ Unchanged /\ UNCHANGED <<disk, container, settled>>

(* kubectl deletes the resources in the order of kubernetes.yml: the       *)
(* ConfigMap first, the StatefulSet last.  (helm keeps other operations    *)
(* off a release that it uninstalls: its deletion is one step.)            *)
delete_config_map(p) ==
    /\ Step(p)[1] = "delete_map"
    /\ disk' = [disk EXCEPT !.server.config = Absent, !.server.users = Absent]
    /\ settled' = FALSE
    /\ Advance(p, {"deleted"})
    /\ Unchanged /\ UNCHANGED <<container, rollout>>

(* kubernetes.yml and the chart hold the volume claims too *)
delete_resources(p) ==
    /\ Step(p)[1] = "delete"
    /\ disk' = [disk EXCEPT !.server = [f \in File |-> Absent]]
    /\ container' = [template |-> NotMade, held |-> [f \in Mounted |-> Attached]]
    /\ rollout' = FALSE /\ settled' = FALSE
    /\ jobs' = Noted([jobs EXCEPT ![p].todo = Tail(@)], p, {"deleted"})
    /\ Unchanged

-----------------------------------------------------------------------------
(* The life of a command *)

(* What of the changes made meanwhile a deploy would have to be run again for *)
Desired == {"config", "users", "restored", "deleted"}

(* A deploy is done, and no command still running has missed an edit *)
Finish(p) ==
    /\ Step(p)[1] = "done"
    /\ settled' = IF jobs[p].op \in {"deploy", "apply"}
                  THEN \A q \in Running : jobs[q].edited \cap Desired = {}
                  ELSE settled
    /\ jobs' = Noted([jobs EXCEPT ![p] = Idle], p, jobs[p].edited)
    /\ UNCHANGED <<target, disk, db, container, rollout, archives, edits, commands, faults>>

(* _run_actions raises at the first command that fails; a kill does the same *)
End(p) ==
    /\ jobs' = Noted([jobs EXCEPT ![p] = Idle], p, jobs[p].edited)
    /\ UNCHANGED <<target, disk, db, container, rollout, archives, settled, edits, commands>>

Stop(p) ==
    /\ jobs[p].op # "none"
    /\ faults < MaxFaults /\ faults' = faults + 1
    /\ End(p)
=============================================================================
