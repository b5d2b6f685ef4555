------------------------- MODULE ProjectOperations -------------------------
(***************************************************************************)
(* `sftpwarden backup` and `restore` (services/backup.py, cli_commands/    *)
(* core.py) on a context that is deployed, edited and running, and what    *)
(* deploy, backup and restore promise together.                            *)
(*                                                                         *)
(* The files of an archive are added in one step, and it holds nothing     *)
(* until it is closed.  A restore takes its safety backup first, then      *)
(* overwrites one entry after the other.                                   *)
(***************************************************************************)
EXTENDS Deployment

Content(f) ==
    {Absent} \cup CASE f = "config" -> Config \cup {Torn}
                    [] f = "artifact" -> Rendering \cup {Torn}
                    [] f = "users" -> Users \cup {Torn}
                    [] f = "state" -> Users
                    [] f = "data" -> Nat

Files == {files \in [File -> UNION {Content(f) : f \in File}] : \A f \in File : files[f] \in Content(f)}

Archive == [files : Files, users : Users \cup {Unread}]

ASSUME ArchiveAssumption == NoArchive \notin Archive

-----------------------------------------------------------------------------
(* Backup, and the safety backup of a restore *)

Kept == 0

add_files(p, entries) ==
    /\ Step(p)[1] = "archive"
    /\ jobs' = [jobs EXCEPT ![p].todo = Tail(@), ![p].loaded = Root.config,
                            ![p].draft = [files |-> Taken(Root, entries), users |-> Unread]]
    /\ Unchanged /\ UNCHANGED <<disk, container, rollout, settled>>

create_backup(p) ==
    /\ target # "remote_only" /\ Loadable
    /\ add_files(p, backup_entries(target, Root, Root.config, jobs[p].flag))

create_remote_backup(p) ==
    /\ target = "remote_only"
    /\ add_files(p, remote_backup_candidates(Root, jobs[p].flag))

(* A remote-only backup reads the provider from the files it has fetched.  *)
(* A provider that cannot be read leaves users-error.txt in its place, and *)
(* the command goes on.                                                    *)
ReadUsers(p) ==
    LET config == jobs[p].loaded
        file == IF target = "remote_only" THEN jobs[p].draft.files.users ELSE Root.users
    IN  CASE config \notin Config -> {Unread}
          [] config \in Config /\ config.provider = "db" -> {db, Unread}
          [] OTHER -> IF file \in Users THEN {file} ELSE {Unread}

add_users(p) ==
    /\ Step(p)[1] = "snapshot"
    /\ \E users \in ReadUsers(p) :
         LET archive == [jobs[p].draft EXCEPT !.users = users]
         IN  archives' = [archives EXCEPT ![IF jobs[p].op = "backup" THEN Kept ELSE p] = archive]
    /\ jobs' = [jobs EXCEPT ![p].todo = Tail(@)]
    /\ UNCHANGED <<target, disk, db, container, rollout, settled, edits, commands, faults>>

-----------------------------------------------------------------------------
(* Restore *)

(* in the order of sorted(entries): data, docker-compose.yml,              *)
(* sftpwarden.yaml, state, users.csv or users.yaml                         *)
InOrder(step) == step["data"] \o step["artifact"] \o step["config"] \o step["state"] \o step["users"]

Overwriting(f) == IF f \in Directory THEN <<<<"rmtree", f>>, <<"copy", f>>>> ELSE <<<<"copy", f>>>>

overwriting(entries) ==
    InOrder([f \in File |-> IF f \in entries THEN Overwriting(f) ELSE <<>>])

uploading(entries) ==
    InOrder([f \in File |-> IF f \in entries THEN <<<<"upload", f>>>> ELSE <<>>])

SafetyLast(p) ==                    \* a mutant: the safety backup comes last
    /\ Step(p)[1] = "extract"
    /\ LET source == archives[IF jobs[p].op = "undo" THEN p ELSE Kept]
           entries == RestoredEntries(source.files, jobs[p].flag)
       IN  jobs' = [jobs EXCEPT ![p].source = source,
                                ![p].todo = overwriting(entries) \o
                                            Do(<<"users", "archive", "snapshot", "done">>)]
    /\ Unchanged /\ UNCHANGED <<disk, container, rollout, settled>>

extract(p) ==
    /\ Step(p)[1] = "extract"
    /\ LET source == archives[IF jobs[p].op = "undo" THEN p ELSE Kept]
           entries == RestoredEntries(source.files, jobs[p].flag)
       IN  jobs' = [jobs EXCEPT ![p].source = source,
                                ![p].todo = Do(<<"archive", "snapshot">>) \o
                                   (IF target = "remote_only" THEN uploading(entries)
                                    ELSE overwriting(entries) \o Do(<<"users">>)) \o
                                   Do(<<"done">>)]
    /\ Unchanged /\ UNCHANGED <<disk, container, rollout, settled>>

(* shutil.rmtree takes a folder away from under its mount; copytree refuses *)
(* a folder that somebody has made again                                   *)
remove_tree(p) ==
    LET f == Step(p)[2] IN
    /\ Step(p)[1] = "rmtree"
    /\ container' = Detached(Home, f)
    /\ disk' = [disk EXCEPT ![Home][f] = Absent]
    /\ settled' = FALSE
    /\ Advance(p, {f, "restored"})
    /\ Unchanged /\ UNCHANGED rollout

copy_entry(p) ==
    LET f == Step(p)[2] IN
    /\ Step(p)[1] = "copy" /\ (f \in Directory => Root[f] = Absent)
    /\ disk' = [disk EXCEPT ![Home][f] = jobs[p].source.files[f]]
    /\ settled' = FALSE
    /\ Advance(p, {f, "restored"})
    /\ Unchanged /\ UNCHANGED <<container, rollout>>

(* copy2 truncates the file and fills it in place: a kill or a full disk   *)
(* leaves a part of it, or nothing, which as a provider file is no users   *)
CopyTorn(p) ==
    LET f == Step(p)[2] IN
    /\ Step(p)[1] = "copy" /\ f \notin Directory
    /\ faults < MaxFaults /\ faults' = faults + 1
    /\ \E rest \in IF f = "users" THEN {Torn, 0} ELSE {Torn} :
         disk' = [disk EXCEPT ![Home][f] = rest]
    /\ settled' = FALSE
    /\ jobs' = Noted([jobs EXCEPT ![p] = Idle], p, jobs[p].edited \cup {f, "restored"})
    /\ UNCHANGED <<target, db, container, rollout, archives, edits, commands>>

(* What has been extracted is new to rsync, whatever it holds: each file   *)
(* is renamed into place, those of a folder inside the folder.             *)
upload_entry(p) ==
    LET f == Step(p)[2] IN
    /\ Step(p)[1] = "upload"
    /\ disk' = [disk EXCEPT !.server[f] = jobs[p].source.files[f]]
    /\ container' = IF f \in Mounted \ Directory THEN Detached("server", f) ELSE container
    /\ settled' = FALSE
    /\ Advance(p, {f, "restored"})
    /\ Unchanged /\ UNCHANGED rollout

FormerDatabase(p) ==                \* a mutant: configuration loaded too early
    /\ Step(p)[1] = "users"
    /\ LET write == jobs[p].source.users # Unread /\ jobs[p].loaded.provider = "db"
       IN  /\ db' = IF write THEN jobs[p].source.users ELSE db
           /\ Advance(p, IF write THEN {"db"} ELSE {})
    /\ UNCHANGED <<target, disk, container, rollout, archives, settled, edits, commands, faults>>

(* the database that the restored configuration names *)
restore_users(p) ==
    /\ Step(p)[1] = "users"
    /\ jobs[p].source.users # Unread /\ Root.config # Absent => Loadable
    /\ LET write == jobs[p].source.users # Unread /\ Root.config # Absent
                       /\ Root.config.provider = "db"
       IN  /\ db' = IF write THEN jobs[p].source.users ELSE db
           /\ Advance(p, IF write THEN {"db"} ELSE {})
    /\ UNCHANGED <<target, disk, container, rollout, archives, settled, edits, commands, faults>>

-----------------------------------------------------------------------------
(* Behaviours *)

Steps(op) ==
    CASE op = "deploy" -> Do(<<"plan", "apply_plan">>)
      [] op = "apply" -> Do(<<"load", "render", "apply", "apply_template", "restart", "done">>)
      [] op = "delete" -> Do(IF target = "helm" THEN <<"delete", "done">>
                             ELSE <<"load", "render", "delete_map", "delete", "done">>)
      [] op = "backup" -> Do(<<"archive", "snapshot", "done">>)
      [] op \in {"restore", "undo"} -> Do(<<"extract">>)

(* a command takes the first free slot *)
Begin(p, request) ==
    /\ jobs[p].op = "none" /\ \A q \in Proc : q < p => jobs[q].op # "none"
    /\ commands < MaxCommands /\ commands' = commands + 1
    /\ request[1] \in {"apply", "delete"} => target \in Kubernetes
    /\ request[1] = "undo" => archives[p] # NoArchive
    /\ jobs' = [jobs EXCEPT ![p] = [Idle EXCEPT !.op = request[1], !.flag = request[2],
                                                !.todo = Steps(request[1]),
                                                !.before = IF request[1] \in {"restore", "undo"}
                                                           THEN [files |-> Root, db |-> db]
                                                           ELSE Absent]]
    /\ UNCHANGED <<target, disk, db, container, rollout, archives, settled, edits, faults>>

(* A project as init leaves it, nothing deployed yet; a backup taken of it *)
(* in an earlier life, with its data                                       *)
Project(deploy, provider, v) ==
    LET config == [shape |-> v, tuning |-> v, provider |-> provider]
    IN  [config |-> config, users |-> v, state |-> Absent, data |-> Absent,
         artifact |-> IF deploy \in Kubernetes THEN Absent ELSE compose_model(config)]

Earlier(deploy, provider, v) ==
    LET files == Project(deploy, provider, v)
    IN  [users |-> v,
         files |-> [files EXCEPT !.users = IF provider = "db" THEN Absent ELSE @,
                                 !.state = IF deploy \in {"local", "remote_only"} THEN v ELSE @,
                                 !.data = IF deploy \in {"local", "remote_only"} THEN v ELSE @]]

Init ==
    \E scenario \in Scenarios, new, old \in Version :
      LET project == Project(scenario[1], scenario[2], new)
          nothing == [f \in File |-> Absent]
      IN  /\ new < old
          /\ target = scenario[1]
          /\ disk = [project |-> IF target = "remote_only" THEN nothing ELSE project,
                     server |-> IF target = "remote_only" THEN project ELSE nothing]
          /\ db = new
          /\ container = [template |-> NotMade, held |-> [f \in Mounted |-> Attached]]
          /\ rollout = FALSE /\ settled = FALSE
          /\ jobs = [p \in Proc |-> Idle]
          /\ archives = [a \in Proc \cup {Kept} |->
                           IF a = Kept THEN Earlier(scenario[1], scenario[2], old) ELSE NoArchive]
          /\ edits = 0 /\ commands = 0 /\ faults = 0

DeployStep(p) ==
    \/ deployment_plan(p) \/ apply_deployment_plan(p) \/ LoadConfig(p) \/ RenderLoaded(p)
    \/ remote_rsync(p) \/ TestRemote(p) \/ compose_up(p)
    \/ apply_config_map(p) \/ apply_stateful_set(p) \/ rollout_restart(p)
    \/ delete_config_map(p) \/ delete_resources(p)

BackupStep(p) ==
    \/ create_backup(p) \/ create_remote_backup(p) \/ add_users(p) \/ extract(p)
    \/ remove_tree(p) \/ copy_entry(p) \/ upload_entry(p) \/ restore_users(p)

(* a step that finds what it needs missing or unreadable raises *)
Refused(p) ==
    /\ jobs[p].op # "none" /\ Step(p)[1] # "done"
    /\ ~ENABLED (DeployStep(p) \/ BackupStep(p))
    /\ End(p) /\ UNCHANGED faults

Next ==
    \/ \E p \in Proc :
         \/ \E request \in Requests : Begin(p, request)
         \/ DeployStep(p) \/ BackupStep(p) \/ Finish(p) \/ Stop(p) \/ CopyTorn(p) \/ Refused(p)
    \/ \E field \in {"shape", "tuning"}, v \in Version : EditConfig(field, v)
    \/ \E provider \in {"file", "db"} : EditConfig("provider", provider)
    \/ \E v \in Version : EditUsers(v)
    \/ Upload \/ WatcherSync \/ refresh_context \/ PodReplaced \/ Reboot

Spec == Init /\ [][Next]_vars /\ WF_vars(refresh_context) /\ WF_vars(PodReplaced)

-----------------------------------------------------------------------------
(* Properties *)

(* TypeOK: files hold what may be written to them; a command of a process  *)
(* that has none has no step left                                          *)
TypeOK ==
    /\ \A place \in {"project", "server"}, f \in File : disk[place][f] \in Content(f)
    /\ \A f \in Mounted : container.held[f] \in Content(f) \cup {Attached}
    /\ container.template \in Template \cup {NotMade} /\ db \in Users
    /\ \A p \in Proc : jobs[p].op = "none" => jobs[p] = Idle
    /\ \A a \in Proc \cup {Kept} : archives[a] # NoArchive =>
         /\ \A f \in File : archives[a].files[f] \in Content(f)
         /\ archives[a].users \in Users \cup {Unread}

Reaches(f) == View(f) = Root[f]

(* Once a deploy has succeeded, whatever failed or was killed before, and  *)
(* with other deploys of the same project under way, and until somebody    *)
(* edits it: the deployment file is rendered from the configuration, the   *)
(* container is made from it, the remote host has the project's files, and *)
(* a local container or a new pod sees the configuration and the users.    *)
(* (A container on a remote host may not: see DeployReachesRuntime.)       *)
DeployDelivers ==
    settled =>
      /\ target # "remote_only" => Root.artifact = Rendered(target, Root.config, Root.users)
      /\ ~rollout => container.template = disk[Host].artifact.template
      /\ disk[Host].artifact = Root.artifact
      /\ disk[Host].config = Root.config
      /\ Root.config.provider = "file" => disk[Host].users = Root.users
      /\ target \in Kubernetes \cup {"local"} /\ ~rollout =>
           Reaches("config") /\ (Root.config.provider = "file" => Reaches("users"))

(* A container that keeps files it was started with: the runtime goes on   *)
(* with a configuration or users that a successful deploy has replaced.    *)
(* docs/operations.md:36 says that changes of sftpwarden.yaml are applied  *)
(* by the next deploy step.                                                *)
DeployReachesRuntime ==
    settled /\ ~rollout => Reaches("config") /\ (Root.config.provider = "file" => Reaches("users"))

(* After a deploy to this machine or to a cluster, the runtime comes to    *)
(* apply the users of the project, unless somebody edits it again.         *)
DeployTakesHold ==
    [](settled /\ target \in Kubernetes \cup {"local"} /\ Wanted \in Users =>
        <>(~settled \/ View("state") = Wanted))

Restoring(p) == jobs[p].op \in {"restore", "undo"}

(* A restore that has ended well has put back each entry of the archive    *)
(* that was asked for, and the users of a database, and has left the other *)
(* files as they were, but for what others have changed meanwhile.         *)
RestoreRestores ==
    \A p \in Proc : Restoring(p) /\ Step(p)[1] = "done" =>
      LET source == jobs[p].source
          entries == RestoredEntries(source.files, jobs[p].flag)
          changed == jobs[p].edited
      IN  /\ \A f \in File \ changed :
               Root[f] = IF f \in entries THEN source.files[f] ELSE jobs[p].before.files[f]
          /\ target # "remote_only" /\ "db" \notin changed /\ "config" \notin changed =>
               db = IF Root.config.provider = "db" /\ source.users # Unread
                    THEN source.users ELSE jobs[p].before.db

(* Whatever has become of a restore, what it has overwritten is in its     *)
(* safety backup: each file, and the users of the database when the        *)
(* project read them there and they could be read.  (A file that the       *)
(* configuration in force does not name is not: see the README.)           *)
RestoreIsUndoable ==
    \A p \in Proc : Restoring(p) =>
      LET before == jobs[p].before
          kept(f) == archives[p] # NoArchive /\ archives[p].files[f] = before.files[f]
          named == IF target = "remote_only" THEN File
                   ELSE backup_entries(target, before.files, before.files.config, TRUE)
      IN  before.files.config \in Config /\ "config" \notin jobs[p].edited =>
            /\ \A f \in named \ jobs[p].edited : Root[f] = before.files[f] \/ kept(f)
            /\ before.files.config.provider = "db" /\ "db" \notin jobs[p].edited =>
                 db = before.db \/ archives[p].users \in {before.db, Unread}
=============================================================================
