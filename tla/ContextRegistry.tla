-------------------------- MODULE ContextRegistry --------------------------
(***************************************************************************)
(* contexts.toml and the commands that change it: contexts/registry.py,    *)
(* services/context_cleanup.py, cli_commands/context.py, and what init,    *)
(* config, deploy and refresh do to it.                                    *)
(*                                                                         *)
(* Every command loads the registry, works on the outside world for as     *)
(* long as that takes (docker, ssh, deleting a tree, a prompt), and writes *)
(* the registry it has loaded back: write_text truncates the file and then *)
(* fills it, and an empty file reads as an empty registry.  Invocations of *)
(* the CLI interleave at every such step; nothing is locked.               *)
(***************************************************************************)
EXTENDS Naturals, FiniteSets

CONSTANTS
    Name,          \* names of contexts and of projects
    NoName,        \* no default context
    Root,          \* local project folders
    NoRoot,        \* a remote-only context has none
    NoConfig,      \* a folder without sftpwarden.yaml
    Gone,          \* the folder does not exist
    Cli,           \* concurrent invocations of the CLI
    Initial,       \* the registries and folders to start from
    MaxCommands,   \* bound on commands started
    MaxFaults,     \* bound on kills and failing uninstalls
    MaxEvents      \* bound on changes of folders by others

Kind == {"none", "local", "sync", "remoteOnly"}
NoEntry == [kind |-> "none", root |-> NoRoot]

\* what add, init and type can register, and what storage makes of it
NewEntry ==
    [kind : {"local", "sync"}, root : Root] \cup [kind : {"remoteOnly"}, root : {NoRoot}]
Entry == NewEntry \cup [kind : {"sync", "remoteOnly"}, root : Root \cup {NoRoot}]

EmptyRegistry == [entry |-> [n \in Name |-> NoEntry], default |-> NoName]

Known(r) == {n \in Name : r.entry[n] # NoEntry}

ASSUME NameAssumption == NoName \notin Name
ASSUME RootAssumption == NoRoot \notin Root /\ {NoConfig, Gone} \cap Name = {}
ASSUME InitialAssumption ==
    /\ Initial \subseteq
         [registry : [entry : [Name -> Entry \cup {NoEntry}], default : Name \cup {NoName}],
          project : [Root -> Name \cup {NoConfig, Gone}]]
    /\ \A i \in Initial :
         i.registry.default # NoName => i.registry.default \in Known(i.registry)
ASSUME BoundsAssumption ==
    MaxCommands \in Nat /\ MaxFaults \in Nat /\ MaxEvents \in Nat

VARIABLES
    saved,      \* contexts.toml
    project,    \* each folder: project.name of its sftpwarden.yaml, NoConfig, Gone
    running,    \* the folders whose Compose runtime runs
    watcher,    \* the watcher is installed
    commands, faults, events,
    \* locals of each invocation
    pc,
    cmd,        \* what it was asked to do
    reg,        \* the registry it has loaded and changed
    stale,      \* the contexts whose folder prune found missing
    shared,     \* remove: another context has the same folder
    resume,     \* where save_registry returns to
    \* auxiliary
    existed,    \* the folders that have existed so far
    raced       \* two commands have overlapped, or one was killed

outside == <<project, running, watcher>>
counters == <<commands, faults, events>>
locals == <<pc, cmd, reg, stale, shared, resume>>
vars == <<saved, outside, counters, locals, existed, raced>>

Command ==
    [op : {"add", "init", "type"}, name : Name, to : {NoName}, entry : NewEntry]
      \cup [op : {"rename", "name", "project.name"}, name : Name, to : Name, entry : {NoEntry}]
      \cup [op : {"root"}, name : Name, to : {NoName}, entry : [kind : {"local"}, root : Root]]
      \cup [op : {"remove", "storage", "default", "deploy", "refresh"},
            name : Name, to : {NoName}, entry : {NoEntry}]
      \cup [op : {"clear"}, name : {NoName}, to : {NoName}, entry : {NoEntry}]

NoCommand == [op |-> "none", name |-> NoName, to |-> NoName, entry |-> NoEntry]

\* these commands prune the registry before they look at it; refresh stands
\* for health, backup and context show too
Pruning == {"clear", "name", "project.name", "type", "storage", "root", "deploy", "refresh"}

Init ==
    /\ \E i \in Initial : saved = i.registry /\ project = i.project
    /\ running = {}
    /\ watcher = \E n \in Name : saved.entry[n].kind = "sync"
    /\ commands = 0 /\ faults = 0 /\ events = 0
    /\ pc = [p \in Cli |-> "idle"]
    /\ cmd = [p \in Cli |-> NoCommand]
    /\ reg = [p \in Cli |-> EmptyRegistry]
    /\ stale = [p \in Cli |-> {}]
    /\ shared = [p \in Cli |-> FALSE]
    /\ resume = [p \in Cli |-> "idle"]
    /\ existed = {r \in Root : project[r] # Gone}
                   \cup ({saved.entry[n].root : n \in Known(saved)} \ {NoRoot})
    /\ raced = FALSE
-----------------------------------------------------------------------------
(* Operations on a loaded registry *)

RepairNothing(r) == {r}

(* _repair_default: the first context that is left, in an order the file *)
(* keeps and the model does not.                                         *)
RepairDefault(r) ==
    IF r.default = NoName \/ r.default \in Known(r) THEN {r}
    ELSE IF Known(r) = {} THEN {[r EXCEPT !.default = NoName]}
    ELSE {[r EXCEPT !.default = n] : n \in Known(r)}

(* registry.contexts[n] = e, as register_context does it *)
Put(r, n, e) ==
    [entry |-> [r.entry EXCEPT ![n] = e],
     default |-> IF r.default = NoName THEN n ELSE r.default]

DropKind(r, S) == [r EXCEPT !.entry = [n \in Name |->
    IF n \in S THEN [r.entry[n] EXCEPT !.kind = "none"] ELSE r.entry[n]]]

Drop(r, S) == [r EXCEPT !.entry = [n \in Name |->
    IF n \in S THEN NoEntry ELSE r.entry[n]]]

RenameKeepingOld(r, old, new) ==
    [entry |-> [r.entry EXCEPT ![new] = r.entry[old]],
     default |-> IF r.default = old THEN new ELSE r.default]

(* contexts[new] = contexts.pop(old): an entry named new is replaced. *)
RenameEntry(r, old, new) ==
    [entry |-> [r.entry EXCEPT ![old] = NoEntry, ![new] = r.entry[old]],
     default |-> IF r.default = old THEN new ELSE r.default]

(* _context_root_missing: a folder that is not there now *)
Missing(r) ==
    {n \in Known(r) : r.entry[n].root # NoRoot /\ project[r.entry[n].root] = Gone}

SharedWithDefault(r, n) ==
    /\ r.entry[n].root # NoRoot
    /\ r.default \in Known(r) \ {n} /\ r.entry[r.default].root = r.entry[n].root

(* _local_root_shared *)
Shared(r, n) ==
    /\ r.entry[n].root # NoRoot
    /\ \E m \in Known(r) \ {n} : r.entry[m].root = r.entry[n].root

HasSync(r) == \E n \in Name : r.entry[n].kind = "sync"
-----------------------------------------------------------------------------
(* The steps of every command *)

Goto(p, label) == pc' = [pc EXCEPT ![p] = label]

(* save_registry(r), which returns to label *)
Save(p, r, label) ==
    /\ reg' = [reg EXCEPT ![p] = r]
    /\ resume' = [resume EXCEPT ![p] = label]
    /\ Goto(p, "save")

Ends(p) ==
    /\ Goto(p, "idle")
    /\ cmd' = [cmd EXCEPT ![p] = NoCommand]
    /\ reg' = [reg EXCEPT ![p] = EmptyRegistry]
    /\ stale' = [stale EXCEPT ![p] = {}]
    /\ shared' = [shared EXCEPT ![p] = FALSE]
    /\ resume' = [resume EXCEPT ![p] = "idle"]

Start(p, c) ==
    /\ pc[p] = "idle"
    /\ commands < MaxCommands
    /\ commands' = commands + 1
    /\ cmd' = [cmd EXCEPT ![p] = c]
    /\ Goto(p, IF c.op \in Pruning THEN "prune" ELSE "work")
    /\ raced' = (raced \/ \E q \in Cli : pc[q] # "idle")
    /\ UNCHANGED <<saved, outside, faults, events, reg, stale, shared, resume, existed>>

(* prune_missing_contexts loads the registry and looks for every folder. *)
Prune(p) ==
    /\ pc[p] = "prune"
    /\ reg' = [reg EXCEPT ![p] = saved]
    /\ stale' = [stale EXCEPT ![p] = Missing(saved)]
    /\ Goto(p, IF Missing(saved) = {} THEN "work" ELSE "orphans")
    /\ UNCHANGED <<saved, outside, counters, cmd, shared, resume, existed, raced>>

(* cleanup_orphaned_local_runtime for the local ones, as far as docker     *)
(* lets it, and the registry without any of them                           *)
DropMissing(p) ==
    /\ pc[p] = "orphans"
    /\ \E S \in SUBSET {reg[p].entry[n].root :
                          n \in {m \in stale[p] : reg[p].entry[m].kind = "local"}} :
         running' = running \ S
    /\ \E r \in RepairDefault(Drop(reg[p], stale[p])) : Save(p, r, "pruned")
    /\ UNCHANGED <<saved, project, watcher, counters, cmd, stale, shared, existed, raced>>

(* write_text opens the file, which truncates it, ... *)
Truncate(p) ==
    /\ pc[p] = "save"
    /\ saved' = EmptyRegistry
    /\ Goto(p, "fill")
    /\ UNCHANGED <<outside, counters, cmd, reg, stale, shared, resume, existed, raced>>

(* ... and writes the text; what a command without further steps returns *)
Fill(p) ==
    /\ pc[p] = "fill"
    /\ saved' = reg[p]
    /\ IF resume[p] = "idle" THEN Ends(p)
       ELSE /\ Goto(p, resume[p])
            /\ UNCHANGED <<cmd, reg, stale, shared, resume>>
    /\ UNCHANGED <<outside, counters, existed, raced>>

UninstallAnyway(p) ==
    /\ pc[p] \in {"pruned", "removed"}
    /\ watcher' = FALSE
    /\ IF pc[p] = "removed" THEN Ends(p)
       ELSE Goto(p, "work") /\ UNCHANGED <<cmd, reg, stale, shared, resume>>
    /\ UNCHANGED <<saved, project, running, counters, existed, raced>>

(* cleanup_watcher_if_unused, with the registry just saved *)
CleanupWatcher(p) ==
    /\ pc[p] \in {"pruned", "removed"}
    /\ watcher' = (watcher /\ HasSync(reg[p]))
    /\ IF pc[p] = "removed" THEN Ends(p)
       ELSE Goto(p, "work") /\ UNCHANGED <<cmd, reg, stale, shared, resume>>
    /\ UNCHANGED <<saved, project, running, counters, existed, raced>>

(* handle_watcher_without_local_sync_targets asks before it uninstalls. *)
HandleWatcher(p) ==
    /\ pc[p] = "handle"
    /\ watcher' \in {watcher, watcher /\ HasSync(reg[p])}
    /\ Ends(p)
    /\ UNCHANGED <<saved, project, running, counters, existed, raced>>

(* run_watcher_commands raises, on uninstalling the watcher or, with a   *)
(* Docker one that is still needed, on refreshing it: the command ends   *)
(* after its save.                                                       *)
WatcherCommandsFail(p) ==
    /\ pc[p] \in {"pruned", "removed", "handle"}
    /\ watcher
    /\ pc[p] = "handle" => ~HasSync(reg[p])
    /\ faults < MaxFaults
    /\ faults' = faults + 1
    /\ Ends(p)
    /\ UNCHANGED <<saved, outside, commands, events, existed, raced>>

(* install_context_watcher; the user may decline, the scheduler refuse *)
InstallWatcher(p) ==
    /\ pc[p] = "install"
    /\ watcher' \in {watcher, watcher \/ cmd[p].entry.kind = "sync"}
    /\ Ends(p)
    /\ UNCHANGED <<saved, project, running, counters, existed, raced>>
-----------------------------------------------------------------------------
(* The commands *)

Works(p, op) == pc[p] = "work" /\ cmd[p].op = op

\* deploy, refresh and project.name go on with the registry prune returned,
\* the others load it again
KeepsPruned == {"deploy", "refresh", "project.name"}

(* The context named on the command line is in the registry, whenever the *)
(* command looks for it.                                                  *)
FindsContext(p) ==
    /\ cmd[p].op \in Pruning => cmd[p].name \in Known(reg[p])
    /\ cmd[p].op \notin KeepsPruned => cmd[p].name \in Known(saved)

\* the folder of the context has a sftpwarden.yaml
HasConfig(e) == e.root # NoRoot /\ project[e.root] \in Name

UnknownContext(p) ==
    /\ pc[p] = "work"
    /\ cmd[p].op \notin {"add", "init", "clear"}
    /\ ~FindsContext(p)
    /\ Ends(p)
    /\ UNCHANGED <<saved, outside, counters, existed, raced>>

(* context add: a local project has to exist, a remote context's folder not *)
Add(p) ==
    /\ Works(p, "add")
    /\ cmd[p].entry.kind = "local" => HasConfig(cmd[p].entry)
    /\ Save(p, Put(saved, cmd[p].name, cmd[p].entry), "install")
    /\ UNCHANGED <<saved, outside, counters, cmd, stale, shared, existed, raced>>

AddWithoutProject(p) ==
    /\ Works(p, "add")
    /\ cmd[p].entry.kind = "local" /\ ~HasConfig(cmd[p].entry)
    /\ Ends(p)
    /\ UNCHANGED <<saved, outside, counters, existed, raced>>

(* init writes the project, registers it and, in a second load and save, *)
(* makes it the default.                                                 *)
InitContext(p) ==
    /\ Works(p, "init")
    /\ LET r == cmd[p].entry.root IN
       IF r = NoRoot THEN UNCHANGED <<project, existed>>
       ELSE /\ project' = [project EXCEPT ![r] = cmd[p].name]
            /\ existed' = existed \cup {r}
    /\ Save(p, Put(saved, cmd[p].name, cmd[p].entry), "default")
    /\ UNCHANGED <<saved, running, watcher, counters, cmd, stale, shared, raced>>

SetDefaultOfInit(p) ==
    /\ pc[p] = "default"
    /\ IF cmd[p].name \in Known(saved)
       THEN /\ Save(p, [saved EXCEPT !.default = cmd[p].name], "install")
            /\ UNCHANGED <<cmd, stale, shared>>
       ELSE Ends(p)
    /\ UNCHANGED <<saved, outside, counters, existed, raced>>

SetDefault(p) ==
    /\ Works(p, "default")
    /\ FindsContext(p)
    /\ Save(p, [saved EXCEPT !.default = cmd[p].name], "idle")
    /\ UNCHANGED <<saved, outside, counters, cmd, stale, shared, existed, raced>>

ClearDefault(p) ==
    /\ Works(p, "clear")
    /\ Save(p, [saved EXCEPT !.default = NoName], "idle")
    /\ UNCHANGED <<saved, outside, counters, cmd, stale, shared, existed, raced>>

(* context rename: neither the project nor a context of the new name is *)
(* looked at                                                            *)
Rename(p) ==
    /\ Works(p, "rename")
    /\ FindsContext(p)
    /\ Save(p, RenameEntry(saved, cmd[p].name, cmd[p].to), "idle")
    /\ UNCHANGED <<saved, outside, counters, cmd, stale, shared, existed, raced>>

\* another context has the name
NameTaken(r, p) == cmd[p].to \in Known(r) \ {cmd[p].name}

(* context name: rename_context_and_project *)
RenameWithProject(p) ==
    /\ Works(p, "name")
    /\ FindsContext(p)
    /\ IF NameTaken(saved, p)
       THEN Ends(p) /\ UNCHANGED project
       ELSE LET e == saved.entry[cmd[p].name] IN
            /\ project' = IF HasConfig(e) THEN [project EXCEPT ![e.root] = cmd[p].to]
                          ELSE project
            /\ Save(p, RenameEntry(saved, cmd[p].name, cmd[p].to), "idle")
            /\ UNCHANGED <<cmd, stale, shared>>
    /\ UNCHANGED <<saved, running, watcher, counters, existed, raced>>

(* config project.name: the project first ... *)
WriteProjectName(p) ==
    /\ Works(p, "project.name")
    /\ FindsContext(p)
    /\ LET e == reg[p].entry[cmd[p].name] IN
       IF HasConfig(e) /\ project[e.root] # cmd[p].to
       THEN /\ project' = [project EXCEPT ![e.root] = cmd[p].to]
            /\ Goto(p, "rename")
            /\ UNCHANGED <<cmd, reg, stale, shared, resume>>
       ELSE Ends(p) /\ UNCHANGED project
    /\ UNCHANGED <<saved, running, watcher, counters, existed, raced>>

(* ... then rename_context_for_project_name, which may still refuse *)
RenameForProject(p) ==
    /\ pc[p] = "rename"
    /\ IF cmd[p].name \in Known(saved) /\ ~NameTaken(saved, p)
       THEN /\ Save(p, RenameEntry(saved, cmd[p].name, cmd[p].to), "idle")
            /\ UNCHANGED <<cmd, stale, shared>>
       ELSE Ends(p)
    /\ UNCHANGED <<saved, outside, counters, existed, raced>>

(* context type: between local and remote, nothing for the type it has *)
Convert(p) ==
    /\ Works(p, "type")
    /\ FindsContext(p)
    /\ LET e == saved.entry[cmd[p].name]
           same == (e.kind = "local") = (cmd[p].entry.kind = "local")
       IN  Save(p, [saved EXCEPT !.entry[cmd[p].name] =
                      IF same THEN e ELSE cmd[p].entry], "handle")
    /\ UNCHANGED <<saved, outside, counters, cmd, stale, shared, existed, raced>>

(* context storage, on a remote context: the folder stays as it is *)
ChangeStorage(p) ==
    /\ Works(p, "storage")
    /\ FindsContext(p)
    /\ LET e == saved.entry[cmd[p].name] IN
       Save(p, [saved EXCEPT !.entry[cmd[p].name].kind =
                  CASE e.kind = "sync" -> "remoteOnly"
                    [] e.kind = "remoteOnly" -> "sync"
                    [] OTHER -> e.kind], "handle")
    /\ UNCHANGED <<saved, outside, counters, cmd, stale, shared, existed, raced>>

(* context root: migrate_context_root copies the folder over the new one   *)
(* and may delete the old one, whoever else uses it.  For a context        *)
(* without a folder it would copy the working directory: left out.         *)
MoveRoot(p) ==
    /\ Works(p, "root")
    /\ FindsContext(p)
    /\ LET old == saved.entry[cmd[p].name].root
           new == cmd[p].entry.root
           copied == IF project[old] \in Name THEN project[old]
                     ELSE IF project[new] = Gone THEN NoConfig ELSE project[new]
       IN  IF old = new \/ old = NoRoot
           THEN project' = project /\ Save(p, saved, "handle")
           ELSE /\ project' \in {[project EXCEPT ![new] = copied],
                                 [project EXCEPT ![new] = copied, ![old] = Gone]}
                /\ Save(p, [saved EXCEPT !.entry[cmd[p].name].root = new], "handle")
    /\ existed' = existed \cup {r \in Root : project'[r] # Gone}
    /\ UNCHANGED <<saved, running, watcher, counters, cmd, stale, shared, raced>>
-----------------------------------------------------------------------------
(* remove_context_with_cleanup *)

LoadForRemoval(p) ==
    /\ Works(p, "remove")
    /\ FindsContext(p)
    /\ reg' = [reg EXCEPT ![p] = saved]
    /\ shared' = [shared EXCEPT ![p] = Shared(saved, cmd[p].name)]
    /\ Goto(p, "stop")
    /\ UNCHANGED <<saved, outside, counters, cmd, stale, resume, existed, raced>>

Removed(p) == reg[p].entry[cmd[p].name]

(* --delete-remote fails: RuntimeError, with nothing changed here *)
RemoteCleanupFails(p) ==
    /\ pc[p] = "stop"
    /\ Removed(p).kind # "local"
    /\ Ends(p)
    /\ UNCHANGED <<saved, outside, counters, existed, raced>>

(* docker compose down, when docker and the project let it *)
StopRuntime(p) ==
    /\ pc[p] = "stop"
    /\ running' \in IF Removed(p).kind = "local" /\ ~shared[p]
                    THEN {running, running \ {Removed(p).root}} ELSE {running}
    /\ Goto(p, "erase")
    /\ UNCHANGED <<saved, project, watcher, counters, cmd, reg, stale, shared, resume,
                   existed, raced>>

(* remove_local_project_root, when the project says it is this context's, *)
(* and the registry without it                                            *)
EraseRoot(p) ==
    /\ pc[p] = "erase"
    /\ project' = IF ~shared[p] /\ Removed(p).root # NoRoot
                       /\ project[Removed(p).root] = cmd[p].name
                  THEN [project EXCEPT ![Removed(p).root] = Gone] ELSE project
    /\ \E r \in RepairDefault(Drop(reg[p], {cmd[p].name})) : Save(p, r, "removed")
    /\ UNCHANGED <<saved, running, watcher, counters, cmd, stale, shared, existed, raced>>
-----------------------------------------------------------------------------
(* deploy and refresh *)

(* reconcile_registered_context: a project renamed by hand renames its *)
(* context, in the registry that prune has loaded.                     *)
Reconcile(p) ==
    /\ Works(p, "deploy")
    /\ FindsContext(p)
    /\ LET n == cmd[p].name
           e == reg[p].entry[n]
       IN  IF ~HasConfig(e) \/ project[e.root] = n
           THEN Goto(p, IF e.root = NoRoot THEN "reach" ELSE "up")
                /\ UNCHANGED <<cmd, reg, stale, shared, resume>>
           ELSE IF project[e.root] \in Known(reg[p]) THEN Ends(p)
           ELSE /\ Save(p, RenameEntry(reg[p], n, project[e.root]), "up")
                /\ cmd' = [cmd EXCEPT ![p].name = project[e.root]]
                /\ UNCHANGED <<stale, shared>>
    /\ UNCHANGED <<saved, outside, counters, existed, raced>>

(* docker compose up of a local context; it fails without a project *)
Up(p) ==
    /\ pc[p] = "up"
    /\ LET e == reg[p].entry[cmd[p].name] IN
       running' \in {running} \cup
           (IF e.kind = "local" /\ HasConfig(e) THEN {running \cup {e.root}} ELSE {})
    /\ Ends(p)
    /\ UNCHANGED <<saved, project, watcher, counters, existed, raced>>

Refresh(p) ==
    /\ Works(p, "refresh")
    /\ FindsContext(p)
    /\ IF reg[p].entry[cmd[p].name].kind = "remoteOnly"
       THEN Goto(p, "reach") /\ UNCHANGED <<cmd, reg, stale, shared, resume>>
       ELSE Ends(p)
    /\ UNCHANGED <<saved, outside, counters, existed, raced>>

(* ensure_remote_only_root_available: the host answers, or does not *)
RemoteAnswers(p) ==
    /\ pc[p] = "reach"
    /\ Ends(p)
    /\ UNCHANGED <<saved, outside, counters, existed, raced>>

(* It says the folder is not there: remove_stale_context_entry. *)
DropStale(p) ==
    /\ pc[p] = "reach"
    /\ reg[p].entry[cmd[p].name].kind = "remoteOnly"
    /\ IF cmd[p].name \in Known(saved)
       THEN /\ \E r \in RepairDefault(Drop(saved, {cmd[p].name})) : Save(p, r, "removed")
            /\ UNCHANGED <<cmd, stale, shared>>
       ELSE Ends(p)
    /\ UNCHANGED <<saved, outside, counters, existed, raced>>
-----------------------------------------------------------------------------
(* The world around the commands *)

(* A project is put in place, mounted, unmounted, deleted or renamed. *)
ChangeFolder(r) ==
    /\ events < MaxEvents
    /\ events' = events + 1
    /\ \E x \in (Name \cup {Gone}) \ {project[r]} :
         /\ project' = [project EXCEPT ![r] = x]
         /\ existed' = IF x = Gone THEN existed ELSE existed \cup {r}
    /\ UNCHANGED <<saved, running, watcher, commands, faults, locals, raced>>

(* Ctrl-C, a full disk: wherever the command is *)
Killed(p) ==
    /\ pc[p] # "idle"
    /\ faults < MaxFaults
    /\ faults' = faults + 1
    /\ raced' = TRUE
    /\ Ends(p)
    /\ UNCHANGED <<saved, outside, commands, events, existed>>

Saving(p) == Truncate(p) \/ Fill(p)

Watching(p) ==
    \/ CleanupWatcher(p) \/ HandleWatcher(p) \/ WatcherCommandsFail(p)
    \/ InstallWatcher(p)

Changing(p) ==
    \/ Add(p) \/ AddWithoutProject(p) \/ InitContext(p) \/ SetDefaultOfInit(p)
    \/ SetDefault(p) \/ ClearDefault(p)
    \/ Rename(p) \/ RenameWithProject(p) \/ WriteProjectName(p) \/ RenameForProject(p)
    \/ Convert(p) \/ ChangeStorage(p) \/ MoveRoot(p)

Removing(p) ==
    LoadForRemoval(p) \/ RemoteCleanupFails(p) \/ StopRuntime(p) \/ EraseRoot(p)

Using(p) ==
    Reconcile(p) \/ Up(p) \/ Refresh(p) \/ RemoteAnswers(p) \/ DropStale(p)

Next ==
    \/ \E p \in Cli :
         \/ \E c \in Command : Start(p, c)
         \/ Prune(p) \/ DropMissing(p) \/ UnknownContext(p)
         \/ Saving(p) \/ Watching(p) \/ Changing(p) \/ Removing(p) \/ Using(p)
         \/ Killed(p)
    \/ \E r \in Root : ChangeFolder(r)

Spec == Init /\ [][Next]_vars
-----------------------------------------------------------------------------
(* Properties *)

Registry == [entry : [Name -> Entry \cup {NoEntry}], default : Name \cup {NoName}]

Label ==
    {"idle", "prune", "orphans", "work", "save", "fill", "pruned", "removed", "handle",
     "install", "default", "rename", "stop", "erase", "up", "reach"}

TypeOK ==
    /\ saved \in Registry
    /\ project \in [Root -> Name \cup {NoConfig, Gone}]
    /\ running \subseteq Root
    /\ watcher \in BOOLEAN
    /\ commands \in Nat /\ faults \in Nat /\ events \in Nat
    /\ pc \in [Cli -> Label]
    /\ cmd \in [Cli -> Command \cup {NoCommand}]
    /\ reg \in [Cli -> Registry]
    /\ stale \in [Cli -> SUBSET Name]
    /\ shared \in [Cli -> BOOLEAN]
    /\ resume \in [Cli -> Label]
    /\ existed \subseteq Root
    /\ raced \in BOOLEAN

(* Commands without --context take the default: it names a context that    *)
(* exists, or nothing, whichever commands overlap and wherever one of them *)
(* is killed.                                                              *)
DefaultIsRegistered == saved.default # NoName => saved.default \in Known(saved)

(* The file at the moments where nobody rewrites it *)
Book == INSTANCE ContextBook WITH
    book <- IF \E p \in Cli : pc[p] = "fill"
            THEN reg[CHOOSE p \in Cli : pc[p] = "fill"] ELSE saved

(* As long as commands neither overlap nor are killed, every one of them,  *)
(* with its prune, its several loads and saves and its changes to other    *)
(* files, changes the contexts it is about and no others.                  *)
LoneCommandsKeepTheBook == Book!Spec

(* docs/operations.md:111, remove "deletes the project-owned local root    *)
(* when it is not shared with another context": neither the folder nor the *)
(* runtime of a context that stays registered is touched.                  *)
LoneRemovalSparesShared ==
    [][\A p \in Cli : ~raced /\ pc[p] \in {"stop", "erase"} =>
         \A n \in Known(saved) \ {cmd[p].name}, r \in Root :
            saved.entry[n].root = r /\ saved.entry[cmd[p].name].root = r =>
               /\ project'[r] = Gone => project[r] = Gone \/ events' # events
               /\ r \in running => r \in running']_vars

(* docs/operations.md:318, "Removing or pruning the last remote local-sync *)
(* context removes the watcher automatically", and no other removal does.  *)
LoneCleanupIsDue ==
    [][\A p \in Cli :
         ~raced /\ pc[p] \in {"pruned", "removed"} /\ pc'[p] \in {"idle", "work"}
           /\ faults' = faults =>
              watcher' = (watcher /\ HasSync(saved))]_vars
-----------------------------------------------------------------------------
(* What the documentation says and the code does not do *)

(* docs/operations.md:101, "If a project folder is deleted manually, the   *)
(* next context-aware SFTPWarden command prunes the stale local registry   *)
(* entry": prune drops contexts whose folder has been there.               *)
PruneDropsOnlyDeleted ==
    [][\A p \in Cli : DropMissing(p) =>
         \A n \in stale[p] : reg[p].entry[n].root \in existed]_vars
=============================================================================
