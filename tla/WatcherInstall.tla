--------------------------- MODULE WatcherInstall ---------------------------
(***************************************************************************)
(* Installation, replacement and removal of the watcher: `sftpwarden       *)
(* watcher install` and `uninstall`, and what adding, converting, removing *)
(* and pruning contexts do to it (watcher/core.py, services/               *)
(* context_cleanup.py, services/cli_workflows.py), with the other command  *)
(* that rewrites the global configuration, `config default-provider`.      *)
(*                                                                         *)
(* A command loads the global configuration, works out the commands and    *)
(* writes that are to be done, and does them one after the other; the      *)
(* metadata is saved at the end, in a file that is truncated and filled.   *)
(* Nothing locks: two commands may interleave at every step.  Every change *)
(* of contexts.toml is one step here; its own steps are ContextRegistry's. *)
(***************************************************************************)
EXTENDS WatcherBackends

CONSTANTS
    Proc,           \* concurrent invocations
    Context,        \* names of remote local-sync contexts
    Keyless,        \* those without a dedicated SSH key file
    Hosts,          \* sets of schedulers a host may have, one is chosen
    Requests,       \* what may be invoked
    NoMode,
    Blank,          \* a truncated file
    Broken,         \* no TOML document: two saves over one another
    MaxCommands,    \* bound on commands
    MaxFaults       \* bound on failing commands and kills

ASSUME KeylessAssumption == Keyless \subseteq Context
ASSUME HostsAssumption == Hosts \subseteq SUBSET Mode
ASSUME NoModeAssumption == NoMode \notin Mode

VARIABLES
    host,           \* schedulers that is_supported finds
    global,         \* global configuration file
    facts,          \* what the host knows of the watcher, per scheduler
    contexts,       \* local-sync contexts in contexts.toml
    watched,        \* contexts in docker-contexts.toml
    proc,           \* per invocation
    converted,      \* history: contexts that were made something else
    mishap,         \* history: what went wrong so far
    commands,       \* commands begun
    faults

vars == <<host, global, facts, contexts, watched, proc, converted, mishap, commands, faults>>

(* WatcherState is installed exactly when it has a mode; an empty file is  *)
(* the default configuration.                                              *)
Config == [provider : BOOLEAN, mode : Mode \cup {NoMode}, activated : BOOLEAN]
Default == [provider |-> FALSE, mode |-> NoMode, activated |-> FALSE]
ClearedMode(config) == [provider |-> config.provider, mode |-> NoMode]
Cleared(config) == [config EXCEPT !.mode = NoMode, !.activated = FALSE]

load_global_config == IF global = Blank THEN Default ELSE global

(* yes: --yes, or yes to every question *)
Request == [op : {"install", "uninstall", "add", "remove", "convert", "default-provider"},
            mode : Mode \cup {"auto", NoMode}, activate : BOOLEAN, yes : BOOLEAN,
            context : Context]

ASSUME RequestsAssumption == Requests \subseteq Request /\ Requests # {}
ASSUME BrokenAssumption == Blank \notin Config /\ Broken \notin Config \cup {Blank}

Idle == [pc |-> "idle", req |-> CHOOSE r \in Requests : TRUE, left |-> {}, was |-> Default,
         want |-> Default, todo |-> <<>>, clean |-> TRUE]

Running(me) == me.pc \in {"load", "work"}
AtRest == \A p \in Proc : ~Running(proc[p])
-----------------------------------------------------------------------------
(* Plans: steps that are still to be done *)
Run(mode, cmds) == [i \in DOMAIN cmds |-> [do |-> "run", mode |-> mode, cmd |-> cmds[i]]]
Do(what, mode) == [do |-> what, mode |-> mode, cmd |-> ""]

SaveSteps == <<Do("truncate", NoMode), Do("save", NoMode)>>

write_watcher_files(mode) ==
    IF mode = "docker" THEN <<Do("contexts", mode), Do("write", mode)>> ELSE <<Do("write", mode)>>

RemoveFile(config) == <<Do("unlink", config.mode)>>

(* Deactivate, unless the files were only rendered, and remove the file. *)
Deactivation(config) ==
    (IF config.activated THEN Run(config.mode, watcher_class(config.mode).uninstall_commands) ELSE <<>>)
        \o <<Do("unlink", config.mode)>>

InstallSteps(config, mode, activate) ==
    (IF config.mode # NoMode THEN Deactivation(config) ELSE <<>>)
        \o write_watcher_files(mode)
        \o (IF activate THEN Run(mode, watcher_class(mode).commands) ELSE <<>>)
        \o SaveSteps

UninstallSteps(config) == Deactivation(config) \o SaveSteps

(* cleanup_watcher_if_unused: the Docker watcher gets its files again *)
RefreshSteps(config) ==
    write_watcher_files("docker")
        \o (IF config.activated THEN Run("docker", watcher_class("docker").commands) ELSE <<>>)

(* resolve_watcher_mode: Docker only where the fallback is accepted *)
Resolved(req) ==
    LET requested == IF req.mode = NoMode THEN "auto" ELSE req.mode
    IN  IF requested # "auto" THEN requested
        ELSE IF Native(host) # {} THEN DetectNative(host)
        ELSE IF req.yes THEN "docker" ELSE NoMode

(* The end of a command that has nothing to do, or refuses to *)
Done(me) == Idle
Failed(me) == [me EXCEPT !.pc = "failed", !.todo = <<>>]
Working(me, want, steps) == [me EXCEPT !.pc = "work", !.want = want, !.todo = steps]

install_watcher(me, config, activate) ==
    LET mode == Resolved(me.req)
    IN  CASE mode = NoMode -> Failed(me)
          [] mode # NoMode /\ config.mode = mode -> Done(me)
          [] mode \notin {NoMode, config.mode} ->
               IF (config.mode # NoMode /\ ~me.req.yes) \/ (activate /\ mode \notin host)
               THEN Failed(me)
               ELSE Working(me, [config EXCEPT !.mode = mode, !.activated = activate],
                            InstallSteps(config, mode, activate))

uninstall_watcher(me, config) ==
    IF config.mode = NoMode THEN Done(me)
    ELSE Working(me, Cleared(config), UninstallSteps(config))

(* A watcher that is there is used, unless another one is asked for and    *)
(* its replacement confirmed; this never activates what it installs.       *)
install_context_watcher(me, config) ==
    IF config.mode # NoMode /\ (me.req.mode = NoMode \/ ~me.req.yes) THEN Done(me)
    ELSE install_watcher(me, config, FALSE)

UninstallIfUnused(me, config) ==
    IF me.left = {} THEN uninstall_watcher(me, config) ELSE Done(me)

cleanup_watcher_if_unused(me, config) ==
    IF me.left = {} THEN uninstall_watcher(me, config)
    ELSE IF config.mode = "docker" THEN Working(me, config, RefreshSteps(config))
    ELSE Done(me)

handle_watcher_without_local_sync_targets(me, config) ==
    IF me.left = {} /\ me.req.yes THEN uninstall_watcher(me, config) ELSE Done(me)

default_provider(me, config) ==
    Working(me, [config EXCEPT !.provider = TRUE], SaveSteps)
-----------------------------------------------------------------------------
Init ==
    /\ host \in Hosts
    /\ global = Default
    /\ facts = [m \in Mode |-> {}]
    /\ contexts \in SUBSET Context
    /\ watched = {}
    /\ proc = [p \in Proc |-> Idle]
    /\ converted = {}
    /\ mishap = {}
    /\ commands = 0
    /\ faults = 0

Become(p, me) == proc' = [proc EXCEPT ![p] = me]

(* A command begins.  Commands that overlap are not clean; how the last    *)
(* one ended is forgotten.                                                 *)
Start(p, req, left) ==
    LET others == {q \in Proc : Running(proc[q])}
        me == [Idle EXCEPT !.pc = "load", !.req = req, !.left = left,
                           !.clean = (others = {})]
    IN  /\ ~Running(proc[p])
        /\ commands < MaxCommands
        /\ commands' = commands + 1
        /\ proc' = [q \in Proc |-> IF q = p THEN me
                                   ELSE IF q \in others THEN [proc[q] EXCEPT !.clean = FALSE]
                                   ELSE Idle]
        /\ mishap' = IF others = {} THEN mishap ELSE mishap \cup {"overlap"}
        /\ UNCHANGED <<host, global, facts, watched, faults>>

(* watcher install, watcher uninstall, config default-provider *)
WatcherCommand(p) ==
    \E req \in Requests :
        /\ req.op \in {"install", "uninstall", "default-provider"}
        /\ Start(p, req, {})
        /\ UNCHANGED <<contexts, converted>>

(* context add and init with a remote: register_context comes first *)
AddContext(p) ==
    \E req \in Requests :
        /\ req.op = "add"
        /\ contexts' = contexts \cup {req.context}
        /\ converted' = converted \ {req.context}
        /\ Start(p, req, {})

(* context rm, prune, and the removal of a stale entry by health *)
RemoveContext(p) ==
    \E req \in Requests :
        /\ req.op = "remove" /\ req.context \in contexts
        /\ contexts' = contexts \ {req.context}
        /\ Start(p, req, contexts')
        /\ UNCHANGED converted

(* context edit: another type, or another storage *)
ConvertContext(p) ==
    \E req \in Requests :
        /\ req.op = "convert" /\ req.context \in contexts
        /\ contexts' = contexts \ {req.context}
        /\ converted' = converted \cup {req.context}
        /\ Start(p, req, contexts')

(* The global configuration is read, and the plan made. *)
Load(p) ==
    LET config == load_global_config
        me == [proc[p] EXCEPT !.was = config]
    IN  /\ proc[p].pc = "load"
        /\ global # Broken
        /\ Become(p, CASE me.req.op = "install" -> install_watcher(me, config, me.req.activate)
                       [] me.req.op = "uninstall" -> uninstall_watcher(me, config)
                       [] me.req.op = "add" -> install_context_watcher(me, config)
                       [] me.req.op = "remove" -> cleanup_watcher_if_unused(me, config)
                       [] me.req.op = "convert" ->
                            handle_watcher_without_local_sync_targets(me, config)
                       [] me.req.op = "default-provider" -> default_provider(me, config))
        /\ UNCHANGED <<host, global, facts, contexts, watched, converted, mishap, commands, faults>>

LoadFails(p) ==
    /\ proc[p].pc = "load"
    /\ global = Broken
    /\ Become(p, Failed(proc[p]))
    /\ UNCHANGED <<host, global, facts, contexts, watched, converted, mishap, commands, faults>>
-----------------------------------------------------------------------------
(* The steps of a plan *)
Next1(p, what) == proc[p].pc = "work" /\ Head(proc[p].todo).do = what

Advanced(me) ==
    IF Len(me.todo) = 1 THEN Done(me) ELSE [me EXCEPT !.todo = Tail(@)]

(* What a plan leaves that ends before its metadata is saved: a watcher    *)
(* that runs and is not recorded.                                          *)
HalfStarted(me) ==
    me.want.mode # NoMode /\ me.want.mode # me.was.mode /\ "up" \in facts[me.want.mode]

Broke(me, kind) ==
    mishap \cup {kind} \cup (IF HalfStarted(me) THEN {"half-started"} ELSE {})

RunCommand(p) ==
    LET step == Head(proc[p].todo)
    IN  /\ Next1(p, "run")
        /\ Works(step.cmd, facts[step.mode])
        /\ facts' = [facts EXCEPT ![step.mode] = After(step.cmd, @)]
        /\ Become(p, Advanced(proc[p]))
        /\ UNCHANGED <<host, global, contexts, watched, converted, mishap, commands, faults>>

(* run_watcher_commands raises: what was done stays done, nothing is saved *)
CommandRefused(p) ==
    LET step == Head(proc[p].todo)
    IN  /\ Next1(p, "run")
        /\ ~Works(step.cmd, facts[step.mode])
        /\ Become(p, Failed(proc[p]))
        /\ mishap' = Broke(proc[p], "failed")
        /\ UNCHANGED <<host, global, facts, contexts, watched, converted, commands, faults>>

(* no permission, no network, no such image *)
CommandFails(p) ==
    /\ Next1(p, "run")
    /\ faults < MaxFaults
    /\ faults' = faults + 1
    /\ Become(p, [Failed(proc[p]) EXCEPT !.clean = FALSE])
    /\ mishap' = Broke(proc[p], "failed")
    /\ UNCHANGED <<host, global, facts, contexts, watched, converted, commands>>

Unlink(p) ==
    /\ Next1(p, "unlink")
    /\ facts' = [facts EXCEPT ![Head(proc[p].todo).mode] = @ \ {"file"}]
    /\ Become(p, Advanced(proc[p]))
    /\ UNCHANGED <<host, global, contexts, watched, converted, mishap, commands, faults>>

write_docker_watcher_contexts(p) ==
    /\ Next1(p, "contexts")
    /\ watched' = contexts
    /\ Become(p, Advanced(proc[p]))
    /\ UNCHANGED <<host, global, facts, contexts, converted, mishap, commands, faults>>

(* The Docker watcher is rendered only if every context has an SSH key *)
(* that can be mounted.                                                *)
Renders(mode) == mode = "docker" => contexts \cap Keyless = {}

WriteFile(p) ==
    LET mode == Head(proc[p].todo).mode
    IN  /\ Next1(p, "write")
        /\ Renders(mode)
        /\ facts' = [facts EXCEPT ![mode] = @ \cup {"file"}]
        /\ Become(p, Advanced(proc[p]))
        /\ UNCHANGED <<host, global, contexts, watched, converted, mishap, commands, faults>>

RenderFails(p) ==
    /\ Next1(p, "write")
    /\ ~Renders(Head(proc[p].todo).mode)
    /\ Become(p, Failed(proc[p]))
    /\ mishap' = Broke(proc[p], "failed")
    /\ UNCHANGED <<host, global, facts, contexts, watched, converted, commands, faults>>

(* save_global_config *)
Truncate(p) ==
    /\ Next1(p, "truncate")
    /\ global' = Blank
    /\ Become(p, Advanced(proc[p]))
    /\ UNCHANGED <<host, facts, contexts, watched, converted, mishap, commands, faults>>

Save(p) ==
    /\ Next1(p, "save")
    /\ global' \in {proc[p].want} \cup (IF global = Blank THEN {} ELSE {Broken})
    /\ Become(p, Advanced(proc[p]))
    /\ UNCHANGED <<host, facts, contexts, watched, converted, mishap, commands, faults>>

(* Interrupted, or out of disk space *)
Kill(p) ==
    /\ Running(proc[p])
    /\ faults < MaxFaults
    /\ faults' = faults + 1
    /\ Become(p, [Failed(proc[p]) EXCEPT !.clean = FALSE])
    /\ mishap' = Broke(proc[p], "killed")
    /\ UNCHANGED <<host, global, facts, contexts, watched, converted, commands>>

Begin(p) == WatcherCommand(p) \/ AddContext(p) \/ RemoveContext(p) \/ ConvertContext(p)

Step(p) ==
    \/ Load(p) \/ LoadFails(p)
    \/ RunCommand(p) \/ CommandRefused(p) \/ CommandFails(p)
    \/ Unlink(p) \/ write_docker_watcher_contexts(p) \/ WriteFile(p) \/ RenderFails(p)
    \/ Truncate(p) \/ Save(p)
    \/ Kill(p)

Next == \E p \in Proc : Begin(p) \/ Step(p)

Spec == Init /\ [][Next]_vars
-----------------------------------------------------------------------------
(* Types. *)
TypeOK ==
    /\ host \subseteq Mode
    /\ global \in Config \cup {Blank, Broken}
    /\ facts \in [Mode -> SUBSET Fact]
    /\ watched \cup contexts \cup converted \subseteq Context
    /\ \A p \in Proc :
         /\ proc[p].pc \in {"idle", "load", "work", "failed"}
         /\ proc[p].want \in Config /\ proc[p].was \in Config
         /\ proc[p].pc = "work" <=> proc[p].todo # <<>>
    /\ mishap \subseteq {"overlap", "failed", "killed", "half-started"}

Up == {m \in Mode : "up" \in facts[m]}
Recorded == load_global_config

(* Never two watchers, each sending the same files, and none that runs     *)
(* unseen: once the commands have ended, the watcher that runs is the one  *)
(* the metadata names as activated, and the other way round if no command  *)
(* has failed.  A failed replacement may leave nothing running; only a     *)
(* scheduler that starts the watcher before its last command can leave one *)
(* running that is not recorded.                                           *)
RecordIsTrue ==
    /\ mishap \subseteq {"failed"} => Cardinality(Up) <= 1
    /\ mishap \subseteq {"failed"} /\ AtRest =>
         \A m \in Up : Recorded.mode = m /\ Recorded.activated
    /\ mishap = {} /\ AtRest /\ Recorded.activated => Up = {Recorded.mode}

(* Replacing and uninstalling leave nothing behind in a scheduler the      *)
(* metadata no longer names: no file, no unit, nothing started at boot.    *)
NothingLeftBehind ==
    mishap = {} /\ AtRest => \A m \in Mode \ {Recorded.mode} : facts[m] = {}

(* The Docker watcher is never left with a context that was removed or     *)
(* pruned; one that was converted stays in its list, docs/operations.md:320. *)
NoRemovedContexts ==
    mishap = {} /\ AtRest /\ Recorded.mode = "docker" => watched \ contexts \subseteq converted

(* Whatever has happened to the commands before - failed, killed,          *)
(* overlapping -, an install that finds no watcher recorded works, if its  *)
(* scheduler is there and its contexts have keys.                          *)
InstallRecovers ==
    \A p \in Proc :
        LET me == proc[p]
        IN  me.pc = "failed" /\ me.clean /\ me.req.op = "install"
              /\ me.was.mode = NoMode /\ global # Broken =>
                \/ Resolved(me.req) = NoMode
                \/ me.req.activate /\ Resolved(me.req) \notin host
                \/ Resolved(me.req) = "docker" /\ contexts \cap Keyless # {}
=============================================================================
