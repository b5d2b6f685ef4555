---------------------------- MODULE UserCommands ----------------------------
(***************************************************************************)
(* The commands that change a provider's users and their schema:           *)
(* `user ...`, `user key ...`, `provider import|copy`, `provider schema    *)
(* migrate`, `config provider.user_schema` and the schema step of          *)
(* `deploy`.  Each is a process that loads the configuration, reads the    *)
(* provider, computes the content it wants in memory and writes it back;   *)
(* there is no lock between them, and each can be killed between two       *)
(* operations on the provider.                                             *)
(***************************************************************************)
EXTENDS ProviderStore

CONSTANTS
    Proc,           \* processes that run commands
    Requests,       \* the requests operators make
    Initial,        \* configured schema and content to start from
    Backends,
    MaxCommands,    \* bound: commands started
    MaxFaults       \* bound: commands killed

ASSUME RequestsAssumption == \A r \in Requests : IsRequest(r)
ASSUME BackendsAssumption == Backends \subseteq Backend
ASSUME BoundsAssumption == MaxCommands \in Nat /\ MaxFaults \in Nat

(* Schema 2 data is not met under a schema 1 configuration; the content is *)
(* one that a read has given.                                              *)
ASSUME InitialAssumption ==
    \A start \in Initial :
        /\ start.cfg \in Schema /\ start.content.schema <= start.cfg
        /\ IsProviderUsers(start.content) /\ AllValid(start.content.users)
        /\ Stored(start.content) = start.content

VARIABLES
    backend,    \* provider.type
    cfg,        \* provider.user_schema
    store,      \* what the provider holds
    backups,    \* .sftpwarden/backups/provider-users-*.yaml
    proc,       \* the processes
    first,      \* users at the start
    touched,    \* users some command was about
    mishap,     \* what has happened that the commands do not undo
    commands, faults

vars == <<backend, cfg, store, backups, proc, first, touched, mishap, commands, faults>>

NoContent == [schema |-> 1, users |-> NoUsers]

Idle ==
    [pc |-> "idle", req |-> Request("list"), view |-> 1, turn |-> 0, look |-> 1, rows |-> NoRows,
     held |-> NoContent, want |-> NoContent, todo |-> {}]

Reading == {"confirm", "read", "plan", "replan"}
Ends == {"idle", "done", "failed"}
Places ==
    Reading \cup Ends
      \cup {"write", "fill", "commit", "remove", "delete", "backup", "config"}

(* "overlap": two commands ran at once; "torn": one was killed between two *)
(* parts of a write; "interrupted": so was a migration that has made a     *)
(* backup; "bare": the key table was created and not filled; "early": it   *)
(* was read before the command that created it has filled it; "mismatch":  *)
(* SQL data was written for one schema and configured for the other.       *)
Mishaps == {"overlap", "torn", "interrupted", "bare", "early", "mismatch"}

IsProcess(me) ==
    /\ me.pc \in Places /\ me.view \in Schema /\ me.look \in {1, 2}
    /\ me.turn \in 0..commands
    /\ IsRequest(me.req) /\ IsRows(me.rows)
    /\ IsProviderUsers(me.held) /\ IsProviderUsers(me.want)
    /\ me.todo \subseteq DOMAIN me.want.users

Running(me) == me.pc \notin Ends
Failed == [Idle EXCEPT !.pc = "failed"]
Done(me) == [Idle EXCEPT !.pc = "done", !.req = me.req, !.turn = me.turn, !.want = me.want]
Become(p, me) == proc' = [proc EXCEPT ![p] = me]
-----------------------------------------------------------------------------
Init ==
    /\ backend \in Backends
    /\ \E start \in Initial :
         /\ cfg = start.cfg
         /\ store = Holding(backend, start.content)
         /\ first = start.content.users
    /\ proc = [p \in Proc |-> Idle]
    /\ backups = {} /\ touched = {} /\ mishap = {}
    /\ commands = 0 /\ faults = 0

(* A command starts at the place its handler's first call is at; deploy    *)
(* asks for the configured schema.                                         *)
Begun(r, place) ==
    [Idle EXCEPT !.req = IF r.op = "deploy" THEN [r EXCEPT !.to = cfg] ELSE r,
                 !.view = cfg, !.turn = commands + 1, !.pc = place]

Start(p, op, place) ==
    /\ ~Running(proc[p])
    /\ commands < MaxCommands
    /\ commands' = commands + 1
    /\ \E r \in Requests :
         /\ r.op = op
         /\ Become(p, Begun(r, place))
         /\ touched' = touched \cup About(r)
    /\ mishap' = IF \E q \in Proc : Running(proc[q]) THEN mishap \cup {"overlap"} ELSE mishap
    /\ UNCHANGED <<backend, cfg, store, backups, first, faults>>

(* cli_commands/users.py *)
UsersList(p) == Start(p, "list", "read")
UserAdd(p) == Start(p, "create", "read")
UserUpdate(p) == Start(p, "update", "read")
UserDisable(p) == Start(p, "disable", "read")
UserEnable(p) == Start(p, "enable", "read")
UserRemove(p) == Start(p, "remove", IF backend \in FileBackend THEN "read" ELSE "remove")
UserKeyAdd(p) == Start(p, "key add", "read")
UserKeyRemove(p) == Start(p, "key remove", "read")

(* mutate_advanced_key asks before it migrates *)
MutateAdvancedKey(p, op) == Start(p, op, "confirm")
UserKeyDisable(p) == MutateAdvancedKey(p, "key disable")
UserKeyEnable(p) == MutateAdvancedKey(p, "key enable")
UserKeyRename(p) == MutateAdvancedKey(p, "key rename")
UserKeyRotate(p) == MutateAdvancedKey(p, "key rotate")
UserKeyExpire(p) == MutateAdvancedKey(p, "key expire")
UserKeyImport(p) == MutateAdvancedKey(p, "key import")

(* cli_commands/provider.py, config.py and deploy_schema.py *)
ImportMerged(p) == Start(p, "merge", "read")
ImportReplacing(p) == Start(p, "replace", "read")
CopyUsers(p) == Start(p, "copy", "read")
MigrateSchema(p) == Start(p, "migrate", "plan")
SetUserSchema(p) == Start(p, "set schema", "plan")
ApplySchemaBeforeDeploy(p) == Start(p, "deploy", "plan")

Begin(p) ==
    \/ UsersList(p) \/ UserAdd(p) \/ UserUpdate(p) \/ UserDisable(p) \/ UserEnable(p)
    \/ UserRemove(p) \/ UserKeyAdd(p) \/ UserKeyRemove(p) \/ UserKeyDisable(p)
    \/ UserKeyEnable(p) \/ UserKeyRename(p) \/ UserKeyRotate(p) \/ UserKeyExpire(p)
    \/ UserKeyImport(p) \/ ImportMerged(p) \/ ImportReplacing(p) \/ CopyUsers(p)
    \/ MigrateSchema(p) \/ SetUserSchema(p) \/ ApplySchemaBeforeDeploy(p)
-----------------------------------------------------------------------------
(* Reading *)

(* UserService and write_provider_users: the content to write, if any *)
Taken(me, content) ==
    LET result == Apply(me.req, content)
    IN  IF result = Rejected THEN Failed
        ELSE IF me.req.op = "list" \/ me.req.dry
                  \/ (me.req.op \in Transfer /\ result = content)
        THEN Done([me EXCEPT !.want = content])
        ELSE [me EXCEPT !.pc = "write", !.held = content, !.want = Stored(result),
                        !.todo = DOMAIN result.users]

(* provider schema migrate changes the configuration after the data *)
AfterData(me) ==
    IF me.req.op = "migrate" /\ me.view # me.req.to THEN [me EXCEPT !.pc = "config"]
    ELSE Done(me)

(* confirm_key_schema_migration: the operator may decline *)
Confirmed(me, content) ==
    {[me EXCEPT !.pc = "read"]}
      \cup (IF HasKeyLifecycle(content.schema) \/ me.req.dry THEN {} ELSE {Failed})

(* migrate_provider_schema, after its plan *)
PlannedMigration(me, content) ==
    IF me.req.dry THEN {Done(me)}
    ELSE {[me EXCEPT !.pc = "replan"]}
           \cup (IF content.schema < me.req.to THEN {Failed} ELSE {})

(* apply_provider_schema_before_deploy, after its plan *)
PlannedDeploy(me, content) ==
    IF content.schema = me.req.to \/ me.req.dry THEN {Done(me)}
    ELSE {[me EXCEPT !.pc = "replan"], Failed}

(* confirm_provider_schema_config_change *)
PlannedConfig(me, content) ==
    {[me EXCEPT !.pc = "config"]}
      \cup (IF content.schema < me.req.to THEN {Failed} ELSE {})

(* plan_provider_schema_reconciliation and the question that follows it *)
Planned(me, content) ==
    IF content.schema > me.req.to THEN {Failed}
    ELSE CASE me.req.op = "migrate" -> PlannedMigration(me, content)
           [] me.req.op = "deploy" -> PlannedDeploy(me, content)
           [] me.req.op = "set schema" -> PlannedConfig(me, content)

ReplannedBare(me, content) ==
    IF content.schema > me.req.to THEN Failed
    ELSE IF content.schema = me.req.to THEN AfterData(me)
    ELSE [me EXCEPT !.pc = "write", !.held = content, !.want = MigrateTo(content, me.req.to),
                    !.todo = DOMAIN content.users]

(* reconcile_provider_schema plans again and acts on what it reads then *)
Replanned(me, content) ==
    IF content.schema > me.req.to THEN Failed
    ELSE IF content.schema = me.req.to THEN AfterData(me)
    ELSE [me EXCEPT !.pc = IF me.req.backup THEN "backup" ELSE "write",
                    !.held = content, !.want = MigrateTo(content, me.req.to),
                    !.todo = DOMAIN content.users]

(* What a process may do next with the content it has read *)
After(me, content) ==
    IF content = Rejected THEN {Failed}
    ELSE CASE me.pc = "confirm" -> Confirmed(me, content)
           [] me.pc = "read" -> {Taken(me, content)}
           [] me.pc = "plan" -> Planned(me, content)
           [] me.pc = "replan" -> {Replanned(me, content)}

(* The schema the provider object reads as: migrate uses the one built     *)
(* from the old configuration, set schema the one from the new.            *)
SchemaRead(me) ==
    IF me.pc \in {"plan", "replan"}
    THEN PlannedSchema(backend, store,
                       IF me.req.op = "migrate" THEN me.view ELSE me.req.to, me.req.to)
    ELSE me.view

Filling == {p \in Proc : proc[p].pc = "fill"}
Committing == {p \in Proc : proc[p].pc = "commit"}

(* users with keys that the key table does not have *)
Bare ==
    /\ store.keyTab # NoTable
    /\ \E u \in DOMAIN store.rows : store.rows[u].public_keys # {} /\ store.keyTab[u] = {}

(* Keys are selected between another command's two transactions. *)
LooksEarly == mishap' = IF Committing # {} /\ Bare THEN mishap \cup {"early"} ELSE mishap

(* SQLite creates a missing key table before it reads. *)
CreatesOnRead(me) == backend = "sqlite" /\ SchemaRead(me) = 2 /\ store.keyTab = NoTable

CreateOnRead(p) ==
    /\ proc[p].pc \in Reading /\ proc[p].look = 1
    /\ CreatesOnRead(proc[p])
    /\ store' = KeyTableCreated(store)
    /\ mishap' = mishap \cup {"bare"}
    /\ UNCHANGED <<backend, cfg, backups, proc, first, touched, commands, faults>>

Read(p) ==
    LET me == proc[p]
    IN  /\ me.pc \in Reading /\ me.look = 1
        /\ backend \in TwoLooks => SchemaRead(me) = 1
        /\ \E next \in After(me, ReadAs(backend, store, SchemaRead(me))) : Become(p, next)
        /\ IF backend \in SqlBackend /\ SchemaRead(me) = 2 THEN LooksEarly ELSE UNCHANGED mishap
        /\ UNCHANGED <<backend, cfg, store, backups, first, touched, commands, faults>>

(* The users, and then the keys, by two SELECTs *)
SelectUsers(p) ==
    LET me == proc[p]
    IN  /\ me.pc \in Reading /\ me.look = 1
        /\ backend \in TwoLooks /\ SchemaRead(me) = 2 /\ ~CreatesOnRead(me)
        /\ Become(p, [me EXCEPT !.look = 2, !.rows = store.rows])
        /\ UNCHANGED <<backend, cfg, store, backups, first, touched, mishap, commands, faults>>

SelectKeys(p) ==
    LET me == [proc[p] EXCEPT !.look = 1, !.rows = NoRows]
    IN  /\ proc[p].look = 2
        /\ \E next \in After(me, FromRows(proc[p].rows, store.keyTab, 2)) :
             Become(p, next)
        /\ LooksEarly
        /\ UNCHANGED <<backend, cfg, store, backups, first, touched, commands, faults>>
-----------------------------------------------------------------------------
(* Writing *)

AfterWrite(me) == IF me.req.op \in Migrating THEN AfterData(me) ELSE Done(me)

(* write_provider_schema_backup *)
Backup(p) ==
    /\ proc[p].pc = "backup"
    /\ backups' = backups \cup {proc[p].held}
    /\ Become(p, [proc[p] EXCEPT !.pc = "write"])
    /\ UNCHANGED <<backend, cfg, store, first, touched, mishap, commands, faults>>

OpenFile(p) ==
    /\ proc[p].pc = "write" /\ backend \in FileBackend
    /\ store' = [store EXCEPT !.text = Blank]
    /\ Become(p, [proc[p] EXCEPT !.pc = "fill"])
    /\ UNCHANGED <<backend, cfg, backups, first, touched, mishap, commands, faults>>

PartOf(text, content) ==
    \/ text = Blank
    \/ /\ text # Garbled
       /\ text.schema = content.schema
       /\ \A u \in DOMAIN text.users :
            u \in DOMAIN content.users /\ text.users[u] = Text(content).users[u]

(* The CSV writer's buffer goes out before the last row is in it. *)
FlushRows(p) ==
    /\ proc[p].pc = "fill" /\ backend = "csv" /\ store.text = Blank
    /\ \E S \in SUBSET DOMAIN proc[p].want.users :
         /\ S # DOMAIN proc[p].want.users
         /\ store' = [store EXCEPT !.text = FlushedText(proc[p].want, S)]
    /\ UNCHANGED <<backend, cfg, backups, proc, first, touched, mishap, commands, faults>>

(* A second process may have filled the file since this one has opened it: *)
(* the longer text keeps its tail.                                         *)
FillFile(p) ==
    LET me == proc[p]
    IN  /\ me.pc = "fill"
        /\ \E text \in {Text(me.want)} \cup (IF PartOf(store.text, me.want) THEN {} ELSE {Garbled}) :
             store' = [store EXCEPT !.text = text]
        /\ Become(p, AfterWrite(me))
        /\ UNCHANGED <<backend, cfg, backups, first, touched, mishap, commands, faults>>

(* ensure_schema_storage: a transaction of its own *)
EnsureStorage(p) ==
    LET me == proc[p]
    IN  /\ me.pc = "write" /\ backend \in SqlBackend
        /\ store' = StorageEnsured(store, me.want.schema)
        /\ Become(p, [me EXCEPT !.pc = "commit"])
        /\ UNCHANGED <<backend, cfg, backups, first, touched, mishap, commands, faults>>

Mismatched(me) ==
    \/ me.req.op # "migrate" /\ me.want.schema # cfg
    \/ me.want.schema = 1 /\ store.keyTab # NoTable

Commit(p) ==
    LET me == proc[p]
    IN  /\ me.pc = "commit"
        /\ me.want.schema = 2 => KeysAreUnique(me.want)
        /\ store' = Committed(store, me.want)
        /\ Become(p, AfterWrite(me))
        /\ mishap' = mishap \cup (IF Mismatched(me) THEN {"mismatch"} ELSE {})
        /\ UNCHANGED <<backend, cfg, backups, first, touched, commands, faults>>

(* Left half-done by the end of p's command *)
Damage(me) ==
    LET half == me.pc = "fill" \/ (me.pc = "commit" /\ Bare)
    IN  IF ~half THEN {}
        ELSE IF me.req.op \in Migrating /\ me.req.backup THEN {"interrupted"}
        ELSE IF me.pc = "fill" THEN {"torn"} ELSE {"bare"}

(* Two users have a key in common: the transaction is rolled back, the key *)
(* table stays.                                                            *)
RollBack(p) ==
    LET me == proc[p]
    IN  /\ me.pc = "commit" /\ me.want.schema = 2 /\ ~KeysAreUnique(me.want)
        /\ Become(p, Failed)
        /\ mishap' = mishap \cup Damage(me)
        /\ UNCHANGED <<backend, cfg, store, backups, first, touched, commands, faults>>

ReplaceDoc(p) ==
    LET me == proc[p]
    IN  /\ me.pc = "write" /\ backend = "mongodb"
        /\ \E u \in me.todo :
             /\ store' = DocReplaced(store, me.want, u)
             /\ Become(p, [me EXCEPT !.todo = @ \ {u}])
        /\ UNCHANGED <<backend, cfg, backups, first, touched, mishap, commands, faults>>

DeleteOthers(p) ==
    LET me == proc[p]
    IN  /\ me.pc = "write" /\ backend = "mongodb" /\ me.todo = {}
        /\ store' = OthersDeleted(store, me.want)
        /\ Become(p, AfterWrite(me))
        /\ UNCHANGED <<backend, cfg, backups, first, touched, mishap, commands, faults>>

(* remove_user on a database *)
EnsureBeforeDelete(p) ==
    LET me == proc[p]
    IN  /\ me.pc = "remove" /\ backend \in SqlBackend
        /\ store' = StorageEnsured(store, me.view)
        /\ mishap' = IF me.view = 2 /\ store.keyTab = NoTable THEN mishap \cup {"bare"} ELSE mishap
        /\ Become(p, [me EXCEPT !.pc = "delete"])
        /\ UNCHANGED <<backend, cfg, backups, first, touched, commands, faults>>

DeleteRow(p) ==
    LET me == proc[p]
        found == me.req.user \in DOMAIN store.rows
    IN  /\ me.pc = "delete"
        /\ store' = IF found THEN RowDeleted(store, me.req.user, me.view) ELSE store
        /\ Become(p, IF found THEN Done(me) ELSE Failed)
        /\ mishap' = IF found /\ me.view = 1 /\ store.keyTab # NoTable
                     THEN mishap \cup {"mismatch"} ELSE mishap
        /\ UNCHANGED <<backend, cfg, backups, first, touched, commands, faults>>

DeleteDoc(p) ==
    LET me == proc[p]
        found == me.req.user \in DOMAIN store.docs
    IN  /\ me.pc = "remove" /\ backend = "mongodb"
        /\ store' = IF found THEN DocDeleted(store, me.req.user) ELSE store
        /\ Become(p, IF found THEN Done(me) ELSE Failed)
        /\ UNCHANGED <<backend, cfg, backups, first, touched, mishap, commands, faults>>

(* write_config *)
WriteConfig(p) ==
    LET me == proc[p]
    IN  /\ me.pc = "config"
        /\ cfg' = me.req.to
        /\ mishap' = IF backend \in SqlBackend /\ me.req.to = 1 /\ store.keyTab # NoTable
                     THEN mishap \cup {"mismatch"} ELSE mishap
        /\ Become(p, Done(me))
        /\ UNCHANGED <<backend, store, backups, first, touched, commands, faults>>

(* Killed, out of disk space, or without its connection: the transaction   *)
(* that is open is rolled back.                                            *)
Kill(p) ==
    /\ Running(proc[p])
    /\ faults < MaxFaults
    /\ faults' = faults + 1
    /\ mishap' = mishap \cup Damage(proc[p])
    /\ Become(p, Failed)
    /\ UNCHANGED <<backend, cfg, store, backups, first, touched, commands>>

Step(p) ==
    \/ CreateOnRead(p) \/ Read(p) \/ SelectUsers(p) \/ SelectKeys(p)
    \/ Backup(p) \/ OpenFile(p) \/ FlushRows(p) \/ FillFile(p)
    \/ EnsureStorage(p) \/ Commit(p) \/ RollBack(p)
    \/ ReplaceDoc(p) \/ DeleteOthers(p)
    \/ EnsureBeforeDelete(p) \/ DeleteRow(p) \/ DeleteDoc(p)
    \/ WriteConfig(p)

Next == \E p \in Proc : Begin(p) \/ Step(p) \/ Kill(p)

Spec == Init /\ [][Next]_vars
-----------------------------------------------------------------------------
(* Types; and nothing is written that the next read would refuse: a user   *)
(* with neither a password nor a key, or with two keys of one name.        *)
TypeOK ==
    /\ backend \in Backends /\ cfg \in Schema
    /\ IsStore(store)
    /\ \A b \in backups : IsProviderUsers(b)
    /\ \A p \in Proc :
         /\ IsProcess(proc[p])
         /\ AllValid(proc[p].want.users)
    /\ touched \subseteq User /\ mishap \subseteq Mishaps
    /\ commands \in 0..MaxCommands /\ faults \in 0..MaxFaults

(* Without its key table, schema 2 is still to come: the data is what      *)
(* schema 1 says.                                                          *)
Content ==
    ReadAs(backend, store, PlannedSchema(backend, store, cfg, cfg))

(* The users the provider stands for: what a command in the middle of a    *)
(* write puts there, or what it will replace.                              *)
Directory ==
    LET some(P) == proc[CHOOSE p \in P : TRUE]
    IN  IF Filling # {} THEN some(Filling).want
        ELSE IF Committing # {} THEN some(Committing).held
        ELSE Content

Grants(rec) == [password |-> rec.password, disabled |-> rec.disabled, keys |-> ActiveKeys(rec)]

KeepsAccess(content, u) ==
    /\ content # Rejected
    /\ u \in DOMAIN content.users
    /\ Grants(content.users[u]) = Grants(first[u])

Bystanders == DOMAIN first \ touched

(* A user no command has been about gets in exactly as before, whichever   *)
(* commands have overlapped and wherever one was killed: each of them      *)
(* writes the users it does not change back, from what it has read.  On a  *)
(* database this holds for overlapping commands too, except that one which *)
(* reads the key table before the migration that has created it has filled *)
(* it ("early") finds nobody's keys; a YAML or CSV file can be read while  *)
(* another command has emptied it.                                         *)
BystandersKeepAccess ==
    mishap \subseteq (IF backend \in FileBackend THEN {} ELSE {"overlap"}) =>
        /\ Committing = {} => \A u \in Bystanders : KeepsAccess(Directory, u)
        /\ \A p \in Proc, u \in Bystanders :
             proc[p].pc \in {"write", "fill"} => KeepsAccess(proc[p].want, u)

(* Whatever ends a migration that has made its backup - killed while the   *)
(* file is empty or between the key table's creation and its rows, or      *)
(* rolled back because two users share a key -, what a bystander had is    *)
(* in the provider or in a backup.                                         *)
MigrationIsUndoable ==
    mishap \subseteq {"interrupted"} =>
        \A u \in Bystanders :
            \/ KeepsAccess(Directory, u)
            \/ \E b \in backups : KeepsAccess(b, u)

(* A command that reports success has left the provider as it says: the    *)
(* users it has computed, the user gone, or the data in the configured     *)
(* schema, for the next read to find.                                      *)
SuccessMeansDone ==
    mishap = {} =>
        \A p \in Proc :
            LET me == proc[p]
            IN  me.pc = "done" /\ me.turn = commands /\ ~me.req.dry =>
                  CASE me.req.op = "set schema" -> cfg = me.req.to
                    [] me.req.op \in Migrating -> cfg = me.req.to /\ Content.schema = cfg
                    [] me.req.op = "remove" -> me.req.user \notin DOMAIN Content.users
                    [] OTHER -> Content.users = me.want.users

(* One operator at a time: the provider is the abstract directory. *)
D == INSTANCE UserDirectory
       WITH directory <- IF Directory = Rejected THEN NoUsers ELSE Directory.users,
            intact <- (mishap = {})
LoneCommandsKeepTheDirectory == D!Spec

(* docs/operations.md:395: the next deploy performs the forward migration. *)
(* A deploy that succeeds alone leaves every bystander's access.           *)
DeployKeepsEveryKey ==
    "overlap" \notin mishap =>
        \A p \in Proc :
            proc[p].pc = "done" /\ proc[p].req.op = "deploy" =>
                \A u \in Bystanders : KeepsAccess(Content, u)
=============================================================================
