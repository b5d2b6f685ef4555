# SFTPWarden in TLA+

SFTPWarden runs OpenSSH SFTP servers from a declarative list of users. A
*context* is a project directory, local or on a remote machine, with a
`sftpwarden.yaml` and a *user provider* (a file or a database). A *runtime*
container follows the provider: it creates, changes and locks Unix accounts.
A *watcher* copies local provider files to remote contexts. The CLI edits
providers, keeps a global registry of contexts, deploys, backs up and restores.

None of these parts takes a lock. They meet in files (`state.json`,
`/etc/passwd`, the provider, `contexts.toml`, the watcher's metadata), each
read, changed in memory and written back, while containers restart, commands
fail and hosts vanish. That is what this directory specifies.

Paths below are relative to `src/`; `core.py` without a directory is
`sftpwarden/runtime/core.py`.

## 1. Inventory

| Component | State | Operations | What is hard |
|---|---|---|---|
| **Runtime synchronization** `sftpwarden/runtime/core.py`, `docker/runtime/entrypoint.sh` | `/etc/passwd`, groups, shadow, `authorized_keys`, `/data/<u>/upload`, `state.json`, `state.tmp` | `apply_once` (load, validate, plan, apply user by user, disable missing, save), `run_sync_loop`, `runtime refresh` in the same container | a pass is ten system commands per user and stops at any of them; the loop and a refresh interleave; `state.json` persists, the accounts do not survive a recreated container; the saved fingerprint lets the loop skip work |
| **Identity allocation** `core.py` | the entries of `state.json` | `allocate_users`, `used_identity_ids`, `allocate_uid` | pinned, preserved and new ids from one range; removed users |
| **Provider content** `sftpwarden/users/` | the ordered users | validation, `users_fingerprint`, schema 1 to 2 migration | what the fingerprint leaves out (comments, time) |
| **User and key commands** `sftpwarden/services/users.py`, `sftpwarden/cli_commands/users.py` | the provider | create, update, remove, enable, disable, and eight key commands: each reads all, changes, writes all, refreshes | lost updates, a migrated content under an old configuration |
| **Provider storage** `sftpwarden/providers/` | file, SQL tables, Mongo collection | `read`, `write`, `upsert_user` | truncate then fill, one transaction or several, two SELECTs per read |
| **Provider schema reconciliation** `sftpwarden/services/provider_schema.py` | provider, backup files | plan, back up, migrate | a plan that is stale when it is carried out |
| **Provider transfer** `sftpwarden/services/provider_transfer.py` | provider, remote copy | export; import: write, sync, refresh | a step that fails after the write |
| **Context registry** `sftpwarden/contexts/registry.py`, `sftpwarden/cli_commands/context.py` | `contexts.toml`: entries, default | init, add, remove, rename, default, convert, move root, clear | load, work for minutes, save; no lock; a truncated file reads as an empty registry |
| **Context cleanup** `sftpwarden/services/context_cleanup.py` | registry, containers, remote roots, watcher | prune contexts whose project is gone, remove, reconcile names | what is shared, what is gone, who is told last |
| **Watcher loop** `sftpwarden/watcher/core.py` | mtimes seen, remote copies | `poll_watch`: load registry, derive targets, `rsync`/`scp` | files edited during a transfer, unreachable hosts, restarts |
| **Watcher installation** `sftpwarden/watcher/` | unit files, scheduler state, global metadata | install, start, stop, uninstall, repair, in seven backends | a failure between any two steps |
| **Deploy** `sftpwarden/services/deploy.py`, `sftpwarden/remote/deploy.py`, `sftpwarden/cli_commands/kubernetes.py`, `helm.py` | project folder, remote root or cluster, container or pod | checks, render, rsync, pull, up; kubectl or helm apply, restart, delete; refresh | half a deploy; what a running container or pod does not see |
| **Backup and restore** `sftpwarden/services/backup.py` | archives, project files, volumes | create, restore entry by entry | a restore that fails half-way under a running runtime |
| **Health** `sftpwarden/services/health.py` | none | reads and reports | nothing it changes |
| **Configuration, init, CLI** `sftpwarden/config/`, `sftpwarden/cli_commands/` | `sftpwarden.yaml`, global config | prompts, validation, dotted updates | sequential |
| **Rendering** `sftpwarden/render/`, `charts/` | none | Compose, Kubernetes, Helm | pure |
| **Helpers** `sftpwarden/remote/ssh.py`, `system/`, `security/`, `utils/` | none | run a command, write a file, hash | part of the actions that call them |
| **Build tools** `tools/` | none | release checks | not the running system |

How they meet:

* CLI commands write the **provider**; the runtime reads it at the start of a
  pass, the watcher reads the file and replaces the remote runtime's copy.
* `sftpwarden refresh` executes `sftpwarden runtime refresh` *inside* the
  container (`sftpwarden/refresh/core.py`), so it shares every file of the loop.
* The entrypoint runs one refresh under `set -e`, then the loop in the
  background, then `sshd` in the foreground. A failing first refresh ends the
  container; a failing loop ends alone.
* Context commands write the **registry**; the watcher loads it twice per round.
* Removing the last synced context uninstalls the **watcher**; adding one
  installs it.

What makes each component correct:

* *Runtime.* The fingerprint in `state.json` never claims work that was not
  done. Removed users are locked. Identities are stable. Whatever a crash or an
  overlap left behind, later passes repair it.
* *Allocation.* A new id is in range and nobody's; a known user keeps its own;
  the search ends.
* *Watcher.* A remembered mtime stands for a file that was sent; every watched
  file arrives once its host can be reached.
* *Registry.* A command changes the entries it is about and no other; the
  default names an entry; files that two contexts share survive the removal of
  one; the watcher goes when, and only when, nobody needs it.
* *Providers and commands.* Whoever no command is about keeps the access he has,
  whichever commands overlap or die; a migration can be undone; success is true.
* *Watcher installation.* What runs is what the metadata names; nothing is left
  behind; a failure does not keep a later install from working.
* *Deploy.* After a success, whatever failed before, the deployment is rendered
  from the project, and the runtime comes to apply it.
* *Backup and restore.* A restore puts back what the archive has and nothing
  else; what it overwrites is in its safety backup.

`PROJECT.json` lists the hazards behind these sentences at the line where each
bites, with the properties that catch it or the reason why none does.

## 2. Modules

| Module | What it is |
|---|---|
| `ProviderData` | provider contents as the runtime reads them, their validation and fingerprint, identity allocation as a declarative definition |
| `Allocation` | the loop of `allocate_users`, iteration by iteration |
| `AllocationProofs` | theorems about `Allocation` |
| `IdentityLedger` | abstract: what `state.json` promises about identities |
| `Runtime` | the processes of one runtime container |
| `RuntimeProofs` | theorems about `Runtime` |
| `Watcher` | the watcher process, the files, the hosts and the registry it reads |
| `WatcherProofs` | theorems about `Watcher` |
| `WatcherBackends` | pure: the plans of the seven schedulers, and what their commands do on a host |
| `WatcherInstall` | install, replace, refresh and uninstall of the watcher, by overlapping commands |
| `WatcherInstallProofs` | theorems about `WatcherInstall`: its types, and each of its properties, with what the plans of the seven schedulers do |
| `ContextBook` | abstract: what `contexts.toml` promises the user of one shell |
| `ContextRegistry` | the invocations of the CLI over `contexts.toml`, the project folders, the local runtimes and the watcher |
| `ContextRegistryProofs` | theorems about `ContextRegistry`: its types, the default, that lone commands keep the book and the shared folders |
| `UserSchemas` | pure: users and keys, the two schemas, the migration, and what each request makes of a content |
| `ProviderStore` | pure: what each backend stores, and one file operation, statement or document operation on it |
| `UserSchemasProofs` | lemmas and a theorem about `UserSchemas` and `ProviderStore` |
| `UserDirectory` | abstract: a directory of users that changes as requests say |
| `UserCommands` | the commands over one provider, as concurrent processes |
| `UserCommandsProofs` | theorems about `UserCommands`: its types, who keeps access, what success means, that lone commands keep the directory |
| `ProjectFiles` | pure: a project's files, what is rendered from them, what an archive holds |
| `Deployment` | deploy commands, the container or pod they start, and who edits meanwhile |
| `ProjectOperations` | backup and restore in that world, and what all of them promise |
| `ProjectOperationsProofs` | theorems about `ProjectOperations` and `Deployment` |
| `MC*` | the constants of the TLC runs |

They compose by EXTENDS: `ProviderData` under `Allocation` and `Runtime`;
`UserSchemas`, `ProviderStore`, `UserCommands`; `WatcherBackends`,
`WatcherInstall`; `ProjectFiles`, `Deployment`, `ProjectOperations`. What one
group takes from another it takes as an action of its environment: `Runtime`
has `EditProvider` for the commands, `ContextRegistry` has one step for
`WatcherInstall`'s uninstall, `WatcherInstall` one step for each change of
`contexts.toml`, `Deployment` has `refresh_context` for a pass of `Runtime`,
`WatcherSync` for `Watcher` and `EditUsers` for `UserCommands`.

Some definitions stand twice, the second time under a name such as
`SetPasswordUnchecked` or `DiesRemembering`. Those are mutated forms: plausible
slips in the code. Each run's properties fail when the mutated form replaces
the real one (`mutants` in `PROJECT.json`), which shows the run could have
caught that slip. They take part in no specification.

### ProviderData and Allocation

A *content* is `ProviderUsers`: the usernames in stored order and a record per
user. `None` for uid and gid is 0. A password hash matters only as usable or
not and by identity; keys matter by enabledness (disabled keys are left out of
`Key`, they never reach the runtime) and by the instant they expire.
`Fingerprint` keeps exactly what `users_fingerprint` hashes: everything except
comments. The hash itself is abstracted to its argument (no collisions).

`Allocation` has one action per branch of the loop: skip a used id, take the
next one, keep a fixed one, raise. `Runtime` needs the result in one step and
uses the declarative `ResolvedUid`/`ResolvedGid`; `LoopMatchesDefinition` shows
that both agree on every input of the run.

### Runtime

One process per pass: `Boot` (the entrypoint's refresh), `Sync` (the loop) and
each of `Refreshers`. The locals of `apply_once` are functions of the process,
`pc` names the next step. Each action is one read, one system command, or one
write of a file, with the branch that follows:

| Action | Code |
|---|---|
| `LoadUsers`, `LoadState`, `LoadFails` | `load_runtime_inputs`: two reads, in that order; a `state.json` that is no JSON ends the pass |
| `Reject`, `NothingToDo`, `StartApplying` | `validate_runtime_users`, `build_runtime_plan`, and the early return on an unchanged plan |
| `EnsureGroup`, `EnsureAccount`, `SetPassword`, `SetLock`, `EnsureDirectories`, `WriteAuthorizedKeys` | `apply_user` command by command |
| `DisableMissing`, `FinishApplying` | the loop of `disable_missing`, in any order |
| `OpenTmp`, `FillTmp`, `ReplaceState`, `ReplaceFails` | `RuntimeState.save`: one `state.tmp` for all processes, opened (and so emptied), filled and renamed |
| `PassFails` | any command or read that raises |
| `StartContainer`, `StopContainer`, `RecreateContainer` | the restart policy, a stop at any point, a fresh container filesystem on old volumes |
| `EditProvider`, `Tick` | operators and time |

The auxiliary `alone` remembers which pass has had the container for itself
since it read the provider; only `LoadUsers` changes it and no guard reads it.

A save holds a file open, not a name (`opened`): when another pass renames
`state.tmp` meanwhile, what is filled is `state.json`, and after a further rename
a file without a name (`Renamed`). Between the two steps the file is `Blank`; a
text that is written over a longer one keeps the tail of that and is `Torn`
(`Overwritten`). Neither is JSON.

An account is as its content asks (`UserApplied`) when it has the UID that
`state.json` says, the shadow entry, an `upload` folder of its UID and GID, and
in `authorized_keys` every valid key and none the content lacks. A key that has
expired since the last pass may still be there, and the user's group only has to
exist: `ensure_group` leaves one that exists with the GID it has.

`Dies` is what an exception does: it ends the loop for good, or the refresh, or
- through `set -e` - the container with everything in it.

Left out: the shared server group, `sshd_config` (rendered once per start), the
home and chroot directories besides `upload`, `--dry-run`, and `sync.enabled:
false` (the entrypoint then starts no loop). Group ids collide in `groupadd`
as in the system; ids of accounts SFTPWarden did not create are taken to be
outside the range. The provider changes in one step here; that a file is
truncated first is in `UserCommands`.

### Watcher

`poll_watch` with its two loads of the registry (`LoadRegistry`,
`DeriveTargets`), the loop over the sorted targets (`SkipUnchanged`,
`NoticeChange`, `LookupFails`), the transport (`NothingToSend`,
`StartTransfer`, `FinishTransfer`, `TransferFails`), `Sleep`, and the scheduler
that starts a dead process again (`Restart`). The transport is external: rsync's
quick check (same size, same second), the mtime it preserves, and the content
it reads while it runs are modelled as rsync documents them; `UsesScp` turns
the check off. Files are truncated and filled, replaced or removed at any
moment; hosts come and go; registry entries appear, vanish and move.

Assumed: two writes of one file have different mtimes (nanoseconds on the
file systems in question); nobody else writes the remote file. Deploy does,
beside a watcher, in `Deployment`.

### ContextRegistry and ContextBook

One process per invocation of the CLI. A command is a record (`cmd`), the
registry it has loaded is `reg`, and every command is cut where it reads or
writes `contexts.toml`, where it waits for docker, ssh or the user, and where
it changes another file:

| Action | Code |
|---|---|
| `Prune`, `DropMissing` | `prune_missing_contexts`, which most commands run before they look up their context (`Pruning`): load, look for the folders, clean up, save |
| `Truncate`, `Fill` | the two halves of `save_registry`'s `write_text`; `resume` says where the command goes on |
| `CleanupWatcher`, `HandleWatcher`, `WatcherCommandsFail`, `InstallWatcher` | `cleanup_watcher_if_unused`, `handle_watcher_without_local_sync_targets`, their failure, `install_context_watcher` |
| `Add`, `AddWithoutProject`, `InitContext`, `SetDefaultOfInit` | `context add`, `init` with its two loads and saves |
| `SetDefault`, `ClearDefault` | `context default`, `use`, `clear` |
| `Rename`, `RenameWithProject`, `WriteProjectName`, `RenameForProject` | the three ways to rename: `context rename`, `context name`, `config project.name` |
| `Convert`, `ChangeStorage`, `MoveRoot` | `context type`, `storage`, `root` |
| `LoadForRemoval`, `RemoteCleanupFails`, `StopRuntime`, `EraseRoot` | `remove_context_with_cleanup` |
| `Reconcile`, `Up` | `deploy`: `reconcile_registered_context`, then Compose |
| `Refresh`, `RemoteAnswers`, `DropStale` | `refresh`, `health`, `backup`: `ensure_remote_only_root_available` |
| `ChangeFolder`, `Killed` | a folder that is edited, moved, mounted or deleted by others; an invocation that ends anywhere |

`refresh` stands for every command that prunes and then only reads. An entry
is its kind and its folder; a folder is the `project.name` of its
`sftpwarden.yaml`, or says that it has none, or is gone. Left out: the fields
that reach no other part (host, port, keys, `critical`), a `config` path apart
from its root (`reconcile_registered_paths`), a file that is not TOML (the
command ends), the copy of the working directory that `context root` makes for
a context without a folder, and the order of the entries in the file (the
successor of a lost default is any context that is left). That truncation and
text are two steps is the granularity of the promise: a write of one buffer may
be longer still, and a partial text that fails to parse only ends the reader.

`ContextBook` says what this comes to for the user of one shell: each
command puts one entry, forgets one (or those whose folder is gone), renames
one, or chooses the default, and leaves the others alone. It promises nothing
once two commands have overlapped or one was killed (`raced`).
`ContextRegistry` implements it with `book` mapped to the file, or to its text
while it is being written.

### UserSchemas, ProviderStore, UserCommands and UserDirectory

A user is a password, the disabled flag and a set of keys with name, state and
expiry: what decides who gets in. `Apply(r, content)` is what a request makes of
the content it has read, including the migration a key command asks for;
`Stored` is what a content is after it has been written and read again.

`ProviderStore` has one operator per operation on a backend: a file that is
opened (emptied) and filled; the users table and the key table of SQL with the
transaction of `write`, the creation of tables before it, and the two SELECTs of
a read; MongoDB's documents one by one. No row of SQL says which schema it is
in: `ReadAs` takes the schema from the configuration, as the code does.

| Action | Code |
|---|---|
| `UserAdd` ... `ApplySchemaBeforeDeploy` | one per command: it loads the configuration and starts at its handler's first call |
| `CreateOnRead`, `Read`, `SelectUsers`, `SelectKeys` | `provider.read()`, in one look or two; the content goes to the place the command is at: question, plan, second plan or change |
| `Backup` | `write_provider_schema_backup` |
| `OpenFile`, `FlushRows`, `FillFile` | `write` of a YAML or CSV file |
| `EnsureStorage`, `Commit`, `RollBack` | `write` of SQL |
| `ReplaceDoc`, `DeleteOthers` | `write` of MongoDB |
| `EnsureBeforeDelete`, `DeleteRow`, `DeleteDoc` | `remove_user` on a database |
| `WriteConfig` | `provider.user_schema` |
| `Kill` | a command that ends between any two operations |

`mishap` is history: what has happened that the program does not undo. Each
property says which mishaps it excludes. Left out: comments and ids of users,
the password itself, a schema 1 user that lists one key twice, the name of a
backup file (two in one second are one file), the order of the rows a CSV buffer
has flushed and where in a row it ends, `upsert_user` (no command calls it), the refresh and the copy to a
remote host that follow a write (`Runtime`, `Watcher`). YAML behaves as CSV does
without `FlushRows`, MySQL as PostgreSQL with one SELECT snapshot.

`UserDirectory` is a map from users to records in which each request changes
only the users it is about. `UserCommands` implements it with `directory` mapped
to the stored content, or to what a command in the middle of a write puts there.

### WatcherBackends and WatcherInstall

A backend is two lists of commands; a host's view of the watcher in one
scheduler is a set of facts (file, placed, known, boot, up); each command needs
some facts and changes some. A CLI command loads the global configuration, makes
a plan of steps (`InstallSteps`, `UninstallSteps`, `RefreshSteps`) and does them
one by one: `RunCommand`, `CommandRefused`, `CommandFails`, `Unlink`,
`write_docker_watcher_contexts`, `WriteFile`, `RenderFails`, `Truncate`, `Save`,
with `Kill` between any two. `WatcherCommand`, `AddContext`, `RemoveContext` and
`ConvertContext` begin one. Left out: paths, images, users, prompts (`yes` stands
for `--yes` and for a yes to every question), dry runs. `launchctl load` and
`unload` are taken to exit 0 whatever they find; a command is named by its
program and verb. A truncated file (`Blank`) is none of the configurations: it
loads as the default one, which is a content of its own. The Windows task is
defined and on no host of the run, because `RecordIsTrue` and
`NothingLeftBehind` are false with it: `schtasks /Delete` leaves a running
instance up. Their theorems name that as their hypothesis, and cover every
other set of schedulers; the rest is proved with the Windows task too.

### ProjectFiles, Deployment and ProjectOperations

A file's content is a version. Of the configuration three things matter: what
the compose file or pod template is rendered from (`shape`), what only the
runtime reads (`tuning`) and where the users are (`provider`). The state folder
is the version of the users that the runtime has applied; host keys fare as it.
`container.held` says of each mount whether the container follows the file or
keeps what it was started with: what is written in place it sees; what `rsync`
renames into place, or `restore` removes and copies anew, it does not. `rsync`
renames what differs in size or mtime. A deploy sends other content, and equal
content that may have been rewritten since (or not: the model allows both);
an upload of an extracted archive sends everything. That another content of the
same size and mtime would be skipped is left to `Watcher`, whose subject it is:
`DeployDelivers` relies on an edit changing either.

A command is a list of steps (`jobs[p].todo`), each an action:

| Action | Code |
|---|---|
| `deployment_plan`, `apply_deployment_plan`, `LoadConfig`, `RenderLoaded` | plan and render: `deploy` renders twice and loads twice, `kube apply` and `helm upgrade` load once |
| `remote_rsync`, `TestRemote`, `compose_up` | the three kinds of Compose deployment |
| `apply_config_map`, `apply_stateful_set`, `rollout_restart`, `delete_config_map`, `delete_resources` | `kubectl` and `helm`; `kubectl` deletes one by one what `helm` deletes under the lock of its release |
| `create_backup`, `create_remote_backup`, `add_users` | an archive |
| `extract`, `remove_tree`, `copy_entry`, `CopyTorn`, `upload_entry`, `restore_users` | `restore`, after its safety backup |
| `refresh_context`, `PodReplaced`, `Reboot`, `Upload` | the runtime, the cluster, the host and SFTP clients |
| `EditConfig`, `EditUsers`, `WatcherSync` | everybody else |
| `Begin`, `Finish`, `Stop`, `Refused` | the life of a command; `Refused` is a step whose precondition fails, which raises |

`edited`, `before` and `settled` are history. Left out: `pull`, `ps`, `mkdir` and
the checks of tools (they may fail, which is `Stop`); the resolution of a context
and the reconciliation of the provider's schema before a deploy (they are
`ContextRegistry`'s and `UserCommands`'); SQLite on Kubernetes. A dry run is a
deploy that stops after its plan. The files of an archive are added in one step,
a folder is copied in one, a database is restored in one; each restore has a
safety archive of its own, although the name has one second's resolution
(`sftpwarden/services/backup.py:451`) and two restores of one second share it; a
deletion of the ConfigMap and one of everything else stand for all of `kubectl`'s; a
pass that would raise is not enabled (see Fairness); a partial text is
taken not to parse, except that an empty provider file is no users. Commands
take the first free slot instead of a symmetry set.

## 3. Runs

| Run | Module | Question | Result |
|---|---|---|---|
| `allocation` | `MCAllocation` | does the loop hand out fresh ids, keep known ones, end, and compute the declarative allocation? | holds |
| `runtime_solo` | `MCRuntime` | with only the container's own passes: type, `FingerprintTruthful`, `KnownRemovedUsersLocked`, `IdentitiesPreserved`, `Converges` | holds |
| `runtime_shared` | `MCRuntime` | the loop and a refresh interleaved: does a later refresh that runs alone repair what they left, and does a pass that runs alone keep every identity (`LoneRefreshRepairs`, `LonePassKeepsIdentities`)? | holds |
| `runtime_removed` | `MCRuntime` | is every removed account locked? | **violated** |
| `watcher` | `MCWatcher` | type, `NoLostEdit`, `CatchesUp` | holds |
| `registry` | `MCContextRegistry` | type, `DefaultIsRegistered`, `LoneCommandsKeepTheBook`, `LoneRemovalSparesShared`, `LoneCleanupIsDue` | holds |
| `registry_phantom` | `MCContextRegistry` | does pruning drop only contexts whose folder has been deleted? | **violated** |
| `providers` | `MCUserCommands` | type, `BystandersKeepAccess`, `MigrationIsUndoable`, `SuccessMeansDone`, `LoneCommandsKeepTheDirectory` | holds |
| `providers_unmigrated` | `MCUserCommands` | does a deploy on schema 1 data under a schema 2 configuration keep every key? | **violated** |
| `installation` | `MCWatcherInstall` | type, `RecordIsTrue`, `NothingLeftBehind`, `NoRemovedContexts`, `InstallRecovers` | holds |
| `operations` | `MCProjectOperations` | type, `DeployDelivers`, `RestoreRestores`, `RestoreIsUndoable`, `DeployTakesHold` | holds |
| `deploy_detached` | `MCProjectOperations` | does a deploy to a remote host reach the running container? | **violated** |

### What the properties say

* `FingerprintTruthful`: whenever the loop is between passes, the accounts are
  what the content behind the saved fingerprint asks for. It is what makes
  skipping a pass sound, and it must survive a stop between any two commands,
  a recreated filesystem with an old `state.json`, and a failing command.
* `KnownRemovedUsersLocked`: a user in `state.json` that the applied content
  lacks cannot log in.
* `IdentitiesPreserved`: `Runtime` implements `IdentityLedger` under
  `ledger <- stateFile.uid`.
* `LonePassKeepsIdentities`: with overlapping passes it does not; still, the save
  of a pass that overlaps none is a step of the ledger, whatever the overlapping
  ones before it have left in `state.json`.
* `Converges`: if passes keep completing, the accounts end up as the provider
  says and stay so.
* `LoneRefreshRepairs`: overlapping passes can lose entries, put half of each
  content into the accounts and end the loop; a forced refresh that then runs
  to its end by itself leaves a `state.json` that can be read and everything as
  the provider asks.
* `NoLostEdit`: `seen[c] = mtime` is written *before* the transfer; still,
  when a round is over it stands for a file that was sent as it is, or that
  rsync cannot tell from what it has.
* `CatchesUp`: whatever happened, once all hosts stay reachable every watched
  file arrives where it was last sent. It cannot be said of the host the
  registry names now: the key of `seen` has no host, so a context moved to
  another host is resent only after a change or a restart (a hazard without a
  document that promises otherwise).
* `DefaultIsRegistered`: commands without `--context` take the default. It
  names an entry although the file passes through an empty text, although a
  stale registry can be saved over a newer one, and wherever a command dies.
* `LoneCommandsKeepTheBook`: `ContextRegistry` implements `ContextBook`. A
  command may save three times and load four; without other commands around
  it, the file still changes by one promised step at a time.
* `LoneRemovalSparesShared`: removing a context deletes neither the folder nor
  the runtime that another entry uses.
* `LoneCleanupIsDue`: after a prune or a removal the watcher is there exactly
  if it was and an entry still needs it.

* `TypeOK` of `UserCommands` says more than types: nothing is about to be written
  that the next read would refuse (a user with neither a password nor a key).
* `BystandersKeepAccess`: a user no command has been about gets in exactly as
  before. Every command rewrites everybody, so this is about the others: on a
  database it holds even for overlapping commands, whose reads take two SELECTs
  and whose writes delete and insert all rows. Excluded is a read of the key
  table between the migration's transaction that creates it and the one that
  fills it (`early`), which finds nobody's keys. A password-less user makes such
  a read fail; the property is therefore checked on contents without one too.
* `MigrationIsUndoable`: wherever a migration that has made its backup ends -
  with an emptied file, with a key table created and not filled, or rolled back
  because two users share a key - each bystander's access is in the provider or
  in a backup.
* `SuccessMeansDone`: what a command reported as done is what the next read
  finds.
* `LoneCommandsKeepTheDirectory`: `UserCommands` implements `UserDirectory`.
* `RecordIsTrue`, `NothingLeftBehind`: never two watchers, none that runs
  unrecorded, nothing left in a scheduler the metadata no longer names.
* `NoRemovedContexts`: the Docker watcher's copy of the registry has no context
  that was removed or pruned.
* `InstallRecovers`: whatever failed, was killed or overlapped before, an install
  that finds no watcher recorded works.
* `DeployDelivers`: after a success, and with other commands still running, the
  deployment file is rendered from the configuration, the container is made from
  that file, and host and project agree - although deploys have failed anywhere
  before, and to `plan` nothing may have changed since.
* `DeployTakesHold`: the runtime then comes to apply the project's users.
* `RestoreRestores`: a restore that has ended well has put back what was asked
  for and left alone the rest, the database the restored configuration names
  included.
* `RestoreIsUndoable`: whatever has become of a restore, what it has overwritten
  is in its safety backup. Two exceptions are in its statement, because the code
  makes them: a file that the configuration in force does not name, and a
  provider that cannot be read.

The `Lone` properties of the registry have `~raced` as a hypothesis because the code has no
lock: two overlapping commands lose entries and delete shared folders, and no
document promises otherwise. The overlapping commands are in the model all the
same, and `DefaultIsRegistered` and `TypeOK` are about them.

### What the violations show

1. `runtime_removed`: a pass creates an account and fails before it saves. The
   user is then removed. `disable_missing` visits users of `state.json` only
   (`core.py:892`), so the account stays unlocked for ever, against
   `docs/security.md:12`.
2. `registry_phantom`: `context add prod user@host:/path` registers the local
   folder `~/sftpwarden-prod` without creating it; `_context_root_missing`
   (`sftpwarden/services/context_cleanup.py:332`) cannot tell "never there"
   from "deleted", and the next command drops the context that
   `docs/operations.md:89` recommends to add that way.
3. `providers_unmigrated`: a read of a SQLite provider that is configured for
   schema 2 and still holds schema 1 creates the empty key table. From then on
   the data counts as migrated: users lose their keys, the deploy reports
   nothing to migrate and makes no backup, against `docs/operations.md:395` and
   `docs/providers.md:188`.
4. `deploy_detached`: the Compose file mounts `sftpwarden.yaml` and the provider
   file one by one; `rsync` renames new ones into place and `up -d` leaves a
   container whose service is unchanged alone. A changed setting never reaches
   the runtime until something restarts it, against `docs/operations.md:36` and
   `:229`.

### Known divergences no run shows

Met while modelling; the models contain them, or leave out where they happen,
the properties are stated around them, and no run is spent on them.

* Runtime. `used_identity_ids` (`core.py:413`) speaks of ids reserved by
  preserved state, but the id of a removed user is handed out again. The
  fingerprint holds expiry dates and not the time (`core.py:699`), so a key that
  expires between edits stays in `authorized_keys`, against
  `docs/providers.md:3`. When the loop and a refresh overlap, the later save of
  `state.json` drops the other's entries (`core.py:104`, against
  `docs/configuration.md:236`): `IdentitiesPreserved` is false with
  `Refreshers`. `RuntimeState.save` is said to be atomic (`core.py:76`) and is for
  one writer: of two, one may rename the `state.tmp` that the other has just
  emptied. The other fills what is then `state.json`, or dies before it does; an
  empty or torn `state.json` ends every later pass, the entrypoint's refresh
  included, until somebody deletes it. `ensure_group` leaves an existing group
  alone (`core.py:725`), so a GID that changes in the provider, or one that was
  allocated and never saved, reaches the owner of `upload` and `state.json` and
  not the group. The last key of one key-only user expires and validation rejects
  the whole provider.
* Watcher. One unreachable host ends every round before the contexts sorted
  after it (`sftpwarden/watcher/core.py:422`, against
  `docs/cli/watcher.md:37`).
* Watcher installation. After a failed replacement or uninstall, a later
  uninstall deactivates again what is gone and fails
  (`docs/cli/watcher.md:145`). `context add --watcher X --yes` replaces a
  running watcher by one that is not started, and `watcher install` then says it
  is installed (`docs/operations.md:290`). A context added while the Docker
  watcher is installed is not in its list; a refresh of it drops a custom
  `--image`.
* Registry. `project.name` is written before the registry is renamed;
  `context rename` onto an existing name replaces that entry.
* Providers. The runtime's `load_users` does not pass `user_schema`, so SQL data
  of schema 1 is read as schema 2 (`docs/providers.md:92`). `import --replace`
  of a schema 1 file into SQL under schema 2 leaves the key table as it was;
  `import --merge` of schema 2 data into schema 1 enables disabled keys. A key
  command migrates without a backup. `user create` overwrites an existing user.
  Setting schema 1 on schema 2 SQL data is accepted silently. A key that two
  users share makes the SQL migration fail after the key table was created, and
  the next deploy sees nothing to migrate. PostgreSQL and MySQL commit the empty
  key table before the transaction that fills it (`postgres_provider.py:103`,
  `mysql_provider.py:86`): when every user has a password, a command that reads
  in between loses everyone's keys. `provider schema migrate` writes back
  the whole configuration it loaded at its start. A transfer whose sync or
  refresh fails after the write finds nothing changed when it is repeated.
* Deploy. `deploy --dry-run` of a Compose project writes the compose file
  (`docs/cli/core.md:60`). `plan` compares with `allow_local_build=True`, the
  remote deploy writes with `False`. The host keys of a pod are an `emptyDir`
  filled from a Secret that is empty by default
  (`charts/sftpwarden/README.md:12`): new ones with each pod.
* Backup. The safety backup of a restore has neither files that the
  configuration in force does not name nor the database the restored one points
  to (`docs/cli/core.md:299`). A backup reports success with `users-error.txt`
  in it. A restore under a running local container replaces the state, host key
  and data folders below their mounts: what the container writes then is lost at
  its next start. A restore killed while `sftpwarden.yaml` is truncated cannot
  be repeated, because a restore loads it. A remote-only restore never writes
  database users; `rsync` deletes no extra file. Backups of remote local-sync
  and Kubernetes contexts have neither host keys nor state. A restore without
  `--include-data` skips every entry whose name begins with "data".

### Bounds

* `allocation`: three users, three ids, saved ids 1 and 2, all saved states.
  Three users are the smallest number with a preserved, a pinned and a new one
  at once; three ids make the range run out.
* `runtime_*`: two users, two keys (one of them expires), two hashes; the
  contents cover adding, removing, disabling, pinning, comment-only edits and
  an unacceptable provider. Two edits reach remove-and-add-again; two faults
  reach a failure during the recovery from a failure; one tick passes the one
  expiry. Two users suffice for every collision of ids.
* `runtime_shared`: the loop and one refresh, one edit and one fault, so that
  the two passes see different contents. The full interleaving already has
  2,288,316 states.
* `watcher`: two contexts (one after the other in the order), two hosts (a move
  needs two), two contents of equal size (so that rsync's quick check can be
  wrong), three mtimes, two of them in one second. One edit is a truncation
  and a write; one registry change and one kill meet at every step.
* `registry`: two names and two folders (a shared folder, a name that is taken,
  a last synced context), two invocations with two commands between them, one
  after the other or overlapping, one fault and one change of a folder. Three
  initial registries: a shared folder whose project has the first name; a
  synced and a remote-only context; a synced one and a local one whose folder
  is missing. Two commands are every pair that can overlap or meet what the
  other left; longer histories are left to the proof.
* `providers`: two users (one a command is about, one bystander), two keys, one
  name, two processes with two commands between them, one kill; twenty-five
  requests, each operation at least once; six pairs of configured schema and
  data, among them data that waits for its migration, with and without a
  password for every user, and two users with one key; four backends. 869,871
  states.
* `providers_unmigrated`: reads and deploys on SQLite, nothing killed.
* `installation`: four hosts, with one or two schedulers each, two contexts (one
  without a key of its own), two processes with three commands between them -
  install, replace, and what a third finds -, one failure or kill. 1,208,966
  states.
* `operations`: five contexts, one per deployment target (Helm with a database,
  the others with a file), two versions, two slots and two commands, one edit or
  upload, one fault; an archive of an earlier version is at hand. Two commands
  are a deploy after a failed one, a restore of what a restore has overwritten,
  or any two that overlap. 1,123,115 states.
* `deploy_detached`: one local-sync context and deploys only, without faults.

Bounds are in guards and constants: `MaxEdits`, `MaxFaults`, `MaxTime`,
`MaxChanges`, `MaxCommands`, `MaxEvents`. `registry`, `providers` and `installation` use
symmetry, of the invocations, which no property tells apart; runs with a
liveness property have none. Deadlock checking is off in the runs where the
system may stop (a container that is stopped for good, an algorithm that
returns, a shell where nobody types any more) and on for `Watcher`.

### Fairness

* `Runtime`: weak fairness on each process's own step (they are scheduled), on
  `WakeUp` (`time.sleep` returns) and on `StartContainer`
  (`restart: unless-stopped`, `sftpwarden/render/compose.py:89`). Nothing is assumed of
  edits, time, faults or refreshes. The loop does not restart after an
  exception, so `Converges` assumes that it keeps completing passes instead of
  claiming it.
* `Watcher`: weak fairness on the process as a whole and on `Restart`
  (`Restart=always` in the systemd backend, `KeepAlive`, a restart policy or a
  supervisor in the others). Nothing is assumed of hosts, files or registry;
  `CatchesUp` has the hosts' return as its hypothesis.
* `ProjectOperations`: weak fairness on `refresh_context` (the container's loop
  goes on; that one exception ends it is `Runtime`'s subject) and on
  `PodReplaced` (the StatefulSet controller). Nothing is assumed of commands.
* `ContextRegistry`, `UserCommands` and `WatcherInstall` assume none: they have
  safety properties only, and any command may stop anywhere.

## 4. Proofs

All theorems hold for any users, contents, ids, contexts, hosts and bounds,
under the ASSUMEs of the modules, which TLC evaluates in every run.

`RuntimeProofs`

* `TypeCorrect`: `Spec => []TypeOK`, with any number of refreshers. Beside the
  actions it rests on lemmas that resolved ids are naturals.
* `LoneRefreshAlwaysRepairs`, `LonePassesKeepIdentities`: `Spec =>
  LoneRefreshRepairs` and `Spec => LonePassKeepsIdentities`, with any number of
  refreshers. The invariant `LoneInv` says what holds *inside* a pass that is in
  `alone` (`PassInv`), while the others do not work (`OthersRest`): what it has
  loaded is what `state.json` says; in the loop, the users before position `at`
  are applied and the one at `at` is applied as far as `pc` has come; of those to
  disable, the ones no longer in `missing` are locked; once it saves, `state.tmp`
  is the file it has open and holds what it is to hold (`SavingInv`). Nothing is
  assumed of the state in which it starts, which is why it holds after any
  overlap. Distinct resolved UIDs (`AllocationSucceeds`) keep one user's commands
  from undoing another's.
* `FingerprintIsTruthful`, `KnownRemovedUsersAreLocked` (assuming `Refreshers =
  {}`): every pass is then one of those (`Solitary`), and `SoloInv` adds what
  holds between passes. The saved fingerprint stays what it was when a pass dies
  or the container starts anew, and the entrypoint's refresh is forced, so
  nothing trusts it before a whole pass is through (`SavedInv`, `SkippedInv`).
* `LedgerImplemented` (same assumption): every step of `Runtime` is a `Record`
  step or a stutter of `IdentityLedger` under the mapping of the run.

Without the assumption these three are false: an overlapping refresh can drop
entries of `state.json` and leave half of each content in the accounts.

`AllocationProofs`

* `LoopIsDefinition`: `Spec => []LoopMatchesDefinition`. `Runtime` takes the
  allocation in one step, by the definition of `ProviderData`; this theorem says
  that the loop of `allocate_users` raises and computes exactly as that. The
  invariant relates the cursor to the definition: it has passed exactly the free
  ids handed out so far (`Cursor`), and as many were handed out as users before
  the loop's position needed one, so the next free id is the one with the user's
  turn (`Identities`). When and why the loop raises is a second invariant on top
  of it (`Outcome`).
* `TypeCorrect`, `FreshIds` and `SavedIdsKept` follow from it.

They assume that a content defines the users it lists, each once, and that ids
are natural numbers and the range does not start at 0.

`WatcherProofs`

* `TypeCorrect`, whose last conjunct says that a connection or transfer always
  has a current target and a host.
* `NoEditIsLost`: with `SeenIsPast` (a remembered mtime is not in the future,
  so a later write changes it) and `SeenIsSent` (a remembered mtime whose file
  is unchanged has been sent, except for the target whose transfer is running).

`ContextRegistryProofs`

* `TypeCorrect`, and `DefaultStaysRegistered`: `Spec => []DefaultIsRegistered`
  for any number of overlapping commands. The file alone is not inductive: what
  a command saves is what it holds, so `IInv` says of the file *and* of every
  registry in memory that it is well typed and its default registered (`Good`).
  One lemma per operation on a registry (`PutGood`, `RenameGood`, `RepairGood`,
  ...) says that it keeps `Good`; `EndsIInv`, `SaveIInv` and `GotoIInv` carry it
  through the three ways a step ends.
* `LoneCommandsKeepIt`: `Spec => LoneCommandsKeepTheBook`, the refinement of
  `ContextBook`. What a command saves it has worked out some steps ago, from
  what it loaded; the abstract step is the save (`Truncate`). So the invariant (`LInv`:
  while nothing was `raced`, `Alone`) says that at most one invocation runs and
  at which `Stage` it is: what it has loaded is what the file still says, and
  what it is about to save is one step of the book from it (`Promised`: it
  registers one, forgets some, renames one, or chooses the default). One lemma
  per operation (`PutIsPromised`, ...) says that the operation is such a step,
  and `PromisedIsBooked` that such a step is one of `ContextBook`. It is why a
  command that prunes, saves, loads and saves again keeps the promise: each of
  its saves does, from the file the last one left.
* `RemovalSparesShared`: `Spec => LoneRemovalSparesShared`, from the part of
  `Stage` that says that whether a folder is shared, decided when the registry
  was loaded, is still what the file says when the runtime is stopped and the
  folder erased.
* `CleanupIsDue`: `Spec => LoneCleanupIsDue`, from the same invariant: after the
  save, what the command holds and cleans up by is what it has saved.

`WatcherInstallProofs`

* `TypeCorrect`, for overlapping, failing and killed commands.
* `RemovedContextsAreDropped`: `Spec => []NoRemovedContexts`. The property is
  about commands that have ended; the invariant (`Lone`) says what holds inside
  one that runs alone. Before the configuration is read, the Docker watcher's
  list is right or the command is one that removes a context. While a plan is
  worked through, either the list is right, or the plan still writes it
  (`Lists`), or the plan does not end with a Docker watcher; and the metadata is
  what the plan wants already, unless the plan still saves it. Plans are
  sequences of jobs that may end in the two steps of a save (`Plan`); the lemmas
  on sequences say what the rest of such a plan is. `LoadOutcome` carries the
  invariant through each of the six commands' plans, `WorkLone` through a step.
* `TheRecordIsTrue`, `NothingStaysBehind` (on hosts without the Windows
  scheduler) and `InstallsRecover` (on every host), for any number of commands,
  contexts and schedulers. They share the invariant `Steady`. An invocation that
  is `clean` is the only one that runs (`Sole`); a watcher recorded as activated is
  in a scheduler the host has (`Supported`); while nobody works through a plan, the
  facts are those of the metadata (`Truthful`); and a clean invocation is `Placed`,
  that is, it stands at one of four places of its plan, and the facts
  are those of the place:

  | Place | What is left of the plan | What holds of the schedulers |
  |---|---|---|
  | `AtStop` | commands of a deactivation (`StopLeft`), the unlink, the rest | the old one has the facts of `Stopped`; once the stopping command is through, `Silenced`: it runs no watcher and no later command of the list starts it |
  | `AtFiles` | the files, the activation, the save | nothing in any, or what a refresh found |
  | `AtStart` | commands of an activation (`StartLeft`), the save | the new one is `Ready` for the next command, whatever an earlier failure left there, and has the facts of `Begun` |
  | `AtSave` | the save | those of the configuration that is saved |

  Each place says two things: as long as commands have only failed (`Quiet`),
  where a watcher may run; as long as not even that has happened (`Exact`), every
  fact of every scheduler. `RecordIsTrue` needs the first, `NothingLeftBehind`
  the second. `InstallRecovers` needs neither, only `Ready`, which is why it
  holds after kills and overlaps; `Excused` says why a clean install has failed.
  What the lists of commands do is a pair of lemmas per scheduler
  (`SystemdStarts`, `SystemdStops`, ...; the first only for the Windows task), on
  the facts before and after each command; the rest of the proof does not look at
  them. A failure keeps `Quiet`, unless the new watcher runs already and is
  recorded by nobody (`half-started`, the exception of the property's statement):
  that what any other failure leaves running is what the metadata names is
  `FailureIsTold`.

`UserSchemasProofs`

* `RequestsSpareOthers`: for every request and every valid content, `Apply`
  leaves the users it is not about as they were and what it makes is typed and
  valid. One lemma per operation (`CreateSpares`, ...), and lemmas that the
  migration and the two texts of a file keep what a user may log in with. It
  assumes only what `UserSchemas` does of texts and tables
  (`RejectedAssumption`, `TextAssumption`, `TableAssumption`).

`UserCommandsProofs`

* `TypeCorrect`: `Spec => []TypeOK`, for any number of commands that overlap and
  are killed. That nothing invalid is written depends on what was read, so the
  invariant `Types` says that every record a read may find is valid (also a row
  without its keys, also half a file), and that each process is at a place its
  request and its backend have (`RightPlace`).
* `BystandersAreSafe`: `Spec => []BystandersKeepAccess`. Commands overlap and
  write back what they read earlier, so the invariant (`Fits`, as long as only
  the mishaps have happened that the property admits) speaks of the processes as
  well as of the store: what one has read and will write is true of the
  bystanders (`ProcessFits`), and so is the store, per backend. `FileFits`: one
  process at a time; the file holds a whole content or part of the one that
  fills it. `TablesFit`: the users table is right under either schema, the key
  table too, except between its creation and the transaction that fills it; and
  schema 1 can say what the bystanders have wherever somebody still reads as
  schema 1. `DocsFit`: document by document.
* `MigrationsAreUndoable`: `Spec => []MigrationIsUndoable`. While a migration
  writes, what it has read is among the backups; after an interruption a backup
  has the bystanders (`Undoable`).
* `CommandsDoWhatTheySay`: `Spec => []SuccessMeansDone`. The property is about the
  end of the latest command, the invariant (`Lone`: while there was no mishap,
  `Alone`) about every stage of it. `Alone` says that whoever runs is the latest
  command, that there is one latest command, and that it `Stands` where it should:
  it reads as the schema the configuration names; between the two `SELECT`s the
  users table and the schema are those it has seen; what it is about to write is
  what the request asks for (`Sound`); during a write the documents done so far are
  there, and the rest is on its list; once it has ended with success, the store has
  what it says (`Reached`). A step of the latest command carries it from one stage
  to the next, one lemma per action and kind of provider; any other step would be a
  mishap. The lemmas on reading back (`HeldIsRead`, `TargetIsRead`) say that what
  has been written under a schema is what the next read finds.
* `LoneCommandsKeepIt`: `Spec => LoneCommandsKeepTheDirectory`, the refinement of
  `UserDirectory`. A step of the abstract specification serves a request from what
  the directory holds at that moment, a command from what it read some steps ago,
  so the invariant (`Informed`, next to `Lone`) says that the two agree while there
  was no mishap. `Known`: the request of the running command is one of `Requests`,
  what it will write is `Derived` from what it read, and the store still stands for
  what it read (`Knows`; document by document on MongoDB, and before a commit with
  a key table that may just have been created, `BareIn`). `Ready`: where schema 1
  is configured and there is a key table, it says the same as the old column
  (`Alike`), or keys are missing, which is a mishap. `Shows` gives what the
  directory is at each place of a command; one `...Progress` lemma per action
  shows that its step serves the request or leaves the directory alone, and
  `SameRequests`, `SameStored` and `SameAbout` that the operators of
  `UserDirectory`, with the constants substituted, are those of the module.

They assume what `UserCommands` does of its requests, initial contents, backends
and bounds, and nothing of their number.

`ProjectOperationsProofs`

For any configurations, users, requests, processes and bounds, and every target.

* `TypeCorrect`: `Spec => []TypeOK`. Copies and archives move content from one
  place to another, so `Types` says of every place at once (project, server,
  what a container holds, archives, drafts of commands) that a file there has
  content of its own kind, and of every job that what is left to do is a list
  its kind of command can have (`Do`: the numbers of its steps rise).
* `RestoresPutBack` and `RestoresCanBeUndone`: the two properties are about
  restores that have ended, or that stand anywhere; the invariant `RestoresFit`
  says for each stage of one what it has done. Before the safety backup is closed
  nothing is overwritten and the draft has what was there; from then on the
  archive has it; and an entry of the source is either back in its place or still
  on the list of things to copy, with its folder possibly removed already. What
  another process may do to a restore meanwhile is one formula, `Spared`: it
  leaves the job as it is and adds each file it changes to `edited`. One lemma
  per action of `Next` says that it spares the others.
* `DeploysDeliver`: `Spec => []DeployDelivers`. `settled` says that a deploy has
  succeeded since the last edit, and a second deploy may be half-way when it is
  set. `DeploysFit` says that while no running command has missed an edit
  (`AllFresh`), a deploy before its n-th step has the first n - 1 stages behind
  it: rendered (`Written`), sent (`Sent`), the container made or the ConfigMap
  and the template applied (`Made`, `Mapped`, `Stated`), started. `Forward` is
  what keeps it: a step of another deploy may take any of these stages further
  but never back, because both render from the same files. Without `AllFresh` it
  is false (a command that loaded before an edit renders the old configuration
  over the new one), and `settled` implies it.

Two `CASE`s of the model had arms that overlap, where TLA+ leaves the choice
open and TLC takes the first: `PodStarts` and `ReadUsers`. The proofs could not
go through before their arms were made exclusive.

Only model-checked:

* liveness (`Converges`, `CatchesUp`, `Terminates`, `DeployTakesHold`): the
  prover has neither ENABLED nor liveness under fairness;
* the properties of the violations, which are false.

## 5. Plan

The order was: what the runtime does with identities, what the watcher does with
edits, the registry of contexts, then the commands that write what these read
(providers, installation, deployment and backup). All of these exist.

| Group | Abstract specification | Theorems | What is left |
|---|---|---|---|
| `ProviderData`, `Allocation`, `Runtime` | `IdentityLedger` | types, the three properties of a container alone, the two of passes that run alone between overlapping ones, the loop | what survives the overlap itself: that an entry dropped from `state.json` belongs to a user one of the passes has not seen |
| `Watcher` | | types, `NoEditIsLost` | |
| `ContextRegistry` | `ContextBook` | types, the default context, `LoneCommandsKeepTheBook`, `LoneRemovalSparesShared`, `LoneCleanupIsDue` | |
| `UserSchemas`, `ProviderStore`, `UserCommands` | `UserDirectory` | types, requests spare others, `BystandersKeepAccess`, `MigrationIsUndoable`, `SuccessMeansDone`, `LoneCommandsKeepTheDirectory` | |
| `WatcherBackends`, `WatcherInstall` | | types, `NoRemovedContexts`, `RecordIsTrue`, `NothingLeftBehind`, `InstallRecovers` | |
| `ProjectFiles`, `Deployment`, `ProjectOperations` | | types, `RestoreRestores`, `RestoreIsUndoable`, `DeployDelivers` | |

Not composed yet: `refresh_context` of a user command with the passes of
`Runtime` (each takes the other as an action of its environment), and a provider
copy with the commands on its source.

## 6. Not modelled

* **Health** only reads, except for the registry entry it may drop, which is
  `DropStale` of `ContextRegistry`.
* **Configuration**: the validation of single values, defaults and DSN parsing
  are functions of one argument without state; a configuration is one that has
  passed them. Prompts, output, help texts and error wording carry no state; a
  prompt is a choice.
* **Rendering**: of the compose file, the ConfigMap and the pod template, only
  what they are rendered from and whether two renderings differ (`shape`).
* **SSH, system commands, passwords and utilities**: a command that runs on a
  host is an action where it is used, with its failure; password hashes are one
  model value each, and hashing is not modelled.
* **Provider transfer**: export writes a file nobody else reads. Import and copy
  are actions; their source is a content that does not change meanwhile.
* `upsert_user` of the providers, which no command calls.
* The Windows task is defined and on no host of a run; SQLite on Kubernetes is
  left out, as are `pull`, `ps` and the checks of installed tools.
* **Packaging and release tools** do not run with the system.
