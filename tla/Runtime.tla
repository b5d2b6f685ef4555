------------------------------- MODULE Runtime -------------------------------
(***************************************************************************)
(* The runtime container of one context: docker/runtime/entrypoint.sh, the *)
(* synchronization pass apply_once and the loop run_sync_loop of           *)
(* sftpwarden/runtime/core.py, and the `runtime refresh` that              *)
(* refresh/core.py executes in the running container.                      *)
(*                                                                         *)
(* Every process runs apply_once step by step: it reads the provider, then *)
(* state.json, decides, runs the system commands user by user and finally  *)
(* fills state.tmp and renames it to state.json.  Nothing locks any of     *)
(* this, and every process uses the same state.tmp.                        *)
(***************************************************************************)
EXTENDS ProviderData

CONSTANTS
    Refreshers,           \* `sftpwarden refresh` invocations, run in the container
    DisableMissingUsers,  \* sync.disable_missing_users of sftpwarden.yaml
    Blank,                \* a file a writer has opened and not yet written
    Torn,                 \* a text over the tail of a longer one: no JSON
    MaxEdits,             \* bound on provider edits
    MaxFaults,            \* bound on failing commands, stops and recreations
    MaxTime               \* bound on the clock

Boot == "boot"            \* the entrypoint's own `runtime refresh`
Sync == "sync"            \* the entrypoint's background `runtime sync`
Process == {Boot, Sync} \cup Refreshers

ASSUME ContentAssumption == \A c \in Content : WellFormed(c)
ASSUME IdAssumption == FirstId \in Nat \ {0} /\ LastId \in Nat
ASSUME ExpiryAssumption == Expiry \in [Key -> Nat]
ASSUME FingerprintAssumption ==
    \A c \in Content : Fingerprint(c) # NoFingerprint
ASSUME ProcessAssumption == Refreshers \cap {Boot, Sync} = {}
ASSUME BoundAssumption == MaxEdits \in Nat /\ MaxFaults \in Nat /\ MaxTime \in Nat
ASSUME SwitchAssumption ==
    {AllowPassword, AllowPublicKey, DisableMissingUsers} \subseteq BOOLEAN

VARIABLES
    \* outside the container
    provider,    \* content of the provider
    now,         \* wall clock, as far as key expiry can tell
    edits, faults,
    \* persistent volumes
    stateFile,   \* state/state.json
    tmpFile,     \* {} or {the content of state/state.tmp}
    upload,      \* upload[u]: owner of /data/u/upload, <<0, 0>> if missing
    \* the container's own filesystem: kept by a restart, lost by a recreation
    up,          \* the container runs
    passwdUid,   \* UID in /etc/passwd, 0 without an account
    groupGid,    \* GID of group u_sftp, 0 without one
    shadow,      \* password field: a hash, "*" or "!"
    authKeys,    \* keys in /etc/sftpwarden/authorized_keys/u
    \* locals of apply_once in each process
    pc,
    users,       \* the content load_users returned
    state,       \* the RuntimeState, loaded and then updated user by user
    planUid, planGid,  \* plan.resolved_users
    at,          \* position in plan.resolved_users
    missing,     \* names disable_missing has still to visit
    opened,      \* the file RuntimeState.save holds open: "none", state.tmp,
                 \* state.json if state.tmp was renamed meanwhile, or "gone"
                 \* if another rename has unlinked that one
    \* auxiliary
    alone        \* {the pass that has had the container for itself since it
                 \* read the provider}, or {}

outside == <<provider, now, edits, faults, alone>>
volumes == <<stateFile, tmpFile, upload>>
system  == <<passwdUid, groupGid, shadow, authKeys>>
locals  == <<users, state, planUid, planGid, at, missing, opened>>
vars == <<outside, volumes, up, system, pc, locals>>

Locked == "!"
NoPassword == "*"
NoIds == [u \in User |-> 0]

\* RuntimeState: the entry of a user exists when its uid is not 0
EmptyState ==
    [uid |-> NoIds, gid |-> NoIds, disabled |-> [u \in User |-> FALSE],
     fingerprint |-> NoFingerprint]

SavedState ==
    [uid : [User -> Nat], gid : [User -> Nat], disabled : [User -> BOOLEAN],
     fingerprint : {Fingerprint(c) : c \in Content \cup {EmptyContent}}
                     \cup {NoFingerprint}]

ASSUME FileAssumption ==
    Blank \notin SavedState /\ Torn \notin SavedState /\ Blank # Torn

(* json.loads accepts the file. *)
Whole(file) == file \notin {Blank, Torn}

Commands == {"group", "account", "password", "lock", "directories", "keys",
             "missing"}
Saving == {"write", "fill", "replace"}
\* a pass that has read the provider
Working == {"state", "plan"} \cup Commands \cup Saving
InPass == {"load"} \cup Working

Init ==
    /\ provider \in Content
    /\ now = 0 /\ edits = 0 /\ faults = 0
    /\ stateFile = EmptyState
    /\ tmpFile = {}
    /\ upload = [u \in User |-> <<0, 0>>]
    /\ up = FALSE
    /\ passwdUid = NoIds /\ groupGid = NoIds
    /\ shadow = [u \in User |-> Locked]
    /\ authKeys = [u \in User |-> {}]
    /\ pc = [p \in Process |-> "off"]
    /\ users = [p \in Process |-> EmptyContent]
    /\ state = [p \in Process |-> EmptyState]
    /\ planUid = [p \in Process |-> NoIds]
    /\ planGid = [p \in Process |-> NoIds]
    /\ at = [p \in Process |-> 0]
    /\ missing = [p \in Process |-> {}]
    /\ opened = [p \in Process |-> "none"]
    /\ alone = {}

Goto(p, label) == pc' = [pc EXCEPT ![p] = label]

(* The locals of a process that leaves apply_once go out of scope; a file *)
(* it still holds open is closed by Dies.                                  *)
Forget(p) ==
    /\ users' = [users EXCEPT ![p] = EmptyContent]
    /\ state' = [state EXCEPT ![p] = EmptyState]
    /\ planUid' = [planUid EXCEPT ![p] = NoIds]
    /\ planGid' = [planGid EXCEPT ![p] = NoIds]
    /\ at' = [at EXCEPT ![p] = 0]
    /\ missing' = [missing EXCEPT ![p] = {}]

ForgetAll ==
    /\ users' = [p \in Process |-> EmptyContent]
    /\ state' = [p \in Process |-> EmptyState]
    /\ planUid' = [p \in Process |-> NoIds]
    /\ planGid' = [p \in Process |-> NoIds]
    /\ at' = [p \in Process |-> 0]
    /\ missing' = [p \in Process |-> {}]
    /\ opened' = [p \in Process |-> "none"]

(* An exception leaves apply_once.  The loop does not catch it, so it ends *)
(* the sync process for good; under `set -e` it ends the entrypoint and    *)
(* with it the container and every other process in it.                    *)
Dies(p) ==
    IF p = Boot
    THEN /\ up' = FALSE
         /\ pc' = [q \in Process |-> "off"]
         /\ ForgetAll
    ELSE /\ Goto(p, "off")
         /\ Forget(p)
         /\ opened' = [opened EXCEPT ![p] = "none"]
         /\ UNCHANGED up

(* apply_once returns: the loop sleeps, a refresh exits, and the entrypoint *)
(* starts the loop once its own refresh has succeeded.                      *)
Returns(p) ==
    /\ pc' = CASE p = Sync -> [pc EXCEPT ![Sync] = "sleep"]
               [] p = Boot -> [pc EXCEPT ![Boot] = "off", ![Sync] = "load"]
               [] OTHER    -> [pc EXCEPT ![p] = "off"]
    /\ Forget(p)
    /\ UNCHANGED up

-----------------------------------------------------------------------------
(* load_runtime_inputs: the provider first, state.json after it. *)

LoadUsers(p) ==
    /\ pc[p] = "load"
    /\ users' = [users EXCEPT ![p] = provider]
    /\ Goto(p, "state")
    /\ alone' = IF \E q \in Process \ {p} : pc[q] \in Working THEN {} ELSE {p}
    /\ UNCHANGED <<provider, now, edits, faults, volumes, up, system, state, planUid,
                   planGid, at, missing, opened>>

LoadState(p) ==
    /\ pc[p] = "state"
    /\ Whole(stateFile)
    /\ state' = [state EXCEPT ![p] = stateFile]
    /\ Goto(p, "plan")
    /\ UNCHANGED <<outside, volumes, up, system, users, planUid, planGid, at, missing,
                   opened>>

LoadFails(p) ==
    /\ pc[p] = "state"
    /\ ~Whole(stateFile)
    /\ Dies(p)
    /\ UNCHANGED <<outside, volumes, system>>

(* build_runtime_plan *)

Accepted(p) ==
    /\ CanAuthenticate(users[p], now)
    /\ AllocationSucceeds(users[p], state[p].uid)

MissingUsersStillEnabled(p) ==
    {u \in User : state[p].uid[u] # 0 /\ ~state[p].disabled[u]} \ Names(users[p])

MissingUsers(p) ==
    IF DisableMissingUsers
    THEN {u \in User : state[p].uid[u] # 0} \ Names(users[p])
    ELSE {}

ChangedUnforced(p) ==
    \/ MissingUsers(p) # {}
    \/ state[p].fingerprint # Fingerprint(users[p]) /\ Names(users[p]) # {}

\* plan.changed: every refresh is forced, and a missing user is an action even
\* when it is disabled already
Changed(p) ==
    \/ MissingUsers(p) # {}
    \/ /\ p # Sync \/ state[p].fingerprint # Fingerprint(users[p])
       /\ Names(users[p]) # {}

Reject(p) ==
    /\ pc[p] = "plan"
    /\ ~Accepted(p)
    /\ Dies(p)
    /\ UNCHANGED <<outside, volumes, system>>

NothingToDo(p) ==
    /\ pc[p] = "plan"
    /\ Accepted(p)
    /\ ~Changed(p)
    /\ state' = [state EXCEPT ![p].fingerprint = Fingerprint(users[p])]
    /\ Goto(p, "write")
    /\ UNCHANGED <<outside, volumes, up, system, users, planUid, planGid, at, missing,
                   opened>>

\* where the loop over plan.resolved_users goes for position i
LoopLabel(p, i) == IF i \in DOMAIN users[p].users THEN "group" ELSE "missing"

StartApplying(p) ==
    /\ pc[p] = "plan"
    /\ Accepted(p)
    /\ Changed(p)
    /\ planUid' = [planUid EXCEPT ![p] = [u \in User |->
            IF u \in Names(users[p])
            THEN ResolvedUid(users[p], state[p].uid, u) ELSE 0]]
    /\ planGid' = [planGid EXCEPT ![p] = [u \in User |->
            IF u \in Names(users[p])
            THEN ResolvedGid(users[p], state[p].uid, state[p].gid, u) ELSE 0]]
    /\ missing' = [missing EXCEPT ![p] = MissingUsers(p)]
    /\ at' = [at EXCEPT ![p] = 1]
    /\ Goto(p, LoopLabel(p, 1))
    /\ UNCHANGED <<outside, volumes, up, system, users, state, opened>>

-----------------------------------------------------------------------------
(* The body of apply_once's loop, for the user it has reached. *)

Current(p) == users[p].users[at[p]]
CurrentSpec(p) == users[p].spec[Current(p)]

(* ensure_group(user_sftp, gid): an existing group is left as it is; *)
(* groupadd fails when another group has the gid.                    *)
EnsureGroup(p) ==
    /\ pc[p] = "group"
    /\ LET u == Current(p) IN
       IF groupGid[u] # 0 \/ \A w \in User : groupGid[w] # planGid[p][u]
       THEN /\ groupGid' = [groupGid EXCEPT ![u] =
                              IF groupGid[u] # 0 THEN groupGid[u] ELSE planGid[p][u]]
            /\ Goto(p, "account")
            /\ UNCHANGED <<up, locals>>
       ELSE Dies(p) /\ UNCHANGED groupGid
    /\ UNCHANGED <<outside, volumes, passwdUid, shadow, authKeys>>

(* useradd -u, which creates the account locked, or usermod -u; both fail *)
(* when another account has the UID.                                      *)
EnsureAccount(p) ==
    /\ pc[p] = "account"
    /\ LET u == Current(p) IN
       IF \A w \in User \ {u} : passwdUid[w] # planUid[p][u]
       THEN /\ passwdUid' = [passwdUid EXCEPT ![u] = planUid[p][u]]
            /\ shadow' = [shadow EXCEPT ![u] = IF passwdUid[u] = 0 THEN Locked ELSE @]
            /\ Goto(p, "password")
            /\ UNCHANGED <<up, locals>>
       ELSE Dies(p) /\ UNCHANGED <<passwdUid, shadow>>
    /\ UNCHANGED <<outside, volumes, groupGid, authKeys>>

SetPasswordUnchecked(p) ==
    /\ pc[p] = "password"
    /\ shadow' = [shadow EXCEPT ![Current(p)] = CurrentSpec(p).hash]
    /\ Goto(p, "lock")
    /\ UNCHANGED <<outside, volumes, up, passwdUid, groupGid, authKeys, locals>>

(* usermod -p hash, for a disabled user too *)
SetPassword(p) ==
    /\ pc[p] = "password"
    /\ shadow' = [shadow EXCEPT ![Current(p)] =
                    IF CurrentSpec(p).hash # NoHash THEN CurrentSpec(p).hash
                    ELSE NoPassword]
    /\ Goto(p, "lock")
    /\ UNCHANGED <<outside, volumes, up, passwdUid, groupGid, authKeys, locals>>

(* usermod -p ! or usermod -U.  -U strips a leading "!" and refuses to leave *)
(* an empty field, so it changes none of the values shadow can have.         *)
SetLock(p) ==
    /\ pc[p] = "lock"
    /\ shadow' = [shadow EXCEPT ![Current(p)] =
                    IF CurrentSpec(p).disabled THEN Locked ELSE @]
    /\ Goto(p, "directories")
    /\ UNCHANGED <<outside, volumes, up, passwdUid, groupGid, authKeys, locals>>

EnsureDirectories(p) ==
    /\ pc[p] = "directories"
    /\ upload' = [upload EXCEPT ![Current(p)] =
                    <<planUid[p][Current(p)], planGid[p][Current(p)]>>]
    /\ Goto(p, "keys")
    /\ UNCHANGED <<outside, stateFile, tmpFile, up, system, locals>>

(* s with the entry RuntimeUserState(uid, gid, disabled) for u *)
Recorded(s, u, uid, gid, disabled) ==
    [s EXCEPT !.uid[u] = uid, !.gid[u] = gid, !.disabled[u] = disabled]

(* write_authorized_keys, the entry in the RuntimeState, the next user *)
WriteAuthorizedKeys(p) ==
    /\ pc[p] = "keys"
    /\ LET u == Current(p) IN
       /\ authKeys' = [authKeys EXCEPT ![u] = ActiveKeys(users[p], u, now)]
       /\ state' = [state EXCEPT ![p] =
                      Recorded(@, u, planUid[p][u], planGid[p][u], CurrentSpec(p).disabled)]
    /\ at' = [at EXCEPT ![p] = @ + 1]
    /\ Goto(p, LoopLabel(p, at[p] + 1))
    /\ UNCHANGED <<outside, volumes, up, passwdUid, groupGid, shadow, users,
                   planUid, planGid, missing, opened>>

DisableMissingForgets(p) ==
    /\ pc[p] = "missing"
    /\ \E u \in missing[p] :
         /\ missing' = [missing EXCEPT ![p] = @ \ {u}]
         /\ shadow' = [shadow EXCEPT ![u] = IF passwdUid[u] # 0 THEN Locked ELSE @]
         /\ state' = [state EXCEPT ![p] = Recorded(@, u, 0, 0, FALSE)]
    /\ UNCHANGED <<outside, volumes, up, passwdUid, groupGid, authKeys, pc, users,
                   planUid, planGid, at, opened>>

(* One iteration of disable_missing: the account is locked if it exists. *)
DisableMissing(p) ==
    /\ pc[p] = "missing"
    /\ \E u \in missing[p] :
         /\ missing' = [missing EXCEPT ![p] = @ \ {u}]
         /\ IF passwdUid[u] # 0
            THEN /\ shadow' = [shadow EXCEPT ![u] = Locked]
                 /\ state' = [state EXCEPT ![p] =
                                Recorded(@, u, @.uid[u], @.gid[u], TRUE)]
            ELSE UNCHANGED <<shadow, state>>
    /\ UNCHANGED <<outside, volumes, up, passwdUid, groupGid, authKeys, pc, users,
                   planUid, planGid, at, opened>>

FinishApplying(p) ==
    /\ pc[p] = "missing"
    /\ missing[p] = {}
    /\ state' = [state EXCEPT ![p].fingerprint = Fingerprint(users[p])]
    /\ Goto(p, "write")
    /\ UNCHANGED <<outside, volumes, up, system, users, planUid, planGid, at, missing,
                   opened>>

(* RuntimeState.save: tmp.write_text opens, and so empties, the one        *)
(* state.tmp, writes the text at the start of the file it has open, and    *)
(* tmp.replace renames whatever state.tmp holds by then.                   *)
OpenTmp(p) ==
    /\ pc[p] = "write"
    /\ tmpFile' = {Blank}
    /\ opened' = [opened EXCEPT ![p] = "tmp"]
    /\ Goto(p, "fill")
    /\ UNCHANGED <<outside, stateFile, upload, up, system, users, state, planUid,
                   planGid, at, missing>>

\* s written at the start of a file that another writer may have filled
Overwritten(file, s) == IF file \in {Blank, s} THEN {s} ELSE {s, Torn}

FillTmp(p) ==
    /\ pc[p] = "fill"
    /\ \/ /\ opened[p] = "tmp"
          /\ \E file \in tmpFile : \E text \in Overwritten(file, state[p]) :
                tmpFile' = {text}
          /\ UNCHANGED stateFile
       \/ /\ opened[p] = "state"
          /\ stateFile' \in Overwritten(stateFile, state[p])
          /\ UNCHANGED tmpFile
       \/ /\ opened[p] = "gone"
          /\ UNCHANGED <<stateFile, tmpFile>>
    /\ opened' = [opened EXCEPT ![p] = "none"]
    /\ Goto(p, "replace")
    /\ UNCHANGED <<outside, upload, up, system, users, state, planUid, planGid, at,
                   missing>>

\* what renaming state.tmp makes of the files the other processes have open
Renamed(handle) ==
    CASE handle = "tmp"   -> "state"
      [] handle = "state" -> "gone"
      [] OTHER            -> handle

ReplaceState(p) ==
    /\ pc[p] = "replace"
    /\ \E saved \in tmpFile : stateFile' = saved
    /\ tmpFile' = {}
    /\ opened' = [q \in Process |-> Renamed(opened[q])]
    /\ Returns(p)
    /\ UNCHANGED <<outside, upload, system>>

(* Renaming state.tmp fails when another process has renamed it already. *)
ReplaceFails(p) ==
    /\ pc[p] = "replace"
    /\ tmpFile = {}
    /\ Dies(p)
    /\ UNCHANGED <<outside, volumes, system>>

-----------------------------------------------------------------------------
(* The environment of a pass: an unreadable provider or state file, a busy *)
(* /etc/passwd.lock, a full disk.  The exception leaves apply_once.        *)
PassFails(p) ==
    /\ pc[p] \in InPass \ {"plan"}
    /\ faults < MaxFaults
    /\ faults' = faults + 1
    /\ Dies(p)
    /\ UNCHANGED <<provider, now, edits, alone, volumes, system>>

WakeUp ==
    /\ pc[Sync] = "sleep"
    /\ Goto(Sync, "load")
    /\ UNCHANGED <<outside, volumes, up, system, locals>>

StartRefresh(p) ==
    /\ p \in Refreshers
    /\ up
    /\ pc[p] = "off"
    /\ Goto(p, "load")
    /\ UNCHANGED <<outside, volumes, up, system, locals>>

StartContainer ==
    /\ ~up
    /\ up' = TRUE
    /\ Goto(Boot, "load")
    /\ UNCHANGED <<outside, volumes, system, locals>>

(* docker stop, a crash of the host, an eviction: at any point of any pass *)
StopContainer ==
    /\ up
    /\ faults < MaxFaults
    /\ faults' = faults + 1
    /\ up' = FALSE
    /\ pc' = [p \in Process |-> "off"]
    /\ ForgetAll
    /\ UNCHANGED <<provider, now, edits, alone, volumes, system>>

(* docker compose up with a new image or definition: a fresh filesystem *)
RecreateContainer ==
    /\ ~up
    /\ faults < MaxFaults
    /\ faults' = faults + 1
    /\ passwdUid' = NoIds /\ groupGid' = NoIds
    /\ shadow' = [u \in User |-> Locked]
    /\ authKeys' = [u \in User |-> {}]
    /\ UNCHANGED <<provider, now, edits, alone, volumes, up, pc, locals>>

EditProvider ==
    /\ edits < MaxEdits
    /\ edits' = edits + 1
    /\ provider' \in Content \ {provider}
    /\ UNCHANGED <<now, faults, alone, volumes, up, system, pc, locals>>

Tick ==
    /\ now < MaxTime
    /\ now' = now + 1
    /\ UNCHANGED <<provider, edits, faults, alone, volumes, up, system, pc, locals>>

Step(p) ==
    \/ LoadUsers(p) \/ LoadState(p) \/ LoadFails(p)
    \/ Reject(p) \/ NothingToDo(p) \/ StartApplying(p)
    \/ EnsureGroup(p) \/ EnsureAccount(p) \/ SetPassword(p) \/ SetLock(p)
    \/ EnsureDirectories(p) \/ WriteAuthorizedKeys(p)
    \/ DisableMissing(p) \/ FinishApplying(p)
    \/ OpenTmp(p) \/ FillTmp(p) \/ ReplaceState(p) \/ ReplaceFails(p)

Next ==
    \/ \E p \in Process : Step(p) \/ PassFails(p) \/ StartRefresh(p)
    \/ WakeUp
    \/ StartContainer \/ StopContainer \/ RecreateContainer
    \/ EditProvider \/ Tick

(* Processes of the container are scheduled, time.sleep returns, and the   *)
(* restart policy (restart: unless-stopped) starts a container that ended. *)
Fairness ==
    /\ \A p \in Process : WF_vars(Step(p))
    /\ WF_vars(WakeUp)
    /\ WF_vars(StartContainer)

Spec == Init /\ [][Next]_vars
FairSpec == Spec /\ Fairness
-----------------------------------------------------------------------------
(* Properties *)

TypeOK ==
    /\ provider \in Content
    /\ now \in Nat /\ edits \in Nat /\ faults \in Nat
    /\ stateFile \in SavedState \cup {Blank, Torn}
    /\ tmpFile \subseteq SavedState \cup {Blank, Torn}
    /\ upload \in [User -> Nat \X Nat]
    /\ up \in BOOLEAN
    /\ passwdUid \in [User -> Nat]
    /\ groupGid \in [User -> Nat]
    /\ shadow \in [User -> Hash \cup {Locked, NoPassword}]
    /\ authKeys \in [User -> SUBSET Key]
    /\ pc \in [Process -> InPass \cup {"off", "sleep"}]
    /\ users \in [Process -> Content \cup {EmptyContent}]
    /\ state \in [Process -> SavedState]
    /\ planUid \in [Process -> [User -> Nat]]
    /\ planGid \in [Process -> [User -> Nat]]
    /\ at \in [Process -> Nat]
    /\ missing \in [Process -> SUBSET User]
    /\ opened \in [Process -> {"none", "tmp", "state", "gone"}]
    /\ alone \subseteq Process

(* The loop is alive and no pass has touched the system since the last one *)
(* that saved its state.                                                   *)
Settled ==
    /\ pc[Sync] \in {"sleep", "load", "state", "plan"}
    /\ \A p \in Process \ {Sync} : pc[p] = "off"

(* The account of u is what the content c asks for, with the identity the   *)
(* runtime state s gives to u: neither a key the content lacks nor a valid  *)
(* key left out.  The group only has to exist: ensure_group leaves one that *)
(* exists as it is, whatever GID the plan has for it.                       *)
UserApplied(s, c, u) ==
    /\ groupGid[u] # 0
    /\ passwdUid[u] # 0
    /\ passwdUid[u] = s.uid[u]
    /\ shadow[u] = IF c.spec[u].disabled THEN Locked
                   ELSE IF c.spec[u].hash # NoHash THEN c.spec[u].hash
                   ELSE NoPassword
    /\ ActiveKeys(c, u, now) \subseteq authKeys[u]
    /\ authKeys[u] \subseteq c.spec[u].keys
    /\ upload[u] = <<s.uid[u], s.gid[u]>>

Applied(s, c) == \A u \in Names(c) : UserApplied(s, c, u)

SavedUsersApplied ==
    /\ Whole(stateFile)
    /\ stateFile.fingerprint # NoFingerprint =>
          Applied(stateFile, stateFile.fingerprint)

SavedRemovedLocked ==
    DisableMissingUsers /\ stateFile.fingerprint # NoFingerprint =>
       \A u \in User \ Names(stateFile.fingerprint) :
          stateFile.uid[u] # 0 /\ passwdUid[u] # 0 => shadow[u] = Locked

(* The saved fingerprint is what lets the loop skip a pass, so it has to    *)
(* tell the truth: whenever the loop is about to trust it, every account    *)
(* is as the content it stands for asks.  A crash, a failing command or a   *)
(* recreated filesystem between two passes must not leave a fingerprint     *)
(* behind that a later pass mistakes for its own work.                      *)
FingerprintTruthful == Settled => SavedUsersApplied

(* docs/security.md:12, "Removed users are disabled": a user of state.json *)
(* that the content last applied does not have cannot log in, whatever     *)
(* became of the passes that should have locked the account.               *)
KnownRemovedUsersLocked == Settled => SavedRemovedLocked

(* state.json is a ledger of identities (see IdentityLedger). *)
Ledger == INSTANCE IdentityLedger WITH
    ledger <- stateFile.uid,
    Pins <- UNION {{<<u, c.spec[u].uid>> : u \in {w \in Names(c) : c.spec[w].uid # 0}} :
                     c \in Content}

IdentitiesPreserved == Ledger!Spec

(* As long as the loop completes passes, the runtime ends up with what the *)
(* provider holds and stays there.                                         *)
Converges ==
    []<>(pc[Sync] = "sleep") =>
        <>[](pc[Sync] = "sleep" => Applied(stateFile, provider))

(* docs/operations.md:56, "`sftpwarden refresh` reloads users already       *)
(* visible to the running runtime": whatever overlapping passes, crashes    *)
(* and failing commands have left behind, a refresh that overlaps no other  *)
(* pass and succeeds leaves every account as the content it read asks, and  *)
(* every user it knows to be removed locked.                                *)
LoneRefreshRepairs ==
    [][\A p \in Process \ {Sync} :
         ReplaceState(p) /\ p \in alone =>
           SavedUsersApplied' /\ SavedRemovedLocked']_vars

(* docs/configuration.md:236, "Runtime currently preserves allocations      *)
(* through state for existing users": whatever overlapping passes, crashes  *)
(* and failing commands have left behind, the save of a pass that has run   *)
(* alone, of the loop or of a refresh, is a step of the ledger.  A pass may *)
(* take identities from a state.json it read before another pass saved, but *)
(* a pass that shared no moment with another must not lose any.             *)
LonePassKeepsIdentities ==
    [][\A p \in Process :
         ReplaceState(p) /\ p \in alone => Ledger!Record]_vars

-----------------------------------------------------------------------------
(* What the documentation says and the code does not do *)

(* docs/security.md:12, "Removed users are disabled", for every account and *)
(* not only for those state.json knows: an account that a pass created      *)
(* before it failed is in no state.json, and no later pass visits it.       *)
RemovedUsersLocked ==
    Settled /\ DisableMissingUsers /\ stateFile.fingerprint # NoFingerprint =>
       \A u \in User \ Names(stateFile.fingerprint) :
          passwdUid[u] # 0 => shadow[u] = Locked
=============================================================================
