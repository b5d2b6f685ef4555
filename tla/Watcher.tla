------------------------------ MODULE Watcher ------------------------------
(***************************************************************************)
(* `sftpwarden watch`: poll_watch of sftpwarden/watcher/core.py as the     *)
(* installed watcher runs it.  Every round loads the context registry,     *)
(* derives the provider files of the remote local-sync contexts and, for   *)
(* every file whose mtime is not the one it has seen, runs rsync (scp on   *)
(* Windows) to the context's host.  A failing command or a vanished file   *)
(* ends the process; its scheduler (systemd Restart=always, KeepAlive,     *)
(* restart: unless-stopped) starts another one, which has seen nothing.    *)
(*                                                                         *)
(* The registry, the files, their editors and the hosts change at any      *)
(* point of a round.                                                       *)
(***************************************************************************)
EXTENDS Naturals

CONSTANTS
    Context,          \* the names of the registry
    Rank,             \* their order: derive_watch_targets sorts its targets
    Host,             \* the machines a context's remote.host can name
    NoHost,           \* the context is not a watched local-sync context
    Content,          \* what a provider file can hold
    Partial,          \* a file that is being rewritten
    Absent,           \* no file
    Size,             \* the bytes of each content
    UsesScp,          \* use_scp_for_sync(): Windows
    TicksPerSecond,   \* bound: distinct mtimes within one second
    MaxTime,          \* bound on the clock, and so on writes of files
    MaxChanges,       \* bound on edits of the registry
    MaxEdits,         \* bound on edits of provider files
    MaxFaults         \* bound on kills of the process

FileContent == Content \cup {Partial, Absent}

ASSUME RankAssumption ==
    /\ Rank \in [Context -> Nat]
    /\ \A c, d \in Context : Rank[c] = Rank[d] => c = d
ASSUME HostAssumption == NoHost \notin Host
ASSUME SizeAssumption == Size \in [FileContent -> Nat]
ASSUME BoundsAssumption ==
    /\ UsesScp \in BOOLEAN
    /\ TicksPerSecond \in Nat \ {0}
    /\ MaxTime \in Nat \ {0} /\ MaxChanges \in Nat
    /\ MaxEdits \in Nat /\ MaxFaults \in Nat

VARIABLES
    endpoint,    \* the registry on disk: the remote host of each context
    file,        \* the provider file of each context: content and mtime
    clock, edits, changes, faults,
    reachable,   \* the hosts that ssh reaches
    copy,        \* each host's copy of a context's file: content and mtime
    pc, byName, targets, seen,    \* the locals of poll_watch
    sentMtime,   \* the mtime the transport saw when it started
    sentTo       \* auxiliary: the host the last transfer of a context went to

outside == <<endpoint, file, clock, edits, changes, faults, reachable>>
locals == <<pc, byName, targets, seen, sentMtime>>
vars == <<outside, copy, locals, sentTo>>

NoFile == [content |-> Absent, mtime |-> 0]
NothingSeen == [c \in Context |-> 0]
NoEndpoints == [c \in Context |-> NoHost]

Second(t) == t \div TicksPerSecond

Init ==
    /\ endpoint \in [Context -> Host \cup {NoHost}]
    /\ \E x \in Content : file = [c \in Context |-> [content |-> x, mtime |-> 1]]
    /\ clock = 1 /\ edits = 0 /\ changes = 0 /\ faults = 0
    /\ reachable = Host
    /\ copy = [c \in Context |-> [h \in Host |-> NoFile]]
    /\ pc = "registry"
    /\ byName = NoEndpoints
    /\ targets = {}
    /\ seen = NothingSeen
    /\ sentMtime = 0
    /\ sentTo = NoEndpoints
-----------------------------------------------------------------------------
(* The process *)

Goto(label) == pc' = label

DiesRemembering ==
    /\ Goto("dead")
    /\ byName' = NoEndpoints
    /\ targets' = {}
    /\ seen' = seen
    /\ sentMtime' = 0

\* an exception leaves poll_watch: nothing of the process remains
Dies ==
    /\ Goto("dead")
    /\ byName' = NoEndpoints
    /\ targets' = {}
    /\ seen' = NothingSeen
    /\ sentMtime' = 0

(* registry = load_registry(); by_name = registry.contexts *)
LoadRegistry ==
    /\ pc = "registry"
    /\ byName' = endpoint
    /\ Goto("derive")
    /\ UNCHANGED <<outside, copy, targets, seen, sentMtime, sentTo>>

(* derive_watch_targets loads the registry a second time. *)
DeriveTargets ==
    /\ pc = "derive"
    /\ targets' = {c \in Context : endpoint[c] # NoHost /\ file[c].content # Absent}
    /\ Goto("target")
    /\ UNCHANGED <<outside, copy, byName, seen, sentMtime, sentTo>>

\* the target the loop has reached
IsCurrent(c) == c \in targets /\ \A d \in targets : Rank[c] <= Rank[d]

SkipUnchanged(c) ==
    /\ pc = "target"
    /\ IsCurrent(c)
    /\ file[c].content # Absent
    /\ seen[c] = file[c].mtime
    /\ targets' = targets \ {c}
    /\ UNCHANGED <<outside, copy, pc, byName, seen, sentMtime, sentTo>>

NoticeChangeUnchecked(c) ==
    /\ pc = "target"
    /\ IsCurrent(c)
    /\ file[c].content # Absent
    /\ seen[c] # file[c].mtime
    /\ seen' = [seen EXCEPT ![c] = file[c].mtime]
    /\ Goto("connect")
    /\ UNCHANGED <<outside, copy, byName, targets, sentMtime, sentTo>>

NoticeChangeAfterFirst(c) ==
    /\ pc = "target"
    /\ IsCurrent(c)
    /\ file[c].content # Absent
    /\ seen[c] # file[c].mtime
    /\ byName[c] # NoHost
    /\ seen' = [seen EXCEPT ![c] = file[c].mtime]
    /\ Goto(IF seen[c] = 0 THEN "target" ELSE "connect")
    /\ UNCHANGED <<outside, copy, byName, targets, sentMtime, sentTo>>

(* seen[key] = mtime, then by_name[target.context] *)
NoticeChange(c) ==
    /\ pc = "target"
    /\ IsCurrent(c)
    /\ file[c].content # Absent
    /\ seen[c] # file[c].mtime
    /\ byName[c] # NoHost
    /\ seen' = [seen EXCEPT ![c] = file[c].mtime]
    /\ Goto("connect")
    /\ UNCHANGED <<outside, copy, byName, targets, sentMtime, sentTo>>

(* stat() of a file that is gone since derive_watch_targets saw it, or a *)
(* context that the first load of the registry did not have              *)
LookupFails(c) ==
    /\ pc = "target"
    /\ IsCurrent(c)
    /\ \/ file[c].content = Absent
       \/ /\ seen[c] # file[c].mtime
          /\ byName[c] = NoHost
    /\ Dies
    /\ UNCHANGED <<outside, copy, sentTo>>

\* rsync -a without --checksum: equal sizes and mtimes of the same second
QuickCheck(f, g) ==
    /\ Size[f.content] = Size[g.content]
    /\ Second(f.mtime) = Second(g.mtime)

UpToDate(f, g) == ~UsesScp /\ g.content # Absent /\ QuickCheck(f, g)

(* rsync finds the remote copy up to date and sends nothing. *)
NothingToSend(c) ==
    /\ pc = "connect"
    /\ IsCurrent(c)
    /\ byName[c] \in reachable
    /\ file[c].content # Absent
    /\ UpToDate(file[c], copy[c][byName[c]])
    /\ sentTo' = [sentTo EXCEPT ![c] = byName[c]]
    /\ targets' = targets \ {c}
    /\ Goto("target")
    /\ UNCHANGED <<outside, copy, byName, seen, sentMtime>>

StartTransfer(c) ==
    /\ pc = "connect"
    /\ IsCurrent(c)
    /\ byName[c] \in reachable
    /\ file[c].content # Absent
    /\ ~UpToDate(file[c], copy[c][byName[c]])
    /\ sentMtime' = file[c].mtime
    /\ Goto("transfer")
    /\ UNCHANGED <<outside, copy, byName, targets, seen, sentTo>>

(* The remote file is replaced by what the file holds while it is sent, *)
(* under the mtime it had when the transfer started.                    *)
FinishTransfer(c) ==
    /\ pc = "transfer"
    /\ IsCurrent(c)
    /\ byName[c] \in reachable
    /\ file[c].content # Absent
    /\ copy' = [copy EXCEPT ![c][byName[c]] =
                  [content |-> file[c].content, mtime |-> sentMtime]]
    /\ sentTo' = [sentTo EXCEPT ![c] = byName[c]]
    /\ targets' = targets \ {c}
    /\ sentMtime' = 0
    /\ Goto("target")
    /\ UNCHANGED <<outside, byName, seen>>

(* run_checked raises ContextError: poll_watch ends *)
TransferFails(c) ==
    /\ pc \in {"connect", "transfer"}
    /\ IsCurrent(c)
    /\ byName[c] \notin reachable \/ file[c].content = Absent
    /\ Dies
    /\ UNCHANGED <<outside, copy, sentTo>>

\* the next round loads by_name again: its value is of no use any more
Sleep ==
    /\ pc = "target"
    /\ targets = {}
    /\ byName' = NoEndpoints
    /\ Goto("sleep")
    /\ UNCHANGED <<outside, copy, targets, seen, sentMtime, sentTo>>

WakeUp ==
    /\ pc = "sleep"
    /\ Goto("registry")
    /\ UNCHANGED <<outside, copy, byName, targets, seen, sentMtime, sentTo>>

(* The scheduler starts the process again. *)
Restart ==
    /\ pc = "dead"
    /\ Goto("registry")
    /\ UNCHANGED <<outside, copy, byName, targets, seen, sentMtime, sentTo>>

(* The process is killed, or load_config rejects a configuration file that *)
(* is being edited.                                                        *)
Killed ==
    /\ pc # "dead"
    /\ faults < MaxFaults
    /\ faults' = faults + 1
    /\ Dies
    /\ UNCHANGED <<endpoint, file, clock, edits, changes, reachable, copy, sentTo>>
-----------------------------------------------------------------------------
(* The world around it.  Successive writes of a file have different mtimes: *)
(* the granularity of st_mtime is finer than a poll and a connection.       *)

Write(c, content) ==
    /\ clock < MaxTime
    /\ clock' = clock + 1
    /\ file' = [file EXCEPT ![c] = [content |-> content, mtime |-> clock + 1]]

Edit ==
    /\ edits < MaxEdits
    /\ edits' = edits + 1

(* write_private_text truncates the file and writes it again. *)
Truncate(c) ==
    /\ Edit
    /\ Write(c, Partial)
    /\ UNCHANGED <<endpoint, changes, faults, reachable, copy, locals, sentTo>>

FinishWriting(c) ==
    /\ file[c].content = Partial
    /\ \E content \in Content : Write(c, content)
    /\ UNCHANGED <<endpoint, edits, changes, faults, reachable, copy, locals, sentTo>>

(* An editor renames a new file over the old one. *)
Replace(c) ==
    /\ Edit
    /\ \E content \in Content : Write(c, content)
    /\ UNCHANGED <<endpoint, changes, faults, reachable, copy, locals, sentTo>>

RemoveFile(c) ==
    /\ Edit
    /\ file[c].content # Absent
    /\ file' = [file EXCEPT ![c] = NoFile]
    /\ UNCHANGED <<endpoint, clock, changes, faults, reachable, copy, locals, sentTo>>

(* context add, remove and convert, or an edit of remote.host *)
ChangeRegistry(c) ==
    /\ changes < MaxChanges
    /\ changes' = changes + 1
    /\ \E h \in (Host \cup {NoHost}) \ {endpoint[c]} :
         endpoint' = [endpoint EXCEPT ![c] = h]
    /\ UNCHANGED <<file, clock, edits, faults, reachable, copy, locals, sentTo>>

ChangeReachability ==
    /\ \E h \in Host :
         reachable' = IF h \in reachable THEN reachable \ {h} ELSE reachable \cup {h}
    /\ UNCHANGED <<endpoint, file, clock, edits, changes, faults, copy, locals, sentTo>>

Tick ==
    /\ clock < MaxTime
    /\ clock' = clock + 1
    /\ UNCHANGED <<endpoint, file, edits, changes, faults, reachable, copy, locals, sentTo>>
-----------------------------------------------------------------------------
Poll ==
    \/ LoadRegistry \/ DeriveTargets
    \/ \E c \in Context :
         \/ SkipUnchanged(c) \/ NoticeChange(c) \/ LookupFails(c)
         \/ NothingToSend(c) \/ StartTransfer(c)
         \/ FinishTransfer(c) \/ TransferFails(c)
    \/ Sleep \/ WakeUp

Environment ==
    \/ \E c \in Context :
         \/ Truncate(c) \/ FinishWriting(c) \/ Replace(c) \/ RemoveFile(c)
         \/ ChangeRegistry(c)
    \/ ChangeReachability \/ Tick

Next == Poll \/ Restart \/ Killed \/ Environment

(* The process runs, time.sleep returns, and the scheduler that the watcher *)
(* is installed in restarts it.  Nothing is assumed of the environment.     *)
Fairness == WF_vars(Poll) /\ WF_vars(Restart)

Spec == Init /\ [][Next]_vars
FairSpec == Spec /\ Fairness
-----------------------------------------------------------------------------
(* Properties *)

File == [content : FileContent, mtime : Nat]

TypeOK ==
    /\ endpoint \in [Context -> Host \cup {NoHost}]
    /\ file \in [Context -> File]
    /\ clock \in Nat /\ edits \in Nat /\ changes \in Nat /\ faults \in Nat
    /\ reachable \subseteq Host
    /\ copy \in [Context -> [Host -> File]]
    /\ pc \in {"registry", "derive", "target", "connect", "transfer", "sleep", "dead"}
    /\ byName \in [Context -> Host \cup {NoHost}]
    /\ targets \subseteq Context
    /\ seen \in [Context -> Nat]
    /\ sentMtime \in Nat
    /\ sentTo \in [Context -> Host \cup {NoHost}]
    /\ pc \in {"connect", "transfer"} => \E c \in Context : IsCurrent(c) /\ byName[c] \in Host

(* The host has what the file holds, or a copy that rsync takes for it. *)
Holds(c, h) ==
    \/ copy[c][h].content = file[c].content
    \/ UpToDate(file[c], copy[c][h])

Watched(c) == endpoint[c] # NoHost /\ file[c].content # Absent

(* Once a round is over, a file whose mtime the watcher remembers has been *)
(* sent as it is: recording the mtime before the transfer must not hide an *)
(* edit made while the transfer runs, nor a transfer that failed.          *)
NoLostEdit ==
    pc = "sleep" =>
        \A c \in Context :
            seen[c] # 0 /\ seen[c] = file[c].mtime =>
                sentTo[c] # NoHost /\ Holds(c, sentTo[c])

(* docs/cli/watcher.md, "When a watched provider file changes, SFTPWarden *)
(* syncs it to the corresponding remote local-sync context": once every   *)
(* host can be reached, every watched file ends up at the host it was     *)
(* last sent to.                                                          *)
CatchesUp ==
    <>[](reachable = Host) =>
        \A c \in Context :
            <>[](Watched(c) => sentTo[c] # NoHost /\ Holds(c, sentTo[c]))
=============================================================================
