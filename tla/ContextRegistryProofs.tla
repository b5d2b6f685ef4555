----------------------- MODULE ContextRegistryProofs -----------------------
(***************************************************************************)
(* Theorems about ContextRegistry, for any names, folders, invocations and *)
(* bounds: its type invariant and DefaultIsRegistered; and that commands   *)
(* which neither overlap nor are killed implement ContextBook, spare what  *)
(* contexts share, and uninstall the watcher when it is due.               *)
(***************************************************************************)
EXTENDS ContextRegistry, FiniteSetTheorems, TLAPS

-----------------------------------------------------------------------------
(* Operations on a loaded registry *)

Sound(r) == r.default # NoName => r.default \in Known(r)

Good(r) == r \in Registry /\ Sound(r)

LEMMA KindOfEntry ==
    ASSUME NEW e \in Entry
    PROVE  e.kind \in {"local", "sync", "remoteOnly"} /\ e # NoEntry
           /\ e.root \in Root \cup {NoRoot} /\ (e.kind = "local" => e.root \in Root)
  BY DEF Entry, NewEntry, NoEntry

LEMMA NewIsEntry == NewEntry \subseteq Entry
  BY DEF Entry

LEMMA KnownType ==
    ASSUME NEW r \in Registry, NEW n \in Known(r)
    PROVE  n \in Name /\ r.entry[n] \in Entry
  BY DEF Registry, Known

LEMMA EmptyGood == Good(EmptyRegistry)
  BY NameAssumption DEF Good, Sound, EmptyRegistry, Registry

LEMMA PutGood ==
    ASSUME NEW r, Good(r), NEW n \in Name, NEW e \in NewEntry
    PROVE  Good(Put(r, n, e))
<1>1. e \in Entry /\ e # NoEntry
  BY NewIsEntry, KindOfEntry
<1>2. Put(r, n, e) \in Registry
  BY <1>1 DEF Put, Good, Registry
<1>3. Known(r) \cup {n} \subseteq Known(Put(r, n, e))
  BY <1>1 DEF Put, Known, Good, Registry
<1> QED
  BY <1>2, <1>3 DEF Good, Sound, Put

LEMMA RepairGood ==
    ASSUME NEW r \in Registry, NEW q \in RepairDefault(r)
    PROVE  Good(q) /\ q.entry = r.entry
<1>1. CASE r.default = NoName \/ r.default \in Known(r)
  BY <1>1 DEF RepairDefault, Good, Sound
<1>2. CASE ~(r.default = NoName \/ r.default \in Known(r)) /\ Known(r) = {}
  BY <1>2, NameAssumption DEF RepairDefault, Good, Sound, Registry
<1>3. CASE ~(r.default = NoName \/ r.default \in Known(r)) /\ Known(r) # {}
  <2>1. PICK n \in Known(r) : q = [r EXCEPT !.default = n]
    BY <1>3 DEF RepairDefault
  <2>2. q \in Registry /\ q.entry = r.entry /\ q.default = n
    BY <2>1 DEF Registry, Known
  <2> QED
    BY <2>2 DEF Good, Sound, Known
<1> QED
  BY <1>1, <1>2, <1>3

LEMMA DropType ==
    ASSUME NEW r \in Registry, NEW S
    PROVE  Drop(r, S) \in Registry
  BY DEF Drop, Registry

LEMMA RenameGood ==
    ASSUME NEW r, Good(r), NEW old \in Known(r), NEW new \in Name
    PROVE  Good(RenameEntry(r, old, new))
<1> DEFINE q == RenameEntry(r, old, new)
<1>1. old \in Name /\ r.entry[old] # NoEntry /\ r.entry[old] \in Entry
  BY KnownType DEF Good, Known
<1>2. q \in Registry
  BY <1>1 DEF RenameEntry, Good, Registry
<1>3. new \in Known(q)
  BY <1>1 DEF RenameEntry, Known, Good, Registry
<1>4. \A n \in Known(r) \ {old} : n \in Known(q)
  BY <1>1 DEF RenameEntry, Known, Good, Registry
<1>5. q.default = IF r.default = old THEN new ELSE r.default
  BY DEF RenameEntry
<1> QED
  BY <1>2, <1>3, <1>4, <1>5 DEF Good, Sound

(* r with another entry for a context it knows *)
LEMMA UpdateGood ==
    ASSUME NEW r, Good(r), NEW n \in Known(r), NEW e \in Entry
    PROVE  Good([r EXCEPT !.entry[n] = e])
<1> DEFINE q == [r EXCEPT !.entry[n] = e]
<1>1. n \in Name /\ e # NoEntry
  BY KindOfEntry DEF Known
<1>2. q \in Registry /\ q.default = r.default
  BY <1>1 DEF Good, Registry
<1>3. Known(r) \subseteq Known(q)
  BY <1>1 DEF Known, Good, Registry
<1> QED
  BY <1>2, <1>3 DEF Good, Sound

LEMMA DefaultGood ==
    ASSUME NEW r, Good(r), NEW d \in Known(r) \cup {NoName}
    PROVE  Good([r EXCEPT !.default = d])
  BY DEF Good, Registry, Sound, Known

(* What the fields of a command can hold *)
LEMMA CommandFields ==
    ASSUME NEW c \in Command \cup {NoCommand}
    PROVE  /\ c.op \in {"add", "init", "type"} => c.name \in Name /\ c.entry \in NewEntry
           /\ c.op \in {"rename", "name", "project.name"} => c.name \in Name /\ c.to \in Name
           /\ c.op = "root" => c.name \in Name /\ c.entry.root \in Root
           /\ c.op \in {"remove", "storage", "default", "deploy", "refresh"} => c.name \in Name
  BY DEF Command, NoCommand
-----------------------------------------------------------------------------
(* The inductive invariant: every registry in memory is as sound as the    *)
(* saved one, and only deploy starts a runtime.                            *)

WorldOK ==
    /\ project \in [Root -> Name \cup {NoConfig, Gone}]
    /\ running \subseteq Root
    /\ watcher \in BOOLEAN
    /\ commands \in Nat /\ faults \in Nat /\ events \in Nat
    /\ existed \subseteq Root
    /\ raced \in BOOLEAN

\* where save_registry may return to
Return == {"idle", "pruned", "removed", "default", "install", "handle", "up"}

LocalOK(p) ==
    /\ pc[p] \in Label
    /\ cmd[p] \in Command \cup {NoCommand}
    /\ Good(reg[p])
    /\ stale[p] \subseteq Name
    /\ shared[p] \in BOOLEAN
    /\ resume[p] \in Return
    /\ pc[p] = "rename" => cmd[p].op = "project.name"
    /\ pc[p] = "up" => cmd[p].op = "deploy"
    /\ pc[p] \in {"save", "fill"} /\ resume[p] = "up" => cmd[p].op = "deploy"

Functions ==
    /\ pc = [p \in Cli |-> pc[p]]
    /\ cmd = [p \in Cli |-> cmd[p]]
    /\ reg = [p \in Cli |-> reg[p]]
    /\ stale = [p \in Cli |-> stale[p]]
    /\ shared = [p \in Cli |-> shared[p]]
    /\ resume = [p \in Cli |-> resume[p]]

IInv ==
    /\ Good(saved)
    /\ WorldOK
    /\ Functions
    /\ \A p \in Cli : LocalOK(p)

LEMMA IInvImplies == IInv => TypeOK /\ DefaultIsRegistered
<1> SUFFICES ASSUME IInv PROVE TypeOK /\ DefaultIsRegistered
  OBVIOUS
<1>1. DefaultIsRegistered
  BY DEF IInv, Good, Sound, DefaultIsRegistered
<1>2. /\ pc \in [Cli -> Label] /\ cmd \in [Cli -> Command \cup {NoCommand}]
      /\ stale \in [Cli -> SUBSET Name] /\ shared \in [Cli -> BOOLEAN]
      /\ resume \in [Cli -> Label]
  BY DEF IInv, Functions, LocalOK, Return, Label
<1>3. reg \in [Cli -> Registry]
  BY DEF IInv, Functions, LocalOK, Good
<1> QED
  BY <1>1, <1>2, <1>3 DEF IInv, WorldOK, Good, TypeOK

(* A command that ends leaves everything but the world to the others. *)
LEMMA EndsIInv ==
    ASSUME IInv, NEW p \in Cli, Ends(p), Good(saved'), WorldOK'
    PROVE  IInv'
<1>1. Functions'
  BY DEF IInv, Functions, Ends, Goto
<1>2. LocalOK(p)'
  BY EmptyGood DEF IInv, Functions, Ends, Goto, LocalOK, Label, Return, NoCommand
<1>3. ASSUME NEW q \in Cli \ {p} PROVE LocalOK(q)'
  <2>1. /\ pc'[q] = pc[q] /\ cmd'[q] = cmd[q] /\ reg'[q] = reg[q] /\ stale'[q] = stale[q]
        /\ shared'[q] = shared[q] /\ resume'[q] = resume[q]
    BY <1>3 DEF IInv, Functions, Ends, Goto
  <2>2. LocalOK(q)
    BY DEF IInv
  <2> QED
    BY <2>1, <2>2 DEF LocalOK
<1> QED
  BY <1>1, <1>2, <1>3 DEF IInv

(* A command that hands a sound registry to save_registry *)
LEMMA SaveIInv ==
    ASSUME IInv, NEW p \in Cli, NEW r, NEW label \in Return, Save(p, r, label),
           Good(r), UNCHANGED <<saved, cmd, stale, shared>>, WorldOK',
           label = "up" => cmd[p].op = "deploy"
    PROVE  IInv'
<1>1. Functions'
  BY DEF IInv, Functions, Save, Goto
<1>2. LocalOK(p)'
  BY DEF IInv, Functions, Save, Goto, LocalOK, Label
<1>3. ASSUME NEW q \in Cli \ {p} PROVE LocalOK(q)'
  <2>1. /\ pc'[q] = pc[q] /\ cmd'[q] = cmd[q] /\ reg'[q] = reg[q] /\ stale'[q] = stale[q]
        /\ shared'[q] = shared[q] /\ resume'[q] = resume[q]
    BY <1>3 DEF IInv, Functions, Save, Goto
  <2>2. LocalOK(q)
    BY DEF IInv
  <2> QED
    BY <2>1, <2>2 DEF LocalOK
<1> QED
  BY <1>1, <1>2, <1>3 DEF IInv

(* A command that only goes on *)
LEMMA GotoIInv ==
    ASSUME IInv, NEW p \in Cli, NEW label \in Label \ {"save", "fill"}, Goto(p, label),
           Good(saved'), UNCHANGED <<cmd, reg, stale, shared, resume>>, WorldOK',
           label = "up" => cmd[p].op = "deploy",
           label = "rename" => cmd[p].op = "project.name"
    PROVE  IInv'
<1>1. Functions'
  BY DEF IInv, Functions, Goto
<1>2. LocalOK(p)'
  BY DEF IInv, Functions, Goto, LocalOK
<1>3. ASSUME NEW q \in Cli \ {p} PROVE LocalOK(q)'
  <2>1. pc'[q] = pc[q]
    BY <1>3 DEF IInv, Functions, Goto
  <2>2. LocalOK(q)
    BY DEF IInv
  <2> QED
    BY <2>1, <2>2 DEF LocalOK
<1> QED
  BY <1>1, <1>2, <1>3 DEF IInv

LEMMA InitIInv == Init => IInv
<1> SUFFICES ASSUME Init PROVE IInv
  OBVIOUS
<1>1. PICK i \in Initial : saved = i.registry /\ project = i.project
  BY DEF Init
<1>2. Good(saved)
  BY <1>1, InitialAssumption DEF Good, Sound, Registry
<1>3. \A n \in Known(saved) : saved.entry[n].root \in Root \cup {NoRoot}
  BY <1>2, KnownType, KindOfEntry DEF Good
<1>4. WorldOK
  BY <1>1, <1>3, InitialAssumption DEF Init, WorldOK
<1>5. Functions
  BY DEF Init, Functions
<1>6. \A p \in Cli : LocalOK(p)
  BY EmptyGood DEF Init, LocalOK, Label, Return, NoCommand
<1> QED
  BY <1>2, <1>4, <1>5, <1>6 DEF IInv

(* Actions that change none of the world *)
LEMMA SameWorld ==
    ASSUME WorldOK, UNCHANGED <<outside, counters, existed, raced>>
    PROVE  WorldOK'
  BY DEF WorldOK, outside, counters

(* The context an action works on is one of a sound registry. *)
LEMMA Found ==
    ASSUME IInv, NEW p \in Cli, FindsContext(p)
    PROVE  /\ cmd[p].op \in Pruning => cmd[p].name \in Known(reg[p])
           /\ cmd[p].op \notin KeepsPruned => cmd[p].name \in Known(saved)
  BY DEF FindsContext

LEMMA SavingIInv ==
    ASSUME IInv, NEW p \in Cli, Saving(p) \/ Watching(p) PROVE IInv'
<1> USE DEF IInv
<1>0. LocalOK(p)
  OBVIOUS
<1>1. CASE Truncate(p)
  <2>1. WorldOK'
    BY <1>1, SameWorld DEF Truncate
  <2>2. Functions'
    BY <1>1 DEF Functions, Truncate, Goto
  <2>3. ASSUME NEW q \in Cli PROVE LocalOK(q)'
    BY <1>1, <2>3 DEF Functions, Truncate, Goto, LocalOK, Label
  <2> QED
    BY <1>1, <2>1, <2>2, <2>3, EmptyGood DEF Truncate
<1>2. CASE Fill(p)
  <2>1. WorldOK' /\ Good(saved')
    BY <1>0, <1>2, SameWorld DEF Fill, LocalOK
  <2>2. CASE resume[p] = "idle"
    BY <1>2, <2>1, <2>2, EndsIInv DEF Fill
  <2>3. CASE resume[p] # "idle"
    <3>1. Goto(p, resume[p]) /\ UNCHANGED <<cmd, reg, stale, shared, resume>>
      BY <1>2, <2>3 DEF Fill
    <3>2. Functions'
      BY <3>1 DEF Functions, Goto
    <3>3. ASSUME NEW q \in Cli PROVE LocalOK(q)'
      <4>1. /\ LocalOK(q)
            /\ q = p => pc[p] = "fill" /\ pc'[p] = resume[p]
            /\ q # p => pc'[q] = pc[q]
        BY <1>2, <3>1 DEF Functions, Fill, Goto
      <4> QED
        BY <3>1, <4>1 DEF LocalOK, Label, Return
    <3> QED
      BY <2>1, <3>2, <3>3
  <2> QED
    BY <2>2, <2>3
<1>3. CASE CleanupWatcher(p)
  <2>1. WorldOK'
    BY <1>3 DEF CleanupWatcher, WorldOK, counters, HasSync
  <2>2. CASE pc[p] = "removed"
    BY <1>3, <2>1, <2>2, EndsIInv DEF CleanupWatcher
  <2>3. CASE pc[p] # "removed"
    BY <1>3, <2>1, <2>3, GotoIInv DEF CleanupWatcher, Label
  <2> QED
    BY <2>2, <2>3
<1>4. CASE HandleWatcher(p)
  <2>1. WorldOK'
    BY <1>4 DEF HandleWatcher, WorldOK, counters, HasSync
  <2> QED
    BY <1>4, <2>1, EndsIInv DEF HandleWatcher
<1>5. CASE WatcherCommandsFail(p)
  <2>1. WorldOK'
    BY <1>5 DEF WatcherCommandsFail, WorldOK, outside
  <2> QED
    BY <1>5, <2>1, EndsIInv DEF WatcherCommandsFail
<1>6. CASE InstallWatcher(p)
  <2>1. WorldOK'
    BY <1>6 DEF InstallWatcher, WorldOK, counters
  <2> QED
    BY <1>6, <2>1, EndsIInv DEF InstallWatcher
<1> QED
  BY <1>1, <1>2, <1>3, <1>4, <1>5, <1>6 DEF Saving, Watching

LEMMA ChangingIInv ==
    ASSUME IInv, NEW p \in Cli, Changing(p) PROVE IInv'
<1> USE DEF IInv
<1>0. /\ LocalOK(p) /\ cmd[p] \in Command \cup {NoCommand} /\ Good(saved) /\ Good(reg[p])
      /\ {"idle", "default", "install", "handle"} \subseteq Return
      /\ "rename" \in Label \ {"save", "fill"}
  BY DEF LocalOK, Label, Return
<1>1. CASE Add(p)
  <2>1. Good(Put(saved, cmd[p].name, cmd[p].entry))
    BY <1>0, <1>1, PutGood, CommandFields DEF Add, Works
  <2> QED
    BY <1>0, <1>1, <2>1, SaveIInv, SameWorld DEF Add
<1>2. CASE AddWithoutProject(p)
  BY <1>2, EndsIInv, SameWorld DEF AddWithoutProject
<1>3. CASE InitContext(p)
  <2>1. cmd[p].name \in Name /\ cmd[p].entry \in NewEntry
    BY <1>0, <1>3, CommandFields DEF InitContext, Works
  <2>2. Good(Put(saved, cmd[p].name, cmd[p].entry))
    BY <1>0, <2>1, PutGood
  <2>3. cmd[p].entry.root \in Root \cup {NoRoot}
    BY <2>1, NewIsEntry, KindOfEntry
  <2>4. WorldOK'
    BY <1>3, <2>1, <2>3 DEF InitContext, WorldOK, counters
  <2> QED
    BY <1>0, <1>3, <2>2, <2>4, SaveIInv DEF InitContext
<1>4. CASE SetDefaultOfInit(p)
  <2>1. CASE cmd[p].name \in Known(saved)
    BY <1>0, <1>4, <2>1, DefaultGood, SaveIInv, SameWorld DEF SetDefaultOfInit
  <2>2. CASE cmd[p].name \notin Known(saved)
    BY <1>4, <2>2, EndsIInv, SameWorld DEF SetDefaultOfInit
  <2> QED
    BY <2>1, <2>2
<1>5. CASE SetDefault(p)
  <2>1. cmd[p].name \in Known(saved)
    BY <1>5, Found DEF SetDefault, Works, KeepsPruned
  <2> QED
    BY <1>0, <1>5, <2>1, DefaultGood, SaveIInv, SameWorld DEF SetDefault
<1>6. CASE ClearDefault(p)
  BY <1>0, <1>6, DefaultGood, SaveIInv, SameWorld DEF ClearDefault
<1>7. CASE Rename(p)
  <2>1. cmd[p].name \in Known(saved) /\ cmd[p].to \in Name
    BY <1>0, <1>7, Found, CommandFields DEF Rename, Works, KeepsPruned
  <2> QED
    BY <1>0, <1>7, <2>1, RenameGood, SaveIInv, SameWorld DEF Rename
<1>8. CASE RenameWithProject(p)
  <2>1. cmd[p].name \in Known(saved) /\ cmd[p].to \in Name
    BY <1>0, <1>8, Found, CommandFields DEF RenameWithProject, Works, KeepsPruned
  <2>2. WorldOK'
    BY <1>8, <2>1 DEF RenameWithProject, WorldOK, counters
  <2>3. CASE NameTaken(saved, p)
    BY <1>8, <2>2, <2>3, EndsIInv DEF RenameWithProject
  <2>4. CASE ~NameTaken(saved, p)
    BY <1>0, <1>8, <2>1, <2>2, <2>4, RenameGood, SaveIInv DEF RenameWithProject
  <2> QED
    BY <2>3, <2>4
<1>9. CASE WriteProjectName(p)
  <2>1. cmd[p].to \in Name
    BY <1>0, <1>9, CommandFields DEF WriteProjectName, Works
  <2>2. WorldOK'
    BY <1>9, <2>1 DEF WriteProjectName, WorldOK, counters
  <2>3. CASE Goto(p, "rename") /\ UNCHANGED <<cmd, reg, stale, shared, resume>>
    BY <1>0, <1>9, <2>2, <2>3, GotoIInv DEF WriteProjectName, Works
  <2>4. CASE Ends(p)
    BY <1>9, <2>2, <2>4, EndsIInv DEF WriteProjectName
  <2> QED
    BY <1>9, <2>3, <2>4 DEF WriteProjectName
<1>10. CASE RenameForProject(p)
  <2>1. cmd[p].to \in Name
    BY <1>0, <1>10, CommandFields DEF RenameForProject, LocalOK
  <2>2. CASE cmd[p].name \in Known(saved) /\ ~NameTaken(saved, p)
    BY <1>0, <1>10, <2>1, <2>2, RenameGood, SaveIInv, SameWorld DEF RenameForProject
  <2>3. CASE ~(cmd[p].name \in Known(saved) /\ ~NameTaken(saved, p))
    BY <1>10, <2>3, EndsIInv, SameWorld DEF RenameForProject
  <2> QED
    BY <2>2, <2>3
<1>11. CASE Convert(p)
  <2>1. cmd[p].name \in Known(saved) /\ cmd[p].entry \in NewEntry
    BY <1>0, <1>11, Found, CommandFields DEF Convert, Works, KeepsPruned
  <2>2. saved.entry[cmd[p].name] \in Entry
    BY <1>0, <2>1, KnownType DEF Good
  <2>3. \A e \in Entry : Good([saved EXCEPT !.entry[cmd[p].name] = e])
    BY <1>0, <2>1, UpdateGood
  <2>4. PICK e \in Entry : Save(p, [saved EXCEPT !.entry[cmd[p].name] = e], "handle")
    BY <1>11, <2>1, <2>2, NewIsEntry DEF Convert
  <2> QED
    BY <1>0, <1>11, <2>3, <2>4, SaveIInv, SameWorld DEF Convert
<1>12. CASE ChangeStorage(p)
  <2>1. cmd[p].name \in Known(saved)
    BY <1>12, Found DEF ChangeStorage, Works, KeepsPruned
  <2> DEFINE e == saved.entry[cmd[p].name]
             k == CASE e.kind = "sync" -> "remoteOnly"
                    [] e.kind = "remoteOnly" -> "sync"
                    [] OTHER -> e.kind
             f == [e EXCEPT !.kind = k]
  <2>2. e \in Entry
    BY <1>0, <2>1, KnownType DEF Good
  <2>3. f \in Entry
    BY <2>2 DEF Entry, NewEntry
  <2>4. [saved EXCEPT !.entry[cmd[p].name].kind = k] = [saved EXCEPT !.entry[cmd[p].name] = f]
    BY <1>0 DEF Good, Registry
  <2>5. Good([saved EXCEPT !.entry[cmd[p].name] = f])
    BY <1>0, <2>1, <2>3, UpdateGood
  <2> QED
    BY <1>0, <1>12, <2>4, <2>5, SaveIInv, SameWorld DEF ChangeStorage
<1>13. CASE MoveRoot(p)
  <2>1. cmd[p].name \in Known(saved) /\ cmd[p].entry.root \in Root
    BY <1>0, <1>13, Found, CommandFields DEF MoveRoot, Works, KeepsPruned
  <2> DEFINE e == saved.entry[cmd[p].name]
             new == cmd[p].entry.root
             f == [e EXCEPT !.root = new]
  <2>2. e \in Entry /\ e.root \in Root \cup {NoRoot}
    BY <1>0, <2>1, KnownType, KindOfEntry DEF Good
  <2>3. f \in Entry
    BY <2>1, <2>2 DEF Entry, NewEntry
  <2>4. [saved EXCEPT !.entry[cmd[p].name].root = new] = [saved EXCEPT !.entry[cmd[p].name] = f]
    BY <1>0 DEF Good, Registry
  <2>5. Good([saved EXCEPT !.entry[cmd[p].name] = f])
    BY <1>0, <2>1, <2>3, UpdateGood
  <2>6. WorldOK'
    <3>1. project' \in [Root -> Name \cup {NoConfig, Gone}]
      BY <1>13, <2>1, <2>2 DEF MoveRoot, WorldOK
    <3>2. existed' \subseteq Root
      BY <1>13 DEF MoveRoot, WorldOK
    <3> QED
      BY <1>13, <3>1, <3>2 DEF MoveRoot, WorldOK, counters
  <2>7. Save(p, saved, "handle")
          \/ Save(p, [saved EXCEPT !.entry[cmd[p].name].root = new], "handle")
    BY <1>13 DEF MoveRoot
  <2> QED
    BY <1>0, <1>13, <2>4, <2>5, <2>6, <2>7, SaveIInv DEF MoveRoot
<1> QED
  BY <1>1, <1>2, <1>3, <1>4, <1>5, <1>6, <1>7, <1>8, <1>9, <1>10, <1>11, <1>12,
     <1>13 DEF Changing

LEMMA RemovingIInv ==
    ASSUME IInv, NEW p \in Cli, Removing(p) PROVE IInv'
<1> USE DEF IInv
<1>0. LocalOK(p) /\ Good(saved) /\ Good(reg[p]) /\ "removed" \in Return
  BY DEF LocalOK, Return
<1>1. CASE LoadForRemoval(p)
  <2>1. WorldOK'
    BY <1>1, SameWorld DEF LoadForRemoval
  <2>2. Functions'
    BY <1>1 DEF Functions, LoadForRemoval, Goto
  <2>3. ASSUME NEW q \in Cli PROVE LocalOK(q)'
    <3>1. LocalOK(q) /\ Good(saved) /\ Shared(saved, cmd[p].name) \in BOOLEAN
      BY DEF Shared
    <3> QED
      BY <1>1, <3>1 DEF Functions, LoadForRemoval, Goto, LocalOK, Label
  <2> QED
    BY <1>1, <2>1, <2>2, <2>3 DEF LoadForRemoval
<1>2. CASE RemoteCleanupFails(p)
  BY <1>2, EndsIInv, SameWorld DEF RemoteCleanupFails
<1>3. CASE StopRuntime(p)
  <2>1. WorldOK'
    BY <1>3 DEF StopRuntime, WorldOK, counters
  <2> QED
    BY <1>3, <2>1, GotoIInv DEF StopRuntime, Label
<1>4. CASE EraseRoot(p)
  <2>1. WorldOK'
    BY <1>4 DEF EraseRoot, WorldOK, counters
  <2>2. Drop(reg[p], {cmd[p].name}) \in Registry
    BY <1>0, DropType DEF Good
  <2>3. PICK r \in RepairDefault(Drop(reg[p], {cmd[p].name})) : Save(p, r, "removed")
    BY <1>4 DEF EraseRoot
  <2> QED
    BY <1>0, <1>4, <2>1, <2>2, <2>3, RepairGood, SaveIInv DEF EraseRoot
<1> QED
  BY <1>1, <1>2, <1>3, <1>4 DEF Removing

LEMMA UsingIInv ==
    ASSUME IInv, NEW p \in Cli, Using(p) PROVE IInv'
<1> USE DEF IInv
<1>0. /\ LocalOK(p) /\ cmd[p] \in Command \cup {NoCommand} /\ Good(saved) /\ Good(reg[p])
      /\ {"up", "removed"} \subseteq Return
      /\ {"up", "reach"} \subseteq Label \ {"save", "fill"}
  BY DEF LocalOK, Return, Label
<1>1. CASE Reconcile(p)
  <2>1. WorldOK'
    BY <1>1, SameWorld DEF Reconcile
  <2>2. cmd[p].op = "deploy" /\ cmd[p].name \in Known(reg[p])
    BY <1>1, Found DEF Reconcile, Works, Pruning
  <2> DEFINE e == reg[p].entry[cmd[p].name]
  <2>3. CASE \E label \in {"up", "reach"} :
               Goto(p, label) /\ UNCHANGED <<cmd, reg, stale, shared, resume>>
    BY <1>0, <1>1, <2>1, <2>2, <2>3, GotoIInv DEF Reconcile
  <2>4. CASE Ends(p)
    BY <1>1, <2>1, <2>4, EndsIInv DEF Reconcile
  <2>5. CASE /\ HasConfig(e)
             /\ Save(p, RenameEntry(reg[p], cmd[p].name, project[e.root]), "up")
             /\ cmd' = [cmd EXCEPT ![p].name = project[e.root]]
             /\ UNCHANGED <<stale, shared>>
    <3>1. Good(RenameEntry(reg[p], cmd[p].name, project[e.root]))
      BY <1>0, <2>2, <2>5, RenameGood DEF HasConfig
    <3>2. [cmd[p] EXCEPT !.name = project[e.root]] \in Command
      <4> DEFINE Named == [op : {"remove", "storage", "default", "deploy", "refresh"},
                           name : Name, to : {NoName}, entry : {NoEntry}]
      <4>1. cmd[p] \in Named
        BY <1>0, <2>2 DEF Command, NoCommand
      <4>2. project[e.root] \in Name
        BY <2>5 DEF HasConfig
      <4>3. [cmd[p] EXCEPT !.name = project[e.root]] \in Named
        <5> HIDE DEF e
        <5> QED
          BY <4>1, <4>2
      <4> QED
        BY <4>3 DEF Command
    <3>3. Functions'
      BY <2>5 DEF Functions, Save, Goto
    <3>4. LocalOK(p)'
      <4>1. /\ pc'[p] = "save" /\ resume'[p] = "up" /\ Good(reg[p])'
            /\ cmd'[p] = [cmd[p] EXCEPT !.name = project[e.root]]
        BY <2>5, <3>1 DEF Functions, Save, Goto
      <4>2. cmd'[p].op = "deploy"
        BY <1>0, <2>2, <4>1 DEF Command, NoCommand
      <4> QED
        BY <1>0, <2>5, <3>2, <4>1, <4>2 DEF LocalOK, Label
    <3>5. ASSUME NEW q \in Cli \ {p} PROVE LocalOK(q)'
      <4>1. /\ pc'[q] = pc[q] /\ cmd'[q] = cmd[q] /\ reg'[q] = reg[q] /\ stale'[q] = stale[q]
            /\ shared'[q] = shared[q] /\ resume'[q] = resume[q]
        BY <2>5, <3>5 DEF Functions, Save, Goto
      <4>2. LocalOK(q)
        OBVIOUS
      <4> QED
        BY <4>1, <4>2 DEF LocalOK
    <3> QED
      BY <1>0, <1>1, <2>1, <3>3, <3>4, <3>5 DEF Reconcile
  <2> QED
    BY <1>1, <2>3, <2>4, <2>5 DEF Reconcile
<1>2. CASE Up(p)
  <2>0. cmd[p].op = "deploy"
    BY <1>0, <1>2 DEF Up, LocalOK
  <2>1. cmd[p].name \in Name
    <3> HIDE DEF IInv
    <3> QED
      BY <1>0, <2>0, CommandFields
  <2>2. reg[p].entry[cmd[p].name] \in Entry \cup {NoEntry}
    BY <1>0, <2>1 DEF Good, Registry
  <2>3. reg[p].entry[cmd[p].name].root \in Root \cup {NoRoot}
    BY <2>2, KindOfEntry DEF NoEntry
  <2>4. WorldOK'
    BY <1>2, <2>3 DEF Up, WorldOK, counters, HasConfig
  <2> QED
    BY <1>2, <2>4, EndsIInv DEF Up
<1>3. CASE Refresh(p)
  <2>1. CASE Goto(p, "reach") /\ UNCHANGED <<cmd, reg, stale, shared, resume>>
    BY <1>0, <1>3, <2>1, GotoIInv, SameWorld DEF Refresh
  <2>2. CASE Ends(p)
    BY <1>3, <2>2, EndsIInv, SameWorld DEF Refresh
  <2> QED
    BY <1>3, <2>1, <2>2 DEF Refresh
<1>4. CASE RemoteAnswers(p)
  BY <1>4, EndsIInv, SameWorld DEF RemoteAnswers
<1>5. CASE DropStale(p)
  <2>1. CASE Ends(p)
    BY <1>5, <2>1, EndsIInv, SameWorld DEF DropStale
  <2>2. CASE ~Ends(p)
    <3>1. Drop(saved, {cmd[p].name}) \in Registry
      BY <1>0, DropType DEF Good
    <3>2. PICK r \in RepairDefault(Drop(saved, {cmd[p].name})) : Save(p, r, "removed")
      BY <1>5, <2>2 DEF DropStale
    <3> QED
      BY <1>0, <1>5, <2>2, <3>1, <3>2, RepairGood, SaveIInv, SameWorld DEF DropStale
  <2> QED
    BY <2>1, <2>2
<1> QED
  BY <1>1, <1>2, <1>3, <1>4, <1>5 DEF Using

LEMMA NextIInv == IInv /\ [Next]_vars => IInv'
<1> SUFFICES ASSUME IInv, [Next]_vars PROVE IInv'
  OBVIOUS
<1> USE DEF IInv
<1>1. ASSUME NEW p \in Cli, NEW c \in Command, Start(p, c) PROVE IInv'
  <2>1. WorldOK'
    BY <1>1 DEF Start, WorldOK, outside
  <2>2. Functions'
    BY <1>1 DEF Functions, Start, Goto
  <2>3. ASSUME NEW q \in Cli PROVE LocalOK(q)'
    <3>1. LocalOK(q)
      OBVIOUS
    <3> QED
      BY <1>1, <3>1 DEF Functions, Start, Goto, LocalOK, Label
  <2> QED
    BY <1>1, <2>1, <2>2, <2>3 DEF Start
<1>2. ASSUME NEW p \in Cli, Prune(p) PROVE IInv'
  <2>1. WorldOK'
    BY <1>2, SameWorld DEF Prune
  <2>2. Functions'
    BY <1>2 DEF Functions, Prune, Goto
  <2>3. ASSUME NEW q \in Cli PROVE LocalOK(q)'
    <3>1. LocalOK(q) /\ Good(saved) /\ Missing(saved) \subseteq Name
      BY DEF Missing, Known
    <3> QED
      BY <1>2, <3>1 DEF Functions, Prune, Goto, LocalOK, Label
  <2> QED
    BY <1>2, <2>1, <2>2, <2>3 DEF Prune
<1>3. ASSUME NEW p \in Cli, DropMissing(p) PROVE IInv'
  <2>1. WorldOK'
    BY <1>3 DEF DropMissing, WorldOK, counters
  <2>2. Drop(reg[p], stale[p]) \in Registry
    BY DropType DEF Good, LocalOK
  <2>3. PICK r \in RepairDefault(Drop(reg[p], stale[p])) : Save(p, r, "pruned")
    BY <1>3 DEF DropMissing
  <2> QED
    BY <1>3, <2>1, <2>2, <2>3, RepairGood, SaveIInv DEF DropMissing, Return
<1>4. ASSUME NEW p \in Cli, UnknownContext(p) PROVE IInv'
  BY <1>4, EndsIInv, SameWorld DEF UnknownContext
<1>5. ASSUME NEW p \in Cli, Killed(p) PROVE IInv'
  <2>1. WorldOK'
    BY <1>5 DEF Killed, WorldOK, outside
  <2> QED
    BY <1>5, <2>1, EndsIInv DEF Killed
<1>6. ASSUME NEW r \in Root, ChangeFolder(r) PROVE IInv'
  <2>1. WorldOK'
    BY <1>6 DEF ChangeFolder, WorldOK
  <2>2. Functions' /\ \A q \in Cli : LocalOK(q)'
    BY <1>6 DEF ChangeFolder, locals, Functions, LocalOK
  <2> QED
    BY <1>6, <2>1, <2>2 DEF ChangeFolder
<1>7. CASE UNCHANGED vars
  BY <1>7 DEF vars, outside, counters, locals, WorldOK, Functions, LocalOK
<1> QED
  BY <1>1, <1>2, <1>3, <1>4, <1>5, <1>6, <1>7, SavingIInv, ChangingIInv, RemovingIInv, UsingIInv
     DEF Next

(* Every variable keeps its type, whichever commands overlap, fail or are *)
(* killed.                                                                *)
THEOREM TypeCorrect == Spec => []TypeOK
  BY InitIInv, NextIInv, IInvImplies, PTL DEF Spec

(* The default of contexts.toml names a registered context, however many   *)
(* invocations load, change and save it without a lock, and although       *)
(* readers meet the truncated file.                                        *)
THEOREM DefaultStaysRegistered == Spec => []DefaultIsRegistered
  BY InitIInv, NextIInv, IInvImplies, PTL DEF Spec
-----------------------------------------------------------------------------
(* Commands that neither overlap nor are killed *)

(* What ContextBook promises of two registries, one after the other *)
SameOutside(b, c, S) == \A m \in Name \ S : c.entry[m] = b.entry[m]

Registers(b, c, n) ==
    /\ SameOutside(b, c, {n})
    /\ n \in Known(c)
    /\ c.default = b.default \/ (b.default = NoName /\ c.default = n)

Forgets(b, c, S) ==
    /\ SameOutside(b, c, S)
    /\ S \cap Known(c) = {}
    /\ Cardinality(S) = 1 \/ \A n \in S : b.entry[n].root # NoRoot
    /\ \/ c.default = b.default
       \/ /\ b.default \in S
          /\ c.default \in Known(c) \/ (c.default = NoName /\ Known(c) = {})

Renames(b, c, n, m) ==
    /\ SameOutside(b, c, {n, m})
    /\ c.entry[m] = b.entry[n]
    /\ n # m => n \notin Known(c)
    /\ c.default = IF b.default = n THEN m ELSE b.default

Chooses(b, c) == c.entry = b.entry /\ c.default \in Known(c) \cup {NoName}

Promised(b, c) ==
    \/ \E n \in Name : Registers(b, c, n)
    \/ \E S \in SUBSET Known(b) : Forgets(b, c, S)
    \/ \E n \in Known(b), m \in Name : Renames(b, c, n, m)
    \/ Chooses(b, c)

LEMMA PutIsPromised ==
    ASSUME NEW r, Good(r), NEW n \in Name, NEW e \in NewEntry
    PROVE  Promised(r, Put(r, n, e))
<1>1. e # NoEntry
  BY NewIsEntry, KindOfEntry
<1>2. Registers(r, Put(r, n, e), n)
  BY <1>1 DEF Registers, SameOutside, Put, Known, Good, Registry
<1>. QED  BY <1>2 DEF Promised

LEMMA UpdateIsPromised ==
    ASSUME NEW r, Good(r), NEW n \in Known(r), NEW e \in Entry
    PROVE  Promised(r, [r EXCEPT !.entry[n] = e])
<1>1. e # NoEntry /\ n \in Name
  BY KindOfEntry DEF Known
<1>2. Registers(r, [r EXCEPT !.entry[n] = e], n)
  BY <1>1 DEF Registers, SameOutside, Known, Good, Registry
<1>. QED  BY <1>1, <1>2 DEF Promised

LEMMA DefaultIsPromised ==
    ASSUME NEW r, Good(r), NEW d \in Known(r) \cup {NoName}
    PROVE  Promised(r, [r EXCEPT !.default = d])
<1>1. Chooses(r, [r EXCEPT !.default = d])
  BY DEF Chooses, Known, Good, Registry
<1>. QED  BY <1>1 DEF Promised

LEMMA NothingIsPromised == ASSUME NEW r, Good(r) PROVE Promised(r, r)
  BY DEF Promised, Chooses, Good, Sound

LEMMA RenameIsPromised ==
    ASSUME NEW r, Good(r), NEW n \in Known(r), NEW m \in Name
    PROVE  Promised(r, RenameEntry(r, n, m))
<1>1. n \in Name
  BY DEF Known
<1>2. Renames(r, RenameEntry(r, n, m), n, m)
  BY <1>1 DEF Renames, SameOutside, RenameEntry, Known, Good, Registry
<1>. QED  BY <1>2 DEF Promised

LEMMA OneContext == \A n : Cardinality({n}) = 1
  BY FS_Singleton

(* One context, or contexts with a folder *)
LEMMA DropIsPromised ==
    ASSUME NEW r, Good(r), NEW S \in SUBSET Known(r),
           Cardinality(S) = 1 \/ \A n \in S : r.entry[n].root # NoRoot,
           NEW c \in RepairDefault(Drop(r, S))
    PROVE  Promised(r, c)
<1> DEFINE d == Drop(r, S)
<1>1. /\ d \in Registry /\ d.default = r.default
      /\ \A n \in Name : d.entry[n] = IF n \in S THEN NoEntry ELSE r.entry[n]
  BY DropType DEF Good, Registry, Drop
<1>2. S \subseteq Name
  BY DEF Known
<1>3. Good(c) /\ c.entry = d.entry
  BY <1>1, RepairGood
<1>4. SameOutside(r, c, S) /\ S \cap Known(c) = {} /\ Known(c) = Known(r) \ S
  BY <1>1, <1>2, <1>3 DEF SameOutside, Known
<1>5. Known(d) = Known(c)
  BY <1>3 DEF Known
<1>6. \/ c.default = r.default
      \/ /\ r.default \in S
         /\ c.default \in Known(c) \/ (c.default = NoName /\ Known(c) = {})
  <2>1. CASE d.default = NoName \/ d.default \in Known(d)
    BY <1>1, <2>1 DEF RepairDefault
  <2>2. CASE ~ (d.default = NoName \/ d.default \in Known(d))
    <3>1. r.default \in S
      BY <1>1, <1>4, <1>5, <2>2 DEF Good, Sound
    <3>2. CASE Known(d) = {}
      BY <1>1, <1>5, <2>2, <3>1, <3>2 DEF RepairDefault, Registry
    <3>3. CASE Known(d) # {}
      <4>1. PICK n \in Known(d) : c = [d EXCEPT !.default = n]
        BY <2>2, <3>3 DEF RepairDefault
      <4>2. c.default = n
        BY <1>1, <4>1 DEF Registry
      <4>. QED  BY <1>5, <3>1, <4>2
    <3>. QED  BY <3>2, <3>3
  <2>. QED  BY <2>1, <2>2
<1>7. Forgets(r, c, S)
  BY <1>4, <1>6 DEF Forgets
<1>. QED  BY <1>7 DEF Promised
-----------------------------------------------------------------------------
(* What an invocation that has the registry for itself knows of the file:  *)
(* what it loaded is still there, and what it is going to save is one      *)
(* promised step from it.                                                  *)

Stage(p) ==
    /\ pc[p] = "orphans" =>
         /\ reg[p] = saved
         /\ stale[p] \subseteq Known(saved)
         /\ \A n \in stale[p] : saved.entry[n].root # NoRoot
    /\ pc[p] \in {"pruned", "removed"} => reg[p] = saved
    /\ pc[p] = "work" /\ cmd[p].op \in KeepsPruned => reg[p] = saved
    /\ pc[p] \in {"stop", "erase"} =>
         /\ reg[p] = saved
         /\ cmd[p].name \in Known(saved)
         /\ shared[p] = Shared(saved, cmd[p].name)
    /\ pc[p] = "save" => Promised(saved, reg[p])

OneRuns == \A p, q \in Cli : pc[p] # "idle" /\ pc[q] # "idle" => p = q

Alone == OneRuns /\ \A p \in Cli : Stage(p)

LInv == IInv /\ (~raced => Alone)

LEMMA IdleStage == ASSUME NEW p, pc[p] = "idle" PROVE Stage(p)
  BY DEF Stage

(* p, the only one that runs, has taken a step. *)
LEMMA StepAlone ==
    ASSUME Alone, NEW p \in Cli, pc[p] # "idle",
           \A q \in Cli \ {p} : pc'[q] = pc[q], Stage(p)'
    PROVE  Alone'
<1>1. \A q \in Cli \ {p} : pc[q] = "idle"
  BY DEF Alone, OneRuns
<1>2. OneRuns'
  BY <1>1 DEF OneRuns
<1>3. ASSUME NEW q \in Cli \ {p} PROVE Stage(q)'
  <2>1. pc'[q] = "idle"
    BY <1>1
  <2>. QED  BY <2>1 DEF Stage
<1>. QED  BY <1>2, <1>3 DEF Alone

LEMMA EndsAlone ==
    ASSUME IInv, Alone, NEW p \in Cli, pc[p] # "idle", Ends(p)
    PROVE  Alone'
<1>1. pc'[p] = "idle" /\ \A q \in Cli \ {p} : pc'[q] = pc[q]
  BY DEF IInv, Functions, Ends, Goto
<1>2. Stage(p)'
  BY <1>1 DEF Stage
<1>. QED  BY <1>1, <1>2, StepAlone

LEMMA SaveAlone ==
    ASSUME IInv, Alone, NEW p \in Cli, pc[p] # "idle", NEW r, NEW label,
           Save(p, r, label), saved' = saved, Promised(saved, r)
    PROVE  Alone'
<1>1. pc'[p] = "save" /\ reg'[p] = r /\ \A q \in Cli \ {p} : pc'[q] = pc[q]
  BY DEF IInv, Functions, Save, Goto
<1>2. Stage(p)'
  BY <1>1 DEF Stage
<1>. QED  BY <1>1, <1>2, StepAlone

(* A label at which an invocation need not know anything *)
LEMMA GotoAlone ==
    ASSUME IInv, Alone, NEW p \in Cli, pc[p] # "idle", NEW label,
           label \in {"default", "install", "handle", "up", "reach", "rename"}, Goto(p, label)
    PROVE  Alone'
<1>1. pc'[p] = label /\ \A q \in Cli \ {p} : pc'[q] = pc[q]
  BY DEF IInv, Functions, Goto
<1>2. Stage(p)'
  BY <1>1 DEF Stage
<1>. QED  BY <1>1, <1>2, StepAlone
-----------------------------------------------------------------------------
(* What the steps of an invocation do to it *)

LEMMA SavingAlone ==
    ASSUME IInv, Alone, NEW p \in Cli, Saving(p) \/ Watching(p)
    PROVE  Alone'
<1>0. Functions /\ LocalOK(p) /\ Stage(p)
  BY DEF IInv, Alone
<1>1. CASE Truncate(p)
  <2>1. pc'[p] = "fill" /\ \A q \in Cli \ {p} : pc'[q] = pc[q]
    BY <1>0, <1>1 DEF Functions, Truncate, Goto
  <2>2. Stage(p)'
    BY <2>1 DEF Stage
  <2>. QED  BY <1>1, <2>1, <2>2, StepAlone DEF Truncate
<1>2. CASE Fill(p)
  <2>1. CASE resume[p] = "idle"
    BY <1>2, <2>1, EndsAlone DEF Fill
  <2>2. CASE resume[p] # "idle"
    <3>1. /\ pc'[p] = resume[p] /\ \A q \in Cli \ {p} : pc'[q] = pc[q]
          /\ reg'[p] = reg[p] /\ saved' = reg[p]
      BY <1>0, <1>2, <2>2 DEF Functions, Fill, Goto
    <3>2. pc'[p] \in Return
      BY <1>0, <3>1 DEF LocalOK
    <3>3. Stage(p)'
      BY <3>1, <3>2 DEF Stage, Return
    <3>. QED  BY <1>2, <3>1, <3>3, StepAlone DEF Fill
  <2>. QED  BY <2>1, <2>2
<1>3. CASE CleanupWatcher(p)
  <2>1. CASE pc[p] = "removed"
    BY <1>3, <2>1, EndsAlone DEF CleanupWatcher
  <2>2. CASE pc[p] # "removed"
    <3>1. /\ pc'[p] = "work" /\ \A q \in Cli \ {p} : pc'[q] = pc[q]
          /\ reg' = reg /\ saved' = saved /\ pc[p] = "pruned"
      BY <1>0, <1>3, <2>2 DEF Functions, CleanupWatcher, Goto
    <3>2. Stage(p)'
      BY <1>0, <3>1 DEF Stage
    <3>. QED  BY <3>1, <3>2, StepAlone
  <2>. QED  BY <2>1, <2>2
<1>4. CASE HandleWatcher(p) \/ WatcherCommandsFail(p) \/ InstallWatcher(p)
  BY <1>4, EndsAlone DEF HandleWatcher, WatcherCommandsFail, InstallWatcher
<1>. QED  BY <1>1, <1>2, <1>3, <1>4 DEF Saving, Watching

LEMMA ChangingAlone ==
    ASSUME IInv, Alone, NEW p \in Cli, Changing(p)
    PROVE  Alone'
<1>0. /\ cmd[p] \in Command \cup {NoCommand} /\ Good(saved)
      /\ pc[p] = "rename" => cmd[p].op = "project.name"
  BY DEF IInv, LocalOK
<1>1. CASE Add(p)
  <2>1. cmd[p].name \in Name /\ cmd[p].entry \in NewEntry
    BY <1>0, <1>1, CommandFields DEF Add, Works
  <2>2. Promised(saved, Put(saved, cmd[p].name, cmd[p].entry))
    BY <1>0, <2>1, PutIsPromised
  <2>. QED  BY <1>1, <2>2, SaveAlone DEF Add, Works
<1>2. CASE AddWithoutProject(p)
  BY <1>2, EndsAlone DEF AddWithoutProject, Works
<1>3. CASE InitContext(p)
  <2>1. cmd[p].name \in Name /\ cmd[p].entry \in NewEntry
    BY <1>0, <1>3, CommandFields DEF InitContext, Works
  <2>2. Promised(saved, Put(saved, cmd[p].name, cmd[p].entry))
    BY <1>0, <2>1, PutIsPromised
  <2>. QED  BY <1>3, <2>2, SaveAlone DEF InitContext, Works
<1>4. CASE SetDefaultOfInit(p)
  <2>1. CASE cmd[p].name \in Known(saved)
    <3>1. Promised(saved, [saved EXCEPT !.default = cmd[p].name])
      BY <1>0, <2>1, DefaultIsPromised
    <3>. QED  BY <1>4, <2>1, <3>1, SaveAlone DEF SetDefaultOfInit
  <2>2. CASE cmd[p].name \notin Known(saved)
    BY <1>4, <2>2, EndsAlone DEF SetDefaultOfInit
  <2>. QED  BY <2>1, <2>2
<1>5. CASE SetDefault(p)
  <2>1. cmd[p].name \in Known(saved)
    BY <1>5, Found DEF SetDefault, Works, KeepsPruned
  <2>2. Promised(saved, [saved EXCEPT !.default = cmd[p].name])
    BY <1>0, <2>1, DefaultIsPromised
  <2>. QED  BY <1>5, <2>2, SaveAlone DEF SetDefault, Works
<1>6. CASE ClearDefault(p)
  <2>1. Promised(saved, [saved EXCEPT !.default = NoName])
    BY <1>0, DefaultIsPromised
  <2>. QED  BY <1>6, <2>1, SaveAlone DEF ClearDefault, Works
<1>7. CASE Rename(p)
  <2>1. cmd[p].name \in Known(saved) /\ cmd[p].to \in Name
    BY <1>0, <1>7, Found, CommandFields DEF Rename, Works, KeepsPruned
  <2>2. Promised(saved, RenameEntry(saved, cmd[p].name, cmd[p].to))
    BY <1>0, <2>1, RenameIsPromised
  <2>. QED  BY <1>7, <2>2, SaveAlone DEF Rename, Works
<1>8. CASE RenameWithProject(p)
  <2>1. cmd[p].name \in Known(saved) /\ cmd[p].to \in Name
    BY <1>0, <1>8, Found, CommandFields DEF RenameWithProject, Works, KeepsPruned
  <2>2. Promised(saved, RenameEntry(saved, cmd[p].name, cmd[p].to))
    BY <1>0, <2>1, RenameIsPromised
  <2>3. CASE NameTaken(saved, p)
    BY <1>8, <2>3, EndsAlone DEF RenameWithProject, Works
  <2>4. CASE ~ NameTaken(saved, p)
    BY <1>8, <2>2, <2>4, SaveAlone DEF RenameWithProject, Works
  <2>. QED  BY <2>3, <2>4
<1>9. CASE WriteProjectName(p)
  BY <1>9, EndsAlone, GotoAlone DEF WriteProjectName, Works
<1>10. CASE RenameForProject(p)
  <2>1. cmd[p].to \in Name
    BY <1>0, <1>10, CommandFields DEF RenameForProject
  <2>2. CASE cmd[p].name \in Known(saved) /\ ~ NameTaken(saved, p)
    <3>1. Promised(saved, RenameEntry(saved, cmd[p].name, cmd[p].to))
      BY <1>0, <2>1, <2>2, RenameIsPromised
    <3>. QED  BY <1>10, <2>2, <3>1, SaveAlone DEF RenameForProject
  <2>3. CASE ~ (cmd[p].name \in Known(saved) /\ ~ NameTaken(saved, p))
    BY <1>10, <2>3, EndsAlone DEF RenameForProject
  <2>. QED  BY <2>2, <2>3
<1>11. CASE Convert(p)
  <2>1. cmd[p].name \in Known(saved) /\ cmd[p].entry \in NewEntry
    BY <1>0, <1>11, Found, CommandFields DEF Convert, Works, KeepsPruned
  <2>2. saved.entry[cmd[p].name] \in Entry
    BY <1>0, <2>1, KnownType DEF Good
  <2>3. PICK e \in Entry : Save(p, [saved EXCEPT !.entry[cmd[p].name] = e], "handle")
    BY <1>11, <2>1, <2>2, NewIsEntry DEF Convert
  <2>4. Promised(saved, [saved EXCEPT !.entry[cmd[p].name] = e])
    BY <1>0, <2>1, UpdateIsPromised
  <2>. QED  BY <1>11, <2>3, <2>4, SaveAlone DEF Convert, Works
<1>12. CASE ChangeStorage(p)
  <2>1. cmd[p].name \in Known(saved)
    BY <1>12, Found DEF ChangeStorage, Works, KeepsPruned
  <2> DEFINE e == saved.entry[cmd[p].name]
             k == CASE e.kind = "sync" -> "remoteOnly"
                    [] e.kind = "remoteOnly" -> "sync"
                    [] OTHER -> e.kind
             f == [e EXCEPT !.kind = k]
  <2>2. e \in Entry
    BY <1>0, <2>1, KnownType DEF Good
  <2>3. f \in Entry
    BY <2>2 DEF Entry, NewEntry
  <2>4. [saved EXCEPT !.entry[cmd[p].name].kind = k] = [saved EXCEPT !.entry[cmd[p].name] = f]
    BY <1>0 DEF Good, Registry
  <2>5. Promised(saved, [saved EXCEPT !.entry[cmd[p].name] = f])
    BY <1>0, <2>1, <2>3, UpdateIsPromised
  <2>6. Save(p, [saved EXCEPT !.entry[cmd[p].name] = f], "handle")
    BY <1>12, <2>4 DEF ChangeStorage
  <2>. QED  BY <1>12, <2>5, <2>6, SaveAlone DEF ChangeStorage, Works
<1>13. CASE MoveRoot(p)
  <2>1. cmd[p].name \in Known(saved) /\ cmd[p].entry.root \in Root
    BY <1>0, <1>13, Found, CommandFields DEF MoveRoot, Works, KeepsPruned
  <2> DEFINE e == saved.entry[cmd[p].name]
             new == cmd[p].entry.root
             f == [e EXCEPT !.root = new]
  <2>2. e \in Entry
    BY <1>0, <2>1, KnownType DEF Good
  <2>3. CASE e.root = new \/ e.root = NoRoot
    <3>1. Save(p, saved, "handle")
      BY <1>13, <2>3 DEF MoveRoot
    <3>2. Promised(saved, saved)
      BY <1>0, NothingIsPromised
    <3>. QED  BY <1>13, <3>1, <3>2, SaveAlone DEF MoveRoot, Works
  <2>4. CASE ~ (e.root = new \/ e.root = NoRoot)
    <3>1. f \in Entry
      BY <2>1, <2>2 DEF Entry, NewEntry
    <3>2. [saved EXCEPT !.entry[cmd[p].name].root = new] = [saved EXCEPT !.entry[cmd[p].name] = f]
      BY <1>0 DEF Good, Registry
    <3>3. Save(p, [saved EXCEPT !.entry[cmd[p].name] = f], "handle")
      BY <1>13, <2>4, <3>2 DEF MoveRoot
    <3>4. Promised(saved, [saved EXCEPT !.entry[cmd[p].name] = f])
      BY <1>0, <2>1, <3>1, UpdateIsPromised
    <3>. QED  BY <1>13, <3>3, <3>4, SaveAlone DEF MoveRoot, Works
  <2>. QED  BY <2>3, <2>4
<1>. QED  BY <1>1, <1>2, <1>3, <1>4, <1>5, <1>6, <1>7, <1>8, <1>9, <1>10, <1>11, <1>12,
             <1>13 DEF Changing

LEMMA RemovingAlone ==
    ASSUME IInv, Alone, NEW p \in Cli, Removing(p)
    PROVE  Alone'
<1>0. Functions /\ LocalOK(p) /\ Stage(p) /\ Good(saved)
  BY DEF IInv, Alone
<1>1. CASE LoadForRemoval(p)
  <2>1. /\ pc'[p] = "stop" /\ \A q \in Cli \ {p} : pc'[q] = pc[q]
        /\ reg'[p] = saved /\ saved' = saved /\ cmd' = cmd
        /\ shared'[p] = Shared(saved, cmd[p].name)
    BY <1>0, <1>1 DEF Functions, LoadForRemoval, Goto
  <2>2. cmd[p].name \in Known(saved)
    BY <1>1, Found DEF LoadForRemoval, Works, KeepsPruned
  <2>3. Stage(p)'
    BY <2>1, <2>2 DEF Stage
  <2>. QED  BY <1>1, <2>1, <2>3, StepAlone DEF LoadForRemoval, Works
<1>2. CASE RemoteCleanupFails(p)
  BY <1>2, EndsAlone DEF RemoteCleanupFails
<1>3. CASE StopRuntime(p)
  <2>1. /\ pc[p] = "stop" /\ pc'[p] = "erase" /\ \A q \in Cli \ {p} : pc'[q] = pc[q]
        /\ reg' = reg /\ saved' = saved /\ cmd' = cmd /\ shared' = shared
    BY <1>0, <1>3 DEF Functions, StopRuntime, Goto
  <2>2. Stage(p)'
    BY <1>0, <2>1 DEF Stage
  <2>. QED  BY <2>1, <2>2, StepAlone
<1>4. CASE EraseRoot(p)
  <2>1. reg[p] = saved /\ cmd[p].name \in Known(saved)
    BY <1>0, <1>4 DEF EraseRoot, Stage
  <2>2. PICK r \in RepairDefault(Drop(saved, {cmd[p].name})) : Save(p, r, "removed")
    BY <1>4, <2>1 DEF EraseRoot
  <2>3. {cmd[p].name} \in SUBSET Known(saved) /\ Cardinality({cmd[p].name}) = 1
    BY <2>1, OneContext
  <2>4. Promised(saved, r)
    BY <1>0, <2>2, <2>3, DropIsPromised
  <2>. QED  BY <1>4, <2>2, <2>4, SaveAlone DEF EraseRoot
<1>. QED  BY <1>1, <1>2, <1>3, <1>4 DEF Removing

LEMMA UsingAlone ==
    ASSUME IInv, Alone, NEW p \in Cli, Using(p)
    PROVE  Alone'
<1>0. Functions /\ Stage(p) /\ Good(saved)
  BY DEF IInv, Alone
<1>1. CASE Reconcile(p)
  <2>1. reg[p] = saved /\ cmd[p].name \in Known(saved)
    BY <1>0, <1>1, Found DEF Reconcile, Works, Stage, KeepsPruned, Pruning
  <2> DEFINE e == saved.entry[cmd[p].name]
  <2>2. CASE \E label \in {"up", "reach"} : Goto(p, label)
    BY <1>1, <2>2, GotoAlone DEF Reconcile, Works
  <2>3. CASE Ends(p)
    BY <1>1, <2>3, EndsAlone DEF Reconcile, Works
  <2>4. CASE HasConfig(e) /\ Save(p, RenameEntry(saved, cmd[p].name, project[e.root]), "up")
    <3>1. Promised(saved, RenameEntry(saved, cmd[p].name, project[e.root]))
      BY <1>0, <2>1, <2>4, RenameIsPromised DEF HasConfig
    <3>. QED  BY <1>1, <2>4, <3>1, SaveAlone DEF Reconcile, Works
  <2>. QED  BY <1>1, <2>1, <2>2, <2>3, <2>4 DEF Reconcile
<1>2. CASE Up(p)
  BY <1>2, EndsAlone DEF Up
<1>3. CASE Refresh(p)
  BY <1>3, EndsAlone, GotoAlone DEF Refresh, Works
<1>4. CASE RemoteAnswers(p)
  BY <1>4, EndsAlone DEF RemoteAnswers
<1>5. CASE DropStale(p)
  <2>1. CASE cmd[p].name \notin Known(saved)
    BY <1>5, <2>1, EndsAlone DEF DropStale
  <2>2. CASE cmd[p].name \in Known(saved)
    <3>1. PICK r \in RepairDefault(Drop(saved, {cmd[p].name})) : Save(p, r, "removed")
      BY <1>5, <2>2 DEF DropStale
    <3>2. {cmd[p].name} \in SUBSET Known(saved) /\ Cardinality({cmd[p].name}) = 1
      BY <2>2, OneContext
    <3>3. Promised(saved, r)
      BY <1>0, <3>1, <3>2, DropIsPromised
    <3>. QED  BY <1>5, <3>1, <3>3, SaveAlone DEF DropStale
  <2>. QED  BY <2>1, <2>2
<1>. QED  BY <1>1, <1>2, <1>3, <1>4, <1>5 DEF Using

(* Whose steps change contexts.toml, and when an invocation runs alone *)
LEMMA OwnSteps ==
    ASSUME NEW p \in Cli, Watching(p) \/ Changing(p) \/ Removing(p) \/ Using(p)
    PROVE  /\ raced' = raced /\ saved' = saved /\ pc[p] \notin {"idle", "fill"}
           /\ \E label \in Label \ {"fill"} : Goto(p, label)
<1>0. {"idle", "save", "work", "rename", "stop", "erase", "up", "reach"} \subseteq Label \ {"fill"}
  BY DEF Label
<1>1. CASE Watching(p)
  BY <1>0, <1>1 DEF Watching, CleanupWatcher, HandleWatcher, WatcherCommandsFail, InstallWatcher, Ends
<1>2. CASE Changing(p)
  <2>1. CASE Add(p)
    BY <1>0, <2>1 DEF Add, Works, Ends, Save
  <2>2. CASE AddWithoutProject(p)
    BY <1>0, <2>2 DEF AddWithoutProject, Works, Ends, Save
  <2>3. CASE InitContext(p)
    BY <1>0, <2>3 DEF InitContext, Works, Ends, Save
  <2>4. CASE SetDefaultOfInit(p)
    BY <1>0, <2>4 DEF SetDefaultOfInit, Works, Ends, Save
  <2>5. CASE SetDefault(p)
    BY <1>0, <2>5 DEF SetDefault, Works, Ends, Save
  <2>6. CASE ClearDefault(p)
    BY <1>0, <2>6 DEF ClearDefault, Works, Ends, Save
  <2>7. CASE Rename(p)
    BY <1>0, <2>7 DEF Rename, Works, Ends, Save
  <2>8. CASE RenameWithProject(p)
    BY <1>0, <2>8 DEF RenameWithProject, Works, Ends, Save
  <2>9. CASE WriteProjectName(p)
    BY <1>0, <2>9 DEF WriteProjectName, Works, Ends, Save
  <2>10. CASE RenameForProject(p)
    BY <1>0, <2>10 DEF RenameForProject, Works, Ends, Save
  <2>11. CASE Convert(p)
    BY <1>0, <2>11 DEF Convert, Works, Ends, Save
  <2>12. CASE ChangeStorage(p)
    BY <1>0, <2>12 DEF ChangeStorage, Works, Ends, Save
  <2>13. CASE MoveRoot(p)
    BY <1>0, <2>13 DEF MoveRoot, Works, Ends, Save
  <2>. QED  BY <1>2, <2>1, <2>2, <2>3, <2>4, <2>5, <2>6, <2>7, <2>8, <2>9, <2>10, <2>11, <2>12, <2>13 DEF Changing
<1>3. CASE Removing(p)
  BY <1>0, <1>3 DEF Removing, LoadForRemoval, RemoteCleanupFails, StopRuntime, EraseRoot, Works, Ends, Save
<1>4. CASE Using(p)
  <2>1. CASE Reconcile(p)
    BY <1>0, <2>1 DEF Reconcile, Works, Ends, Save
  <2>2. CASE Up(p)
    BY <1>0, <2>2 DEF Up, Works, Ends, Save
  <2>3. CASE Refresh(p)
    BY <1>0, <2>3 DEF Refresh, Works, Ends, Save
  <2>4. CASE RemoteAnswers(p)
    BY <1>0, <2>4 DEF RemoteAnswers, Works, Ends, Save
  <2>5. CASE DropStale(p)
    BY <1>0, <2>5 DEF DropStale, Works, Ends, Save
  <2>. QED  BY <1>4, <2>1, <2>2, <2>3, <2>4, <2>5 DEF Using
<1>. QED  BY <1>1, <1>2, <1>3, <1>4

LEMMA NextAlone ==
    ASSUME LInv, [Next]_vars, ~ raced'
    PROVE  Alone' /\ Alone /\ ~ raced
<1>0. IInv
  BY DEF LInv
<1>1. ASSUME NEW p \in Cli, NEW c \in Command, Start(p, c)
      PROVE  Alone' /\ Alone /\ ~ raced
  <2>1. ~ raced /\ Alone /\ \A q \in Cli : pc[q] = "idle"
    BY <1>1 DEF Start, LInv
  <2>2. pc'[p] \in {"prune", "work"} /\ \A q \in Cli \ {p} : pc'[q] = "idle"
    BY <1>0, <1>1, <2>1 DEF Start, Goto, IInv, Functions
  <2>3. cmd'[p] = c /\ (pc'[p] = "work" => c.op \notin Pruning)
    BY <1>0, <1>1 DEF Start, Goto, IInv, Functions
  <2>4. Stage(p)'
    BY <2>2, <2>3 DEF Stage, Pruning, KeepsPruned
  <2>5. \A q \in Cli \ {p} : Stage(q)'
    BY <2>2 DEF Stage
  <2>. QED  BY <2>1, <2>2, <2>4, <2>5 DEF Alone, OneRuns
<1>2. ASSUME NEW p \in Cli, Prune(p) PROVE Alone' /\ Alone /\ ~ raced
  <2>1. ~ raced /\ Alone
    BY <1>2 DEF Prune, LInv
  <2>2. /\ pc[p] = "prune" /\ pc'[p] \in {"orphans", "work"} /\ \A q \in Cli \ {p} : pc'[q] = pc[q]
        /\ reg'[p] = saved /\ stale'[p] = Missing(saved) /\ saved' = saved
    BY <1>0, <1>2 DEF Prune, Goto, IInv, Functions
  <2>3. Stage(p)'
    BY <2>2 DEF Stage, Missing
  <2>. QED  BY <2>1, <2>2, <2>3, StepAlone
<1>3. ASSUME NEW p \in Cli, DropMissing(p) PROVE Alone' /\ Alone /\ ~ raced
  <2>1. ~ raced /\ Alone /\ Stage(p) /\ pc[p] = "orphans"
    BY <1>3 DEF DropMissing, LInv, Alone
  <2>2. /\ reg[p] = saved /\ stale[p] \in SUBSET Known(saved) /\ Good(saved)
        /\ \A n \in stale[p] : saved.entry[n].root # NoRoot
    BY <1>0, <2>1 DEF Stage, IInv
  <2>3. PICK r \in RepairDefault(Drop(saved, stale[p])) : Save(p, r, "pruned")
    BY <1>3, <2>2 DEF DropMissing
  <2>4. Promised(saved, r)
    BY <2>2, <2>3, DropIsPromised
  <2>. QED  BY <1>0, <1>3, <2>1, <2>3, <2>4, SaveAlone DEF DropMissing
<1>4. ASSUME NEW p \in Cli, UnknownContext(p) PROVE Alone' /\ Alone /\ ~ raced
  BY <1>0, <1>4, EndsAlone DEF UnknownContext, LInv
<1>5. ASSUME NEW p \in Cli, Saving(p) \/ Watching(p) \/ Changing(p) \/ Removing(p) \/ Using(p)
      PROVE  Alone' /\ Alone /\ ~ raced
  <2>1. raced' = raced
    BY <1>5, OwnSteps DEF Saving, Truncate, Fill
  <2>2. Alone
    BY <2>1 DEF LInv
  <2>. QED  BY <1>0, <1>5, <2>1, <2>2, SavingAlone, ChangingAlone, RemovingAlone, UsingAlone
<1>6. ASSUME NEW r \in Root, ChangeFolder(r) PROVE Alone' /\ Alone /\ ~ raced
  BY <1>6 DEF ChangeFolder, locals, LInv, Alone, OneRuns, Stage, Shared, Known
<1>7. CASE UNCHANGED vars
  BY <1>7 DEF vars, locals, LInv, Alone, OneRuns, Stage, Shared, Known
<1>8. ASSUME NEW p \in Cli, Killed(p) PROVE FALSE
  BY <1>8 DEF Killed
<1>. QED  BY <1>1, <1>2, <1>3, <1>4, <1>5, <1>6, <1>7, <1>8 DEF Next

LEMMA LInvInvariant == Spec => []LInv
<1>1. Init => LInv
  <2>1. Init => Alone
    BY DEF Init, Alone, OneRuns, Stage
  <2>. QED  BY <2>1, InitIInv DEF LInv
<1>2. LInv /\ [Next]_vars => LInv'
  BY NextIInv, NextAlone DEF LInv
<1>. QED  BY <1>1, <1>2, PTL DEF Spec
-----------------------------------------------------------------------------
(* The book: contexts.toml, or what is about to fill it *)

Shown == IF \E p \in Cli : pc[p] = "fill"
         THEN reg[CHOOSE p \in Cli : pc[p] = "fill"] ELSE saved

LEMMA ShownIs ==
    /\ (\A p \in Cli : pc[p] # "fill") => Shown = saved
    /\ OneRuns => \A p \in Cli : pc[p] = "fill" => Shown = reg[p]
<1>1. ASSUME OneRuns, NEW p \in Cli, pc[p] = "fill" PROVE Shown = reg[p]
  <2>1. \A q \in Cli : pc[q] = "fill" => q = p
    BY <1>1 DEF OneRuns
  <2>2. (CHOOSE q \in Cli : pc[q] = "fill") = p
    BY <1>1, <2>1
  <2>. QED  BY <1>1, <2>2 DEF Shown
<1>. QED  BY <1>1 DEF Shown

(* A step of a lone invocation is promised, or the book stays as it is. *)
LEMMA ShownStep ==
    ASSUME LInv, [Next]_vars, ~ raced'
    PROVE  Promised(Shown, Shown') \/ Shown' = Shown
<1>0. IInv /\ Functions /\ Alone /\ Alone' /\ OneRuns /\ OneRuns'
  BY NextAlone DEF LInv, IInv, Alone
<1>1. ASSUME saved' = saved, \A p \in Cli : pc[p] # "fill", \A p \in Cli : pc'[p] # "fill"
      PROVE  Shown' = Shown
  <2>1. Shown = saved
    BY <1>1, ShownIs
  <2>2. Shown' = saved'
    BY <1>1 DEF Shown
  <2>. QED  BY <1>1, <2>1, <2>2
<1>2. ASSUME NEW p \in Cli, pc[p] \notin {"idle", "fill"}, saved' = saved,
             NEW label, Goto(p, label), label # "fill"
      PROVE  Shown' = Shown
  <2>1. \A q \in Cli \ {p} : pc[q] = "idle"
    BY <1>0, <1>2 DEF OneRuns
  <2>2. pc'[p] = label /\ \A q \in Cli \ {p} : pc'[q] = "idle"
    BY <1>0, <1>2, <2>1 DEF Functions, Goto
  <2>3. (\A q \in Cli : pc[q] # "fill") /\ (\A q \in Cli : pc'[q] # "fill")
    BY <1>2, <2>1, <2>2
  <2>. QED  BY <1>1, <1>2, <2>3
<1>3. ASSUME NEW p \in Cli, NEW c \in Command, Start(p, c) PROVE Shown' = Shown
  <2>1. \A q \in Cli : pc[q] = "idle"
    BY <1>3 DEF Start
  <2>2. saved' = saved /\ \A q \in Cli : pc'[q] \in {"idle", "prune", "work"}
    BY <1>0, <1>3, <2>1 DEF Start, Goto, Functions
  <2>3. (\A q \in Cli : pc[q] # "fill") /\ (\A q \in Cli : pc'[q] # "fill")
    BY <2>1, <2>2
  <2>. QED  BY <1>1, <2>2, <2>3
<1>4. ASSUME NEW p \in Cli, Prune(p) \/ DropMissing(p) \/ UnknownContext(p) PROVE Shown' = Shown
  BY <1>2, <1>4 DEF Prune, DropMissing, UnknownContext, Save, Ends
<1>5. ASSUME NEW p \in Cli, Watching(p) \/ Changing(p) \/ Removing(p) \/ Using(p)
      PROVE  Shown' = Shown
  BY <1>2, <1>5, OwnSteps
<1>6. ASSUME NEW p \in Cli, Truncate(p) PROVE Promised(Shown, Shown')
  <2>1. pc[p] = "save" /\ pc'[p] = "fill" /\ reg' = reg
    BY <1>0, <1>6 DEF Truncate, Goto, Functions
  <2>2. \A q \in Cli : pc[q] # "fill"
    BY <1>0, <2>1 DEF OneRuns
  <2>3. Shown = saved /\ Shown' = reg'[p]
    <3>1. Shown = saved
      BY <2>2, ShownIs
    <3>2. (CHOOSE q \in Cli : pc'[q] = "fill") = p
      BY <1>0, <2>1 DEF OneRuns
    <3>. QED  BY <2>1, <3>1, <3>2 DEF Shown
  <2>4. Promised(saved, reg[p])
    BY <1>0, <2>1 DEF Alone, Stage
  <2>. QED  BY <2>1, <2>3, <2>4
<1>7. ASSUME NEW p \in Cli, Fill(p) PROVE Shown' = Shown
  <2>1. pc[p] = "fill" /\ saved' = reg[p] /\ pc'[p] \in Return /\ \A q \in Cli \ {p} : pc'[q] = pc[q]
    BY <1>0, <1>7 DEF Fill, Ends, Goto, Functions, IInv, LocalOK, Return
  <2>2. \A q \in Cli \ {p} : pc[q] = "idle"
    BY <1>0, <2>1 DEF OneRuns
  <2>3. \A q \in Cli : pc'[q] # "fill"
    BY <2>1, <2>2 DEF Return
  <2>4. Shown = reg[p]
    BY <1>0, <2>1, ShownIs
  <2>5. Shown' = saved'
    BY <2>3 DEF Shown
  <2>. QED  BY <2>1, <2>4, <2>5
<1>8. ASSUME NEW r \in Root, ChangeFolder(r) PROVE Shown' = Shown
  BY <1>8 DEF ChangeFolder, locals, Shown
<1>9. CASE UNCHANGED vars
  BY <1>9 DEF vars, locals, Shown
<1>10. ASSUME NEW p \in Cli, Killed(p) PROVE FALSE
  BY <1>10 DEF Killed
<1>. QED  BY <1>3, <1>4, <1>5, <1>6, <1>7, <1>8, <1>9, <1>10 DEF Next, Saving

LEMMA SameCardinality == \A S : Book!Cardinality(S) = Cardinality(S)
  BY DEF Cardinality, Book!Cardinality

LEMMA PromisedIsBooked ==
    ASSUME Promised(Shown, Shown'), ~ raced'
    PROVE  Book!Next
<1>0. /\ Shown = (IF \E p \in Cli : pc[p] = "fill"
                  THEN reg[CHOOSE p \in Cli : pc[p] = "fill"] ELSE saved)
      /\ Shown' = (IF \E p \in Cli : pc'[p] = "fill"
                   THEN reg'[CHOOSE p \in Cli : pc'[p] = "fill"] ELSE saved')
  BY DEF Shown
<1>5. /\ \A b : Book!Names(b) = Known(b)
      /\ \A b, S : S \subseteq Known(b) =>
           ((\A n \in S : b.entry[n].root # NoRoot) <=> S \subseteq Book!Rooted(b))
  BY DEF Book!Names, Book!Rooted, Known
<1>1. ASSUME NEW n \in Name, Registers(Shown, Shown', n) PROVE Book!Put(n)
  BY <1>0, <1>5, <1>1 DEF Registers, SameOutside, Book!Put, Book!OnlyChanges
<1>2. ASSUME NEW S \in SUBSET Known(Shown), Forgets(Shown, Shown', S) PROVE Book!Forget(S)
  <2>1. S \subseteq Known(Shown)
    OBVIOUS
  <2>2. Cardinality(S) = 1 \/ S \subseteq Book!Rooted(Shown)
    BY <1>5, <1>2, <2>1 DEF Forgets
  <2>3. SameOutside(Shown, Shown', S) /\ S \cap Book!Names(Shown') = {}
    BY <1>5, <1>2 DEF Forgets
  <2>4. \/ Shown'.default = Shown.default
        \/ /\ Shown.default \in S
           /\ \/ Shown'.default \in Book!Names(Shown')
              \/ Shown'.default = NoName /\ Book!Names(Shown') = {}
    BY <1>5, <1>2 DEF Forgets
  <2>5. Book!OnlyChanges(S)
    BY <1>0, <2>3 DEF SameOutside, Book!OnlyChanges
  <2>. QED  BY <1>0, <2>2, <2>3, <2>4, <2>5, SameCardinality DEF Book!Forget
<1>3. ASSUME NEW n \in Known(Shown), NEW m \in Name, Renames(Shown, Shown', n, m)
      PROVE  Book!Rename(n, m)
  BY <1>0, <1>5, <1>3 DEF Renames, SameOutside, Book!Rename, Book!OnlyChanges
<1>4. ASSUME Chooses(Shown, Shown') PROVE Book!ChooseDefault
  BY <1>0, <1>5, <1>4 DEF Chooses, Book!ChooseDefault
<1>. QED  BY <1>0, <1>5, <1>1, <1>2, <1>3, <1>4 DEF Promised, Book!Next

(* As long as commands neither overlap nor are killed, contexts.toml is    *)
(* the book of contexts: through prunes, several loads and saves of one    *)
(* command and every failure of the watcher's commands, each command       *)
(* changes the contexts it is about, and the default only with them.       *)
THEOREM LoneCommandsKeepIt == Spec => LoneCommandsKeepTheBook
<1>1. Init => Book!Init
  <2>1. ASSUME Init PROVE Book!Init
    <3>1. Good(saved) /\ raced = FALSE /\ \A p \in Cli : pc[p] # "fill"
      BY <2>1, InitIInv DEF Init, IInv
    <3>. QED  BY <3>1 DEF Book!Init, Book!Names, Good, Sound, Known
  <2>. QED  BY <2>1
<1>2. LInv /\ [Next]_vars => [Book!Next]_<<Shown, raced>>
  <2>1. CASE raced'
    BY <2>1 DEF Book!Next
  <2>2. CASE ~ raced'
    <3>1. ASSUME LInv, [Next]_vars PROVE Book!Next \/ UNCHANGED <<Shown, raced>>
      <4>1. raced' = raced
        BY <2>2, <3>1, NextAlone, NextIInv DEF LInv, IInv, WorldOK
      <4>. QED  BY <2>2, <3>1, <4>1, ShownStep, PromisedIsBooked
    <3>. QED  BY <3>1
  <2>. QED  BY <2>1, <2>2
<1>. QED  BY <1>1, <1>2, LInvInvariant, PTL DEF Shown, Spec, LoneCommandsKeepTheBook, Book!Spec
-----------------------------------------------------------------------------
(* What a removal and a cleanup may do to the world *)

(* Where an invocation is when it takes a step of one of the groups *)
LEMMA Places ==
    ASSUME NEW p \in Cli
    PROVE  /\ Watching(p) => pc[p] \in {"pruned", "removed", "handle", "install"}
           /\ Changing(p) => pc[p] \in {"work", "default", "rename"}
           /\ Removing(p) => pc[p] \in {"work", "stop", "erase"}
           /\ Using(p) => pc[p] \in {"work", "up", "reach"}
<1>1. ASSUME Watching(p) PROVE pc[p] \in {"pruned", "removed", "handle", "install"}
  <2>1. CASE CleanupWatcher(p)
    BY <2>1 DEF CleanupWatcher, Works
  <2>2. CASE HandleWatcher(p)
    BY <2>2 DEF HandleWatcher, Works
  <2>3. CASE WatcherCommandsFail(p)
    BY <2>3 DEF WatcherCommandsFail, Works
  <2>4. CASE InstallWatcher(p)
    BY <2>4 DEF InstallWatcher, Works
  <2>. QED  BY <1>1, <2>1, <2>2, <2>3, <2>4 DEF Watching
<1>2. ASSUME Changing(p) PROVE pc[p] \in {"work", "default", "rename"}
  <2>1. CASE Add(p)
    BY <2>1 DEF Add, Works
  <2>2. CASE AddWithoutProject(p)
    BY <2>2 DEF AddWithoutProject, Works
  <2>3. CASE InitContext(p)
    BY <2>3 DEF InitContext, Works
  <2>4. CASE SetDefaultOfInit(p)
    BY <2>4 DEF SetDefaultOfInit, Works
  <2>5. CASE SetDefault(p)
    BY <2>5 DEF SetDefault, Works
  <2>6. CASE ClearDefault(p)
    BY <2>6 DEF ClearDefault, Works
  <2>7. CASE Rename(p)
    BY <2>7 DEF Rename, Works
  <2>8. CASE RenameWithProject(p)
    BY <2>8 DEF RenameWithProject, Works
  <2>9. CASE WriteProjectName(p)
    BY <2>9 DEF WriteProjectName, Works
  <2>10. CASE RenameForProject(p)
    BY <2>10 DEF RenameForProject, Works
  <2>11. CASE Convert(p)
    BY <2>11 DEF Convert, Works
  <2>12. CASE ChangeStorage(p)
    BY <2>12 DEF ChangeStorage, Works
  <2>13. CASE MoveRoot(p)
    BY <2>13 DEF MoveRoot, Works
  <2>. QED  BY <1>2, <2>1, <2>2, <2>3, <2>4, <2>5, <2>6, <2>7, <2>8, <2>9, <2>10, <2>11, <2>12, <2>13 DEF Changing
<1>3. ASSUME Removing(p) PROVE pc[p] \in {"work", "stop", "erase"}
  <2>1. CASE LoadForRemoval(p)
    BY <2>1 DEF LoadForRemoval, Works
  <2>2. CASE RemoteCleanupFails(p)
    BY <2>2 DEF RemoteCleanupFails, Works
  <2>3. CASE StopRuntime(p)
    BY <2>3 DEF StopRuntime, Works
  <2>4. CASE EraseRoot(p)
    BY <2>4 DEF EraseRoot, Works
  <2>. QED  BY <1>3, <2>1, <2>2, <2>3, <2>4 DEF Removing
<1>4. ASSUME Using(p) PROVE pc[p] \in {"work", "up", "reach"}
  <2>1. CASE Reconcile(p)
    BY <2>1 DEF Reconcile, Works
  <2>2. CASE Up(p)
    BY <2>2 DEF Up, Works
  <2>3. CASE Refresh(p)
    BY <2>3 DEF Refresh, Works
  <2>4. CASE RemoteAnswers(p)
    BY <2>4 DEF RemoteAnswers, Works
  <2>5. CASE DropStale(p)
    BY <2>5 DEF DropStale, Works
  <2>. QED  BY <1>4, <2>1, <2>2, <2>3, <2>4, <2>5 DEF Using
<1>. QED  BY <1>1, <1>2, <1>3, <1>4

LEMMA SharedIsSpared ==
    ASSUME LInv, [Next]_vars, NEW p \in Cli, ~ raced, pc[p] \in {"stop", "erase"},
           NEW n \in Known(saved) \ {cmd[p].name}, NEW r \in Root,
           saved.entry[n].root = r, saved.entry[cmd[p].name].root = r
    PROVE  /\ project'[r] = Gone => project[r] = Gone \/ events' # events
           /\ r \in running => r \in running'
<1>0. IInv /\ Alone /\ Stage(p)
  BY DEF LInv, Alone
<1>1. /\ reg[p] = saved /\ cmd[p].name \in Known(saved)
      /\ shared[p] = Shared(saved, cmd[p].name)
  BY <1>0 DEF Stage
<1>2. shared[p]
  BY <1>1, RootAssumption DEF Shared
<1>3. \A q \in Cli : pc[q] # "idle" => q = p
  BY <1>0 DEF Alone, OneRuns
<1>4. CASE StopRuntime(p)
  BY <1>2, <1>4 DEF StopRuntime
<1>5. CASE EraseRoot(p)
  BY <1>2, <1>5 DEF EraseRoot
<1>6. CASE RemoteCleanupFails(p)
  BY <1>6 DEF RemoteCleanupFails, outside
<1>7. ASSUME NEW q \in Cli, NEW c \in Command, Start(q, c)
      PROVE  project' = project /\ running' = running
  BY <1>7 DEF Start, outside
<1>8. ASSUME NEW q \in Cli, Killed(q) PROVE project' = project /\ running' = running
  BY <1>8 DEF Killed, outside
<1>9. ASSUME NEW s \in Root, ChangeFolder(s) PROVE events' # events /\ running' = running
  <2>1. events \in Nat
    BY <1>0 DEF IInv, WorldOK
  <2>. QED  BY <1>9, <2>1 DEF ChangeFolder
<1>10. CASE UNCHANGED vars
  BY <1>10 DEF vars, outside
<1>11. ASSUME NEW q \in Cli,
              Prune(q) \/ DropMissing(q) \/ UnknownContext(q) \/ Saving(q) \/ Watching(q)
                \/ Changing(q) \/ Using(q) \/ LoadForRemoval(q)
       PROVE  FALSE
  <2>1. pc[q] \notin {"idle", "stop", "erase"}
    <3>1. CASE Watching(q) \/ Changing(q) \/ Using(q)
      BY <3>1, Places
    <3>2. CASE Prune(q) \/ DropMissing(q) \/ UnknownContext(q) \/ Saving(q) \/ LoadForRemoval(q)
      BY <3>2 DEF Prune, DropMissing, UnknownContext, Saving, Truncate, Fill, LoadForRemoval, Works
    <3>. QED  BY <1>11, <3>1, <3>2
  <2>2. q = p
    BY <1>3, <2>1
  <2>. QED  BY <2>1, <2>2
<1>12. ASSUME NEW q \in Cli, StopRuntime(q) \/ EraseRoot(q) \/ RemoteCleanupFails(q)
       PROVE  q = p
  BY <1>3, <1>12 DEF StopRuntime, EraseRoot, RemoteCleanupFails
<1>. QED  BY <1>4, <1>5, <1>6, <1>7, <1>8, <1>9, <1>10, <1>11, <1>12 DEF Next, Removing

(* docs/operations.md:111: while a context is removed, the folder of another  *)
(* one that stays registered is not deleted and its runtime is not stopped,   *)
(* whoever prunes, renames or moves contexts before and after.                *)
THEOREM RemovalSparesShared == Spec => LoneRemovalSparesShared
<1>1. LInv /\ [Next]_vars =>
        [\A p \in Cli : ~raced /\ pc[p] \in {"stop", "erase"} =>
           \A n \in Known(saved) \ {cmd[p].name}, r \in Root :
              saved.entry[n].root = r /\ saved.entry[cmd[p].name].root = r =>
                 /\ project'[r] = Gone => project[r] = Gone \/ events' # events
                 /\ r \in running => r \in running']_vars
  BY SharedIsSpared
<1>. QED  BY <1>1, LInvInvariant, PTL DEF Spec, LoneRemovalSparesShared

(* docs/operations.md:318: the removal of the last context that is synced   *)
(* uninstalls the watcher, and no other does, as the registry that has been *)
(* saved says, not as it was when the command began.                        *)
THEOREM CleanupIsDue == Spec => LoneCleanupIsDue
<1>1. ASSUME LInv, [Next]_vars, NEW p \in Cli, ~ raced, pc[p] \in {"pruned", "removed"},
             pc'[p] \in {"idle", "work"}, faults' = faults
      PROVE  watcher' = (watcher /\ HasSync(saved))
  <2>0. /\ IInv /\ Functions /\ Alone /\ reg[p] = saved /\ pc'[p] # pc[p]
        /\ \A q \in Cli : pc[q] # "idle" => q = p
        /\ faults \in Nat
    BY <1>1 DEF LInv, Alone, Stage, OneRuns, IInv, WorldOK
  <2>1. ASSUME NEW q \in Cli, q # p,
               (\E c \in Command : Start(q, c)) \/ Prune(q) \/ DropMissing(q) \/ UnknownContext(q)
                 \/ Saving(q) \/ Watching(q) \/ Changing(q) \/ Removing(q) \/ Using(q) \/ Killed(q)
        PROVE  FALSE
    <3>1. CASE \E c \in Command : Start(q, c)
      BY <1>1, <2>0, <2>1, <3>1 DEF Start, Goto, Functions
    <3>2. CASE Watching(q) \/ Changing(q) \/ Removing(q) \/ Using(q)
      BY <2>0, <2>1, <3>2, OwnSteps
    <3>3. CASE Prune(q) \/ DropMissing(q) \/ UnknownContext(q) \/ Saving(q) \/ Killed(q)
      BY <2>0, <2>1, <3>3 DEF Prune, DropMissing, UnknownContext, Saving, Truncate, Fill, Killed
    <3>. QED  BY <2>1, <3>1, <3>2, <3>3
  <2>2. ASSUME (\E c \in Command : Start(p, c)) \/ Prune(p) \/ DropMissing(p) \/ UnknownContext(p)
                 \/ Saving(p) \/ Changing(p) \/ Removing(p) \/ Using(p)
        PROVE  FALSE
    <3>1. CASE Changing(p) \/ Removing(p) \/ Using(p)
      BY <1>1, <3>1, Places
    <3>2. CASE \E c \in Command : Start(p, c)
      BY <1>1, <3>2 DEF Start
    <3>3. CASE Prune(p) \/ DropMissing(p) \/ UnknownContext(p) \/ Saving(p)
      BY <1>1, <3>3 DEF Prune, DropMissing, UnknownContext, Saving, Truncate, Fill
    <3>. QED  BY <2>2, <3>1, <3>2, <3>3
  <2>3. ASSUME Killed(p) \/ WatcherCommandsFail(p) PROVE FALSE
    BY <1>1, <2>0, <2>3 DEF Killed, WatcherCommandsFail
  <2>4. CASE CleanupWatcher(p)
    BY <2>0, <2>4 DEF CleanupWatcher
  <2>5. ASSUME HandleWatcher(p) \/ InstallWatcher(p) PROVE FALSE
    BY <1>1, <2>5 DEF HandleWatcher, InstallWatcher
  <2>6. ASSUME NEW r \in Root, ChangeFolder(r) PROVE FALSE
    BY <2>0, <2>6 DEF ChangeFolder, locals
  <2>7. ASSUME UNCHANGED vars PROVE FALSE
    BY <2>0, <2>7 DEF vars, locals
  <2>8. CASE \E q \in Cli :
               \/ \E c \in Command : Start(q, c)
               \/ Prune(q) \/ DropMissing(q) \/ UnknownContext(q)
               \/ Saving(q) \/ Watching(q) \/ Changing(q) \/ Removing(q) \/ Using(q)
               \/ Killed(q)
    BY <2>1, <2>2, <2>3, <2>4, <2>5, <2>8 DEF Watching
  <2>. QED  BY <1>1, <2>6, <2>7, <2>8 DEF Next
<1>2. LInv /\ [Next]_vars =>
        [\A p \in Cli :
           ~raced /\ pc[p] \in {"pruned", "removed"} /\ pc'[p] \in {"idle", "work"}
             /\ faults' = faults =>
                watcher' = (watcher /\ HasSync(saved))]_vars
  BY <1>1
<1>. QED  BY <1>2, LInvInvariant, PTL DEF Spec, LoneCleanupIsDue
=============================================================================
