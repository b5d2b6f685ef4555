---------------------------- MODULE RuntimeProofs ----------------------------
(***************************************************************************)
(* Theorems about Runtime.  The first three hold for any number of         *)
(* refreshes beside the loop: types, and what a pass that overlaps no      *)
(* other one makes of whatever overlapping passes have left.  The others   *)
(* are about a container in which the entrypoint's own refresh and the     *)
(* loop are the only passes.                                               *)
(***************************************************************************)
EXTENDS Runtime, TLAPS

UserCommands == Commands \ {"missing"}

(* Inside the loop of apply_once there is a current user. *)
LoopPosition ==
    \A p \in Process : pc[p] \in UserCommands => at[p] \in DOMAIN users[p].users

TypeInv == TypeOK /\ LoopPosition

-----------------------------------------------------------------------------
(* Facts about the data *)

(* A content operators can store lists users and defines each of them. *)
LEMMA ContentFacts ==
    ASSUME NEW c \in Content \cup {EmptyContent}
    PROVE  /\ DOMAIN c.users = 1 .. Len(c.users) /\ Len(c.users) \in Nat
           /\ \A i \in DOMAIN c.users : c.users[i] \in User
           /\ \A i, j \in DOMAIN c.users : c.users[i] = c.users[j] => i = j
           /\ Names(c) \subseteq User
           /\ \A u \in Names(c) : c.spec[u] \in UserSpec
<1>1. CASE c \in Content
  <2>1. c.users \in Seq(User) /\ c.spec \in [Names(c) -> UserSpec]
    BY <1>1, ContentAssumption DEF WellFormed
  <2>2. \A i, j \in DOMAIN c.users : c.users[i] = c.users[j] => i = j
    BY <1>1, ContentAssumption DEF WellFormed
  <2>. QED  BY <2>1, <2>2 DEF Names
<1>2. CASE c = EmptyContent
  <2>1. c.users = <<>>
    BY <1>2 DEF EmptyContent
  <2>. QED  BY <2>1 DEF Names
<1>. QED  BY <1>1, <1>2

(* A UID that allocate_users returns is a positive number. *)
LEMMA ResolvedUidPositive ==
    ASSUME NEW c \in Content \cup {EmptyContent}, NEW su \in [User -> Nat],
           AllocationSucceeds(c, su), NEW u \in Names(c)
    PROVE  ResolvedUid(c, su, u) \in Nat \ {0}
<1>1. u \in User /\ c.spec[u] \in UserSpec
  BY ContentFacts
<1>2. CASE FixedUid(c, su, u) # 0
  BY <1>1, <1>2 DEF FixedUid, ResolvedUid, UserSpec
<1>3. CASE FixedUid(c, su, u) = 0
  <2>1. IdRemains(c, su, u)
    BY <1>3 DEF AllocationSucceeds
  <2>2. NewUid(c, su, u) \in FreeIds(c, su)
    BY <2>1 DEF IdRemains, NewUid
  <2>3. NewUid(c, su, u) \in FirstId .. LastId
    BY <2>2 DEF FreeIds
  <2>. QED  BY <2>3, <1>3, IdAssumption DEF ResolvedUid
<1>. QED  BY <1>2, <1>3

(* A GID that allocate_users returns is a number. *)
LEMMA ResolvedGidNat ==
    ASSUME NEW c \in Content \cup {EmptyContent}, NEW su \in [User -> Nat],
           NEW sg \in [User -> Nat], AllocationSucceeds(c, su), NEW u \in Names(c)
    PROVE  ResolvedGid(c, su, sg, u) \in Nat
<1>1. u \in User /\ c.spec[u] \in UserSpec
  BY ContentFacts
<1>. QED  BY <1>1, ResolvedUidPositive DEF ResolvedGid, UserSpec

(* The loop records an entry in a RuntimeState. *)
LEMMA RecordedType ==
    ASSUME NEW s \in SavedState, NEW u \in User, NEW i \in Nat, NEW g \in Nat,
           NEW d \in BOOLEAN
    PROVE  Recorded(s, u, i, g, d) \in SavedState
BY DEF Recorded, SavedState

(* Saving the fingerprint of a content in a RuntimeState. *)
LEMMA FingerprintType ==
    ASSUME NEW s \in SavedState, NEW c \in Content \cup {EmptyContent}
    PROVE  [s EXCEPT !.fingerprint = Fingerprint(c)] \in SavedState
BY DEF SavedState

LEMMA EmptyStateType == EmptyState \in SavedState
BY DEF EmptyState, SavedState, NoIds

-----------------------------------------------------------------------------
(* Type correctness *)

(* What ending a pass does to pc and to the locals keeps their types. *)
LEMMA EndOfPass ==
    ASSUME TypeInv, NEW p \in Process, Dies(p) \/ Returns(p)
    PROVE  /\ up' \in BOOLEAN
           /\ pc' \in [Process -> InPass \cup {"off", "sleep"}]
           /\ users' \in [Process -> Content \cup {EmptyContent}]
           /\ state' \in [Process -> SavedState]
           /\ planUid' \in [Process -> [User -> Nat]]
           /\ planGid' \in [Process -> [User -> Nat]]
           /\ at' \in [Process -> Nat]
           /\ missing' \in [Process -> SUBSET User]
           /\ Dies(p) => opened' \in [Process -> {"none", "tmp", "state", "gone"}]
           /\ LoopPosition'
<1>. USE EmptyStateType DEF NoIds
<1>. Boot \in Process /\ Sync \in Process
  BY DEF Process
<1>1. CASE Dies(p) /\ p = Boot
  <2>1. up' = FALSE /\ pc' = [q \in Process |-> "off"] /\ ForgetAll
    BY <1>1 DEF Dies
  <2>. QED  BY <2>1 DEF ForgetAll, LoopPosition, UserCommands, Commands
<1>2. CASE Dies(p) /\ p # Boot
  <2>1. /\ pc' = [pc EXCEPT ![p] = "off"] /\ Forget(p) /\ UNCHANGED up
        /\ opened' = [opened EXCEPT ![p] = "none"]
    BY <1>2 DEF Dies, Goto
  <2>. QED  BY <2>1 DEF Forget, TypeInv, TypeOK, LoopPosition, UserCommands, Commands
<1>3. CASE Returns(p) /\ ~Dies(p)
  <2>1. Forget(p) /\ UNCHANGED up
    BY <1>3 DEF Returns
  <2>2. /\ pc' \in [Process -> InPass \cup {"off", "sleep"}]
        /\ \A q \in Process : pc'[q] \in UserCommands => q # p /\ pc'[q] = pc[q]
    BY <1>3 DEF Returns, TypeInv, TypeOK, InPass, Working, UserCommands, Commands, Boot, Sync
  <2>. QED  BY <1>3, <2>1, <2>2 DEF Forget, TypeInv, TypeOK, LoopPosition
<1>. QED  BY <1>1, <1>2, <1>3

LEMMA TypeInit == Init => TypeInv
<1>. SUFFICES ASSUME Init PROVE TypeInv
  OBVIOUS
<1>1. upload \in [User -> Nat \X Nat] /\ shadow \in [User -> Hash \cup {Locked, NoPassword}]
  BY DEF Init
<1>2. passwdUid \in [User -> Nat] /\ groupGid \in [User -> Nat] /\ authKeys \in [User -> SUBSET Key]
  BY DEF Init, NoIds
<1>3. /\ pc \in [Process -> InPass \cup {"off", "sleep"}]
      /\ users \in [Process -> Content \cup {EmptyContent}]
      /\ state \in [Process -> SavedState]
      /\ at \in [Process -> Nat]
      /\ missing \in [Process -> SUBSET User]
      /\ opened \in [Process -> {"none", "tmp", "state", "gone"}]
  BY EmptyStateType DEF Init
<1>4. planUid \in [Process -> [User -> Nat]] /\ planGid \in [Process -> [User -> Nat]]
  BY DEF Init, NoIds
<1>5. LoopPosition
  BY DEF Init, LoopPosition, UserCommands, Commands
<1>. QED  BY <1>1, <1>2, <1>3, <1>4, <1>5, EmptyStateType DEF Init, TypeInv, TypeOK

LEMMA TypeStep == TypeInv /\ [Next]_vars => TypeInv'
<1>. SUFFICES ASSUME TypeInv, [Next]_vars PROVE TypeInv'
  OBVIOUS
<1>. USE DEF TypeInv, TypeOK
<1>0. \A p \in Process : users[p] \in Content \cup {EmptyContent} /\ state[p] \in SavedState
  OBVIOUS
<1>1. ASSUME NEW p \in Process, LoadUsers(p) PROVE TypeInv'
  BY <1>1 DEF LoadUsers, Goto, outside, volumes, system, LoopPosition, InPass, Working, Saving, Commands, UserCommands
<1>2. ASSUME NEW p \in Process, LoadState(p) PROVE TypeInv'
  BY <1>2 DEF LoadState, Whole, Goto, outside, volumes, system, LoopPosition, InPass, Working, Saving, Commands, UserCommands
<1>3. ASSUME NEW p \in Process, Reject(p) \/ LoadFails(p) PROVE TypeInv'
  BY <1>3, EndOfPass DEF Reject, LoadFails, outside, volumes, system
<1>4. ASSUME NEW p \in Process, NothingToDo(p) PROVE TypeInv'
  <2>1. [state[p] EXCEPT !.fingerprint = Fingerprint(users[p])] \in SavedState
    BY <1>0, FingerprintType
  <2>. QED  BY <1>4, <2>1 DEF NothingToDo, Goto, outside, volumes, system, LoopPosition, InPass, Working, Saving, Commands, UserCommands
<1>5. ASSUME NEW p \in Process, StartApplying(p) PROVE TypeInv'
  <2>1. planUid' \in [Process -> [User -> Nat]]
    BY <1>0, <1>5, ResolvedUidPositive DEF StartApplying, Accepted, SavedState
  <2>2. planGid' \in [Process -> [User -> Nat]]
    BY <1>0, <1>5, ResolvedGidNat DEF StartApplying, Accepted, SavedState
  <2>3. missing' \in [Process -> SUBSET User] /\ at' \in [Process -> Nat]
    BY <1>5 DEF StartApplying, MissingUsers
  <2>4. LoopLabel(p, 1) \in {"group", "missing"}
    BY DEF LoopLabel
  <2>5. LoopPosition'
    BY <1>5 DEF StartApplying, Goto, LoopLabel, LoopPosition, UserCommands, Commands
  <2>. QED  BY <1>5, <2>1, <2>2, <2>3, <2>4, <2>5 DEF StartApplying, Goto, outside, volumes, system, InPass, Working, Saving, Commands
<1>6. ASSUME NEW p \in Process, pc[p] \in UserCommands
      PROVE  /\ Current(p) \in User
             /\ CurrentSpec(p) \in UserSpec
  <2>1. at[p] \in DOMAIN users[p].users
    BY <1>6 DEF LoopPosition
  <2>. QED  BY <1>0, <2>1, ContentFacts DEF Current, CurrentSpec, Names
<1>7. ASSUME NEW p \in Process, EnsureGroup(p) PROVE TypeInv'
  <2>1. pc[p] \in UserCommands
    BY <1>7 DEF EnsureGroup, UserCommands, Commands
  <2>2. CASE Dies(p) /\ UNCHANGED groupGid
    BY <1>7, <2>2, EndOfPass DEF EnsureGroup, outside, volumes
  <2>3. CASE ~(Dies(p) /\ UNCHANGED groupGid)
    <3>1. /\ groupGid' = [groupGid EXCEPT ![Current(p)] =
                 IF groupGid[Current(p)] # 0 THEN groupGid[Current(p)] ELSE planGid[p][Current(p)]]
          /\ Goto(p, "account") /\ UNCHANGED <<up, locals>>
          /\ UNCHANGED <<outside, volumes, passwdUid, shadow, authKeys>>
      BY <1>7, <2>3 DEF EnsureGroup
    <3>2. LoopPosition'
      BY <1>7, <3>1 DEF EnsureGroup, Goto, locals, LoopPosition, UserCommands, Commands
    <3>. QED  BY <3>1, <3>2, <2>1, <1>6 DEF Goto, locals, outside, volumes, InPass, Working, Saving, Commands
  <2>. QED  BY <2>2, <2>3
<1>8. ASSUME NEW p \in Process, EnsureAccount(p) PROVE TypeInv'
  <2>1. pc[p] \in UserCommands
    BY <1>8 DEF EnsureAccount, UserCommands, Commands
  <2>2. CASE Dies(p) /\ UNCHANGED <<passwdUid, shadow>>
    BY <1>8, <2>2, EndOfPass DEF EnsureAccount, outside, volumes
  <2>3. CASE ~(Dies(p) /\ UNCHANGED <<passwdUid, shadow>>)
    <3>1. /\ passwdUid' = [passwdUid EXCEPT ![Current(p)] = planUid[p][Current(p)]]
          /\ shadow' = [shadow EXCEPT ![Current(p)] =
                          IF passwdUid[Current(p)] = 0 THEN Locked ELSE @]
          /\ Goto(p, "password") /\ UNCHANGED <<up, locals>>
          /\ UNCHANGED <<outside, volumes, groupGid, authKeys>>
      BY <1>8, <2>3 DEF EnsureAccount
    <3>2. LoopPosition'
      BY <1>8, <3>1 DEF EnsureAccount, Goto, locals, LoopPosition, UserCommands, Commands
    <3>. QED  BY <3>1, <3>2, <2>1, <1>6 DEF Goto, locals, outside, volumes, InPass, Working, Saving, Commands
  <2>. QED  BY <2>2, <2>3
<1>9. ASSUME NEW p \in Process, SetPassword(p) PROVE TypeInv'
  <2>1. pc[p] \in UserCommands
    BY <1>9 DEF SetPassword, UserCommands, Commands
  <2>2. LoopPosition'
    BY <1>9 DEF SetPassword, Goto, locals, LoopPosition, UserCommands, Commands
  <2>3. CurrentSpec(p).hash \in Hash \cup {NoHash}
    BY <2>1, <1>6 DEF UserSpec
  <2>. QED  BY <1>9, <2>2, <2>3 DEF SetPassword, Goto, locals, outside, volumes, InPass, Working, Saving, Commands
<1>10. ASSUME NEW p \in Process, SetLock(p) PROVE TypeInv'
  <2>1. LoopPosition'
    BY <1>10 DEF SetLock, Goto, locals, LoopPosition, UserCommands, Commands
  <2>. QED  BY <1>10, <2>1 DEF SetLock, Goto, locals, outside, volumes, InPass, Working, Saving, Commands
<1>11. ASSUME NEW p \in Process, EnsureDirectories(p) PROVE TypeInv'
  <2>1. pc[p] \in UserCommands
    BY <1>11 DEF EnsureDirectories, UserCommands, Commands
  <2>2. LoopPosition'
    BY <1>11 DEF EnsureDirectories, Goto, locals, LoopPosition, UserCommands, Commands
  <2>3. <<planUid[p][Current(p)], planGid[p][Current(p)]>> \in Nat \X Nat
    BY <2>1, <1>6
  <2>4. upload' \in [User -> Nat \X Nat]
    BY <1>11, <2>3 DEF EnsureDirectories
  <2>. QED  BY <1>11, <2>2, <2>4 DEF EnsureDirectories, Goto, locals, outside, system, InPass, Working, Saving, Commands
<1>12. ASSUME NEW p \in Process, WriteAuthorizedKeys(p) PROVE TypeInv'
  <2>1. pc[p] \in UserCommands
    BY <1>12 DEF WriteAuthorizedKeys, UserCommands, Commands
  <2>2. LoopPosition'
    BY <1>12 DEF WriteAuthorizedKeys, Goto, LoopLabel, LoopPosition, UserCommands, Commands
  <2>3. ActiveKeys(users[p], Current(p), now) \subseteq Key
    BY <2>1, <1>6 DEF ActiveKeys, UserSpec, CurrentSpec
  <2>4. Recorded(state[p], Current(p), planUid[p][Current(p)], planGid[p][Current(p)],
                 CurrentSpec(p).disabled) \in SavedState
    BY <2>1, <1>0, <1>6, RecordedType DEF UserSpec
  <2>5. LoopLabel(p, at[p] + 1) \in {"group", "missing"}
    BY DEF LoopLabel
  <2>6. authKeys' \in [User -> SUBSET Key] /\ state' \in [Process -> SavedState]
    BY <1>12, <2>3, <2>4 DEF WriteAuthorizedKeys
  <2>. QED  BY <1>12, <2>2, <2>5, <2>6 DEF WriteAuthorizedKeys, Goto, outside, volumes, InPass, Working, Saving, Commands
<1>13. ASSUME NEW p \in Process, DisableMissing(p) PROVE TypeInv'
  <2>1. PICK u \in missing[p] :
         /\ missing' = [missing EXCEPT ![p] = @ \ {u}]
         /\ IF passwdUid[u] # 0
            THEN /\ shadow' = [shadow EXCEPT ![u] = Locked]
                 /\ state' = [state EXCEPT ![p] =
                                Recorded(@, u, @.uid[u], @.gid[u], TRUE)]
            ELSE UNCHANGED <<shadow, state>>
    BY <1>13 DEF DisableMissing
  <2>2. u \in User
    OBVIOUS
  <2>3. Recorded(state[p], u, state[p].uid[u], state[p].gid[u], TRUE) \in SavedState
    <3>1. state[p].uid[u] \in Nat /\ state[p].gid[u] \in Nat
      BY <1>0, <2>2 DEF SavedState
    <3>. QED  BY <1>0, <2>2, <3>1, RecordedType
  <2>4. state' \in [Process -> SavedState] /\ shadow' \in [User -> Hash \cup {Locked, NoPassword}]
    BY <2>1, <2>3
  <2>5. LoopPosition'
    BY <1>13 DEF DisableMissing, LoopPosition
  <2>. QED  BY <1>13, <2>1, <2>4, <2>5 DEF DisableMissing, outside, volumes
<1>14. ASSUME NEW p \in Process, FinishApplying(p) PROVE TypeInv'
  <2>1. [state[p] EXCEPT !.fingerprint = Fingerprint(users[p])] \in SavedState
    BY <1>0, FingerprintType
  <2>. QED  BY <1>14, <2>1 DEF FinishApplying, Goto, outside, volumes, system, LoopPosition, InPass, Working, Saving, Commands, UserCommands
<1>15. ASSUME NEW p \in Process, OpenTmp(p) \/ FillTmp(p) PROVE TypeInv'
  <2>1. CASE OpenTmp(p)
    BY <2>1 DEF OpenTmp, Goto, outside, system, LoopPosition, InPass, Working, Saving, Commands, UserCommands
  <2>2. CASE FillTmp(p)
    <3>1. /\ UNCHANGED <<outside, upload, up, system, users, state, planUid, planGid, at, missing>>
          /\ opened' = [opened EXCEPT ![p] = "none"] /\ pc[p] = "fill" /\ Goto(p, "replace")
      BY <2>2 DEF FillTmp
    <3>2. ASSUME NEW file PROVE Overwritten(file, state[p]) \subseteq SavedState \cup {Blank, Torn}
      BY <1>0 DEF Overwritten
    <3>3. /\ stateFile' \in SavedState \cup {Blank, Torn}
          /\ tmpFile' \subseteq SavedState \cup {Blank, Torn}
      BY <2>2, <3>2 DEF FillTmp
    <3>4. LoopPosition'
      BY <3>1 DEF Goto, LoopPosition, Commands, UserCommands
    <3>. QED  BY <3>1, <3>3, <3>4 DEF Goto, outside, system, InPass, Working, Saving, Commands
  <2>. QED  BY <1>15, <2>1, <2>2
<1>16. ASSUME NEW p \in Process, ReplaceState(p) PROVE TypeInv'
  <2>1. opened' \in [Process -> {"none", "tmp", "state", "gone"}]
    BY <1>16 DEF ReplaceState, Renamed
  <2>2. stateFile' \in SavedState \cup {Blank, Torn} /\ tmpFile' = {}
    BY <1>16 DEF ReplaceState
  <2>3. Returns(p) /\ UNCHANGED <<outside, upload, system>>
    BY <1>16 DEF ReplaceState
  <2>. QED  BY <2>1, <2>2, <2>3, EndOfPass DEF outside, system
<1>17. ASSUME NEW p \in Process, ReplaceFails(p) PROVE TypeInv'
  BY <1>17, EndOfPass DEF ReplaceFails, outside, volumes, system
<1>18. ASSUME NEW p \in Process, PassFails(p) PROVE TypeInv'
  BY <1>18, EndOfPass DEF PassFails, volumes, system
<1>19. ASSUME NEW p \in Process, StartRefresh(p) PROVE TypeInv'
  BY <1>19 DEF StartRefresh, Goto, locals, outside, volumes, system, LoopPosition, InPass, Working, Saving, Commands, UserCommands
<1>20. ASSUME WakeUp PROVE TypeInv'
  BY <1>20 DEF WakeUp, Goto, locals, outside, volumes, system, LoopPosition, InPass, Working, Saving, Commands, UserCommands
<1>21. ASSUME StartContainer PROVE TypeInv'
  BY <1>21 DEF StartContainer, Goto, locals, outside, volumes, system, LoopPosition, InPass, Working, Saving, Commands, UserCommands
<1>22. ASSUME StopContainer PROVE TypeInv'
  <2>1. ForgetAll /\ pc' = [p \in Process |-> "off"] /\ up' = FALSE
    BY <1>22 DEF StopContainer
  <2>2. LoopPosition'
    BY <2>1 DEF LoopPosition, UserCommands, Commands
  <2>3. users' \in [Process -> Content \cup {EmptyContent}] /\ state' \in [Process -> SavedState]
    BY <2>1, EmptyStateType DEF ForgetAll
  <2>4. planUid' \in [Process -> [User -> Nat]] /\ planGid' \in [Process -> [User -> Nat]]
    BY <2>1 DEF ForgetAll, NoIds
  <2>5. /\ at' \in [Process -> Nat] /\ missing' \in [Process -> SUBSET User]
        /\ opened' \in [Process -> {"none", "tmp", "state", "gone"}]
    BY <2>1 DEF ForgetAll
  <2>6. pc' \in [Process -> InPass \cup {"off", "sleep"}] /\ up' \in BOOLEAN
    BY <2>1
  <2>7. /\ faults' = faults + 1
        /\ UNCHANGED <<provider, now, edits, alone, stateFile, tmpFile, upload,
                       passwdUid, groupGid, shadow, authKeys>>
    BY <1>22 DEF StopContainer, volumes, system
  <2>. QED  BY <2>2, <2>3, <2>4, <2>5, <2>6, <2>7
<1>23. ASSUME RecreateContainer PROVE TypeInv'
  BY <1>23 DEF RecreateContainer, NoIds, locals, volumes, LoopPosition
<1>24. ASSUME EditProvider PROVE TypeInv'
  BY <1>24 DEF EditProvider, locals, volumes, system, LoopPosition
<1>25. ASSUME Tick PROVE TypeInv'
  BY <1>25 DEF Tick, locals, volumes, system, LoopPosition
<1>26. ASSUME UNCHANGED vars PROVE TypeInv'
  BY <1>26 DEF vars, locals, outside, volumes, system, LoopPosition
<1>. QED
  BY <1>1, <1>2, <1>3, <1>4, <1>5, <1>7, <1>8, <1>9, <1>10, <1>11, <1>12, <1>13,
     <1>14, <1>15, <1>16, <1>17, <1>18, <1>19, <1>20, <1>21, <1>22, <1>23, <1>24,
     <1>25, <1>26 DEF Next, Step

(* Every variable of Runtime keeps its type, whatever the contents, the    *)
(* users, the refreshes and the bounds: in particular a pass never resolves *)
(* an identity, a password field or a key set outside its domain.          *)
THEOREM TypeCorrect == Spec => []TypeOK
<1>1. TypeInv => TypeOK
  BY DEF TypeInv
<1>. QED  BY <1>1, TypeInit, TypeStep, PTL DEF Spec

-----------------------------------------------------------------------------
(* The invariant of a pass that runs alone *)

(* A stopped container runs nothing, the loop starts after the boot, and *)
(* only a save holds a file open.                                        *)
ContainerInv ==
    /\ ~up => \A p \in Process : pc[p] = "off"
    /\ pc[Boot] # "off" => pc[Sync] = "off"
    /\ \A p \in Process : opened[p] # "none" => pc[p] = "fill"

Password(c, u) == IF c.spec[u].hash # NoHash THEN c.spec[u].hash ELSE NoPassword

WantedPassword(c, u) == IF c.spec[u].disabled THEN Locked ELSE Password(c, u)

Pinned ==
    UNION {{<<u, c.spec[u].uid>> : u \in {w \in Names(c) : c.spec[w].uid # 0}} :
             c \in Content}

(* Giving id to u is what the ledger in state.json allows. *)
Kept(u, id) == stateFile.uid[u] \in {0, id} \/ <<u, id>> \in Pinned

(* The pass looks at the state.json it will replace. *)
LoadedInv(p) ==
    /\ pc[p] = "plan" => state[p] = stateFile
    /\ pc[p] \in Commands \cup Saving => \A u \in User : Kept(u, state[p].uid[u])

(* What StartApplying decided. *)
PlanInv(p) ==
    pc[p] \in Commands =>
       /\ \A u \in Names(users[p]) : planUid[p][u] # 0 /\ Kept(u, planUid[p][u])
       /\ missing[p] \cap Names(users[p]) = {}
       /\ pc[p] = "missing" => at[p] > Len(users[p].users)

(* The users behind the loop's position are done. *)
DoneInv(p) ==
    pc[p] \in Commands =>
       \A j \in DOMAIN users[p].users :
          j < at[p] => UserApplied(state[p], users[p], users[p].users[j])

(* The commands run so far for the user at the loop's position. *)
CurrentInv(p) ==
    /\ pc[p] \in {"account", "password", "lock", "directories", "keys"} =>
          groupGid[Current(p)] # 0
    /\ pc[p] \in {"password", "lock", "directories", "keys"} =>
          passwdUid[Current(p)] = planUid[p][Current(p)]
    /\ pc[p] = "lock" => shadow[Current(p)] = Password(users[p], Current(p))
    /\ pc[p] \in {"directories", "keys"} =>
          shadow[Current(p)] = WantedPassword(users[p], Current(p))
    /\ pc[p] = "keys" =>
          upload[Current(p)] = <<planUid[p][Current(p)], planGid[p][Current(p)]>>

(* A removed user of state.json is locked or still to be visited. *)
RemovedInv(p) ==
    DisableMissingUsers /\ pc[p] \in Commands \cup Saving =>
       \A u \in User \ Names(users[p]) :
          state[p].uid[u] # 0 /\ passwdUid[u] # 0 =>
             shadow[u] = Locked \/ (pc[p] \in Commands /\ u \in missing[p])

(* The state a pass is about to save, and the file it saves it in.  The    *)
(* loop may skip what the fingerprint it trusts calls done.                *)
SavingInv(p) ==
    /\ pc[p] \in Saving =>
          /\ state[p].fingerprint = Fingerprint(users[p])
          /\ p # Sync => Applied(state[p], users[p])
    /\ pc[p] = "fill" => opened[p] = "tmp" /\ tmpFile = {Blank}
    /\ pc[p] = "replace" => tmpFile = {state[p]}

PassInv(p) ==
    /\ LoadedInv(p) /\ PlanInv(p) /\ DoneInv(p)
    /\ CurrentInv(p) /\ RemovedInv(p) /\ SavingInv(p)

OthersRest(p) == \A q \in Process \ {p} : pc[q] \notin Working

(* p is in a pass and has overlapped no other one since it read the provider. *)
Lone(p) == p \in alone /\ pc[p] \in Working

LoneInv ==
    /\ TypeInv /\ ContainerInv
    /\ \A p \in Process : Lone(p) => OthersRest(p) /\ PassInv(p)

-----------------------------------------------------------------------------
(* Facts about one pass *)

(* A process that is not deciding, applying or saving satisfies PassInv. *)
LEMMA Idle ==
    ASSUME NEW p \in Process, pc'[p] \in {"off", "sleep", "load", "state"}
    PROVE  PassInv(p)'
BY DEF PassInv, LoadedInv, PlanInv, DoneInv, CurrentInv, RemovedInv, SavingInv, Commands, Saving

LEMMA Advance ==
    ASSUME TypeInv, NEW p \in Process, NEW label, Goto(p, label)
    PROVE  pc'[p] = label /\ \A q \in Process \ {p} : pc'[q] = pc[q]
BY DEF Goto, TypeInv, TypeOK

(* A pass that ends with an exception is over. *)
LEMMA DiesOff ==
    ASSUME TypeInv, NEW p \in Process, Dies(p)
    PROVE  pc'[p] = "off"
BY DEF Dies, Goto, TypeInv, TypeOK

LEMMA RecordedFields ==
    ASSUME NEW s \in SavedState, NEW u \in User, NEW i, NEW g, NEW d
    PROVE  /\ Recorded(s, u, i, g, d).uid = [s.uid EXCEPT ![u] = i]
           /\ Recorded(s, u, i, g, d).gid = [s.gid EXCEPT ![u] = g]
BY DEF Recorded, SavedState

(* Time takes keys away from the valid ones and adds none. *)
LEMMA ActiveKeysShrink ==
    ASSUME NEW c \in Content \cup {EmptyContent}, NEW u \in Names(c),
           NEW m \in Nat, NEW n \in Nat, m <= n
    PROVE  ActiveKeys(c, u, n) \subseteq ActiveKeys(c, u, m)
<1>1. c.spec[u].keys \subseteq Key
  BY ContentFacts DEF UserSpec
<1>2. \A k \in c.spec[u].keys : Expiry[k] \in Nat
  BY <1>1, ExpiryAssumption
<1>. QED  BY <1>2 DEF ActiveKeys

(* Fingerprints ignore comments only: nothing UserApplied looks at. *)
LEMMA AppliedFingerprint ==
    ASSUME NEW c \in Content \cup {EmptyContent}, NEW s \in SavedState
    PROVE  /\ Names(Fingerprint(c)) = Names(c)
           /\ Applied(s, Fingerprint(c)) <=> Applied(s, c)
<1>1. Fingerprint(c).users = c.users
  BY DEF Fingerprint
<1>2. Names(Fingerprint(c)) = Names(c)
  BY <1>1 DEF Names
<1>3. ASSUME NEW u \in Names(c)
      PROVE  UserApplied(s, Fingerprint(c), u) <=> UserApplied(s, c, u)
  <2>1. c.spec[u] \in UserSpec
    BY ContentFacts
  <2>2. Fingerprint(c).spec[u] = [c.spec[u] EXCEPT !.comment = FALSE]
    BY DEF Fingerprint
  <2>3. /\ Fingerprint(c).spec[u].disabled = c.spec[u].disabled
        /\ Fingerprint(c).spec[u].hash = c.spec[u].hash
        /\ Fingerprint(c).spec[u].keys = c.spec[u].keys
    BY <2>1, <2>2 DEF UserSpec
  <2>. QED  BY <2>3 DEF UserApplied, ActiveKeys
<1>. QED  BY <1>2, <1>3 DEF Applied

(* In the loop the current user is one of the content, and no user before *)
(* it in the list is the same.                                            *)
LEMMA CurrentFacts ==
    ASSUME TypeInv, NEW p \in Process, pc[p] \in UserCommands
    PROVE  /\ at[p] \in DOMAIN users[p].users
           /\ DOMAIN users[p].users = 1 .. Len(users[p].users)
           /\ Len(users[p].users) \in Nat
           /\ Current(p) \in Names(users[p])
           /\ Current(p) \in User
           /\ Names(users[p]) \subseteq User
           /\ \A j \in DOMAIN users[p].users :
                 /\ users[p].users[j] \in Names(users[p])
                 /\ j < at[p] => users[p].users[j] # Current(p)
<1>1. at[p] \in DOMAIN users[p].users /\ users[p] \in Content \cup {EmptyContent}
  BY DEF TypeInv, TypeOK, LoopPosition
<1>2. at[p] \in Nat
  BY DEF TypeInv, TypeOK
<1>. QED  BY <1>1, <1>2, ContentFacts DEF Current, Names

-----------------------------------------------------------------------------
(* A lone pass keeps PassInv: reading and deciding *)

LEMMA LoadLone ==
    ASSUME LoneInv, NEW p \in Process, LoadUsers(p) \/ LoadState(p)
    PROVE  PassInv(p)'
<1>1. CASE LoadUsers(p)
  <2>1. pc'[p] = "state"
    BY <1>1, Advance DEF LoadUsers, LoneInv
  <2>. QED  BY <2>1, Idle
<1>2. CASE LoadState(p)
  <2>1. pc'[p] = "plan" /\ state'[p] = stateFile'
    BY <1>2 DEF LoadState, Goto, volumes, LoneInv, TypeInv, TypeOK
  <2>. QED  BY <2>1 DEF PassInv, LoadedInv, PlanInv, DoneInv, CurrentInv, RemovedInv,
                        SavingInv, Commands, Saving
<1>. QED  BY <1>1, <1>2

(* A pass that finds nothing to do saves what it loaded. *)
LEMMA NothingToDoLone ==
    ASSUME LoneInv, NEW p \in Process, Lone(p), NothingToDo(p)
    PROVE  PassInv(p)'
<1>. USE DEF LoneInv, TypeInv, TypeOK
<1>1. pc[p] = "plan" /\ Goto(p, "write") /\ UNCHANGED <<up, volumes, system, users, missing>>
  BY DEF NothingToDo
<1>2. pc'[p] = "write"
  BY <1>1, Advance
<1>3. state[p] = stateFile /\ state[p] \in SavedState
  BY <1>1 DEF PassInv, LoadedInv
<1>4. /\ state'[p].uid = state[p].uid /\ state'[p].gid = state[p].gid
      /\ state'[p].fingerprint = Fingerprint(users[p])
  BY <1>3 DEF NothingToDo, SavedState
<1>5. users'[p] = users[p]
  BY <1>1
<1>6. LoadedInv(p)'
  BY <1>2, <1>3, <1>4, <1>1 DEF LoadedInv, Kept, volumes, Commands, Saving
<1>7. p # Sync => Names(users[p]) = {}
  BY DEF NothingToDo, Changed
<1>8. SavingInv(p)'
  BY <1>7, <1>2, <1>4, <1>5 DEF SavingInv, Applied
<1>9. RemovedInv(p)'
  <2>1. DisableMissingUsers => \A u \in User \ Names(users[p]) : state[p].uid[u] = 0
    BY DEF NothingToDo, Changed, MissingUsers
  <2>. QED  BY <2>1, <1>4, <1>5 DEF RemovedInv
<1>10. PlanInv(p)' /\ DoneInv(p)' /\ CurrentInv(p)'
  BY <1>2 DEF PlanInv, DoneInv, CurrentInv, Commands
<1>. QED  BY <1>6, <1>8, <1>9, <1>10 DEF PassInv

(* The loop starts with every removed user to be visited, and with          *)
(* identities the ledger allows.                                            *)
LEMMA StartApplyingLone ==
    ASSUME LoneInv, NEW p \in Process, Lone(p), StartApplying(p)
    PROVE  PassInv(p)'
<1>. USE DEF LoneInv, TypeInv, TypeOK
<1>1. LoopLabel(p, 1) \in {"group", "missing"}
  BY DEF LoopLabel
<1>2. pc'[p] = LoopLabel(p, 1)
  BY Advance DEF StartApplying
<1>3. UNCHANGED <<volumes, system, users, state>>
  BY DEF StartApplying
<1>4. state[p] = stateFile /\ state[p] \in SavedState
  BY DEF PassInv, LoadedInv, StartApplying
<1>5. LoadedInv(p)'
  BY <1>1, <1>2, <1>3, <1>4 DEF LoadedInv, Kept, volumes
<1>6. PlanInv(p)'
  <2>1. ASSUME NEW u \in Names(users[p])
        PROVE  planUid'[p][u] # 0 /\ Kept(u, planUid'[p][u])
    <3>1. users[p] \in Content /\ u \in User /\ users[p].spec[u] \in UserSpec
      BY ContentFacts DEF EmptyContent, Names
    <3>2. planUid'[p][u] = ResolvedUid(users[p], state[p].uid, u)
      BY <3>1 DEF StartApplying
    <3>3. planUid'[p][u] # 0
      <4>1. state[p].uid \in [User -> Nat] /\ AllocationSucceeds(users[p], state[p].uid)
        BY <1>4 DEF StartApplying, Accepted, SavedState
      <4>. QED  BY <3>1, <3>2, <4>1, ResolvedUidPositive
    <3>4. CASE users[p].spec[u].uid # 0
      <4>1. planUid'[p][u] = users[p].spec[u].uid
        BY <3>2, <3>4 DEF ResolvedUid, FixedUid
      <4>. QED  BY <3>1, <3>3, <4>1 DEF Kept, Pinned
    <3>5. CASE users[p].spec[u].uid = 0
      BY <3>2, <3>3, <3>5, <1>4 DEF Kept, ResolvedUid, FixedUid
    <3>. QED  BY <3>3, <3>4, <3>5
  <2>2. missing'[p] \cap Names(users[p]) = {}
    BY DEF StartApplying, MissingUsers
  <2>3. LoopLabel(p, 1) = "missing" => at'[p] > Len(users[p].users)
    BY ContentFacts DEF StartApplying, LoopLabel
  <2>. QED  BY <2>1, <2>2, <2>3, <1>2, <1>3 DEF PlanInv, Kept, volumes
<1>7. DoneInv(p)'
  <2>1. at'[p] = 1 /\ users'[p] = users[p]
    BY <1>3 DEF StartApplying
  <2>2. users[p] \in Content \cup {EmptyContent}
    OBVIOUS
  <2>3. \A j \in DOMAIN users'[p].users : ~(j < at'[p])
    BY <2>1, <2>2, ContentFacts
  <2>. QED  BY <2>3 DEF DoneInv
<1>8. CurrentInv(p)' /\ SavingInv(p)'
  BY <1>1, <1>2 DEF CurrentInv, SavingInv, Saving
<1>9. RemovedInv(p)'
  <2>1. DisableMissingUsers =>
          \A u \in User \ Names(users[p]) : state[p].uid[u] # 0 => u \in missing'[p]
    BY DEF StartApplying, MissingUsers
  <2>. QED  BY <2>1, <1>1, <1>2, <1>3 DEF RemovedInv, Commands
<1>. QED  BY <1>5, <1>6, <1>7, <1>8, <1>9 DEF PassInv

-----------------------------------------------------------------------------
(* A lone pass keeps PassInv: the commands of the loop *)

LEMMA EnsureGroupLone ==
    ASSUME LoneInv, NEW p \in Process, Lone(p), EnsureGroup(p)
    PROVE  Lone(p)' => PassInv(p)'
<1>. USE DEF LoneInv
<1>1. pc[p] = "group" /\ pc[p] \in UserCommands /\ TypeInv
  BY DEF EnsureGroup, UserCommands, Commands
<1>2. CASE Dies(p)
  BY <1>2, <1>1, DiesOff DEF Lone, Working, Commands, Saving
<1>3. CASE ~Dies(p)
  <2>1. /\ groupGid' = [groupGid EXCEPT ![Current(p)] =
              IF groupGid[Current(p)] # 0 THEN groupGid[Current(p)] ELSE planGid[p][Current(p)]]
        /\ groupGid[Current(p)] # 0 \/ \A w \in User : groupGid[w] # planGid[p][Current(p)]
        /\ Goto(p, "account")
        /\ UNCHANGED <<up, locals, outside, volumes, passwdUid, shadow, authKeys>>
    BY <1>3 DEF EnsureGroup
  <2>2. pc'[p] = "account"
    BY <1>1, <2>1, Advance
  <2>3. LoadedInv(p)' /\ PlanInv(p)' /\ RemovedInv(p)'
    BY <1>1, <2>1, <2>2 DEF PassInv, LoadedInv, PlanInv, RemovedInv, Kept, locals, volumes, Commands
  <2>4. \A u \in User : groupGid[u] # 0 => groupGid'[u] # 0
    BY <2>1, <1>1 DEF TypeInv, TypeOK
  <2>5. DoneInv(p)'
    BY <1>1, <2>1, <2>2, <2>4, CurrentFacts
    DEF PassInv, DoneInv, UserApplied, locals, outside, volumes, Commands
  <2>6. groupGid'[Current(p)] # 0
    BY <1>1, <2>1, CurrentFacts DEF TypeInv, TypeOK
  <2>7. CurrentInv(p)' /\ SavingInv(p)'
    BY <2>1, <2>2, <2>6 DEF CurrentInv, SavingInv, Saving, Current, locals
  <2>. QED  BY <2>3, <2>5, <2>7 DEF PassInv
<1>. QED  BY <1>2, <1>3

LEMMA EnsureAccountLone ==
    ASSUME LoneInv, NEW p \in Process, Lone(p), EnsureAccount(p)
    PROVE  Lone(p)' => PassInv(p)'
<1>. USE DEF LoneInv
<1>1. pc[p] = "account" /\ pc[p] \in UserCommands /\ TypeInv
  BY DEF EnsureAccount, UserCommands, Commands
<1>2. CASE Dies(p)
  BY <1>2, <1>1, DiesOff DEF Lone, Working, Commands, Saving
<1>3. CASE ~Dies(p)
  <2>1. /\ passwdUid' = [passwdUid EXCEPT ![Current(p)] = planUid[p][Current(p)]]
        /\ shadow' = [shadow EXCEPT ![Current(p)] =
                        IF passwdUid[Current(p)] = 0 THEN Locked ELSE @]
        /\ Goto(p, "password")
        /\ UNCHANGED <<up, locals, outside, volumes, groupGid, authKeys>>
    BY <1>3 DEF EnsureAccount
  <2>2. pc'[p] = "password"
    BY <1>1, <2>1, Advance
  <2>3. LoadedInv(p)' /\ PlanInv(p)'
    BY <1>1, <2>1, <2>2 DEF PassInv, LoadedInv, PlanInv, Kept, locals, volumes, Commands
  <2>4. \A u \in User \ {Current(p)} : passwdUid'[u] = passwdUid[u] /\ shadow'[u] = shadow[u]
    BY <1>1, <2>1 DEF TypeInv, TypeOK
  <2>5. DoneInv(p)'
    BY <1>1, <2>1, <2>2, <2>4, CurrentFacts
    DEF PassInv, DoneInv, UserApplied, locals, outside, volumes, Commands
  <2>6. RemovedInv(p)'
    BY <1>1, <2>1, <2>2, <2>4, CurrentFacts DEF PassInv, RemovedInv, locals, Commands
  <2>7. CurrentInv(p)' /\ SavingInv(p)'
    <3>1. passwdUid'[Current(p)] = planUid[p][Current(p)]
      BY <1>1, <2>1, CurrentFacts DEF TypeInv, TypeOK
    <3>. QED  BY <1>1, <3>1, <2>1, <2>2 DEF PassInv, CurrentInv, SavingInv, Saving, Current, locals
  <2>. QED  BY <2>3, <2>5, <2>6, <2>7 DEF PassInv
<1>. QED  BY <1>2, <1>3

(* usermod -p and usermod -p ! touch the password field of one user. *)
LEMMA PasswordLone ==
    ASSUME LoneInv, NEW p \in Process, Lone(p), SetPassword(p) \/ SetLock(p)
    PROVE  PassInv(p)'
<1>. USE DEF LoneInv
<1>. DEFINE next == IF pc[p] = "password" THEN "lock" ELSE "directories"
<1>1. /\ pc[p] \in {"password", "lock"}
      /\ Goto(p, next)
      /\ UNCHANGED <<outside, volumes, up, passwdUid, groupGid, authKeys, locals>>
  BY DEF SetPassword, SetLock
<1>2. pc[p] \in UserCommands /\ TypeInv
  BY <1>1 DEF UserCommands, Commands
<1>3. pc'[p] = next
  BY <1>1, Advance
<1>4. pc'[p] \in {"lock", "directories"}
  BY <1>3
<1>5. shadow' = [shadow EXCEPT ![Current(p)] = shadow'[Current(p)]]
  BY <1>2, CurrentFacts DEF SetPassword, SetLock, TypeInv, TypeOK
<1>6. \A u \in User \ {Current(p)} : shadow'[u] = shadow[u]
  BY <1>5 DEF TypeInv, TypeOK
<1>7. LoadedInv(p)' /\ PlanInv(p)'
  BY <1>1, <1>4 DEF PassInv, LoadedInv, PlanInv, Kept, locals, volumes, Commands
<1>8. DoneInv(p)'
  <2>1. ASSUME NEW j \in DOMAIN users[p].users, j < at[p]
        PROVE  UserApplied(state[p], users[p], users[p].users[j])'
    <3>1. UserApplied(state[p], users[p], users[p].users[j])
      BY <2>1, <1>2 DEF PassInv, DoneInv, UserCommands
    <3>2. users[p].users[j] \in User \ {Current(p)}
      BY <2>1, <1>2, CurrentFacts
    <3>. QED  BY <3>1, <3>2, <1>1, <1>6 DEF UserApplied, locals, outside, volumes
  <2>. QED  BY <2>1, <1>1 DEF DoneInv, locals
<1>9. RemovedInv(p)'
  BY <1>1, <1>2, <1>4, <1>6, CurrentFacts DEF PassInv, RemovedInv, locals, Commands
<1>10. passwdUid'[Current(p)] = planUid[p][Current(p)] /\ groupGid'[Current(p)] # 0
  BY <1>1 DEF PassInv, CurrentInv
<1>11. pc'[p] = "lock" => shadow'[Current(p)] = Password(users[p], Current(p))
  BY <1>2, <1>3, CurrentFacts DEF SetPassword, SetLock, Password, CurrentSpec, TypeInv, TypeOK
<1>12. pc'[p] = "directories" => shadow'[Current(p)] = WantedPassword(users[p], Current(p))
  <2>1. SUFFICES ASSUME pc'[p] = "directories"
                 PROVE  shadow'[Current(p)] = WantedPassword(users[p], Current(p))
    OBVIOUS
  <2>2. SetLock(p) /\ pc[p] = "lock"
    BY <2>1, <1>3 DEF SetPassword, SetLock
  <2>3. shadow[Current(p)] = Password(users[p], Current(p))
    BY <2>2 DEF PassInv, CurrentInv
  <2>. QED  BY <2>2, <2>3, <1>2, CurrentFacts DEF SetLock, WantedPassword, CurrentSpec, TypeInv, TypeOK
<1>13. CurrentInv(p)' /\ SavingInv(p)'
  BY <1>1, <1>4, <1>10, <1>11, <1>12
  DEF CurrentInv, SavingInv, Saving, Current, Password, WantedPassword, locals
<1>. QED  BY <1>7, <1>8, <1>9, <1>13 DEF PassInv

LEMMA EnsureDirectoriesLone ==
    ASSUME LoneInv, NEW p \in Process, Lone(p), EnsureDirectories(p)
    PROVE  PassInv(p)'
<1>. USE DEF LoneInv
<1>1. /\ pc[p] = "directories" /\ Goto(p, "keys")
      /\ UNCHANGED <<outside, stateFile, tmpFile, up, system, locals>>
  BY DEF EnsureDirectories
<1>2. pc[p] \in UserCommands /\ TypeInv
  BY <1>1 DEF UserCommands, Commands
<1>3. pc'[p] = "keys"
  BY <1>1, Advance
<1>4. /\ upload'[Current(p)] = <<planUid[p][Current(p)], planGid[p][Current(p)]>>
      /\ \A u \in User \ {Current(p)} : upload'[u] = upload[u]
  BY <1>2, CurrentFacts DEF EnsureDirectories, TypeInv, TypeOK
<1>5. LoadedInv(p)' /\ PlanInv(p)' /\ RemovedInv(p)'
  BY <1>1, <1>3 DEF PassInv, LoadedInv, PlanInv, RemovedInv, Kept, locals, system, Commands
<1>6. DoneInv(p)'
  BY <1>1, <1>2, <1>3, <1>4, CurrentFacts
  DEF PassInv, DoneInv, UserApplied, locals, outside, system, Commands
<1>7. CurrentInv(p)' /\ SavingInv(p)'
  BY <1>1, <1>3, <1>4
  DEF PassInv, CurrentInv, SavingInv, Saving, Current, WantedPassword, Password, locals, system
<1>. QED  BY <1>5, <1>6, <1>7 DEF PassInv

LEMMA WriteAuthorizedKeysLone ==
    ASSUME LoneInv, NEW p \in Process, Lone(p), WriteAuthorizedKeys(p)
    PROVE  PassInv(p)'
<1>. USE DEF LoneInv
<1>. DEFINE u == Current(p)
<1>1. /\ pc[p] = "keys" /\ Goto(p, LoopLabel(p, at[p] + 1))
      /\ UNCHANGED <<outside, volumes, passwdUid, groupGid, shadow, users, planUid, planGid,
                     missing>>
  BY DEF WriteAuthorizedKeys
<1>2. pc[p] \in UserCommands /\ TypeInv /\ state[p] \in SavedState /\ at[p] \in Nat
  BY <1>1 DEF UserCommands, Commands, TypeInv, TypeOK
<1>3. LoopLabel(p, at[p] + 1) \in {"group", "missing"}
  BY DEF LoopLabel
<1>4. pc'[p] = LoopLabel(p, at[p] + 1)
  BY <1>1, <1>2, Advance
<1>5. at'[p] = at[p] + 1 /\ users'[p] = users[p]
  BY <1>1 DEF WriteAuthorizedKeys, TypeInv, TypeOK
<1>6. state'[p] = Recorded(state[p], u, planUid[p][u], planGid[p][u], CurrentSpec(p).disabled)
  BY DEF WriteAuthorizedKeys, TypeInv, TypeOK
<1>7. u \in User /\ u \in Names(users[p])
  BY <1>2, CurrentFacts
<1>8. /\ state'[p].uid = [state[p].uid EXCEPT ![u] = planUid[p][u]]
      /\ state'[p].gid = [state[p].gid EXCEPT ![u] = planGid[p][u]]
  BY <1>2, <1>6, <1>7, RecordedFields
<1>9. /\ state'[p].uid[u] = planUid[p][u] /\ state'[p].gid[u] = planGid[p][u]
      /\ \A w \in User \ {u} : /\ state'[p].uid[w] = state[p].uid[w]
                               /\ state'[p].gid[w] = state[p].gid[w]
  BY <1>2, <1>7, <1>8 DEF SavedState
<1>10. /\ planUid[p][u] # 0 /\ Kept(u, planUid[p][u])
       /\ groupGid[u] # 0
       /\ passwdUid[u] = planUid[p][u]
       /\ shadow[u] = WantedPassword(users[p], u)
       /\ upload[u] = <<planUid[p][u], planGid[p][u]>>
  BY <1>1, <1>7 DEF PassInv, PlanInv, CurrentInv, Commands
<1>11. LoadedInv(p)'
  <2>1. \A w \in User : Kept(w, state'[p].uid[w])
    BY <1>1, <1>9, <1>10 DEF PassInv, LoadedInv, Commands
  <2>. QED  BY <2>1, <1>1, <1>3, <1>4 DEF LoadedInv, Kept, volumes
<1>12. PlanInv(p)'
  <2>1. /\ \A w \in Names(users[p]) : planUid[p][w] # 0 /\ Kept(w, planUid[p][w])
        /\ missing[p] \cap Names(users[p]) = {}
    BY <1>1 DEF PassInv, PlanInv, Commands
  <2>2. LoopLabel(p, at[p] + 1) = "missing" => at'[p] > Len(users[p].users)
    BY <1>2, <1>5, CurrentFacts DEF LoopLabel
  <2>. QED  BY <2>1, <2>2, <1>1, <1>4, <1>5 DEF PlanInv, Kept, volumes
<1>13. DoneInv(p)'
  <2>1. ASSUME NEW j \in DOMAIN users[p].users, j < at'[p]
        PROVE  UserApplied(state[p], users[p], users[p].users[j])'
    <3>1. CASE j = at[p]
      <4>1. users[p].users[j] = u
        BY <3>1 DEF Current
      <4>2. authKeys'[u] = ActiveKeys(users[p], u, now) /\ now' = now
        BY <1>1, <1>7 DEF WriteAuthorizedKeys, TypeInv, TypeOK, outside
      <4>3. authKeys'[u] \subseteq users[p].spec[u].keys
        BY <4>2 DEF ActiveKeys
      <4>4. ActiveKeys(users[p], users[p].users[j], now)' = authKeys'[u]
        BY <4>1, <4>2, <1>5 DEF ActiveKeys
      <4>. QED  BY <4>1, <4>3, <4>4, <1>1, <1>5, <1>9, <1>10
                DEF UserApplied, WantedPassword, Password, volumes
    <3>2. CASE j # at[p]
      <4>1. j < at[p]
        BY <2>1, <3>2, <1>2, <1>5, CurrentFacts
      <4>2. users[p].users[j] \in User \ {u} /\ UserApplied(state[p], users[p], users[p].users[j])
        BY <4>1, <1>1, <1>2, CurrentFacts DEF PassInv, DoneInv, Commands
      <4>3. authKeys'[users[p].users[j]] = authKeys[users[p].users[j]]
        BY <4>2 DEF WriteAuthorizedKeys, TypeInv, TypeOK
      <4>. QED  BY <4>2, <4>3, <1>1, <1>5, <1>9 DEF UserApplied, ActiveKeys, outside, volumes
    <3>. QED  BY <3>1, <3>2
  <2>. QED  BY <2>1, <1>5 DEF DoneInv
<1>14. CurrentInv(p)' /\ SavingInv(p)'
  BY <1>3, <1>4 DEF CurrentInv, SavingInv, Saving
<1>15. RemovedInv(p)'
  BY <1>1, <1>3, <1>4, <1>5, <1>7, <1>9 DEF PassInv, RemovedInv, Commands
<1>. QED  BY <1>11, <1>12, <1>13, <1>14, <1>15 DEF PassInv

(* disable_missing locks accounts the content does not have. *)
LEMMA DisableMissingLone ==
    ASSUME LoneInv, NEW p \in Process, Lone(p), DisableMissing(p)
    PROVE  PassInv(p)'
<1>. USE DEF LoneInv
<1>1. PICK u \in missing[p] :
        /\ missing' = [missing EXCEPT ![p] = @ \ {u}]
        /\ IF passwdUid[u] # 0
           THEN /\ shadow' = [shadow EXCEPT ![u] = Locked]
                /\ state' = [state EXCEPT ![p] =
                               Recorded(@, u, @.uid[u], @.gid[u], TRUE)]
           ELSE UNCHANGED <<shadow, state>>
  BY DEF DisableMissing
<1>2. /\ pc[p] = "missing"
      /\ UNCHANGED <<outside, volumes, up, passwdUid, groupGid, authKeys, pc, users, planUid,
                     planGid, at>>
  BY DEF DisableMissing
<1>3. TypeInv /\ u \in User /\ state[p] \in SavedState /\ u \notin Names(users[p])
  BY <1>2 DEF TypeInv, TypeOK, PassInv, PlanInv, Commands
<1>4. pc'[p] = "missing"
  BY <1>2
<1>6. \A w \in User : state'[p].uid[w] = state[p].uid[w] /\ state'[p].gid[w] = state[p].gid[w]
  <2>1. CASE passwdUid[u] # 0
    <3>1. state'[p] = Recorded(state[p], u, state[p].uid[u], state[p].gid[u], TRUE)
      BY <1>1, <2>1 DEF TypeInv, TypeOK
    <3>2. state[p].uid \in [User -> Nat] /\ state[p].gid \in [User -> Nat]
      BY <1>3 DEF SavedState
    <3>3. /\ state'[p].uid = [state[p].uid EXCEPT ![u] = state[p].uid[u]]
          /\ state'[p].gid = [state[p].gid EXCEPT ![u] = state[p].gid[u]]
      BY <3>1, <1>3 DEF Recorded, SavedState
    <3>. QED  BY <3>2, <3>3
  <2>. QED  BY <1>1, <2>1
<1>7. /\ passwdUid[u] # 0 => shadow'[u] = Locked
      /\ \A w \in User \ {u} : shadow'[w] = shadow[w]
  BY <1>1, <1>3 DEF TypeInv, TypeOK
<1>8. missing'[p] = missing[p] \ {u}
  BY <1>1 DEF TypeInv, TypeOK
<1>9. LoadedInv(p)' /\ PlanInv(p)'
  BY <1>2, <1>6, <1>8 DEF PassInv, LoadedInv, PlanInv, Kept, volumes, Commands
<1>10. DoneInv(p)'
  <2>1. \A j \in DOMAIN users[p].users :
          users[p].users[j] \in User /\ users[p].users[j] # u
    BY <1>3, ContentFacts DEF TypeInv, TypeOK, Names
  <2>2. ASSUME NEW j \in DOMAIN users[p].users, j < at[p]
        PROVE  UserApplied(state[p], users[p], users[p].users[j])'
    <3>1. UserApplied(state[p], users[p], users[p].users[j])
      BY <2>2, <1>2 DEF PassInv, DoneInv, Commands
    <3>. QED  BY <3>1, <2>1, <1>2, <1>6, <1>7 DEF UserApplied, ActiveKeys, outside, volumes
  <2>. QED  BY <2>2, <1>2 DEF DoneInv
<1>11. RemovedInv(p)'
  BY <1>2, <1>6, <1>7, <1>8 DEF PassInv, RemovedInv, Commands
<1>12. CurrentInv(p)' /\ SavingInv(p)'
  BY <1>4 DEF CurrentInv, SavingInv, Saving
<1>. QED  BY <1>9, <1>10, <1>11, <1>12 DEF PassInv

-----------------------------------------------------------------------------
(* A lone pass keeps PassInv: saving *)

(* At the end of the loop the accounts are as the state says. *)
LEMMA FinishApplyingApplied ==
    ASSUME LoneInv, NEW p \in Process, Lone(p), FinishApplying(p)
    PROVE  Applied(state[p], users[p])'
<1>. USE DEF LoneInv
<1>1. /\ pc[p] = "missing" /\ UNCHANGED <<outside, volumes, up, system, users>>
  BY DEF FinishApplying
<1>2. at[p] \in Nat /\ state[p] \in SavedState /\ users[p] \in Content \cup {EmptyContent}
  BY DEF TypeInv, TypeOK
<1>3. state'[p].uid = state[p].uid /\ state'[p].gid = state[p].gid
  BY <1>2 DEF FinishApplying, SavedState, TypeInv, TypeOK
<1>4. \A j \in DOMAIN users[p].users : j < at[p]
  BY <1>1, <1>2, ContentFacts DEF PassInv, PlanInv, Commands
<1>5. Applied(state[p], users[p])
  BY <1>4, <1>1 DEF PassInv, DoneInv, Applied, Names, Commands
<1>. QED  BY <1>5, <1>1, <1>3 DEF Applied, UserApplied, ActiveKeys, outside, volumes, system

LEMMA FinishApplyingLone ==
    ASSUME LoneInv, NEW p \in Process, Lone(p), FinishApplying(p)
    PROVE  PassInv(p)'
<1>. USE DEF LoneInv
<1>1. /\ pc[p] = "missing" /\ missing[p] = {} /\ Goto(p, "write")
      /\ UNCHANGED <<volumes, up, system, users>>
  BY DEF FinishApplying
<1>2. pc'[p] = "write"
  BY <1>1, Advance
<1>3. state[p] \in SavedState
  BY DEF TypeInv, TypeOK
<1>4. /\ state'[p].uid = state[p].uid
      /\ state'[p].fingerprint = Fingerprint(users[p])
  BY <1>3 DEF FinishApplying, SavedState, TypeInv, TypeOK
<1>5. LoadedInv(p)'
  BY <1>1, <1>2, <1>4 DEF PassInv, LoadedInv, Kept, volumes, Commands
<1>6. RemovedInv(p)'
  BY <1>1, <1>2, <1>4 DEF PassInv, RemovedInv, system, Commands
<1>7. SavingInv(p)'
  BY <1>1, <1>2, <1>4, FinishApplyingApplied DEF SavingInv
<1>8. PlanInv(p)' /\ DoneInv(p)' /\ CurrentInv(p)'
  BY <1>2 DEF PlanInv, DoneInv, CurrentInv, Commands
<1>. QED  BY <1>5, <1>6, <1>7, <1>8 DEF PassInv

(* Opening state.tmp and writing the text into it: no other process has it  *)
(* open, so the file a lone pass opened is the file it renames.             *)
LEMMA WriteTmpLone ==
    ASSUME LoneInv, NEW p \in Process, Lone(p), OpenTmp(p) \/ FillTmp(p)
    PROVE  PassInv(p)' /\ UNCHANGED stateFile
<1>. USE DEF LoneInv
<1>1. /\ pc[p] \in {"write", "fill"} /\ pc'[p] \in {"fill", "replace"}
      /\ pc[p] = "write" => pc'[p] = "fill" /\ tmpFile' = {Blank} /\ opened'[p] = "tmp"
      /\ UNCHANGED <<outside, upload, up, system, users, state>>
  BY Advance DEF OpenTmp, FillTmp, TypeInv, TypeOK
<1>2. /\ UNCHANGED stateFile
      /\ pc[p] = "fill" => pc'[p] = "replace" /\ tmpFile' = {state[p]}
  <2>1. CASE OpenTmp(p)
    BY <2>1 DEF OpenTmp
  <2>2. CASE FillTmp(p)
    <3>1. pc[p] = "fill" /\ opened[p] = "tmp" /\ tmpFile = {Blank}
      BY <2>2 DEF FillTmp, PassInv, SavingInv
    <3>2. pc'[p] = "replace"
      BY <2>2, Advance DEF FillTmp
    <3>. QED  BY <2>2, <3>1, <3>2 DEF FillTmp, Overwritten
  <2>. QED  BY <2>1, <2>2
<1>3. LoadedInv(p)' /\ RemovedInv(p)'
  BY <1>1, <1>2 DEF PassInv, LoadedInv, RemovedInv, Kept, system, Saving, Commands
<1>4. SavingInv(p)'
  <2>1. p # Sync => Applied(state[p], users[p])'
    BY <1>1 DEF PassInv, SavingInv, Applied, UserApplied, ActiveKeys, outside, system, Saving
  <2>. QED  BY <2>1, <1>1, <1>2 DEF PassInv, SavingInv, Saving
<1>5. PlanInv(p)' /\ DoneInv(p)' /\ CurrentInv(p)'
  BY <1>1 DEF PlanInv, DoneInv, CurrentInv, Commands
<1>. QED  BY <1>2, <1>3, <1>4, <1>5 DEF PassInv

-----------------------------------------------------------------------------
(* LoneInv is inductive *)

LEMMA LoneInit == Init => LoneInv
<1>. SUFFICES ASSUME Init PROVE LoneInv
  OBVIOUS
<1>1. ContainerInv
  BY DEF Init, ContainerInv, Process
<1>2. \A p \in Process : ~Lone(p)
  BY DEF Init, Lone
<1>. QED  BY <1>1, <1>2, TypeInit DEF LoneInv

(* A step of a process changes the label of another one only to send it     *)
(* out of its pass or to the start of one.                                  *)
LEMMA OtherLabels ==
    ASSUME TypeInv, NEW p \in Process, Dies(p) \/ Returns(p),
           NEW q \in Process \ {p}
    PROVE  pc'[q] = pc[q] \/ pc'[q] \in {"off", "load"}
BY DEF Dies, Returns, Goto, TypeInv, TypeOK

LEMMA StepLabels ==
    ASSUME TypeInv, NEW p \in Process, Step(p)
    PROVE  /\ pc[p] \in InPass
           /\ \A q \in Process \ {p} : pc'[q] = pc[q] \/ pc'[q] \in {"off", "load"}
<1>1. pc[p] \in InPass
  BY DEF Step, LoadUsers, LoadState, LoadFails, Reject, NothingToDo, StartApplying,
     EnsureGroup, EnsureAccount, SetPassword, SetLock, EnsureDirectories,
     WriteAuthorizedKeys, DisableMissing, FinishApplying, OpenTmp, FillTmp,
     ReplaceState, ReplaceFails, InPass, Working, Commands, Saving
<1>2. \/ Dies(p) \/ Returns(p) \/ UNCHANGED pc \/ \E label \in InPass : Goto(p, label)
  <2>1. CASE \/ LoadUsers(p) \/ LoadState(p) \/ LoadFails(p) \/ Reject(p)
             \/ NothingToDo(p) \/ StartApplying(p)
    BY <2>1 DEF LoadUsers, LoadState, LoadFails, Reject, NothingToDo, StartApplying,
       LoopLabel, InPass, Working, Commands, Saving
  <2>2. CASE \/ EnsureGroup(p) \/ EnsureAccount(p)
    BY <2>2 DEF EnsureGroup, EnsureAccount, InPass, Working, Commands
  <2>3. CASE \/ SetPassword(p) \/ SetLock(p) \/ EnsureDirectories(p)
             \/ WriteAuthorizedKeys(p) \/ DisableMissing(p)
    BY <2>3 DEF SetPassword, SetLock, EnsureDirectories, WriteAuthorizedKeys,
       DisableMissing, LoopLabel, InPass, Working, Commands
  <2>4. CASE \/ FinishApplying(p) \/ OpenTmp(p) \/ FillTmp(p) \/ ReplaceState(p)
             \/ ReplaceFails(p)
    BY <2>4 DEF FinishApplying, OpenTmp, FillTmp, ReplaceState, ReplaceFails, InPass,
       Working, Saving
  <2>. QED  BY <2>1, <2>2, <2>3, <2>4 DEF Step
<1>. QED  BY <1>1, <1>2, OtherLabels, Advance

(* What a pass relies on survives every step that leaves it and the system  *)
(* alone.                                                                   *)
LEMMA Frame ==
    ASSUME LoneInv, NEW q \in Process, PassInv(q), now' \in Nat, now <= now',
           UNCHANGED <<volumes, system>>, pc'[q] = pc[q], users'[q] = users[q],
           state'[q] = state[q], planUid'[q] = planUid[q], planGid'[q] = planGid[q],
           at'[q] = at[q], missing'[q] = missing[q], opened'[q] = opened[q]
    PROVE  PassInv(q)'
<1>. USE DEF LoneInv
<1>1. users[q] \in Content \cup {EmptyContent}
  BY DEF TypeInv, TypeOK
<1>2. \A u \in Names(users[q]) :
        UserApplied(state[q], users[q], u) => UserApplied(state[q], users[q], u)'
  <2>1. \A u \in Names(users[q]) :
          ActiveKeys(users[q], u, now') \subseteq ActiveKeys(users[q], u, now)
    BY <1>1, ActiveKeysShrink DEF TypeInv, TypeOK
  <2>2. \A u : ActiveKeys(users[q], u, now)' = ActiveKeys(users[q], u, now')
    BY DEF ActiveKeys
  <2>. QED  BY <2>1, <2>2 DEF UserApplied, volumes, system
<1>3. LoadedInv(q)' /\ PlanInv(q)'
  BY DEF PassInv, LoadedInv, PlanInv, Kept, volumes
<1>4. DoneInv(q)'
  <2>1. \A j \in DOMAIN users[q].users : users[q].users[j] \in Names(users[q])
    BY DEF Names
  <2>. QED  BY <2>1, <1>2 DEF PassInv, DoneInv
<1>5. RemovedInv(q)'
  BY DEF PassInv, RemovedInv, system
<1>6. CurrentInv(q)'
  BY DEF PassInv, CurrentInv, Current, Password, WantedPassword, volumes, system
<1>7. SavingInv(q)'
  BY <1>2 DEF PassInv, SavingInv, Applied, volumes
<1>. QED  BY <1>3, <1>4, <1>5, <1>6, <1>7 DEF PassInv

(* Steps that begin or end a pass and steps of the environment. *)
LEMMA Quiet ==
    ASSUME LoneInv, UNCHANGED <<alone, volumes, system>>, now' \in Nat, now <= now',
           \A q \in Process : pc'[q] \in Working =>
              /\ pc'[q] = pc[q] /\ users'[q] = users[q] /\ state'[q] = state[q]
              /\ planUid'[q] = planUid[q] /\ planGid'[q] = planGid[q]
              /\ at'[q] = at[q] /\ missing'[q] = missing[q] /\ opened'[q] = opened[q]
    PROVE  \A p \in Process : Lone(p)' => OthersRest(p)' /\ PassInv(p)'
<1>. SUFFICES ASSUME NEW p \in Process, Lone(p)'
              PROVE  OthersRest(p)' /\ PassInv(p)'
  OBVIOUS
<1>1. Lone(p)
  BY DEF Lone
<1>2. OthersRest(p)'
  BY <1>1 DEF LoneInv, OthersRest
<1>3. PassInv(p)'
  BY <1>1, Frame DEF LoneInv, Lone
<1>. QED  BY <1>2, <1>3

(* A step of a pass that leaves the loading of the provider behind. *)
LEMMA LoneWork ==
    ASSUME LoneInv, NEW p \in Process, Step(p), ~LoadUsers(p)
    PROVE  \A r \in Process : Lone(r)' => OthersRest(r)' /\ PassInv(r)'
<1>. SUFFICES ASSUME NEW r \in Process, Lone(r)'
              PROVE  OthersRest(r)' /\ PassInv(r)'
  OBVIOUS
<1>. USE DEF LoneInv
<1>1. pc[p] \in Working /\ UNCHANGED alone
  BY DEF Step, LoadState, LoadFails, Reject, NothingToDo, StartApplying,
     EnsureGroup, EnsureAccount, SetPassword, SetLock, EnsureDirectories,
     WriteAuthorizedKeys, DisableMissing, FinishApplying, OpenTmp, FillTmp,
     ReplaceState, ReplaceFails, Working, Commands, Saving, outside
<1>2. r = p
  <2>1. r # p => pc'[r] = pc[r]
    BY StepLabels DEF Lone, Working, Commands, Saving
  <2>2. r # p => Lone(r) /\ OthersRest(r)
    BY <1>1, <2>1 DEF Lone
  <2>. QED  BY <1>1, <2>2 DEF OthersRest
<1>3. Lone(p)
  BY <1>1, <1>2 DEF Lone
<1>4. OthersRest(p)'
  BY <1>3, StepLabels DEF OthersRest, Working, Commands, Saving
<1>5. PassInv(p)'
  <2>1. CASE LoadFails(p) \/ Reject(p) \/ ReplaceFails(p)
    BY <1>2, <2>1, DiesOff, Idle DEF LoadFails, Reject, ReplaceFails
  <2>2. CASE ReplaceState(p)
    <3>1. pc'[p] \in {"sleep", "off"}
      BY <2>2 DEF ReplaceState, Returns, TypeInv, TypeOK, Process
    <3>. QED  BY <3>1, Idle
  <2>. QED
    BY <2>1, <2>2, <1>2, <1>3, LoadLone, NothingToDoLone, StartApplyingLone,
       EnsureGroupLone, EnsureAccountLone, PasswordLone, EnsureDirectoriesLone,
       WriteAuthorizedKeysLone, DisableMissingLone, FinishApplyingLone,
       WriteTmpLone DEF Step
<1>. QED  BY <1>2, <1>4, <1>5

LEMMA ContainerStep ==
    ASSUME TypeInv, ContainerInv, [Next]_vars
    PROVE  ContainerInv'
<1>. USE DEF ContainerInv, TypeInv, TypeOK
<1>. Boot \in Process /\ Sync \in Process /\ Boot # Sync
  BY DEF Process, Boot, Sync
<1>1. ASSUME NEW p \in Process, pc[p] # "off", Dies(p) PROVE ContainerInv'
  <2>1. CASE p = Boot
    BY <1>1, <2>1 DEF Dies, ForgetAll
  <2>2. CASE p # Boot
    BY <1>1, <2>2 DEF Dies, Goto
  <2>. QED  BY <2>1, <2>2
<1>2. ASSUME NEW p \in Process, pc[p] \notin {"off", "fill"}, NEW label, Goto(p, label),
             UNCHANGED <<up, opened>>
      PROVE  ContainerInv'
  BY <1>2 DEF Goto
<1>3. ASSUME NEW p \in Process, Step(p) PROVE ContainerInv'
  <2>1. pc[p] # "off"
    BY <1>3, StepLabels DEF InPass, Working, Commands, Saving
  <2>2. CASE Dies(p)
    BY <1>1, <2>1, <2>2
  <2>3. CASE OpenTmp(p) \/ FillTmp(p)
    <3>1. /\ pc[p] # "off" /\ UNCHANGED up
          /\ \/ Goto(p, "fill") /\ opened' = [opened EXCEPT ![p] = "tmp"]
             \/ Goto(p, "replace") /\ opened' = [opened EXCEPT ![p] = "none"]
      BY <2>3, <2>1 DEF OpenTmp, FillTmp
    <3>. QED  BY <3>1 DEF Goto
  <2>4. CASE ReplaceState(p)
    <3>1. /\ pc[p] = "replace" /\ Returns(p) /\ UNCHANGED up /\ up
          /\ opened' = [q \in Process |-> Renamed(opened[q])]
      BY <2>4 DEF ReplaceState, Returns
    <3>2. \A q \in Process : opened'[q] # "none" => opened[q] # "none" /\ q # p
      BY <3>1 DEF Renamed
    <3>3. p = Boot => pc[Sync] = "off"
      BY <3>1
    <3>4. \A q \in Process : pc[q] = "fill" => pc'[q] = "fill"
      BY <3>1, <3>3 DEF Returns
    <3>5. pc'[Boot] # "off" => pc'[Sync] = "off"
      BY <3>1 DEF Returns
    <3>. QED  BY <3>1, <3>2, <3>4, <3>5
  <2>5. CASE DisableMissing(p)
    BY <2>5 DEF DisableMissing
  <2>6. CASE \/ LoadUsers(p) \/ LoadState(p) \/ NothingToDo(p) \/ StartApplying(p)
             \/ SetPassword(p) \/ SetLock(p) \/ EnsureDirectories(p)
             \/ WriteAuthorizedKeys(p) \/ FinishApplying(p)
    BY <2>6, <1>2 DEF LoadUsers, LoadState, NothingToDo, StartApplying, SetPassword,
       SetLock, EnsureDirectories, WriteAuthorizedKeys, FinishApplying, locals
  <2>7. CASE (EnsureGroup(p) \/ EnsureAccount(p)) /\ ~Dies(p)
    BY <2>7, <1>2 DEF EnsureGroup, EnsureAccount, locals
  <2>. QED
    BY <1>3, <2>2, <2>3, <2>4, <2>5, <2>6, <2>7 DEF Step, LoadFails, Reject, ReplaceFails
<1>4. ASSUME NEW p \in Process, PassFails(p) PROVE ContainerInv'
  BY <1>1, <1>4 DEF PassFails, InPass, Working, Commands, Saving
<1>5. ASSUME NEW p \in Process, StartRefresh(p) PROVE ContainerInv'
  BY <1>5, ProcessAssumption DEF StartRefresh, Goto, locals
<1>6. ASSUME WakeUp \/ StartContainer PROVE ContainerInv'
  BY <1>6 DEF WakeUp, StartContainer, Goto, locals
<1>7. ASSUME StopContainer PROVE ContainerInv'
  BY <1>7 DEF StopContainer, ForgetAll
<1>8. ASSUME RecreateContainer \/ EditProvider \/ Tick \/ UNCHANGED vars PROVE ContainerInv'
  BY <1>8 DEF RecreateContainer, EditProvider, Tick, vars, locals
<1>. QED  BY <1>3, <1>4, <1>5, <1>6, <1>7, <1>8 DEF Next

LEMMA LoneStep == LoneInv /\ [Next]_vars => LoneInv'
<1>. SUFFICES ASSUME LoneInv, [Next]_vars PROVE LoneInv'
  OBVIOUS
<1>. USE DEF LoneInv
<1>. DEFINE Lonely == \A r \in Process : Lone(r) => OthersRest(r) /\ PassInv(r)
<1>1. now \in Nat
  BY DEF TypeInv, TypeOK
<1>2. ASSUME NEW p \in Process, LoadUsers(p) PROVE Lonely'
  <2>. SUFFICES ASSUME NEW r \in Process, Lone(r)'
                PROVE  OthersRest(r)' /\ PassInv(r)'
    OBVIOUS
  <2>1. r = p /\ OthersRest(p) /\ Goto(p, "state")
    BY <1>2 DEF LoadUsers, Lone, OthersRest
  <2>. QED  BY <1>2, <2>1, Advance, LoadLone DEF OthersRest
<1>3. ASSUME NEW p \in Process, Step(p) PROVE Lonely'
  BY <1>2, <1>3, LoneWork
<1>4. ASSUME NEW p \in Process, PassFails(p) PROVE Lonely'
  <2>1. Dies(p) /\ UNCHANGED <<now, alone, volumes, system>>
    BY <1>4 DEF PassFails
  <2>2. p = Boot => \A q \in Process : pc'[q] \notin Working
    BY <2>1 DEF Dies, Working, Commands, Saving
  <2>3. p # Boot => \A q \in Process \ {p} :
              /\ pc'[q] = pc[q] /\ users'[q] = users[q] /\ state'[q] = state[q]
              /\ planUid'[q] = planUid[q] /\ planGid'[q] = planGid[q]
              /\ at'[q] = at[q] /\ missing'[q] = missing[q] /\ opened'[q] = opened[q]
    BY <2>1 DEF Dies, Goto, Forget, TypeInv, TypeOK
  <2>4. pc'[p] \notin Working
    BY <2>1, DiesOff DEF Working, Commands, Saving
  <2>. QED  BY <1>1, <2>1, <2>2, <2>3, <2>4, Quiet
<1>5. ASSUME NEW p \in Process, NEW label \in {"load"}, Goto(p, label),
             UNCHANGED <<outside, volumes, system, locals>>
      PROVE  Lonely'
  <2>1. pc'[p] \notin Working /\ \A q \in Process \ {p} : pc'[q] = pc[q]
    BY <1>5, Advance DEF Working, Commands, Saving
  <2>. QED  BY <1>1, <1>5, <2>1, Quiet DEF outside, locals
<1>6. ASSUME WakeUp \/ StartContainer \/ \E p \in Process : StartRefresh(p) PROVE Lonely'
  BY <1>5, <1>6 DEF WakeUp, StartContainer, StartRefresh, Process
<1>7. ASSUME StopContainer \/ RecreateContainer PROVE Lonely'
  <2>1. \A q \in Process : pc'[q] = "off"
    BY <1>7 DEF StopContainer, RecreateContainer, ContainerInv
  <2>. QED  BY <2>1 DEF Lone, Working, Commands, Saving
<1>8. ASSUME EditProvider \/ Tick \/ UNCHANGED vars PROVE Lonely'
  <2>1. UNCHANGED <<alone, volumes, system, pc, locals>> /\ now' \in Nat /\ now <= now'
    BY <1>1, <1>8 DEF EditProvider, Tick, vars, outside
  <2>. QED  BY <2>1, Quiet DEF locals
<1>9. Lonely'
  BY <1>3, <1>4, <1>6, <1>7, <1>8 DEF Next
<1>. QED  BY <1>9, TypeStep, ContainerStep

LEMMA LoneAlways == Spec => []LoneInv
BY LoneInit, LoneStep, PTL DEF Spec

-----------------------------------------------------------------------------
(* What a pass that runs alone makes of the system *)

(* Renaming state.tmp installs the state of the pass. *)
LEMMA LoneReplaces ==
    ASSUME LoneInv, NEW p \in Process, p \in alone, ReplaceState(p)
    PROVE  /\ PassInv(p) /\ pc[p] = "replace"
           /\ stateFile' = state[p] /\ state[p] \in SavedState
           /\ UNCHANGED <<now, upload, system>>
<1>1. pc[p] = "replace" /\ PassInv(p)
  BY DEF ReplaceState, LoneInv, Lone, Working, Saving
<1>2. tmpFile = {state[p]}
  BY <1>1 DEF PassInv, SavingInv
<1>. QED  BY <1>1, <1>2 DEF ReplaceState, LoneInv, TypeInv, TypeOK, outside

(* A save whose state is applied leaves a truthful state.json. *)
LEMMA AppliedIsSaved ==
    ASSUME LoneInv, NEW p \in Process, p \in alone, ReplaceState(p),
           Applied(state[p], users[p])
    PROVE  SavedUsersApplied' /\ SavedRemovedLocked'
<1>1. /\ PassInv(p) /\ pc[p] = "replace"
      /\ stateFile' = state[p] /\ state[p] \in SavedState
      /\ UNCHANGED <<now, upload, system>>
  BY LoneReplaces
<1>2. users[p] \in Content \cup {EmptyContent}
  BY DEF LoneInv, TypeInv, TypeOK
<1>3. state[p].fingerprint = Fingerprint(users[p])
  BY <1>1 DEF PassInv, SavingInv, Saving
<1>4. /\ Applied(state[p], state[p].fingerprint)
      /\ Names(state[p].fingerprint) = Names(users[p])
  BY <1>1, <1>2, <1>3, AppliedFingerprint
<1>5. Whole(stateFile)'
  BY <1>1, FileAssumption DEF Whole
<1>6. SavedUsersApplied'
  BY <1>1, <1>4, <1>5 DEF SavedUsersApplied, Applied, UserApplied, ActiveKeys, system
<1>7. SavedRemovedLocked'
  BY <1>1, <1>4 DEF PassInv, RemovedInv, SavedRemovedLocked, system, Commands, Saving
<1>. QED  BY <1>6, <1>7

(* Whatever overlapping passes, crashes and failing commands of any number  *)
(* of refreshes have left behind, a refresh that overlaps no other pass and *)
(* succeeds leaves every account as the content it read asks and every user *)
(* it knows to be removed locked.                                           *)
THEOREM LoneRefreshAlwaysRepairs == Spec => LoneRefreshRepairs
<1>1. ASSUME LoneInv, NEW p \in Process \ {Sync}, ReplaceState(p), p \in alone
      PROVE  SavedUsersApplied' /\ SavedRemovedLocked'
  <2>1. Applied(state[p], users[p])
    BY <1>1, LoneReplaces DEF PassInv, SavingInv, Saving
  <2>. QED  BY <1>1, <2>1, AppliedIsSaved
<1>2. LoneInv /\ [Next]_vars =>
        [\A p \in Process \ {Sync} :
           ReplaceState(p) /\ p \in alone => SavedUsersApplied' /\ SavedRemovedLocked']_vars
  BY <1>1
<1>. QED  BY <1>2, LoneAlways, PTL DEF Spec, LoneRefreshRepairs

(* Such a save is a step of the ledger. *)
LEMMA LoneRecord ==
    ASSUME LoneInv, NEW p \in Process, p \in alone, ReplaceState(p)
    PROVE  Ledger!Record
<1>1. PassInv(p) /\ pc[p] = "replace" /\ stateFile' = state[p] /\ state[p] \in SavedState
  BY LoneReplaces
<1>2. \A u \in User : Kept(u, state[p].uid[u])
  BY <1>1 DEF PassInv, LoadedInv, Saving
<1>3. stateFile'.uid \in [User -> Nat]
  BY <1>1 DEF SavedState
<1>4. ASSUME NEW u \in User PROVE Ledger!Preserves(u)
  BY <1>1, <1>2 DEF Kept, Pinned, Ledger!Preserves
<1>. QED  BY <1>3, <1>4 DEF Ledger!Record

(* For any number of refreshes: a pass that has run alone, be it of the     *)
(* loop or a refresh, saves every identity that it found in state.json,     *)
(* changing only those a content pins.                                      *)
THEOREM LonePassesKeepIdentities == Spec => LonePassKeepsIdentities
<1>1. LoneInv /\ [Next]_vars =>
        [\A p \in Process : ReplaceState(p) /\ p \in alone => Ledger!Record]_vars
  BY LoneRecord
<1>. QED  BY <1>1, LoneAlways, PTL DEF Spec, LonePassKeepsIdentities

-----------------------------------------------------------------------------
(* The invariant of a container without refreshes beside the loop *)

(* The loop and the boot are never in a pass together, so each has been     *)
(* alone since it read the provider.                                        *)
Solitary ==
    \A p \in Process : pc[p] \in Working => p \in alone

SavedInv == Settled => SavedUsersApplied /\ SavedRemovedLocked

(* What the loop saves without doing anything is applied as well. *)
SkippedInv ==
    \A p \in Process : pc[p] \in Saving => Applied(state[p], users[p])

SoloInv == LoneInv /\ Solitary /\ SavedInv /\ SkippedInv

(* One of the two processes is off. *)
LEMMA Twosome ==
    ASSUME Refreshers = {}, LoneInv
    PROVE  /\ Process = {Boot, Sync} /\ Boot # Sync
           /\ pc[Boot] = "off" \/ pc[Sync] = "off"
BY DEF Process, Boot, Sync, LoneInv, ContainerInv

LEMMA SolitaryStep ==
    ASSUME Refreshers = {}, LoneInv, LoneInv', Solitary, [Next]_vars
    PROVE  Solitary'
<1>. USE DEF Solitary
<1>1. ASSUME NEW p \in Process, LoadUsers(p) PROVE Solitary'
  <2>1. pc[p] = "load" /\ \A q \in Process \ {p} : pc[q] = "off" /\ pc'[q] = "off"
    BY <1>1, Twosome, Advance DEF LoadUsers, LoneInv
  <2>2. alone' = {p}
    BY <1>1, <2>1 DEF LoadUsers, Working, Commands, Saving
  <2>. QED  BY <2>1, <2>2 DEF Working, Commands, Saving
<1>2. ASSUME NEW p \in Process, Step(p), ~LoadUsers(p) PROVE Solitary'
  <2>1. pc[p] \in Working /\ UNCHANGED alone
    BY <1>2 DEF Step, LoadState, LoadFails, Reject, NothingToDo, StartApplying,
       EnsureGroup, EnsureAccount, SetPassword, SetLock, EnsureDirectories,
       WriteAuthorizedKeys, DisableMissing, FinishApplying, OpenTmp, FillTmp,
       ReplaceState, ReplaceFails, Working, Commands, Saving, outside
  <2>2. \A q \in Process \ {p} : pc'[q] \in Working => pc[q] \in Working
    BY <1>2, StepLabels DEF LoneInv, Working, Commands, Saving
  <2>. QED  BY <2>1, <2>2
<1>3. ASSUME NEW p \in Process, PassFails(p) PROVE Solitary'
  <2>1. Dies(p) /\ UNCHANGED alone
    BY <1>3 DEF PassFails
  <2>. QED  BY <2>1, DiesOff, OtherLabels DEF LoneInv, Working, Commands, Saving
<1>4. ASSUME NEW p \in Process, Goto(p, "load"), UNCHANGED outside PROVE Solitary'
  BY <1>4, Advance DEF LoneInv, outside, Working, Commands, Saving
<1>5. ASSUME WakeUp \/ StartContainer \/ \E p \in Process : StartRefresh(p) PROVE Solitary'
  BY <1>4, <1>5 DEF WakeUp, StartContainer, StartRefresh, Process
<1>6. ASSUME StopContainer PROVE Solitary'
  BY <1>6 DEF StopContainer, Working, Commands, Saving
<1>7. ASSUME RecreateContainer \/ EditProvider \/ Tick \/ UNCHANGED vars PROVE Solitary'
  BY <1>7 DEF RecreateContainer, EditProvider, Tick, vars, outside
<1>. QED  BY <1>1, <1>2, <1>3, <1>5, <1>6, <1>7 DEF Next

(* The loop finds nothing to do only when a truthful fingerprint says so. *)
LEMMA NothingToDoApplied ==
    ASSUME Refreshers = {}, SoloInv, NEW p \in Process, NothingToDo(p)
    PROVE  Applied(state[p], users[p])'
<1>. USE DEF SoloInv, LoneInv, TypeInv, TypeOK
<1>1. pc[p] = "plan" /\ p \in alone /\ UNCHANGED <<outside, volumes, system, users>>
  BY DEF NothingToDo, Solitary, Working
<1>2. PassInv(p) /\ state[p] = stateFile /\ state[p] \in SavedState
  BY <1>1 DEF PassInv, LoadedInv, Lone, Working
<1>3. state'[p].uid = state[p].uid /\ state'[p].gid = state[p].gid
  BY <1>2 DEF NothingToDo, SavedState
<1>4. Applied(state[p], users[p])
  <2>1. CASE Names(users[p]) = {}
    BY <2>1 DEF Applied
  <2>2. CASE Names(users[p]) # {}
    <3>1. p = Sync /\ state[p].fingerprint = Fingerprint(users[p])
      BY <2>2 DEF NothingToDo, Changed
    <3>2. users[p] \in Content
      BY <2>2 DEF EmptyContent, Names
    <3>3. Settled
      BY <3>1, <1>1, Twosome DEF Settled
    <3>4. Applied(stateFile, stateFile.fingerprint)
      BY <3>1, <3>2, <3>3, <1>2, FingerprintAssumption DEF SavedInv, SavedUsersApplied
    <3>. QED  BY <3>1, <3>4, <1>2, AppliedFingerprint
  <2>. QED  BY <2>1, <2>2
<1>. QED  BY <1>1, <1>3, <1>4
          DEF Applied, UserApplied, ActiveKeys, outside, volumes, system

(* Applied accounts stay applied when the step touches none of them. *)
LEMMA AppliedFrame ==
    ASSUME LoneInv, NEW q \in Process, Applied(state[q], users[q]), now' \in Nat, now <= now',
           UNCHANGED <<upload, system>>, users'[q] = users[q], state'[q] = state[q]
    PROVE  Applied(state[q], users[q])'
<1>1. users[q] \in Content \cup {EmptyContent}
  BY DEF LoneInv, TypeInv, TypeOK
<1>2. \A u \in Names(users[q]) :
        ActiveKeys(users[q], u, now') \subseteq ActiveKeys(users[q], u, now)
  BY <1>1, ActiveKeysShrink DEF LoneInv, TypeInv, TypeOK
<1>3. \A u : ActiveKeys(users[q], u, now)' = ActiveKeys(users[q], u, now')
  BY DEF ActiveKeys
<1>. QED  BY <1>2, <1>3 DEF Applied, UserApplied, system

LEMMA SkippedStep ==
    ASSUME Refreshers = {}, SoloInv, LoneInv', [Next]_vars
    PROVE  SkippedInv'
<1>. SUFFICES ASSUME NEW r \in Process, pc'[r] \in Saving
              PROVE  Applied(state[r], users[r])'
  BY DEF SkippedInv
<1>. USE DEF SoloInv, LoneInv
<1>1. now \in Nat
  BY DEF TypeInv, TypeOK
<1>2. ASSUME NEW p \in Process, Step(p) PROVE Applied(state[r], users[r])'
  <2>1. pc[p] # "off" /\ r = p
    <3>1. pc[p] # "off" /\ (r # p => pc'[r] = pc[r])
      BY <1>2, StepLabels DEF InPass, Working, Commands, Saving
    <3>. QED  BY <3>1, Twosome DEF Saving
  <2>2. CASE NothingToDo(p)
    BY <2>1, <2>2, NothingToDoApplied
  <2>3. CASE FinishApplying(p)
    <3>1. Lone(p)
      BY <2>3 DEF FinishApplying, Solitary, Lone, Working, Commands
    <3>. QED  BY <2>1, <2>3, <3>1, FinishApplyingApplied
  <2>4. CASE OpenTmp(p) \/ FillTmp(p)
    <3>1. /\ pc[p] \in Saving
          /\ UNCHANGED <<now, upload, system, users, state>>
      BY <2>4 DEF OpenTmp, FillTmp, outside, Saving
    <3>. QED  BY <2>1, <3>1, <1>1, AppliedFrame DEF SkippedInv
  <2>5. CASE LoadFails(p) \/ Reject(p) \/ ReplaceFails(p) \/ Dies(p)
    <3>1. pc'[p] = "off"
      BY <2>5, DiesOff DEF LoadFails, Reject, ReplaceFails
    <3>. QED  BY <2>1, <3>1 DEF Saving
  <2>6. CASE ReplaceState(p)
    <3>1. pc'[p] \in {"sleep", "off"}
      BY <2>6 DEF ReplaceState, Returns, TypeInv, TypeOK, Process
    <3>. QED  BY <2>1, <3>1 DEF Saving
  <2>7. CASE \/ LoadUsers(p) \/ LoadState(p) \/ StartApplying(p) \/ EnsureGroup(p)
             \/ EnsureAccount(p) \/ SetPassword(p) \/ SetLock(p) \/ EnsureDirectories(p)
             \/ WriteAuthorizedKeys(p) \/ DisableMissing(p)
    <3>1. Dies(p) \/ \E label \in {"state", "plan"} \cup Commands : Goto(p, label) \/ pc'[p] = label
      BY <2>7 DEF LoadUsers, LoadState, StartApplying, EnsureGroup, EnsureAccount, SetPassword,
         SetLock, EnsureDirectories, WriteAuthorizedKeys, DisableMissing, LoopLabel, Commands
    <3>2. Dies(p)
      BY <3>1, <2>1, Advance DEF Saving, Commands
    <3>. QED  BY <2>5, <3>2
  <2>. QED  BY <1>2, <2>2, <2>3, <2>4, <2>5, <2>6, <2>7 DEF Step
<1>3. ASSUME NEW p \in Process, PassFails(p) PROVE Applied(state[r], users[r])'
  <2>1. pc[p] # "off" /\ Dies(p)
    BY <1>3 DEF PassFails, InPass, Working, Commands, Saving
  <2>2. pc'[r] = "off"
    BY <2>1, DiesOff, OtherLabels, Twosome DEF Saving
  <2>. QED  BY <2>2 DEF Saving
<1>4. ASSUME NEW p \in Process, Goto(p, "load"), UNCHANGED <<outside, volumes, system, locals>>
      PROVE  Applied(state[r], users[r])'
  <2>1. pc[r] \in Saving
    BY <1>4, Advance DEF Saving
  <2>. QED  BY <1>1, <1>4, <2>1, AppliedFrame DEF SkippedInv, outside, volumes, locals
<1>5. ASSUME WakeUp \/ StartContainer \/ \E p \in Process : StartRefresh(p)
      PROVE  Applied(state[r], users[r])'
  BY <1>4, <1>5 DEF WakeUp, StartContainer, StartRefresh, Process
<1>6. ~(StopContainer \/ RecreateContainer)
  BY DEF StopContainer, RecreateContainer, ContainerInv, Saving
<1>7. ASSUME EditProvider \/ Tick \/ UNCHANGED vars PROVE Applied(state[r], users[r])'
  <2>1. UNCHANGED <<volumes, system, pc, locals>> /\ now' \in Nat /\ now <= now'
    BY <1>1, <1>7 DEF EditProvider, Tick, vars, outside
  <2>. QED  BY <2>1, AppliedFrame DEF SkippedInv, volumes, locals
<1>. QED  BY <1>2, <1>3, <1>5, <1>6, <1>7 DEF Next

LEMMA SavedFrame ==
    ASSUME SoloInv, Settled, now' \in Nat, now <= now', UNCHANGED <<volumes, system>>
    PROVE  SavedUsersApplied' /\ SavedRemovedLocked'
<1>. USE DEF SoloInv, LoneInv
<1>1. SavedUsersApplied /\ SavedRemovedLocked
  BY DEF SavedInv
<1>2. SavedRemovedLocked'
  BY <1>1 DEF SavedRemovedLocked, volumes, system
<1>3. ASSUME stateFile.fingerprint # NoFingerprint
      PROVE  Applied(stateFile, stateFile.fingerprint)'
  <2>. DEFINE f == stateFile.fingerprint
  <2>1. stateFile \in SavedState
    BY <1>1 DEF SavedUsersApplied, Whole, TypeInv, TypeOK
  <2>2. PICK c \in Content \cup {EmptyContent} : f = Fingerprint(c)
    BY <1>3, <2>1 DEF SavedState
  <2>3. Applied(stateFile, Fingerprint(c)) /\ Names(Fingerprint(c)) = Names(c)
    BY <1>1, <1>3, <2>1, <2>2, AppliedFingerprint DEF SavedUsersApplied
  <2>4. ASSUME NEW u \in Names(c)
        PROVE  ActiveKeys(Fingerprint(c), u, now') \subseteq ActiveKeys(Fingerprint(c), u, now)
    <3>1. c.spec[u] \in UserSpec
      BY ContentFacts
    <3>2. Fingerprint(c).spec[u] = [c.spec[u] EXCEPT !.comment = FALSE]
      BY <2>4 DEF Fingerprint
    <3>3. Fingerprint(c).spec[u].keys = c.spec[u].keys
      BY <3>1, <3>2 DEF UserSpec
    <3>4. ActiveKeys(c, u, now') \subseteq ActiveKeys(c, u, now)
      BY <2>4, ActiveKeysShrink DEF TypeInv, TypeOK
    <3>. QED  BY <3>3, <3>4 DEF ActiveKeys
  <2>5. \A u : ActiveKeys(Fingerprint(c), u, now)' = ActiveKeys(Fingerprint(c), u, now')
    BY DEF ActiveKeys
  <2>6. Applied(stateFile, Fingerprint(c))'
    BY <2>3, <2>4, <2>5 DEF Applied, UserApplied, volumes, system
  <2>7. stateFile'.fingerprint = Fingerprint(c)
    BY <2>2 DEF volumes
  <2>. QED  BY <2>6, <2>7
<1>4. Whole(stateFile)'
  BY <1>1 DEF SavedUsersApplied, volumes
<1>. QED  BY <1>2, <1>3, <1>4 DEF SavedUsersApplied, volumes

(* While a process other than the loop runs, or the loop applies or saves, *)
(* nothing is settled.                                                     *)
LEMMA SavedStep ==
    ASSUME Refreshers = {}, SoloInv, LoneInv', [Next]_vars
    PROVE  SavedInv'
<1>. SUFFICES ASSUME Settled'
              PROVE  SavedUsersApplied' /\ SavedRemovedLocked'
  BY DEF SavedInv
<1>. USE DEF SoloInv, LoneInv
<1>1. now \in Nat /\ pc'[Sync] \in {"sleep", "load", "state", "plan"}
  BY DEF TypeInv, TypeOK, Settled
<1>2. ASSUME NEW p \in Process, ReplaceState(p)
      PROVE  SavedUsersApplied' /\ SavedRemovedLocked'
  <2>1. p \in alone /\ Applied(state[p], users[p])
    BY <1>2 DEF ReplaceState, Solitary, SkippedInv, Working, Saving
  <2>. QED  BY <1>2, <2>1, AppliedIsSaved
<1>3. ASSUME NEW p \in Process, LoadUsers(p) \/ LoadState(p)
      PROVE  SavedUsersApplied' /\ SavedRemovedLocked'
  <2>1. pc[p] \in {"load", "state"} /\ pc'[p] # "off" /\ \A q \in Process \ {p} : pc'[q] = pc[q]
    BY <1>3, Advance DEF LoadUsers, LoadState
  <2>2. p = Sync
    BY <2>1, Twosome DEF Settled
  <2>3. Settled
    BY <2>1, <2>2, Twosome DEF Settled
  <2>4. UNCHANGED <<now, volumes, system>>
    BY <1>3 DEF LoadUsers, LoadState, outside
  <2>. QED  BY <1>1, <2>3, <2>4, SavedFrame
<1>4. ASSUME NEW p \in Process, Step(p), ~ReplaceState(p), ~LoadUsers(p), ~LoadState(p)
      PROVE  FALSE
  <2>1. pc[p] # "off"
    BY <1>4, StepLabels DEF InPass, Working, Commands, Saving
  <2>2. CASE LoadFails(p) \/ Reject(p) \/ ReplaceFails(p) \/ Dies(p)
    BY <1>1, <2>1, <2>2, DiesOff, OtherLabels, Twosome DEF LoadFails, Reject, ReplaceFails, Dies, Settled
  <2>3. CASE ~Dies(p) /\ ~LoadFails(p) /\ ~Reject(p) /\ ~ReplaceFails(p)
    <3>1. \E label \in Commands \cup Saving : Goto(p, label) \/ (pc[p] = label /\ UNCHANGED pc)
      BY <1>4, <2>3 DEF Step, NothingToDo, StartApplying, EnsureGroup, EnsureAccount,
         SetPassword, SetLock, EnsureDirectories, WriteAuthorizedKeys, DisableMissing,
         FinishApplying, OpenTmp, FillTmp, LoopLabel, Commands, Saving
    <3>2. pc'[p] \in Commands \cup Saving
      BY <3>1, Advance
    <3>. QED  BY <3>2, Twosome DEF Settled, Commands, Saving
  <2>. QED  BY <2>2, <2>3
<1>5. ASSUME NEW p \in Process, PassFails(p) PROVE FALSE
  <2>1. pc[p] # "off" /\ Dies(p)
    BY <1>5 DEF PassFails, InPass, Working, Commands, Saving
  <2>. QED  BY <1>1, <2>1, DiesOff, Twosome DEF Dies, Settled, Goto, TypeInv, TypeOK
<1>6. ASSUME NEW p \in Process, StartRefresh(p) PROVE FALSE
  BY <1>6 DEF StartRefresh
<1>7. ASSUME WakeUp PROVE SavedUsersApplied' /\ SavedRemovedLocked'
  <2>1. pc[Sync] = "sleep" /\ Settled
    BY <1>7, Twosome DEF WakeUp, Settled
  <2>. QED  BY <1>1, <1>7, <2>1, SavedFrame DEF WakeUp, outside
<1>8. ASSUME StartContainer \/ StopContainer \/ RecreateContainer PROVE FALSE
  <2>1. pc'[Sync] = "off"
    BY <1>8, Twosome, Advance DEF StartContainer, StopContainer, RecreateContainer, ContainerInv
  <2>. QED  BY <1>1, <2>1
<1>9. ASSUME EditProvider \/ Tick \/ UNCHANGED vars
      PROVE  SavedUsersApplied' /\ SavedRemovedLocked'
  <2>1. UNCHANGED <<volumes, system, pc>> /\ now' \in Nat /\ now <= now'
    BY <1>1, <1>9 DEF EditProvider, Tick, vars, outside
  <2>. QED  BY <2>1, SavedFrame DEF Settled
<1>. QED  BY <1>2, <1>3, <1>4, <1>5, <1>6, <1>7, <1>8, <1>9 DEF Next

LEMMA SoloInit == Init => SoloInv
<1>. SUFFICES ASSUME Init PROVE SoloInv
  OBVIOUS
<1>1. \A p \in Process : pc[p] = "off"
  BY DEF Init
<1>2. ~Settled
  BY <1>1 DEF Settled, Process
<1>. QED  BY <1>1, <1>2, LoneInit DEF SoloInv, Solitary, SavedInv, SkippedInv, Working, Commands, Saving

LEMMA SoloAlways ==
    ASSUME Refreshers = {}
    PROVE  Spec => []SoloInv
<1>1. SoloInv /\ [Next]_vars => SoloInv'
  BY LoneStep, SolitaryStep, SkippedStep, SavedStep DEF SoloInv
<1>. QED  BY <1>1, SoloInit, PTL DEF Spec

-----------------------------------------------------------------------------
(* What follows *)

(* Whatever crashes, failing commands, recreations and edits happen: when   *)
(* the loop of a container without other refreshes decides whether to trust *)
(* the fingerprint in state.json, every account is as the content behind    *)
(* that fingerprint asks.                                                   *)
THEOREM FingerprintIsTruthful ==
    ASSUME Refreshers = {}
    PROVE  Spec => []FingerprintTruthful
<1>1. SoloInv => FingerprintTruthful
  BY DEF SoloInv, SavedInv, FingerprintTruthful
<1>. QED  BY <1>1, SoloAlways, PTL

(* In the same container, every removed user that state.json knows is       *)
(* locked whenever the loop rests between two passes.                       *)
THEOREM KnownRemovedUsersAreLocked ==
    ASSUME Refreshers = {}
    PROVE  Spec => []KnownRemovedUsersLocked
<1>1. SoloInv => KnownRemovedUsersLocked
  BY DEF SoloInv, SavedInv, KnownRemovedUsersLocked
<1>. QED  BY <1>1, SoloAlways, PTL

(* Only renaming state.tmp changes state.json, to a state that keeps every  *)
(* identity the file holds.                                                 *)
LEMMA LedgerStep ==
    ASSUME SoloInv, [Next]_vars
    PROVE  [Ledger!Record]_(stateFile.uid)
<1>. USE DEF SoloInv
<1>1. CASE UNCHANGED stateFile
  BY <1>1
<1>2. CASE stateFile' # stateFile
  <2>1. PICK p \in Process : ReplaceState(p) \/ FillTmp(p)
    BY <1>2 DEF Next, Step, LoadUsers, LoadState, LoadFails, Reject, NothingToDo, StartApplying,
      EnsureGroup, EnsureAccount, SetPassword, SetLock, EnsureDirectories,
      WriteAuthorizedKeys, DisableMissing, FinishApplying, OpenTmp, ReplaceFails,
      PassFails, WakeUp, StartRefresh, StartContainer, StopContainer,
      RecreateContainer, EditProvider, Tick, volumes, vars
  <2>2. p \in alone /\ Lone(p)
    BY <2>1 DEF ReplaceState, FillTmp, Solitary, Lone, Working, Saving
  <2>. QED  BY <1>2, <2>1, <2>2, WriteTmpLone, LoneRecord
<1>. QED  BY <1>1, <1>2

(* Runtime implements IdentityLedger in such a container: state.json never  *)
(* forgets a user and never changes a UID that no content pins.             *)
THEOREM LedgerImplemented ==
    ASSUME Refreshers = {}
    PROVE  Spec => IdentitiesPreserved
<1>1. Init => Ledger!Init
  BY DEF Init, Ledger!Init, EmptyState, NoIds
<1>2. SoloInv /\ [Next]_vars => [Ledger!Record]_(stateFile.uid)
  BY LedgerStep
<1>. QED  BY <1>1, <1>2, SoloAlways, PTL DEF Spec, IdentitiesPreserved, Ledger!Spec
=============================================================================
