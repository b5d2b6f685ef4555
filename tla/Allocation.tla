----------------------------- MODULE Allocation -----------------------------
(***************************************************************************)
(* The loop of allocate_users (sftpwarden/runtime/core.py), one iteration  *)
(* of it and of the search inside allocate_uid per step, over every        *)
(* content and every saved state of the constants.                         *)
(***************************************************************************)
EXTENDS ProviderData

CONSTANT SavedIds        \* the ids a state.json entry may hold

ASSUME SavedIdsAssumption == SavedIds \subseteq Nat \ {0}
ASSUME ContentAssumption == \A c \in Content : WellFormed(c)
ASSUME IdAssumption == FirstId \in Nat \ {0} /\ LastId \in Nat

VARIABLES
    content,   \* users
    su, sg,    \* the UIDs and GIDs of the loaded state
    at,        \* position in users.users of the user being resolved
    next_id,   \* allocation cursor
    used_ids,  \* ids that cannot be handed out
    seen_ids,  \* UIDs resolved so far
    uid, gid,  \* resolved identities, 0 when not resolved yet
    result     \* "running", "returned" or "raised"

input == <<content, su, sg>>
vars == <<content, su, sg, at, next_id, used_ids, seen_ids, uid, gid, result>>

ZeroIds == [u \in User |-> 0]

(* The loop's locals, once validate_explicit_ids has accepted the content. *)
Init ==
    /\ content \in Content
    /\ su \in [User -> SavedIds \cup {0}]
    /\ sg \in [User -> SavedIds \cup {0}]
    /\ \A u \in User : sg[u] = 0 <=> su[u] = 0
    /\ at = 1
    /\ next_id = FirstId
    /\ used_ids = UsedIds(content, su)
    /\ seen_ids = {}
    /\ uid = ZeroIds
    /\ gid = ZeroIds
    /\ result = IF ExplicitIdsUnique(content) THEN "running" ELSE "raised"

Current == content.users[at]

Running == result = "running" /\ at \in DOMAIN content.users

NeedsNewId == FixedUid(content, su, Current) = 0

SkipUsedIdStuck ==
    /\ Running /\ NeedsNewId
    /\ next_id \in used_ids
    /\ UNCHANGED vars

(* while next_id in used_ids: next_id += 1 *)
SkipUsedId ==
    /\ Running
    /\ NeedsNewId
    /\ next_id \in used_ids
    /\ next_id' = next_id + 1
    /\ UNCHANGED <<input, at, used_ids, seen_ids, uid, gid, result>>

ResolveTwoSteps(id) ==
    /\ id \notin seen_ids
    /\ seen_ids' = seen_ids \cup {id}
    /\ uid' = [uid EXCEPT ![Current] = id]
    /\ gid' = [gid EXCEPT ![Current] = id]
    /\ at' = at + 2
    /\ UNCHANGED <<input, next_id, result>>

ResolveGidFromUid(id) ==
    /\ id \notin seen_ids
    /\ seen_ids' = seen_ids \cup {id}
    /\ uid' = [uid EXCEPT ![Current] = id]
    /\ gid' = [gid EXCEPT ![Current] =
                 IF content.spec[Current].gid # 0 THEN content.spec[Current].gid ELSE id]
    /\ at' = at + 1
    /\ UNCHANGED <<input, next_id, result>>

(* The rest of an iteration, with the UID allocate_uid returned. *)
Resolve(id) ==
    /\ id \notin seen_ids
    /\ seen_ids' = seen_ids \cup {id}
    /\ uid' = [uid EXCEPT ![Current] = id]
    /\ gid' = [gid EXCEPT ![Current] =
                 IF content.spec[Current].gid # 0 THEN content.spec[Current].gid
                 ELSE IF su[Current] # 0 THEN sg[Current] ELSE id]
    /\ at' = at + 1
    /\ UNCHANGED <<input, next_id, result>>

TakeNextId ==
    /\ Running
    /\ NeedsNewId
    /\ next_id \notin used_ids
    /\ next_id <= LastId
    /\ used_ids' = used_ids \cup {next_id}
    /\ Resolve(next_id)

KeepId ==
    /\ Running
    /\ ~NeedsNewId
    /\ Resolve(FixedUid(content, su, Current))
    /\ UNCHANGED used_ids

RaiseExhausted ==
    /\ Running
    /\ NeedsNewId
    /\ next_id \notin used_ids
    /\ next_id > LastId
    /\ result' = "raised"
    /\ UNCHANGED <<input, at, next_id, used_ids, seen_ids, uid, gid>>

(* assert_unique_resolved_uid *)
RaiseDuplicate ==
    /\ Running
    /\ LET id == IF NeedsNewId THEN next_id ELSE FixedUid(content, su, Current)
       IN  /\ id \in seen_ids
           /\ NeedsNewId => next_id \notin used_ids /\ next_id <= LastId
    /\ result' = "raised"
    /\ UNCHANGED <<input, at, next_id, used_ids, seen_ids, uid, gid>>

Return ==
    /\ result = "running"
    /\ at \notin DOMAIN content.users
    /\ result' = "returned"
    /\ UNCHANGED <<input, at, next_id, used_ids, seen_ids, uid, gid>>

Next ==
    \/ SkipUsedId \/ TakeNextId \/ KeepId
    \/ RaiseExhausted \/ RaiseDuplicate \/ Return

Spec == Init /\ [][Next]_vars /\ WF_vars(Next)
-----------------------------------------------------------------------------
Done(u) == uid[u] # 0

TypeOK ==
    /\ content \in Content
    /\ su \in [User -> Nat] /\ sg \in [User -> Nat]
    /\ at \in 1 .. Len(content.users) + 1
    /\ next_id \in Nat
    /\ used_ids \subseteq Nat /\ seen_ids \subseteq Nat
    /\ uid \in [User -> Nat] /\ gid \in [User -> Nat]
    /\ result \in {"running", "returned", "raised"}

(* An id the loop hands out is in the configured range and nobody else's:  *)
(* not the UID resolved for another user so far, not one that a later user *)
(* of the content will keep from state.json, and not an explicit UID or    *)
(* GID of the content.                                                     *)
NewIdsAreFresh ==
    \A u \in Names(content) :
       Done(u) /\ FixedUid(content, su, u) = 0 =>
          /\ uid[u] \in FirstId .. LastId
          /\ \A w \in Names(content) \ {u} :
                uid[u] \notin {uid[w], su[w], content.spec[w].uid, content.spec[w].gid}

(* A user keeps the identity state.json remembers unless the provider now  *)
(* pins another one (test_allocate_users_preserves_existing_ids).          *)
SavedIdsPreserved ==
    \A u \in Names(content) :
       Done(u) /\ su[u] # 0 =>
          /\ content.spec[u].uid = 0 => uid[u] = su[u]
          /\ content.spec[u].gid = 0 => gid[u] = sg[u]

(* The declarative allocation the Runtime module uses is this loop: it     *)
(* succeeds on the same inputs and resolves the same identities.           *)
LoopMatchesDefinition ==
    /\ result = "raised" => ~AllocationSucceeds(content, su)
    /\ result = "returned" =>
          /\ AllocationSucceeds(content, su)
          /\ \A u \in Names(content) :
                /\ uid[u] = ResolvedUid(content, su, u)
                /\ gid[u] = ResolvedGid(content, su, sg, u)

(* The search for a free id cannot run on: every call returns or raises.   *)
Terminates == <>(result # "running")
=============================================================================
