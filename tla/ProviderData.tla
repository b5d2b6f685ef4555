---------------------------- MODULE ProviderData ----------------------------
(***************************************************************************)
(* What a user provider holds, and the identities the runtime derives from *)
(* it: sftpwarden/users/models.py, users/service.py and the pure functions *)
(* of sftpwarden/runtime/core.py.                                          *)
(*                                                                         *)
(* A content is one value of ProviderUsers: the usernames in their stored  *)
(* order and the definition of each.  A uid or gid of 0 stands for None.   *)
(* NoHash stands for a missing password_hash and for one that starts with  *)
(* "!" or "*": has_usable_password_hash treats them alike.                 *)
(***************************************************************************)
EXTENDS Naturals, Sequences, FiniteSets

CONSTANTS
    User,            \* usernames
    Key,             \* enabled public keys of any user
    Hash,            \* usable password hashes
    NoHash,          \* no usable password hash
    Content,         \* the contents operators store in the provider
    Expiry,          \* Expiry[k]: the instant from which key k is expired
    NoFingerprint,   \* the fingerprint of a runtime that never saved a state
    AllowPassword,   \* auth.allow_password of sftpwarden.yaml
    AllowPublicKey,  \* auth.allow_public_key of sftpwarden.yaml
    FirstId,         \* uid_gid.start
    LastId           \* uid_gid.end

UserSpec ==
    [disabled: BOOLEAN, hash: Hash \cup {NoHash}, keys: SUBSET Key,
     uid: Nat, gid: Nat, comment: BOOLEAN]

Names(c) == {c.users[i] : i \in DOMAIN c.users}

EmptyContent == [users |-> <<>>, spec |-> <<>>]

(* SFTPUser and ProviderUsers validation: usernames and explicit UIDs are  *)
(* unique within a content.                                                *)
WellFormed(c) ==
    /\ c.users \in Seq(User)
    /\ \A i, j \in DOMAIN c.users : c.users[i] = c.users[j] => i = j
    /\ c.spec \in [Names(c) -> UserSpec]
    /\ \A u, w \in Names(c) :
          c.spec[u].uid # 0 /\ c.spec[u].uid = c.spec[w].uid => u = w

FingerprintWithoutHash(c) ==
    [users |-> c.users,
     spec  |-> [u \in Names(c) |->
                  [c.spec[u] EXCEPT !.comment = FALSE, !.hash = NoHash]]]

(* users_fingerprint: the ordered users without their comments. *)
Fingerprint(c) ==
    [users |-> c.users,
     spec  |-> [u \in Names(c) |-> [c.spec[u] EXCEPT !.comment = FALSE]]]

(* SFTPUserKey.is_active for the keys that are not disabled. *)
ActiveKeys(c, u, now) == {k \in c.spec[u].keys : Expiry[k] > now}

(* validate_runtime_users: one user without a usable method rejects all. *)
CanAuthenticate(c, now) ==
    \A u \in Names(c) :
       \/ c.spec[u].disabled
       \/ c.spec[u].hash # NoHash /\ AllowPassword
       \/ ActiveKeys(c, u, now) # {} /\ AllowPublicKey

-----------------------------------------------------------------------------
(* Identity allocation.  su and sg are the UIDs and GIDs of state.json,    *)
(* 0 for a user without an entry.                                          *)

ExplicitIdsUnique(c) ==
    \A u, w \in Names(c) :
       u # w => /\ c.spec[u].uid # 0 => c.spec[u].uid # c.spec[w].uid
                /\ c.spec[u].gid # 0 => c.spec[u].gid # c.spec[w].gid

UsedIdsExplicitOnly(c, su) ==
    ({c.spec[u].uid : u \in Names(c)} \cup {c.spec[u].gid : u \in Names(c)}) \ {0}

(* used_identity_ids: saved UIDs of users the provider still has, and every *)
(* explicit id.  UIDs of removed users and saved GIDs are not in it.        *)
UsedIds(c, su) ==
    ({su[u] : u \in Names(c)} \cup {c.spec[u].uid : u \in Names(c)}
       \cup {c.spec[u].gid : u \in Names(c)}) \ {0}

FixedUidExplicitOnly(c, su, u) == c.spec[u].uid

FixedUid(c, su, u) == IF c.spec[u].uid # 0 THEN c.spec[u].uid ELSE su[u]

FreeIds(c, su) == (FirstId .. LastId) \ UsedIds(c, su)

(* The cursor of allocate_users hands out the free ids in increasing order, *)
(* one to each user without a fixed UID: the n-th such user gets the n-th.  *)
Turn(c, su, u) ==
    Cardinality({i \in DOMAIN c.users :
                   /\ FixedUid(c, su, c.users[i]) = 0
                   /\ \A j \in DOMAIN c.users : c.users[j] = u => i <= j})

IsNthFree(c, su, n, id) ==
    Cardinality({x \in FreeIds(c, su) : x <= id}) = n

IdRemains(c, su, u) ==
    \E id \in FreeIds(c, su) : IsNthFree(c, su, Turn(c, su, u), id)

NewUid(c, su, u) ==
    CHOOSE id \in FreeIds(c, su) : IsNthFree(c, su, Turn(c, su, u), id)

ResolvedUid(c, su, u) ==
    IF FixedUid(c, su, u) # 0 THEN FixedUid(c, su, u) ELSE NewUid(c, su, u)

ResolvedGid(c, su, sg, u) ==
    IF c.spec[u].gid # 0 THEN c.spec[u].gid
    ELSE IF su[u] # 0 THEN sg[u] ELSE ResolvedUid(c, su, u)

UidsDistinct(c, su) ==
    \A u, w \in Names(c) :
       ResolvedUid(c, su, u) = ResolvedUid(c, su, w) => u = w

(* allocate_users returns instead of raising. *)
AllocationSucceeds(c, su) ==
    /\ ExplicitIdsUnique(c)
    /\ \A u \in Names(c) : FixedUid(c, su, u) = 0 => IdRemains(c, su, u)
    /\ UidsDistinct(c, su)

=============================================================================
