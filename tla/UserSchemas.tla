---------------------------- MODULE UserSchemas ----------------------------
(***************************************************************************)
(* Users and keys as users/models.py validates them, the two schemas they  *)
(* are kept in (users/schemas/) and what the requests of services/users.py *)
(* and services/provider_transfer.py make of them in memory.               *)
(*                                                                         *)
(* Of a user's fields those are kept that decide who gets in: a password,  *)
(* the disabled flag and the keys.  A schema 1 mapping lists public keys;  *)
(* a schema 2 mapping lists named keys, each with a state of its own.  The *)
(* deterministic name of an anonymous key is written as the key itself, as *)
(* is its fingerprint.                                                     *)
(***************************************************************************)
EXTENDS Naturals, FiniteSets

CONSTANTS
    User,
    NoUser,
    Key,        \* public keys
    Label,      \* names an operator gives to keys
    NoLabel,
    Rejected    \* the outcome of an operation that raises

ASSUME UserAssumption == NoUser \notin User
ASSUME LabelAssumption == Label \cap Key = {} /\ NoLabel \notin Label \cup Key

Schema == {1, 2}

KeyObject ==
    [name : Label \cup Key, key : Key, disabled : BOOLEAN, expired : BOOLEAN]

SFTPUser == [password : BOOLEAN, disabled : BOOLEAN, keys : SUBSET KeyObject]

IsUsers(users) == \E U \in SUBSET User : users \in [U -> SFTPUser]

IsProviderUsers(content) ==
    \E U \in SUBSET User : content \in [schema : Schema, users : [U -> SFTPUser]]

ASSUME RejectedAssumption == ~IsProviderUsers(Rejected)

NoUsers == [u \in {} |-> [password |-> FALSE, disabled |-> FALSE, keys |-> {}]]
-----------------------------------------------------------------------------
(* users/models.py *)

NewKey(name, k) == [name |-> name, key |-> k, disabled |-> FALSE, expired |-> FALSE]

(* key_objects of a user without named keys *)
Anonymous(K) == {NewKey(k, k) : k \in K}

PublicKeys(rec) == {x.key : x \in rec.keys}

IsActive(x) == ~x.disabled /\ ~x.expired
ActiveKeys(rec) == {x.key : x \in {y \in rec.keys : IsActive(y)}}

UniqueKeys(rec) == \A x, y \in rec.keys : x # y => x.name # y.name /\ x.key # y.key

AuthPresent(rec) == rec.password \/ rec.keys # {}

Valid(rec) == AuthPresent(rec) /\ UniqueKeys(rec)

AllValid(users) == \A u \in DOMAIN users : Valid(users[u])
-----------------------------------------------------------------------------
(* users/schemas/v1.py and v2.py *)

V1Mapping(rec) ==
    [password |-> rec.password, disabled |-> rec.disabled, public_keys |-> PublicKeys(rec)]

V2Mapping(rec) == [password |-> rec.password, disabled |-> rec.disabled, keys |-> rec.keys]

V1User(m) ==
    [password |-> m.password, disabled |-> m.disabled, keys |-> Anonymous(m.public_keys)]

(* a mapping without keys keeps its public keys, under generated names *)
V2User(m) ==
    [password |-> m.password, disabled |-> m.disabled,
     keys |-> IF "keys" \in DOMAIN m THEN m.keys ELSE Anonymous(m.public_keys)]

(* user_schema(...).user_to_mapping and users_from_mapping *)
ToMapping(schema, rec) == IF schema = 2 THEN V2Mapping(rec) ELSE V1Mapping(rec)
FromMapping(schema, m) == IF schema = 2 THEN V2User(m) ELSE V1User(m)

DetectsV2(mappings) == \E u \in DOMAIN mappings : "keys" \in DOMAIN mappings[u]

V1AddKey(rec, k) == [rec EXCEPT !.keys = @ \cup Anonymous({k})]
V2AddKey(rec, name, k) == [rec EXCEPT !.keys = @ \cup {NewKey(name, k)}]
AddKey(schema, rec, name, k) ==
    IF schema = 2 THEN V2AddKey(rec, name, k) ELSE V1AddKey(rec, k)

V1RemoveKey(rec, x) == [rec EXCEPT !.keys = {y \in @ : y.key # x.key}]
V2RemoveKey(rec, x) == [rec EXCEPT !.keys = {y \in @ : y.name # x.name}]
RemoveKey(schema, rec, x) ==
    IF schema = 2 THEN V2RemoveKey(rec, x) ELSE V1RemoveKey(rec, x)

(* auth_fields_from_public_keys *)
AuthFields(K) == Anonymous(K)

(* What a content is once it has been written and is read again *)
Stored(content) ==
    [content EXCEPT !.users =
        [u \in DOMAIN content.users |->
            FromMapping(content.schema, ToMapping(content.schema, content.users[u]))]]
-----------------------------------------------------------------------------
(* users/schemas/migrations.py *)

MigrateEnabled(content) ==
    [schema |-> 2,
     users |-> [u \in {v \in DOMAIN content.users : ~content.users[v].disabled}
                  |-> content.users[u]]]

(* UserSchemaMigrationV1ToV2, from users as schema 1 reads them *)
MigrateV1ToV2(content) == [schema |-> 2, users |-> content.users]

MigrateTo(content, target) ==
    IF content.schema = target THEN content
    ELSE IF content.schema < target THEN MigrateV1ToV2(content)
    ELSE Rejected

(* supports(KEY_LIFECYCLE), and the first schema that does *)
HasKeyLifecycle(schema) == schema = 2
FirstSchemaWithLifecycle(schema) ==
    CHOOSE s \in Schema : s >= schema /\ HasKeyLifecycle(s)

(* ensure_schema_capability once the operator has agreed *)
WithKeyLifecycle(content) ==
    IF HasKeyLifecycle(content.schema) THEN content
    ELSE MigrateTo(content, FirstSchemaWithLifecycle(content.schema))
-----------------------------------------------------------------------------
(* Requests *)

Lifecycle ==
    {"key disable", "key enable", "key rename", "key rotate", "key expire", "key import"}
OfOneUser ==
    {"create", "update", "disable", "enable", "remove", "key add", "key remove"} \cup Lifecycle
Transfer == {"merge", "replace", "copy"}
Migrating == {"migrate", "deploy"}
Reconciling == Migrating \cup {"set schema"}

(* One request: op, the user and key it names, a new name, the keys and    *)
(* password it brings, the source it copies, the schema it asks for,       *)
(* --no-backup, --dry-run.                                                 *)
Request(op) ==
    [op |-> op, user |-> NoUser, id |-> NoLabel, label |-> NoLabel, keys |-> {},
     password |-> FALSE, source |-> [schema |-> 1, users |-> NoUsers],
     to |-> 2, backup |-> TRUE, dry |-> FALSE]

(* What typer accepts: a user where one is named, keys where some are      *)
(* needed, users that were validated when they were loaded; `user remove`  *)
(* has no --dry-run.                                                       *)
IsRequest(r) ==
    /\ \E U \in SUBSET User :
         r \in [op : {"list"} \cup OfOneUser \cup Transfer \cup Reconciling,
               user : User \cup {NoUser}, id : Label \cup Key \cup {NoLabel},
               label : Label \cup Key \cup {NoLabel}, keys : SUBSET Key, password : BOOLEAN,
               source : [schema : Schema, users : [U -> SFTPUser]],
               to : Schema, backup : BOOLEAN, dry : BOOLEAN]
    /\ r.op \in OfOneUser => r.user \in User
    /\ r.op \in {"key add", "key rename", "key import"} => r.label \in Label \cup Key
    /\ r.op \in {"key add", "key rotate", "key import"} => r.keys # {}
    /\ AllValid(r.source.users)
    /\ r.op = "remove" => ~r.dry

(* The users whose access a request may change *)
About(r) ==
    CASE r.dry -> {}
      [] ~r.dry /\ r.op \in OfOneUser -> {r.user}
      [] ~r.dry /\ r.op = "merge" -> DOMAIN r.source.users
      [] ~r.dry /\ r.op \in {"replace", "copy"} -> User
      [] OTHER -> {}
-----------------------------------------------------------------------------
(* services/users.py and users/service.py *)

(* A slip: the changed copy is not validated again *)
UpsertUnvalidated(content, u, rec) ==
    [content EXCEPT !.users =
        [v \in DOMAIN @ \cup {u} |-> IF v = u THEN rec ELSE @[v]]]

(* upsert_provider_user, with the user revalidated by copy_user *)
Upsert(content, u, rec) ==
    IF Valid(rec)
    THEN [content EXCEPT !.users =
             [v \in DOMAIN @ \cup {u} |-> IF v = u THEN rec ELSE @[v]]]
    ELSE Rejected

RemoveUser(content, u) ==
    IF u \in DOMAIN content.users
    THEN [content EXCEPT !.users = [v \in DOMAIN @ \ {u} |-> @[v]]]
    ELSE Rejected

(* find_key: by name or fingerprint *)
FoundKeys(rec, id) == {x \in rec.keys : id \in {x.name, x.key}}
FindKey(rec, id) == CHOOSE x \in FoundKeys(rec, id) : TRUE

AddUser(content, r) ==
    Upsert(content, r.user,
           [password |-> r.password, disabled |-> FALSE, keys |-> AuthFields(r.keys)])

(* What is not given keeps its value. *)
UpdateUser(rec, r) ==
    [rec EXCEPT !.password = @ \/ r.password,
                !.keys = IF r.keys = {} THEN @ ELSE AuthFields(r.keys)]

SetUserDisabled(rec, off) == [rec EXCEPT !.disabled = off]

AnyOf(K) == CHOOSE k \in K : TRUE

AddUserKey(schema, rec, r) == AddKey(schema, rec, r.label, AnyOf(r.keys))
RemoveUserKey(schema, rec, r) == RemoveKey(schema, rec, FindKey(rec, r.id))

(* the key named as the one found, replaced *)
WithKey(rec, id, Edit(_)) ==
    [rec EXCEPT !.keys = {IF x.name = FindKey(rec, id).name THEN Edit(x) ELSE x : x \in @}]

DisableUserKey(rec, id, off) == WithKey(rec, id, LAMBDA x : [x EXCEPT !.disabled = off])
RenameUserKey(rec, id, name) == WithKey(rec, id, LAMBDA x : [x EXCEPT !.name = name])
RotateUserKey(rec, id, k) == WithKey(rec, id, LAMBDA x : [x EXCEPT !.key = k])
ExpireUserKey(rec, id) == WithKey(rec, id, LAMBDA x : [x EXCEPT !.expired = TRUE])

(* with one name for one key; --name asks for that *)
ImportUserKeys(rec, r) == [rec EXCEPT !.keys = @ \cup {NewKey(r.label, AnyOf(r.keys))}]

Changed(schema, rec, r) ==
    CASE r.op = "update" -> UpdateUser(rec, r)
      [] r.op = "disable" -> SetUserDisabled(rec, TRUE)
      [] r.op = "enable" -> SetUserDisabled(rec, FALSE)
      [] r.op = "key add" -> AddUserKey(schema, rec, r)
      [] r.op = "key remove" -> RemoveUserKey(schema, rec, r)
      [] r.op = "key disable" -> DisableUserKey(rec, r.id, TRUE)
      [] r.op = "key enable" -> DisableUserKey(rec, r.id, FALSE)
      [] r.op = "key rename" -> RenameUserKey(rec, r.id, r.label)
      [] r.op = "key rotate" -> RotateUserKey(rec, r.id, AnyOf(r.keys))
      [] r.op = "key expire" -> ExpireUserKey(rec, r.id)
      [] r.op = "key import" -> ImportUserKeys(rec, r)

NamesKey == {"key remove"} \cup (Lifecycle \ {"key import"})

(* find_user, find_key, or an error *)
Finds(users, r) ==
    /\ r.user \in DOMAIN users
    /\ r.op \in NamesKey => FoundKeys(users[r.user], r.id) # {}

ChangeUser(content, r) ==
    LET base == IF r.op \in Lifecycle THEN WithKeyLifecycle(content) ELSE content
    IN  IF Finds(base.users, r)
        THEN Upsert(base, r.user, Changed(base.schema, base.users[r.user], r))
        ELSE Rejected

(* write_provider_users *)
Merged(content, source) ==
    [content EXCEPT !.users =
        [u \in DOMAIN @ \cup DOMAIN source.users |->
            IF u \in DOMAIN source.users THEN source.users[u] ELSE @[u]]]

(* What a command makes of the content it has read *)
Apply(r, content) ==
    CASE r.op = "create" -> AddUser(content, r)
      [] r.op = "remove" -> RemoveUser(content, r.user)
      [] r.op \in OfOneUser \ {"create", "remove"} -> ChangeUser(content, r)
      [] r.op = "merge" -> Merged(content, r.source)
      [] r.op \in {"replace", "copy"} -> r.source
      [] OTHER -> content
=============================================================================
