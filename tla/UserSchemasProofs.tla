------------------------- MODULE UserSchemasProofs -------------------------
(***************************************************************************)
(* Lemmas about what users are kept in and what requests make of them.     *)
(***************************************************************************)
EXTENDS ProviderStore, TLAPS

(* What two records of one user have in common when the user gets in alike *)
(* under either schema.                                                    *)
SameAccess(rec, old) ==
    /\ rec.password = old.password /\ rec.disabled = old.disabled
    /\ PublicKeys(rec) = PublicKeys(old) /\ ActiveKeys(rec) = ActiveKeys(old)

(* Schema 1 can say what the user has. *)
AllActive(rec) == ActiveKeys(rec) = PublicKeys(rec)

(* What a provider holds, with every record a read may find valid *)
GoodText(text) ==
    \/ text \in {Blank, Garbled}
    \/ /\ IsFileText(text)
       /\ \A u \in DOMAIN text.users : Valid(FromMapping(text.schema, text.users[u]))

GoodRows(rows) ==
    IsRows(rows) /\ \A u \in DOMAIN rows : rows[u].password \/ rows[u].public_keys # {}

GoodTable(keyTab) ==
    \/ keyTab = NoTable
    \/ keyTab \in KeyTable /\ \A u \in User : UniqueKeys([keys |-> keyTab[u]])

GoodDocs(docs) == IsDocs(docs) /\ \A u \in DOMAIN docs : Valid(V2User(docs[u].user))

GoodStore(st) ==
    /\ st = [text |-> st.text, rows |-> st.rows, keyTab |-> st.keyTab, docs |-> st.docs]
    /\ GoodText(st.text) /\ GoodRows(st.rows) /\ GoodTable(st.keyTab) /\ GoodDocs(st.docs)

(* A content, typed and valid *)
Good(content) == IsProviderUsers(content) /\ AllValid(content.users)
-----------------------------------------------------------------------------
(* Types *)

LEMMA UsersForm ==
    ASSUME NEW f, IsUsers(f)
    PROVE  /\ DOMAIN f \subseteq User /\ f \in [DOMAIN f -> SFTPUser]
           /\ \A u \in DOMAIN f : f[u] \in SFTPUser
BY DEF IsUsers

LEMMA UsersMade ==
    ASSUME NEW U \in SUBSET User, NEW f \in [U -> SFTPUser]
    PROVE  IsUsers(f)
BY DEF IsUsers

LEMMA ContentForm ==
    ASSUME NEW c, IsProviderUsers(c)
    PROVE  /\ c = [schema |-> c.schema, users |-> c.users]
           /\ c.schema \in {1, 2} /\ IsUsers(c.users)
<1>1. PICK U \in SUBSET User : c \in [schema : Schema, users : [U -> SFTPUser]]
  BY DEF IsProviderUsers
<1>. QED  BY <1>1 DEF IsUsers, Schema

LEMMA ContentMade ==
    ASSUME NEW s \in {1, 2}, NEW f, IsUsers(f)
    PROVE  IsProviderUsers([schema |-> s, users |-> f])
<1>1. PICK U \in SUBSET User : f \in [U -> SFTPUser]
  BY DEF IsUsers
<1>2. [schema |-> s, users |-> f] \in [schema : Schema, users : [U -> SFTPUser]]
  BY <1>1 DEF Schema
<1>. QED  BY <1>2 DEF IsProviderUsers

LEMMA ContentIsNotRejected ==
    ASSUME NEW c, IsProviderUsers(c)
    PROVE  c # Rejected
BY RejectedAssumption

(* the content with other users *)
LEMMA ContentWith ==
    ASSUME NEW c, IsProviderUsers(c), NEW f, IsUsers(f)
    PROVE  /\ [c EXCEPT !.users = f] = [schema |-> c.schema, users |-> f]
           /\ IsProviderUsers([c EXCEPT !.users = f])
<1>1. c = [schema |-> c.schema, users |-> c.users] /\ c.schema \in {1, 2}
  BY ContentForm
<1>2. [c EXCEPT !.users = f] = [schema |-> c.schema, users |-> f]
  BY <1>1
<1>. QED  BY <1>1, <1>2, ContentMade

LEMMA RecordForm ==
    ASSUME NEW rec \in SFTPUser
    PROVE  /\ rec = [password |-> rec.password, disabled |-> rec.disabled, keys |-> rec.keys]
           /\ rec.password \in BOOLEAN /\ rec.disabled \in BOOLEAN /\ rec.keys \subseteq KeyObject
BY DEF SFTPUser

LEMMA RecordMade ==
    ASSUME NEW pw \in BOOLEAN, NEW off \in BOOLEAN, NEW K \in SUBSET KeyObject
    PROVE  [password |-> pw, disabled |-> off, keys |-> K] \in SFTPUser
BY DEF SFTPUser

LEMMA KeyObjectForm ==
    ASSUME NEW x \in KeyObject
    PROVE  /\ x = [name |-> x.name, key |-> x.key, disabled |-> x.disabled, expired |-> x.expired]
           /\ x.name \in Label \cup Key /\ x.key \in Key
           /\ x.disabled \in BOOLEAN /\ x.expired \in BOOLEAN
BY DEF KeyObject

LEMMA NewKeyIsKeyObject ==
    ASSUME NEW name \in Label \cup Key, NEW k \in Key
    PROVE  NewKey(name, k) \in KeyObject
BY DEF NewKey, KeyObject

LEMMA AnonymousKeys ==
    ASSUME NEW K \in SUBSET Key
    PROVE  /\ Anonymous(K) \in SUBSET KeyObject
           /\ K # {} => Anonymous(K) # {}
           /\ \A x, y \in Anonymous(K) : x # y => x.name # y.name /\ x.key # y.key
           /\ {x.key : x \in Anonymous(K)} = K
           /\ {x.key : x \in {y \in Anonymous(K) : IsActive(y)}} = K
<1>1. Anonymous(K) \in SUBSET KeyObject
  BY NewKeyIsKeyObject DEF Anonymous
<1>2. \A x \in Anonymous(K) : x.name = x.key /\ x = NewKey(x.key, x.key) /\ IsActive(x) /\ x.key \in K
  BY DEF Anonymous, NewKey, IsActive
<1>3. \A k \in K : NewKey(k, k) \in Anonymous(K) /\ NewKey(k, k).key = k
  BY DEF Anonymous, NewKey
<1>4. {y \in Anonymous(K) : IsActive(y)} = Anonymous(K)
  BY <1>2
<1>5. {x.key : x \in Anonymous(K)} = K
  BY <1>2, <1>3
<1>6. \A x, y \in Anonymous(K) : x # y => x.name # y.name /\ x.key # y.key
  BY <1>2
<1>7. K # {} => Anonymous(K) # {}
  BY <1>3
<1>. QED  BY <1>1, <1>4, <1>5, <1>6, <1>7

LEMMA PublicKeysTyped ==
    ASSUME NEW rec \in SFTPUser
    PROVE  /\ PublicKeys(rec) \in SUBSET Key
           /\ rec.keys # {} => PublicKeys(rec) # {}
<1>1. \A x \in rec.keys : x.key \in Key
  BY RecordForm, KeyObjectForm
<1>. QED  BY <1>1 DEF PublicKeys
-----------------------------------------------------------------------------
(* Mappings: what is written of a user, and what is read of it *)

LEMMA RowForm ==
    ASSUME NEW m \in Row
    PROVE  /\ "keys" \notin DOMAIN m
           /\ m.password \in BOOLEAN /\ m.disabled \in BOOLEAN /\ m.public_keys \in SUBSET Key
           /\ V1User(m) = [password |-> m.password, disabled |-> m.disabled,
                           keys |-> Anonymous(m.public_keys)]
           /\ V2User(m) = V1User(m)
<1>1. "keys" \notin DOMAIN m /\ m.password \in BOOLEAN /\ m.disabled \in BOOLEAN /\ m.public_keys \in SUBSET Key
  BY DEF Row
<1>. QED  BY <1>1 DEF V1User, V2User

LEMMA RowsAreRead ==
    ASSUME NEW m \in Row
    PROVE  /\ V1User(m) \in SFTPUser
           /\ V1User(m).password = m.password /\ V1User(m).disabled = m.disabled
           /\ PublicKeys(V1User(m)) = m.public_keys /\ ActiveKeys(V1User(m)) = m.public_keys
           /\ (m.password \/ m.public_keys # {}) <=> Valid(V1User(m))
<1>1. /\ m.password \in BOOLEAN /\ m.disabled \in BOOLEAN /\ m.public_keys \in SUBSET Key
      /\ V1User(m) = [password |-> m.password, disabled |-> m.disabled, keys |-> Anonymous(m.public_keys)]
  BY RowForm
<1>2. V1User(m) \in SFTPUser
  BY <1>1, AnonymousKeys, RecordMade
<1>3. V1User(m).password = m.password /\ V1User(m).disabled = m.disabled
      /\ V1User(m).keys = Anonymous(m.public_keys)
  BY <1>1
<1>4. PublicKeys(V1User(m)) = m.public_keys /\ ActiveKeys(V1User(m)) = m.public_keys
  BY <1>1, <1>3, AnonymousKeys DEF PublicKeys, ActiveKeys
<1>5. UniqueKeys(V1User(m))
  BY <1>1, <1>3, AnonymousKeys DEF UniqueKeys
<1>6. V1User(m).keys # {} <=> m.public_keys # {}
  BY <1>1, <1>3, AnonymousKeys DEF Anonymous
<1>. QED  BY <1>2, <1>3, <1>4, <1>5, <1>6 DEF Valid, AuthPresent

LEMMA RowsAreWritten ==
    ASSUME NEW rec \in SFTPUser
    PROVE  /\ V1Mapping(rec) \in Row
           /\ V1Mapping(rec).password = rec.password /\ V1Mapping(rec).disabled = rec.disabled
           /\ V1Mapping(rec).public_keys = PublicKeys(rec)
           /\ Valid(rec) => V1Mapping(rec).password \/ V1Mapping(rec).public_keys # {}
           /\ Valid(rec) => Valid(V1User(V1Mapping(rec)))
<1>1. rec.password \in BOOLEAN /\ rec.disabled \in BOOLEAN /\ PublicKeys(rec) \in SUBSET Key
  BY RecordForm, PublicKeysTyped
<1>2. V1Mapping(rec) \in Row
  BY <1>1 DEF V1Mapping, Row
<1>3. V1Mapping(rec).password = rec.password /\ V1Mapping(rec).disabled = rec.disabled
      /\ V1Mapping(rec).public_keys = PublicKeys(rec)
  BY DEF V1Mapping
<1>4. Valid(rec) => V1Mapping(rec).password \/ V1Mapping(rec).public_keys # {}
  BY <1>3, PublicKeysTyped DEF Valid, AuthPresent
<1>. QED  BY <1>2, <1>3, <1>4, RowsAreRead

LEMMA NamedKeysAreKept ==
    ASSUME NEW rec \in SFTPUser
    PROVE  V2Mapping(rec) = rec /\ V2User(rec) = rec
<1>1. rec = [password |-> rec.password, disabled |-> rec.disabled, keys |-> rec.keys]
  BY RecordForm
<1>2. "keys" \in DOMAIN rec
  BY DEF SFTPUser
<1>. QED  BY <1>1, <1>2 DEF V2Mapping, V2User

(* A record written under schema s and read under schema t *)
LEMMA WrittenAndRead ==
    ASSUME NEW rec \in SFTPUser, NEW s \in {1, 2}, NEW t \in {1, 2}, s <= t
    PROVE  /\ s = 1 => ToMapping(s, rec) \in Row
           /\ s = 2 => ToMapping(s, rec) \in SFTPUser
           /\ FromMapping(t, ToMapping(s, rec)) \in SFTPUser
           /\ FromMapping(t, ToMapping(s, rec)) = V2User(ToMapping(s, rec))
           /\ Valid(rec) => Valid(FromMapping(t, ToMapping(s, rec)))
           /\ s = 2 => FromMapping(t, ToMapping(s, rec)) = rec
           /\ s = 2 \/ AllActive(rec) => SameAccess(FromMapping(t, ToMapping(s, rec)), rec)
<1>1. CASE s = 1
  <2>1. ToMapping(s, rec) = V1Mapping(rec) /\ V1Mapping(rec) \in Row
    BY <1>1, RowsAreWritten DEF ToMapping
  <2>2. FromMapping(t, V1Mapping(rec)) = V1User(V1Mapping(rec))
        /\ V2User(V1Mapping(rec)) = V1User(V1Mapping(rec))
    BY <2>1, RowForm DEF FromMapping
  <2>3. Valid(rec) => Valid(V1User(V1Mapping(rec)))
    BY RowsAreWritten
  <2>4. V1User(V1Mapping(rec)) \in SFTPUser
    BY <2>1, RowsAreRead
  <2>5. AllActive(rec) => SameAccess(V1User(V1Mapping(rec)), rec)
    BY <2>1, RowsAreRead, RowsAreWritten DEF SameAccess, AllActive
  <2>. QED  BY <1>1, <2>1, <2>2, <2>3, <2>4, <2>5
<1>2. CASE s = 2
  <2>1. t = 2
    BY <1>2
  <2>2. ToMapping(s, rec) = rec /\ FromMapping(t, rec) = rec /\ V2User(rec) = rec
    BY <1>2, <2>1, NamedKeysAreKept DEF ToMapping, FromMapping
  <2>3. SameAccess(rec, rec)
    BY DEF SameAccess
  <2>. QED  BY <1>2, <2>2, <2>3
<1>. QED  BY <1>1, <1>2

LEMMA SameAccessIsTransitive ==
    ASSUME NEW a, NEW b, NEW c, SameAccess(a, b), SameAccess(b, c)
    PROVE  SameAccess(a, c) /\ (AllActive(c) => AllActive(b))
BY DEF SameAccess, AllActive
-----------------------------------------------------------------------------
(* Contents: written and read again, migrated *)

(* content is as good as old for user u. *)
Kept(content, old, u) ==
    /\ u \in DOMAIN content.users
    /\ SameAccess(content.users[u], old)
    /\ content.schema = 1 => AllActive(old)

LEMMA StoredContent ==
    ASSUME NEW c, IsProviderUsers(c)
    PROVE  /\ IsProviderUsers(Stored(c)) /\ Stored(c).schema = c.schema
           /\ DOMAIN Stored(c).users = DOMAIN c.users
           /\ AllValid(c.users) => AllValid(Stored(c).users)
           /\ \A u, old : Kept(c, old, u) => Kept(Stored(c), old, u)
<1>. DEFINE f == [u \in DOMAIN c.users |-> FromMapping(c.schema, ToMapping(c.schema, c.users[u]))]
<1>1. c.schema \in {1, 2} /\ c.schema <= c.schema /\ IsUsers(c.users)
      /\ \A u \in DOMAIN c.users : c.users[u] \in SFTPUser
  BY ContentForm, UsersForm
<1>2. \A u \in DOMAIN c.users : f[u] \in SFTPUser
  BY <1>1, WrittenAndRead
<1>3. IsUsers(f)
  <2>1. DOMAIN c.users \in SUBSET User
    BY <1>1, UsersForm
  <2>. QED  BY <1>2, <2>1 DEF IsUsers
<1>4. Stored(c) = [schema |-> c.schema, users |-> f] /\ IsProviderUsers(Stored(c))
  BY <1>3, ContentWith DEF Stored
<1>5. Stored(c).schema = c.schema /\ Stored(c).users = f
  BY <1>4
<1>6. ASSUME AllValid(c.users) PROVE AllValid(Stored(c).users)
  BY <1>1, <1>5, <1>6, WrittenAndRead DEF AllValid
<1>7. ASSUME NEW u, NEW old, Kept(c, old, u) PROVE Kept(Stored(c), old, u)
  <2>1. u \in DOMAIN c.users /\ SameAccess(c.users[u], old) /\ (c.schema = 1 => AllActive(old))
    BY <1>7 DEF Kept
  <2>2. c.schema = 2 \/ AllActive(c.users[u])
    BY <1>1, <2>1 DEF SameAccess, AllActive
  <2>3. SameAccess(f[u], c.users[u])
    BY <1>1, <2>1, <2>2, WrittenAndRead
  <2>4. SameAccess(f[u], old)
    BY <2>1, <2>3, SameAccessIsTransitive
  <2>. QED  BY <1>5, <2>1, <2>4 DEF Kept
<1>. QED  BY <1>4, <1>5, <1>6, <1>7

LEMMA MigratedContent ==
    ASSUME NEW c, IsProviderUsers(c), NEW t \in {1, 2}, c.schema <= t
    PROVE  /\ IsProviderUsers(MigrateTo(c, t)) /\ MigrateTo(c, t).schema = t
           /\ MigrateTo(c, t).users = c.users
           /\ \A u, old : Kept(c, old, u) => Kept(MigrateTo(c, t), old, u)
<1>1. c = [schema |-> c.schema, users |-> c.users] /\ c.schema \in {1, 2} /\ IsUsers(c.users)
  BY ContentForm
<1>2. c.schema = t \/ (c.schema = 1 /\ t = 2)
  BY <1>1
<1>3. MigrateTo(c, t) = [schema |-> t, users |-> c.users]
  BY <1>1, <1>2 DEF MigrateTo, MigrateV1ToV2
<1>4. IsProviderUsers(MigrateTo(c, t))
  BY <1>1, <1>3, ContentMade
<1>5. MigrateTo(c, t).schema = t /\ MigrateTo(c, t).users = c.users
  BY <1>3
<1>. QED  BY <1>2, <1>4, <1>5 DEF Kept

LEMMA LifecycleContent ==
    ASSUME NEW c, IsProviderUsers(c)
    PROVE  /\ IsProviderUsers(WithKeyLifecycle(c)) /\ WithKeyLifecycle(c).schema = 2
           /\ WithKeyLifecycle(c).users = c.users
<1>1. c.schema \in {1, 2}
  BY ContentForm
<1>2. FirstSchemaWithLifecycle(c.schema) = 2
  BY <1>1 DEF FirstSchemaWithLifecycle, HasKeyLifecycle, Schema
<1>3. CASE c.schema = 2
  BY <1>3 DEF WithKeyLifecycle, HasKeyLifecycle
<1>4. CASE c.schema = 1
  <2>1. WithKeyLifecycle(c) = MigrateTo(c, 2)
    BY <1>2, <1>4 DEF WithKeyLifecycle, HasKeyLifecycle
  <2>. QED  BY <1>4, <2>1, MigratedContent
<1>. QED  BY <1>1, <1>3, <1>4
-----------------------------------------------------------------------------
(* Requests *)

Operation == {"list"} \cup OfOneUser \cup Transfer \cup Reconciling

LEMMA RequestForm ==
    ASSUME NEW r, IsRequest(r)
    PROVE  /\ r = [op |-> r.op, user |-> r.user, id |-> r.id, label |-> r.label, keys |-> r.keys,
                   password |-> r.password, source |-> r.source, to |-> r.to,
                   backup |-> r.backup, dry |-> r.dry]
           /\ r.op \in Operation /\ r.keys \in SUBSET Key /\ r.password \in BOOLEAN
           /\ r.to \in {1, 2} /\ r.backup \in BOOLEAN /\ r.dry \in BOOLEAN
           /\ IsProviderUsers(r.source) /\ AllValid(r.source.users)
           /\ r.op \in OfOneUser => r.user \in User
           /\ r.op \in {"key add", "key rename", "key import"} => r.label \in Label \cup Key
           /\ r.op \in {"key add", "key rotate", "key import"} => r.keys # {}
           /\ r.op = "remove" => ~r.dry
BY DEF IsRequest, Operation, IsProviderUsers, Schema

LEMMA RequestTo ==
    ASSUME NEW r, IsRequest(r), NEW t \in {1, 2}
    PROVE  /\ IsRequest([r EXCEPT !.to = t]) /\ About([r EXCEPT !.to = t]) = About(r)
           /\ [r EXCEPT !.to = t].op = r.op /\ [r EXCEPT !.to = t].to = t
<1>1. PICK U \in SUBSET User :
         r \in [op : {"list"} \cup OfOneUser \cup Transfer \cup Reconciling,
               user : User \cup {NoUser}, id : Label \cup Key \cup {NoLabel},
               label : Label \cup Key \cup {NoLabel}, keys : SUBSET Key, password : BOOLEAN,
               source : [schema : Schema, users : [U -> SFTPUser]],
               to : Schema, backup : BOOLEAN, dry : BOOLEAN]
  BY DEF IsRequest
<1>. DEFINE s == [r EXCEPT !.to = t]
<1>2. /\ s \in [op : {"list"} \cup OfOneUser \cup Transfer \cup Reconciling,
               user : User \cup {NoUser}, id : Label \cup Key \cup {NoLabel},
               label : Label \cup Key \cup {NoLabel}, keys : SUBSET Key, password : BOOLEAN,
               source : [schema : Schema, users : [U -> SFTPUser]],
               to : Schema, backup : BOOLEAN, dry : BOOLEAN]
      /\ s.op = r.op /\ s.user = r.user /\ s.label = r.label /\ s.keys = r.keys
      /\ s.source = r.source /\ s.dry = r.dry /\ s.to = t
  BY <1>1 DEF Schema
<1>3. IsRequest(s)
  BY <1>2 DEF IsRequest
<1>4. About(s) = About(r)
  BY <1>2 DEF About
<1>. QED  BY <1>2, <1>3, <1>4

LEMMA NoUsersForm ==
    DOMAIN NoUsers = {} /\ IsUsers(NoUsers) /\ AllValid(NoUsers)
<1>1. NoUsers \in [{} -> SFTPUser] /\ DOMAIN NoUsers = {}
  BY DEF NoUsers
<1>. QED  BY <1>1 DEF IsUsers, AllValid

LEMMA PlainRequest ==
    IsRequest(Request("list")) /\ About(Request("list")) = {} /\ Request("list").op = "list"
<1>. DEFINE r == Request("list")
<1>1. /\ r.op = "list" /\ r.user = NoUser /\ r.id = NoLabel /\ r.label = NoLabel /\ r.keys = {}
      /\ r.password = FALSE /\ r.source = [schema |-> 1, users |-> NoUsers]
      /\ r.to = 2 /\ r.backup = TRUE /\ r.dry = FALSE
  BY DEF Request
<1>2. NoUsers \in [{} -> SFTPUser]
  BY DEF NoUsers
<1>3. r \in [op : {"list"} \cup OfOneUser \cup Transfer \cup Reconciling,
               user : User \cup {NoUser}, id : Label \cup Key \cup {NoLabel},
               label : Label \cup Key \cup {NoLabel}, keys : SUBSET Key, password : BOOLEAN,
               source : [schema : Schema, users : [{} -> SFTPUser]],
               to : Schema, backup : BOOLEAN, dry : BOOLEAN]
  BY <1>2 DEF Request, Schema
<1>4. r.op \notin OfOneUser /\ r.op \notin Transfer
  BY <1>1 DEF OfOneUser, Transfer, Lifecycle
<1>5. IsRequest(r)
  <2>1. AllValid(r.source.users)
    BY <1>1, NoUsersForm
  <2>. QED  BY <1>1, <1>3, <1>4, <2>1 DEF IsRequest
<1>6. About(r) = {}
  BY <1>1, <1>4 DEF About, Transfer
<1>. QED  BY <1>1, <1>5, <1>6
-----------------------------------------------------------------------------
(* What a request makes of one user *)

LEMMA KeysReplacedInRecord ==
    ASSUME NEW rec \in SFTPUser, NEW K \in SUBSET KeyObject
    PROVE  [rec EXCEPT !.keys = K] \in SFTPUser
BY RecordForm, RecordMade

LEMMA UpdatedUser ==
    ASSUME NEW rec \in SFTPUser, NEW r, IsRequest(r)
    PROVE  UpdateUser(rec, r) \in SFTPUser
<1>. DEFINE K == IF r.keys = {} THEN rec.keys ELSE AuthFields(r.keys)
<1>1. K \in SUBSET KeyObject
  BY RecordForm, RequestForm, AnonymousKeys DEF AuthFields
<1>2. rec.password \in BOOLEAN /\ r.password \in BOOLEAN /\ rec.disabled \in BOOLEAN
  BY RecordForm, RequestForm
<1>3. (rec.password \/ r.password) \in BOOLEAN
  OBVIOUS
<1>4. \A pw \in BOOLEAN : [rec EXCEPT !.password = pw, !.keys = K] \in SFTPUser
  BY <1>1 DEF SFTPUser
<1>5. UpdateUser(rec, r) = [rec EXCEPT !.password = rec.password \/ r.password, !.keys = K]
  BY DEF UpdateUser
<1>. QED  BY <1>3, <1>4, <1>5

LEMMA DisabledUser ==
    ASSUME NEW rec \in SFTPUser, NEW off \in BOOLEAN
    PROVE  SetUserDisabled(rec, off) \in SFTPUser
BY RecordForm, RecordMade DEF SetUserDisabled

LEMMA AnyOfKeys ==
    ASSUME NEW K \in SUBSET Key, K # {}
    PROVE  AnyOf(K) \in Key
BY DEF AnyOf

LEMMA UserWithMoreKeys ==
    ASSUME NEW rec \in SFTPUser, NEW r, IsRequest(r), NEW s \in {1, 2},
           r.op \in {"key add", "key import"}
    PROVE  AddUserKey(s, rec, r) \in SFTPUser /\ ImportUserKeys(rec, r) \in SFTPUser
<1>1. AnyOf(r.keys) \in Key /\ r.label \in Label \cup Key /\ rec.keys \subseteq KeyObject
  BY RequestForm, AnyOfKeys, RecordForm
<1>2. /\ rec.keys \cup Anonymous({AnyOf(r.keys)}) \in SUBSET KeyObject
      /\ rec.keys \cup {NewKey(r.label, AnyOf(r.keys))} \in SUBSET KeyObject
  <2>1. {AnyOf(r.keys)} \in SUBSET Key
    BY <1>1
  <2>2. Anonymous({AnyOf(r.keys)}) \in SUBSET KeyObject /\ NewKey(r.label, AnyOf(r.keys)) \in KeyObject
    BY <1>1, <2>1, AnonymousKeys, NewKeyIsKeyObject
  <2>. QED  BY <1>1, <2>2
<1>3. /\ [rec EXCEPT !.keys = rec.keys \cup Anonymous({AnyOf(r.keys)})] \in SFTPUser
      /\ [rec EXCEPT !.keys = rec.keys \cup {NewKey(r.label, AnyOf(r.keys))}] \in SFTPUser
  BY <1>2, KeysReplacedInRecord
<1>4. AddUserKey(s, rec, r) \in SFTPUser
  BY <1>3 DEF AddUserKey, AddKey, V1AddKey, V2AddKey
<1>5. ImportUserKeys(rec, r) \in SFTPUser
  BY <1>3 DEF ImportUserKeys
<1>. QED  BY <1>4, <1>5

LEMMA UserWithFewerKeys ==
    ASSUME NEW rec \in SFTPUser, NEW r, NEW s \in {1, 2}
    PROVE  RemoveUserKey(s, rec, r) \in SFTPUser
<1>. DEFINE x == FindKey(rec, r.id)
<1>1. /\ {y \in rec.keys : y.key # x.key} \in SUBSET KeyObject
      /\ {y \in rec.keys : y.name # x.name} \in SUBSET KeyObject
  BY RecordForm
<1>2. /\ [rec EXCEPT !.keys = {y \in rec.keys : y.key # x.key}] \in SFTPUser
      /\ [rec EXCEPT !.keys = {y \in rec.keys : y.name # x.name}] \in SFTPUser
  BY <1>1, KeysReplacedInRecord
<1>. QED  BY <1>2 DEF RemoveUserKey, RemoveKey, V1RemoveKey, V2RemoveKey

(* Edits of the key an operator names *)
LEMMA UserWithEditedKeys ==
    ASSUME NEW rec \in SFTPUser, NEW id, NEW off \in BOOLEAN
    PROVE  DisableUserKey(rec, id, off) \in SFTPUser /\ ExpireUserKey(rec, id) \in SFTPUser
<1>. DEFINE n == FindKey(rec, id).name
<1>1. \A x \in rec.keys :
         /\ x \in KeyObject /\ [x EXCEPT !.disabled = off] \in KeyObject
         /\ [x EXCEPT !.expired = TRUE] \in KeyObject
  BY RecordForm DEF KeyObject
<1>2. {IF x.name = n THEN [x EXCEPT !.disabled = off] ELSE x : x \in rec.keys} \in SUBSET KeyObject
  BY <1>1
<1>3. {IF x.name = n THEN [x EXCEPT !.expired = TRUE] ELSE x : x \in rec.keys} \in SUBSET KeyObject
  BY <1>1
<1>4. DisableUserKey(rec, id, off) \in SFTPUser
  BY <1>2, KeysReplacedInRecord DEF DisableUserKey, WithKey
<1>5. ExpireUserKey(rec, id) \in SFTPUser
  BY <1>3, KeysReplacedInRecord DEF ExpireUserKey, WithKey
<1>. QED  BY <1>4, <1>5

LEMMA UserWithRenamedKey ==
    ASSUME NEW rec \in SFTPUser, NEW id, NEW name \in Label \cup Key
    PROVE  RenameUserKey(rec, id, name) \in SFTPUser
<1>1. \A x \in rec.keys : x \in KeyObject /\ [x EXCEPT !.name = name] \in KeyObject
  BY RecordForm DEF KeyObject
<1>2. {IF x.name = FindKey(rec, id).name THEN [x EXCEPT !.name = name] ELSE x : x \in rec.keys}
        \in SUBSET KeyObject
  BY <1>1
<1>. QED  BY <1>2, KeysReplacedInRecord DEF RenameUserKey, WithKey

LEMMA UserWithRotatedKey ==
    ASSUME NEW rec \in SFTPUser, NEW id, NEW k \in Key
    PROVE  RotateUserKey(rec, id, k) \in SFTPUser
<1>1. \A x \in rec.keys : x \in KeyObject /\ [x EXCEPT !.key = k] \in KeyObject
  BY RecordForm DEF KeyObject
<1>2. {IF x.name = FindKey(rec, id).name THEN [x EXCEPT !.key = k] ELSE x : x \in rec.keys}
        \in SUBSET KeyObject
  BY <1>1
<1>. QED  BY <1>2, KeysReplacedInRecord DEF RotateUserKey, WithKey

LEMMA ChangedUser ==
    ASSUME NEW rec \in SFTPUser, NEW r, IsRequest(r), NEW s \in {1, 2},
           r.op \in OfOneUser, r.op # "create", r.op # "remove"
    PROVE  Changed(s, rec, r) \in SFTPUser
<1>1. r.op = "update" => Changed(s, rec, r) = UpdateUser(rec, r)
  BY DEF Changed
<1>2. r.op = "disable" => Changed(s, rec, r) = SetUserDisabled(rec, TRUE)
  BY DEF Changed
<1>3. r.op = "enable" => Changed(s, rec, r) = SetUserDisabled(rec, FALSE)
  BY DEF Changed
<1>4. r.op = "key add" => Changed(s, rec, r) = AddUserKey(s, rec, r)
  BY DEF Changed
<1>5. r.op = "key remove" => Changed(s, rec, r) = RemoveUserKey(s, rec, r)
  BY DEF Changed
<1>6. r.op = "key disable" => Changed(s, rec, r) = DisableUserKey(rec, r.id, TRUE)
  BY DEF Changed
<1>7. r.op = "key enable" => Changed(s, rec, r) = DisableUserKey(rec, r.id, FALSE)
  BY DEF Changed
<1>8. r.op = "key rename" => Changed(s, rec, r) = RenameUserKey(rec, r.id, r.label)
  BY DEF Changed
<1>9. r.op = "key rotate" => Changed(s, rec, r) = RotateUserKey(rec, r.id, AnyOf(r.keys))
  BY DEF Changed
<1>10. r.op = "key expire" => Changed(s, rec, r) = ExpireUserKey(rec, r.id)
  BY DEF Changed
<1>11. r.op = "key import" => Changed(s, rec, r) = ImportUserKeys(rec, r)
  BY DEF Changed
<1>12. /\ r.op \in {"key add", "key rename", "key import"} => r.label \in Label \cup Key
       /\ r.op \in {"key add", "key rotate", "key import"} => AnyOf(r.keys) \in Key
  BY RequestForm, AnyOfKeys
<1>13. r.op \in {"update", "disable", "enable", "key add", "key remove", "key disable", "key enable",
                 "key rename", "key rotate", "key expire", "key import"}
  BY DEF OfOneUser, Lifecycle
<1>14. CASE r.op \in {"update", "disable", "enable"}
  BY <1>14, <1>1, <1>2, <1>3, UpdatedUser, DisabledUser
<1>15. CASE r.op \in {"key add", "key import"}
  <2>1. AddUserKey(s, rec, r) \in SFTPUser /\ ImportUserKeys(rec, r) \in SFTPUser
    BY <1>15, UserWithMoreKeys
  <2>. QED  BY <1>15, <1>4, <1>11, <2>1
<1>16. CASE r.op = "key remove"
  BY <1>16, <1>5, UserWithFewerKeys
<1>17. CASE r.op = "key rename"
  BY <1>17, <1>8, <1>12, UserWithRenamedKey
<1>18. CASE r.op = "key rotate"
  BY <1>18, <1>9, <1>12, UserWithRotatedKey
<1>19. CASE r.op \in {"key disable", "key enable", "key expire"}
  BY <1>19, <1>6, <1>7, <1>10, UserWithEditedKeys
<1>. QED  BY <1>13, <1>14, <1>15, <1>16, <1>17, <1>18, <1>19

-----------------------------------------------------------------------------
(* What a request makes of a content *)

(* result is typed and valid, and is as c for the users in S. *)
Spares(result, c, S) ==
    /\ IsProviderUsers(result) /\ AllValid(result.users)
    /\ \A u \in S :
         u \in DOMAIN c.users =>
             /\ u \in DOMAIN result.users /\ result.users[u] = c.users[u]
             /\ result.schema = 1 => c.schema = 1

LEMMA UpsertSpares ==
    ASSUME NEW c, IsProviderUsers(c), AllValid(c.users), NEW v \in User, NEW rec,
           rec \in SFTPUser, Upsert(c, v, rec) # Rejected
    PROVE  Spares(Upsert(c, v, rec), c, User \ {v})
<1>. DEFINE f == [u \in DOMAIN c.users \cup {v} |-> IF u = v THEN rec ELSE c.users[u]]
<1>1. c = [schema |-> c.schema, users |-> c.users] /\ IsUsers(c.users)
  BY ContentForm
<1>2. Valid(rec) /\ Upsert(c, v, rec) = [c EXCEPT !.users = f]
  BY <1>1 DEF Upsert
<1>3. IsUsers(f)
  <2>1. DOMAIN c.users \cup {v} \in SUBSET User /\ f \in [DOMAIN c.users \cup {v} -> SFTPUser]
    BY <1>1, UsersForm
  <2>. QED  BY <2>1, UsersMade
<1>4. Upsert(c, v, rec) = [schema |-> c.schema, users |-> f] /\ IsProviderUsers(Upsert(c, v, rec))
  BY <1>2, <1>3, ContentWith
<1>5. AllValid(f)
  BY <1>2 DEF AllValid
<1>. QED  BY <1>4, <1>5 DEF Spares

LEMMA RemoveSpares ==
    ASSUME NEW c, IsProviderUsers(c), AllValid(c.users), NEW v, RemoveUser(c, v) # Rejected
    PROVE  Spares(RemoveUser(c, v), c, User \ {v})
<1>. DEFINE f == [u \in DOMAIN c.users \ {v} |-> c.users[u]]
<1>1. c = [schema |-> c.schema, users |-> c.users] /\ IsUsers(c.users)
  BY ContentForm
<1>2. RemoveUser(c, v) = [c EXCEPT !.users = f]
  BY <1>1 DEF RemoveUser
<1>3. IsUsers(f)
  <2>1. DOMAIN c.users \ {v} \in SUBSET User /\ f \in [DOMAIN c.users \ {v} -> SFTPUser]
    BY <1>1, UsersForm
  <2>. QED  BY <2>1, UsersMade
<1>4. RemoveUser(c, v) = [schema |-> c.schema, users |-> f] /\ IsProviderUsers(RemoveUser(c, v))
  BY <1>2, <1>3, ContentWith
<1>. QED  BY <1>4 DEF Spares, AllValid

LEMMA MergeSpares ==
    ASSUME NEW c, IsProviderUsers(c), AllValid(c.users),
           NEW source, IsProviderUsers(source), AllValid(source.users)
    PROVE  Spares(Merged(c, source), c, User \ DOMAIN source.users)
<1>. DEFINE f == [u \in DOMAIN c.users \cup DOMAIN source.users |->
                    IF u \in DOMAIN source.users THEN source.users[u] ELSE c.users[u]]
<1>1. IsUsers(c.users) /\ IsUsers(source.users) /\ c = [schema |-> c.schema, users |-> c.users]
  BY ContentForm
<1>2. Merged(c, source) = [c EXCEPT !.users = f]
  BY <1>1 DEF Merged
<1>3. IsUsers(f)
  <2>1. /\ DOMAIN c.users \cup DOMAIN source.users \in SUBSET User
        /\ f \in [DOMAIN c.users \cup DOMAIN source.users -> SFTPUser]
    BY <1>1, UsersForm
  <2>. QED  BY <2>1, UsersMade
<1>4. Merged(c, source) = [schema |-> c.schema, users |-> f] /\ IsProviderUsers(Merged(c, source))
  BY <1>2, <1>3, ContentWith
<1>. QED  BY <1>4 DEF Spares, AllValid

LEMMA ChangeSpares ==
    ASSUME NEW c, IsProviderUsers(c), AllValid(c.users), NEW r, IsRequest(r),
           r.op \in OfOneUser, r.op # "create", r.op # "remove", ChangeUser(c, r) # Rejected
    PROVE  Spares(ChangeUser(c, r), c, User \ {r.user})
<1>. DEFINE base == IF r.op \in Lifecycle THEN WithKeyLifecycle(c) ELSE c
            rec == Changed(base.schema, base.users[r.user], r)
<1>1. /\ IsProviderUsers(base) /\ base.users = c.users /\ base.schema \in {1, 2}
      /\ base.schema = 1 => c.schema = 1
  BY ContentForm, LifecycleContent
<1>2. Finds(base.users, r) /\ ChangeUser(c, r) = Upsert(base, r.user, rec)
  BY DEF ChangeUser
<1>3. r.user \in DOMAIN base.users /\ base.users[r.user] \in SFTPUser /\ r.user \in User
  BY <1>1, <1>2, ContentForm, UsersForm DEF Finds
<1>4. rec \in SFTPUser
  BY <1>1, <1>3, ChangedUser
<1>5. AllValid(base.users)
  BY <1>1
<1>6. Spares(Upsert(base, r.user, rec), base, User \ {r.user})
  BY <1>1, <1>2, <1>3, <1>4, <1>5, UpsertSpares
<1>. QED  BY <1>1, <1>2, <1>6 DEF Spares

LEMMA CreateSpares ==
    ASSUME NEW c, IsProviderUsers(c), AllValid(c.users), NEW r, IsRequest(r),
           r.op = "create", AddUser(c, r) # Rejected
    PROVE  Spares(AddUser(c, r), c, User \ {r.user})
<1>. DEFINE rec == [password |-> r.password, disabled |-> FALSE, keys |-> AuthFields(r.keys)]
<1>1. rec \in SFTPUser
  BY RequestForm, AnonymousKeys, RecordMade DEF AuthFields
<1>2. r.user \in User
  BY RequestForm DEF OfOneUser
<1>. QED  BY <1>1, <1>2, UpsertSpares DEF AddUser

(* A request that is carried out leaves the users it is not about alone,   *)
(* and what it leaves is typed and valid: Apply for every request, content *)
(* and set of users.                                                       *)
THEOREM RequestsSpareOthers ==
    ASSUME NEW c, IsProviderUsers(c), AllValid(c.users), NEW r, IsRequest(r),
           ~r.dry, Apply(r, c) # Rejected
    PROVE  Spares(Apply(r, c), c, User \ About(r))
<1>1. r.op \in OfOneUser => About(r) = {r.user}
  BY DEF About, OfOneUser, Lifecycle
<1>2. r.op = "merge" => About(r) = DOMAIN r.source.users
  BY DEF About, OfOneUser, Lifecycle
<1>3. r.op \in {"replace", "copy"} => About(r) = User
  BY DEF About, OfOneUser, Lifecycle
<1>4. CASE r.op = "create"
  <2>1. Apply(r, c) = AddUser(c, r) /\ r.op \in OfOneUser
    BY <1>4 DEF Apply, OfOneUser
  <2>. QED  BY <1>1, <1>4, <2>1, CreateSpares
<1>5. CASE r.op = "remove"
  <2>1. Apply(r, c) = RemoveUser(c, r.user) /\ r.op \in OfOneUser
    BY <1>5 DEF Apply, OfOneUser
  <2>. QED  BY <1>1, <1>5, <2>1, RemoveSpares
<1>6. CASE r.op \in OfOneUser \ {"create", "remove"}
  <2>1. Apply(r, c) = ChangeUser(c, r)
    BY <1>6 DEF Apply, OfOneUser, Lifecycle
  <2>. QED  BY <1>1, <1>6, <2>1, ChangeSpares
<1>7. CASE r.op = "merge"
  <2>1. Apply(r, c) = Merged(c, r.source)
    BY <1>7 DEF Apply, OfOneUser, Lifecycle
  <2>. QED  BY <1>2, <1>7, <2>1, MergeSpares, RequestForm
<1>8. CASE r.op \in {"replace", "copy"}
  <2>1. Apply(r, c) = r.source
    BY <1>8 DEF Apply, OfOneUser, Lifecycle
  <2>. QED  BY <1>3, <1>8, <2>1, RequestForm DEF Spares
<1>9. CASE r.op \notin OfOneUser \cup Transfer
  <2>1. Apply(r, c) = c
    BY <1>9 DEF Apply, OfOneUser, Transfer
  <2>. QED  BY <2>1 DEF Spares
<1>. QED  BY <1>4, <1>5, <1>6, <1>7, <1>8, <1>9 DEF Transfer
-----------------------------------------------------------------------------
(* Files *)

LEMMA FileTextForm ==
    ASSUME NEW t, IsFileText(t)
    PROVE  /\ t \notin {Blank, Garbled}
           /\ t.schema \in {1, 2} /\ DOMAIN t.users \in SUBSET User
           /\ \A u \in DOMAIN t.users :
                IF t.schema = 1 THEN t.users[u] \in Row ELSE t.users[u] \in SFTPUser
<1>1. t \notin {Blank, Garbled}
  BY TextAssumption
<1>2. PICK U \in SUBSET User :
         t \in [schema : {1}, users : [U -> Row]] \cup [schema : {2}, users : [U -> SFTPUser]]
  BY DEF IsFileText
<1>. QED  BY <1>1, <1>2

LEMMA TextIsGood ==
    ASSUME NEW c, Good(c)
    PROVE  /\ IsFileText(Text(c)) /\ GoodText(Text(c))
           /\ FromText(Text(c)) = Stored(c)
           /\ Text(c).schema = c.schema /\ DOMAIN Text(c).users = DOMAIN c.users
<1>. DEFINE f == [u \in DOMAIN c.users |-> ToMapping(c.schema, c.users[u])]
<1>1. /\ c.schema \in {1, 2} /\ c.schema <= c.schema /\ DOMAIN c.users \in SUBSET User
      /\ \A u \in DOMAIN c.users : c.users[u] \in SFTPUser /\ Valid(c.users[u])
      /\ c = [schema |-> c.schema, users |-> c.users]
  BY ContentForm, UsersForm DEF Good, AllValid
<1>2. Text(c) = [schema |-> c.schema, users |-> f]
  BY DEF Text
<1>3. Text(c).schema = c.schema /\ Text(c).users = f /\ DOMAIN f = DOMAIN c.users
  BY <1>2
<1>4. IsFileText(Text(c))
  <2>1. c.schema = 1 => f \in [DOMAIN c.users -> Row]
    BY <1>1, WrittenAndRead
  <2>2. c.schema = 2 => f \in [DOMAIN c.users -> SFTPUser]
    BY <1>1, WrittenAndRead
  <2>3. Text(c) \in [schema : {1}, users : [DOMAIN c.users -> Row]]
                      \cup [schema : {2}, users : [DOMAIN c.users -> SFTPUser]]
    BY <1>1, <1>2, <2>1, <2>2
  <2>. QED  BY <1>1, <2>3 DEF IsFileText
<1>5. \A u \in DOMAIN f : Valid(FromMapping(c.schema, f[u]))
  BY <1>1, WrittenAndRead
<1>6. GoodText(Text(c))
  BY <1>3, <1>4, <1>5 DEF GoodText
<1>7. FromText(Text(c)) = [schema |-> c.schema,
                          users |-> [u \in DOMAIN f |-> FromMapping(c.schema, f[u])]]
  <2>1. Text(c) \notin {Blank, Garbled}
    BY <1>4, FileTextForm
  <2>. QED  BY <1>3, <2>1 DEF FromText
<1>8. Stored(c) = [schema |-> c.schema,
                   users |-> [u \in DOMAIN c.users |->
                               FromMapping(c.schema, ToMapping(c.schema, c.users[u]))]]
  BY <1>1 DEF Stored
<1>9. [u \in DOMAIN f |-> FromMapping(c.schema, f[u])]
        = [u \in DOMAIN c.users |-> FromMapping(c.schema, ToMapping(c.schema, c.users[u]))]
  BY <1>3
<1>. QED  BY <1>3, <1>4, <1>6, <1>7, <1>8, <1>9

LEMMA FlushedTextIsGood ==
    ASSUME NEW c, Good(c), NEW S \in SUBSET DOMAIN c.users
    PROVE  /\ GoodText(FlushedText(c, S)) /\ FlushedText(c, S) # Garbled
           /\ FlushedText(c, S).schema = c.schema /\ DOMAIN FlushedText(c, S).users = S
           /\ \A u \in S : FlushedText(c, S).users[u] = Text(c).users[u]
<1>. DEFINE f == [u \in S |-> c.users[u]]
            d == [c EXCEPT !.users = f]
<1>1. IsUsers(c.users) /\ c.schema \in {1, 2} /\ c = [schema |-> c.schema, users |-> c.users]
  BY ContentForm DEF Good
<1>2. IsUsers(f)
  <2>1. S \in SUBSET User /\ f \in [S -> SFTPUser]
    BY <1>1, UsersForm
  <2>. QED  BY <2>1, UsersMade
<1>3. d = [schema |-> c.schema, users |-> f] /\ IsProviderUsers(d)
  BY <1>2, ContentWith DEF Good
<1>4. Good(d)
  BY <1>3 DEF Good, AllValid
<1>5. FlushedText(c, S) = Text(d)
  BY DEF FlushedText
<1>6. /\ IsFileText(Text(d)) /\ GoodText(Text(d))
      /\ Text(d).schema = d.schema /\ DOMAIN Text(d).users = DOMAIN d.users
  BY <1>4, TextIsGood
<1>7. \A u \in S : Text(d).users[u] = Text(c).users[u]
  BY <1>3 DEF Text
<1>. QED  BY <1>3, <1>5, <1>6, <1>7, FileTextForm

LEMMA TextIsRead ==
    ASSUME NEW t, GoodText(t)
    PROVE  IF t = Garbled THEN FromText(t) = Rejected ELSE Good(FromText(t))
<1>1. CASE t = Blank
  <2>1. FromText(t) = [schema |-> 1, users |-> NoUsers]
    BY <1>1, TextAssumption DEF FromText
  <2>. QED  BY <1>1, TextAssumption, <2>1, NoUsersForm, ContentMade DEF Good
<1>2. CASE t = Garbled
  BY <1>2, TextAssumption DEF FromText
<1>3. CASE t \notin {Blank, Garbled}
  <2>. DEFINE f == [u \in DOMAIN t.users |-> FromMapping(t.schema, t.users[u])]
  <2>1. FromText(t) = [schema |-> t.schema, users |-> f]
    BY <1>3 DEF FromText
  <2>2. /\ t.schema \in {1, 2} /\ DOMAIN t.users \in SUBSET User
        /\ \A u \in DOMAIN t.users :
             IF t.schema = 1 THEN t.users[u] \in Row ELSE t.users[u] \in SFTPUser
        /\ \A u \in DOMAIN t.users : Valid(FromMapping(t.schema, t.users[u]))
    BY <1>3, FileTextForm DEF GoodText
  <2>3. \A u \in DOMAIN t.users : f[u] \in SFTPUser
    BY <2>2, RowsAreRead, NamedKeysAreKept DEF FromMapping
  <2>4. IsUsers(f)
    BY <2>2, <2>3, UsersMade
  <2>5. AllValid(f)
    BY <2>2 DEF AllValid
  <2>. QED  BY <1>3, <2>1, <2>2, <2>4, <2>5, ContentMade DEF Good
<1>. QED  BY <1>1, <1>2, <1>3
-----------------------------------------------------------------------------
(* Tables *)

LEMMA RowsForm ==
    ASSUME NEW rows, IsRows(rows)
    PROVE  /\ DOMAIN rows \in SUBSET User /\ rows \in [DOMAIN rows -> Row]
           /\ \A u \in DOMAIN rows : rows[u] \in Row
BY DEF IsRows

LEMMA RowsMade ==
    ASSUME NEW U \in SUBSET User, NEW rows \in [U -> Row]
    PROVE  IsRows(rows)
BY DEF IsRows

LEMMA NoRowsForm ==
    IsRows(NoRows) /\ GoodRows(NoRows) /\ DOMAIN NoRows = {}
<1>1. NoRows \in [{} -> Row] /\ DOMAIN NoRows = {}
  BY DEF NoRows
<1>. QED  BY <1>1, RowsMade DEF GoodRows

LEMMA RowsOfContent ==
    ASSUME NEW c, Good(c)
    PROVE  /\ GoodRows(Rows(c)) /\ DOMAIN Rows(c) = DOMAIN c.users
           /\ \A u \in DOMAIN c.users :
                /\ Rows(c)[u].password = c.users[u].password
                /\ Rows(c)[u].disabled = c.users[u].disabled
                /\ Rows(c)[u].public_keys = PublicKeys(c.users[u])
<1>1. /\ DOMAIN c.users \in SUBSET User
      /\ \A u \in DOMAIN c.users : c.users[u] \in SFTPUser /\ Valid(c.users[u])
  BY ContentForm, UsersForm DEF Good, AllValid
<1>2. Rows(c) = [u \in DOMAIN c.users |-> V1Mapping(c.users[u])]
  BY DEF Rows, UserRow
<1>3. IsRows(Rows(c))
  BY <1>1, <1>2, RowsAreWritten, RowsMade
<1>. QED  BY <1>1, <1>2, <1>3, RowsAreWritten DEF GoodRows

LEMMA KeyRowsOfContent ==
    ASSUME NEW c, Good(c)
    PROVE  /\ KeyRows(c) \in KeyTable /\ GoodTable(KeyRows(c)) /\ KeyRows(c) # NoTable
           /\ \A u \in DOMAIN c.users : u \in User /\ KeyRows(c)[u] = c.users[u].keys
<1>1. /\ DOMAIN c.users \in SUBSET User
      /\ \A u \in DOMAIN c.users : c.users[u] \in SFTPUser /\ Valid(c.users[u])
                                /\ c.users[u].keys \in SUBSET KeyObject
  BY ContentForm, UsersForm, RecordForm DEF Good, AllValid
<1>2. KeyRows(c) \in KeyTable
  BY <1>1 DEF KeyRows, KeyTable
<1>3. \A u \in DOMAIN c.users : u \in User /\ KeyRows(c)[u] = c.users[u].keys
  BY <1>1 DEF KeyRows
<1>4. \A u \in User : UniqueKeys([keys |-> KeyRows(c)[u]])
  <2>1. SUFFICES ASSUME NEW u \in User PROVE UniqueKeys([keys |-> KeyRows(c)[u]])
    OBVIOUS
  <2>2. CASE u \in DOMAIN c.users
    BY <1>1, <1>3, <2>2 DEF UniqueKeys, Valid
  <2>3. CASE u \notin DOMAIN c.users
    <3>1. KeyRows(c)[u] = {}
      BY <2>3 DEF KeyRows
    <3>. QED  BY <3>1 DEF UniqueKeys
  <2>. QED  BY <2>2, <2>3
<1>. QED  BY <1>2, <1>3, <1>4, TableAssumption DEF GoodTable

LEMMA EmptyTableIsGood ==
    EmptyKeyTable \in KeyTable /\ GoodTable(EmptyKeyTable) /\ EmptyKeyTable # NoTable
<1>1. EmptyKeyTable \in KeyTable /\ \A u \in User : EmptyKeyTable[u] = {}
  BY DEF EmptyKeyTable, KeyTable
<1>. QED  BY <1>1, TableAssumption DEF GoodTable, UniqueKeys

(* The user that is read of a row and its keys *)
UserOf(rows, keyTab, schema, u) ==
    IF schema = 2
    THEN [password |-> rows[u].password, disabled |-> rows[u].disabled, keys |-> keyTab[u]]
    ELSE V1User(rows[u])

LEMMA RowsRead ==
    ASSUME NEW rows, IsRows(rows), NEW keyTab, keyTab = NoTable \/ keyTab \in KeyTable,
           NEW s \in {1, 2}
    PROVE  /\ FromRows(rows, keyTab, s) = Rejected \/ Good(FromRows(rows, keyTab, s))
           /\ FromRows(rows, keyTab, s) # Rejected =>
                /\ s = 2 => keyTab \in KeyTable
                /\ FromRows(rows, keyTab, s).schema = s
                /\ DOMAIN FromRows(rows, keyTab, s).users = DOMAIN rows
                /\ \A u \in DOMAIN rows :
                     FromRows(rows, keyTab, s).users[u] = UserOf(rows, keyTab, s, u)
           /\ FromRows(rows, keyTab, s) = Rejected =>
                \/ s = 2 /\ keyTab = NoTable
                \/ \E u \in DOMAIN rows : ~Valid(UserOf(rows, keyTab, s, u))
<1>. DEFINE f == [u \in DOMAIN rows |-> UserOf(rows, keyTab, s, u)]
            c == FromRows(rows, keyTab, s)
<1>1. c = IF s = 2 /\ keyTab = NoTable THEN Rejected
          ELSE IF ~AllValid(f) THEN Rejected
          ELSE [schema |-> s, users |-> f]
  <2>2. \A u : V2User([password |-> rows[u].password, disabled |-> rows[u].disabled, keys |-> keyTab[u]])
                 = [password |-> rows[u].password, disabled |-> rows[u].disabled, keys |-> keyTab[u]]
    BY DEF V2User
  <2>3. f = [u \in DOMAIN rows |->
               IF UsesKeyTable(s)
               THEN V2User([password |-> rows[u].password, disabled |-> rows[u].disabled,
                            keys |-> keyTab[u]])
               ELSE V1User(rows[u])]
    BY <2>2 DEF UserOf, UsesKeyTable
  <2>. QED  BY <2>3 DEF FromRows, UsesKeyTable
<1>2. /\ DOMAIN rows \in SUBSET User
      /\ \A u \in DOMAIN rows : rows[u] \in Row /\ rows[u].password \in BOOLEAN /\ rows[u].disabled \in BOOLEAN
  BY RowsForm, RowForm
<1>3. ASSUME s = 2 => keyTab \in KeyTable
      PROVE  IsUsers(f)
  <2>1. \A u \in DOMAIN rows : UserOf(rows, keyTab, s, u) \in SFTPUser
    <3>1. SUFFICES ASSUME NEW u \in DOMAIN rows PROVE UserOf(rows, keyTab, s, u) \in SFTPUser
      OBVIOUS
    <3>2. CASE s = 2
      <4>1. keyTab[u] \in SUBSET KeyObject
        BY <1>2, <1>3, <3>2 DEF KeyTable
      <4>. QED  BY <1>2, <3>2, <4>1, RecordMade DEF UserOf
    <3>3. CASE s = 1
      BY <1>2, <3>3, RowsAreRead DEF UserOf
    <3>. QED  BY <3>2, <3>3
  <2>. QED  BY <1>2, <2>1, UsersMade
<1>4. CASE s = 2 /\ keyTab = NoTable
  BY <1>1, <1>4
<1>5. CASE ~ (s = 2 /\ keyTab = NoTable) /\ ~AllValid(f)
  BY <1>1, <1>5 DEF AllValid
<1>6. CASE ~ (s = 2 /\ keyTab = NoTable) /\ AllValid(f)
  <2>1. c = [schema |-> s, users |-> f]
    BY <1>1, <1>6
  <2>2. IsProviderUsers(c)
    BY <1>3, <1>6, <2>1, ContentMade
  <2>3. Good(c) /\ c # Rejected
    BY <1>6, <2>1, <2>2, ContentIsNotRejected DEF Good
  <2>. QED  BY <1>6, <2>1, <2>3
<1>. QED  BY <1>4, <1>5, <1>6
-----------------------------------------------------------------------------
(* Documents *)

LEMMA DocsForm ==
    ASSUME NEW docs, IsDocs(docs)
    PROVE  /\ DOMAIN docs \in SUBSET User
           /\ \A u \in DOMAIN docs :
                \/ docs[u].schema = 1 /\ docs[u].user \in Row
                \/ docs[u].schema = 2 /\ docs[u].user \in SFTPUser
           /\ \A u \in DOMAIN docs :
                docs[u] \in [schema : {1}, user : Row] \cup [schema : {2}, user : SFTPUser]
BY DEF IsDocs

LEMMA DocsMade ==
    ASSUME NEW U \in SUBSET User,
           NEW docs \in [U -> [schema : {1}, user : Row] \cup [schema : {2}, user : SFTPUser]]
    PROVE  IsDocs(docs)
BY DEF IsDocs

LEMMA NoDocsForm ==
    IsDocs(NoDocs) /\ GoodDocs(NoDocs) /\ DOMAIN NoDocs = {}
<1>1. DOMAIN NoDocs = {} /\ NoDocs \in [{} -> [schema : {1}, user : Row] \cup [schema : {2}, user : SFTPUser]]
  BY DEF NoDocs
<1>. QED  BY <1>1, DocsMade DEF GoodDocs

LEMMA DocumentOfUser ==
    ASSUME NEW rec \in SFTPUser, Valid(rec), NEW s \in {1, 2}
    PROVE  /\ Document(s, rec) \in [schema : {1}, user : Row] \cup [schema : {2}, user : SFTPUser]
           /\ Valid(V2User(Document(s, rec).user))
           /\ s = 2 \/ AllActive(rec) => SameAccess(V2User(Document(s, rec).user), rec)
<1>1. s <= s
  OBVIOUS
<1>2. /\ s = 1 => ToMapping(s, rec) \in Row
      /\ s = 2 => ToMapping(s, rec) \in SFTPUser
      /\ Valid(V2User(ToMapping(s, rec)))
      /\ s = 2 \/ AllActive(rec) => SameAccess(V2User(ToMapping(s, rec)), rec)
  BY <1>1, WrittenAndRead
<1>. QED  BY <1>2 DEF Document

LEMMA DocsRead ==
    ASSUME NEW docs, GoodDocs(docs), NEW s \in {1, 2}
    PROVE  /\ Good(FromDocs(docs, s)) /\ DOMAIN FromDocs(docs, s).users = DOMAIN docs
           /\ \A u \in DOMAIN docs :
                /\ FromDocs(docs, s).users[u] = V2User(docs[u].user)
                /\ FromDocs(docs, s).schema = 1 => docs[u].user \in Row
<1>. DEFINE t == DocsSchema(docs, s)
            f == [u \in DOMAIN docs |-> FromMapping(t, docs[u].user)]
<1>1. FromDocs(docs, s) = [schema |-> t, users |-> f] /\ t \in {1, 2}
  BY DEF FromDocs, DocsSchema
<1>2. \A u \in DOMAIN docs : t = 1 => docs[u].schema # 2
  BY DEF DocsSchema
<1>3. /\ DOMAIN docs \in SUBSET User
      /\ \A u \in DOMAIN docs : docs[u].user \in SFTPUser \/ docs[u].user \in Row
      /\ \A u \in DOMAIN docs : t = 1 => docs[u].user \in Row
      /\ \A u \in DOMAIN docs : Valid(V2User(docs[u].user))
  BY <1>2, DocsForm DEF GoodDocs
<1>4. \A u \in DOMAIN docs : FromMapping(t, docs[u].user) = V2User(docs[u].user)
  BY <1>1, <1>3, RowForm DEF FromMapping
<1>5. \A u \in DOMAIN docs : V2User(docs[u].user) \in SFTPUser
  BY <1>3, RowForm, RowsAreRead, NamedKeysAreKept
<1>6. IsUsers(f) /\ AllValid(f)
  BY <1>3, <1>4, <1>5, UsersMade DEF AllValid
<1>. QED  BY <1>1, <1>3, <1>4, <1>6, ContentMade DEF Good
-----------------------------------------------------------------------------
(* Reads and the operations on what a provider holds *)

LEMMA StoreIsRead ==
    ASSUME NEW st, GoodStore(st), NEW b \in Backend, NEW s \in {1, 2}
    PROVE  ReadAs(b, st, s) = Rejected \/ Good(ReadAs(b, st, s))
<1>1. /\ b \in FileBackend => ReadAs(b, st, s) = FromText(st.text)
      /\ b \in SqlBackend => ReadAs(b, st, s) = FromRows(st.rows, st.keyTab, s)
      /\ b = "mongodb" => ReadAs(b, st, s) = FromDocs(st.docs, s)
  BY DEF ReadAs, FileBackend, SqlBackend
<1>2. CASE b \in FileBackend
  BY <1>1, <1>2, TextIsRead DEF GoodStore
<1>3. CASE b \in SqlBackend
  BY <1>1, <1>3, RowsRead DEF GoodStore, GoodRows, GoodTable
<1>4. CASE b = "mongodb"
  BY <1>1, <1>4, DocsRead DEF GoodStore
<1>. QED  BY <1>2, <1>3, <1>4 DEF Backend

LEMMA GoodStoreIsStore ==
    ASSUME NEW st, GoodStore(st)
    PROVE  IsStore(st)
BY DEF GoodStore, IsStore, GoodText, GoodRows, GoodTable, GoodDocs

LEMMA StoreMade ==
    ASSUME NEW t, NEW r, NEW k, NEW d, GoodText(t), GoodRows(r), GoodTable(k), GoodDocs(d)
    PROVE  GoodStore([text |-> t, rows |-> r, keyTab |-> k, docs |-> d])
BY DEF GoodStore

LEMMA StoreWithText ==
    ASSUME NEW st, GoodStore(st), NEW t, GoodText(t)
    PROVE  /\ GoodStore([st EXCEPT !.text = t]) /\ [st EXCEPT !.text = t].text = t
           /\ [st EXCEPT !.text = t].docs = st.docs
<1>1. [st EXCEPT !.text = t] = [text |-> t, rows |-> st.rows, keyTab |-> st.keyTab, docs |-> st.docs]
  BY DEF GoodStore
<1>. QED  BY <1>1, StoreMade DEF GoodStore

LEMMA TablesReplaced ==
    ASSUME NEW st, GoodStore(st), NEW r, NEW k
    PROVE  [st EXCEPT !.rows = r, !.keyTab = k]
             = [text |-> st.text, rows |-> r, keyTab |-> k, docs |-> st.docs]
<1>. DEFINE sr == [text |-> st.text, rows |-> r, keyTab |-> st.keyTab, docs |-> st.docs]
<1>1. [st EXCEPT !.rows = r] = sr
  BY DEF GoodStore
<1>2. [sr EXCEPT !.keyTab = k] = [text |-> st.text, rows |-> r, keyTab |-> k, docs |-> st.docs]
  OBVIOUS
<1>. HIDE DEF sr
<1>3. [st EXCEPT !.rows = r, !.keyTab = k] = [sr EXCEPT !.keyTab = k]
  BY <1>1
<1>. QED  BY <1>2, <1>3

LEMMA StoreWithDocs ==
    ASSUME NEW st, GoodStore(st), NEW d, GoodDocs(d)
    PROVE  GoodStore([st EXCEPT !.docs = d]) /\ [st EXCEPT !.docs = d].docs = d
<1>1. [st EXCEPT !.docs = d] = [text |-> st.text, rows |-> st.rows, keyTab |-> st.keyTab, docs |-> d]
  BY DEF GoodStore
<1>. QED  BY <1>1, StoreMade DEF GoodStore

LEMMA TableIsCreated ==
    ASSUME NEW st, GoodStore(st), NEW s \in {1, 2}
    PROVE  /\ GoodStore(KeyTableCreated(st)) /\ GoodStore(StorageEnsured(st, s))
           /\ KeyTableCreated(st).rows = st.rows /\ StorageEnsured(st, s).rows = st.rows
           /\ KeyTableCreated(st).keyTab # NoTable
           /\ StorageEnsured(st, s) = IF s = 2 /\ st.keyTab = NoTable THEN KeyTableCreated(st) ELSE st
           /\ st.keyTab = NoTable => KeyTableCreated(st).keyTab = EmptyKeyTable
           /\ st.keyTab # NoTable => KeyTableCreated(st) = st
<1>1. st = [text |-> st.text, rows |-> st.rows, keyTab |-> st.keyTab, docs |-> st.docs]
  BY DEF GoodStore
<1>2. CASE st.keyTab = NoTable
  <2>1. KeyTableCreated(st) = [text |-> st.text, rows |-> st.rows, keyTab |-> EmptyKeyTable, docs |-> st.docs]
    BY <1>1, <1>2 DEF KeyTableCreated
  <2>2. GoodStore(KeyTableCreated(st))
    BY <2>1, StoreMade, EmptyTableIsGood DEF GoodStore
  <2>. QED  BY <1>2, <2>1, <2>2, EmptyTableIsGood DEF StorageEnsured, UsesKeyTable
<1>3. CASE st.keyTab # NoTable
  <2>1. KeyTableCreated(st) = st
    BY <1>1, <1>3 DEF KeyTableCreated
  <2>. QED  BY <1>3, <2>1 DEF StorageEnsured, UsesKeyTable
<1>. QED  BY <1>2, <1>3

LEMMA ContentIsCommitted ==
    ASSUME NEW st, GoodStore(st), NEW c, Good(c)
    PROVE  /\ GoodStore(Committed(st, c)) /\ Committed(st, c).rows = Rows(c)
           /\ Committed(st, c).keyTab = IF c.schema = 2 THEN KeyRows(c) ELSE st.keyTab
<1>1. MissingDeleted(Upserted(st.rows, c), c) = Rows(c)
  BY RowsOfContent DEF MissingDeleted, Upserted, Rows
<1>2. KeysReplaced(st.keyTab, c) = IF c.schema = 2 THEN KeyRows(c) ELSE st.keyTab
  BY DEF KeysReplaced, UsesKeyTable
<1>3. Committed(st, c) = [st EXCEPT !.rows = Rows(c), !.keyTab = KeysReplaced(st.keyTab, c)]
  BY <1>1 DEF Committed
<1>4. GoodRows(Rows(c)) /\ GoodTable(KeysReplaced(st.keyTab, c))
  BY <1>2, RowsOfContent, KeyRowsOfContent DEF GoodStore
<1>5. Committed(st, c) = [text |-> st.text, rows |-> Rows(c),
                          keyTab |-> KeysReplaced(st.keyTab, c), docs |-> st.docs]
  BY <1>3, TablesReplaced
<1>. QED  BY <1>2, <1>4, <1>5, StoreMade DEF GoodStore

LEMMA RowIsDeleted ==
    ASSUME NEW st, GoodStore(st), NEW v, NEW s \in {1, 2}, s = 2 => st.keyTab # NoTable
    PROVE  /\ GoodStore(RowDeleted(st, v, s))
           /\ DOMAIN RowDeleted(st, v, s).rows = DOMAIN st.rows \ {v}
           /\ \A u \in DOMAIN st.rows \ {v} : RowDeleted(st, v, s).rows[u] = st.rows[u]
           /\ s = 1 => RowDeleted(st, v, s).keyTab = st.keyTab
           /\ s = 2 => /\ RowDeleted(st, v, s).keyTab \in KeyTable
                       /\ \A u \in User \ {v} : RowDeleted(st, v, s).keyTab[u] = st.keyTab[u]
<1>. DEFINE r == [u \in DOMAIN st.rows \ {v} |-> st.rows[u]]
            k == IF s = 2 THEN [st.keyTab EXCEPT ![v] = {}] ELSE st.keyTab
<1>1. GoodRows(st.rows) /\ GoodTable(st.keyTab)
  BY DEF GoodStore
<1>2. GoodRows(r)
  <2>1. DOMAIN st.rows \ {v} \in SUBSET User /\ r \in [DOMAIN st.rows \ {v} -> Row]
    BY <1>1, RowsForm DEF GoodRows
  <2>. QED  BY <1>1, <2>1, RowsMade DEF GoodRows
<1>3. s = 2 => k \in KeyTable /\ \A u \in User : k[u] = IF u = v THEN {} ELSE st.keyTab[u]
  BY <1>1 DEF GoodTable, KeyTable
<1>4. GoodTable(k)
  <2>1. CASE s = 2
    <3>1. \A u \in User : UniqueKeys([keys |-> k[u]])
      BY <1>1, <1>3, <2>1 DEF GoodTable, UniqueKeys
    <3>. QED  BY <1>3, <2>1, <3>1 DEF GoodTable
  <2>2. CASE s # 2
    BY <1>1, <2>2
  <2>. QED  BY <2>1, <2>2
<1>5. RowDeleted(st, v, s) = [st EXCEPT !.rows = r, !.keyTab = k]
  BY DEF RowDeleted, UsesKeyTable
<1>6. RowDeleted(st, v, s) = [text |-> st.text, rows |-> r, keyTab |-> k, docs |-> st.docs]
  BY <1>5, TablesReplaced
<1>. QED  BY <1>2, <1>3, <1>4, <1>6, StoreMade DEF GoodStore

LEMMA DocIsReplaced ==
    ASSUME NEW st, GoodStore(st), NEW c, Good(c), NEW v \in DOMAIN c.users
    PROVE  /\ GoodStore(DocReplaced(st, c, v))
           /\ DOMAIN DocReplaced(st, c, v).docs = DOMAIN st.docs \cup {v}
           /\ DocReplaced(st, c, v).docs[v] = Document(c.schema, c.users[v])
           /\ \A u \in DOMAIN st.docs \ {v} : DocReplaced(st, c, v).docs[u] = st.docs[u]
<1>. DEFINE d == [u \in DOMAIN st.docs \cup {v} |->
                    IF u = v THEN Document(c.schema, c.users[v]) ELSE st.docs[u]]
<1>1. /\ c.schema \in {1, 2} /\ v \in User /\ c.users[v] \in SFTPUser /\ Valid(c.users[v])
  BY ContentForm, UsersForm DEF Good, AllValid
<1>2. GoodDocs(st.docs)
  BY DEF GoodStore
<1>3. GoodDocs(d)
  <2>1. /\ DOMAIN st.docs \cup {v} \in SUBSET User
        /\ d \in [DOMAIN st.docs \cup {v} -> [schema : {1}, user : Row] \cup [schema : {2}, user : SFTPUser]]
    BY <1>1, <1>2, DocumentOfUser, DocsForm DEF GoodDocs
  <2>2. \A u \in DOMAIN d : Valid(V2User(d[u].user))
    BY <1>1, <1>2, DocumentOfUser DEF GoodDocs
  <2>. QED  BY <2>1, <2>2, DocsMade DEF GoodDocs
<1>4. DocReplaced(st, c, v) = [st EXCEPT !.docs = d]
  BY DEF DocReplaced
<1>. QED  BY <1>3, <1>4, StoreWithDocs

LEMMA DocsAreDeleted ==
    ASSUME NEW st, GoodStore(st), NEW S
    PROVE  /\ GoodDocs([u \in DOMAIN st.docs \cap S |-> st.docs[u]])
           /\ GoodDocs([u \in DOMAIN st.docs \ S |-> st.docs[u]])
<1>1. GoodDocs(st.docs)
  BY DEF GoodStore
<1>2. /\ DOMAIN st.docs \in SUBSET User
      /\ \A u \in DOMAIN st.docs :
           /\ st.docs[u] \in [schema : {1}, user : Row] \cup [schema : {2}, user : SFTPUser]
           /\ Valid(V2User(st.docs[u].user))
  BY <1>1, DocsForm DEF GoodDocs
<1>3. ASSUME NEW T \in SUBSET DOMAIN st.docs
      PROVE  GoodDocs([u \in T |-> st.docs[u]])
  <2>1. T \in SUBSET User
        /\ [u \in T |-> st.docs[u]] \in [T -> [schema : {1}, user : Row] \cup [schema : {2}, user : SFTPUser]]
    BY <1>2
  <2>. QED  BY <1>2, <2>1, DocsMade DEF GoodDocs
<1>4. DOMAIN st.docs \cap S \in SUBSET DOMAIN st.docs /\ DOMAIN st.docs \ S \in SUBSET DOMAIN st.docs
  OBVIOUS
<1>. QED  BY <1>3, <1>4

LEMMA HeldStore ==
    ASSUME NEW c, Good(c), NEW b \in Backend
    PROVE  /\ GoodStore(Holding(b, c))
           /\ b \in FileBackend => Holding(b, c).text = Text(c)
           /\ b \in SqlBackend =>
                /\ Holding(b, c).rows = Rows(c)
                /\ Holding(b, c).keyTab = IF c.schema = 2 THEN KeyRows(c) ELSE NoTable
           /\ b = "mongodb" =>
                Holding(b, c).docs = [u \in DOMAIN c.users |-> Document(c.schema, c.users[u])]
<1>. DEFINE t == IF b \in FileBackend THEN Text(c) ELSE Blank
            r == IF b \in SqlBackend THEN Rows(c) ELSE NoRows
            k == IF b \in SqlBackend THEN KeysReplaced(NoTable, c) ELSE NoTable
            f == [u \in DOMAIN c.users |-> Document(c.schema, c.users[u])]
            d == IF b = "mongodb" THEN f ELSE NoDocs
<1>1. GoodText(t)
  BY TextIsGood DEF GoodText
<1>2. GoodRows(r)
  BY RowsOfContent, NoRowsForm
<1>3. KeysReplaced(NoTable, c) = IF c.schema = 2 THEN KeyRows(c) ELSE NoTable
  BY DEF KeysReplaced, UsesKeyTable
<1>4. GoodTable(k)
  BY <1>3, KeyRowsOfContent DEF GoodTable
<1>5. GoodDocs(f)
  <2>1. /\ c.schema \in {1, 2} /\ DOMAIN c.users \in SUBSET User
        /\ \A u \in DOMAIN c.users : c.users[u] \in SFTPUser /\ Valid(c.users[u])
    BY ContentForm, UsersForm DEF Good, AllValid
  <2>2. f \in [DOMAIN c.users -> [schema : {1}, user : Row] \cup [schema : {2}, user : SFTPUser]]
        /\ \A u \in DOMAIN f : Valid(V2User(f[u].user))
    BY <2>1, DocumentOfUser
  <2>. QED  BY <2>1, <2>2, DocsMade DEF GoodDocs
<1>6. GoodDocs(d)
  BY <1>5, NoDocsForm
<1>7. Holding(b, c) = [text |-> t, rows |-> r, keyTab |-> k, docs |-> d]
  BY DEF Holding
<1>. QED  BY <1>1, <1>2, <1>3, <1>4, <1>6, <1>7, StoreMade
=============================================================================
