--------------------------- MODULE ProviderStore ---------------------------
(***************************************************************************)
(* What the providers keep users in, and what one statement, document or   *)
(* file operation of theirs does to it (providers/).                       *)
(*                                                                         *)
(* YAML and CSV are one file, opened for writing (which empties it) and    *)
(* then filled.  SQLite, PostgreSQL and MySQL are a users table, whose     *)
(* public_keys column is schema 1, and a key table, which is schema 2: no  *)
(* row says which schema the data is in, the configuration does.  MongoDB  *)
(* is one document per user, tagged with its schema when that is 2.        *)
(***************************************************************************)
EXTENDS UserSchemas

CONSTANTS
    Blank,      \* a file that was opened for writing and not filled
    Garbled,    \* a file two processes have written over one another
    NoTable     \* the key table does not exist

FileBackend == {"yaml", "csv"}
SqlBackend == {"sqlite", "postgres", "mysql"}
Backend == FileBackend \cup SqlBackend \cup {"mongodb"}

(* readers that run two SELECTs without a snapshot shared by both *)
TwoLooks == {"sqlite", "postgres"}

Row == [password : BOOLEAN, disabled : BOOLEAN, public_keys : SUBSET Key]

IsFileText(text) ==
    \E U \in SUBSET User :
        text \in [schema : {1}, users : [U -> Row]] \cup [schema : {2}, users : [U -> SFTPUser]]

IsRows(rows) == \E U \in SUBSET User : rows \in [U -> Row]

IsDocs(docs) ==
    \E U \in SUBSET User :
        docs \in [U -> [schema : {1}, user : Row] \cup [schema : {2}, user : SFTPUser]]

KeyTable == [User -> SUBSET KeyObject]

ASSUME TextAssumption == Blank # Garbled /\ ~IsFileText(Blank) /\ ~IsFileText(Garbled)
ASSUME TableAssumption == NoTable \notin KeyTable

IsStore(st) ==
    /\ st = [text |-> st.text, rows |-> st.rows, keyTab |-> st.keyTab, docs |-> st.docs]
    /\ st.text \in {Blank, Garbled} \/ IsFileText(st.text)
    /\ IsRows(st.rows)
    /\ st.keyTab = NoTable \/ st.keyTab \in KeyTable
    /\ IsDocs(st.docs)

NoRows == [u \in {} |-> [password |-> FALSE, disabled |-> FALSE, public_keys |-> {}]]
NoDocs == [u \in {} |-> [schema |-> 1, user |-> NoRows]]
EmptyKeyTable == [u \in User |-> {}]
-----------------------------------------------------------------------------
(* Files *)

(* users_to_mapping; for CSV, the header and a row of the schema per user *)
Text(content) ==
    [schema |-> content.schema,
     users |-> [u \in DOMAIN content.users |-> ToMapping(content.schema, content.users[u])]]

(* Rows a CSV writer has flushed so far.  (A buffer that ends in the middle *)
(* of a row, whose last columns are then missing, is not modelled.)        *)
FlushedText(content, S) == Text([content EXCEPT !.users = [u \in S |-> @[u]]])

(* users_from_mapping: an empty file is an empty schema 1 document *)
FromText(text) ==
    CASE text = Blank -> [schema |-> 1, users |-> NoUsers]
      [] text = Garbled -> Rejected
      [] text \notin {Blank, Garbled} ->
           [schema |-> text.schema,
            users |-> [u \in DOMAIN text.users |-> FromMapping(text.schema, text.users[u])]]
-----------------------------------------------------------------------------
(* SQL *)

(* sql_user_row: the public_keys column is filled whatever the schema *)
UserRow(rec) == V1Mapping(rec)

Rows(content) == [u \in DOMAIN content.users |-> UserRow(content.users[u])]

(* sql_user_key_row *)
KeyRows(content) ==
    [u \in User |-> IF u \in DOMAIN content.users THEN content.users[u].keys ELSE {}]

(* the key table's unique (fingerprint) *)
KeysAreUnique(content) ==
    \A u, v \in DOMAIN content.users :
        u # v => PublicKeys(content.users[u]) \cap PublicKeys(content.users[v]) = {}

UsesKeyTable(schema) == schema = 2

KeysAdded(keyTab, content) ==
    IF UsesKeyTable(content.schema) /\ keyTab # NoTable
    THEN [u \in User |-> keyTab[u] \cup KeyRows(content)[u]] ELSE keyTab

(* replace_sql_user_keys *)
KeysReplaced(keyTab, content) ==
    IF UsesKeyTable(content.schema) THEN KeyRows(content) ELSE keyTab

(* delete_missing_sql_users *)
MissingDeleted(rows, content) == [u \in DOMAIN rows \cap DOMAIN content.users |-> rows[u]]

(* upsert_sql_users *)
Upserted(rows, content) ==
    [u \in DOMAIN rows \cup DOMAIN content.users |->
        IF u \in DOMAIN content.users THEN Rows(content)[u] ELSE rows[u]]

(* write's one transaction *)
Committed(st, content) ==
    [st EXCEPT !.rows = MissingDeleted(Upserted(@, content), content),
               !.keyTab = KeysReplaced(@, content)]

(* create table if not exists *)
KeyTableCreated(st) ==
    [st EXCEPT !.keyTab = IF @ = NoTable THEN EmptyKeyTable ELSE @]

(* ensure_schema_storage *)
StorageEnsured(st, schema) == IF UsesKeyTable(schema) THEN KeyTableCreated(st) ELSE st

(* delete_sql_user: under schema 1 its key rows stay *)
RowDeleted(st, u, schema) ==
    [st EXCEPT !.rows = [v \in DOMAIN @ \ {u} |-> @[v]],
               !.keyTab = IF UsesKeyTable(schema) THEN [@ EXCEPT ![u] = {}] ELSE @]

(* users_from_sql_rows, from rows and key rows that may have been selected *)
(* at different times.  Key rows of no user are ignored; a user without a  *)
(* password and a key fails the read.                                      *)
FromRows(rows, keyTab, schema) ==
    LET user(u) == IF UsesKeyTable(schema)
                   THEN V2User([password |-> rows[u].password, disabled |-> rows[u].disabled,
                                keys |-> keyTab[u]])
                   ELSE V1User(rows[u])
        users == [u \in DOMAIN rows |-> user(u)]
    IN  IF UsesKeyTable(schema) /\ keyTab = NoTable THEN Rejected
        ELSE IF ~AllValid(users) THEN Rejected
        ELSE [schema |-> schema, users |-> users]

(* table_exists, for the tables the schema needs *)
TableExists(st, schema) == UsesKeyTable(schema) => st.keyTab # NoTable
-----------------------------------------------------------------------------
(* MongoDB *)

(* mongodb_document_from_user *)
Document(schema, rec) == [schema |-> schema, user |-> ToMapping(schema, rec)]

DocReplaced(st, content, u) ==
    [st EXCEPT !.docs =
        [v \in DOMAIN @ \cup {u} |->
            IF v = u THEN Document(content.schema, content.users[u]) ELSE @[v]]]

DocDeleted(st, u) == [st EXCEPT !.docs = [v \in DOMAIN @ \ {u} |-> @[v]]]

NamedDeleted(st, content) ==
    [st EXCEPT !.docs = [u \in DOMAIN @ \ DOMAIN content.users |-> @[u]]]

(* delete_many({"_id": {"$nin": usernames}}) *)
OthersDeleted(st, content) ==
    [st EXCEPT !.docs = [u \in DOMAIN @ \cap DOMAIN content.users |-> @[u]]]

(* One tagged document makes the whole collection schema 2; the public     *)
(* keys of the others are named as they are read.                          *)
DocsSchema(docs, configured) ==
    IF DOMAIN docs = {} THEN configured
    ELSE IF \E u \in DOMAIN docs : docs[u].schema = 2 THEN 2
    ELSE IF DetectsV2([u \in DOMAIN docs |-> docs[u].user]) THEN 2
    ELSE 1

FromDocs(docs, configured) ==
    LET schema == DocsSchema(docs, configured)
    IN  [schema |-> schema,
         users |-> [u \in DOMAIN docs |-> FromMapping(schema, docs[u].user)]]
-----------------------------------------------------------------------------
(* provider.read() of the provider configured with schema, in one look *)
ReadAs(backend, st, schema) ==
    CASE backend \in FileBackend -> FromText(st.text)
      [] backend \in SqlBackend -> FromRows(st.rows, st.keyTab, schema)
      [] backend = "mongodb" -> FromDocs(st.docs, schema)

(* _read_provider_users_for_configured_schema: where the tables of the     *)
(* target are missing the data is read as the schema before it; schema is  *)
(* the one the provider object was built with.                             *)
PlannedSchema(backend, st, schema, target) ==
    IF backend \in SqlBackend /\ ~TableExists(st, schema) /\ target - 1 \in Schema
    THEN target - 1 ELSE schema

(* What a provider holds that was last written with content *)
Holding(backend, content) ==
    [text |-> IF backend \in FileBackend THEN Text(content) ELSE Blank,
     rows |-> IF backend \in SqlBackend THEN Rows(content) ELSE NoRows,
     keyTab |-> IF backend \in SqlBackend THEN KeysReplaced(NoTable, content) ELSE NoTable,
     docs |-> IF backend = "mongodb"
              THEN [u \in DOMAIN content.users |-> Document(content.schema, content.users[u])]
              ELSE NoDocs]
=============================================================================
