------------------------- MODULE UserCommandsProofs -------------------------
(***************************************************************************)
(* Theorems about UserCommands: its types, that users no command was about *)
(* keep their access, that a migration can be undone, that a command which *)
(* runs alone and reports success has done what it says, and that commands *)
(* which run one at a time implement UserDirectory.                        *)
(***************************************************************************)
EXTENDS UserCommands, UserSchemasProofs

Contents == UNION {[schema : Schema, users : [U -> SFTPUser]] : U \in SUBSET User}

RequestType ==
    [op : Operation, user : User \cup {NoUser}, id : Label \cup Key \cup {NoLabel},
     label : Label \cup Key \cup {NoLabel}, keys : SUBSET Key, password : BOOLEAN,
     source : Contents, to : Schema, backup : BOOLEAN, dry : BOOLEAN]

ProcessType ==
    [pc : Places, req : RequestType, view : Schema, turn : Nat, look : {1, 2},
     rows : UNION {[U -> Row] : U \in SUBSET User},
     held : Contents, want : Contents, todo : SUBSET User]

(* The places that go with a request and a backend *)
RightPlace(me, b) ==
    /\ me.pc = "confirm" => me.req.op \in Lifecycle
    /\ me.pc = "read" => me.req.op \notin Reconciling
    /\ me.pc = "plan" => me.req.op \in Reconciling
    /\ me.pc \in {"replan", "backup"} => me.req.op \in Migrating
    /\ me.pc = "backup" => me.req.backup
    /\ me.pc \in {"remove", "delete"} => me.req.op = "remove"
    /\ me.pc = "remove" => b \notin FileBackend
    /\ me.pc = "fill" => b \in FileBackend
    /\ me.pc \in {"commit", "delete"} => b \in SqlBackend
    /\ me.look = 2 => b \in SqlBackend /\ me.pc \in Reading
    /\ me.req.op = "deploy" /\ Running(me) => me.req.to = me.view

(* A process, on backend b, when commands about T were among n started *)
Invocation(me, b, T, n) ==
    /\ me \in ProcessType
    /\ me.turn <= n
    /\ IsRequest(me.req) /\ About(me.req) \subseteq T
    /\ Good(me.held) /\ Good(me.want) /\ me.todo \subseteq DOMAIN me.want.users
    /\ RightPlace(me, b)

Types ==
    /\ backend \in Backends /\ cfg \in Schema
    /\ GoodStore(store)
    /\ \A b \in backups : IsProviderUsers(b)
    /\ proc \in [Proc -> ProcessType]
    /\ \A p \in Proc : Invocation(proc[p], backend, touched, commands)
    /\ \A p \in Proc : proc[p].pc = "delete" /\ proc[p].view = 2 => store.keyTab # NoTable
    /\ IsUsers(first)
    /\ touched \subseteq User /\ mishap \subseteq Mishaps
    /\ commands \in 0..MaxCommands /\ faults \in 0..MaxFaults
-----------------------------------------------------------------------------
LEMMA ContentsAreContents ==
    ASSUME NEW c
    PROVE  c \in Contents <=> IsProviderUsers(c)
BY DEF Contents, IsProviderUsers

LEMMA RowsAreRows ==
    ASSUME NEW rows
    PROVE  rows \in UNION {[U -> Row] : U \in SUBSET User} <=> IsRows(rows)
BY DEF IsRows

LEMMA RequestsAreRequests ==
    ASSUME NEW r, IsRequest(r)
    PROVE  r \in RequestType
<1>1. PICK U \in SUBSET User :
         r \in [op : {"list"} \cup OfOneUser \cup Transfer \cup Reconciling,
               user : User \cup {NoUser}, id : Label \cup Key \cup {NoLabel},
               label : Label \cup Key \cup {NoLabel}, keys : SUBSET Key, password : BOOLEAN,
               source : [schema : Schema, users : [U -> SFTPUser]],
               to : Schema, backup : BOOLEAN, dry : BOOLEAN]
  BY DEF IsRequest
<1>2. r.source \in Contents
  BY <1>1 DEF Contents
<1>3. r.op \in Operation
  BY <1>1 DEF Operation
<1>. QED  BY <1>1, <1>2, <1>3 DEF RequestType

LEMMA NoContentIsGood ==
    Good(NoContent) /\ NoContent \in Contents /\ DOMAIN NoContent.users = {}
<1>1. IsProviderUsers(NoContent)
  BY NoUsersForm, ContentMade DEF NoContent
<1>. QED  BY <1>1, NoUsersForm, ContentsAreContents DEF NoContent, Good

(* The fields of the processes that do not run *)
LEMMA IdleFields ==
    /\ Idle \in ProcessType /\ Idle.turn = 0 /\ Idle.look = 1 /\ Idle.pc = "idle"
    /\ Idle.req = Request("list") /\ Idle.held = NoContent /\ Idle.want = NoContent
    /\ Idle.todo = {} /\ Idle.rows = NoRows /\ Idle.view = 1
<1>1. Request("list") \in RequestType
  BY PlainRequest, RequestsAreRequests
<1>2. NoRows \in UNION {[U -> Row] : U \in SUBSET User}
  BY NoRowsForm, RowsAreRows
<1>3. NoContent \in Contents
  BY NoContentIsGood
<1>. QED  BY <1>1, <1>2, <1>3 DEF Idle, ProcessType, Places, Ends, Schema

LEMMA AtEnd ==
    ASSUME NEW me, me \in ProcessType
    PROVE  /\ Failed \in ProcessType /\ Failed.pc = "failed" /\ Failed.req = Request("list")
           /\ Failed.turn = 0 /\ Failed.look = 1 /\ Failed.todo = {}
           /\ Failed.held = NoContent /\ Failed.want = NoContent
           /\ Done(me) \in ProcessType /\ Done(me).pc = "done" /\ Done(me).req = me.req
           /\ Done(me).turn = me.turn /\ Done(me).look = 1 /\ Done(me).todo = {}
           /\ Done(me).held = NoContent /\ Done(me).want = me.want
<1>1. "failed" \in Places /\ "done" \in Places
  BY DEF Places, Ends
<1>2. me.req \in RequestType /\ me.turn \in Nat /\ me.want \in Contents
  BY DEF ProcessType
<1>3. /\ Failed \in ProcessType /\ Failed.pc = "failed" /\ Failed.req = Idle.req
      /\ Failed.turn = Idle.turn /\ Failed.look = Idle.look /\ Failed.todo = Idle.todo
      /\ Failed.held = Idle.held /\ Failed.want = Idle.want
  BY <1>1, IdleFields DEF Failed, ProcessType
<1>4. /\ Done(me) \in ProcessType /\ Done(me).pc = "done" /\ Done(me).req = me.req
      /\ Done(me).turn = me.turn /\ Done(me).look = Idle.look /\ Done(me).todo = Idle.todo
      /\ Done(me).held = Idle.held /\ Done(me).want = me.want
  BY <1>1, <1>2, IdleFields DEF Done, ProcessType
<1>. QED  BY <1>3, <1>4, IdleFields

LEMMA StoppedPlaces ==
    /\ ~Running(Idle)
    /\ \A me : me.pc \in {"failed", "done", "idle"} /\ me.look = 1 => ~Running(me) /\ \A b : RightPlace(me, b)
BY IdleFields DEF Running, Ends, RightPlace

LEMMA IdleIsInvocation ==
    ASSUME NEW b, NEW T, NEW n \in Nat
    PROVE  Invocation(Idle, b, T, n)
<1>1. RightPlace(Idle, b)
  BY StoppedPlaces, IdleFields
<1>2. 0 <= n
  OBVIOUS
<1>3. Idle.todo \subseteq DOMAIN Idle.want.users
  BY IdleFields
<1>. QED  BY <1>1, <1>2, <1>3, IdleFields, PlainRequest, NoContentIsGood DEF Invocation

LEMMA EndedIsInvocation ==
    ASSUME NEW b, NEW T, NEW n \in Nat, NEW me, Invocation(me, b, T, n)
    PROVE  Invocation(Failed, b, T, n) /\ Invocation(Done(me), b, T, n)
<1>1. me \in ProcessType
  BY DEF Invocation
<1>2. RightPlace(Failed, b) /\ RightPlace(Done(me), b)
  BY <1>1, AtEnd, StoppedPlaces
<1>3. 0 <= n
  OBVIOUS
<1>4. Failed.todo \subseteq DOMAIN Failed.want.users /\ Done(me).todo \subseteq DOMAIN Done(me).want.users
  BY <1>1, AtEnd
<1>5. Invocation(Failed, b, T, n)
  BY <1>1, <1>2, <1>3, <1>4, AtEnd, PlainRequest, NoContentIsGood DEF Invocation
<1>6. Invocation(Done(me), b, T, n)
  BY <1>1, <1>2, <1>4, AtEnd, NoContentIsGood DEF Invocation
<1>. QED  BY <1>5, <1>6

LEMMA InvocationLike ==
    ASSUME NEW b, NEW T, NEW n, NEW me, Invocation(me, b, T, n),
           NEW new, new \in ProcessType, new.req = me.req, new.turn = me.turn,
           Good(new.held), Good(new.want), new.todo \subseteq DOMAIN new.want.users,
           RightPlace(new, b)
    PROVE  Invocation(new, b, T, n)
BY DEF Invocation

(* A process that goes on at another place *)
Moved(me, place) == [me EXCEPT !.pc = place]

LEMMA PlaceFields ==
    ASSUME NEW me \in ProcessType, NEW place \in Places
    PROVE  /\ Moved(me, place) \in ProcessType
           /\ Moved(me, place).pc = place
           /\ Moved(me, place).req = me.req /\ Moved(me, place).turn = me.turn
           /\ Moved(me, place).look = me.look /\ Moved(me, place).view = me.view
           /\ Moved(me, place).rows = me.rows /\ Moved(me, place).held = me.held
           /\ Moved(me, place).want = me.want /\ Moved(me, place).todo = me.todo
BY DEF ProcessType, Moved

(* A process that has read h and is going to write w *)
Writing(me, place, h, w, S) ==
    [me EXCEPT !.pc = place, !.held = h, !.want = w, !.todo = S]

LEMMA WriteFields ==
    ASSUME NEW me \in ProcessType, NEW place \in Places,
           NEW h \in Contents, NEW w \in Contents, NEW S \in SUBSET User
    PROVE  /\ Writing(me, place, h, w, S) \in ProcessType
           /\ Writing(me, place, h, w, S).pc = place
           /\ Writing(me, place, h, w, S).req = me.req
           /\ Writing(me, place, h, w, S).turn = me.turn
           /\ Writing(me, place, h, w, S).look = me.look
           /\ Writing(me, place, h, w, S).view = me.view
           /\ Writing(me, place, h, w, S).held = h
           /\ Writing(me, place, h, w, S).want = w
           /\ Writing(me, place, h, w, S).todo = S
BY DEF ProcessType, Writing

LEMMA MovedIsInvocation ==
    ASSUME NEW b, NEW T, NEW n, NEW me, Invocation(me, b, T, n), NEW place \in Places,
           RightPlace(Moved(me, place), b)
    PROVE  Invocation(Moved(me, place), b, T, n)
<1>1. me \in ProcessType /\ Good(me.held) /\ Good(me.want) /\ me.todo \subseteq DOMAIN me.want.users
  BY DEF Invocation
<1>. QED  BY <1>1, PlaceFields, InvocationLike

LEMMA AfterDataIsInvocation ==
    ASSUME NEW b, NEW T, NEW n \in Nat, NEW me, Invocation(me, b, T, n), me.look = 1
    PROVE  Invocation(AfterData(me), b, T, n)
<1>1. CASE me.req.op = "migrate" /\ me.view # me.req.to
  <2>1. AfterData(me) = Moved(me, "config") /\ "config" \in Places
    BY <1>1 DEF AfterData, Places, Moved
  <2>2. RightPlace(Moved(me, "config"), b)
    BY <1>1, <2>1, PlaceFields DEF Invocation, RightPlace
  <2>. QED  BY <2>1, <2>2, MovedIsInvocation
<1>2. CASE ~ (me.req.op = "migrate" /\ me.view # me.req.to)
  <2>1. AfterData(me) = Done(me)
    BY <1>2 DEF AfterData
  <2>. QED  BY <2>1, EndedIsInvocation
<1>. QED  BY <1>1, <1>2

LEMMA AfterWriteIsInvocation ==
    ASSUME NEW b, NEW T, NEW n \in Nat, NEW me, Invocation(me, b, T, n), me.look = 1
    PROVE  Invocation(AfterWrite(me), b, T, n)
BY AfterDataIsInvocation, EndedIsInvocation DEF AfterWrite

LEMMA AfterWritePlace ==
    ASSUME NEW b, NEW T, NEW n, NEW me, Invocation(me, b, T, n)
    PROVE  AfterWrite(me).pc \in {"done", "config"}
<1>1. me \in ProcessType /\ "config" \in Places
  BY DEF Invocation, Places
<1>2. AfterWrite(me) = Done(me) \/ AfterWrite(me) = Moved(me, "config")
  BY DEF AfterWrite, AfterData, Moved
<1>3. Done(me).pc = "done" /\ Moved(me, "config").pc = "config"
  BY <1>1, AtEnd, PlaceFields
<1>. QED  BY <1>2, <1>3

LEMMA TakenResult ==
    ASSUME NEW me, NEW c, Apply(me.req, c) # Rejected,
           ~ (me.req.op = "list" \/ me.req.dry
                \/ (me.req.op \in Transfer /\ Apply(me.req, c) = c))
    PROVE  Taken(me, c) = Writing(me, "write", c, Stored(Apply(me.req, c)),
                                  DOMAIN Apply(me.req, c).users)
BY DEF Taken, Writing

LEMMA GoodContent ==
    ASSUME NEW c, Good(c)
    PROVE  /\ c \in Contents /\ DOMAIN c.users \in SUBSET User /\ c.schema \in {1, 2}
           /\ Good(Stored(c)) /\ DOMAIN Stored(c).users = DOMAIN c.users
           /\ \A t \in {1, 2} : c.schema <= t =>
                Good(MigrateTo(c, t)) /\ MigrateTo(c, t).users = c.users /\ MigrateTo(c, t).schema = t
<1>1. IsProviderUsers(c) /\ AllValid(c.users)
  BY DEF Good
<1>2. c \in Contents /\ DOMAIN c.users \in SUBSET User /\ c.schema \in {1, 2}
  BY <1>1, ContentsAreContents, ContentForm, UsersForm
<1>3. Good(Stored(c)) /\ DOMAIN Stored(c).users = DOMAIN c.users
  BY <1>1, StoredContent DEF Good
<1>4. \A t \in {1, 2} : c.schema <= t =>
         Good(MigrateTo(c, t)) /\ MigrateTo(c, t).users = c.users /\ MigrateTo(c, t).schema = t
  BY <1>1, MigratedContent DEF Good
<1>. QED  BY <1>2, <1>3, <1>4

LEMMA ResultIsGood ==
    ASSUME NEW c, Good(c), NEW r, IsRequest(r), ~r.dry, Apply(r, c) # Rejected
    PROVE  Good(Apply(r, c)) /\ Spares(Apply(r, c), c, User \ About(r))
<1>1. Spares(Apply(r, c), c, User \ About(r))
  BY RequestsSpareOthers DEF Good
<1>. QED  BY <1>1 DEF Spares, Good

LEMMA TakenIsInvocation ==
    ASSUME NEW b, NEW T, NEW n \in Nat, NEW me, Invocation(me, b, T, n),
           me.pc = "read", me.look = 1, NEW c, Good(c)
    PROVE  Invocation(Taken(me, c), b, T, n)
<1>. DEFINE result == Apply(me.req, c)
<1>1. me \in ProcessType /\ IsRequest(me.req)
  BY DEF Invocation
<1>2. CASE result = Rejected
  BY <1>2, EndedIsInvocation DEF Taken
<1>3. CASE /\ result # Rejected
           /\ me.req.op = "list" \/ me.req.dry \/ (me.req.op \in Transfer /\ result = c)
  <2>. DEFINE new == [me EXCEPT !.want = c]
  <2>1. Taken(me, c) = Done(new)
    BY <1>3 DEF Taken
  <2>2. new \in ProcessType /\ new.req = me.req /\ new.turn = me.turn /\ new.want = c
    BY <1>1, GoodContent DEF ProcessType
  <2>. HIDE DEF new
  <2>3. /\ Done(new) \in ProcessType /\ Done(new).req = me.req /\ Done(new).turn = me.turn
        /\ Done(new).held = NoContent /\ Done(new).want = c /\ Done(new).todo = {}
        /\ Done(new).pc = "done" /\ Done(new).look = 1
    BY <2>2, AtEnd
  <2>4. RightPlace(Done(new), b) /\ Good(Done(new).held)
    BY <2>3, StoppedPlaces, NoContentIsGood
  <2>. QED  BY <2>1, <2>3, <2>4, InvocationLike
<1>4. CASE /\ result # Rejected
           /\ ~ (me.req.op = "list" \/ me.req.dry \/ (me.req.op \in Transfer /\ result = c))
  <2>. DEFINE new == Writing(me, "write", c, Stored(result), DOMAIN result.users)
  <2>1. Taken(me, c) = new
    BY <1>4, TakenResult
  <2>2. Good(result)
    BY <1>1, <1>4, ResultIsGood
  <2>3. Good(Stored(result)) /\ DOMAIN Stored(result).users = DOMAIN result.users
        /\ Stored(result) \in Contents /\ c \in Contents /\ DOMAIN result.users \in SUBSET User
    BY <2>2, GoodContent
  <2>4. "write" \in Places
    BY DEF Places
  <2>5. /\ new \in ProcessType /\ new.pc = "write" /\ new.req = me.req /\ new.turn = me.turn
        /\ new.look = me.look /\ new.view = me.view
        /\ new.held = c /\ new.want = Stored(result) /\ new.todo = DOMAIN result.users
    BY <1>1, <2>3, <2>4, WriteFields
  <2>. HIDE DEF new
  <2>6. RightPlace(me, b) /\ Running(me)
    BY DEF Invocation, Running, Ends
  <2>7. RightPlace(new, b)
    BY <2>5, <2>6 DEF RightPlace
  <2>. QED  BY <2>1, <2>3, <2>5, <2>7, InvocationLike
<1>. QED  BY <1>2, <1>3, <1>4

LEMMA ReplannedResult ==
    ASSUME NEW me, NEW c
    PROVE  Replanned(me, c) =
             IF c.schema > me.req.to THEN Failed
             ELSE IF c.schema = me.req.to THEN AfterData(me)
             ELSE Writing(me, IF me.req.backup THEN "backup" ELSE "write", c,
                          MigrateTo(c, me.req.to), DOMAIN c.users)
BY DEF Replanned, Writing

LEMMA ReplannedIsInvocation ==
    ASSUME NEW b, NEW T, NEW n \in Nat, NEW me, Invocation(me, b, T, n),
           me.pc = "replan", me.look = 1, NEW c, Good(c)
    PROVE  Invocation(Replanned(me, c), b, T, n)
<1>. DEFINE place == IF me.req.backup THEN "backup" ELSE "write"
            new == Writing(me, place, c, MigrateTo(c, me.req.to), DOMAIN c.users)
<1>1. me \in ProcessType /\ c.schema \in {1, 2} /\ me.req.to \in {1, 2}
      /\ RightPlace(me, b) /\ Running(me)
  BY GoodContent, RequestForm DEF Invocation, Running, Ends
<1>2. CASE c.schema > me.req.to
  BY <1>2, ReplannedResult, EndedIsInvocation
<1>3. CASE c.schema = me.req.to
  <2>1. Replanned(me, c) = AfterData(me)
    BY <1>1, <1>3, ReplannedResult
  <2>. QED  BY <2>1, AfterDataIsInvocation
<1>4. CASE ~ (c.schema > me.req.to) /\ c.schema # me.req.to
  <2>1. Replanned(me, c) = new
    BY <1>4, ReplannedResult
  <2>2. Good(MigrateTo(c, me.req.to)) /\ MigrateTo(c, me.req.to).users = c.users
    BY <1>1, <1>4, GoodContent
  <2>3. MigrateTo(c, me.req.to) \in Contents /\ c \in Contents /\ DOMAIN c.users \in SUBSET User
    BY <2>2, GoodContent
  <2>4. place \in Places
    BY DEF Places
  <2>5. /\ new \in ProcessType /\ new.pc = place /\ new.req = me.req /\ new.turn = me.turn
        /\ new.look = me.look /\ new.view = me.view
        /\ new.held = c /\ new.want = MigrateTo(c, me.req.to) /\ new.todo = DOMAIN c.users
    BY <1>1, <2>3, <2>4, WriteFields
  <2>. HIDE DEF new
  <2>6. RightPlace(new, b)
    BY <1>1, <2>5 DEF RightPlace
  <2>. QED  BY <2>1, <2>2, <2>5, <2>6, InvocationLike
<1>. QED  BY <1>2, <1>3, <1>4

LEMMA MovesToRead ==
    ASSUME NEW b, NEW T, NEW n, NEW me, Invocation(me, b, T, n), me.look = 1
    PROVE  /\ me.pc = "confirm" => Invocation(Moved(me, "read"), b, T, n)
           /\ me.pc = "plan" /\ me.req.op \in Migrating =>
                Invocation(Moved(me, "replan"), b, T, n)
           /\ me.pc = "plan" => Invocation(Moved(me, "config"), b, T, n)
<1>1. me \in ProcessType /\ RightPlace(me, b)
  BY DEF Invocation
<1>2. "read" \in Places /\ "replan" \in Places /\ "config" \in Places
  BY DEF Places, Reading
<1>3. ASSUME me.pc = "confirm"
      PROVE  Invocation(Moved(me, "read"), b, T, n)
  <2>1. me.req.op \notin Reconciling /\ Running(me)
    BY <1>1, <1>3 DEF RightPlace, Lifecycle, Reconciling, Migrating, Running, Ends
  <2>2. RightPlace(Moved(me, "read"), b)
    BY <1>1, <1>2, <2>1, PlaceFields DEF RightPlace
  <2>. QED  BY <1>2, <2>2, MovedIsInvocation
<1>4. ASSUME me.pc = "plan", me.req.op \in Migrating
      PROVE  Invocation(Moved(me, "replan"), b, T, n)
  <2>1. Running(me)
    BY <1>4 DEF Running, Ends
  <2>2. RightPlace(Moved(me, "replan"), b)
    BY <1>1, <1>2, <1>4, <2>1, PlaceFields DEF RightPlace
  <2>. QED  BY <1>2, <2>2, MovedIsInvocation
<1>5. ASSUME me.pc = "plan"
      PROVE  Invocation(Moved(me, "config"), b, T, n)
  <2>1. Running(me)
    BY <1>5 DEF Running, Ends
  <2>2. RightPlace(Moved(me, "config"), b)
    BY <1>1, <1>2, <1>5, <2>1, PlaceFields DEF RightPlace
  <2>. QED  BY <1>2, <2>2, MovedIsInvocation
<1>. QED  BY <1>3, <1>4, <1>5

LEMMA PlannedIsInvocation ==
    ASSUME NEW b, NEW T, NEW n \in Nat, NEW me, Invocation(me, b, T, n),
           me.pc = "plan", me.look = 1, NEW c, NEW next \in Planned(me, c)
    PROVE  Invocation(next, b, T, n)
<1>1. me.req.op \in Reconciling
  BY DEF Invocation, RightPlace
<1>2. \/ next = Failed \/ next = Done(me)
      \/ me.req.op \in Migrating /\ next = Moved(me, "replan")
      \/ next = Moved(me, "config")
  BY <1>1 DEF Moved, Planned, PlannedMigration, PlannedDeploy, PlannedConfig, Reconciling, Migrating
<1>. QED  BY <1>2, EndedIsInvocation, MovesToRead

LEMMA AfterIsInvocation ==
    ASSUME NEW b, NEW T, NEW n \in Nat, NEW me, Invocation(me, b, T, n),
           me.pc \in Reading, me.look = 1,
           NEW c, c = Rejected \/ Good(c), NEW next \in After(me, c)
    PROVE  Invocation(next, b, T, n)
<1>1. CASE c = Rejected
  <2>1. next = Failed
    BY <1>1 DEF After
  <2>. QED  BY <2>1, EndedIsInvocation
<1>2. CASE c # Rejected /\ me.pc = "confirm"
  <2>1. next = Moved(me, "read") \/ next = Failed
    BY <1>2 DEF After, Confirmed, Moved
  <2>. QED  BY <1>2, <2>1, MovesToRead, EndedIsInvocation
<1>3. CASE c # Rejected /\ me.pc = "read"
  <2>1. next = Taken(me, c)
    BY <1>3 DEF After
  <2>. QED  BY <1>3, <2>1, TakenIsInvocation
<1>4. CASE c # Rejected /\ me.pc = "plan"
  <2>1. next \in Planned(me, c)
    BY <1>4 DEF After
  <2>2. Invocation(next, b, T, n)
    BY <1>4, <2>1, PlannedIsInvocation
  <2>. QED  BY <2>2
<1>5. CASE c # Rejected /\ me.pc = "replan"
  <2>1. next = Replanned(me, c)
    BY <1>5 DEF After
  <2>. QED  BY <1>5, <2>1, ReplannedIsInvocation
<1>. QED  BY <1>1, <1>2, <1>3, <1>4, <1>5 DEF Reading

(* What a process does with the content it has read *)
Outcome(me, c, next) ==
    \/ next.pc \in {"failed", "done"} /\ next.look = 1
    \/ \E place \in {"read", "replan", "config"} : next = Moved(me, place)
    \/ /\ me.pc = "read" /\ ~me.req.dry /\ Good(c) /\ Apply(me.req, c) # Rejected
       /\ next = Writing(me, "write", c, Stored(Apply(me.req, c)), DOMAIN Apply(me.req, c).users)
    \/ /\ me.pc = "replan" /\ Good(c) /\ c.schema <= me.req.to
       /\ next = Writing(me, IF me.req.backup THEN "backup" ELSE "write", c,
                         MigrateTo(c, me.req.to), DOMAIN c.users)

LEMMA EndOutcome ==
    ASSUME NEW me, me \in ProcessType, NEW c, me.look = 1
    PROVE  Outcome(me, c, Failed) /\ Outcome(me, c, Done(me)) /\ Outcome(me, c, AfterData(me))
<1>1. Outcome(me, c, Failed) /\ Outcome(me, c, Done(me))
  BY AtEnd DEF Outcome
<1>2. AfterData(me) = Done(me) \/ AfterData(me) = Moved(me, "config")
  BY DEF AfterData, Moved
<1>. QED  BY <1>1, <1>2 DEF Outcome

LEMMA AfterOutcome ==
    ASSUME NEW b, NEW T, NEW n, NEW me, Invocation(me, b, T, n),
           me.pc \in Reading, me.look = 1,
           NEW c, c = Rejected \/ Good(c), NEW next \in After(me, c)
    PROVE  Outcome(me, c, next)
<1>0. me \in ProcessType /\ me.req.to \in {1, 2} /\ (Good(c) => c.schema \in {1, 2})
  BY RequestForm, GoodContent DEF Invocation
<1>1. CASE c = Rejected
  <2>1. next = Failed
    BY <1>1 DEF After
  <2>. QED  BY <1>0, <2>1, EndOutcome
<1>2. CASE c # Rejected /\ me.pc = "confirm"
  <2>1. next = Moved(me, "read") \/ next = Failed
    BY <1>2 DEF After, Confirmed, Moved
  <2>2. CASE next = Moved(me, "read")
    BY <2>2 DEF Outcome
  <2>3. CASE next = Failed
    BY <1>0, <2>3, EndOutcome
  <2>. QED  BY <2>1, <2>2, <2>3
<1>3. CASE c # Rejected /\ me.pc = "read"
  <2>1. next = Taken(me, c)
    BY <1>3 DEF After
  <2>2. CASE Apply(me.req, c) = Rejected
    BY <1>0, <2>1, <2>2, EndOutcome DEF Taken
  <2>3. CASE /\ Apply(me.req, c) # Rejected
             /\ me.req.op = "list" \/ me.req.dry \/ (me.req.op \in Transfer /\ Apply(me.req, c) = c)
    <3>1. next = Done([me EXCEPT !.want = c])
      BY <2>1, <2>3 DEF Taken
    <3>2. next.pc = "done" /\ next.look = 1
      BY <3>1, IdleFields DEF Done, ProcessType
    <3>. QED  BY <3>2 DEF Outcome
  <2>4. CASE /\ Apply(me.req, c) # Rejected
             /\ ~ (me.req.op = "list" \/ me.req.dry \/ (me.req.op \in Transfer /\ Apply(me.req, c) = c))
    BY <1>3, <2>1, <2>4, TakenResult DEF Outcome
  <2>. QED  BY <2>2, <2>3, <2>4
<1>4. CASE c # Rejected /\ me.pc = "plan"
  <2>1. next \in Planned(me, c) /\ me.req.op \in Reconciling
    BY <1>4 DEF After, Invocation, RightPlace
  <2>2. \/ next = Failed \/ next = Done(me)
        \/ next = Moved(me, "replan") \/ next = Moved(me, "config")
    BY <2>1 DEF Moved, Planned, PlannedMigration, PlannedDeploy, PlannedConfig, Reconciling, Migrating
  <2>3. CASE next = Failed \/ next = Done(me)
    BY <1>0, <2>3, EndOutcome
  <2>4. CASE next = Moved(me, "replan") \/ next = Moved(me, "config")
    BY <2>4 DEF Outcome
  <2>. QED  BY <2>2, <2>3, <2>4
<1>5. CASE c # Rejected /\ me.pc = "replan"
  <2>1. next = Replanned(me, c)
    BY <1>5 DEF After
  <2>2. \/ next = Failed \/ next = AfterData(me)
        \/ /\ c.schema <= me.req.to
           /\ next = Writing(me, IF me.req.backup THEN "backup" ELSE "write", c,
                             MigrateTo(c, me.req.to), DOMAIN c.users)
    BY <1>0, <1>5, <2>1, ReplannedResult
  <2>3. CASE next = Failed \/ next = AfterData(me)
    BY <1>0, <2>3, EndOutcome
  <2>4. CASE /\ c.schema <= me.req.to
             /\ next = Writing(me, IF me.req.backup THEN "backup" ELSE "write", c,
                               MigrateTo(c, me.req.to), DOMAIN c.users)
    BY <1>5, <2>4 DEF Outcome
  <2>. QED  BY <2>2, <2>3, <2>4
<1>. QED  BY <1>1, <1>2, <1>3, <1>4, <1>5 DEF Reading

LEMMA OutcomePlace ==
    ASSUME NEW b, NEW T, NEW n, NEW me, Invocation(me, b, T, n), NEW c, NEW next, Outcome(me, c, next)
    PROVE  next.pc \in {"failed", "done", "read", "replan", "config", "write", "backup"}
<1>1. me \in ProcessType /\ IsRequest(me.req)
  BY DEF Invocation
<1>2. \A place \in {"read", "replan", "config", "write", "backup"} : place \in Places
  BY DEF Places, Reading
<1>3. CASE next.pc \in {"failed", "done"} /\ next.look = 1
  BY <1>3
<1>4. CASE \E place \in {"read", "replan", "config"} : next = Moved(me, place)
  <2>1. PICK place \in {"read", "replan", "config"} : next = Moved(me, place)
    BY <1>4
  <2>2. place \in Places
    BY <1>2
  <2>3. Moved(me, place).pc = place
    BY <1>1, <2>2, PlaceFields
  <2>. QED  BY <2>1, <2>3
<1>5. CASE /\ me.pc = "read" /\ ~me.req.dry /\ Good(c) /\ Apply(me.req, c) # Rejected
           /\ next = Writing(me, "write", c, Stored(Apply(me.req, c)), DOMAIN Apply(me.req, c).users)
  <2>1. Good(Apply(me.req, c)) /\ Good(Stored(Apply(me.req, c)))
    BY <1>1, <1>5, ResultIsGood, GoodContent
  <2>2. /\ c \in Contents /\ Stored(Apply(me.req, c)) \in Contents
        /\ DOMAIN Apply(me.req, c).users \in SUBSET User
    BY <1>5, <2>1, GoodContent
  <2>3. next.pc = "write"
    BY <1>1, <1>2, <1>5, <2>2, WriteFields
  <2>. QED  BY <2>3
<1>6. CASE /\ me.pc = "replan" /\ Good(c) /\ c.schema <= me.req.to
           /\ next = Writing(me, IF me.req.backup THEN "backup" ELSE "write", c,
                             MigrateTo(c, me.req.to), DOMAIN c.users)
  <2>. DEFINE place == IF me.req.backup THEN "backup" ELSE "write"
  <2>1. place \in {"write", "backup"} /\ place \in Places
    BY <1>2
  <2>2. me.req.to \in {1, 2} /\ Good(c) /\ c.schema <= me.req.to
    BY <1>1, <1>6, RequestForm
  <2>3. Good(MigrateTo(c, me.req.to))
    BY <2>2, GoodContent
  <2>4. c \in Contents /\ MigrateTo(c, me.req.to) \in Contents /\ DOMAIN c.users \in SUBSET User
    BY <2>2, <2>3, GoodContent
  <2>5. next = Writing(me, place, c, MigrateTo(c, me.req.to), DOMAIN c.users)
    BY <1>6
  <2>. HIDE DEF place
  <2>6. next.pc = place
    BY <1>1, <2>1, <2>4, <2>5, WriteFields
  <2>. QED  BY <2>1, <2>6
<1>. QED  BY <1>3, <1>4, <1>5, <1>6 DEF Outcome

-----------------------------------------------------------------------------
(* Types are kept. *)

LEMMA StepTypes ==
    ASSUME Types, NEW p \in Proc, NEW me, Become(p, me),
           Invocation(me, backend, touched, commands),
           me.pc = "delete" /\ me.view = 2 => store'.keyTab # NoTable,
           UNCHANGED <<backend, first, touched, commands>>,
           cfg' \in Schema, GoodStore(store'), store.keyTab # NoTable => store'.keyTab # NoTable,
           \A b \in backups' : IsProviderUsers(b), mishap' \subseteq Mishaps, faults' \in 0..MaxFaults
    PROVE  Types'
<1>1. me \in ProcessType /\ proc' = [proc EXCEPT ![p] = me] /\ proc \in [Proc -> ProcessType]
  BY DEF Types, Become, Invocation
<1>2. proc' \in [Proc -> ProcessType] /\ \A q \in Proc : proc'[q] = IF q = p THEN me ELSE proc[q]
  BY <1>1
<1>3. \A q \in Proc : Invocation(proc'[q], backend', touched', commands')
  BY <1>2 DEF Types
<1>4. \A q \in Proc : proc'[q].pc = "delete" /\ proc'[q].view = 2 => store'.keyTab # NoTable
  BY <1>2 DEF Types
<1>. QED  BY <1>2, <1>3, <1>4 DEF Types

(* Nobody moves *)
LEMMA StoreTypes ==
    ASSUME Types, UNCHANGED <<backend, cfg, backups, proc, first, touched, commands, faults>>,
           GoodStore(store'), store.keyTab # NoTable => store'.keyTab # NoTable,
           mishap' \subseteq Mishaps
    PROVE  Types'
BY DEF Types

LEMMA TypesFacts ==
    ASSUME Types
    PROVE  /\ commands \in Nat /\ backend \in Backend /\ cfg \in {1, 2}
           /\ GoodStore(store)
           /\ \A p \in Proc :
                /\ Invocation(proc[p], backend, touched, commands)
                /\ proc[p] \in ProcessType /\ proc[p].view \in {1, 2} /\ proc[p].look \in {1, 2}
                /\ Good(proc[p].want) /\ Good(proc[p].held) /\ IsRequest(proc[p].req)
                /\ proc[p].req.to \in {1, 2} /\ proc[p].turn \in Nat
                /\ IsRows(proc[p].rows)
<1>1. commands \in Nat /\ backend \in Backend /\ cfg \in {1, 2} /\ GoodStore(store)
  BY BoundsAssumption, BackendsAssumption DEF Types, Schema
<1>2. \A p \in Proc :
         /\ Invocation(proc[p], backend, touched, commands)
         /\ proc[p] \in ProcessType /\ Good(proc[p].want) /\ Good(proc[p].held) /\ IsRequest(proc[p].req)
  BY DEF Types, Invocation
<1>3. \A p \in Proc :
         /\ proc[p].view \in {1, 2} /\ proc[p].look \in {1, 2} /\ proc[p].turn \in Nat
         /\ IsRows(proc[p].rows)
  BY <1>2, RowsAreRows DEF ProcessType, Schema
<1>4. \A p \in Proc : proc[p].req.to \in {1, 2}
  BY <1>2, RequestForm
<1>. QED  BY <1>1, <1>2, <1>3, <1>4

LEMMA OneLook ==
    ASSUME Types, NEW p \in Proc, proc[p].pc \notin Reading
    PROVE  proc[p].look = 1
BY TypesFacts DEF Invocation, RightPlace

LEMMA StartTypes ==
    ASSUME Types, NEW p \in Proc, NEW op, NEW place, Start(p, op, place),
           place \in {"read", "remove", "confirm", "plan"},
           place = "confirm" => op \in Lifecycle,
           place = "read" => op \notin Reconciling,
           place = "plan" => op \in Reconciling,
           place = "remove" => op = "remove" /\ backend \notin FileBackend
    PROVE  Types'
<1>1. PICK r \in Requests : r.op = op /\ Become(p, Begun(r, place)) /\ touched' = touched \cup About(r)
  BY DEF Start
<1>. DEFINE to == IF r.op = "deploy" THEN cfg ELSE r.to
            req == IF r.op = "deploy" THEN [r EXCEPT !.to = cfg] ELSE r
            me == Begun(r, place)
<1>2. IsRequest(r) /\ commands \in Nat /\ cfg \in {1, 2} /\ r.to \in {1, 2}
  BY RequestsAssumption, TypesFacts, RequestForm
<1>3. /\ IsRequest(req) /\ About(req) = About(r) /\ req.op = r.op
      /\ r.op = "deploy" => req.to = cfg
  BY <1>2, RequestTo
<1>4. /\ me \in ProcessType /\ me.req = req /\ me.view = cfg /\ me.turn = commands + 1
      /\ me.pc = place /\ me.look = 1 /\ me.todo = {} /\ me.held = NoContent /\ me.want = NoContent
  <2>1. req \in RequestType /\ place \in Places /\ commands + 1 \in Nat
    BY <1>2, <1>3, RequestsAreRequests DEF Places, Reading
  <2>. HIDE DEF req
  <2>2. me = [Idle EXCEPT !.req = req, !.view = cfg, !.turn = commands + 1, !.pc = place]
    BY DEF Begun, req
  <2>. QED  BY <1>2, <2>1, <2>2, IdleFields DEF ProcessType, Schema
<1>. HIDE DEF me, req
<1>5. RightPlace(me, backend)
  BY <1>1, <1>3, <1>4 DEF RightPlace, Running
<1>6. Invocation(me, backend', touched', commands')
  <2>1. me.turn <= commands' /\ backend' = backend
    BY <1>2, <1>4 DEF Start
  <2>2. me.todo \subseteq DOMAIN me.want.users
    BY <1>4
  <2>. QED  BY <1>1, <1>3, <1>4, <1>5, <2>1, <2>2, NoContentIsGood DEF Invocation
<1>7. \A q \in Proc : Invocation(proc[q], backend', touched', commands')
  <2>1. SUFFICES ASSUME NEW q \in Proc PROVE Invocation(proc[q], backend', touched', commands')
    OBVIOUS
  <2>2. Invocation(proc[q], backend, touched, commands) /\ proc[q].turn \in Nat
    BY TypesFacts
  <2>3. proc[q].turn <= commands' /\ backend' = backend /\ touched \subseteq touched'
    BY <1>1, <1>2, <2>2 DEF Start, Invocation
  <2>. QED  BY <2>2, <2>3 DEF Invocation
<1>8. About(r) \subseteq User
  <2>1. r.op \in OfOneUser => r.user \in User
    BY <1>2, RequestForm
  <2>2. DOMAIN r.source.users \subseteq User
    BY <1>2, RequestForm, ContentForm, UsersForm
  <2>. QED  BY <2>1, <2>2 DEF About
<1>9. proc' \in [Proc -> ProcessType] /\ \A q \in Proc : proc'[q] = IF q = p THEN me ELSE proc[q]
  BY <1>1, <1>4 DEF Types, Become, me
<1>10. \A q \in Proc : Invocation(proc'[q], backend', touched', commands')
  BY <1>6, <1>7, <1>9
<1>11. \A q \in Proc : proc'[q].pc = "delete" /\ proc'[q].view = 2 => store'.keyTab # NoTable
  BY <1>4, <1>9 DEF Types, Start
<1>12. commands' \in 0..MaxCommands /\ mishap' \subseteq Mishaps /\ touched' \subseteq User
  BY <1>1, <1>2, <1>8, BoundsAssumption DEF Start, Types, Mishaps
<1>. QED  BY <1>9, <1>10, <1>11, <1>12 DEF Types, Start

LEMMA BeginTypes ==
    ASSUME Types, NEW p \in Proc, Begin(p)
    PROVE  Types'
<1>1. CASE UsersList(p) \/ UserAdd(p) \/ UserUpdate(p) \/ UserDisable(p) \/ UserEnable(p)
             \/ UserKeyAdd(p) \/ UserKeyRemove(p) \/ ImportMerged(p) \/ ImportReplacing(p) \/ CopyUsers(p)
  <2>1. \E op \in {"list", "create", "update", "disable", "enable", "key add", "key remove",
                   "merge", "replace", "copy"} : Start(p, op, "read")
    BY <1>1 DEF UsersList, UserAdd, UserUpdate, UserDisable, UserEnable, UserKeyAdd, UserKeyRemove,
                ImportMerged, ImportReplacing, CopyUsers
  <2>. QED  BY <2>1, StartTypes DEF Reconciling, Migrating
<1>2. CASE UserRemove(p)
  <2>1. Start(p, "remove", IF backend \in FileBackend THEN "read" ELSE "remove")
    BY <1>2 DEF UserRemove
  <2>2. CASE backend \in FileBackend
    BY <2>1, <2>2, StartTypes DEF Reconciling, Migrating
  <2>3. CASE backend \notin FileBackend
    BY <2>1, <2>3, StartTypes
  <2>. QED  BY <2>2, <2>3
<1>3. CASE UserKeyDisable(p) \/ UserKeyEnable(p) \/ UserKeyRename(p) \/ UserKeyRotate(p)
             \/ UserKeyExpire(p) \/ UserKeyImport(p)
  <2>1. \E op \in Lifecycle : Start(p, op, "confirm")
    BY <1>3 DEF UserKeyDisable, UserKeyEnable, UserKeyRename, UserKeyRotate, UserKeyExpire,
                UserKeyImport, MutateAdvancedKey, Lifecycle
  <2>. QED  BY <2>1, StartTypes
<1>4. CASE MigrateSchema(p) \/ SetUserSchema(p) \/ ApplySchemaBeforeDeploy(p)
  <2>1. \E op \in Reconciling : Start(p, op, "plan")
    BY <1>4 DEF MigrateSchema, SetUserSchema, ApplySchemaBeforeDeploy, Reconciling, Migrating
  <2>. QED  BY <2>1, StartTypes
<1>. QED  BY <1>1, <1>2, <1>3, <1>4 DEF Begin

LEMMA SchemaIsRead ==
    ASSUME Types, NEW p \in Proc
    PROVE  SchemaRead(proc[p]) \in {1, 2}
<1>1. proc[p].view \in {1, 2} /\ proc[p].req.to \in {1, 2}
  BY TypesFacts
<1>2. \A s, t \in {1, 2} : PlannedSchema(backend, store, s, t) \in {1, 2}
  BY DEF PlannedSchema, Schema
<1>. QED  BY <1>1, <1>2 DEF SchemaRead

LEMMA ReadingTypes ==
    ASSUME Types, NEW p \in Proc, Read(p)
    PROVE  Types'
<1>. DEFINE c == ReadAs(backend, store, SchemaRead(proc[p]))
<1>1. PICK next \in After(proc[p], c) : Become(p, next)
  BY DEF Read
<1>2. proc[p].pc \in Reading /\ proc[p].look = 1
  BY DEF Read
<1>3. c = Rejected \/ Good(c)
  BY TypesFacts, SchemaIsRead, StoreIsRead
<1>4. commands \in Nat /\ Invocation(proc[p], backend, touched, commands) /\ GoodStore(store)
  BY TypesFacts
<1>. HIDE DEF c
<1>5. Invocation(next, backend, touched, commands)
  BY <1>1, <1>2, <1>3, <1>4, AfterIsInvocation
<1>6. next.pc # "delete"
  <2>1. Outcome(proc[p], c, next)
    BY <1>1, <1>2, <1>3, <1>4, AfterOutcome
  <2>. QED  BY <1>4, <2>1, OutcomePlace
<1>7. mishap' \subseteq Mishaps
  BY DEF Read, LooksEarly, Types, Mishaps
<1>. QED  BY <1>1, <1>4, <1>5, <1>6, <1>7, StepTypes DEF Read, Types

LEMMA CreatingTypes ==
    ASSUME Types, NEW p \in Proc, CreateOnRead(p)
    PROVE  Types'
<1>1. GoodStore(store') /\ store'.keyTab # NoTable
  BY TypesFacts, TableIsCreated DEF CreateOnRead
<1>2. mishap' \subseteq Mishaps
  BY DEF CreateOnRead, Types, Mishaps
<1>. QED  BY <1>1, <1>2, StoreTypes DEF CreateOnRead

(* A process with the users it has selected, and after that *)
Selected(me, rows) == [me EXCEPT !.look = 2, !.rows = rows]
Back(me) == [me EXCEPT !.look = 1, !.rows = NoRows]

LEMMA SelectFields ==
    ASSUME NEW me \in ProcessType, NEW rows, IsRows(rows)
    PROVE  /\ Selected(me, rows) \in ProcessType /\ Back(me) \in ProcessType
           /\ Selected(me, rows).look = 2 /\ Selected(me, rows).rows = rows
           /\ Back(me).look = 1
           /\ \A s \in {Selected(me, rows), Back(me)} :
                /\ s.pc = me.pc /\ s.req = me.req /\ s.view = me.view /\ s.turn = me.turn
                /\ s.held = me.held /\ s.want = me.want /\ s.todo = me.todo
<1>1. rows \in UNION {[U -> Row] : U \in SUBSET User} /\ NoRows \in UNION {[U -> Row] : U \in SUBSET User}
  BY RowsAreRows, NoRowsForm
<1>. QED  BY <1>1 DEF Selected, Back, ProcessType

LEMMA SelectInvocations ==
    ASSUME NEW b, NEW T, NEW n, NEW me, Invocation(me, b, T, n), NEW rows, IsRows(rows),
           me.pc \in Reading
    PROVE  /\ b \in SqlBackend => Invocation(Selected(me, rows), b, T, n)
           /\ Invocation(Back(me), b, T, n)
<1>1. /\ me \in ProcessType /\ Good(me.held) /\ Good(me.want) /\ me.todo \subseteq DOMAIN me.want.users
      /\ RightPlace(me, b)
  BY DEF Invocation
<1>2. b \in SqlBackend => RightPlace(Selected(me, rows), b)
  BY <1>1, SelectFields DEF RightPlace, Running
<1>3. RightPlace(Back(me), b)
  BY <1>1, SelectFields DEF RightPlace, Running
<1>4. b \in SqlBackend => Invocation(Selected(me, rows), b, T, n)
  BY <1>1, <1>2, SelectFields, InvocationLike
<1>5. Invocation(Back(me), b, T, n)
  BY <1>1, <1>3, SelectFields, InvocationLike
<1>. QED  BY <1>4, <1>5

LEMMA SelectingTypes ==
    ASSUME Types, NEW p \in Proc, SelectUsers(p)
    PROVE  Types'
<1>1. Invocation(proc[p], backend, touched, commands) /\ IsRows(store.rows)
  BY TypesFacts DEF GoodStore, GoodRows
<1>2. Become(p, Selected(proc[p], store.rows)) /\ proc[p].pc \in Reading /\ backend \in SqlBackend
  BY DEF SelectUsers, Selected, TwoLooks, SqlBackend
<1>3. Invocation(Selected(proc[p], store.rows), backend, touched, commands)
  BY <1>1, <1>2, SelectInvocations
<1>4. Selected(proc[p], store.rows).pc # "delete"
  BY <1>1, <1>2, SelectFields DEF Invocation, Reading
<1>5. GoodStore(store') /\ store'.keyTab = store.keyTab /\ cfg' \in Schema
      /\ (\A b \in backups' : IsProviderUsers(b)) /\ mishap' \subseteq Mishaps /\ faults' \in 0..MaxFaults
  BY DEF SelectUsers, Types
<1>. QED  BY <1>2, <1>3, <1>4, <1>5, StepTypes DEF SelectUsers

LEMMA SelectingKeysTypes ==
    ASSUME Types, NEW p \in Proc, SelectKeys(p)
    PROVE  Types'
<1>. DEFINE me == Back(proc[p])
            c == FromRows(proc[p].rows, store.keyTab, 2)
<1>1. PICK next \in After(me, c) : Become(p, next)
  BY DEF SelectKeys, Back
<1>2. /\ Invocation(proc[p], backend, touched, commands) /\ proc[p] \in ProcessType
      /\ IsRows(proc[p].rows) /\ commands \in Nat
  BY TypesFacts
<1>3. proc[p].look = 2 /\ proc[p].pc \in Reading
  BY <1>2 DEF SelectKeys, Invocation, RightPlace
<1>4. Invocation(me, backend, touched, commands) /\ me.pc \in Reading /\ me.look = 1
  BY <1>2, <1>3, SelectInvocations, SelectFields
<1>5. c = Rejected \/ Good(c)
  BY <1>2, RowsRead DEF Types, GoodStore, GoodTable
<1>. HIDE DEF me, c
<1>6. Invocation(next, backend, touched, commands)
  BY <1>1, <1>2, <1>4, <1>5, AfterIsInvocation
<1>7. next.pc # "delete"
  <2>1. Outcome(me, c, next)
    BY <1>1, <1>4, <1>5, AfterOutcome
  <2>. QED  BY <1>4, <2>1, OutcomePlace
<1>8. mishap' \subseteq Mishaps
  BY DEF SelectKeys, LooksEarly, Types, Mishaps
<1>9. GoodStore(store') /\ store'.keyTab = store.keyTab /\ cfg' \in Schema
      /\ (\A b \in backups' : IsProviderUsers(b)) /\ faults' \in 0..MaxFaults
  BY DEF SelectKeys, Types
<1>. QED  BY <1>1, <1>6, <1>7, <1>8, <1>9, StepTypes DEF SelectKeys

LEMMA MovesOn ==
    ASSUME NEW b, NEW T, NEW n, NEW me, Invocation(me, b, T, n), me.look = 1, Running(me),
           NEW place \in {"write", "fill", "commit", "delete"},
           place = "fill" => b \in FileBackend,
           place \in {"commit", "delete"} => b \in SqlBackend,
           place = "delete" => me.req.op = "remove"
    PROVE  Invocation(Moved(me, place), b, T, n) /\ Moved(me, place).pc = place
           /\ Moved(me, place).view = me.view
<1>1. me \in ProcessType /\ place \in Places /\ RightPlace(me, b)
  BY DEF Invocation, Places
<1>2. RightPlace(Moved(me, place), b)
  BY <1>1, PlaceFields DEF RightPlace
<1>. QED  BY <1>1, <1>2, PlaceFields, MovedIsInvocation

(* A process that writes, removes or configures looks once *)
LEMMA WriterFacts ==
    ASSUME Types, NEW p \in Proc, proc[p].pc \notin Reading
    PROVE  /\ Invocation(proc[p], backend, touched, commands) /\ proc[p].look = 1
           /\ commands \in Nat /\ GoodStore(store) /\ backend \in Backend
           /\ Good(proc[p].want) /\ Good(proc[p].held) /\ proc[p].view \in {1, 2}
           /\ proc[p].want.schema \in {1, 2} /\ proc[p].req.to \in {1, 2}
BY TypesFacts, OneLook, GoodContent

LEMMA BackupTypes ==
    ASSUME Types, NEW p \in Proc, Backup(p)
    PROVE  Types'
<1>1. proc[p].pc = "backup" /\ proc[p].pc \notin Reading /\ Running(proc[p])
  BY DEF Backup, Reading, Running, Ends
<1>2. Become(p, Moved(proc[p], "write"))
  BY DEF Backup, Moved
<1>3. Invocation(Moved(proc[p], "write"), backend, touched, commands)
      /\ Moved(proc[p], "write").pc = "write"
  BY <1>1, WriterFacts, MovesOn
<1>4. \A b \in backups' : IsProviderUsers(b)
  BY <1>1, WriterFacts DEF Backup, Good, Types
<1>5. GoodStore(store') /\ store'.keyTab = store.keyTab /\ cfg' \in Schema
      /\ mishap' \subseteq Mishaps /\ faults' \in 0..MaxFaults
  BY DEF Backup, Types
<1>. QED  BY <1>2, <1>3, <1>4, <1>5, StepTypes DEF Backup

LEMMA OpenTypes ==
    ASSUME Types, NEW p \in Proc, OpenFile(p)
    PROVE  Types'
<1>1. proc[p].pc = "write" /\ proc[p].pc \notin Reading /\ Running(proc[p]) /\ backend \in FileBackend
  BY DEF OpenFile, Reading, Running, Ends
<1>2. Become(p, Moved(proc[p], "fill"))
  BY DEF OpenFile, Moved
<1>3. Invocation(Moved(proc[p], "fill"), backend, touched, commands)
      /\ Moved(proc[p], "fill").pc = "fill"
  BY <1>1, WriterFacts, MovesOn
<1>4. GoodStore(store') /\ store'.keyTab = store.keyTab
  <2>1. GoodText(Blank) /\ GoodStore(store)
    BY <1>1, WriterFacts DEF GoodText
  <2>. QED  BY <2>1, StoreWithText DEF OpenFile
<1>5. cfg' \in Schema /\ (\A b \in backups' : IsProviderUsers(b))
      /\ mishap' \subseteq Mishaps /\ faults' \in 0..MaxFaults
  BY DEF OpenFile, Types
<1>. QED  BY <1>2, <1>3, <1>4, <1>5, StepTypes DEF OpenFile

LEMMA FlushTypes ==
    ASSUME Types, NEW p \in Proc, FlushRows(p)
    PROVE  Types'
<1>1. PICK S \in SUBSET DOMAIN proc[p].want.users :
         store' = [store EXCEPT !.text = FlushedText(proc[p].want, S)]
  BY DEF FlushRows
<1>2. Good(proc[p].want) /\ GoodStore(store)
  BY TypesFacts
<1>3. GoodStore(store') /\ store'.keyTab = store.keyTab
  BY <1>1, <1>2, FlushedTextIsGood, StoreWithText
<1>. QED  BY <1>3, StoreTypes DEF FlushRows, Types

LEMMA FillTypes ==
    ASSUME Types, NEW p \in Proc, FillFile(p)
    PROVE  Types'
<1>. DEFINE me == proc[p]
<1>1. me.pc = "fill" /\ me.pc \notin Reading
  BY DEF FillFile, Reading
<1>2. PICK text \in {Text(me.want), Garbled} : store' = [store EXCEPT !.text = text]
  BY DEF FillFile
<1>3. GoodStore(store') /\ store'.keyTab = store.keyTab
  <2>1. GoodText(text) /\ GoodStore(store)
    BY <1>1, <1>2, WriterFacts, TextIsGood DEF GoodText
  <2>. QED  BY <1>2, <2>1, StoreWithText
<1>4. Invocation(AfterWrite(me), backend, touched, commands)
  BY <1>1, WriterFacts, AfterWriteIsInvocation
<1>5. AfterWrite(me).pc # "delete"
  BY <1>1, WriterFacts, AfterWritePlace
<1>6. cfg' \in Schema /\ (\A b \in backups' : IsProviderUsers(b))
      /\ mishap' \subseteq Mishaps /\ faults' \in 0..MaxFaults
  BY DEF FillFile, Types
<1>. QED  BY <1>3, <1>4, <1>5, <1>6, StepTypes DEF FillFile

LEMMA EnsureTypes ==
    ASSUME Types, NEW p \in Proc, EnsureStorage(p)
    PROVE  Types'
<1>1. proc[p].pc = "write" /\ proc[p].pc \notin Reading /\ Running(proc[p]) /\ backend \in SqlBackend
  BY DEF EnsureStorage, Reading, Running, Ends
<1>2. Become(p, Moved(proc[p], "commit"))
  BY DEF EnsureStorage, Moved
<1>3. Invocation(Moved(proc[p], "commit"), backend, touched, commands)
      /\ Moved(proc[p], "commit").pc = "commit"
  BY <1>1, WriterFacts, MovesOn
<1>4. GoodStore(store') /\ (store.keyTab # NoTable => store'.keyTab # NoTable)
  BY <1>1, WriterFacts, TableIsCreated DEF EnsureStorage
<1>5. cfg' \in Schema /\ (\A b \in backups' : IsProviderUsers(b))
      /\ mishap' \subseteq Mishaps /\ faults' \in 0..MaxFaults
  BY DEF EnsureStorage, Types
<1>. QED  BY <1>2, <1>3, <1>4, <1>5, StepTypes DEF EnsureStorage

LEMMA CommitTypes ==
    ASSUME Types, NEW p \in Proc, Commit(p)
    PROVE  Types'
<1>. DEFINE me == proc[p]
<1>1. me.pc = "commit" /\ me.pc \notin Reading
  BY DEF Commit, Reading
<1>2. GoodStore(store') /\ (store.keyTab # NoTable => store'.keyTab # NoTable)
  BY <1>1, WriterFacts, ContentIsCommitted, KeyRowsOfContent DEF Commit
<1>3. Invocation(AfterWrite(me), backend, touched, commands)
  BY <1>1, WriterFacts, AfterWriteIsInvocation
<1>4. AfterWrite(me).pc # "delete"
  BY <1>1, WriterFacts, AfterWritePlace
<1>5. cfg' \in Schema /\ (\A b \in backups' : IsProviderUsers(b))
      /\ mishap' \subseteq Mishaps /\ faults' \in 0..MaxFaults
  BY DEF Commit, Types, Mishaps
<1>. QED  BY <1>2, <1>3, <1>4, <1>5, StepTypes DEF Commit

LEMMA DamageIsMishap ==
    ASSUME NEW me
    PROVE  Damage(me) \subseteq Mishaps
BY DEF Damage, Mishaps

(* A process that fails and leaves the provider as it is *)
LEMMA FailedTypes ==
    ASSUME Types, NEW p \in Proc, Become(p, Failed), mishap' = mishap \cup Damage(proc[p]),
           faults' \in 0..MaxFaults,
           UNCHANGED <<backend, cfg, store, backups, first, touched, commands>>
    PROVE  Types'
<1>1. Invocation(proc[p], backend, touched, commands) /\ commands \in Nat /\ proc[p] \in ProcessType
  BY TypesFacts
<1>2. Invocation(Failed, backend, touched, commands) /\ Failed.pc = "failed"
  BY <1>1, EndedIsInvocation, AtEnd
<1>3. mishap' \subseteq Mishaps
  BY DamageIsMishap DEF Types
<1>4. GoodStore(store') /\ store'.keyTab = store.keyTab /\ cfg' \in Schema
      /\ (\A b \in backups' : IsProviderUsers(b))
  BY DEF Types
<1>. QED  BY <1>2, <1>3, <1>4, StepTypes

LEMMA RollBackTypes ==
    ASSUME Types, NEW p \in Proc, RollBack(p)
    PROVE  Types'
BY FailedTypes DEF RollBack, Types

LEMMA KillTypes ==
    ASSUME Types, NEW p \in Proc, Kill(p)
    PROVE  Types'
BY FailedTypes, BoundsAssumption DEF Kill, Types

LEMMA ReplaceTypes ==
    ASSUME Types, NEW p \in Proc, ReplaceDoc(p)
    PROVE  Types'
<1>. DEFINE me == proc[p]
<1>1. PICK u \in me.todo :
         /\ store' = DocReplaced(store, me.want, u)
         /\ Become(p, [me EXCEPT !.todo = @ \ {u}])
  BY DEF ReplaceDoc
<1>2. me.pc = "write" /\ me.pc \notin Reading
  BY DEF ReplaceDoc, Reading
<1>3. /\ Invocation(me, backend, touched, commands) /\ me \in ProcessType
      /\ me.todo \subseteq DOMAIN me.want.users /\ RightPlace(me, backend)
      /\ Good(me.want) /\ Good(me.held) /\ GoodStore(store)
  BY <1>2, WriterFacts DEF Invocation
<1>. DEFINE new == [me EXCEPT !.todo = @ \ {u}]
<1>4. /\ new \in ProcessType /\ new.pc = me.pc /\ new.req = me.req /\ new.view = me.view
      /\ new.turn = me.turn /\ new.look = me.look /\ new.held = me.held /\ new.want = me.want
      /\ new.todo = me.todo \ {u}
  BY <1>3 DEF ProcessType
<1>. HIDE DEF new
<1>5. RightPlace(new, backend)
  BY <1>3, <1>4 DEF RightPlace, Running
<1>6. Invocation(new, backend, touched, commands)
  BY <1>3, <1>4, <1>5, InvocationLike
<1>7. GoodStore(store') /\ store'.keyTab = store.keyTab
  BY <1>1, <1>3, DocIsReplaced DEF DocReplaced, GoodStore
<1>8. cfg' \in Schema /\ (\A b \in backups' : IsProviderUsers(b))
      /\ mishap' \subseteq Mishaps /\ faults' \in 0..MaxFaults
  BY DEF ReplaceDoc, Types
<1>9. Become(p, new) /\ new.pc # "delete"
  BY <1>1, <1>2, <1>4 DEF new
<1>. QED  BY <1>6, <1>7, <1>8, <1>9, StepTypes DEF ReplaceDoc

LEMMA DeleteOthersTypes ==
    ASSUME Types, NEW p \in Proc, DeleteOthers(p)
    PROVE  Types'
<1>. DEFINE me == proc[p]
<1>1. me.pc = "write" /\ me.pc \notin Reading
  BY DEF DeleteOthers, Reading
<1>2. GoodStore(store') /\ store'.keyTab = store.keyTab
  <2>1. GoodStore(store) /\ GoodDocs([u \in DOMAIN store.docs \cap DOMAIN me.want.users |-> store.docs[u]])
    BY <1>1, WriterFacts, DocsAreDeleted
  <2>2. store' = [store EXCEPT !.docs = [u \in DOMAIN store.docs \cap DOMAIN me.want.users |-> store.docs[u]]]
    BY <2>1 DEF DeleteOthers, OthersDeleted, GoodStore
  <2>. QED  BY <2>1, <2>2, StoreWithDocs DEF GoodStore
<1>3. Invocation(AfterWrite(me), backend, touched, commands)
  BY <1>1, WriterFacts, AfterWriteIsInvocation
<1>4. AfterWrite(me).pc # "delete"
  BY <1>1, WriterFacts, AfterWritePlace
<1>5. cfg' \in Schema /\ (\A b \in backups' : IsProviderUsers(b))
      /\ mishap' \subseteq Mishaps /\ faults' \in 0..MaxFaults
  BY DEF DeleteOthers, Types
<1>. QED  BY <1>2, <1>3, <1>4, <1>5, StepTypes DEF DeleteOthers

LEMMA EnsureBeforeDeleteTypes ==
    ASSUME Types, NEW p \in Proc, EnsureBeforeDelete(p)
    PROVE  Types'
<1>. DEFINE me == proc[p]
<1>1. me.pc = "remove" /\ me.pc \notin Reading /\ Running(me) /\ backend \in SqlBackend
  BY DEF EnsureBeforeDelete, Reading, Running, Ends
<1>2. me.req.op = "remove"
  BY <1>1, WriterFacts DEF Invocation, RightPlace
<1>3. Become(p, Moved(me, "delete"))
  BY DEF EnsureBeforeDelete, Moved
<1>4. Invocation(Moved(me, "delete"), backend, touched, commands) /\ Moved(me, "delete").view = me.view
  BY <1>1, <1>2, WriterFacts, MovesOn
<1>5. /\ GoodStore(store') /\ (store.keyTab # NoTable => store'.keyTab # NoTable)
      /\ me.view = 2 => store'.keyTab # NoTable
  BY <1>1, WriterFacts, TableIsCreated DEF EnsureBeforeDelete
<1>6. cfg' \in Schema /\ (\A b \in backups' : IsProviderUsers(b))
      /\ mishap' \subseteq Mishaps /\ faults' \in 0..MaxFaults
  BY DEF EnsureBeforeDelete, Types, Mishaps
<1>. QED  BY <1>3, <1>4, <1>5, <1>6, StepTypes DEF EnsureBeforeDelete

LEMMA DeleteRowTypes ==
    ASSUME Types, NEW p \in Proc, DeleteRow(p)
    PROVE  Types'
<1>. DEFINE me == proc[p]
            next == IF me.req.user \in DOMAIN store.rows THEN Done(me) ELSE Failed
<1>1. me.pc = "delete" /\ me.pc \notin Reading /\ (me.view = 2 => store.keyTab # NoTable)
  BY DEF DeleteRow, Reading, Types
<1>2. GoodStore(store') /\ (store.keyTab # NoTable => store'.keyTab # NoTable)
  <2>1. CASE me.req.user \in DOMAIN store.rows
    BY <1>1, <2>1, WriterFacts, RowIsDeleted, TableAssumption DEF DeleteRow
  <2>2. CASE me.req.user \notin DOMAIN store.rows
    BY <1>1, <2>2, WriterFacts DEF DeleteRow
  <2>. QED  BY <2>1, <2>2
<1>3. Invocation(next, backend, touched, commands) /\ next.pc # "delete"
  BY <1>1, WriterFacts, EndedIsInvocation, AtEnd DEF Invocation
<1>4. cfg' \in Schema /\ (\A b \in backups' : IsProviderUsers(b))
      /\ mishap' \subseteq Mishaps /\ faults' \in 0..MaxFaults
  BY DEF DeleteRow, Types, Mishaps
<1>5. Become(p, next)
  BY DEF DeleteRow
<1>. QED  BY <1>2, <1>3, <1>4, <1>5, StepTypes DEF DeleteRow

LEMMA DeleteDocTypes ==
    ASSUME Types, NEW p \in Proc, DeleteDoc(p)
    PROVE  Types'
<1>. DEFINE me == proc[p]
            next == IF me.req.user \in DOMAIN store.docs THEN Done(me) ELSE Failed
<1>1. me.pc = "remove" /\ me.pc \notin Reading
  BY DEF DeleteDoc, Reading
<1>2. GoodStore(store') /\ store'.keyTab = store.keyTab
  <2>1. GoodStore(store) /\ GoodDocs([u \in DOMAIN store.docs \ {me.req.user} |-> store.docs[u]])
    BY <1>1, WriterFacts, DocsAreDeleted
  <2>2. CASE me.req.user \in DOMAIN store.docs
    <3>1. store' = [store EXCEPT !.docs = [u \in DOMAIN store.docs \ {me.req.user} |-> store.docs[u]]]
      BY <2>1, <2>2 DEF DeleteDoc, DocDeleted, GoodStore
    <3>. QED  BY <2>1, <3>1, StoreWithDocs DEF GoodStore
  <2>3. CASE me.req.user \notin DOMAIN store.docs
    BY <2>1, <2>3 DEF DeleteDoc
  <2>. QED  BY <2>2, <2>3
<1>3. Invocation(next, backend, touched, commands) /\ next.pc # "delete"
  BY <1>1, WriterFacts, EndedIsInvocation, AtEnd DEF Invocation
<1>4. cfg' \in Schema /\ (\A b \in backups' : IsProviderUsers(b))
      /\ mishap' \subseteq Mishaps /\ faults' \in 0..MaxFaults
  BY DEF DeleteDoc, Types
<1>5. Become(p, next)
  BY DEF DeleteDoc
<1>. QED  BY <1>2, <1>3, <1>4, <1>5, StepTypes DEF DeleteDoc

LEMMA ConfigTypes ==
    ASSUME Types, NEW p \in Proc, WriteConfig(p)
    PROVE  Types'
<1>. DEFINE me == proc[p]
<1>1. me.pc = "config" /\ me.pc \notin Reading
  BY DEF WriteConfig, Reading
<1>2. cfg' \in Schema
  BY <1>1, WriterFacts DEF WriteConfig, Schema
<1>3. Invocation(Done(me), backend, touched, commands) /\ Done(me).pc # "delete"
  BY <1>1, WriterFacts, EndedIsInvocation, AtEnd DEF Invocation
<1>4. GoodStore(store') /\ store'.keyTab = store.keyTab
      /\ (\A b \in backups' : IsProviderUsers(b)) /\ mishap' \subseteq Mishaps /\ faults' \in 0..MaxFaults
  BY DEF WriteConfig, Types, Mishaps
<1>. QED  BY <1>2, <1>3, <1>4, StepTypes DEF WriteConfig

(* Every reachable state is typed, and what the provider holds and what a  *)
(* command is going to write is valid: the next read refuses none of it.   *)
LEMMA TypesFromStart == Init => Types
<1>. SUFFICES ASSUME Init PROVE Types
  OBVIOUS
<1>1. PICK start \in Initial :
         /\ cfg = start.cfg
         /\ store = Holding(backend, start.content)
         /\ first = start.content.users
  BY DEF Init
<1>2. cfg \in Schema /\ Good(start.content) /\ backend \in Backends /\ backend \in Backend
  BY <1>1, InitialAssumption, BackendsAssumption DEF Init, Good
<1>3. GoodStore(store) /\ IsUsers(first)
  BY <1>1, <1>2, HeldStore, ContentForm DEF Good
<1>4. proc \in [Proc -> ProcessType] /\ \A p \in Proc : proc[p] = Idle
  BY IdleFields DEF Init
<1>5. \A p \in Proc : Invocation(proc[p], backend, touched, commands)
  BY <1>4, IdleIsInvocation DEF Init
<1>6. \A p \in Proc : proc[p].pc # "delete"
  BY <1>4, IdleFields
<1>7. commands \in 0..MaxCommands /\ faults \in 0..MaxFaults /\ backups = {}
      /\ touched = {} /\ mishap = {}
  BY BoundsAssumption DEF Init
<1>. QED  BY <1>2, <1>3, <1>4, <1>5, <1>6, <1>7 DEF Types

LEMMA TypesAreKept == Types /\ [Next]_vars => Types'
<1>1. ASSUME Types, UNCHANGED vars PROVE Types'
  BY <1>1 DEF vars, Types
<1>2. ASSUME Types, NEW p \in Proc, Step(p) PROVE Types'
  <2>1. CASE CreateOnRead(p) \/ Read(p) \/ SelectUsers(p) \/ SelectKeys(p)
    BY <1>2, <2>1, CreatingTypes, ReadingTypes, SelectingTypes, SelectingKeysTypes
  <2>2. CASE Backup(p) \/ OpenFile(p) \/ FlushRows(p) \/ FillFile(p)
    BY <1>2, <2>2, BackupTypes, OpenTypes, FlushTypes, FillTypes
  <2>3. CASE EnsureStorage(p) \/ Commit(p) \/ RollBack(p)
    BY <1>2, <2>3, EnsureTypes, CommitTypes, RollBackTypes
  <2>4. CASE ReplaceDoc(p) \/ DeleteOthers(p) \/ WriteConfig(p)
    BY <1>2, <2>4, ReplaceTypes, DeleteOthersTypes, ConfigTypes
  <2>5. CASE EnsureBeforeDelete(p) \/ DeleteRow(p) \/ DeleteDoc(p)
    BY <1>2, <2>5, EnsureBeforeDeleteTypes, DeleteRowTypes, DeleteDocTypes
  <2>. QED  BY <1>2, <2>1, <2>2, <2>3, <2>4, <2>5 DEF Step
<1>. QED  BY <1>1, <1>2, BeginTypes, KillTypes DEF Next

LEMMA TypesSayTypeOK == Types => TypeOK
<1>. SUFFICES ASSUME Types PROVE TypeOK
  OBVIOUS
<1>1. IsStore(store)
  BY TypesFacts, GoodStoreIsStore
<1>2. \A p \in Proc : IsProcess(proc[p]) /\ AllValid(proc[p].want.users)
  <2>. SUFFICES ASSUME NEW p \in Proc PROVE IsProcess(proc[p]) /\ AllValid(proc[p].want.users)
    OBVIOUS
  <2>1. /\ Invocation(proc[p], backend, touched, commands) /\ proc[p] \in ProcessType
        /\ IsRows(proc[p].rows) /\ proc[p].turn \in Nat /\ commands \in Nat
    BY TypesFacts
  <2>2. proc[p].turn \in 0..commands
    BY <2>1 DEF Invocation
  <2>. QED  BY <2>1, <2>2 DEF IsProcess, Invocation, Good, ProcessType
<1>. QED  BY <1>1, <1>2 DEF Types, TypeOK

THEOREM TypeCorrect == Spec => []TypeOK
<1>1. Spec => []Types
  BY TypesFromStart, TypesAreKept, PTL DEF Spec
<1>. QED  BY <1>1, TypesSayTypeOK, PTL
-----------------------------------------------------------------------------
(* Who keeps access *)

Writers == {"backup", "write", "fill", "commit"}

(* Schema 1 can say what the bystanders have. *)
OneFits == \A u \in Bystanders : AllActive(first[u])

Faithful(content) == \A u \in Bystanders : Kept(content, first[u], u)

RowFits(rows, u) ==
    /\ u \in DOMAIN rows
    /\ rows[u].password = first[u].password /\ rows[u].disabled = first[u].disabled
    /\ rows[u].public_keys = PublicKeys(first[u])

RowsFit(rows) == \A u \in Bystanders : RowFits(rows, u)

KeysFit(K, u) ==
    /\ {x.key : x \in K} = PublicKeys(first[u])
    /\ {x.key : x \in {y \in K : IsActive(y)}} = ActiveKeys(first[u])

(* What a process has read and is going to write is true of the bystanders. *)
ProcessFits(me) ==
    /\ me.pc \in Writers => Faithful(me.want) /\ Faithful(me.held)
    /\ me.look = 2 => RowsFit(me.rows)

(* One process at a time; the file holds what it is to be filled with, or  *)
(* all of the bystanders.                                                  *)
FileFits ==
    /\ \A p, q \in Proc : Running(proc[p]) /\ Running(proc[q]) => p = q
    /\ Filling = {} => store.text # Garbled /\ Faithful(FromText(store.text))
    /\ \A p \in Filling : PartOf(store.text, proc[p].want)

(* The users table is right whatever the schema; the key table is, but for *)
(* the time between its creation and the transaction that fills it.        *)
TablesFit ==
    /\ RowsFit(store.rows)
    /\ store.keyTab # NoTable =>
         \A u \in Bystanders : store.keyTab[u] = {} \/ KeysFit(store.keyTab[u], u)
    /\ Bare => Committing # {}
    /\ store.keyTab = NoTable => OneFits
    /\ cfg = 1 => OneFits
    /\ \A p \in Proc : Running(proc[p]) /\ proc[p].view = 1 => OneFits

DocsFit ==
    \A u \in Bystanders :
        u \in DOMAIN store.docs /\ SameAccess(V2User(store.docs[u].user), first[u])

StoreFits ==
    /\ backend \in FileBackend => FileFits
    /\ backend \in SqlBackend => TablesFit
    /\ backend = "mongodb" => DocsFit

Fits == (\A p \in Proc : ProcessFits(proc[p])) /\ StoreFits

(* What has happened is what the commands put up with. *)
Clean == mishap \subseteq (IF backend \in FileBackend THEN {} ELSE {"overlap"})

(* A migration that writes has made its backup; when one was interrupted,  *)
(* a backup has the bystanders.                                            *)
Migrates(me) ==
    me.pc \in {"write", "fill", "commit"} /\ me.req.op \in Migrating /\ me.req.backup

Undoable ==
    /\ mishap = {} => \A p \in Proc : Migrates(proc[p]) => proc[p].held \in backups
    /\ mishap = {"interrupted"} =>
         \A u \in Bystanders : \E b \in backups : KeepsAccess(b, u)

Inv == Types /\ (Clean => Fits) /\ Undoable
-----------------------------------------------------------------------------
(* Reading *)

LEMMA KeptKeepsAccess ==
    ASSUME NEW c, Good(c), NEW u, Kept(c, first[u], u)
    PROVE  KeepsAccess(c, u)
<1>1. c # Rejected
  BY ContentIsNotRejected DEF Good
<1>. QED  BY <1>1 DEF KeepsAccess, Kept, SameAccess, Grants

LEMMA BystandersAreUsers ==
    ASSUME Types, NEW u \in Bystanders
    PROVE  u \in User /\ first[u] \in SFTPUser /\ u \notin touched
BY UsersForm DEF Types, Bystanders

(* Without keys of a user who has keys *)
LEMMA NotBare ==
    ASSUME Types, TablesFit, ~Bare, store.keyTab # NoTable, NEW u \in Bystanders
    PROVE  KeysFit(store.keyTab[u], u)
<1>1. RowFits(store.rows, u)
  BY DEF TablesFit, RowsFit
<1>2. CASE store.keyTab[u] = {}
  <2>1. PublicKeys(first[u]) = {}
    BY <1>1, <1>2 DEF Bare, RowFits
  <2>2. ActiveKeys(first[u]) = {}
    BY <2>1 DEF PublicKeys, ActiveKeys
  <2>. QED  BY <1>2, <2>1, <2>2 DEF KeysFit
<1>. QED  BY <1>2 DEF TablesFit

LEMMA TablesRead ==
    ASSUME Types, TablesFit, NEW rows, IsRows(rows), RowsFit(rows), NEW s \in {1, 2},
           s = 1 => OneFits, s = 2 => ~Bare, FromRows(rows, store.keyTab, s) # Rejected
    PROVE  Faithful(FromRows(rows, store.keyTab, s))
<1>. DEFINE c == FromRows(rows, store.keyTab, s)
<1>1. store.keyTab = NoTable \/ store.keyTab \in KeyTable
  BY DEF Types, GoodStore, GoodTable
<1>2. /\ s = 2 => store.keyTab \in KeyTable
      /\ c.schema = s /\ DOMAIN c.users = DOMAIN rows
      /\ \A u \in DOMAIN rows : c.users[u] = UserOf(rows, store.keyTab, s, u)
  BY <1>1, RowsRead
<1>. HIDE DEF c
<1>3. SUFFICES ASSUME NEW u \in Bystanders PROVE Kept(c, first[u], u)
  BY DEF Faithful, c
<1>4. RowFits(rows, u) /\ u \in DOMAIN rows /\ rows[u] \in Row
  BY RowsForm DEF RowsFit, RowFits
<1>5. CASE s = 1
  <2>1. c.users[u] = V1User(rows[u])
    BY <1>2, <1>4, <1>5 DEF UserOf
  <2>2. AllActive(first[u])
    BY <1>5 DEF OneFits
  <2>3. SameAccess(c.users[u], first[u])
    BY <1>4, <2>1, <2>2, RowsAreRead DEF SameAccess, AllActive, RowFits
  <2>. QED  BY <1>2, <1>4, <2>2, <2>3 DEF Kept
<1>6. CASE s = 2
  <2>1. c.users[u] = [password |-> rows[u].password, disabled |-> rows[u].disabled,
                      keys |-> store.keyTab[u]]
    BY <1>2, <1>4, <1>6 DEF UserOf
  <2>2. store.keyTab # NoTable
    BY <1>2, <1>6, TableAssumption
  <2>3. KeysFit(store.keyTab[u], u)
    BY <1>6, <2>2, NotBare
  <2>4. c.users[u].keys = store.keyTab[u] /\ c.users[u].password = rows[u].password
        /\ c.users[u].disabled = rows[u].disabled
    BY <2>1
  <2>5. SameAccess(c.users[u], first[u])
    BY <1>4, <2>3, <2>4 DEF SameAccess, PublicKeys, ActiveKeys, KeysFit, RowFits
  <2>. QED  BY <1>2, <1>4, <1>6, <2>5 DEF Kept
<1>. QED  BY <1>5, <1>6

LEMMA DocsAreRead ==
    ASSUME Types, DocsFit, NEW s \in {1, 2}
    PROVE  Faithful(FromDocs(store.docs, s))
<1>. DEFINE c == FromDocs(store.docs, s)
<1>1. GoodDocs(store.docs)
  BY DEF Types, GoodStore
<1>2. /\ DOMAIN c.users = DOMAIN store.docs
      /\ \A u \in DOMAIN store.docs :
           /\ c.users[u] = V2User(store.docs[u].user)
           /\ c.schema = 1 => store.docs[u].user \in Row
  BY <1>1, DocsRead
<1>. HIDE DEF c
<1>3. SUFFICES ASSUME NEW u \in Bystanders PROVE Kept(c, first[u], u)
  BY DEF Faithful, c
<1>4. u \in DOMAIN store.docs /\ SameAccess(c.users[u], first[u])
  BY <1>2 DEF DocsFit
<1>5. ASSUME c.schema = 1 PROVE AllActive(first[u])
  <2>1. c.users[u] = V1User(store.docs[u].user) /\ store.docs[u].user \in Row
    BY <1>2, <1>4, <1>5, RowForm
  <2>2. AllActive(c.users[u])
    BY <2>1, RowsAreRead DEF AllActive
  <2>. QED  BY <1>4, <2>2 DEF SameAccess, AllActive
<1>. QED  BY <1>2, <1>4, <1>5 DEF Kept

(* What a process makes of a faithful content is faithful. *)
LEMMA OutcomeFits ==
    ASSUME Types, NEW me, Invocation(me, backend, touched, commands), me.look = 1,
           me.pc \in Reading, NEW c, NEW next, Outcome(me, c, next),
           me.pc \in {"read", "replan"} /\ Good(c) => Faithful(c)
    PROVE  /\ next.look = 1 /\ next.pc \notin {"fill", "commit"}
           /\ Running(next) => next.view = me.view
           /\ next.pc \in Writers => Faithful(next.want) /\ Faithful(next.held)
           /\ ~Migrates(next)
<1>1. me \in ProcessType /\ IsRequest(me.req) /\ RightPlace(me, backend) /\ About(me.req) \subseteq touched
  BY DEF Invocation
<1>2. \A place \in {"read", "replan", "config", "write", "backup"} : place \in Places
  BY DEF Places, Reading
<1>3. CASE next.pc \in {"failed", "done"} /\ next.look = 1
  BY <1>3 DEF Running, Ends, Writers, Migrates
<1>4. CASE \E place \in {"read", "replan", "config"} : next = Moved(me, place)
  <2>1. PICK place \in {"read", "replan", "config"} : next = Moved(me, place)
    BY <1>4
  <2>2. place \in Places
    BY <1>2
  <2>3. next.pc = place /\ next.look = me.look /\ next.view = me.view
    BY <1>1, <2>1, <2>2, PlaceFields
  <2>. QED  BY <2>3 DEF Writers, Migrates
<1>5. CASE /\ me.pc = "read" /\ ~me.req.dry /\ Good(c) /\ Apply(me.req, c) # Rejected
           /\ next = Writing(me, "write", c, Stored(Apply(me.req, c)), DOMAIN Apply(me.req, c).users)
  <2>. DEFINE result == Apply(me.req, c)
  <2>1. Good(result) /\ Good(Stored(result)) /\ Spares(result, c, User \ About(me.req))
    BY <1>1, <1>5, ResultIsGood, GoodContent
  <2>2. /\ c \in Contents /\ Stored(result) \in Contents
        /\ DOMAIN result.users \in SUBSET User
    BY <1>5, <2>1, GoodContent
  <2>3. next = Writing(me, "write", c, Stored(result), DOMAIN result.users)
    BY <1>5
  <2>. HIDE DEF result
  <2>4. /\ next.pc = "write" /\ next.look = me.look /\ next.view = me.view
        /\ next.held = c /\ next.want = Stored(result) /\ next.req = me.req
    BY <1>1, <1>2, <2>2, <2>3, WriteFields
  <2>5. Faithful(c)
    BY <1>5
  <2>6. Faithful(Stored(result))
    <3>. SUFFICES ASSUME NEW u \in Bystanders PROVE Kept(Stored(result), first[u], u)
      BY DEF Faithful
    <3>1. u \in User \ About(me.req) /\ Kept(c, first[u], u)
      BY <1>1, <2>5, BystandersAreUsers DEF Faithful
    <3>2. Kept(result, first[u], u)
      BY <2>1, <3>1 DEF Spares, Kept
    <3>. QED  BY <2>1, <3>2, StoredContent DEF Good
  <2>7. me.req.op \notin Migrating
    BY <1>1, <1>5 DEF RightPlace, Reconciling
  <2>. QED  BY <2>4, <2>5, <2>6, <2>7 DEF Migrates
<1>6. CASE /\ me.pc = "replan" /\ Good(c) /\ c.schema <= me.req.to
           /\ next = Writing(me, IF me.req.backup THEN "backup" ELSE "write", c,
                             MigrateTo(c, me.req.to), DOMAIN c.users)
  <2>. DEFINE place == IF me.req.backup THEN "backup" ELSE "write"
  <2>1. place \in {"write", "backup"} /\ place \in Places /\ (me.req.backup => place = "backup")
    BY <1>2
  <2>2. me.req.to \in {1, 2} /\ Good(c) /\ c.schema <= me.req.to
    BY <1>1, <1>6, RequestForm
  <2>3. Good(MigrateTo(c, me.req.to))
    BY <2>2, GoodContent
  <2>4. c \in Contents /\ MigrateTo(c, me.req.to) \in Contents /\ DOMAIN c.users \in SUBSET User
    BY <2>2, <2>3, GoodContent
  <2>5. next = Writing(me, place, c, MigrateTo(c, me.req.to), DOMAIN c.users)
    BY <1>6
  <2>. HIDE DEF place
  <2>6. /\ next.pc = place /\ next.look = me.look /\ next.view = me.view /\ next.req = me.req
        /\ next.held = c /\ next.want = MigrateTo(c, me.req.to)
    BY <1>1, <2>1, <2>4, <2>5, WriteFields
  <2>7. Faithful(c)
    BY <1>6
  <2>8. Faithful(MigrateTo(c, me.req.to))
    BY <2>2, <2>7, MigratedContent DEF Good, Faithful
  <2>. QED  BY <2>1, <2>6, <2>7, <2>8 DEF Migrates
<1>. QED  BY <1>3, <1>4, <1>5, <1>6 DEF Outcome

LEMMA SchemaOneFits ==
    ASSUME Types, TablesFit, backend \in SqlBackend, NEW p \in Proc,
           proc[p].pc \in {"read", "replan"}, SchemaRead(proc[p]) = 1
    PROVE  OneFits
<1>. DEFINE me == proc[p]
<1>1. Running(me) /\ me.view \in {1, 2} /\ me.req.to \in {1, 2} /\ RightPlace(me, backend)
  BY TypesFacts DEF Running, Ends, Invocation
<1>2. me.view = 1 \/ store.keyTab = NoTable => OneFits
  BY <1>1 DEF TablesFit
<1>3. CASE me.pc = "read"
  BY <1>2, <1>3 DEF SchemaRead
<1>4. CASE me.pc = "replan"
  <2>1. me.req.op = "migrate" \/ (me.req.op = "deploy" /\ me.req.to = me.view)
    BY <1>1, <1>4 DEF RightPlace, Migrating
  <2>2. SchemaRead(me) = PlannedSchema(backend, store, me.view, me.req.to)
    BY <1>4, <2>1 DEF SchemaRead
  <2>. QED  BY <1>2, <2>2 DEF PlannedSchema, TableExists
<1>. QED  BY <1>3, <1>4

LEMMA ReadingAlone ==
    ASSUME FileFits, NEW p \in Proc, Running(proc[p]), proc[p].pc # "fill"
    PROVE  Filling = {}
<1>1. \A q \in Proc : proc[q].pc = "fill" => Running(proc[q])
  BY DEF Running, Ends
<1>. QED  BY <1>1 DEF FileFits, Filling

LEMMA ReadFits ==
    ASSUME Types, StoreFits, NEW p \in Proc, proc[p].pc \in {"read", "replan"},
           backend \in SqlBackend /\ SchemaRead(proc[p]) = 2 => ~ (Committing # {} /\ Bare),
           Good(ReadAs(backend, store, SchemaRead(proc[p])))
    PROVE  Faithful(ReadAs(backend, store, SchemaRead(proc[p])))
<1>1. SchemaRead(proc[p]) \in {1, 2} /\ backend \in Backend
  BY SchemaIsRead, TypesFacts
<1>2. CASE backend \in FileBackend
  <2>1. ReadAs(backend, store, SchemaRead(proc[p])) = FromText(store.text)
    BY <1>2 DEF ReadAs, FileBackend, SqlBackend
  <2>2. Running(proc[p]) /\ proc[p].pc # "fill"
    BY DEF Running, Ends
  <2>. QED  BY <1>2, <2>1, <2>2, ReadingAlone DEF StoreFits, FileFits
<1>3. CASE backend \in SqlBackend
  <2>1. ReadAs(backend, store, SchemaRead(proc[p])) = FromRows(store.rows, store.keyTab, SchemaRead(proc[p]))
    BY <1>3 DEF ReadAs, FileBackend, SqlBackend
  <2>2. TablesFit
    BY <1>3 DEF StoreFits
  <2>3. IsRows(store.rows) /\ RowsFit(store.rows)
    BY <2>2 DEF Types, GoodStore, GoodRows, TablesFit
  <2>4. SchemaRead(proc[p]) = 2 => ~Bare
    BY <1>3, <2>2 DEF TablesFit
  <2>5. SchemaRead(proc[p]) = 1 => OneFits
    BY <1>3, <2>2, SchemaOneFits
  <2>6. FromRows(store.rows, store.keyTab, SchemaRead(proc[p])) # Rejected
    BY <2>1, ContentIsNotRejected DEF Good
  <2>. QED  BY <1>1, <2>1, <2>2, <2>3, <2>4, <2>5, <2>6, TablesRead
<1>4. CASE backend = "mongodb"
  <2>1. ReadAs(backend, store, SchemaRead(proc[p])) = FromDocs(store.docs, SchemaRead(proc[p]))
    BY <1>4 DEF ReadAs, FileBackend, SqlBackend
  <2>. QED  BY <1>1, <1>4, <2>1, DocsAreRead DEF StoreFits
<1>. QED  BY <1>1, <1>2, <1>3, <1>4 DEF Backend

-----------------------------------------------------------------------------
(* Steps *)

(* What has happened stays so. *)
LEMMA CleanBefore ==
    ASSUME mishap \subseteq mishap', backend' = backend
    PROVE  Clean' => Clean
BY DEF Clean

(* p goes on, as me, about the same users. *)
Goes(p, me) == Become(p, me) /\ UNCHANGED <<backend, first, touched>>

LEMMA GoesFacts ==
    ASSUME Types, NEW p \in Proc, NEW me, Goes(p, me)
    PROVE  /\ Bystanders' = Bystanders
           /\ \A q \in Proc : proc'[q] = IF q = p THEN me ELSE proc[q]
           /\ OneFits' <=> OneFits
<1>1. proc \in [Proc -> ProcessType] /\ proc' = [proc EXCEPT ![p] = me]
  BY DEF Types, Goes, Become
<1>2. first' = first /\ touched' = touched
  BY DEF Goes
<1>. QED  BY <1>1, <1>2 DEF Bystanders, OneFits

LEMMA ProcessesFit ==
    ASSUME Types, Fits, NEW p \in Proc, NEW me, Goes(p, me), ProcessFits(me)
    PROVE  \A q \in Proc : ProcessFits(proc[q])'
<1>1. /\ Bystanders' = Bystanders /\ first' = first
      /\ \A q \in Proc : proc'[q] = IF q = p THEN me ELSE proc[q]
  BY GoesFacts DEF Goes
<1>2. \A q \in Proc : ProcessFits(proc'[q])
  BY <1>1 DEF Fits
<1>. QED  BY <1>1, <1>2 DEF ProcessFits, Faithful, RowsFit, RowFits

(* A step that leaves the provider as it is: what p was about to put there *)
(* is either not begun or not missed.                                      *)
LEMMA QuietStep ==
    ASSUME Types, Fits, NEW p \in Proc, NEW me, Goes(p, me), ProcessFits(me), store' = store,
           Running(proc[p]), Running(me) => me.view = proc[p].view,
           me.pc \notin {"fill", "commit"},
           proc[p].pc # "fill", proc[p].pc = "commit" => ~Bare,
           backend \in SqlBackend /\ cfg' = 1 => OneFits
    PROVE  Fits'
<1>1. /\ \A q \in Proc : proc'[q] = IF q = p THEN me ELSE proc[q]
      /\ OneFits' <=> OneFits
      /\ first' = first /\ backend' = backend /\ Bystanders' = Bystanders
  BY GoesFacts DEF Goes
<1>2. Filling' = Filling
  BY <1>1 DEF Filling
<1>3. Bare' = Bare
  BY DEF Bare
<1>4. ASSUME backend \in FileBackend PROVE FileFits'
  <2>1. FileFits
    BY <1>4 DEF Fits, StoreFits
  <2>2. \A q \in Proc : Running(proc'[q]) => Running(proc[q])
    BY <1>1
  <2>3. \A q, r \in Proc : Running(proc'[q]) /\ Running(proc'[r]) => q = r
    BY <2>1, <2>2 DEF FileFits
  <2>4. (Filling = {} => store.text # Garbled /\ Faithful(FromText(store.text)))'
    BY <1>1, <1>2, <2>1 DEF FileFits, Faithful
  <2>5. \A q \in Filling : proc'[q] = proc[q]
    BY <1>1 DEF Filling
  <2>6. (\A q \in Filling : PartOf(store.text, proc[q].want))'
    BY <1>2, <2>1, <2>5 DEF FileFits
  <2>. QED  BY <2>3, <2>4, <2>6 DEF FileFits
<1>5. ASSUME backend \in SqlBackend PROVE TablesFit'
  <2>1. TablesFit
    BY <1>5 DEF Fits, StoreFits
  <2>2. Bare => Committing' # {}
    <3>. SUFFICES ASSUME Bare PROVE Committing' # {}
      OBVIOUS
    <3>1. PICK q \in Proc : proc[q].pc = "commit"
      BY <2>1 DEF TablesFit, Committing
    <3>2. proc'[q].pc = "commit"
      BY <1>1, <3>1
    <3>. QED  BY <3>2 DEF Committing
  <2>3. \A q \in Proc : Running(proc'[q]) /\ proc'[q].view = 1 => OneFits
    BY <1>1, <2>1 DEF TablesFit
  <2>4. (store.keyTab # NoTable =>
           \A u \in Bystanders : store.keyTab[u] = {} \/ KeysFit(store.keyTab[u], u))'
    BY <1>1, <2>1 DEF TablesFit, KeysFit
  <2>5. RowsFit(store.rows)'
    BY <1>1, <2>1 DEF TablesFit, RowsFit, RowFits
  <2>6. (store'.keyTab = NoTable => OneFits) /\ (cfg' = 1 => OneFits)
    BY <1>5, <2>1 DEF TablesFit
  <2>. QED  BY <1>1, <1>3, <2>2, <2>3, <2>4, <2>5, <2>6 DEF TablesFit
<1>6. ASSUME backend = "mongodb" PROVE DocsFit'
  <2>1. DocsFit
    BY <1>6 DEF Fits, StoreFits
  <2>. QED  BY <1>1, <2>1 DEF DocsFit
<1>7. \A q \in Proc : ProcessFits(proc[q])'
  BY ProcessesFit
<1>. QED  BY <1>1, <1>4, <1>5, <1>6, <1>7 DEF Fits, StoreFits

(* A step of the one process that writes the file *)
LEMMA FileStep ==
    ASSUME Types, Fits, backend \in FileBackend, NEW p \in Proc, NEW me, Goes(p, me),
           ProcessFits(me), Running(proc[p]),
           me.pc = "fill" => PartOf(store'.text, me.want),
           me.pc # "fill" => store'.text # Garbled /\ Faithful(FromText(store'.text))
    PROVE  Fits'
<1>1. /\ \A q \in Proc : proc'[q] = IF q = p THEN me ELSE proc[q]
      /\ first' = first /\ backend' = backend /\ Bystanders' = Bystanders
  BY GoesFacts DEF Goes
<1>2. \A q \in Proc : Running(proc[q]) => q = p
  BY DEF Fits, StoreFits, FileFits
<1>3. \A q \in Proc : Running(proc'[q]) => q = p
  BY <1>1, <1>2
<1>4. \A q \in Proc : proc'[q].pc = "fill" => q = p
  BY <1>3 DEF Running, Ends
<1>5. (Filling = {} => store.text # Garbled /\ Faithful(FromText(store.text)))'
  <2>1. Filling' = {} => me.pc # "fill"
    BY <1>1 DEF Filling
  <2>. QED  BY <1>1, <2>1 DEF Faithful
<1>6. (\A q \in Filling : PartOf(store.text, proc[q].want))'
  BY <1>1, <1>4 DEF Filling
<1>7. FileFits'
  BY <1>3, <1>5, <1>6 DEF FileFits
<1>8. \A q \in Proc : ProcessFits(proc[q])'
  BY ProcessesFit
<1>. QED  BY <1>1, <1>7, <1>8 DEF Fits, StoreFits, FileBackend, SqlBackend

(* A step of a process that changes the tables *)
LEMMA TableStep ==
    ASSUME Types, Fits, backend \in SqlBackend, NEW p \in Proc, NEW me, Goes(p, me),
           ProcessFits(me), Running(proc[p]), Running(me) => me.view = proc[p].view,
           cfg' = cfg, RowsFit(store'.rows), store'.keyTab = NoTable => store.keyTab = NoTable,
           store'.keyTab # NoTable =>
             \A u \in Bystanders : store'.keyTab[u] = {} \/ KeysFit(store'.keyTab[u], u),
           Bare' => me.pc = "commit" \/ (proc[p].pc # "commit" /\ Bare)
    PROVE  Fits'
<1>1. /\ \A q \in Proc : proc'[q] = IF q = p THEN me ELSE proc[q]
      /\ OneFits' <=> OneFits
      /\ first' = first /\ backend' = backend /\ Bystanders' = Bystanders
  BY GoesFacts DEF Goes
<1>2. TablesFit
  BY DEF Fits, StoreFits
<1>3. Bare' => Committing' # {}
  <2>1. CASE me.pc = "commit"
    BY <1>1, <2>1 DEF Committing
  <2>2. ASSUME proc[p].pc # "commit", Bare PROVE Committing' # {}
    <3>1. PICK q \in Proc : proc[q].pc = "commit"
      BY <1>2, <2>2 DEF TablesFit, Committing
    <3>2. proc'[q].pc = "commit"
      BY <1>1, <2>2, <3>1
    <3>. QED  BY <3>2 DEF Committing
  <2>. QED  BY <2>1, <2>2
<1>4. \A q \in Proc : Running(proc'[q]) /\ proc'[q].view = 1 => OneFits
  BY <1>1, <1>2 DEF TablesFit
<1>5. (store.keyTab # NoTable =>
         \A u \in Bystanders : store.keyTab[u] = {} \/ KeysFit(store.keyTab[u], u))'
  BY <1>1 DEF KeysFit
<1>6. RowsFit(store.rows)'
  BY <1>1 DEF RowsFit, RowFits
<1>7. (store'.keyTab = NoTable => OneFits) /\ (cfg' = 1 => OneFits)
  BY <1>2 DEF TablesFit
<1>8. TablesFit'
  BY <1>1, <1>3, <1>4, <1>5, <1>6, <1>7 DEF TablesFit
<1>9. \A q \in Proc : ProcessFits(proc[q])'
  BY ProcessesFit
<1>. QED  BY <1>1, <1>8, <1>9 DEF Fits, StoreFits, FileBackend, SqlBackend

(* A step of a process that changes the documents *)
LEMMA DocStep ==
    ASSUME Types, Fits, backend = "mongodb", NEW p \in Proc, NEW me, Goes(p, me), ProcessFits(me),
           \A u \in Bystanders :
             u \in DOMAIN store'.docs /\ SameAccess(V2User(store'.docs[u].user), first[u])
    PROVE  Fits'
<1>1. first' = first /\ backend' = backend /\ Bystanders' = Bystanders
  BY GoesFacts DEF Goes
<1>2. DocsFit'
  BY <1>1 DEF DocsFit
<1>3. \A q \in Proc : ProcessFits(proc[q])'
  BY ProcessesFit
<1>. QED  BY <1>1, <1>2, <1>3 DEF Fits, StoreFits, FileBackend, SqlBackend

(* Where a process goes that has finished, or that writes what it held *)
LEMMA EndsFit ==
    ASSUME NEW me \in ProcessType
    PROVE  /\ ProcessFits(Failed) /\ ~Running(Failed) /\ ~Migrates(Failed)
           /\ Failed.pc \notin {"fill", "commit"}
           /\ ProcessFits(Done(me)) /\ ~Running(Done(me)) /\ ~Migrates(Done(me))
           /\ Done(me).pc \notin {"fill", "commit"}
BY AtEnd DEF ProcessFits, Writers, Running, Ends, Migrates

LEMMA AfterWriteFits ==
    ASSUME Types, NEW p \in Proc, proc[p].look = 1
    PROVE  LET next == AfterWrite(proc[p])
           IN  /\ ProcessFits(next) /\ ~Migrates(next) /\ next.pc \notin {"fill", "commit"}
               /\ Running(next) => next.view = proc[p].view
<1>. DEFINE me == proc[p]
<1>1. me \in ProcessType /\ "config" \in Places
  BY TypesFacts DEF Places
<1>2. AfterWrite(me) = Done(me) \/ AfterWrite(me) = Moved(me, "config")
  BY DEF AfterWrite, AfterData, Moved
<1>3. CASE AfterWrite(me) = Done(me)
  BY <1>1, <1>3, EndsFit
<1>4. CASE AfterWrite(me) = Moved(me, "config")
  <2>1. Moved(me, "config").pc = "config" /\ Moved(me, "config").look = 1
        /\ Moved(me, "config").view = me.view
    BY <1>1, PlaceFields
  <2>. QED  BY <1>4, <2>1 DEF ProcessFits, Writers, Migrates
<1>. QED  BY <1>2, <1>3, <1>4

LEMMA MovedFits ==
    ASSUME Types, Fits, NEW p \in Proc, proc[p].pc \in Writers, proc[p].look = 1,
           NEW place \in {"write", "fill", "commit"}
    PROVE  /\ ProcessFits(Moved(proc[p], place)) /\ Moved(proc[p], place).view = proc[p].view
           /\ Moved(proc[p], place).pc = place /\ Moved(proc[p], place).req = proc[p].req
           /\ Moved(proc[p], place).held = proc[p].held
           /\ Moved(proc[p], place).want = proc[p].want
<1>1. proc[p] \in ProcessType /\ place \in Places
  BY TypesFacts DEF Places
<1>2. /\ Moved(proc[p], place).pc = place /\ Moved(proc[p], place).req = proc[p].req
      /\ Moved(proc[p], place).want = proc[p].want /\ Moved(proc[p], place).held = proc[p].held
      /\ Moved(proc[p], place).look = 1 /\ Moved(proc[p], place).view = proc[p].view
  BY <1>1, PlaceFields
<1>. QED  BY <1>2 DEF Fits, ProcessFits

-----------------------------------------------------------------------------
(* Each action keeps what fits, unless something happens that the commands *)
(* do not put up with.                                                     *)

LEMMA StartFits ==
    ASSUME Types, Fits, Clean', NEW p \in Proc, NEW op, NEW place, Start(p, op, place),
           place \in {"read", "remove", "confirm", "plan"}
    PROVE  Fits'
<1>1. PICK r \in Requests : Become(p, Begun(r, place)) /\ touched' = touched \cup About(r)
  BY DEF Start
<1>. DEFINE me == Begun(r, place)
            req == IF r.op = "deploy" THEN [r EXCEPT !.to = cfg] ELSE r
<1>2. me.pc = place /\ me.look = 1 /\ me.view = cfg
  <2>. HIDE DEF req
  <2>1. me = [Idle EXCEPT !.req = req, !.view = cfg, !.turn = commands + 1, !.pc = place]
    BY DEF Begun, req
  <2>. QED  BY <2>1, IdleFields DEF ProcessType
<1>. HIDE DEF me
<1>3. \A q \in Proc : proc'[q] = IF q = p THEN me ELSE proc[q]
  BY <1>1 DEF Types, Become, me
<1>4. /\ Bystanders' \subseteq Bystanders /\ first' = first /\ backend' = backend
      /\ store' = store /\ cfg' = cfg /\ ~Running(proc[p])
  BY <1>1 DEF Bystanders, Start
<1>5. \A q \in Proc : ProcessFits(proc[q])'
  <2>1. \A q \in Proc : ProcessFits(proc'[q])
    BY <1>2, <1>3 DEF Fits, ProcessFits, Writers
  <2>. QED  BY <1>4, <2>1 DEF ProcessFits, Faithful, RowsFit, RowFits
<1>6. proc[p].pc \in Ends
  BY <1>4 DEF Running
<1>7. Filling' = Filling /\ Committing' = Committing
  BY <1>2, <1>3, <1>6 DEF Filling, Committing, Ends
<1>8. ASSUME backend \in FileBackend PROVE FileFits'
  <2>1. \A q \in Proc : ~Running(proc[q])
    BY <1>4, <1>8 DEF Start, Clean
  <2>2. \A q \in Proc : Running(proc'[q]) => q = p
    BY <1>3, <2>1
  <2>3. Filling' = {}
    BY <1>7, <2>1 DEF Filling, Running, Ends
  <2>4. FileFits
    BY <1>8 DEF Fits, StoreFits
  <2>5. (Filling = {} => store.text # Garbled /\ Faithful(FromText(store.text)))'
    BY <1>4, <1>7, <2>3, <2>4 DEF FileFits, Faithful
  <2>. QED  BY <2>2, <2>3, <2>5 DEF FileFits
<1>9. ASSUME backend \in SqlBackend PROVE TablesFit'
  <2>1. TablesFit
    BY <1>9 DEF Fits, StoreFits
  <2>2. OneFits => OneFits'
    BY <1>4 DEF OneFits
  <2>3. Bare' = Bare
    BY <1>4 DEF Bare
  <2>4. RowsFit(store.rows)'
    BY <1>4, <2>1 DEF TablesFit, RowsFit, RowFits
  <2>5. (store.keyTab # NoTable =>
           \A u \in Bystanders : store.keyTab[u] = {} \/ KeysFit(store.keyTab[u], u))'
    BY <1>4, <2>1 DEF TablesFit, KeysFit
  <2>6. \A q \in Proc : Running(proc'[q]) /\ proc'[q].view = 1 => OneFits
    BY <1>2, <1>3, <2>1 DEF TablesFit
  <2>. QED  BY <1>4, <1>7, <2>1, <2>2, <2>3, <2>4, <2>5, <2>6 DEF TablesFit
<1>10. ASSUME backend = "mongodb" PROVE DocsFit'
  <2>1. DocsFit
    BY <1>10 DEF Fits, StoreFits
  <2>. QED  BY <1>4, <2>1 DEF DocsFit
<1>. QED  BY <1>4, <1>5, <1>8, <1>9, <1>10 DEF Fits, StoreFits

LEMMA BeginStarts ==
    ASSUME NEW p \in Proc, Begin(p)
    PROVE  \E op, place : Start(p, op, place) /\ place \in {"read", "remove", "confirm", "plan"}
BY DEF Begin, UsersList, UserAdd, UserUpdate, UserDisable, UserEnable, UserRemove, UserKeyAdd,
       UserKeyRemove, UserKeyDisable, UserKeyEnable, UserKeyRename, UserKeyRotate, UserKeyExpire,
       UserKeyImport, MutateAdvancedKey, ImportMerged, ImportReplacing, CopyUsers, MigrateSchema,
       SetUserSchema, ApplySchemaBeforeDeploy

LEMMA ReadKeepsFits ==
    ASSUME Types, Fits, Clean', NEW p \in Proc, Read(p)
    PROVE  Fits' /\ \E next : Become(p, next) /\ ~Migrates(next)
<1>. DEFINE me == proc[p]
            c == ReadAs(backend, store, SchemaRead(me))
<1>1. PICK next \in After(me, c) : Become(p, next)
  BY DEF Read
<1>2. /\ me.pc \in Reading /\ me.look = 1 /\ Running(me) /\ me.pc \notin {"fill", "commit"}
      /\ store' = store /\ cfg' = cfg /\ UNCHANGED <<backend, first, touched>>
  BY DEF Read, Reading, Running, Ends
<1>3. c = Rejected \/ Good(c)
  BY TypesFacts, SchemaIsRead, StoreIsRead
<1>4. Invocation(me, backend, touched, commands)
  BY TypesFacts
<1>5. backend \in SqlBackend /\ SchemaRead(me) = 2 => ~ (Committing # {} /\ Bare)
  <2>1. backend \in SqlBackend => backend \notin FileBackend
    BY DEF SqlBackend, FileBackend
  <2>. QED  BY <1>2, <2>1 DEF Read, LooksEarly, Clean
<1>6. me.pc \in {"read", "replan"} /\ Good(c) => Faithful(c)
  BY <1>5, ReadFits DEF Fits
<1>. HIDE DEF c
<1>7. Outcome(me, c, next)
  BY <1>1, <1>2, <1>3, <1>4, AfterOutcome
<1>8. /\ next.look = 1 /\ next.pc \notin {"fill", "commit"}
      /\ Running(next) => next.view = me.view
      /\ next.pc \in Writers => Faithful(next.want) /\ Faithful(next.held)
      /\ ~Migrates(next)
  BY <1>2, <1>4, <1>6, <1>7, OutcomeFits
<1>9. ProcessFits(next) /\ Goes(p, next)
  BY <1>1, <1>2, <1>8 DEF ProcessFits, Goes
<1>10. backend \in SqlBackend /\ cfg' = 1 => OneFits
  BY <1>2 DEF Fits, StoreFits, TablesFit
<1>. QED  BY <1>1, <1>2, <1>8, <1>9, <1>10, QuietStep

LEMMA SelectUsersKeepsFits ==
    ASSUME Types, Fits, NEW p \in Proc, SelectUsers(p)
    PROVE  Fits' /\ \E next : Become(p, next) /\ ~Migrates(next)
<1>. DEFINE me == proc[p]
            next == Selected(me, store.rows)
<1>1. /\ me.pc \in Reading /\ Running(me) /\ me.pc \notin Writers /\ backend \in SqlBackend
      /\ store' = store /\ cfg' = cfg
  BY DEF SelectUsers, Reading, Running, Ends, Writers, TwoLooks, SqlBackend
<1>2. Goes(p, next)
  BY DEF SelectUsers, Selected, Goes
<1>3. me \in ProcessType /\ IsRows(store.rows)
  BY TypesFacts DEF GoodStore, GoodRows
<1>4. next.pc = me.pc /\ next.rows = store.rows /\ next.view = me.view
  BY <1>3, SelectFields
<1>. HIDE DEF next
<1>5. TablesFit
  BY <1>1 DEF Fits, StoreFits
<1>6. ProcessFits(next) /\ ~Migrates(next)
  BY <1>1, <1>4, <1>5 DEF ProcessFits, TablesFit, Migrates, Writers
<1>7. Fits'
  BY <1>1, <1>2, <1>4, <1>5, <1>6, QuietStep DEF TablesFit, Writers
<1>. QED  BY <1>2, <1>6, <1>7 DEF Goes

LEMMA SelectKeysKeepsFits ==
    ASSUME Types, Fits, Clean', NEW p \in Proc, SelectKeys(p)
    PROVE  Fits' /\ \E next : Become(p, next) /\ ~Migrates(next)
<1>. DEFINE me == Back(proc[p])
            c == FromRows(proc[p].rows, store.keyTab, 2)
<1>1. PICK next \in After(me, c) : Become(p, next)
  BY DEF SelectKeys, Back
<1>2. /\ Invocation(proc[p], backend, touched, commands) /\ proc[p] \in ProcessType
      /\ IsRows(proc[p].rows)
  BY TypesFacts
<1>3. proc[p].look = 2 /\ proc[p].pc \in Reading /\ backend \in SqlBackend
      /\ backend \notin FileBackend /\ RowsFit(proc[p].rows)
  BY <1>2 DEF SelectKeys, Invocation, RightPlace, Fits, ProcessFits, SqlBackend, FileBackend
<1>4. /\ Invocation(me, backend, touched, commands) /\ me.pc \in Reading /\ me.look = 1
      /\ me.pc = proc[p].pc /\ me.view = proc[p].view
  BY <1>2, <1>3, SelectInvocations, SelectFields
<1>5. c = Rejected \/ Good(c)
  BY <1>2, RowsRead DEF Types, GoodStore, GoodTable
<1>6. TablesFit /\ Running(proc[p]) /\ proc[p].pc \notin {"fill", "commit"}
      /\ store' = store /\ cfg' = cfg /\ UNCHANGED <<backend, first, touched>>
  BY <1>3 DEF Fits, StoreFits, SelectKeys, Running, Ends, Reading
<1>7. ~Bare
  BY <1>3, <1>6 DEF SelectKeys, LooksEarly, Clean, TablesFit
<1>8. Good(c) => Faithful(c)
  BY <1>2, <1>3, <1>6, <1>7, TablesRead, ContentIsNotRejected DEF Good
<1>. HIDE DEF c, me
<1>9. Outcome(me, c, next)
  BY <1>1, <1>4, <1>5, AfterOutcome
<1>10. /\ next.look = 1 /\ next.pc \notin {"fill", "commit"}
       /\ Running(next) => next.view = me.view
       /\ next.pc \in Writers => Faithful(next.want) /\ Faithful(next.held)
       /\ ~Migrates(next)
  BY <1>4, <1>8, <1>9, OutcomeFits
<1>11. ProcessFits(next)
  BY <1>10 DEF ProcessFits
<1>12. Goes(p, next)
  BY <1>1, <1>6 DEF Goes
<1>13. (backend \in SqlBackend /\ cfg' = 1 => OneFits) /\ (Running(next) => next.view = proc[p].view)
  BY <1>4, <1>6, <1>10 DEF TablesFit
<1>14. Fits'
  BY <1>6, <1>10, <1>11, <1>12, <1>13, QuietStep
<1>. QED  BY <1>1, <1>10, <1>14

(* A write under way has the backup it had when it began. *)
Continues(me, next) ==
    Migrates(next) => Migrates(me) /\ next.held = me.held

LEMMA BackupKeepsFits ==
    ASSUME Types, Fits, NEW p \in Proc, Backup(p)
    PROVE  Fits' /\ \E next : Become(p, next) /\ next.held \in backups'
<1>. DEFINE next == Moved(proc[p], "write")
<1>1. /\ proc[p].pc = "backup" /\ proc[p].pc \in Writers /\ proc[p].pc \notin Reading
      /\ Running(proc[p]) /\ store' = store /\ cfg' = cfg /\ proc[p].held \in backups'
  BY DEF Backup, Writers, Reading, Running, Ends
<1>2. Goes(p, next)
  BY DEF Backup, Moved, Goes
<1>3. ProcessFits(next) /\ next.view = proc[p].view /\ next.pc = "write" /\ next.held = proc[p].held
  BY <1>1, OneLook, MovedFits
<1>. HIDE DEF next
<1>4. backend \in SqlBackend /\ cfg' = 1 => OneFits
  BY <1>1 DEF Fits, StoreFits, TablesFit
<1>5. Fits'
  BY <1>1, <1>2, <1>3, <1>4, QuietStep
<1>. QED  BY <1>1, <1>2, <1>3, <1>5 DEF Goes

LEMMA OpenKeepsFits ==
    ASSUME Types, Fits, NEW p \in Proc, OpenFile(p)
    PROVE  Fits' /\ \E next : Become(p, next) /\ Continues(proc[p], next)
<1>. DEFINE next == Moved(proc[p], "fill")
<1>1. /\ proc[p].pc = "write" /\ proc[p].pc \in Writers /\ proc[p].pc \notin Reading
      /\ Running(proc[p]) /\ backend \in FileBackend
  BY DEF OpenFile, Writers, Reading, Running, Ends
<1>2. Goes(p, next)
  BY DEF OpenFile, Moved, Goes
<1>3. ProcessFits(next) /\ next.pc = "fill" /\ next.held = proc[p].held /\ next.req = proc[p].req
  BY <1>1, OneLook, MovedFits
<1>. HIDE DEF next
<1>4. store'.text = Blank
  BY StoreWithText DEF OpenFile, Types, GoodText
<1>5. Fits'
  BY <1>1, <1>2, <1>3, <1>4, FileStep DEF PartOf
<1>. QED  BY <1>1, <1>2, <1>3, <1>5 DEF Goes, Continues, Migrates

LEMMA FlushKeepsFits ==
    ASSUME Types, Fits, NEW p \in Proc, FlushRows(p)
    PROVE  Fits' /\ proc' = proc
<1>. DEFINE want == proc[p].want
<1>1. PICK S \in SUBSET DOMAIN want.users :
         store' = [store EXCEPT !.text = FlushedText(want, S)]
  BY DEF FlushRows
<1>2. proc[p].pc = "fill" /\ Running(proc[p]) /\ backend \in FileBackend /\ proc' = proc
  BY DEF FlushRows, Running, Ends, FileBackend
<1>3. proc' = [proc EXCEPT ![p] = proc[p]]
  BY <1>2 DEF Types
<1>4. Goes(p, proc[p])
  BY <1>3 DEF FlushRows, Goes, Become
<1>5. Good(want) /\ GoodStore(store)
  BY TypesFacts
<1>6. /\ store'.text = FlushedText(want, S) /\ store'.text # Garbled
      /\ store'.text.schema = want.schema /\ DOMAIN store'.text.users = S
      /\ \A u \in S : store'.text.users[u] = Text(want).users[u]
  BY <1>1, <1>5, FlushedTextIsGood, StoreWithText
<1>7. PartOf(store'.text, want)
  BY <1>6 DEF PartOf
<1>8. ProcessFits(proc[p])
  BY DEF Fits
<1>9. Fits'
  BY <1>2, <1>4, <1>7, <1>8, FileStep
<1>. QED  BY <1>2, <1>9

LEMMA FillKeepsFits ==
    ASSUME Types, Fits, NEW p \in Proc, FillFile(p)
    PROVE  Fits' /\ \E next : Become(p, next) /\ Continues(proc[p], next)
<1>. DEFINE me == proc[p]
            next == AfterWrite(me)
<1>1. /\ me.pc = "fill" /\ me.pc \in Writers /\ me.pc \notin Reading /\ Running(me)
  BY DEF FillFile, Writers, Reading, Running, Ends
<1>2. me.look = 1 /\ Good(me.want) /\ GoodStore(store) /\ backend \in FileBackend
  BY <1>1, WriterFacts DEF Invocation, RightPlace
<1>3. Goes(p, next)
  BY DEF FillFile, Goes
<1>4. ProcessFits(next) /\ ~Migrates(next) /\ next.pc # "fill"
  BY <1>2, AfterWriteFits
<1>5. PartOf(store.text, me.want)
  BY <1>1, <1>2 DEF Fits, StoreFits, FileFits, Filling
<1>6. store' = [store EXCEPT !.text = Text(me.want)]
  BY <1>5 DEF FillFile
<1>7. /\ store'.text = Text(me.want) /\ IsFileText(store'.text)
      /\ FromText(store'.text) = Stored(me.want)
  BY <1>2, <1>6, TextIsGood, StoreWithText
<1>8. store'.text # Garbled
  BY <1>7, TextAssumption
<1>9. Faithful(me.want)
  BY <1>1 DEF Fits, ProcessFits
<1>10. Faithful(FromText(store'.text))
  <2>1. Faithful(Stored(me.want))
    BY <1>2, <1>9, StoredContent DEF Faithful, Good
  <2>. QED  BY <1>7, <2>1
<1>. HIDE DEF next
<1>11. Fits'
  BY <1>1, <1>2, <1>3, <1>4, <1>8, <1>10, FileStep
<1>. QED  BY <1>3, <1>4, <1>11 DEF Goes, Continues

LEMMA EnsureKeepsFits ==
    ASSUME Types, Fits, NEW p \in Proc, EnsureStorage(p)
    PROVE  Fits' /\ \E next : Become(p, next) /\ Continues(proc[p], next)
<1>. DEFINE me == proc[p]
            next == Moved(me, "commit")
<1>1. /\ me.pc = "write" /\ me.pc \in Writers /\ me.pc \notin Reading
      /\ Running(me) /\ backend \in SqlBackend /\ cfg' = cfg
  BY DEF EnsureStorage, Writers, Reading, Running, Ends
<1>2. Goes(p, next)
  BY DEF EnsureStorage, Moved, Goes
<1>3. /\ ProcessFits(next) /\ next.pc = "commit" /\ next.held = me.held /\ next.req = me.req
      /\ next.view = me.view
  BY <1>1, OneLook, MovedFits
<1>. HIDE DEF next
<1>4. /\ store'.rows = store.rows
      /\ store'.keyTab = store.keyTab \/ (store.keyTab = NoTable /\ store'.keyTab = EmptyKeyTable)
  BY <1>1, WriterFacts, TableIsCreated DEF EnsureStorage
<1>5. TablesFit
  BY <1>1 DEF Fits, StoreFits
<1>6. RowsFit(store'.rows)
  BY <1>4, <1>5 DEF TablesFit
<1>7. store'.keyTab # NoTable =>
        \A u \in Bystanders : store'.keyTab[u] = {} \/ KeysFit(store'.keyTab[u], u)
  <2>1. \A u \in Bystanders : EmptyKeyTable[u] = {}
    BY BystandersAreUsers DEF EmptyKeyTable
  <2>. QED  BY <1>4, <1>5, <2>1 DEF TablesFit
<1>8. store'.keyTab = NoTable => store.keyTab = NoTable
  BY <1>4
<1>9. Fits'
  BY <1>1, <1>2, <1>3, <1>6, <1>7, <1>8, TableStep
<1>. QED  BY <1>1, <1>2, <1>3, <1>9 DEF Goes, Continues, Migrates

LEMMA CommitKeepsFits ==
    ASSUME Types, Fits, Clean', NEW p \in Proc, Commit(p)
    PROVE  Fits' /\ \E next : Become(p, next) /\ Continues(proc[p], next)
<1>. DEFINE me == proc[p]
            next == AfterWrite(me)
            want == me.want
<1>1. /\ me.pc = "commit" /\ me.pc \in Writers /\ me.pc \notin Reading /\ Running(me) /\ cfg' = cfg
  BY DEF Commit, Writers, Reading, Running, Ends
<1>2. /\ me.look = 1 /\ Good(want) /\ GoodStore(store) /\ want.schema \in {1, 2}
      /\ backend \in SqlBackend
  BY <1>1, WriterFacts DEF Invocation, RightPlace
<1>3. Goes(p, next)
  BY DEF Commit, Goes
<1>4. ProcessFits(next) /\ ~Migrates(next) /\ (Running(next) => next.view = me.view)
  BY <1>2, AfterWriteFits
<1>. HIDE DEF next
<1>5. want.schema = 1 => store.keyTab = NoTable
  <2>1. backend \notin FileBackend
    BY <1>2 DEF SqlBackend, FileBackend
  <2>. QED  BY <2>1 DEF Commit, Mismatched, Clean
<1>6. /\ store'.rows = Rows(want)
      /\ want.schema = 2 => store'.keyTab = KeyRows(want)
      /\ want.schema = 1 => store'.keyTab = store.keyTab
  BY <1>2, ContentIsCommitted DEF Commit
<1>7. /\ DOMAIN store'.rows = DOMAIN want.users
      /\ \A u \in DOMAIN want.users :
           /\ store'.rows[u].password = want.users[u].password
           /\ store'.rows[u].disabled = want.users[u].disabled
           /\ store'.rows[u].public_keys = PublicKeys(want.users[u])
  BY <1>2, <1>6, RowsOfContent
<1>8. want.schema = 2 =>
        /\ store'.keyTab # NoTable
        /\ \A u \in DOMAIN want.users : store'.keyTab[u] = want.users[u].keys
  BY <1>2, <1>6, KeyRowsOfContent
<1>9. Faithful(want)
  BY <1>1 DEF Fits, ProcessFits
<1>10. RowsFit(store'.rows)
  BY <1>7, <1>9 DEF RowsFit, RowFits, Faithful, Kept, SameAccess
<1>11. ASSUME store'.keyTab # NoTable, NEW u \in Bystanders
       PROVE  KeysFit(store'.keyTab[u], u)
  <2>1. want.schema = 2
    BY <1>2, <1>5, <1>6, <1>11
  <2>2. store'.keyTab[u] = want.users[u].keys /\ SameAccess(want.users[u], first[u])
    BY <1>8, <1>9, <2>1 DEF Faithful, Kept
  <2>. QED  BY <2>2 DEF KeysFit, SameAccess, PublicKeys, ActiveKeys
<1>12. ~Bare'
  <2>1. SUFFICES ASSUME store'.keyTab # NoTable, NEW u \in DOMAIN store'.rows,
                        store'.rows[u].public_keys # {}
                 PROVE  store'.keyTab[u] # {}
    BY DEF Bare
  <2>2. want.schema = 2
    BY <1>2, <1>5, <1>6, <2>1
  <2>3. store'.keyTab[u] = want.users[u].keys /\ PublicKeys(want.users[u]) # {}
    BY <1>7, <1>8, <2>1, <2>2
  <2>. QED  BY <2>3 DEF PublicKeys
<1>13. store'.keyTab = NoTable => store.keyTab = NoTable
  BY <1>2, <1>6, <1>8
<1>14. Fits'
  BY <1>1, <1>2, <1>3, <1>4, <1>10, <1>11, <1>12, <1>13, TableStep
<1>. QED  BY <1>3, <1>4, <1>14 DEF Goes, Continues

(* Nothing half-done is left. *)
LEMMA NoDamage ==
    ASSUME Clean', NEW p \in Proc, mishap' = mishap \cup Damage(proc[p])
    PROVE  proc[p].pc # "fill" /\ (proc[p].pc = "commit" => ~Bare)
<1>1. Damage(proc[p]) \cap {"torn", "bare", "interrupted"} = {}
  BY DEF Clean
<1>. QED  BY <1>1 DEF Damage

LEMMA FailureKeepsFits ==
    ASSUME Types, Fits, Clean', NEW p \in Proc, RollBack(p) \/ Kill(p)
    PROVE  Fits' /\ \E next : Become(p, next) /\ Continues(proc[p], next)
<1>1. /\ Become(p, Failed) /\ Goes(p, Failed) /\ mishap' = mishap \cup Damage(proc[p])
      /\ Running(proc[p]) /\ store' = store /\ cfg' = cfg
  BY DEF RollBack, Kill, Goes, Running, Ends
<1>2. proc[p].pc # "fill" /\ (proc[p].pc = "commit" => ~Bare)
  BY <1>1, NoDamage
<1>3. /\ ProcessFits(Failed) /\ ~Running(Failed) /\ ~Migrates(Failed)
      /\ Failed.pc \notin {"fill", "commit"}
  BY TypesFacts, EndsFit
<1>4. backend \in SqlBackend /\ cfg' = 1 => OneFits
  BY <1>1 DEF Fits, StoreFits, TablesFit
<1>5. Fits'
  BY <1>1, <1>2, <1>3, <1>4, QuietStep
<1>. QED  BY <1>1, <1>3, <1>5 DEF Continues

LEMMA ReplaceKeepsFits ==
    ASSUME Types, Fits, NEW p \in Proc, ReplaceDoc(p)
    PROVE  Fits' /\ \E next : Become(p, next) /\ Continues(proc[p], next)
<1>. DEFINE me == proc[p]
            want == me.want
<1>1. PICK v \in me.todo :
         /\ store' = DocReplaced(store, want, v)
         /\ Become(p, [me EXCEPT !.todo = @ \ {v}])
  BY DEF ReplaceDoc
<1>. DEFINE next == [me EXCEPT !.todo = @ \ {v}]
<1>2. /\ me.pc = "write" /\ me.pc \in Writers /\ me.pc \notin Reading
      /\ backend = "mongodb" /\ backend \notin SqlBackend /\ backend \notin FileBackend
      /\ Goes(p, next)
  BY <1>1 DEF ReplaceDoc, Writers, Reading, SqlBackend, FileBackend, Goes
<1>3. /\ me \in ProcessType /\ me.look = 1 /\ Good(want) /\ GoodStore(store)
      /\ want.schema \in {1, 2} /\ v \in DOMAIN want.users
  BY <1>2, WriterFacts DEF Invocation
<1>4. /\ next.pc = me.pc /\ next.look = 1 /\ next.want = me.want /\ next.held = me.held
      /\ next.req = me.req
  BY <1>3 DEF ProcessType
<1>. HIDE DEF next
<1>5. ProcessFits(me) /\ DocsFit
  BY <1>2 DEF Fits, StoreFits
<1>6. ProcessFits(next) /\ Faithful(want)
  BY <1>2, <1>4, <1>5 DEF ProcessFits
<1>7. /\ DOMAIN store'.docs = DOMAIN store.docs \cup {v}
      /\ store'.docs[v] = Document(want.schema, want.users[v])
      /\ \A u \in DOMAIN store.docs \ {v} : store'.docs[u] = store.docs[u]
  BY <1>1, <1>3, DocIsReplaced
<1>8. ASSUME v \in Bystanders PROVE SameAccess(V2User(store'.docs[v].user), first[v])
  <2>1. SameAccess(want.users[v], first[v]) /\ (want.schema = 1 => AllActive(first[v]))
    BY <1>6, <1>8 DEF Faithful, Kept
  <2>2. want.users[v] \in SFTPUser /\ Valid(want.users[v])
    BY <1>3, ContentForm, UsersForm DEF Good, AllValid
  <2>3. want.schema = 2 \/ AllActive(want.users[v])
    BY <1>3, <2>1 DEF SameAccess, AllActive
  <2>4. SameAccess(V2User(store'.docs[v].user), want.users[v])
    BY <1>3, <1>7, <2>2, <2>3, DocumentOfUser
  <2>. QED  BY <2>1, <2>4, SameAccessIsTransitive
<1>9. \A u \in Bystanders :
         u \in DOMAIN store'.docs /\ SameAccess(V2User(store'.docs[u].user), first[u])
  BY <1>5, <1>7, <1>8 DEF DocsFit
<1>10. Fits'
  BY <1>2, <1>6, <1>9, DocStep
<1>. QED  BY <1>2, <1>4, <1>10 DEF Goes, Continues, Migrates

LEMMA DeleteOthersKeepsFits ==
    ASSUME Types, Fits, NEW p \in Proc, DeleteOthers(p)
    PROVE  Fits' /\ \E next : Become(p, next) /\ Continues(proc[p], next)
<1>. DEFINE me == proc[p]
            next == AfterWrite(me)
            docs == [u \in DOMAIN store.docs \cap DOMAIN me.want.users |-> store.docs[u]]
<1>1. /\ me.pc = "write" /\ me.pc \in Writers /\ me.pc \notin Reading /\ backend = "mongodb"
      /\ Goes(p, next)
  BY DEF DeleteOthers, Writers, Reading, Goes
<1>2. me.look = 1 /\ GoodStore(store) /\ GoodDocs(docs)
  BY <1>1, WriterFacts, DocsAreDeleted
<1>3. ProcessFits(next) /\ ~Migrates(next)
  BY <1>2, AfterWriteFits
<1>. HIDE DEF next
<1>4. store' = [store EXCEPT !.docs = docs]
  BY <1>2 DEF DeleteOthers, OthersDeleted, GoodStore
<1>5. store'.docs = docs
  BY <1>2, <1>4, StoreWithDocs
<1>6. DocsFit /\ Faithful(me.want)
  BY <1>1 DEF Fits, StoreFits, ProcessFits
<1>7. \A u \in Bystanders :
         u \in DOMAIN store'.docs /\ SameAccess(V2User(store'.docs[u].user), first[u])
  BY <1>5, <1>6 DEF DocsFit, Faithful, Kept
<1>8. Fits'
  BY <1>1, <1>3, <1>7, DocStep
<1>. QED  BY <1>1, <1>3, <1>8 DEF Goes, Continues

(* `user remove` on a database *)
LEMMA RemoverFacts ==
    ASSUME Types, NEW p \in Proc, proc[p].pc \in {"remove", "delete"}
    PROVE  /\ proc[p].look = 1 /\ Running(proc[p]) /\ backend \notin FileBackend
           /\ proc[p].req.user \notin Bystanders /\ GoodStore(store) /\ proc[p].view \in {1, 2}
           /\ proc[p] \in ProcessType
<1>1. proc[p].pc \notin Reading /\ Running(proc[p])
  BY DEF Reading, Running, Ends
<1>2. /\ proc[p].look = 1 /\ GoodStore(store) /\ proc[p].view \in {1, 2} /\ IsRequest(proc[p].req)
      /\ RightPlace(proc[p], backend) /\ About(proc[p].req) \subseteq touched
      /\ proc[p] \in ProcessType
  BY <1>1, WriterFacts DEF Invocation
<1>3. proc[p].req.op = "remove" /\ ~proc[p].req.dry
  BY <1>2, RequestForm DEF RightPlace
<1>4. proc[p].req.user \in touched
  BY <1>2, <1>3 DEF About, OfOneUser
<1>5. backend \notin FileBackend
  BY <1>2 DEF RightPlace, SqlBackend, FileBackend
<1>. QED  BY <1>1, <1>2, <1>4, <1>5 DEF Bystanders

LEMMA EnsureBeforeDeleteKeepsFits ==
    ASSUME Types, Fits, Clean', NEW p \in Proc, EnsureBeforeDelete(p)
    PROVE  Fits' /\ \E next : Become(p, next) /\ Continues(proc[p], next)
<1>. DEFINE me == proc[p]
            next == Moved(me, "delete")
<1>1. me.pc = "remove" /\ backend \in SqlBackend /\ cfg' = cfg /\ Goes(p, next)
  BY DEF EnsureBeforeDelete, Moved, Goes
<1>2. /\ me \in ProcessType /\ "delete" \in Places /\ me.look = 1 /\ Running(me)
      /\ GoodStore(store) /\ me.view \in {1, 2} /\ backend \notin FileBackend
  BY <1>1, RemoverFacts DEF Places
<1>3. next.pc = "delete" /\ next.look = 1 /\ next.view = me.view
  BY <1>2, PlaceFields
<1>. HIDE DEF next
<1>4. ~ (me.view = 2 /\ store.keyTab = NoTable)
  BY <1>2 DEF EnsureBeforeDelete, Clean
<1>5. store' = store
  BY <1>2, <1>4, TableIsCreated DEF EnsureBeforeDelete
<1>6. ProcessFits(next) /\ ~Migrates(next)
  BY <1>3 DEF ProcessFits, Writers, Migrates
<1>7. cfg' = 1 => OneFits
  BY <1>1 DEF Fits, StoreFits, TablesFit
<1>8. Fits'
  BY <1>1, <1>2, <1>3, <1>5, <1>6, <1>7, QuietStep
<1>. QED  BY <1>1, <1>6, <1>8 DEF Goes, Continues

LEMMA DeleteRowKeepsFits ==
    ASSUME Types, Fits, Clean', NEW p \in Proc, DeleteRow(p)
    PROVE  Fits' /\ \E next : Become(p, next) /\ Continues(proc[p], next)
<1>. DEFINE me == proc[p]
            v == me.req.user
            next == IF v \in DOMAIN store.rows THEN Done(me) ELSE Failed
<1>1. me.pc = "delete" /\ me.pc \notin Reading /\ cfg' = cfg /\ Goes(p, next)
  BY DEF DeleteRow, Reading, Goes
<1>2. /\ Running(me) /\ GoodStore(store) /\ me.view \in {1, 2} /\ backend \notin FileBackend
      /\ me \in ProcessType /\ v \notin Bystanders
  BY <1>1, RemoverFacts
<1>3. backend \in SqlBackend /\ (me.view = 2 => store.keyTab # NoTable)
  BY <1>1, WriterFacts DEF Invocation, RightPlace, Types
<1>4. ProcessFits(next) /\ ~Migrates(next) /\ ~Running(next) /\ next.pc \notin {"fill", "commit"}
  BY <1>2, EndsFit
<1>5. TablesFit
  BY <1>3 DEF Fits, StoreFits
<1>6. CASE v \notin DOMAIN store.rows
  <2>1. store' = store
    BY <1>6 DEF DeleteRow
  <2>2. cfg' = 1 => OneFits
    BY <1>1, <1>5 DEF TablesFit
  <2>. HIDE DEF next
  <2>3. Fits'
    BY <1>1, <1>2, <1>4, <2>1, <2>2, QuietStep
  <2>. QED  BY <1>1, <1>4, <2>3 DEF Goes, Continues
<1>7. CASE v \in DOMAIN store.rows
  <2>1. store' = RowDeleted(store, v, me.view)
    BY <1>7 DEF DeleteRow
  <2>2. /\ DOMAIN store'.rows = DOMAIN store.rows \ {v}
        /\ \A u \in DOMAIN store.rows \ {v} : store'.rows[u] = store.rows[u]
        /\ me.view = 1 => store'.keyTab = store.keyTab
        /\ me.view = 2 => /\ store'.keyTab \in KeyTable
                          /\ \A u \in User \ {v} : store'.keyTab[u] = store.keyTab[u]
    BY <1>2, <1>3, <2>1, RowIsDeleted
  <2>3. me.view = 1 => store.keyTab = NoTable
    BY <1>2, <1>7 DEF DeleteRow, Clean
  <2>4. me.view = 2 => store'.keyTab # NoTable
    BY <2>2, TableAssumption
  <2>5. RowsFit(store'.rows)
    BY <1>2, <1>5, <2>2 DEF TablesFit, RowsFit, RowFits
  <2>6. \A u \in Bystanders : store'.keyTab # NoTable => store'.keyTab[u] = store.keyTab[u]
    BY <1>2, <2>2, BystandersAreUsers
  <2>7. store'.keyTab # NoTable => store.keyTab # NoTable
    BY <1>2, <1>3, <2>2
  <2>8. store'.keyTab # NoTable =>
          \A u \in Bystanders : store'.keyTab[u] = {} \/ KeysFit(store'.keyTab[u], u)
    BY <1>5, <2>6, <2>7 DEF TablesFit
  <2>9. store'.keyTab = NoTable => store.keyTab = NoTable
    BY <1>2, <2>2, <2>4
  <2>10. Bare' => Bare
    <3>1. SUFFICES ASSUME store'.keyTab # NoTable, NEW u \in DOMAIN store'.rows,
                          store'.rows[u].public_keys # {}, store'.keyTab[u] = {}
                   PROVE  Bare
      BY DEF Bare
    <3>2. me.view = 2 /\ store.keyTab # NoTable
      BY <1>2, <1>3, <2>2, <2>3, <3>1
    <3>3. u \in DOMAIN store.rows /\ u # v /\ u \in User
      BY <1>2, <2>2, RowsForm DEF GoodStore, GoodRows
    <3>. QED  BY <2>2, <3>1, <3>2, <3>3 DEF Bare
  <2>. HIDE DEF next
  <2>11. Fits'
    BY <1>1, <1>2, <1>3, <1>4, <2>5, <2>8, <2>9, <2>10, TableStep
  <2>. QED  BY <1>1, <1>4, <2>11 DEF Goes, Continues
<1>. QED  BY <1>6, <1>7

LEMMA DeleteDocKeepsFits ==
    ASSUME Types, Fits, NEW p \in Proc, DeleteDoc(p)
    PROVE  Fits' /\ \E next : Become(p, next) /\ Continues(proc[p], next)
<1>. DEFINE me == proc[p]
            v == me.req.user
            next == IF v \in DOMAIN store.docs THEN Done(me) ELSE Failed
            docs == [u \in DOMAIN store.docs \ {v} |-> store.docs[u]]
<1>1. me.pc = "remove" /\ backend = "mongodb" /\ Goes(p, next)
  BY DEF DeleteDoc, Goes
<1>2. /\ GoodStore(store) /\ me \in ProcessType /\ v \notin Bystanders
  BY <1>1, RemoverFacts
<1>3. ProcessFits(next) /\ ~Migrates(next)
  BY <1>2, EndsFit
<1>4. DocsFit
  BY <1>1 DEF Fits, StoreFits
<1>5. store'.docs = docs \/ store' = store
  <2>1. CASE v \in DOMAIN store.docs
    <3>1. store' = [store EXCEPT !.docs = docs]
      BY <1>2, <2>1 DEF DeleteDoc, DocDeleted, GoodStore
    <3>2. GoodDocs(docs)
      BY <1>2, DocsAreDeleted
    <3>. HIDE DEF docs
    <3>. QED  BY <1>2, <3>1, <3>2, StoreWithDocs
  <2>2. CASE v \notin DOMAIN store.docs
    BY <2>2 DEF DeleteDoc
  <2>. QED  BY <2>1, <2>2
<1>6. \A u \in Bystanders :
         u \in DOMAIN store'.docs /\ SameAccess(V2User(store'.docs[u].user), first[u])
  <2>1. CASE store'.docs = docs
    BY <1>2, <1>4, <2>1 DEF DocsFit
  <2>2. CASE store' = store
    BY <1>4, <2>2 DEF DocsFit
  <2>. QED  BY <1>5, <2>1, <2>2
<1>. HIDE DEF next
<1>7. Fits'
  BY <1>1, <1>3, <1>6, DocStep
<1>. QED  BY <1>1, <1>3, <1>7 DEF Goes, Continues

LEMMA ConfigKeepsFits ==
    ASSUME Types, Fits, Clean', NEW p \in Proc, WriteConfig(p)
    PROVE  Fits' /\ \E next : Become(p, next) /\ Continues(proc[p], next)
<1>. DEFINE me == proc[p]
            next == Done(me)
<1>1. /\ me.pc = "config" /\ Running(me) /\ store' = store /\ cfg' = me.req.to /\ Goes(p, next)
  BY DEF WriteConfig, Running, Ends, Goes
<1>2. ProcessFits(next) /\ ~Migrates(next) /\ ~Running(next) /\ next.pc \notin {"fill", "commit"}
  BY TypesFacts, EndsFit
<1>. HIDE DEF next
<1>3. backend \in SqlBackend /\ cfg' = 1 => OneFits
  <2>1. SUFFICES ASSUME backend \in SqlBackend, me.req.to = 1 PROVE OneFits
    BY <1>1
  <2>2. backend \notin FileBackend
    BY <2>1 DEF SqlBackend, FileBackend
  <2>3. store.keyTab = NoTable
    BY <2>1, <2>2 DEF WriteConfig, Clean
  <2>. QED  BY <2>1, <2>3 DEF Fits, StoreFits, TablesFit
<1>4. Fits'
  BY <1>1, <1>2, <1>3, QuietStep
<1>. QED  BY <1>1, <1>2, <1>4 DEF Goes, Continues

-----------------------------------------------------------------------------
(* The invariant *)

LEMMA WhatHasHappened ==
    ASSUME Types, NEW p \in Proc, Begin(p) \/ Step(p) \/ Kill(p)
    PROVE  /\ mishap \subseteq mishap' /\ backups \subseteq backups'
           /\ backend' = backend /\ first' = first /\ touched \subseteq touched'
           /\ "interrupted" \in mishap' /\ "interrupted" \notin mishap =>
                /\ "interrupted" \in Damage(proc[p])
                /\ UNCHANGED <<backups, touched>>
<1>1. CASE Begin(p)
  <2>1. PICK op, place : Start(p, op, place)
    BY <1>1, BeginStarts
  <2>. QED  BY <2>1 DEF Start
<1>2. CASE CreateOnRead(p) \/ Read(p) \/ SelectUsers(p) \/ SelectKeys(p)
  BY <1>2 DEF CreateOnRead, Read, SelectUsers, SelectKeys, LooksEarly
<1>3. CASE Backup(p) \/ OpenFile(p) \/ FlushRows(p) \/ FillFile(p)
             \/ EnsureStorage(p) \/ Commit(p) \/ RollBack(p) \/ Kill(p)
  BY <1>3 DEF Backup, OpenFile, FlushRows, FillFile, EnsureStorage, Commit, RollBack, Kill
<1>4. CASE ReplaceDoc(p) \/ DeleteOthers(p) \/ EnsureBeforeDelete(p) \/ DeleteRow(p)
             \/ DeleteDoc(p) \/ WriteConfig(p)
  BY <1>4 DEF ReplaceDoc, DeleteOthers, EnsureBeforeDelete, DeleteRow, DeleteDoc, WriteConfig
<1>. QED  BY <1>1, <1>2, <1>3, <1>4 DEF Step

LEMMA BeginKeepsFits ==
    ASSUME Types, Fits, Clean', NEW p \in Proc, Begin(p)
    PROVE  Fits' /\ \E next : Become(p, next) /\ ~Migrates(next)
<1>1. PICK op, place : Start(p, op, place) /\ place \in {"read", "remove", "confirm", "plan"}
  BY BeginStarts
<1>2. PICK r \in Requests : Become(p, Begun(r, place))
  BY <1>1 DEF Start
<1>. DEFINE req == IF r.op = "deploy" THEN [r EXCEPT !.to = cfg] ELSE r
<1>3. Begun(r, place).pc = place
  <2>. HIDE DEF req
  <2>1. Begun(r, place) = [Idle EXCEPT !.req = req, !.view = cfg, !.turn = commands + 1, !.pc = place]
    BY DEF Begun, req
  <2>. QED  BY <2>1, IdleFields DEF ProcessType
<1>4. ~Migrates(Begun(r, place))
  BY <1>1, <1>3 DEF Migrates
<1>. QED  BY <1>1, <1>2, <1>4, StartFits

LEMMA StepKeepsFits ==
    ASSUME Types, Fits, Clean', NEW p \in Proc, Step(p) \/ Kill(p)
    PROVE  /\ Fits'
           /\ \/ proc' = proc
              \/ \E next : Become(p, next) /\ (Continues(proc[p], next) \/ next.held \in backups')
<1>1. CASE CreateOnRead(p)
  BY <1>1 DEF CreateOnRead, Clean
<1>2. CASE Read(p) \/ SelectUsers(p) \/ SelectKeys(p)
  BY <1>2, ReadKeepsFits, SelectUsersKeepsFits, SelectKeysKeepsFits DEF Continues
<1>3. CASE Backup(p) \/ OpenFile(p) \/ FlushRows(p) \/ FillFile(p)
  BY <1>3, BackupKeepsFits, OpenKeepsFits, FlushKeepsFits, FillKeepsFits
<1>4. CASE EnsureStorage(p) \/ Commit(p) \/ RollBack(p) \/ Kill(p)
  BY <1>4, EnsureKeepsFits, CommitKeepsFits, FailureKeepsFits
<1>5. CASE ReplaceDoc(p) \/ DeleteOthers(p) \/ WriteConfig(p)
  BY <1>5, ReplaceKeepsFits, DeleteOthersKeepsFits, ConfigKeepsFits
<1>6. CASE EnsureBeforeDelete(p) \/ DeleteRow(p) \/ DeleteDoc(p)
  BY <1>6, EnsureBeforeDeleteKeepsFits, DeleteRowKeepsFits, DeleteDocKeepsFits
<1>. QED  BY <1>1, <1>2, <1>3, <1>4, <1>5, <1>6 DEF Step

(* A write of a migration under way has its backup. *)
LEMMA MigratingHasBackup ==
    ASSUME Inv, NEW p \in Proc, Begin(p) \/ Step(p) \/ Kill(p), mishap' = {}
    PROVE  \A q \in Proc : Migrates(proc'[q]) => proc'[q].held \in backups'
<1>1. Types /\ Clean' /\ mishap = {} /\ backups \subseteq backups'
  BY WhatHasHappened DEF Inv, Clean
<1>2. Fits /\ \A q \in Proc : Migrates(proc[q]) => proc[q].held \in backups
  BY <1>1 DEF Inv, Clean, Undoable
<1>3. CASE proc' = proc
  BY <1>1, <1>2, <1>3
<1>4. CASE \E next : Become(p, next) /\ (Continues(proc[p], next) \/ next.held \in backups')
  <2>1. PICK next : Become(p, next) /\ (Continues(proc[p], next) \/ next.held \in backups')
    BY <1>4
  <2>2. \A q \in Proc : proc'[q] = IF q = p THEN next ELSE proc[q]
    BY <1>1, <2>1 DEF Types, Become
  <2>. QED  BY <1>1, <1>2, <2>1, <2>2 DEF Continues
<1>5. ASSUME Begin(p) PROVE \E next : Become(p, next) /\ Continues(proc[p], next)
  BY <1>1, <1>2, <1>5, BeginKeepsFits DEF Continues
<1>6. ASSUME Step(p) \/ Kill(p)
      PROVE  \/ proc' = proc
             \/ \E next : Become(p, next) /\ (Continues(proc[p], next) \/ next.held \in backups')
  BY <1>1, <1>2, <1>6, StepKeepsFits
<1>. QED  BY <1>3, <1>4, <1>5, <1>6

(* Once a migration was interrupted, a backup has the bystanders. *)
LEMMA InterruptedHasBackup ==
    ASSUME Inv, NEW p \in Proc, Begin(p) \/ Step(p) \/ Kill(p), mishap' = {"interrupted"}
    PROVE  \A u \in Bystanders' : \E b \in backups' : KeepsAccess(b, u)
<1>1. /\ Types /\ mishap \subseteq {"interrupted"} /\ backups \subseteq backups'
      /\ Bystanders' \subseteq Bystanders
  BY WhatHasHappened DEF Inv, Bystanders
<1>2. CASE mishap = {"interrupted"}
  BY <1>1, <1>2 DEF Inv, Undoable
<1>3. CASE mishap = {}
  <2>1. "interrupted" \in Damage(proc[p])
    BY <1>1, <1>3, WhatHasHappened
  <2>2. Migrates(proc[p]) /\ proc[p].pc \in Writers
    BY <2>1 DEF Damage, Migrates, Writers
  <2>3. Fits /\ proc[p].held \in backups
    BY <1>3, <2>2 DEF Inv, Clean, Undoable
  <2>4. Faithful(proc[p].held) /\ Good(proc[p].held)
    BY <1>1, <2>2, <2>3, TypesFacts DEF Fits, ProcessFits
  <2>. QED  BY <1>1, <2>3, <2>4, KeptKeepsAccess DEF Faithful
<1>. QED  BY <1>1, <1>2, <1>3

LEMMA UndoableIsKept ==
    ASSUME Inv, NEW p \in Proc, Begin(p) \/ Step(p) \/ Kill(p)
    PROVE  Undoable'
<1>1. first' = first
  BY WhatHasHappened DEF Inv
<1>2. mishap' = {} => \A q \in Proc : Migrates(proc'[q]) => proc'[q].held \in backups'
  BY MigratingHasBackup
<1>3. mishap' = {"interrupted"} => \A u \in Bystanders' : \E b \in backups' : KeepsAccess(b, u)
  BY InterruptedHasBackup
<1>. QED  BY <1>1, <1>2, <1>3 DEF Undoable, KeepsAccess

LEMMA InvIsKept == Inv /\ [Next]_vars => Inv'
<1>1. ASSUME Inv, UNCHANGED vars PROVE Inv'
  <2>1. Types'
    BY <1>1, TypesAreKept DEF Inv
  <2>2. /\ Bystanders' = Bystanders /\ Filling' = Filling /\ Committing' = Committing
        /\ Bare' = Bare /\ (Clean' <=> Clean) /\ (OneFits' <=> OneFits)
        /\ UNCHANGED <<backend, cfg, store, backups, proc, first, mishap>>
    BY <1>1 DEF vars, Bystanders, Filling, Committing, Bare, Clean, OneFits
  <2>3. ASSUME Fits PROVE Fits'
    <3>1. \A p \in Proc : ProcessFits(proc[p])'
      BY <2>2, <2>3 DEF Fits, ProcessFits, Faithful, RowsFit, RowFits
    <3>2. FileFits => FileFits'
      BY <2>2 DEF FileFits, Faithful
    <3>3. TablesFit => TablesFit'
      BY <2>2 DEF TablesFit, RowsFit, RowFits, KeysFit
    <3>4. DocsFit => DocsFit'
      BY <2>2 DEF DocsFit
    <3>. QED  BY <2>2, <2>3, <3>1, <3>2, <3>3, <3>4 DEF Fits, StoreFits
  <2>4. Undoable'
    BY <1>1, <2>2 DEF Inv, Undoable, KeepsAccess
  <2>. QED  BY <1>1, <2>1, <2>2, <2>3, <2>4 DEF Inv
<1>2. ASSUME Inv, NEW p \in Proc, Begin(p) \/ Step(p) \/ Kill(p) PROVE Inv'
  <2>1. Types /\ Types'
    BY <1>2, TypesAreKept DEF Inv, Next
  <2>2. Clean' => Clean
    BY <1>2, <2>1, WhatHasHappened, CleanBefore
  <2>3. ASSUME Clean' PROVE Fits'
    BY <1>2, <2>1, <2>2, <2>3, BeginKeepsFits, StepKeepsFits DEF Inv
  <2>4. Undoable'
    BY <1>2, UndoableIsKept
  <2>. QED  BY <2>1, <2>3, <2>4 DEF Inv
<1>. QED  BY <1>1, <1>2 DEF Next

LEMMA InvFromStart == Init => Inv
<1>. SUFFICES ASSUME Init PROVE Inv
  OBVIOUS
<1>1. PICK start \in Initial :
         /\ cfg = start.cfg
         /\ store = Holding(backend, start.content)
         /\ first = start.content.users
  BY DEF Init
<1>. DEFINE content == start.content
<1>2. /\ Types /\ Good(content) /\ Stored(content) = content /\ backend \in Backend
      /\ content.schema <= cfg /\ content.schema \in {1, 2} /\ cfg \in {1, 2}
  BY <1>1, TypesFromStart, TypesFacts, InitialAssumption, GoodContent DEF Good
<1>3. \A p \in Proc : proc[p] = Idle
  BY DEF Init
<1>4. /\ \A p \in Proc : ~Running(proc[p]) /\ ProcessFits(proc[p]) /\ ~Migrates(proc[p])
      /\ Filling = {} /\ Committing = {}
  BY <1>3, IdleFields, StoppedPlaces DEF ProcessFits, Writers, Migrates, Filling, Committing
<1>5. \A u \in Bystanders : u \in DOMAIN content.users /\ first[u] = content.users[u]
                              /\ first[u] \in SFTPUser /\ Valid(first[u])
  BY <1>1, <1>2, BystandersAreUsers DEF Bystanders, Good, AllValid
<1>6. ASSUME content.schema = 1, NEW u \in Bystanders PROVE AllActive(first[u])
  <2>1. content.users[u] = FromMapping(1, ToMapping(1, content.users[u]))
    <3>. DEFINE f == [v \in DOMAIN content.users |->
                       FromMapping(content.schema, ToMapping(content.schema, content.users[v]))]
    <3>1. content = [schema |-> content.schema, users |-> content.users]
      BY <1>2, ContentForm DEF Good
    <3>2. Stored(content).users = f
      BY <3>1 DEF Stored
    <3>. QED  BY <1>2, <1>5, <1>6, <3>2
  <2>2. content.users[u] = V1User(V1Mapping(content.users[u]))
    BY <2>1 DEF FromMapping, ToMapping
  <2>3. V1Mapping(content.users[u]) \in Row
    BY <1>5, RowsAreWritten
  <2>. QED  BY <1>5, <2>2, <2>3, RowsAreRead DEF AllActive
<1>7. Faithful(content)
  BY <1>5, <1>6 DEF Faithful, Kept, SameAccess
<1>8. ASSUME backend \in FileBackend PROVE FileFits
  <2>1. store.text = Text(content)
    BY <1>1, <1>2, <1>8, HeldStore
  <2>2. IsFileText(store.text) /\ FromText(store.text) = content
    BY <1>2, <2>1, TextIsGood
  <2>. QED  BY <1>4, <1>7, <2>2, TextAssumption DEF FileFits
<1>9. ASSUME backend \in SqlBackend PROVE TablesFit
  <2>1. store.rows = Rows(content)
        /\ store.keyTab = IF content.schema = 2 THEN KeyRows(content) ELSE NoTable
    BY <1>1, <1>2, <1>9, HeldStore
  <2>2. RowsFit(store.rows)
    BY <1>2, <1>5, <2>1, RowsOfContent DEF RowsFit, RowFits
  <2>3. content.schema = 2 =>
          store.keyTab # NoTable /\ \A u \in DOMAIN content.users : store.keyTab[u] = content.users[u].keys
    BY <1>2, <2>1, KeyRowsOfContent
  <2>4. store.keyTab # NoTable => \A u \in Bystanders : KeysFit(store.keyTab[u], u)
    BY <1>2, <1>5, <2>1, <2>3 DEF KeysFit, PublicKeys, ActiveKeys
  <2>5. content.schema = 1 => OneFits
    BY <1>6 DEF OneFits
  <2>6. ~Bare
    <3>1. SUFFICES ASSUME store.keyTab # NoTable, NEW u \in DOMAIN store.rows,
                          store.rows[u].public_keys # {}
                   PROVE  store.keyTab[u] # {}
      BY DEF Bare
    <3>2. u \in DOMAIN content.users /\ store.rows[u].public_keys = PublicKeys(content.users[u])
      BY <1>2, <2>1, <3>1, RowsOfContent
    <3>3. content.schema = 2
      BY <1>2, <2>1, <3>1
    <3>4. store.keyTab[u] = content.users[u].keys
      BY <2>3, <3>2, <3>3
    <3>. QED  BY <3>1, <3>2, <3>4 DEF PublicKeys
  <2>7. store.keyTab = NoTable => content.schema = 1
    BY <1>2, <2>3
  <2>. QED  BY <1>2, <1>4, <2>2, <2>4, <2>5, <2>6, <2>7 DEF TablesFit
<1>10. ASSUME backend = "mongodb" PROVE DocsFit
  <2>1. store.docs = [u \in DOMAIN content.users |-> Document(content.schema, content.users[u])]
    BY <1>1, <1>2, <1>10, HeldStore
  <2>2. SUFFICES ASSUME NEW u \in Bystanders
                 PROVE  u \in DOMAIN store.docs /\ SameAccess(V2User(store.docs[u].user), first[u])
    BY DEF DocsFit
  <2>3. u \in DOMAIN store.docs /\ store.docs[u] = Document(content.schema, first[u])
    BY <1>5, <2>1
  <2>4. content.schema = 2 \/ AllActive(first[u])
    BY <1>2, <1>6
  <2>. QED  BY <1>2, <1>5, <2>3, <2>4, DocumentOfUser
<1>11. Undoable
  BY <1>4 DEF Init, Undoable
<1>. QED  BY <1>2, <1>4, <1>8, <1>9, <1>10, <1>11 DEF Inv, Fits, StoreFits

LEMMA InvIsInvariant == Spec => []Inv
BY InvFromStart, InvIsKept, PTL DEF Spec
-----------------------------------------------------------------------------
(* What the invariant says of the provider *)

LEMMA ContentFits ==
    ASSUME Types, StoreFits, Filling = {}, backend \in SqlBackend => ~Bare
    PROVE  Good(Content) /\ Faithful(Content)
<1>. DEFINE s == PlannedSchema(backend, store, cfg, cfg)
<1>1. s \in {1, 2} /\ backend \in Backend /\ GoodStore(store) /\ cfg \in {1, 2}
  BY TypesFacts DEF PlannedSchema, Schema
<1>2. Content = ReadAs(backend, store, s)
  BY DEF Content
<1>3. Content = Rejected \/ Good(Content)
  <2>. HIDE DEF s
  <2>. QED  BY <1>1, <1>2, StoreIsRead
<1>4. CASE backend \in FileBackend
  <2>1. Content = FromText(store.text)
    BY <1>2, <1>4 DEF ReadAs, FileBackend, SqlBackend
  <2>2. store.text # Garbled /\ Faithful(FromText(store.text))
    BY <1>4 DEF StoreFits, FileFits
  <2>3. Good(FromText(store.text))
    BY <1>1, <2>2, TextIsRead DEF GoodStore
  <2>. QED  BY <2>1, <2>2, <2>3
<1>5. CASE backend \in SqlBackend
  <2>1. Content = FromRows(store.rows, store.keyTab, s)
    BY <1>2, <1>5 DEF ReadAs, FileBackend, SqlBackend
  <2>2. TablesFit /\ ~Bare
    BY <1>5 DEF StoreFits
  <2>3. s = 1 => OneFits
    BY <1>5, <2>2 DEF PlannedSchema, TableExists, TablesFit
  <2>4. s = 2 => store.keyTab # NoTable
    BY <1>1, <1>5 DEF PlannedSchema, TableExists, UsesKeyTable, Schema
  <2>5. IsRows(store.rows) /\ RowsFit(store.rows) /\ GoodRows(store.rows) /\ GoodTable(store.keyTab)
    BY <1>1, <2>2 DEF GoodStore, GoodRows, TablesFit
  <2>. HIDE DEF s
  <2>6. \A u \in DOMAIN store.rows : Valid(UserOf(store.rows, store.keyTab, s, u))
    <3>1. SUFFICES ASSUME NEW u \in DOMAIN store.rows
                   PROVE  Valid(UserOf(store.rows, store.keyTab, s, u))
      OBVIOUS
    <3>2. store.rows[u] \in Row /\ (store.rows[u].password \/ store.rows[u].public_keys # {})
      BY <2>5, RowsForm DEF GoodRows
    <3>3. CASE s = 1
      BY <3>2, <3>3, RowsAreRead DEF UserOf
    <3>4. CASE s = 2
      <4>1. u \in User
        BY <2>5, RowsForm
      <4>2. store.rows[u].password \/ store.keyTab[u] # {}
        BY <2>2, <2>4, <3>2, <3>4 DEF Bare
      <4>3. UniqueKeys([keys |-> store.keyTab[u]])
        BY <2>4, <2>5, <3>4, <4>1 DEF GoodTable
      <4>4. UserOf(store.rows, store.keyTab, s, u) =
              [password |-> store.rows[u].password, disabled |-> store.rows[u].disabled,
               keys |-> store.keyTab[u]]
        BY <3>4 DEF UserOf
      <4>. QED  BY <4>2, <4>3, <4>4 DEF Valid, AuthPresent, UniqueKeys
    <3>. QED  BY <1>1, <3>3, <3>4
  <2>7. FromRows(store.rows, store.keyTab, s) # Rejected
    BY <1>1, <2>4, <2>5, <2>6, RowsRead DEF GoodTable
  <2>8. Faithful(FromRows(store.rows, store.keyTab, s))
    BY <1>1, <2>2, <2>3, <2>5, <2>7, TablesRead
  <2>. QED  BY <1>3, <2>1, <2>7, <2>8
<1>6. CASE backend = "mongodb"
  <2>1. Content = FromDocs(store.docs, s)
    BY <1>2, <1>6 DEF ReadAs, FileBackend, SqlBackend
  <2>2. DocsFit
    BY <1>6 DEF StoreFits
  <2>. HIDE DEF s
  <2>3. Faithful(FromDocs(store.docs, s)) /\ Good(FromDocs(store.docs, s))
    BY <1>1, <2>2, DocsAreRead, DocsRead DEF GoodStore
  <2>. QED  BY <2>1, <2>3
<1>. QED  BY <1>1, <1>4, <1>5, <1>6 DEF Backend

LEMMA DirectoryFits ==
    ASSUME Types, Fits, NEW u \in Bystanders
    PROVE  KeepsAccess(Directory, u)
<1>1. CASE Filling # {}
  <2>1. PICK p \in Filling : Directory = proc[p].want
    BY <1>1 DEF Directory
  <2>2. p \in Proc /\ proc[p].pc \in Writers
    BY <2>1 DEF Filling, Writers
  <2>3. Faithful(proc[p].want) /\ Good(proc[p].want)
    BY <2>2, TypesFacts DEF Fits, ProcessFits
  <2>. QED  BY <2>1, <2>3, KeptKeepsAccess DEF Faithful
<1>2. CASE Filling = {} /\ Committing # {}
  <2>1. PICK p \in Committing : Directory = proc[p].held
    BY <1>2 DEF Directory
  <2>2. p \in Proc /\ proc[p].pc \in Writers
    BY <2>1 DEF Committing, Writers
  <2>3. Faithful(proc[p].held) /\ Good(proc[p].held)
    BY <2>2, TypesFacts DEF Fits, ProcessFits
  <2>. QED  BY <2>1, <2>3, KeptKeepsAccess DEF Faithful
<1>3. CASE Filling = {} /\ Committing = {}
  <2>1. Directory = Content
    BY <1>3 DEF Directory
  <2>2. backend \in SqlBackend => ~Bare
    BY <1>3 DEF Fits, StoreFits, TablesFit
  <2>3. Good(Content) /\ Faithful(Content)
    BY <1>3, <2>2, ContentFits DEF Fits
  <2>. QED  BY <2>1, <2>3, KeptKeepsAccess DEF Faithful
<1>. QED  BY <1>1, <1>2, <1>3

(* A user no command has been about gets in as before, whatever commands   *)
(* have overlapped on a database and whatever has been started and killed, *)
(* as long as none of the mishaps has happened that the commands cannot    *)
(* undo: for every set of users, keys, requests, processes and providers.  *)
THEOREM BystandersAreSafe == Spec => []BystandersKeepAccess
<1>1. Inv => BystandersKeepAccess
  <2>1. SUFFICES ASSUME Inv, Clean PROVE
            /\ Committing = {} => \A u \in Bystanders : KeepsAccess(Directory, u)
            /\ \A p \in Proc, u \in Bystanders :
                 proc[p].pc \in {"write", "fill"} => KeepsAccess(proc[p].want, u)
    BY DEF BystandersKeepAccess, Clean
  <2>2. Types /\ Fits
    BY <2>1 DEF Inv
  <2>3. \A u \in Bystanders : KeepsAccess(Directory, u)
    BY <2>2, DirectoryFits
  <2>4. ASSUME NEW p \in Proc, NEW u \in Bystanders, proc[p].pc \in {"write", "fill"}
        PROVE  KeepsAccess(proc[p].want, u)
    <3>1. Faithful(proc[p].want) /\ Good(proc[p].want)
      BY <2>2, <2>4, TypesFacts DEF Fits, ProcessFits, Writers
    <3>. QED  BY <3>1, KeptKeepsAccess DEF Faithful
  <2>. QED  BY <2>3, <2>4
<1>. QED  BY <1>1, InvIsInvariant, PTL

(* A migration that has made its backup can be undone wherever it ends:    *)
(* what a bystander had is in the provider or in a backup.                 *)
THEOREM MigrationsAreUndoable == Spec => []MigrationIsUndoable
<1>1. Inv => MigrationIsUndoable
  <2>1. SUFFICES ASSUME Inv, mishap \subseteq {"interrupted"}, NEW u \in Bystanders
                 PROVE  \/ KeepsAccess(Directory, u)
                        \/ \E b \in backups : KeepsAccess(b, u)
    BY DEF MigrationIsUndoable
  <2>2. CASE mishap = {}
    BY <2>1, <2>2, DirectoryFits DEF Inv, Clean
  <2>3. CASE mishap = {"interrupted"}
    BY <2>1, <2>3 DEF Inv, Undoable
  <2>. QED  BY <2>1, <2>2, <2>3
<1>. QED  BY <1>1, InvIsInvariant, PTL
-----------------------------------------------------------------------------
(* What a command that runs alone has done *)

(* What a provider configured with schema c reads from st; Content, for    *)
(* any store and schema *)
Reads(b, st, c) == ReadAs(b, st, PlannedSchema(b, st, c, c))

(* st holds w and nothing else. *)
Holds(b, st, w) ==
    /\ b \in FileBackend => st.text = Text(w)
    /\ b \in SqlBackend =>
         st.rows = Rows(w) /\ st.keyTab = IF w.schema = 2 THEN KeyRows(w) ELSE NoTable
    /\ b = "mongodb" =>
         /\ DOMAIN st.docs = DOMAIN w.users
         /\ \A u \in DOMAIN w.users : st.docs[u] = Document(w.schema, w.users[u])

LEMMA StoredForm ==
    ASSUME NEW w, Good(w)
    PROVE  /\ Stored(w).schema = w.schema
           /\ Stored(w).users = [u \in DOMAIN w.users |-> FromMapping(w.schema, ToMapping(w.schema, w.users[u]))]
           /\ Stored(w) = [schema |-> Stored(w).schema, users |-> Stored(w).users]
<1>1. w = [schema |-> w.schema, users |-> w.users]
  BY ContentForm DEF Good
<1>. QED  BY <1>1 DEF Stored

LEMMA MappingTwice ==
    ASSUME NEW rec \in SFTPUser, NEW s \in {1, 2}
    PROVE  LET once == FromMapping(s, ToMapping(s, rec))
           IN  once \in SFTPUser /\ FromMapping(s, ToMapping(s, once)) = once
                 /\ (s = 2 => once = rec)
<1>. DEFINE once == FromMapping(s, ToMapping(s, rec))
<1>1. s <= s
  OBVIOUS
<1>2. once \in SFTPUser /\ (s = 2 => once = rec)
  BY <1>1, WrittenAndRead
<1>3. CASE s = 2
  BY <1>2, <1>3
<1>4. CASE s = 1
  <2>1. once = V1User(V1Mapping(rec)) /\ V1Mapping(rec) \in Row
    BY <1>4, RowsAreWritten DEF FromMapping, ToMapping
  <2>2. /\ V1Mapping(rec) = [password |-> rec.password, disabled |-> rec.disabled,
                             public_keys |-> PublicKeys(rec)]
        /\ once.password = rec.password /\ once.disabled = rec.disabled
        /\ PublicKeys(once) = PublicKeys(rec)
    BY <2>1, RowsAreRead, RowsAreWritten DEF V1Mapping
  <2>. HIDE DEF once
  <2>3. V1Mapping(once) = V1Mapping(rec)
    BY <2>2 DEF V1Mapping
  <2>4. FromMapping(s, ToMapping(s, once)) = V1User(V1Mapping(once))
    BY <1>4 DEF FromMapping, ToMapping
  <2>5. FromMapping(s, ToMapping(s, once)) = once
    BY <2>1, <2>3, <2>4
  <2>. QED  BY <1>2, <1>4, <2>5 DEF once
<1>. QED  BY <1>2, <1>3, <1>4

(* What was written is written as it is read. *)
LEMMA StoredTwice ==
    ASSUME NEW w, Good(w)
    PROVE  /\ Good(Stored(w)) /\ Stored(w).schema = w.schema
           /\ DOMAIN Stored(w).users = DOMAIN w.users
           /\ Stored(Stored(w)) = Stored(w)
           /\ w.schema = 2 => Stored(w) = w
<1>. DEFINE v == Stored(w)
<1>1. Good(v) /\ DOMAIN v.users = DOMAIN w.users /\ v.schema = w.schema /\ w.schema \in {1, 2}
  BY GoodContent, StoredForm
<1>2. /\ v.users = [u \in DOMAIN w.users |-> FromMapping(w.schema, ToMapping(w.schema, w.users[u]))]
      /\ v = [schema |-> w.schema, users |-> v.users]
  BY StoredForm
<1>3. \A u \in DOMAIN w.users : w.users[u] \in SFTPUser
  BY ContentForm, UsersForm DEF Good
<1>. HIDE DEF v
<1>4. /\ Stored(v).users = [u \in DOMAIN v.users |-> FromMapping(v.schema, ToMapping(v.schema, v.users[u]))]
      /\ Stored(v) = [schema |-> v.schema, users |-> Stored(v).users]
  BY <1>1, StoredForm
<1>5. \A u \in DOMAIN w.users :
         /\ FromMapping(v.schema, ToMapping(v.schema, v.users[u])) = v.users[u]
         /\ w.schema = 2 => v.users[u] = w.users[u]
  BY <1>1, <1>2, <1>3, MappingTwice
<1>6. Stored(v).users = v.users
  BY <1>1, <1>2, <1>4, <1>5
<1>7. ASSUME w.schema = 2 PROVE v = w
  <2>1. w = [schema |-> w.schema, users |-> w.users] /\ w.users \in [DOMAIN w.users -> SFTPUser]
    BY ContentForm, UsersForm DEF Good
  <2>2. v.users = w.users
    BY <1>2, <1>5, <1>7, <2>1
  <2>. QED  BY <1>2, <2>1, <2>2
<1>. QED  BY <1>1, <1>2, <1>4, <1>6, <1>7 DEF v

LEMMA SameUsers ==
    ASSUME NEW c, Good(c), NEW w, Good(w), DOMAIN c.users = DOMAIN w.users,
           \A u \in DOMAIN w.users : c.users[u] = w.users[u]
    PROVE  c.users = w.users
<1>1. c.users \in [DOMAIN c.users -> SFTPUser] /\ w.users \in [DOMAIN w.users -> SFTPUser]
  BY ContentForm, UsersForm DEF Good
<1>. QED  BY <1>1

(* A store that holds w reads as w. *)
LEMMA HeldIsRead ==
    ASSUME NEW w, Good(w), Stored(w) = w, NEW b \in Backend, NEW st, GoodStore(st), Holds(b, st, w),
           NEW c \in {1, 2}, b \in SqlBackend => c = w.schema
    PROVE  /\ Good(Reads(b, st, c)) /\ Reads(b, st, c).users = w.users
           /\ c = w.schema => Reads(b, st, c).schema = c
<1>. DEFINE s == PlannedSchema(b, st, c, c)
            read == Reads(b, st, c)
<1>1. w.schema \in {1, 2} /\ DOMAIN w.users \in SUBSET User
      /\ \A u \in DOMAIN w.users : w.users[u] \in SFTPUser /\ Valid(w.users[u])
  BY GoodContent, ContentForm, UsersForm DEF Good, AllValid
<1>2. \A u \in DOMAIN w.users : FromMapping(w.schema, ToMapping(w.schema, w.users[u])) = w.users[u]
  <2>1. w.users = [u \in DOMAIN w.users |-> FromMapping(w.schema, ToMapping(w.schema, w.users[u]))]
    BY StoredForm
  <2>. QED  BY <2>1
<1>3. CASE b \in FileBackend
  <2>1. read = FromText(st.text) /\ st.text = Text(w)
    BY <1>3 DEF Reads, ReadAs, Holds, FileBackend, SqlBackend
  <2>2. read = w
    BY <2>1, TextIsGood
  <2>. QED  BY <2>2
<1>4. CASE b \in SqlBackend
  <2>1. st.rows = Rows(w) /\ st.keyTab = (IF c = 2 THEN KeyRows(w) ELSE NoTable) /\ c = w.schema
    BY <1>4 DEF Holds
  <2>2. /\ KeyRows(w) \in KeyTable /\ KeyRows(w) # NoTable
        /\ \A u \in DOMAIN w.users : KeyRows(w)[u] = w.users[u].keys
        /\ IsRows(Rows(w)) /\ DOMAIN Rows(w) = DOMAIN w.users
        /\ \A u \in DOMAIN w.users :
             /\ Rows(w)[u].password = w.users[u].password
             /\ Rows(w)[u].disabled = w.users[u].disabled
             /\ Rows(w)[u] = V1Mapping(w.users[u])
    BY KeyRowsOfContent, RowsOfContent DEF GoodRows, Rows, UserRow
  <2>3. s = c
    BY <1>4, <2>1, <2>2 DEF PlannedSchema, TableExists, UsesKeyTable, Schema
  <2>4. read = FromRows(st.rows, st.keyTab, s)
    BY <1>4 DEF Reads, ReadAs, FileBackend, SqlBackend
  <2>5. \A u \in DOMAIN w.users : UserOf(st.rows, st.keyTab, c, u) = w.users[u]
    <3>1. SUFFICES ASSUME NEW u \in DOMAIN w.users PROVE UserOf(st.rows, st.keyTab, c, u) = w.users[u]
      OBVIOUS
    <3>2. CASE c = 2
      <4>1. w.users[u] = [password |-> w.users[u].password, disabled |-> w.users[u].disabled,
                          keys |-> w.users[u].keys]
        BY <1>1, RecordForm
      <4>. QED  BY <2>1, <2>2, <3>2, <4>1 DEF UserOf
    <3>3. CASE c = 1
      <4>1. UserOf(st.rows, st.keyTab, c, u) = V1User(V1Mapping(w.users[u]))
        BY <2>1, <2>2, <3>3 DEF UserOf
      <4>2. V1User(V1Mapping(w.users[u])) = w.users[u]
        BY <1>2, <2>1, <3>3 DEF FromMapping, ToMapping
      <4>. QED  BY <4>1, <4>2
    <3>. QED  BY <3>2, <3>3
  <2>. HIDE DEF s, read
  <2>6. read # Rejected
    BY <1>1, <2>1, <2>2, <2>3, <2>4, <2>5, RowsRead
  <2>7. /\ Good(read) /\ read.schema = c /\ DOMAIN read.users = DOMAIN w.users
        /\ \A u \in DOMAIN w.users : read.users[u] = w.users[u]
    BY <2>1, <2>2, <2>3, <2>4, <2>5, <2>6, RowsRead
  <2>. QED  BY <2>7, SameUsers DEF read
<1>5. CASE b = "mongodb"
  <2>1. read = FromDocs(st.docs, c)
    BY <1>5 DEF Reads, ReadAs, PlannedSchema, FileBackend, SqlBackend
  <2>2. /\ DOMAIN st.docs = DOMAIN w.users /\ GoodDocs(st.docs)
        /\ \A u \in DOMAIN w.users :
             st.docs[u].schema = w.schema /\ st.docs[u].user = ToMapping(w.schema, w.users[u])
    <3>1. \A u \in DOMAIN w.users : st.docs[u] = Document(w.schema, w.users[u])
      BY <1>5 DEF Holds
    <3>2. DOMAIN st.docs = DOMAIN w.users /\ GoodDocs(st.docs)
      BY <1>5 DEF Holds, GoodStore
    <3>3. \A u \in DOMAIN w.users :
            /\ Document(w.schema, w.users[u]).schema = w.schema
            /\ Document(w.schema, w.users[u]).user = ToMapping(w.schema, w.users[u])
      BY DEF Document
    <3>. QED  BY <3>1, <3>2, <3>3
  <2>. HIDE DEF read, s
  <2>3. /\ Good(read) /\ DOMAIN read.users = DOMAIN w.users
        /\ \A u \in DOMAIN w.users : read.users[u] = V2User(ToMapping(w.schema, w.users[u]))
    BY <2>1, <2>2, DocsRead
  <2>4. \A u \in DOMAIN w.users :
           V2User(ToMapping(w.schema, w.users[u])) = FromMapping(w.schema, ToMapping(w.schema, w.users[u]))
    <3>1. w.schema <= w.schema
      BY <1>1
    <3>. QED  BY <1>1, <3>1, WrittenAndRead
  <2>5. read.users = w.users
    BY <1>2, <2>3, <2>4, SameUsers
  <2>6. ASSUME c = w.schema PROVE read.schema = c
    <3>1. read.schema = DocsSchema(st.docs, c)
      BY <2>1 DEF FromDocs
    <3>2. CASE DOMAIN st.docs = {}
      BY <3>1, <3>2 DEF DocsSchema
    <3>3. CASE DOMAIN st.docs # {} /\ c = 2
      BY <2>2, <2>6, <3>1, <3>3 DEF DocsSchema
    <3>4. CASE DOMAIN st.docs # {} /\ c = 1
      <4>1. \A u \in DOMAIN st.docs : st.docs[u].schema = 1 /\ st.docs[u].user \in Row
        BY <1>1, <2>2, <2>6, <3>4, RowsAreWritten DEF ToMapping
      <4>2. \A u \in DOMAIN st.docs : "keys" \notin DOMAIN st.docs[u].user
        BY <4>1, RowForm
      <4>3. ~DetectsV2([u \in DOMAIN st.docs |-> st.docs[u].user])
        BY <4>2 DEF DetectsV2
      <4>. QED  BY <3>1, <3>4, <4>1, <4>3 DEF DocsSchema
    <3>. QED  BY <3>2, <3>3, <3>4
  <2>. QED  BY <2>3, <2>5, <2>6 DEF read
<1>. QED  BY <1>3, <1>4, <1>5 DEF Backend

(* What has been read as the configuration says is what it stands for. *)
LEMMA ReadIsContent ==
    ASSUME NEW b \in Backend, NEW st, NEW c \in {1, 2}, ReadAs(b, st, c) # Rejected
    PROVE  Reads(b, st, c) = ReadAs(b, st, c)
<1>1. CASE b \notin SqlBackend
  BY <1>1 DEF Reads, PlannedSchema
<1>2. CASE b \in SqlBackend
  <2>1. ReadAs(b, st, c) = FromRows(st.rows, st.keyTab, c)
    BY <1>2 DEF ReadAs, SqlBackend, FileBackend
  <2>2. c = 2 => st.keyTab # NoTable
    BY <2>1 DEF FromRows, UsesKeyTable
  <2>3. PlannedSchema(b, st, c, c) = c
    BY <2>2 DEF PlannedSchema, TableExists, UsesKeyTable
  <2>. QED  BY <2>3 DEF Reads
<1>. QED  BY <1>1, <1>2

(* A reconciliation that finds its schema has found what the configuration *)
(* will stand for, whatever it was before.                                 *)
LEMMA TargetIsRead ==
    ASSUME NEW b \in Backend, NEW st, GoodStore(st), NEW v \in {1, 2}, NEW t \in {1, 2},
           NEW read, read = ReadAs(b, st, PlannedSchema(b, st, v, t)), Good(read), read.schema = t
    PROVE  Reads(b, st, t).schema = t
<1>1. CASE v = t
  BY <1>1 DEF Reads
<1>2. CASE b \in FileBackend
  BY <1>2 DEF Reads, ReadAs, FileBackend, SqlBackend
<1>3. CASE v # t /\ b \in SqlBackend
  <2>. DEFINE s == PlannedSchema(b, st, v, t)
  <2>1. s # t /\ s \in {1, 2}
    BY <1>3 DEF PlannedSchema, Schema
  <2>. HIDE DEF s
  <2>2. read = FromRows(st.rows, st.keyTab, s) /\ read # Rejected
    BY <1>3, ContentIsNotRejected DEF s, ReadAs, SqlBackend, FileBackend, Good
  <2>3. read.schema = s
    BY <2>2 DEF FromRows
  <2>. QED  BY <2>1, <2>3
<1>4. CASE v # t /\ b = "mongodb"
  <2>1. read = FromDocs(st.docs, v) /\ Reads(b, st, t) = FromDocs(st.docs, t)
    BY <1>4 DEF Reads, ReadAs, PlannedSchema, FileBackend, SqlBackend
  <2>2. DocsSchema(st.docs, v) = t /\ Reads(b, st, t).schema = DocsSchema(st.docs, t)
    BY <2>1 DEF FromDocs
  <2>3. DOMAIN st.docs # {}
    BY <1>4, <2>2 DEF DocsSchema
  <2>. QED  BY <2>2, <2>3 DEF DocsSchema
<1>. QED  BY <1>1, <1>2, <1>3, <1>4 DEF Backend

(* The schema me reads as; SchemaRead, for any store *)
SchemaFor(me, b, st) ==
    IF me.pc \in {"plan", "replan"}
    THEN PlannedSchema(b, st, IF me.req.op = "migrate" THEN me.view ELSE me.req.to, me.req.to)
    ELSE me.view

SetSchema == "set schema"

LEMMA Reconciliations ==
    /\ Reconciling = Migrating \cup {SetSchema} /\ SetSchema \notin Migrating
    /\ \A op : op \in Migrating <=> op = "migrate" \/ op = "deploy"
    /\ "remove" \notin Reconciling /\ "list" \notin Reconciling /\ "list" # "remove"
    /\ \A op \in Transfer : op \notin Reconciling /\ op # "remove"
BY Zenon DEF Reconciling, Migrating, SetSchema, Transfer

LEMMA RequestedSchema ==
    ASSUME NEW r, IsRequest(r)
    PROVE  r.to \in {1, 2}
BY RequestForm

SchemaOf(b, st, c) == Reads(b, st, c).schema
UsersOf(b, st, c) == Reads(b, st, c).users

(* What me says it has done is so. *)
Reached(me, b, st, c) ==
    /\ me.req.op = SetSchema => c = me.req.to
    /\ me.req.op \in Migrating => c = me.req.to /\ SchemaOf(b, st, c) = c
    /\ me.req.op = "remove" => me.req.user \notin DOMAIN UsersOf(b, st, c)
    /\ me.req.op \notin Reconciling \cup {"remove"} => UsersOf(b, st, c) = me.want.users

(* What is going to be written for r is what r says. *)
Sound(r, w) ==
    /\ Stored(w) = w
    /\ r.op # SetSchema
    /\ r.op \in Migrating => w.schema = r.to
    /\ r.op = "remove" => r.user \notin DOMAIN w.users

(* How far the one command that runs has come, on a provider configured    *)
(* with schema c                                                           *)
Stands(me, b, st, c) ==
    /\ Running(me) => me.view = c
    /\ me.look = 2 => me.rows = st.rows /\ SchemaFor(me, b, st) = 2
    /\ me.pc \in Writers => Sound(me.req, me.want)
    /\ me.pc \in {"backup", "write"} /\ b = "mongodb" =>
         \A u \in DOMAIN me.want.users \ me.todo :
             u \in DOMAIN st.docs /\ st.docs[u] = Document(me.want.schema, me.want.users[u])
    /\ me.pc = "config" =>
         \/ me.req.op = SetSchema
         \/ me.req.op = "migrate" /\ SchemaOf(b, st, me.req.to) = me.req.to
    /\ me.pc = "done" /\ ~me.req.dry => Reached(me, b, st, c)

Latest(me, n) == me.pc \notin {"idle", "failed"} /\ me.turn = n

(* One command at a time, the latest *)
Alone ==
    /\ \A p \in Proc : Running(proc[p]) => Latest(proc[p], commands)
    /\ \A p, q \in Proc : Latest(proc[p], commands) /\ Latest(proc[q], commands) => p = q
    /\ \A p \in Proc : Latest(proc[p], commands) => Stands(proc[p], backend, store, cfg)

Lone == mishap = {} => Alone

LEMMA EndStands ==
    ASSUME NEW b, NEW st, NEW c, NEW me, me \in ProcessType
    PROVE  /\ Stands(Failed, b, st, c) /\ Failed.pc = "failed"
           /\ me.req.dry \/ Reached(me, b, st, c) => Stands(Done(me), b, st, c)
           /\ Done(me).turn = me.turn
<1>1. /\ Failed.pc = "failed" /\ Failed.look = 1
      /\ Done(me).pc = "done" /\ Done(me).look = 1 /\ Done(me).req = me.req
      /\ Done(me).want = me.want /\ Done(me).turn = me.turn
  BY AtEnd
<1>2. Stands(Failed, b, st, c)
  <2>. DEFINE f == Failed
  <2>1. f.pc = "failed" /\ f.look = 1
    BY <1>1
  <2>. HIDE DEF f
  <2>2. Stands(f, b, st, c)
    BY <2>1 DEF Stands, Running, Ends, Writers
  <2>. QED  BY <2>2 DEF f
<1>3. ASSUME me.req.dry \/ Reached(me, b, st, c) PROVE Stands(Done(me), b, st, c)
  <2>. DEFINE d == Done(me)
  <2>1. d.pc = "done" /\ d.look = 1 /\ d.req = me.req /\ d.want = me.want
    BY <1>1
  <2>. HIDE DEF d
  <2>2. d.req.dry \/ Reached(d, b, st, c)
    BY <1>3, <2>1 DEF Reached
  <2>3. Stands(d, b, st, c)
    BY <2>1, <2>2 DEF Stands, Running, Ends, Writers
  <2>. QED  BY <2>3 DEF d
<1>. QED  BY <1>1, <1>2, <1>3

(* Once the data is in the schema that was asked for *)
LEMMA AfterDataStands ==
    ASSUME NEW b, NEW st, NEW c, NEW me, me \in ProcessType, me.look = 1, me.view = c,
           me.req.op \in Migrating, me.req.op = "deploy" => me.req.to = me.view,
           SchemaOf(b, st, me.req.to) = me.req.to
    PROVE  Stands(AfterData(me), b, st, c) /\ AfterData(me).turn = me.turn
<1>1. CASE me.req.op = "migrate" /\ me.view # me.req.to
  <2>. DEFINE m == Moved(me, "config")
  <2>1. AfterData(me) = m
    BY <1>1 DEF AfterData, Moved
  <2>2. /\ m.pc = "config" /\ m.req = me.req /\ m.turn = me.turn /\ m.look = 1 /\ m.view = c
    BY PlaceFields DEF Places
  <2>. HIDE DEF m
  <2>3. Stands(m, b, st, c)
    BY <1>1, <2>2 DEF Stands, Writers
  <2>. QED  BY <2>1, <2>2, <2>3
<1>2. CASE ~ (me.req.op = "migrate" /\ me.view # me.req.to)
  <2>1. AfterData(me) = Done(me)
    BY <1>2 DEF AfterData
  <2>2. c = me.req.to
    BY <1>2, Reconciliations
  <2>3. Reached(me, b, st, c)
    BY <2>2, Reconciliations DEF Reached
  <2>. QED  BY <2>1, <2>3, EndStands
<1>. QED  BY <1>1, <1>2

(* A process that goes on to read again *)
LEMMA MovedStands ==
    ASSUME NEW b, NEW st, NEW c, NEW me, me \in ProcessType, me.look = 1, me.view = c,
           NEW place \in {"read", "replan", "config"},
           place = "config" =>
             \/ me.req.op = SetSchema
             \/ me.req.op = "migrate" /\ SchemaOf(b, st, me.req.to) = me.req.to
    PROVE  Stands(Moved(me, place), b, st, c) /\ Moved(me, place).turn = me.turn
<1>. DEFINE m == Moved(me, place)
<1>1. place \in Places
  BY DEF Places, Reading
<1>2. m.pc = place /\ m.req = me.req /\ m.turn = me.turn /\ m.look = 1 /\ m.view = c
  BY <1>1, PlaceFields
<1>. HIDE DEF m
<1>3. Stands(m, b, st, c)
  BY <1>2 DEF Stands, Writers
<1>. QED  BY <1>2, <1>3 DEF m

(* A process that is going to write *)
LEMMA WritingStands ==
    ASSUME NEW b, NEW st, NEW c, NEW me, me \in ProcessType, me.look = 1, me.view = c,
           NEW place \in {"write", "backup"}, NEW h \in Contents, NEW w, Good(w),
           Sound(me.req, w), NEW m, m = Writing(me, place, h, w, DOMAIN w.users)
    PROVE  Stands(m, b, st, c) /\ m.turn = me.turn
<1>1. place \in Places /\ w \in Contents /\ DOMAIN w.users \in SUBSET User
  BY GoodContent DEF Places
<1>2. /\ m.pc = place /\ m.req = me.req /\ m.turn = me.turn /\ m.look = 1 /\ m.view = c
      /\ m.want = w /\ m.todo = DOMAIN w.users
  BY <1>1, WriteFields
<1>3. Stands(m, b, st, c)
  BY <1>2 DEF Stands, Writers
<1>. QED  BY <1>2, <1>3

(* What a request of one user or of a transfer is going to write *)
LEMMA ResultIsSound ==
    ASSUME NEW c, Good(c), NEW r, IsRequest(r), ~r.dry, r.op \notin Reconciling,
           Apply(r, c) # Rejected
    PROVE  LET w == Stored(Apply(r, c))
           IN  Good(w) /\ Sound(r, w) /\ DOMAIN Apply(r, c).users = DOMAIN w.users
<1>. DEFINE a == Apply(r, c)
            w == Stored(a)
<1>1. Good(a)
  BY ResultIsGood
<1>2. Good(w) /\ Stored(w) = w /\ DOMAIN w.users = DOMAIN a.users
  <2>. HIDE DEF a
  <2>. QED  BY <1>1, StoredTwice
<1>3. r.op # SetSchema /\ r.op \notin Migrating
  BY Reconciliations
<1>4. ASSUME r.op = "remove" PROVE r.user \notin DOMAIN a.users
  <2>1. a = RemoveUser(c, r.user)
    BY <1>4 DEF Apply
  <2>2. a = [c EXCEPT !.users = [v \in DOMAIN c.users \ {r.user} |-> c.users[v]]]
    BY <2>1 DEF RemoveUser
  <2>3. c = [schema |-> c.schema, users |-> c.users]
    BY ContentForm DEF Good
  <2>. HIDE DEF a
  <2>4. a.users = [v \in DOMAIN c.users \ {r.user} |-> c.users[v]]
    BY <2>2, <2>3
  <2>. QED  BY <2>4
<1>. HIDE DEF a
<1>5. Sound(r, w)
  BY <1>2, <1>3, <1>4 DEF Sound
<1>. QED  BY <1>2, <1>5 DEF a

(* read, by the one command there is *)
ReadNow(me, b, st, c, read) ==
    /\ me.look = 1 /\ me.view = c /\ c \in {1, 2} /\ GoodStore(st) /\ b \in Backend
    /\ read = ReadAs(b, st, SchemaFor(me, b, st)) /\ Good(read)

LEMMA TakenStands ==
    ASSUME NEW b, NEW T, NEW n, NEW me, Invocation(me, b, T, n), me.pc = "read",
           NEW st, NEW c, NEW read, ReadNow(me, b, st, c, read)
    PROVE  LET next == Taken(me, read)
           IN  Stands(next, b, st, c) /\ (next.pc = "failed" \/ next.turn = me.turn)
<1>. DEFINE next == Taken(me, read)
            a == Apply(me.req, read)
<1>1. me \in ProcessType /\ IsRequest(me.req) /\ me.req.op \notin Reconciling
  BY DEF Invocation, RightPlace
<1>2. Good(read) /\ read # Rejected /\ me.look = 1 /\ me.view = c /\ c \in {1, 2} /\ read \in Contents
  BY ContentIsNotRejected, GoodContent DEF ReadNow, Good
<1>3. UsersOf(b, st, c) = read.users
  <2>1. read = ReadAs(b, st, c)
    BY DEF ReadNow, SchemaFor
  <2>2. Reads(b, st, c) = ReadAs(b, st, c)
    BY <1>2, <2>1, ReadIsContent DEF ReadNow
  <2>. QED  BY <2>1, <2>2 DEF UsersOf
<1>4. CASE a = Rejected
  BY <1>1, <1>4, EndStands DEF Taken
<1>5. CASE /\ a # Rejected
           /\ me.req.op = "list" \/ me.req.dry \/ (me.req.op \in Transfer /\ a = read)
  <2>. DEFINE m == [me EXCEPT !.want = read]
  <2>1. next = Done(m)
    BY <1>5 DEF Taken
  <2>2. m \in ProcessType /\ m.req = me.req /\ m.want = read /\ m.turn = me.turn
    BY <1>1, <1>2 DEF ProcessType
  <2>. HIDE DEF m
  <2>3. m.req.dry \/ Reached(m, b, st, c)
    BY <1>1, <1>3, <1>5, <2>2, Reconciliations DEF Reached
  <2>. QED  BY <2>1, <2>2, <2>3, EndStands
<1>6. CASE /\ a # Rejected
           /\ ~ (me.req.op = "list" \/ me.req.dry \/ (me.req.op \in Transfer /\ a = read))
  <2>1. next = Writing(me, "write", read, Stored(a), DOMAIN a.users)
    BY <1>6, TakenResult
  <2>2. Good(Stored(a)) /\ Sound(me.req, Stored(a)) /\ DOMAIN a.users = DOMAIN Stored(a).users
    BY <1>1, <1>2, <1>6, ResultIsSound
  <2>. DEFINE w == Stored(a)
  <2>. HIDE DEF a, next
  <2>3. next = Writing(me, "write", read, w, DOMAIN w.users)
    BY <2>1, <2>2
  <2>. HIDE DEF w
  <2>4. Good(w) /\ Sound(me.req, w)
    BY <2>2 DEF w
  <2>5. me \in ProcessType /\ me.look = 1 /\ me.view = c /\ read \in Contents
    BY <1>1, <1>2
  <2>6. Stands(next, b, st, c)
    BY <2>3, <2>4, <2>5, WritingStands
  <2>7. next.turn = me.turn
    BY <2>3, <2>4, <2>5, WritingStands
  <2>. QED  BY <2>6, <2>7 DEF next
<1>. QED  BY <1>4, <1>5, <1>6

LEMMA PlannedStands ==
    ASSUME NEW b, NEW T, NEW n, NEW me, Invocation(me, b, T, n), me.pc = "plan",
           NEW st, NEW c, NEW read, ReadNow(me, b, st, c, read), NEW next \in Planned(me, read)
    PROVE  Stands(next, b, st, c) /\ (next.pc = "failed" \/ next.turn = me.turn)
<1>1. /\ me \in ProcessType /\ IsRequest(me.req) /\ me.req.op \in Reconciling
      /\ me.req.op = "deploy" => me.req.to = me.view
  BY DEF Invocation, RightPlace, Running, Ends
<1>2. me.look = 1 /\ me.view = c /\ c \in {1, 2} /\ b \in Backend /\ GoodStore(st) /\ Good(read)
  BY DEF ReadNow
<1>3. \/ next = Failed
      \/ me.req.dry /\ next = Done(me)
      \/ me.req.op = "deploy" /\ read.schema = me.req.to /\ next = Done(me)
      \/ next = Moved(me, "replan")
      \/ me.req.op = SetSchema /\ next = Moved(me, "config")
  <2>1. read.schema > me.req.to => next = Failed
    BY DEF Planned
  <2>2. CASE ~ (read.schema > me.req.to) /\ me.req.op = "migrate"
    <3>1. next \in PlannedMigration(me, read)
      BY <2>2 DEF Planned
    <3>. QED  BY <3>1 DEF PlannedMigration, Moved
  <2>3. CASE ~ (read.schema > me.req.to) /\ me.req.op = "deploy"
    <3>1. next \in PlannedDeploy(me, read)
      BY <2>3 DEF Planned
    <3>. QED  BY <2>3, <3>1 DEF PlannedDeploy, Moved
  <2>4. CASE ~ (read.schema > me.req.to) /\ me.req.op = SetSchema
    <3>1. next \in PlannedConfig(me, read)
      BY <2>4, Zenon DEF Planned, SetSchema
    <3>. QED  BY <2>4, <3>1 DEF PlannedConfig, Moved
  <2>. QED  BY <1>1, <2>1, <2>2, <2>3, <2>4, Reconciliations
<1>4. CASE next = Failed \/ (me.req.dry /\ next = Done(me))
  BY <1>1, <1>4, EndStands
<1>5. CASE me.req.op = "deploy" /\ read.schema = me.req.to /\ next = Done(me)
  <2>1. me.req.to \in {1, 2} /\ c = me.req.to
    <3>1. me.req.to \in {1, 2}
      BY <1>1, RequestedSchema
    <3>. QED  BY <1>1, <1>2, <1>5, <3>1
  <2>2. read = ReadAs(b, st, PlannedSchema(b, st, me.req.to, me.req.to))
    BY <1>5 DEF ReadNow, SchemaFor
  <2>3. SchemaOf(b, st, c) = c
    BY <1>2, <1>5, <2>1, <2>2, TargetIsRead DEF SchemaOf
  <2>4. Reached(me, b, st, c)
    BY <1>5, <2>1, <2>3, Reconciliations DEF Reached
  <2>. QED  BY <1>1, <1>5, <2>4, EndStands
<1>6. CASE next = Moved(me, "replan") \/ (me.req.op = SetSchema /\ next = Moved(me, "config"))
  BY <1>1, <1>2, <1>6, MovedStands
<1>. QED  BY <1>3, <1>4, <1>5, <1>6

LEMMA ReplannedStands ==
    ASSUME NEW b, NEW T, NEW n, NEW me, Invocation(me, b, T, n), me.pc = "replan",
           NEW st, NEW c, NEW read, ReadNow(me, b, st, c, read)
    PROVE  LET next == Replanned(me, read)
           IN  Stands(next, b, st, c) /\ (next.pc = "failed" \/ next.turn = me.turn)
<1>. DEFINE res == Replanned(me, read)
            to == me.req.to
<1>1. /\ me \in ProcessType /\ IsRequest(me.req) /\ me.req.op \in Migrating
      /\ me.req.op = "deploy" => to = me.view
      /\ to \in {1, 2} /\ me.view \in {1, 2}
  <2>1. me \in ProcessType /\ IsRequest(me.req) /\ RightPlace(me, b)
    BY DEF Invocation
  <2>2. me.req.op \in Migrating /\ (me.req.op = "deploy" => to = me.view)
    BY <2>1 DEF RightPlace, Running, Ends
  <2>3. me.view \in {1, 2}
    BY DEF ReadNow
  <2>4. to \in {1, 2}
    BY <2>1, RequestedSchema
  <2>. QED  BY <2>1, <2>2, <2>3, <2>4
<1>2. /\ me.look = 1 /\ me.view = c /\ c \in {1, 2} /\ b \in Backend /\ GoodStore(st) /\ Good(read)
      /\ read.schema \in {1, 2} /\ read \in Contents
  BY GoodContent DEF ReadNow
<1>3. CASE read.schema > to
  BY <1>1, <1>3, ReplannedResult, EndStands
<1>4. CASE read.schema = to
  <2>1. res = AfterData(me)
    BY <1>1, <1>4, ReplannedResult
  <2>. DEFINE v == IF me.req.op = "migrate" THEN me.view ELSE to
  <2>2. v \in {1, 2} /\ read = ReadAs(b, st, PlannedSchema(b, st, v, to))
    BY <1>1 DEF ReadNow, SchemaFor
  <2>. HIDE DEF v
  <2>3. SchemaOf(b, st, to) = to
    BY <1>1, <1>2, <1>4, <2>2, TargetIsRead DEF SchemaOf
  <2>4. Stands(AfterData(me), b, st, c) /\ AfterData(me).turn = me.turn
    BY <1>1, <1>2, <2>3, AfterDataStands
  <2>. QED  BY <2>1, <2>4
<1>5. CASE read.schema < to
  <2>. DEFINE w == MigrateTo(read, to)
              place == IF me.req.backup THEN "backup" ELSE "write"
  <2>1. Good(w) /\ w.schema = to /\ w.schema = 2 /\ DOMAIN w.users = DOMAIN read.users
    BY <1>1, <1>2, <1>5, GoodContent
  <2>2. res = Writing(me, place, read, w, DOMAIN read.users)
    BY <1>1, <1>2, <1>5, ReplannedResult
  <2>3. place \in {"write", "backup"}
    OBVIOUS
  <2>. HIDE DEF w, place, res
  <2>4. Stored(w) = w
    BY <2>1, StoredTwice
  <2>5. Sound(me.req, w)
    BY <1>1, <2>1, <2>4, Reconciliations DEF Sound
  <2>6. res = Writing(me, place, read, w, DOMAIN w.users)
    BY <2>1, <2>2
  <2>7. me \in ProcessType /\ me.look = 1 /\ me.view = c /\ read \in Contents /\ Good(w)
    BY <1>1, <1>2, <2>1
  <2>8. Stands(res, b, st, c)
    BY <2>3, <2>5, <2>6, <2>7, WritingStands
  <2>9. res.turn = me.turn
    BY <2>3, <2>5, <2>6, <2>7, WritingStands
  <2>. QED  BY <2>8, <2>9 DEF res
<1>. QED  BY <1>1, <1>2, <1>3, <1>4, <1>5

(* Whatever the one command there is makes of what it reads *)
LEMMA ReadStands ==
    ASSUME NEW b, NEW T, NEW n, NEW me, Invocation(me, b, T, n), me.pc \in Reading,
           NEW st, NEW c, NEW read, read = Rejected \/ ReadNow(me, b, st, c, read),
           NEW next \in After(me, read)
    PROVE  Stands(next, b, st, c) /\ (next.pc = "failed" \/ next.turn = me.turn)
<1>1. me \in ProcessType
  BY DEF Invocation
<1>2. CASE read = Rejected
  <2>1. next = Failed
    BY <1>2 DEF After
  <2>. QED  BY <1>1, <2>1, EndStands
<1>3. CASE read # Rejected /\ me.pc = "confirm"
  <2>1. next = Moved(me, "read") \/ next = Failed
    BY <1>3 DEF After, Confirmed, Moved
  <2>2. me.look = 1 /\ me.view = c
    BY <1>3 DEF ReadNow
  <2>. QED  BY <1>1, <2>1, <2>2, MovedStands, EndStands
<1>4. CASE read # Rejected /\ me.pc = "read"
  <2>1. next = Taken(me, read)
    BY <1>4 DEF After
  <2>. QED  BY <1>4, <2>1, TakenStands
<1>5. CASE read # Rejected /\ me.pc = "plan"
  <2>1. next \in Planned(me, read)
    BY <1>5 DEF After
  <2>. QED  BY <1>5, <2>1, PlannedStands
<1>6. CASE read # Rejected /\ me.pc = "replan"
  <2>1. next = Replanned(me, read)
    BY <1>6 DEF After
  <2>. QED  BY <1>6, <2>1, ReplannedStands
<1>. QED  BY <1>2, <1>3, <1>4, <1>5, <1>6 DEF Reading

(* A command that has written all it wanted has done what it says. *)
LEMMA WrittenStands ==
    ASSUME NEW b \in Backend, NEW T, NEW n, NEW me, Invocation(me, b, T, n), Running(me),
           me.look = 1, NEW c \in {1, 2}, me.view = c, Sound(me.req, me.want),
           NEW st, GoodStore(st), Holds(b, st, me.want),
           b \in SqlBackend /\ me.req.op # "migrate" => me.want.schema = c
    PROVE  Stands(AfterWrite(me), b, st, c) /\ AfterWrite(me).turn = me.turn
<1>. DEFINE w == me.want
<1>1. /\ me \in ProcessType /\ me.req.to \in {1, 2} /\ Good(w)
      /\ me.req.op = "deploy" => me.req.to = me.view
  BY RequestedSchema DEF Invocation, RightPlace
<1>2. Stored(w) = w /\ me.req.op # SetSchema /\ w.schema \in {1, 2}
  BY <1>1, GoodContent DEF Sound
<1>3. CASE me.req.op \in Migrating
  <2>1. w.schema = me.req.to
    BY <1>3 DEF Sound
  <2>2. SchemaOf(b, st, me.req.to) = me.req.to
    BY <1>1, <1>2, <2>1, HeldIsRead DEF SchemaOf
  <2>3. AfterWrite(me) = AfterData(me)
    BY <1>3 DEF AfterWrite
  <2>. QED  BY <1>1, <1>3, <2>2, <2>3, AfterDataStands
<1>4. CASE me.req.op \notin Migrating
  <2>1. UsersOf(b, st, c) = w.users
    <3>1. b \in SqlBackend => c = w.schema
      BY <1>4, Reconciliations
    <3>. QED  BY <1>1, <1>2, <3>1, HeldIsRead DEF UsersOf
  <2>2. me.req.op = "remove" => me.req.user \notin DOMAIN w.users
    BY DEF Sound
  <2>3. Reached(me, b, st, c)
    BY <1>2, <1>4, <2>1, <2>2 DEF Reached
  <2>4. AfterWrite(me) = Done(me)
    BY <1>4 DEF AfterWrite
  <2>. QED  BY <1>1, <2>3, <2>4, EndStands
<1>. QED  BY <1>3, <1>4

(* A process between two of its operations on the provider *)
LEMMA OnwardStands ==
    ASSUME NEW b, NEW st, NEW c, NEW me, me \in ProcessType, me.look = 1, Running(me),
           Stands(me, b, st, c), NEW place \in {"write", "fill", "commit", "delete"},
           place # "delete" => me.pc \in Writers,
           NEW next, next = Moved(me, place),
           NEW new, place = "write" => me.pc = "backup" /\ new = st
    PROVE  Stands(next, b, new, c) /\ next.turn = me.turn
<1>1. place \in Places
  BY DEF Places
<1>2. /\ next.pc = place /\ next.req = me.req /\ next.turn = me.turn /\ next.look = 1
      /\ next.view = me.view /\ next.want = me.want /\ next.todo = me.todo
  BY <1>1, PlaceFields
<1>3. Running(next) => next.view = c
  BY <1>2 DEF Stands
<1>4. next.pc \in Writers => Sound(next.req, next.want)
  BY <1>2 DEF Stands, Writers
<1>5. next.pc \in {"backup", "write"} /\ b = "mongodb" =>
         \A u \in DOMAIN next.want.users \ next.todo :
             u \in DOMAIN new.docs /\ new.docs[u] = Document(next.want.schema, next.want.users[u])
  <2>1. CASE place = "write"
    BY <1>2, <2>1 DEF Stands
  <2>2. CASE place # "write"
    BY <1>2, <2>2
  <2>. QED  BY <2>1, <2>2
<1>6. Stands(next, b, new, c)
  BY <1>2, <1>3, <1>4, <1>5 DEF Stands
<1>. QED  BY <1>2, <1>6

(* The one command there is makes a step. *)
LEMMA AloneStep ==
    ASSUME Types, Alone, NEW p \in Proc, Running(proc[p]), NEW me, Become(p, me),
           UNCHANGED <<backend, commands>>, me.pc = "failed" \/ me.turn = proc[p].turn,
           Stands(me, backend, store', cfg')
    PROVE  Alone'
<1>1. \A q \in Proc : proc'[q] = IF q = p THEN me ELSE proc[q]
  BY DEF Types, Become
<1>2. Latest(proc[p], commands)
  BY DEF Alone
<1>3. \A q \in Proc : q # p => ~Running(proc[q]) /\ ~Latest(proc[q], commands)
  BY <1>2 DEF Alone
<1>4. Running(me) => Latest(me, commands)
  BY <1>2 DEF Running, Ends, Latest
<1>5. \A q \in Proc : Running(proc'[q]) => Latest(proc'[q], commands')
  BY <1>1, <1>3, <1>4
<1>6. \A q, r \in Proc : Latest(proc'[q], commands') /\ Latest(proc'[r], commands') => q = r
  BY <1>1, <1>3
<1>7. \A q \in Proc : Latest(proc'[q], commands') => Stands(proc'[q], backend', store', cfg')
  BY <1>1, <1>3
<1>. QED  BY <1>5, <1>6, <1>7 DEF Alone

LEMMA AloneFacts ==
    ASSUME Types, Alone, NEW p \in Proc, Running(proc[p])
    PROVE  /\ Stands(proc[p], backend, store, cfg) /\ proc[p].view = cfg
           /\ proc[p].turn = commands /\ \A q \in Proc : q # p => ~Running(proc[q])
           /\ proc[p].pc \in Writers => Sound(proc[p].req, proc[p].want)
BY DEF Alone, Latest, Stands

LEMMA FailureAlone ==
    ASSUME Types, Alone, NEW p \in Proc, Running(proc[p]), Become(p, Failed),
           UNCHANGED <<backend, commands>>
    PROVE  Alone'
<1>1. proc[p] \in ProcessType
  BY TypesFacts
<1>2. Stands(Failed, backend, store', cfg') /\ Failed.pc = "failed"
  BY <1>1, EndStands
<1>. QED  BY <1>2, AloneStep
-----------------------------------------------------------------------------
(* Each action of the one command there is *)

LEMMA StartAlone ==
    ASSUME Types, NEW p \in Proc, NEW op, NEW place, Start(p, op, place),
           place \in {"read", "remove", "confirm", "plan"}, mishap' = {}
    PROVE  Alone'
<1>1. PICK r \in Requests : Become(p, Begun(r, place))
  BY DEF Start
<1>. DEFINE me == Begun(r, place)
            req == IF r.op = "deploy" THEN [r EXCEPT !.to = cfg] ELSE r
<1>2. /\ me.pc = place /\ me.view = cfg /\ me.look = 1 /\ me.turn = commands + 1
  <2>. HIDE DEF req
  <2>1. me = [Idle EXCEPT !.req = req, !.view = cfg, !.turn = commands + 1, !.pc = place]
    BY DEF Begun, req
  <2>. QED  BY <2>1, IdleFields DEF ProcessType
<1>3. \A q \in Proc : proc'[q] = IF q = p THEN me ELSE proc[q]
  BY <1>1 DEF Types, Become
<1>. HIDE DEF me
<1>4. /\ commands' = commands + 1 /\ commands \in Nat /\ UNCHANGED <<backend, cfg, store>>
      /\ \A q \in Proc : ~Running(proc[q])
  BY TypesFacts DEF Start
<1>5. \A q \in Proc : proc[q].turn <= commands /\ proc[q].turn \in Nat
  BY TypesFacts DEF Invocation
<1>6. \A q \in Proc : q # p => ~Running(proc'[q]) /\ ~Latest(proc'[q], commands')
  BY <1>3, <1>4, <1>5 DEF Latest
<1>7. Latest(me, commands')
  BY <1>2, <1>4 DEF Latest
<1>8. Stands(me, backend', store', cfg')
  BY <1>2, <1>4 DEF Stands, Writers
<1>. QED  BY <1>3, <1>6, <1>7, <1>8 DEF Alone

LEMMA ReadAlone ==
    ASSUME Types, Alone, NEW p \in Proc, Read(p)
    PROVE  Alone'
<1>. DEFINE me == proc[p]
            read == ReadAs(backend, store, SchemaRead(me))
<1>1. PICK next \in After(me, read) : Become(p, next)
  BY DEF Read
<1>2. me.pc \in Reading /\ me.look = 1 /\ UNCHANGED <<backend, cfg, store, commands>>
  BY DEF Read
<1>3. Running(me)
  BY <1>2 DEF Running, Ends, Reading
<1>4. me.view = cfg /\ cfg \in {1, 2} /\ GoodStore(store) /\ backend \in Backend
      /\ Invocation(me, backend, touched, commands)
  BY <1>3, AloneFacts, TypesFacts
<1>5. read = Rejected \/ Good(read)
  BY <1>4, SchemaIsRead, StoreIsRead
<1>6. read = ReadAs(backend, store, SchemaFor(me, backend, store))
  BY DEF SchemaRead, SchemaFor
<1>. HIDE DEF read
<1>7. read = Rejected \/ ReadNow(me, backend, store, cfg, read)
  BY <1>2, <1>4, <1>5, <1>6 DEF ReadNow
<1>8. Stands(next, backend, store, cfg) /\ (next.pc = "failed" \/ next.turn = me.turn)
  <2>1. Invocation(me, backend, touched, commands) /\ next \in After(me, read) /\ me.pc \in Reading
    BY <1>1, <1>2, <1>4
  <2>. HIDE DEF me
  <2>. QED  BY <1>7, <2>1, ReadStands
<1>. QED  BY <1>1, <1>2, <1>3, <1>8, AloneStep

LEMMA SelectUsersAlone ==
    ASSUME Types, Alone, NEW p \in Proc, SelectUsers(p)
    PROVE  Alone'
<1>. DEFINE me == proc[p]
            next == Selected(me, store.rows)
<1>1. /\ me.pc \in Reading /\ me.look = 1 /\ SchemaRead(me) = 2 /\ Become(p, next)
      /\ UNCHANGED <<backend, cfg, store, commands>>
  BY DEF SelectUsers, Selected
<1>2. Running(me) /\ me \in ProcessType /\ IsRows(store.rows)
  BY <1>1, TypesFacts DEF Running, Ends, Reading, GoodStore, GoodRows
<1>3. me.view = cfg
  BY <1>2, AloneFacts
<1>4. /\ next.look = 2 /\ next.rows = store.rows /\ next.pc = me.pc /\ next.req = me.req
      /\ next.view = me.view /\ next.turn = me.turn
  BY <1>2, SelectFields
<1>5. SchemaFor(me, backend, store) = 2
  BY <1>1 DEF SchemaRead, SchemaFor
<1>. HIDE DEF next
<1>6. SchemaFor(next, backend, store) = 2
  BY <1>4, <1>5 DEF SchemaFor
<1>7. Stands(next, backend, store, cfg)
  BY <1>1, <1>3, <1>4, <1>6 DEF Stands, Writers, Reading
<1>. QED  BY <1>1, <1>2, <1>4, <1>7, AloneStep

LEMMA SelectKeysAlone ==
    ASSUME Types, Alone, NEW p \in Proc, SelectKeys(p)
    PROVE  Alone'
<1>. DEFINE me == proc[p]
            back == Back(me)
            read == FromRows(me.rows, store.keyTab, 2)
<1>1. PICK next \in After(back, read) : Become(p, next)
  BY DEF SelectKeys, Back
<1>2. me.look = 2 /\ UNCHANGED <<backend, cfg, store, commands>>
  BY DEF SelectKeys
<1>3. Invocation(me, backend, touched, commands) /\ me \in ProcessType /\ IsRows(me.rows)
      /\ GoodStore(store) /\ backend \in Backend /\ cfg \in {1, 2}
  BY TypesFacts
<1>4. backend \in SqlBackend /\ me.pc \in Reading /\ Running(me)
  BY <1>2, <1>3 DEF Invocation, RightPlace, Running, Ends, Reading
<1>5. me.view = cfg /\ me.rows = store.rows /\ SchemaFor(me, backend, store) = 2
  BY <1>2, <1>4, AloneFacts DEF Stands
<1>6. /\ back.look = 1 /\ back.pc = me.pc /\ back.req = me.req
      /\ back.view = me.view /\ back.turn = me.turn
      /\ Invocation(back, backend, touched, commands)
  BY <1>3, <1>4, SelectFields, SelectInvocations
<1>. HIDE DEF back
<1>7. SchemaFor(back, backend, store) = 2
  BY <1>5, <1>6 DEF SchemaFor
<1>8. read = ReadAs(backend, store, 2)
  BY <1>4, <1>5 DEF ReadAs, SqlBackend, FileBackend
<1>9. read = Rejected \/ Good(read)
  BY <1>3, <1>8, StoreIsRead
<1>. HIDE DEF read
<1>10. read = Rejected \/ ReadNow(back, backend, store, cfg, read)
  BY <1>3, <1>5, <1>6, <1>7, <1>8, <1>9 DEF ReadNow
<1>11. Stands(next, backend, store, cfg) /\ (next.pc = "failed" \/ next.turn = me.turn)
  <2>1. /\ Invocation(back, backend, touched, commands) /\ next \in After(back, read)
        /\ back.pc \in Reading /\ back.turn = me.turn
    BY <1>1, <1>4, <1>6
  <2>. HIDE DEF me
  <2>2. Stands(next, backend, store, cfg)
    BY <1>10, <2>1, ReadStands
  <2>3. next.pc = "failed" \/ next.turn = back.turn
    BY <1>10, <2>1, ReadStands
  <2>. QED  BY <2>1, <2>2, <2>3
<1>. QED  BY <1>1, <1>2, <1>4, <1>11, AloneStep

LEMMA MigrationStepsAlone ==
    ASSUME Types, Alone, NEW p \in Proc,
           Backup(p) \/ OpenFile(p) \/ EnsureStorage(p) \/ EnsureBeforeDelete(p)
    PROVE  Alone'
<1>. DEFINE me == proc[p]
<1>1. PICK place \in {"write", "fill", "commit", "delete"} :
         /\ Become(p, Moved(me, place))
         /\ place = "write" => me.pc = "backup" /\ store' = store
         /\ place # "delete" => me.pc \in Writers
  <2>1. CASE Backup(p)
    BY <2>1 DEF Backup, Moved, Writers
  <2>2. CASE OpenFile(p)
    BY <2>2 DEF OpenFile, Moved, Writers
  <2>3. CASE EnsureStorage(p)
    BY <2>3 DEF EnsureStorage, Moved, Writers
  <2>4. CASE EnsureBeforeDelete(p)
    BY <2>4 DEF EnsureBeforeDelete, Moved
  <2>. QED  BY <2>1, <2>2, <2>3, <2>4
<1>2. /\ Running(me) /\ me.pc \notin Reading /\ UNCHANGED <<backend, cfg, commands>>
  BY DEF Backup, OpenFile, EnsureStorage, EnsureBeforeDelete, Running, Ends, Reading
<1>3. me \in ProcessType /\ me.look = 1 /\ Stands(me, backend, store, cfg)
  BY <1>2, TypesFacts, WriterFacts, AloneFacts
<1>4. PICK next : next = Moved(me, place)
  OBVIOUS
<1>5. PICK new : new = store'
  OBVIOUS
<1>6. Stands(next, backend, new, cfg) /\ next.turn = me.turn
  <2>. HIDE DEF me
  <2>. QED  BY <1>1, <1>2, <1>3, <1>4, <1>5, OnwardStands
<1>7. Become(p, next)
  BY <1>1, <1>4
<1>. QED  BY <1>2, <1>5, <1>6, <1>7, AloneStep

LEMMA FlushAlone ==
    ASSUME Types, Alone, NEW p \in Proc, FlushRows(p)
    PROVE  Alone'
<1>1. /\ proc[p].pc = "fill" /\ Running(proc[p]) /\ proc[p].pc \notin Reading
      /\ UNCHANGED <<backend, cfg, proc, commands>>
  BY DEF FlushRows, Running, Ends, Reading
<1>2. proc[p].look = 1 /\ Stands(proc[p], backend, store, cfg)
  BY <1>1, WriterFacts, AloneFacts
<1>3. Stands(proc[p], backend, store', cfg)
  BY <1>1, <1>2 DEF Stands
<1>4. proc' = [proc EXCEPT ![p] = proc[p]]
  BY <1>1 DEF Types
<1>. QED  BY <1>1, <1>3, <1>4, AloneStep DEF Become

(* The facts about a process that has everything written *)
LEMMA FinishedAlone ==
    ASSUME Types, Types', Alone, NEW p \in Proc, proc[p].pc \in Writers,
           Become(p, AfterWrite(proc[p])), UNCHANGED <<backend, cfg, commands>>,
           Holds(backend, store', proc[p].want),
           backend \in SqlBackend /\ proc[p].req.op # "migrate" => proc[p].want.schema = cfg
    PROVE  Alone'
<1>. DEFINE me == proc[p]
<1>1. Running(me) /\ me.pc \notin Reading
  BY DEF Running, Ends, Reading, Writers
<1>2. /\ Invocation(me, backend, touched, commands) /\ me.look = 1
      /\ backend \in Backend /\ cfg \in {1, 2} /\ GoodStore(store')
  BY <1>1, WriterFacts, TypesFacts DEF Types
<1>3. me.view = cfg /\ Sound(me.req, me.want)
  BY <1>1, AloneFacts
<1>4. PICK new : new = store'
  OBVIOUS
<1>5. Stands(AfterWrite(me), backend, new, cfg) /\ AfterWrite(me).turn = me.turn
  <2>1. GoodStore(new) /\ Holds(backend, new, me.want)
    BY <1>2, <1>4
  <2>2. backend \in SqlBackend /\ me.req.op # "migrate" => me.want.schema = cfg
    OBVIOUS
  <2>. HIDE DEF me
  <2>. QED  BY <1>1, <1>2, <1>3, <2>1, <2>2, WrittenStands
<1>. QED  BY <1>1, <1>4, <1>5, AloneStep

LEMMA FillAlone ==
    ASSUME Types, Types', Fits, Alone, NEW p \in Proc, FillFile(p)
    PROVE  Alone'
<1>. DEFINE me == proc[p]
<1>1. /\ me.pc = "fill" /\ me.pc \in Writers /\ me.pc \notin Reading
      /\ UNCHANGED <<backend, cfg, commands>> /\ Become(p, AfterWrite(me))
  BY DEF FillFile, Writers, Reading
<1>2. Good(me.want) /\ GoodStore(store) /\ backend \in FileBackend
  BY <1>1, WriterFacts DEF Invocation, RightPlace
<1>3. PartOf(store.text, me.want)
  BY <1>1, <1>2 DEF Fits, StoreFits, FileFits, Filling
<1>4. store' = [store EXCEPT !.text = Text(me.want)]
  BY <1>3 DEF FillFile
<1>5. store'.text = Text(me.want)
  BY <1>2, <1>4, TextIsGood, StoreWithText
<1>6. backend \notin SqlBackend /\ backend # "mongodb"
  BY <1>2 DEF FileBackend, SqlBackend
<1>7. Holds(backend, store', me.want)
  BY <1>5, <1>6 DEF Holds
<1>. QED  BY <1>1, <1>6, <1>7, FinishedAlone

LEMMA CommitAlone ==
    ASSUME Types, Types', Alone, NEW p \in Proc, Commit(p), mishap' = {}
    PROVE  Alone'
<1>. DEFINE me == proc[p]
<1>1. /\ me.pc = "commit" /\ me.pc \in Writers /\ me.pc \notin Reading
      /\ UNCHANGED <<backend, cfg, commands>> /\ Become(p, AfterWrite(me))
      /\ store' = Committed(store, me.want) /\ ~Mismatched(me)
  BY DEF Commit, Writers, Reading
<1>2. Good(me.want) /\ GoodStore(store) /\ backend \in SqlBackend /\ me.want.schema \in {1, 2}
  BY <1>1, WriterFacts DEF Invocation, RightPlace
<1>3. /\ store'.rows = Rows(me.want)
      /\ store'.keyTab = IF me.want.schema = 2 THEN KeyRows(me.want) ELSE store.keyTab
  BY <1>1, <1>2, ContentIsCommitted
<1>4. /\ me.req.op # "migrate" => me.want.schema = cfg
      /\ me.want.schema = 1 => store.keyTab = NoTable
  BY <1>1 DEF Mismatched
<1>5. backend \notin FileBackend /\ backend # "mongodb"
  BY <1>2 DEF FileBackend, SqlBackend
<1>6. Holds(backend, store', me.want)
  BY <1>2, <1>3, <1>4, <1>5 DEF Holds
<1>. QED  BY <1>1, <1>4, <1>6, FinishedAlone

LEMMA ReplaceAlone ==
    ASSUME Types, Alone, NEW p \in Proc, ReplaceDoc(p)
    PROVE  Alone'
<1>. DEFINE me == proc[p]
            want == me.want
<1>1. PICK v \in me.todo :
         /\ store' = DocReplaced(store, want, v)
         /\ Become(p, [me EXCEPT !.todo = @ \ {v}])
  BY DEF ReplaceDoc
<1>. DEFINE next == [me EXCEPT !.todo = @ \ {v}]
<1>2. /\ me.pc = "write" /\ me.pc \notin Reading /\ backend = "mongodb" /\ Running(me)
      /\ me.pc \in Writers /\ UNCHANGED <<backend, cfg, commands>>
  BY DEF ReplaceDoc, Reading, Running, Ends, Writers
<1>3. /\ me \in ProcessType /\ me.look = 1 /\ Good(want) /\ GoodStore(store)
      /\ v \in DOMAIN want.users /\ me.todo \subseteq DOMAIN want.users
  BY <1>2, WriterFacts DEF Invocation
<1>4. /\ next.pc = me.pc /\ next.look = 1 /\ next.want = me.want
      /\ next.req = me.req /\ next.view = me.view /\ next.turn = me.turn
      /\ next.todo = me.todo \ {v}
  BY <1>3 DEF ProcessType
<1>. HIDE DEF next
<1>5. /\ DOMAIN store'.docs = DOMAIN store.docs \cup {v}
      /\ store'.docs[v] = Document(want.schema, want.users[v])
      /\ \A u \in DOMAIN store.docs \ {v} : store'.docs[u] = store.docs[u]
  BY <1>1, <1>3, DocIsReplaced
<1>6. /\ Stands(me, backend, store, cfg) /\ me.view = cfg /\ Sound(me.req, want)
  BY <1>2, AloneFacts
<1>7. \A u \in DOMAIN want.users \ me.todo :
         u \in DOMAIN store.docs /\ store.docs[u] = Document(want.schema, want.users[u])
  BY <1>2, <1>6 DEF Stands
<1>8. \A u \in DOMAIN want.users \ next.todo :
         u \in DOMAIN store'.docs /\ store'.docs[u] = Document(want.schema, want.users[u])
  BY <1>4, <1>5, <1>7
<1>9. Stands(next, backend, store', cfg)
  BY <1>2, <1>4, <1>6, <1>8 DEF Stands
<1>. QED  BY <1>1, <1>2, <1>4, <1>9, AloneStep DEF next

LEMMA DeleteOthersAlone ==
    ASSUME Types, Types', Alone, NEW p \in Proc, DeleteOthers(p)
    PROVE  Alone'
<1>. DEFINE me == proc[p]
            want == me.want
            docs == [u \in DOMAIN store.docs \cap DOMAIN want.users |-> store.docs[u]]
<1>1. /\ me.pc = "write" /\ me.pc \notin Reading /\ backend = "mongodb" /\ Running(me)
      /\ me.pc \in Writers /\ me.todo = {} /\ UNCHANGED <<backend, cfg, commands>>
      /\ Become(p, AfterWrite(me))
  BY DEF DeleteOthers, Reading, Running, Ends, Writers
<1>2. GoodStore(store) /\ GoodDocs(docs)
  BY <1>1, WriterFacts, DocsAreDeleted
<1>3. store' = [store EXCEPT !.docs = docs]
  BY <1>2 DEF DeleteOthers, OthersDeleted, GoodStore
<1>4. store'.docs = docs
  <2>. HIDE DEF docs
  <2>. QED  BY <1>2, <1>3, StoreWithDocs
<1>5. \A u \in DOMAIN want.users :
         u \in DOMAIN store.docs /\ store.docs[u] = Document(want.schema, want.users[u])
  <2>1. Stands(me, backend, store, cfg)
    BY <1>1, AloneFacts
  <2>. QED  BY <1>1, <2>1 DEF Stands
<1>6. /\ DOMAIN store'.docs = DOMAIN want.users
      /\ \A u \in DOMAIN want.users : store'.docs[u] = Document(want.schema, want.users[u])
  BY <1>4, <1>5
<1>7. backend \notin FileBackend /\ backend \notin SqlBackend
  BY <1>1 DEF FileBackend, SqlBackend
<1>8. Holds(backend, store', want)
  BY <1>6, <1>7 DEF Holds
<1>. QED  BY <1>1, <1>7, <1>8, FinishedAlone

(* Between two writes the next read finds the users. *)
LEMMA KeptIsReadable ==
    Types /\ Fits /\ Filling = {} /\ Committing = {} => Good(Reads(backend, store, cfg))
<1>. SUFFICES ASSUME Types, Fits, Filling = {}, Committing = {} PROVE Good(Content)
  BY DEF Content, Reads
<1>1. backend \in SqlBackend => ~Bare
  BY DEF Fits, StoreFits, TablesFit
<1>. QED  BY <1>1, ContentFits DEF Fits

LEMMA StaysReadable ==
    (Types /\ Fits /\ Filling = {} /\ Committing = {})' => Good(Reads(backend, store, cfg))'
BY KeptIsReadable, PTL

LEMMA RemovalStands ==
    ASSUME NEW b, NEW st, NEW c, NEW me, me \in ProcessType, me.req.op = "remove",
           me.req.user \notin DOMAIN UsersOf(b, st, c)
    PROVE  Stands(Done(me), b, st, c) /\ Done(me).turn = me.turn
<1>1. Reached(me, b, st, c)
  BY Reconciliations DEF Reached
<1>. QED  BY <1>1, EndStands

LEMMA DeleteRowAlone ==
    ASSUME Types, Alone, (Types /\ Fits)', NEW p \in Proc, DeleteRow(p)
    PROVE  Alone'
<1>. DEFINE me == proc[p]
            v == me.req.user
<1>1. /\ me.pc = "delete" /\ me.pc \notin Reading /\ Running(me)
      /\ UNCHANGED <<backend, cfg, commands>>
  BY DEF DeleteRow, Reading, Running, Ends
<1>2. /\ me \in ProcessType /\ GoodStore(store) /\ me.req.op = "remove" /\ backend \in SqlBackend
      /\ me.view \in {1, 2} /\ (me.view = 2 => store.keyTab # NoTable)
  BY <1>1, WriterFacts DEF Invocation, RightPlace, Types
<1>3. CASE v \notin DOMAIN store.rows
  <2>1. Become(p, Failed)
    BY <1>3 DEF DeleteRow
  <2>. QED  BY <1>1, <2>1, FailureAlone
<1>4. CASE v \in DOMAIN store.rows
  <2>1. Become(p, Done(me)) /\ store' = RowDeleted(store, v, me.view)
    BY <1>4 DEF DeleteRow
  <2>2. DOMAIN store'.rows = DOMAIN store.rows \ {v}
    BY <1>2, <2>1, RowIsDeleted
  <2>3. \A q \in Proc : proc'[q].pc \notin {"fill", "commit"}
    <3>1. \A q \in Proc : q # p => ~Running(proc[q])
      BY <1>1, AloneFacts
    <3>2. \A q \in Proc : proc'[q] = IF q = p THEN Done(me) ELSE proc[q]
      BY <2>1 DEF Types, Become
    <3>3. Done(me).pc = "done"
      BY <1>2, AtEnd
    <3>. QED  BY <3>1, <3>2, <3>3 DEF Running, Ends
  <2>4. Filling' = {} /\ Committing' = {}
    BY <2>3 DEF Filling, Committing
  <2>5. Good(Reads(backend, store, cfg))'
    BY <2>4, StaysReadable
  <2>6. PICK new : new = store'
    OBVIOUS
  <2>. DEFINE s == PlannedSchema(backend, new, cfg, cfg)
  <2>7. Good(Reads(backend, new, cfg)) /\ Reads(backend, new, cfg) = FromRows(new.rows, new.keyTab, s)
    BY <1>1, <1>2, <2>5, <2>6 DEF Reads, ReadAs, SqlBackend, FileBackend
  <2>. HIDE DEF s
  <2>8. FromRows(new.rows, new.keyTab, s) # Rejected
    BY <2>7, ContentIsNotRejected DEF Good
  <2>9. DOMAIN UsersOf(backend, new, cfg) = DOMAIN new.rows
    BY <2>7, <2>8 DEF FromRows, UsersOf
  <2>10. Stands(Done(me), backend, new, cfg) /\ Done(me).turn = me.turn
    BY <1>2, <2>2, <2>6, <2>9, RemovalStands
  <2>. QED  BY <1>1, <2>1, <2>6, <2>10, AloneStep
<1>. QED  BY <1>3, <1>4

LEMMA DeleteDocAlone ==
    ASSUME Types, Alone, NEW p \in Proc, DeleteDoc(p)
    PROVE  Alone'
<1>. DEFINE me == proc[p]
            v == me.req.user
            docs == [u \in DOMAIN store.docs \ {v} |-> store.docs[u]]
<1>1. /\ me.pc = "remove" /\ me.pc \notin Reading /\ Running(me) /\ backend = "mongodb"
      /\ UNCHANGED <<backend, cfg, commands>>
  BY DEF DeleteDoc, Reading, Running, Ends
<1>2. me \in ProcessType /\ GoodStore(store) /\ me.req.op = "remove" /\ cfg \in {1, 2}
  BY <1>1, WriterFacts, TypesFacts DEF Invocation, RightPlace
<1>3. CASE v \notin DOMAIN store.docs
  <2>1. Become(p, Failed)
    BY <1>3 DEF DeleteDoc
  <2>. QED  BY <1>1, <2>1, FailureAlone
<1>4. CASE v \in DOMAIN store.docs
  <2>1. Become(p, Done(me)) /\ store' = [store EXCEPT !.docs = docs] /\ GoodDocs(docs)
    BY <1>2, <1>4, DocsAreDeleted DEF DeleteDoc, DocDeleted, GoodStore
  <2>2. store'.docs = docs
    <3>. HIDE DEF docs
    <3>. QED  BY <1>2, <2>1, StoreWithDocs
  <2>3. PICK new : new = store'
    OBVIOUS
  <2>4. UsersOf(backend, new, cfg) = FromDocs(docs, cfg).users
    BY <1>1, <2>2, <2>3 DEF UsersOf, Reads, ReadAs, PlannedSchema, SqlBackend, FileBackend
  <2>5. DOMAIN FromDocs(docs, cfg).users = DOMAIN docs
    BY DEF FromDocs
  <2>6. v \notin DOMAIN docs
    OBVIOUS
  <2>. HIDE DEF docs
  <2>7. Stands(Done(me), backend, new, cfg) /\ Done(me).turn = me.turn
    BY <1>2, <2>4, <2>5, <2>6, RemovalStands
  <2>. QED  BY <1>1, <2>1, <2>3, <2>7, AloneStep
<1>. QED  BY <1>3, <1>4

LEMMA ConfigAlone ==
    ASSUME Types, Alone, NEW p \in Proc, WriteConfig(p)
    PROVE  Alone'
<1>. DEFINE me == proc[p]
            to == me.req.to
<1>1. /\ me.pc = "config" /\ Running(me) /\ cfg' = to /\ Become(p, Done(me))
      /\ UNCHANGED <<backend, store, commands>>
  BY DEF WriteConfig, Running, Ends
<1>2. me \in ProcessType /\ Stands(me, backend, store, cfg)
  BY <1>1, TypesFacts, AloneFacts
<1>3. \/ me.req.op = SetSchema
      \/ me.req.op = "migrate" /\ SchemaOf(backend, store, to) = to
  BY <1>1, <1>2 DEF Stands
<1>4. Reached(me, backend, store, to)
  BY <1>3, Reconciliations DEF Reached
<1>5. Stands(Done(me), backend, store, to) /\ Done(me).turn = me.turn
  BY <1>2, <1>4, EndStands
<1>. QED  BY <1>1, <1>5, AloneStep
-----------------------------------------------------------------------------
LEMMA StepAlone ==
    ASSUME Types, Fits, Alone, (Types /\ Fits)', NEW p \in Proc, Step(p) \/ Kill(p), mishap' = {}
    PROVE  Alone'
<1>1. CASE CreateOnRead(p)
  BY <1>1 DEF CreateOnRead
<1>2. CASE Read(p) \/ SelectUsers(p) \/ SelectKeys(p)
  BY <1>2, ReadAlone, SelectUsersAlone, SelectKeysAlone
<1>3. CASE Backup(p) \/ OpenFile(p) \/ EnsureStorage(p) \/ EnsureBeforeDelete(p)
  BY <1>3, MigrationStepsAlone
<1>4. CASE FlushRows(p) \/ FillFile(p) \/ Commit(p)
  BY <1>4, FlushAlone, FillAlone, CommitAlone
<1>5. CASE ReplaceDoc(p) \/ DeleteOthers(p)
  BY <1>5, ReplaceAlone, DeleteOthersAlone
<1>6. CASE DeleteRow(p) \/ DeleteDoc(p) \/ WriteConfig(p)
  BY <1>6, DeleteRowAlone, DeleteDocAlone, ConfigAlone
<1>7. CASE RollBack(p) \/ Kill(p)
  <2>1. Become(p, Failed) /\ UNCHANGED <<backend, commands>> /\ Running(proc[p])
    BY <1>7 DEF RollBack, Kill, Running, Ends
  <2>. QED  BY <2>1, FailureAlone
<1>. QED  BY <1>1, <1>2, <1>3, <1>4, <1>5, <1>6, <1>7 DEF Step

LEMMA LoneFromStart == Init => Lone
<1>. SUFFICES ASSUME Init PROVE Alone
  BY DEF Lone
<1>1. \A p \in Proc : proc[p].pc = "idle"
  BY IdleFields DEF Init
<1>. QED  BY <1>1 DEF Alone, Latest, Running, Ends

LEMMA LoneIsKept == Inv /\ Inv' /\ Lone /\ [Next]_vars => Lone'
<1>1. ASSUME Inv, Lone, UNCHANGED vars PROVE Lone'
  BY <1>1 DEF Lone, Alone, vars
<1>2. ASSUME Inv, Inv', Lone, NEW p \in Proc, Begin(p) \/ Step(p) \/ Kill(p) PROVE Lone'
  <2>1. SUFFICES ASSUME mishap' = {} PROVE Alone'
    BY DEF Lone
  <2>2. mishap = {} /\ Types /\ Types'
    BY <1>2, <2>1, WhatHasHappened DEF Inv
  <2>3. Alone /\ Fits /\ (Types /\ Fits)'
    BY <1>2, <2>1, <2>2 DEF Lone, Inv, Clean
  <2>4. CASE Begin(p)
    <3>1. PICK op, place : Start(p, op, place) /\ place \in {"read", "remove", "confirm", "plan"}
      BY <2>4, BeginStarts
    <3>. QED  BY <2>1, <2>2, <3>1, StartAlone
  <2>5. CASE Step(p) \/ Kill(p)
    BY <2>1, <2>2, <2>3, <2>5, StepAlone
  <2>. QED  BY <1>2, <2>4, <2>5
<1>. QED  BY <1>1, <1>2 DEF Next

(* A command that runs alone and reports success has done what it says:    *)
(* the next read finds the users it has computed, or the user gone, or the *)
(* data in the configured schema.  For every provider, request, content    *)
(* and number of commands, through all the operations on the provider that *)
(* one write is made of and whatever commands before it were killed.       *)
THEOREM CommandsDoWhatTheySay == Spec => []SuccessMeansDone
<1>1. Spec => []Lone
  <2>1. Spec => []Inv
    BY InvIsInvariant
  <2>. QED  BY <2>1, LoneFromStart, LoneIsKept, PTL DEF Spec
<1>2. Lone => SuccessMeansDone
  <2>1. SUFFICES ASSUME Alone, NEW p \in Proc,
                        proc[p].pc = "done", proc[p].turn = commands, ~proc[p].req.dry
                 PROVE  LET me == proc[p]
                        IN  CASE me.req.op = "set schema" -> cfg = me.req.to
                              [] me.req.op \in Migrating -> cfg = me.req.to /\ Content.schema = cfg
                              [] me.req.op = "remove" -> me.req.user \notin DOMAIN Content.users
                              [] OTHER -> Content.users = me.want.users
    BY Zenon DEF Lone, SuccessMeansDone
  <2>2. Reached(proc[p], backend, store, cfg)
    BY <2>1 DEF Alone, Latest, Stands
  <2>3. /\ Content.schema = SchemaOf(backend, store, cfg)
        /\ Content.users = UsersOf(backend, store, cfg)
    BY DEF Content, SchemaOf, UsersOf, Reads
  <2>. DEFINE me == proc[p]
  <2>4. CASE me.req.op = SetSchema
    BY <2>2, <2>4, Reconciliations, Zenon DEF Reached, SetSchema
  <2>5. CASE me.req.op \in Migrating
    BY <2>2, <2>3, <2>5, Reconciliations, Zenon DEF Reached, SetSchema
  <2>6. CASE me.req.op = "remove"
    BY <2>2, <2>3, <2>6, Reconciliations, Zenon DEF Reached, SetSchema
  <2>7. CASE me.req.op \notin Reconciling \cup {"remove"}
    BY <2>2, <2>3, <2>7, Reconciliations, Zenon DEF Reached, SetSchema
  <2>8. \/ me.req.op = SetSchema \/ me.req.op \in Migrating \/ me.req.op = "remove"
        \/ me.req.op \notin Reconciling \cup {"remove"}
    BY Reconciliations
  <2>. QED  BY <2>4, <2>5, <2>6, <2>7, <2>8, Zenon
<1>. QED  BY <1>1, <1>2, PTL
-----------------------------------------------------------------------------
(* The directory a command that runs alone keeps *)

(* The users the provider stands for; the directory of D *)
Listed == IF Directory = Rejected THEN NoUsers ELSE Directory.users

(* What r says of a content, and how it has come from it: h was read, w is *)
(* going to be written.                                                    *)
Derived(r, h, w) ==
    /\ Good(h) /\ Stored(h) = h /\ Good(w)
    /\ r.op \notin Reconciling =>
         ~r.dry /\ Apply(r, h) # Rejected /\ w = Stored(Apply(r, h))
    /\ r.op \in Reconciling => h.schema = 1 /\ w.schema = 2 /\ w.users = h.users

(* Bare, for any store *)
BareIn(st) ==
    /\ st.keyTab # NoTable
    /\ \E u \in DOMAIN st.rows : st.rows[u].public_keys # {} /\ st.keyTab[u] = {}

(* Either schema reads the same from the tables. *)
Alike(st) ==
    st.keyTab # NoTable =>
        \A u \in DOMAIN st.rows : st.keyTab[u] = Anonymous(st.rows[u].public_keys)

(* docs has of user u what the users have. *)
DocOf(docs, users, u) ==
    /\ u \in DOMAIN docs <=> u \in DOMAIN users
    /\ u \in DOMAIN docs => V2User(docs[u].user) = users[u]

(* What the one command that runs knows of the provider *)
Knows(me, b, st, c) ==
    /\ me.req.op # "deploy" => me.req \in Requests
    /\ me.pc \in Writers => Derived(me.req, me.held, me.want)
    /\ me.pc \in {"backup", "write"} /\ b # "mongodb" => UsersOf(b, st, c) = me.held.users
    /\ me.pc \in {"backup", "write"} /\ b = "mongodb" =>
         \A u \in User : u \notin DOMAIN me.want.users \ me.todo => DocOf(st.docs, me.held.users, u)
    /\ me.pc = "commit" => BareIn(st) \/ UsersOf(b, st, c) = me.held.users

Known == \A p \in Proc : Running(proc[p]) => Knows(proc[p], backend, store, cfg)

(* A provider configured for schema 1 that has a key table *)
ReadyFor(b, st, c) == b \in SqlBackend /\ c = 1 => Alike(st) \/ BareIn(st)
Ready == ReadyFor(backend, store, cfg)

Informed == mishap = {} => Known /\ Ready
-----------------------------------------------------------------------------
(* What UserDirectory says of requests, users and what is stored is what   *)
(* the commands' own definitions say.                                      *)

LEMMA SameRequests ==
    ASSUME NEW r, NEW c
    PROVE  D!Apply(r, c) = Apply(r, c)
<1>1. \A rec : D!Valid(rec) = Valid(rec)
  BY Zenon DEF D!Valid, Valid, D!AuthPresent, AuthPresent, D!UniqueKeys, UniqueKeys
<1>2. \A s, rec : D!Changed(s, rec, r) = Changed(s, rec, r)
  <2>. SUFFICES ASSUME NEW s, NEW rec PROVE D!Changed(s, rec, r) = Changed(s, rec, r)
    OBVIOUS
  <2>1. \A k : D!AnyOf(k) = AnyOf(k)
    BY DEF D!AnyOf, AnyOf
  <2>2. \A id : D!FoundKeys(rec, id) = FoundKeys(rec, id) /\ D!FindKey(rec, id) = FindKey(rec, id)
    BY DEF D!FindKey, FindKey, D!FoundKeys, FoundKeys
  <2>. QED
    BY <2>1, <2>2 DEF D!Changed, Changed, D!UpdateUser, UpdateUser, D!SetUserDisabled, SetUserDisabled,
        D!AddUserKey, AddUserKey, D!AddKey, AddKey, D!V1AddKey, V1AddKey, D!V2AddKey, V2AddKey,
        D!RemoveUserKey, RemoveUserKey, D!RemoveKey, RemoveKey, D!V1RemoveKey, V1RemoveKey,
        D!V2RemoveKey, V2RemoveKey,
        D!DisableUserKey, DisableUserKey, D!RenameUserKey, RenameUserKey, D!RotateUserKey, RotateUserKey,
        D!ExpireUserKey, ExpireUserKey, D!ImportUserKeys, ImportUserKeys, D!WithKey, WithKey,
        D!AuthFields, AuthFields, D!Anonymous, Anonymous, D!NewKey, NewKey
<1>3. \A k, v, rec : D!Upsert(k, v, rec) = Upsert(k, v, rec)
  BY <1>1 DEF D!Upsert, Upsert
<1>4. \A k : D!WithKeyLifecycle(k) = WithKeyLifecycle(k)
  BY DEF D!WithKeyLifecycle, WithKeyLifecycle, D!MigrateTo, MigrateTo, D!MigrateV1ToV2, MigrateV1ToV2,
         D!HasKeyLifecycle, HasKeyLifecycle, D!FirstSchemaWithLifecycle, FirstSchemaWithLifecycle,
         D!Schema, Schema
<1>5. \A users : D!Finds(users, r) = Finds(users, r)
  BY DEF D!Finds, Finds, D!FoundKeys, FoundKeys, D!NamesKey, NamesKey, D!Lifecycle, Lifecycle
<1>6. D!ChangeUser(c, r) = ChangeUser(c, r)
  BY <1>2, <1>3, <1>4, <1>5 DEF D!ChangeUser, ChangeUser, D!Lifecycle, Lifecycle
<1>7. D!AddUser(c, r) = AddUser(c, r)
  BY <1>3 DEF D!AddUser, AddUser, D!AuthFields, AuthFields, D!Anonymous, Anonymous, D!NewKey, NewKey
<1>8. D!RemoveUser(c, r.user) = RemoveUser(c, r.user) /\ D!Merged(c, r.source) = Merged(c, r.source)
  BY DEF D!RemoveUser, RemoveUser, D!Merged, Merged
<1>9. D!OfOneUser = OfOneUser
  BY DEF D!OfOneUser, OfOneUser, D!Lifecycle, Lifecycle
<1>. QED  BY <1>6, <1>7, <1>8, <1>9, Zenon DEF D!Apply, Apply

LEMMA SameStored ==
    ASSUME NEW c
    PROVE  D!Stored(c) = Stored(c)
BY DEF D!Stored, Stored, D!FromMapping, FromMapping, D!ToMapping, ToMapping, D!V1User, V1User,
       D!V2User, V2User, D!V1Mapping, V1Mapping, D!V2Mapping, V2Mapping, D!Anonymous, Anonymous,
       D!NewKey, NewKey, D!PublicKeys, PublicKeys

LEMMA SameAbout ==
    ASSUME NEW r
    PROVE  D!About(r) = About(r)
BY Zenon DEF D!About, About, D!OfOneUser, OfOneUser, D!Lifecycle, Lifecycle
-----------------------------------------------------------------------------
(* What a provider gives is what it is given back for *)

LEMMA RowTwice ==
    ASSUME NEW m \in Row
    PROVE  /\ V1Mapping(V1User(m)) = m
           /\ FromMapping(1, ToMapping(1, V1User(m))) = V1User(m)
<1>1. /\ V1User(m).password = m.password /\ V1User(m).disabled = m.disabled
      /\ PublicKeys(V1User(m)) = m.public_keys
  BY RowsAreRead
<1>2. m = [password |-> m.password, disabled |-> m.disabled, public_keys |-> m.public_keys]
  BY DEF Row
<1>3. V1Mapping(V1User(m)) = m
  BY <1>1, <1>2 DEF V1Mapping
<1>. QED  BY <1>3 DEF FromMapping, ToMapping

LEMMA RowsAreStored ==
    ASSUME NEW c, Good(c),
           c.schema = 1 => \A u \in DOMAIN c.users : \E m \in Row : c.users[u] = V1User(m)
    PROVE  Stored(c) = c
<1>1. CASE c.schema = 2
  BY <1>1, StoredTwice
<1>2. CASE c.schema = 1
  <2>1. \A u \in DOMAIN c.users : FromMapping(c.schema, ToMapping(c.schema, c.users[u])) = c.users[u]
    BY <1>2, RowTwice
  <2>2. Stored(c).users = [u \in DOMAIN c.users |-> c.users[u]]
    BY <2>1, StoredForm
  <2>3. c.users = [u \in DOMAIN c.users |-> c.users[u]]
    BY ContentForm, UsersForm DEF Good
  <2>4. Stored(c).users = c.users /\ Stored(c).schema = c.schema
    BY <2>2, <2>3, StoredForm
  <2>. QED  BY <2>4, StoredForm, ContentForm DEF Good
<1>. QED  BY <1>1, <1>2, ContentForm DEF Good

(* Nothing that is read would be read otherwise once it is written back. *)
LEMMA ReadIsStored ==
    ASSUME NEW b \in Backend, NEW st, GoodStore(st), NEW s \in {1, 2},
           NEW c, c = ReadAs(b, st, s), Good(c)
    PROVE  Stored(c) = c
<1>. SUFFICES ASSUME c.schema = 1, NEW u \in DOMAIN c.users PROVE \E m \in Row : c.users[u] = V1User(m)
  BY RowsAreStored
<1>0. c # Rejected
  BY ContentIsNotRejected DEF Good
<1>1. CASE b \in FileBackend
  <2>1. c = FromText(st.text)
    BY <1>1 DEF ReadAs, FileBackend, SqlBackend
  <2>2. st.text # Garbled
    BY <1>0, <2>1, TextIsRead DEF GoodStore
  <2>3. CASE st.text = Blank
    BY <2>1, <2>3, TextAssumption, NoUsersForm DEF FromText
  <2>4. CASE st.text # Blank
    <3>1. /\ c.schema = st.text.schema /\ DOMAIN c.users = DOMAIN st.text.users
          /\ c.users[u] = FromMapping(st.text.schema, st.text.users[u])
      BY <2>1, <2>2, <2>4 DEF FromText
    <3>2. st.text.users[u] \in Row
      BY <2>2, <2>4, <3>1, FileTextForm DEF GoodStore, GoodText
    <3>. QED  BY <3>1, <3>2 DEF FromMapping
  <2>. QED  BY <2>3, <2>4
<1>2. CASE b \in SqlBackend
  <2>1. c = FromRows(st.rows, st.keyTab, s)
    BY <1>2 DEF ReadAs, FileBackend, SqlBackend
  <2>2. /\ IsRows(st.rows) /\ c.schema = s /\ DOMAIN c.users = DOMAIN st.rows
        /\ c.users[u] = UserOf(st.rows, st.keyTab, s, u)
    <3>1. IsRows(st.rows) /\ (st.keyTab = NoTable \/ st.keyTab \in KeyTable)
      BY DEF GoodStore, GoodRows, GoodTable
    <3>. QED  BY <1>0, <2>1, <3>1, RowsRead
  <2>. QED  BY <2>2, RowsForm DEF UserOf
<1>3. CASE b = "mongodb"
  <2>1. c = FromDocs(st.docs, s)
    BY <1>3 DEF ReadAs, FileBackend, SqlBackend
  <2>2. u \in DOMAIN st.docs /\ c.users[u] = V2User(st.docs[u].user) /\ st.docs[u].user \in Row
    BY <2>1, DocsRead DEF GoodStore
  <2>. QED  BY <2>2, RowForm
<1>. QED  BY <1>1, <1>2, <1>3 DEF Backend

(* A request adds nobody it is not about. *)
LEMMA OthersAreNotAdded ==
    ASSUME NEW c, Good(c), NEW r, IsRequest(r), ~r.dry, Apply(r, c) # Rejected
    PROVE  DOMAIN Apply(r, c).users \subseteq DOMAIN c.users \cup About(r)
<1>1. r.op \in Operation /\ IsProviderUsers(c)
  BY RequestForm DEF Good
<1>2. r.op \in OfOneUser => About(r) = {r.user}
  BY DEF About, OfOneUser, Lifecycle
<1>3. ASSUME NEW k, IsProviderUsers(k), NEW v, NEW rec, Upsert(k, v, rec) # Rejected
      PROVE  DOMAIN Upsert(k, v, rec).users = DOMAIN k.users \cup {v}
  <2>. DEFINE f == [w \in DOMAIN k.users \cup {v} |-> IF w = v THEN rec ELSE k.users[w]]
  <2>1. k = [schema |-> k.schema, users |-> k.users]
    BY <1>3, ContentForm
  <2>2. Upsert(k, v, rec) = [k EXCEPT !.users = f]
    BY <1>3 DEF Upsert
  <2>. HIDE DEF f
  <2>3. Upsert(k, v, rec).users = f
    BY <2>1, <2>2
  <2>. QED  BY <2>3 DEF f
<1>4. CASE r.op = "create"
  <2>1. Apply(r, c) = AddUser(c, r)
    BY <1>4 DEF Apply
  <2>. QED  BY <1>1, <1>2, <1>3, <1>4, <2>1 DEF AddUser, OfOneUser
<1>5. CASE r.op = "remove"
  <2>1. Apply(r, c) = RemoveUser(c, r.user)
    BY <1>5 DEF Apply
  <2>2. Apply(r, c) = [c EXCEPT !.users = [v \in DOMAIN c.users \ {r.user} |-> c.users[v]]]
    BY <2>1 DEF RemoveUser
  <2>. DEFINE f == [v \in DOMAIN c.users \ {r.user} |-> c.users[v]]
  <2>3. c = [schema |-> c.schema, users |-> c.users]
    BY <1>1, ContentForm
  <2>. HIDE DEF f
  <2>4. Apply(r, c).users = f
    BY <2>2, <2>3 DEF f
  <2>. QED  BY <2>4 DEF f
<1>6. CASE r.op \in OfOneUser \ {"create", "remove"}
  <2>1. Apply(r, c) = ChangeUser(c, r)
    BY <1>6 DEF Apply, OfOneUser, Lifecycle
  <2>2. PICK base : /\ base = IF r.op \in Lifecycle THEN WithKeyLifecycle(c) ELSE c
                    /\ IsProviderUsers(base) /\ base.users = c.users
    BY <1>1, LifecycleContent
  <2>3. PICK rec : Apply(r, c) = Upsert(base, r.user, rec)
    BY <2>1, <2>2 DEF ChangeUser
  <2>. QED  BY <1>2, <1>3, <1>6, <2>2, <2>3
<1>7. CASE r.op = "merge"
  <2>1. Apply(r, c) = Merged(c, r.source) /\ About(r) = DOMAIN r.source.users
    BY <1>7 DEF Apply, About, OfOneUser, Lifecycle
  <2>. DEFINE f == [u \in DOMAIN c.users \cup DOMAIN r.source.users |->
                     IF u \in DOMAIN r.source.users THEN r.source.users[u] ELSE c.users[u]]
  <2>2. Apply(r, c) = [c EXCEPT !.users = f]
    BY <2>1 DEF Merged
  <2>3. c = [schema |-> c.schema, users |-> c.users]
    BY <1>1, ContentForm
  <2>. HIDE DEF f
  <2>4. Apply(r, c).users = f
    BY <2>2, <2>3
  <2>. QED  BY <2>1, <2>4 DEF f
<1>8. CASE r.op \in {"replace", "copy"}
  <2>1. Apply(r, c) = r.source /\ About(r) = User
    BY <1>8 DEF Apply, About, OfOneUser, Lifecycle
  <2>. QED  BY <2>1, RequestForm, ContentForm, UsersForm
<1>9. CASE r.op \notin OfOneUser \cup Transfer
  BY <1>9 DEF Apply, OfOneUser, Transfer
<1>. QED  BY <1>4, <1>5, <1>6, <1>7, <1>8, <1>9 DEF Transfer
-----------------------------------------------------------------------------
(* What a request promises *)

Asked(r, s, old) == Apply(r, [schema |-> s, users |-> old])
Answer(r, s, t, old) == Stored([Asked(r, s, old) EXCEPT !.schema = t]).users

(* Serve of UserDirectory: the users become new for some of those r is     *)
(* about.                                                                  *)
Serves(r, old, new) ==
    \E S \in SUBSET About(r), s, t \in Schema :
        /\ Asked(r, s, old) # Rejected
        /\ new = [u \in (DOMAIN old \ S) \cup (DOMAIN Answer(r, s, t, old) \cap S) |->
                     IF u \in S THEN Answer(r, s, t, old)[u] ELSE old[u]]

(* user u is in new what it is in old. *)
Same(new, old, u) ==
    /\ u \in DOMAIN new <=> u \in DOMAIN old
    /\ u \in DOMAIN new => new[u] = old[u]

LEMMA SameAll ==
    ASSUME NEW old, IsUsers(old), NEW new, IsUsers(new), \A u \in User : Same(new, old, u)
    PROVE  new = old
<1>1. /\ DOMAIN new \subseteq User /\ DOMAIN old \subseteq User
      /\ new \in [DOMAIN new -> SFTPUser] /\ old \in [DOMAIN old -> SFTPUser]
  BY UsersForm
<1>2. DOMAIN new = DOMAIN old
  BY <1>1 DEF Same
<1>3. \A u \in DOMAIN new : new[u] = old[u]
  BY <1>1 DEF Same
<1>. QED  BY <1>1, <1>2, <1>3

LEMMA OthersAreSpared ==
    ASSUME NEW r, IsRequest(r), r.op \notin Reconciling, NEW h, NEW w, Derived(r, h, w),
           NEW u \in User, u \notin About(r)
    PROVE  Same(w.users, h.users, u)
<1>. DEFINE a == Apply(r, h)
<1>1. Good(h) /\ Stored(h) = h /\ w = Stored(a) /\ ~r.dry /\ a # Rejected
  BY DEF Derived
<1>2. Good(a) /\ Spares(a, h, User \ About(r))
  BY <1>1, ResultIsGood
<1>3. DOMAIN a.users \subseteq DOMAIN h.users \cup About(r)
  BY <1>1, OthersAreNotAdded
<1>. HIDE DEF a
<1>4. DOMAIN w.users = DOMAIN a.users
  BY <1>1, <1>2, StoredTwice
<1>5. u \in DOMAIN w.users <=> u \in DOMAIN h.users
  BY <1>2, <1>3, <1>4 DEF Spares
<1>6. ASSUME u \in DOMAIN h.users PROVE w.users[u] = h.users[u]
  <2>1. u \in DOMAIN a.users /\ a.users[u] = h.users[u] /\ (a.schema = 1 => h.schema = 1)
    BY <1>2, <1>6 DEF Spares
  <2>2. CASE a.schema = 2
    BY <1>1, <1>2, <2>1, <2>2, StoredTwice
  <2>3. CASE a.schema = 1
    <3>1. w.users = [v \in DOMAIN a.users |-> FromMapping(a.schema, ToMapping(a.schema, a.users[v]))]
      BY <1>1, <1>2, StoredForm
    <3>2. Stored(h).users = [v \in DOMAIN h.users |-> FromMapping(h.schema, ToMapping(h.schema, h.users[v]))]
      BY <1>1, StoredForm
    <3>3. w.users[u] = FromMapping(1, ToMapping(1, h.users[u]))
      BY <2>1, <2>3, <3>1
    <3>4. Stored(h).users[u] = FromMapping(1, ToMapping(1, h.users[u]))
      BY <1>6, <2>1, <2>3, <3>2
    <3>. QED  BY <1>1, <3>3, <3>4
  <2>. QED  BY <1>2, <2>2, <2>3, GoodContent
<1>. QED  BY <1>5, <1>6 DEF Same

(* The request, asked of users that are still as it has read them or of    *)
(* any users when it brings a content of its own, answers what is written. *)
LEMMA RequestAnswers ==
    ASSUME NEW r, IsRequest(r), r.op \notin Reconciling, NEW h, NEW w, Derived(r, h, w),
           NEW old, IsUsers(old), old = h.users \/ r.op \in Transfer
    PROVE  \E s, t \in {1, 2} :
             /\ Asked(r, s, old) # Rejected
             /\ \A u \in About(r) : Same(Answer(r, s, t, old), w.users, u)
<1>1. /\ Good(h) /\ Stored(h) = h /\ w = Stored(Apply(r, h)) /\ ~r.dry /\ Apply(r, h) # Rejected
      /\ IsProviderUsers(h) /\ h.schema \in {1, 2} /\ h = [schema |-> h.schema, users |-> h.users]
  BY ContentForm DEF Derived, Good
<1>2. Good(Apply(r, h))
  BY <1>1, ResultIsGood
<1>3. ASSUME NEW c, IsProviderUsers(c) PROVE [c EXCEPT !.schema = c.schema] = c
  <2>1. c = [schema |-> c.schema, users |-> c.users]
    BY <1>3, ContentForm
  <2>. QED  BY <2>1
<1>4. CASE old = h.users
  <2>. DEFINE a == Apply(r, h)
  <2>1. Asked(r, h.schema, old) = a
    BY <1>1, <1>4 DEF Asked
  <2>2. a.schema \in {1, 2} /\ IsProviderUsers(a)
    BY <1>2, ContentForm DEF Good
  <2>3. Answer(r, h.schema, a.schema, old) = w.users
    BY <1>1, <1>3, <2>1, <2>2 DEF Answer
  <2>. QED  BY <1>1, <2>1, <2>2, <2>3 DEF Same
<1>5. CASE r.op = "merge"
  <2>. DEFINE s == h.schema
              f == [u \in DOMAIN old \cup DOMAIN r.source.users |->
                      IF u \in DOMAIN r.source.users THEN r.source.users[u] ELSE old[u]]
              g == [u \in DOMAIN h.users \cup DOMAIN r.source.users |->
                      IF u \in DOMAIN r.source.users THEN r.source.users[u] ELSE h.users[u]]
              a == [schema |-> s, users |-> f]
  <2>1. About(r) = DOMAIN r.source.users
    BY <1>1, <1>5 DEF About, OfOneUser, Lifecycle
  <2>2. \A c : Apply(r, c) = Merged(c, r.source)
    BY <1>5 DEF Apply, OfOneUser, Lifecycle
  <2>3. Asked(r, s, old) = a
    <3>1. PICK c : c = [schema |-> s, users |-> old]
      OBVIOUS
    <3>2. c.users = old /\ c.schema = s
      BY <3>1
    <3>3. [c EXCEPT !.users = f] = [schema |-> s, users |-> f]
      <4>. HIDE DEF f, s
      <4>. QED  BY <3>1
    <3>4. Merged(c, r.source) = [c EXCEPT !.users = f]
      BY <3>2 DEF Merged
    <3>. QED  BY <2>2, <3>1, <3>3, <3>4 DEF Asked
  <2>4. [h EXCEPT !.users = g] = [schema |-> s, users |-> g]
    BY <1>1
  <2>5. Apply(r, h) = [schema |-> s, users |-> g]
    BY <2>2, <2>4 DEF Merged
  <2>6. IsUsers(f) /\ IsUsers(g)
    <3>1. IsUsers(r.source.users) /\ IsUsers(h.users)
      BY <1>1, RequestForm, ContentForm
    <3>2. /\ DOMAIN r.source.users \subseteq User /\ DOMAIN h.users \subseteq User /\ DOMAIN old \subseteq User
          /\ \A u \in DOMAIN r.source.users : r.source.users[u] \in SFTPUser
          /\ \A u \in DOMAIN h.users : h.users[u] \in SFTPUser
          /\ \A u \in DOMAIN old : old[u] \in SFTPUser
      BY <3>1, UsersForm
    <3>3. f \in [DOMAIN old \cup DOMAIN r.source.users -> SFTPUser]
      BY <3>2
    <3>4. g \in [DOMAIN h.users \cup DOMAIN r.source.users -> SFTPUser]
      BY <3>2
    <3>5. /\ DOMAIN old \cup DOMAIN r.source.users \in SUBSET User
          /\ DOMAIN h.users \cup DOMAIN r.source.users \in SUBSET User
      BY <3>2
    <3>. HIDE DEF f, g
    <3>. QED  BY <3>3, <3>4, <3>5, UsersMade
  <2>7. \A u \in About(r) : /\ u \in DOMAIN f /\ u \in DOMAIN g
                            /\ f[u] = r.source.users[u] /\ g[u] = r.source.users[u]
    BY <2>1
  <2>. HIDE DEF f, g
  <2>8. IsProviderUsers(a) /\ [a EXCEPT !.schema = s] = a
    BY <1>1, <2>6, ContentMade
  <2>. DEFINE m(x) == FromMapping(s, ToMapping(s, x))
  <2>9. Stored(a).users = [u \in DOMAIN f |-> m(f[u])]
    BY DEF Stored
  <2>10. w.users = [u \in DOMAIN g |-> m(g[u])]
    BY <1>1, <2>5 DEF Stored
  <2>11. Answer(r, s, s, old) = [u \in DOMAIN f |-> m(f[u])]
    BY <2>3, <2>8, <2>9 DEF Answer
  <2>. HIDE DEF m
  <2>12. \A u \in About(r) : Same(Answer(r, s, s, old), w.users, u)
    BY <2>7, <2>10, <2>11 DEF Same
  <2>. QED  BY <1>1, <2>3, <2>8, <2>12, ContentIsNotRejected
<1>6. CASE r.op \in {"replace", "copy"}
  <2>1. \A c : Apply(r, c) = r.source
    BY <1>6 DEF Apply, OfOneUser, Lifecycle
  <2>2. IsProviderUsers(r.source) /\ r.source.schema \in {1, 2}
    BY RequestForm, ContentForm
  <2>3. Asked(r, 1, old) = r.source /\ w = Stored(r.source)
    BY <1>1, <2>1 DEF Asked
  <2>4. Answer(r, 1, r.source.schema, old) = w.users
    BY <1>3, <2>2, <2>3 DEF Answer
  <2>. QED  BY <2>2, <2>3, <2>4, ContentIsNotRejected DEF Same
<1>. QED  BY <1>4, <1>5, <1>6 DEF Transfer

(* Users that become what is written, for some of those the request is     *)
(* about, and stay what they are otherwise                                 *)
LEMMA Serving ==
    ASSUME NEW r, IsRequest(r), r.op \notin Reconciling, NEW h, NEW w, Derived(r, h, w),
           NEW old, IsUsers(old), old = h.users \/ r.op \in Transfer,
           NEW S \in SUBSET About(r), NEW new, IsUsers(new),
           \A u \in User : IF u \in S THEN Same(new, w.users, u) ELSE Same(new, old, u)
    PROVE  Serves(r, old, new)
<1>1. PICK s, t \in {1, 2} : /\ Asked(r, s, old) # Rejected
                             /\ \A u \in About(r) : Same(Answer(r, s, t, old), w.users, u)
  BY RequestAnswers
<1>. DEFINE A == Answer(r, s, t, old)
            f == [u \in (DOMAIN old \ S) \cup (DOMAIN A \cap S) |-> IF u \in S THEN A[u] ELSE old[u]]
<1>2. \A u \in S : Same(A, w.users, u)
  BY <1>1
<1>. HIDE DEF A
<1>3. DOMAIN new \subseteq User /\ DOMAIN old \subseteq User /\ DOMAIN w.users \subseteq User
      /\ new \in [DOMAIN new -> SFTPUser]
  BY UsersForm, ContentForm DEF Derived, Good
<1>4. DOMAIN new = (DOMAIN old \ S) \cup (DOMAIN A \cap S)
  BY <1>2, <1>3 DEF Same
<1>5. \A u \in DOMAIN new : new[u] = IF u \in S THEN A[u] ELSE old[u]
  BY <1>2, <1>3, <1>4 DEF Same
<1>6. new = f
  BY <1>3, <1>4, <1>5
<1>. QED  BY <1>1, <1>6 DEF Serves, Schema, A
-----------------------------------------------------------------------------
(* What the command that runs learns when it reads *)

LEMMA ReadIsListed ==
    ASSUME NEW me, NEW b, NEW st, NEW c, NEW read, ReadNow(me, b, st, c, read),
           \/ me.pc = "read"
           \/ me.pc = "replan" /\ me.req.op \in Migrating /\ me.req.to = 2
                /\ (me.req.op = "deploy" => me.req.to = c)
    PROVE  UsersOf(b, st, c) = read.users
<1>1. read # Rejected /\ b \in Backend /\ c \in {1, 2} /\ me.view = c
  BY ContentIsNotRejected DEF ReadNow, Good
<1>2. CASE me.pc = "read"
  <2>1. read = ReadAs(b, st, c)
    BY <1>1, <1>2 DEF ReadNow, SchemaFor
  <2>. QED  BY <1>1, <2>1, ReadIsContent DEF UsersOf
<1>3. CASE me.pc = "replan" /\ me.req.op \in Migrating /\ me.req.to = 2
              /\ (me.req.op = "deploy" => me.req.to = c)
  <2>1. read = ReadAs(b, st, PlannedSchema(b, st, c, 2))
    <3>1. CASE me.req.op = "migrate"
      BY <1>1, <1>3, <3>1 DEF ReadNow, SchemaFor
    <3>2. CASE me.req.op # "migrate"
      <4>1. c = 2
        BY <1>3, <3>2, Reconciliations
      <4>. QED  BY <1>1, <1>3, <3>2, <4>1 DEF ReadNow, SchemaFor
    <3>. QED  BY <3>1, <3>2
  <2>2. PlannedSchema(b, st, c, 2) = PlannedSchema(b, st, c, c)
    BY <1>1 DEF PlannedSchema, TableExists, UsesKeyTable
  <2>. QED  BY <2>1, <2>2 DEF UsersOf, Reads
<1>. QED  BY <1>2, <1>3

LEMMA DocsAreListed ==
    ASSUME NEW me, NEW st, NEW c, NEW read, ReadNow(me, "mongodb", st, c, read), NEW s \in {1, 2},
           read = ReadAs("mongodb", st, s), NEW u
    PROVE  DocOf(st.docs, read.users, u)
<1>1. read = FromDocs(st.docs, s) /\ GoodDocs(st.docs)
  BY DEF ReadNow, ReadAs, FileBackend, SqlBackend, GoodStore
<1>. QED  BY <1>1, DocsRead DEF DocOf

LEMMA WritingKnows ==
    ASSUME NEW b, NEW st, NEW c, NEW me, me \in ProcessType,
           me.req.op # "deploy" => me.req \in Requests,
           NEW place \in {"write", "backup"}, NEW h \in Contents, NEW w, Derived(me.req, h, w),
           UsersOf(b, st, c) = h.users, b = "mongodb" => \A u \in User : DocOf(st.docs, h.users, u),
           NEW m, m = Writing(me, place, h, w, DOMAIN w.users)
    PROVE  Knows(m, b, st, c)
<1>1. w \in Contents /\ DOMAIN w.users \in SUBSET User /\ place \in Places
  BY GoodContent DEF Derived, Places
<1>2. m.pc = place /\ m.req = me.req /\ m.held = h /\ m.want = w /\ m.todo = DOMAIN w.users
  BY <1>1, WriteFields
<1>. QED  BY <1>2 DEF Knows

LEMMA ReadKnows ==
    ASSUME NEW b, NEW T, NEW n, NEW me, Invocation(me, b, T, n), me.pc \in Reading,
           NEW st, NEW c, Knows(me, b, st, c),
           NEW read, read = Rejected \/ ReadNow(me, b, st, c, read),
           NEW next \in After(me, read), Running(next)
    PROVE  Knows(next, b, st, c)
<1>1. CASE read = Rejected
  <2>1. next = Failed
    BY <1>1 DEF After
  <2>. QED  BY <2>1, AtEnd DEF Running, Ends, Invocation
<1>2. CASE ReadNow(me, b, st, c, read)
  <2>1. /\ me.look = 1 /\ me \in ProcessType /\ IsRequest(me.req) /\ RightPlace(me, b) /\ Good(read)
        /\ me.view = c /\ c \in {1, 2} /\ b \in Backend /\ GoodStore(st)
    BY <1>2 DEF ReadNow, Invocation
  <2>2. me.req.op # "deploy" => me.req \in Requests
    BY DEF Knows
  <2>3. Outcome(me, read, next)
    BY <2>1, AfterOutcome
  <2>4. next.pc \notin {"failed", "done"}
    BY DEF Running, Ends
  <2>5. CASE \E place \in {"read", "replan", "config"} : next = Moved(me, place)
    <3>1. PICK place \in {"read", "replan", "config"} : next = Moved(me, place)
      BY <2>5
    <3>2. next.pc = place /\ next.req = me.req
      BY <2>1, <3>1, PlaceFields DEF Places, Reading
    <3>. QED  BY <2>2, <3>2 DEF Knows, Writers
  <2>6. \E s \in {1, 2} : read = ReadAs(b, st, s)
    <3>1. SchemaFor(me, b, st) \in {1, 2}
      BY <2>1, RequestedSchema DEF SchemaFor, PlannedSchema, Schema
    <3>. QED  BY <1>2, <3>1 DEF ReadNow
  <2>7. Stored(read) = read /\ (b = "mongodb" => \A u \in User : DocOf(st.docs, read.users, u))
    BY <1>2, <2>1, <2>6, ReadIsStored, DocsAreListed
  <2>8. CASE me.pc = "read" /\ ~me.req.dry /\ Apply(me.req, read) # Rejected
             /\ next = Writing(me, "write", read, Stored(Apply(me.req, read)), DOMAIN Apply(me.req, read).users)
    <3>. DEFINE w == Stored(Apply(me.req, read))
    <3>1. me.req.op \notin Reconciling /\ UsersOf(b, st, c) = read.users
      BY <1>2, <2>1, <2>8, ReadIsListed DEF RightPlace
    <3>2. Good(w) /\ DOMAIN Apply(me.req, read).users = DOMAIN w.users
      BY <2>1, <2>8, <3>1, ResultIsSound
    <3>3. Derived(me.req, read, w)
      BY <2>1, <2>7, <2>8, <3>1, <3>2 DEF Derived
    <3>4. next = Writing(me, "write", read, w, DOMAIN w.users) /\ read \in Contents
      BY <2>1, <2>8, <3>2, GoodContent
    <3>. HIDE DEF w
    <3>. QED  BY <2>1, <2>2, <2>7, <3>1, <3>3, <3>4, WritingKnows
  <2>9. CASE me.pc = "replan"
    <3>. DEFINE w == MigrateTo(read, me.req.to)
    <3>1. next = Replanned(me, read) /\ me.req.op \in Migrating
      BY <2>1, <2>9, ContentIsNotRejected DEF After, Good, RightPlace
    <3>2. CASE read.schema > me.req.to
      BY <2>1, <2>4, <3>1, <3>2, ReplannedResult, AtEnd
    <3>3. CASE read.schema = me.req.to
      <4>1. next = AfterData(me)
        <5>1. ~(read.schema > me.req.to)
          BY <2>1, <3>3, RequestedSchema
        <5>. QED  BY <3>1, <3>3, <5>1, ReplannedResult
      <4>2. next = Moved(me, "config")
        BY <2>1, <2>4, <4>1, AtEnd DEF AfterData, Moved
      <4>. QED  BY <2>5, <4>2
    <3>4. CASE read.schema < me.req.to
      <4>1. read.schema = 1 /\ me.req.to = 2
        BY <2>1, <3>4, RequestedSchema, GoodContent
      <4>2. Good(w) /\ w.users = read.users /\ w.schema = 2
        BY <2>1, <4>1, GoodContent
      <4>3. next = Writing(me, IF me.req.backup THEN "backup" ELSE "write", read, w, DOMAIN w.users)
        BY <3>1, <4>1, <4>2, ReplannedResult
      <4>4. Derived(me.req, read, w)
        BY <2>1, <2>7, <3>1, <4>1, <4>2, Reconciliations DEF Derived
      <4>5. UsersOf(b, st, c) = read.users
        BY <1>2, <2>1, <2>9, <3>1, <4>1, ReadIsListed DEF RightPlace, Running, Ends, Reading
      <4>6. read \in Contents
        BY <2>1, GoodContent
      <4>. HIDE DEF w
      <4>. QED  BY <2>1, <2>2, <2>7, <4>3, <4>4, <4>5, <4>6, WritingKnows
    <3>. QED  BY <2>1, <3>2, <3>3, <3>4, RequestedSchema, GoodContent
  <2>. QED  BY <2>3, <2>4, <2>5, <2>8, <2>9 DEF Outcome
<1>. QED  BY <1>1, <1>2
-----------------------------------------------------------------------------
(* What the provider stands for while me runs, which is on backend b with  *)
(* st stored and schema c configured                                       *)
Shows(me, b, st, c) ==
    IF me.pc = "fill" THEN me.want.users
    ELSE IF me.pc = "commit" THEN me.held.users
    ELSE UsersOf(b, st, c)

LEMMA RestIsListed ==
    Types /\ Fits /\ Filling = {} /\ Committing = {} =>
        Listed = UsersOf(backend, store, cfg) /\ IsUsers(Listed)
<1>. SUFFICES ASSUME Types, Fits, Filling = {}, Committing = {}
              PROVE  Listed = UsersOf(backend, store, cfg) /\ IsUsers(Listed)
  OBVIOUS
<1>1. Good(Reads(backend, store, cfg))
  BY KeptIsReadable
<1>2. Directory = Reads(backend, store, cfg)
  BY DEF Directory, Content, Reads
<1>. QED  BY <1>1, <1>2, ContentIsNotRejected, ContentForm DEF Listed, UsersOf, Good

LEMMA ShownIsListed ==
    Types /\ Fits =>
        \A p \in Proc :
            (\A q \in Proc : q # p => ~Running(proc[q])) =>
                Listed = Shows(proc[p], backend, store, cfg) /\ IsUsers(Listed)
<1>. SUFFICES ASSUME Types, Fits, NEW p \in Proc, \A q \in Proc : q # p => ~Running(proc[q])
              PROVE  Listed = Shows(proc[p], backend, store, cfg) /\ IsUsers(Listed)
  OBVIOUS
<1>1. Good(proc[p].want) /\ Good(proc[p].held)
  BY TypesFacts
<1>2. /\ \A c : Good(c) => c # Rejected /\ IsUsers(c.users)
  BY ContentIsNotRejected, ContentForm DEF Good
<1>3. \A q \in Proc : q # p => proc[q].pc # "fill" /\ proc[q].pc # "commit"
  BY DEF Running, Ends
<1>4. CASE proc[p].pc = "fill"
  <2>1. Filling = {p}
    BY <1>3, <1>4 DEF Filling
  <2>2. Directory = proc[p].want
    BY <2>1 DEF Directory
  <2>. QED  BY <1>1, <1>2, <1>4, <2>2 DEF Listed, Shows
<1>5. CASE proc[p].pc = "commit"
  <2>1. Filling = {} /\ Committing = {p}
    BY <1>3, <1>5 DEF Filling, Committing
  <2>2. Directory = proc[p].held
    BY <2>1 DEF Directory
  <2>. QED  BY <1>1, <1>2, <1>5, <2>2 DEF Listed, Shows
<1>6. CASE proc[p].pc \notin {"fill", "commit"}
  <2>1. Filling = {} /\ Committing = {}
    BY <1>3, <1>6 DEF Filling, Committing
  <2>. QED  BY <1>6, <2>1, RestIsListed DEF Shows
<1>. QED  BY <1>4, <1>5, <1>6

LEMMA ShownIsListedThen ==
    (Types /\ Fits)' =>
        (\A p \in Proc :
            (\A q \in Proc : q # p => ~Running(proc[q])) =>
                Listed = Shows(proc[p], backend, store, cfg) /\ IsUsers(Listed))'
BY ShownIsListed, PTL

(* The users change as some request says, or not at all. *)
Promised(old, new) == new = old \/ \E r \in Requests : Serves(r, old, new)

(* A step of p, of which the directory is what p shows *)
Progress(p) ==
    \E next :
        /\ Become(p, next)
        /\ Running(next) => Knows(next, backend, store', cfg')
        /\ Promised(Shows(proc[p], backend, store, cfg), Shows(next, backend, store', cfg'))

(* Nothing has gone wrong, and one command runs. *)
Solo == Types /\ Fits /\ Alone /\ Known /\ Ready

LEMMA ProgressIsPromised ==
    ASSUME Solo, (Types /\ Fits)', NEW p \in Proc, Running(proc[p]), Progress(p), UNCHANGED backend
    PROVE  Known' /\ Promised(Listed, Listed')
<1>1. PICK next : /\ Become(p, next)
                  /\ Running(next) => Knows(next, backend, store', cfg')
                  /\ Promised(Shows(proc[p], backend, store, cfg), Shows(next, backend, store', cfg'))
  BY DEF Progress
<1>2. \A q \in Proc : proc'[q] = IF q = p THEN next ELSE proc[q]
  BY <1>1 DEF Solo, Types, Become
<1>3. \A q \in Proc : q # p => ~Running(proc[q]) /\ ~Running(proc'[q])
  BY <1>2, AloneFacts DEF Solo
<1>4. Listed = Shows(proc[p], backend, store, cfg)
  BY <1>3, ShownIsListed DEF Solo
<1>5. Listed' = Shows(proc'[p], backend', store', cfg')
  BY <1>3, ShownIsListedThen
<1>6. Known'
  BY <1>1, <1>2, <1>3 DEF Known
<1>. QED  BY <1>1, <1>2, <1>4, <1>5, <1>6

LEMMA SoloFacts ==
    ASSUME Solo, NEW p \in Proc, Running(proc[p])
    PROVE  /\ Knows(proc[p], backend, store, cfg) /\ Stands(proc[p], backend, store, cfg)
           /\ Invocation(proc[p], backend, touched, commands) /\ proc[p] \in ProcessType
           /\ Good(proc[p].want) /\ Good(proc[p].held) /\ IsRequest(proc[p].req)
           /\ GoodStore(store) /\ backend \in Backend /\ cfg \in {1, 2} /\ proc[p].view = cfg
           /\ proc[p].pc \in Writers => Sound(proc[p].req, proc[p].want)
           /\ proc[p].pc \notin Reading => proc[p].look = 1
           /\ \A q \in Proc : q # p => ~Running(proc[q])
BY TypesFacts, AloneFacts, WriterFacts DEF Solo, Known

(* The whole of what is written takes the place of what was read. *)
LEMMA WholeIsPromised ==
    ASSUME NEW r, IsRequest(r), r.op # "deploy" => r \in Requests, NEW h, NEW w, Derived(r, h, w)
    PROVE  Promised(h.users, w.users)
<1>1. CASE r.op \in Reconciling
  BY <1>1 DEF Derived, Promised
<1>2. CASE r.op \notin Reconciling
  <2>1. r \in Requests
    BY <1>2, Reconciliations
  <2>2. IsUsers(h.users) /\ IsUsers(w.users)
    BY ContentForm DEF Derived, Good
  <2>3. \A u \in User : IF u \in About(r) THEN Same(w.users, w.users, u) ELSE Same(w.users, h.users, u)
    BY <1>2, OthersAreSpared DEF Same
  <2>4. Serves(r, h.users, w.users)
    BY <1>2, <2>2, <2>3, Serving
  <2>. QED  BY <2>1, <2>4 DEF Promised
<1>. QED  BY <1>1, <1>2

LEMMA ReadProgress ==
    ASSUME Solo, NEW p \in Proc, Read(p) \/ SelectUsers(p) \/ SelectKeys(p)
    PROVE  Progress(p) /\ Running(proc[p]) /\ UNCHANGED <<backend, cfg, store>>
<1>. DEFINE me == proc[p]
<1>1. CASE Read(p)
  <2>. DEFINE read == ReadAs(backend, store, SchemaRead(me))
  <2>1. PICK next \in After(me, read) : Become(p, next)
    BY <1>1 DEF Read
  <2>2. me.pc \in Reading /\ me.look = 1 /\ UNCHANGED <<backend, cfg, store>> /\ Running(me)
    BY <1>1 DEF Read, Running, Ends, Reading
  <2>3. /\ Invocation(me, backend, touched, commands) /\ Knows(me, backend, store, cfg)
        /\ me.view = cfg /\ cfg \in {1, 2} /\ GoodStore(store) /\ backend \in Backend
    BY <2>2, SoloFacts
  <2>4. read = Rejected \/ Good(read)
    BY <2>3, SchemaIsRead, StoreIsRead DEF Solo
  <2>5. read = ReadAs(backend, store, SchemaFor(me, backend, store))
    BY DEF SchemaRead, SchemaFor
  <2>. HIDE DEF read
  <2>6. read = Rejected \/ ReadNow(me, backend, store, cfg, read)
    BY <2>2, <2>3, <2>4, <2>5 DEF ReadNow
  <2>7. /\ Running(next) => Knows(next, backend, store, cfg)
        /\ next.pc \notin {"fill", "commit"} /\ me.pc \notin {"fill", "commit"}
    <3>1. /\ Invocation(me, backend, touched, commands) /\ next \in After(me, read) /\ me.pc \in Reading
          /\ me.look = 1 /\ Knows(me, backend, store, cfg)
      BY <2>1, <2>2, <2>3
    <3>. HIDE DEF me
    <3>2. Running(next) => Knows(next, backend, store, cfg)
      BY <2>6, <3>1, ReadKnows
    <3>3. Outcome(me, read, next)
      BY <2>4, <3>1, AfterOutcome
    <3>4. next.pc \in {"failed", "done", "read", "replan", "config", "write", "backup"}
      BY <3>1, <3>3, OutcomePlace
    <3>. QED  BY <3>1, <3>2, <3>4 DEF Reading
  <2>8. Shows(next, backend, store, cfg) = Shows(me, backend, store, cfg)
    BY <2>7 DEF Shows
  <2>. QED  BY <2>1, <2>2, <2>7, <2>8 DEF Progress, Promised
<1>2. CASE SelectUsers(p)
  <2>. DEFINE next == Selected(me, store.rows)
  <2>1. /\ me.pc \in Reading /\ Become(p, next) /\ UNCHANGED <<backend, cfg, store>> /\ Running(me)
    BY <1>2 DEF SelectUsers, Selected, Running, Ends, Reading
  <2>2. me \in ProcessType /\ IsRows(store.rows) /\ Knows(me, backend, store, cfg)
    BY <2>1, SoloFacts DEF GoodStore, GoodRows
  <2>3. next.pc = me.pc /\ next.req = me.req
    BY <2>2, SelectFields
  <2>. HIDE DEF next
  <2>4. Knows(next, backend, store, cfg)
    BY <2>1, <2>2, <2>3 DEF Knows, Reading, Writers
  <2>5. Shows(next, backend, store, cfg) = Shows(me, backend, store, cfg)
    BY <2>1, <2>3 DEF Shows, Reading
  <2>. QED  BY <2>1, <2>4, <2>5 DEF Progress, Promised
<1>3. CASE SelectKeys(p)
  <2>. DEFINE back == Back(me)
              read == FromRows(me.rows, store.keyTab, 2)
  <2>1. PICK next \in After(back, read) : Become(p, next)
    BY <1>3 DEF SelectKeys, Back
  <2>2. me.look = 2 /\ UNCHANGED <<backend, cfg, store>>
    BY <1>3 DEF SelectKeys
  <2>3. backend \in SqlBackend /\ me.pc \in Reading /\ Running(me)
    BY <2>2, TypesFacts DEF Solo, Invocation, RightPlace, Running, Ends, Reading
  <2>4. /\ Invocation(me, backend, touched, commands) /\ me \in ProcessType /\ IsRows(me.rows)
        /\ GoodStore(store) /\ backend \in Backend /\ cfg \in {1, 2} /\ Knows(me, backend, store, cfg)
        /\ me.view = cfg /\ me.rows = store.rows /\ SchemaFor(me, backend, store) = 2
    BY <2>2, <2>3, SoloFacts, TypesFacts DEF Solo, Stands
  <2>5. /\ back.look = 1 /\ back.pc = me.pc /\ back.req = me.req /\ back.view = me.view
        /\ Invocation(back, backend, touched, commands)
    BY <2>3, <2>4, SelectFields, SelectInvocations
  <2>. HIDE DEF back
  <2>6. SchemaFor(back, backend, store) = 2
    BY <2>4, <2>5 DEF SchemaFor
  <2>7. read = ReadAs(backend, store, 2)
    BY <2>3, <2>4 DEF ReadAs, SqlBackend, FileBackend
  <2>8. read = Rejected \/ Good(read)
    BY <2>4, <2>7, StoreIsRead
  <2>. HIDE DEF read
  <2>9. read = Rejected \/ ReadNow(back, backend, store, cfg, read)
    BY <2>4, <2>5, <2>6, <2>7, <2>8 DEF ReadNow
  <2>10. Knows(back, backend, store, cfg)
    BY <2>3, <2>4, <2>5 DEF Knows, Reading, Writers
  <2>11. /\ Running(next) => Knows(next, backend, store, cfg)
         /\ next.pc \notin {"fill", "commit"} /\ me.pc \notin {"fill", "commit"}
    <3>1. /\ Invocation(back, backend, touched, commands) /\ next \in After(back, read) /\ back.pc \in Reading
          /\ back.look = 1 /\ back.pc = me.pc
      BY <2>1, <2>3, <2>5
    <3>. HIDE DEF me
    <3>2. Running(next) => Knows(next, backend, store, cfg)
      BY <2>9, <2>10, <3>1, ReadKnows
    <3>3. Outcome(back, read, next)
      BY <2>8, <3>1, AfterOutcome
    <3>4. next.pc \in {"failed", "done", "read", "replan", "config", "write", "backup"}
      BY <3>1, <3>3, OutcomePlace
    <3>. QED  BY <3>1, <3>2, <3>4 DEF Reading
  <2>12. Shows(next, backend, store, cfg) = Shows(me, backend, store, cfg)
    BY <2>11 DEF Shows
  <2>. QED  BY <2>1, <2>2, <2>3, <2>11, <2>12 DEF Progress, Promised
<1>. QED  BY <1>1, <1>2, <1>3
-----------------------------------------------------------------------------
(* Files *)

LEMMA BackupProgress ==
    ASSUME Solo, NEW p \in Proc, Backup(p)
    PROVE  Progress(p) /\ Running(proc[p]) /\ UNCHANGED <<backend, cfg, store>>
<1>. DEFINE me == proc[p]
            next == Moved(me, "write")
<1>1. me.pc = "backup" /\ Become(p, next) /\ UNCHANGED <<backend, cfg, store>> /\ Running(me)
  BY DEF Backup, Moved, Running, Ends
<1>2. Knows(me, backend, store, cfg) /\ me \in ProcessType
  BY <1>1, SoloFacts
<1>3. /\ next.pc = "write" /\ next.req = me.req /\ next.held = me.held
      /\ next.want = me.want /\ next.todo = me.todo
  BY <1>2, PlaceFields DEF Places
<1>. HIDE DEF next
<1>4. Knows(next, backend, store, cfg)
  BY <1>1, <1>2, <1>3 DEF Knows, Writers
<1>5. Shows(next, backend, store, cfg) = Shows(me, backend, store, cfg)
  BY <1>1, <1>3 DEF Shows
<1>. QED  BY <1>1, <1>4, <1>5 DEF Progress, Promised

LEMMA OpenProgress ==
    ASSUME Solo, NEW p \in Proc, OpenFile(p)
    PROVE  Progress(p) /\ Running(proc[p]) /\ UNCHANGED <<backend, cfg>> /\ backend \notin SqlBackend
<1>. DEFINE me == proc[p]
            next == Moved(me, "fill")
<1>1. /\ me.pc = "write" /\ Become(p, next) /\ UNCHANGED <<backend, cfg>> /\ Running(me)
      /\ backend # "mongodb" /\ backend \notin SqlBackend /\ me.pc \in Writers
  BY DEF OpenFile, Moved, Running, Ends, FileBackend, SqlBackend, Writers
<1>2. Knows(me, backend, store, cfg) /\ me \in ProcessType /\ IsRequest(me.req)
  BY <1>1, SoloFacts
<1>3. /\ next.pc = "fill" /\ next.req = me.req /\ next.held = me.held /\ next.want = me.want
  BY <1>2, PlaceFields DEF Places
<1>. HIDE DEF next
<1>4. /\ UsersOf(backend, store, cfg) = me.held.users /\ Derived(me.req, me.held, me.want)
      /\ me.req.op # "deploy" => me.req \in Requests
  BY <1>1, <1>2 DEF Knows
<1>5. \A st : Knows(next, backend, st, cfg) /\ Shows(next, backend, st, cfg) = me.want.users
  BY <1>3, <1>4 DEF Knows, Shows
<1>6. Shows(me, backend, store, cfg) = me.held.users
  BY <1>1, <1>4 DEF Shows
<1>7. Promised(me.held.users, me.want.users)
  BY <1>2, <1>4, WholeIsPromised
<1>. QED  BY <1>1, <1>5, <1>6, <1>7 DEF Progress

LEMMA FlushProgress ==
    ASSUME Solo, NEW p \in Proc, FlushRows(p)
    PROVE  Progress(p) /\ Running(proc[p]) /\ UNCHANGED <<backend, cfg>> /\ backend \notin SqlBackend
<1>. DEFINE me == proc[p]
<1>1. /\ me.pc = "fill" /\ Running(me) /\ UNCHANGED <<backend, cfg, proc>> /\ backend \notin SqlBackend
  BY DEF FlushRows, Running, Ends, SqlBackend
<1>2. Knows(me, backend, store, cfg)
  BY <1>1, SoloFacts
<1>3. \A st : Knows(me, backend, st, cfg) /\ Shows(me, backend, st, cfg) = me.want.users
  BY <1>1, <1>2 DEF Knows, Shows
<1>4. Become(p, me)
  BY <1>1 DEF Solo, Types, Become
<1>. QED  BY <1>1, <1>3, <1>4 DEF Progress, Promised

(* A command that has written everything *)
LEMMA WrittenKnows ==
    ASSUME NEW me, me \in ProcessType, NEW b, NEW st, NEW c, Knows(me, b, st, c), me.pc \in Writers
    PROVE  \A new : /\ Running(AfterWrite(me)) => Knows(AfterWrite(me), b, new, c)
                    /\ Shows(AfterWrite(me), b, new, c) = UsersOf(b, new, c)
<1>1. /\ Done(me).pc = "done"
      /\ Moved(me, "config").pc = "config" /\ Moved(me, "config").req = me.req
  BY AtEnd, PlaceFields DEF Places
<1>2. AfterWrite(me) = Done(me) \/ AfterWrite(me) = Moved(me, "config")
  BY DEF AfterWrite, AfterData, Moved
<1>. QED  BY <1>1, <1>2 DEF Knows, Shows, Running, Ends, Writers

LEMMA FillProgress ==
    ASSUME Solo, Types', NEW p \in Proc, FillFile(p)
    PROVE  Progress(p) /\ Running(proc[p]) /\ UNCHANGED <<backend, cfg>> /\ backend \notin SqlBackend
<1>. DEFINE me == proc[p]
<1>1. /\ me.pc = "fill" /\ me.pc \in Writers /\ me.pc \notin Reading /\ Running(me)
      /\ UNCHANGED <<backend, cfg>> /\ Become(p, AfterWrite(me))
  BY DEF FillFile, Writers, Reading, Running, Ends
<1>2. /\ Good(me.want) /\ GoodStore(store) /\ Knows(me, backend, store, cfg) /\ me \in ProcessType
      /\ Sound(me.req, me.want) /\ backend \in Backend /\ cfg \in {1, 2}
  BY <1>1, SoloFacts
<1>3. backend \in FileBackend
  BY <1>1, SoloFacts DEF Invocation, RightPlace
<1>4. PartOf(store.text, me.want)
  BY <1>1, <1>3 DEF Solo, Fits, StoreFits, FileFits, Filling
<1>5. store' = [store EXCEPT !.text = Text(me.want)]
  BY <1>4 DEF FillFile
<1>6. store'.text = Text(me.want) /\ GoodStore(store')
  BY <1>2, <1>5, TextIsGood, StoreWithText
<1>7. backend \notin SqlBackend /\ backend # "mongodb"
  BY <1>3 DEF FileBackend, SqlBackend
<1>8. PICK new : new = store'
  OBVIOUS
<1>9. Holds(backend, new, me.want)
  BY <1>6, <1>7, <1>8 DEF Holds
<1>10. UsersOf(backend, new, cfg) = me.want.users
  <2>1. Good(me.want) /\ Stored(me.want) = me.want /\ GoodStore(new)
    BY <1>2, <1>6, <1>8 DEF Sound
  <2>. QED  BY <1>2, <1>7, <1>9, <2>1, HeldIsRead DEF UsersOf
<1>11. /\ Running(AfterWrite(me)) => Knows(AfterWrite(me), backend, new, cfg)
       /\ Shows(AfterWrite(me), backend, new, cfg) = UsersOf(backend, new, cfg)
  BY <1>1, <1>2, WrittenKnows
<1>12. Shows(me, backend, store, cfg) = me.want.users
  BY <1>1 DEF Shows
<1>. QED  BY <1>1, <1>7, <1>8, <1>10, <1>11, <1>12 DEF Progress, Promised

(* A command that ends without doing anything more *)
LEMMA FailureProgress ==
    ASSUME Solo, NEW p \in Proc, RollBack(p) \/ Kill(p), mishap' = {}
    PROVE  Progress(p) /\ Running(proc[p]) /\ UNCHANGED <<backend, cfg, store>>
<1>. DEFINE me == proc[p]
<1>1. /\ Running(me) /\ Become(p, Failed) /\ Damage(me) = {} /\ UNCHANGED <<backend, cfg, store>>
  BY DEF RollBack, Kill, Running, Ends
<1>2. Knows(me, backend, store, cfg) /\ me \in ProcessType
  BY <1>1, SoloFacts
<1>3. Failed.pc = "failed"
  BY <1>2, AtEnd
<1>4. me.pc # "fill" /\ ~(me.pc = "commit" /\ Bare)
  BY <1>1 DEF Damage
<1>5. me.pc = "commit" => UsersOf(backend, store, cfg) = me.held.users
  BY <1>2, <1>4 DEF Knows, Bare, BareIn
<1>6. Shows(me, backend, store, cfg) = UsersOf(backend, store, cfg)
  BY <1>4, <1>5 DEF Shows
<1>7. Shows(Failed, backend, store, cfg) = UsersOf(backend, store, cfg) /\ ~Running(Failed)
  BY <1>3 DEF Shows, Running, Ends
<1>. QED  BY <1>1, <1>6, <1>7 DEF Progress, Promised
-----------------------------------------------------------------------------
(* Tables *)

(* The schema the tables are read as *)
InUse(st, c) == IF st.keyTab = NoTable THEN 1 ELSE c

(* What a provider on a database stands for, unless a user's keys are gone *)
LEMMA TablesAreListed ==
    ASSUME NEW b \in SqlBackend, NEW st, GoodStore(st), NEW c \in {1, 2}, InUse(st, c) = 1 \/ ~BareIn(st)
    PROVE  /\ Good(Reads(b, st, c)) /\ DOMAIN UsersOf(b, st, c) = DOMAIN st.rows
           /\ \A u \in DOMAIN st.rows :
                UsersOf(b, st, c)[u] = UserOf(st.rows, st.keyTab, InUse(st, c), u)
<1>. DEFINE s == InUse(st, c)
<1>1. Reads(b, st, c) = FromRows(st.rows, st.keyTab, s)
  <2>1. PlannedSchema(b, st, c, c) = s
    BY DEF PlannedSchema, TableExists, UsesKeyTable, Schema, InUse
  <2>2. Reads(b, st, c) = ReadAs(b, st, s)
    BY <2>1 DEF Reads
  <2>. QED  BY <2>2 DEF ReadAs, SqlBackend, FileBackend
<1>2. s \in {1, 2} /\ (s = 2 => st.keyTab # NoTable)
  BY DEF InUse
<1>3. IsRows(st.rows) /\ (st.keyTab = NoTable \/ st.keyTab \in KeyTable)
  BY DEF GoodStore, GoodRows, GoodTable
<1>. HIDE DEF s
<1>4. \A u \in DOMAIN st.rows : Valid(UserOf(st.rows, st.keyTab, s, u))
  <2>. SUFFICES ASSUME NEW u \in DOMAIN st.rows PROVE Valid(UserOf(st.rows, st.keyTab, s, u))
    OBVIOUS
  <2>1. /\ st.rows[u] \in Row /\ (st.rows[u].password \/ st.rows[u].public_keys # {}) /\ u \in User
    BY <1>3, RowsForm DEF GoodStore, GoodRows
  <2>2. CASE s = 1
    BY <2>1, <2>2, RowsAreRead DEF UserOf
  <2>3. CASE s = 2
    <3>1. st.rows[u].public_keys = {} \/ st.keyTab[u] # {}
      BY <1>2, <2>3 DEF BareIn, s
    <3>2. UniqueKeys([keys |-> st.keyTab[u]])
      BY <1>2, <2>1, <2>3 DEF GoodStore, GoodTable
    <3>. QED  BY <2>1, <2>3, <3>1, <3>2 DEF UserOf, Valid, AuthPresent, UniqueKeys
  <2>. QED  BY <1>2, <2>2, <2>3
<1>5. FromRows(st.rows, st.keyTab, s) # Rejected
  BY <1>2, <1>3, <1>4, RowsRead
<1>6. /\ Good(FromRows(st.rows, st.keyTab, s)) /\ DOMAIN FromRows(st.rows, st.keyTab, s).users = DOMAIN st.rows
      /\ \A u \in DOMAIN st.rows :
            FromRows(st.rows, st.keyTab, s).users[u] = UserOf(st.rows, st.keyTab, s, u)
  BY <1>2, <1>3, <1>5, RowsRead
<1>. QED  BY <1>1, <1>6 DEF UsersOf, s

(* A key table that has just been created: nothing is missed of a user who *)
(* has no keys.                                                            *)
LEMMA CreationIsMissed ==
    ASSUME NEW st, GoodStore(st), st.keyTab = NoTable,
           NEW new, new = KeyTableCreated(st), ~BareIn(new)
    PROVE  /\ Alike(new)
           /\ \A s \in {1, 2}, u \in DOMAIN st.rows :
                UserOf(new.rows, new.keyTab, s, u) = V1User(st.rows[u])
<1>1. new.rows = st.rows /\ new.keyTab = EmptyKeyTable /\ new.keyTab # NoTable
  BY TableIsCreated
<1>2. \A u \in DOMAIN st.rows : u \in User /\ st.rows[u] \in Row
  BY RowsForm DEF GoodStore, GoodRows
<1>3. \A u \in DOMAIN st.rows : new.keyTab[u] = {} /\ st.rows[u].public_keys = {}
  BY <1>1, <1>2 DEF EmptyKeyTable, BareIn
<1>4. Anonymous({}) = {}
  BY DEF Anonymous
<1>. QED  BY <1>1, <1>2, <1>3, <1>4, RowForm DEF Alike, UserOf

LEMMA EnsuredIsListed ==
    ASSUME NEW b \in SqlBackend, NEW st, GoodStore(st), NEW c \in {1, 2}, NEW s \in {1, 2},
           NEW new, new = StorageEnsured(st, s)
    PROVE  /\ BareIn(new) \/ UsersOf(b, new, c) = UsersOf(b, st, c)
           /\ ReadyFor(b, st, c) => ReadyFor(b, new, c)
<1>1. CASE new = st
  BY <1>1
<1>2. CASE st.keyTab = NoTable /\ new = KeyTableCreated(st) /\ ~BareIn(new)
  <2>1. GoodStore(new) /\ new.rows = st.rows
    BY <1>2, TableIsCreated
  <2>2. InUse(st, c) = 1 /\ InUse(new, c) \in {1, 2}
    BY <1>2 DEF InUse
  <2>3. /\ Good(Reads(b, st, c)) /\ DOMAIN UsersOf(b, st, c) = DOMAIN st.rows
        /\ \A u \in DOMAIN st.rows : UsersOf(b, st, c)[u] = V1User(st.rows[u])
    <3>1. \A u : UserOf(st.rows, st.keyTab, InUse(st, c), u) = V1User(st.rows[u])
      BY <2>2 DEF UserOf
    <3>2. /\ Good(Reads(b, st, c)) /\ DOMAIN UsersOf(b, st, c) = DOMAIN st.rows
          /\ \A u \in DOMAIN st.rows :
                UsersOf(b, st, c)[u] = UserOf(st.rows, st.keyTab, InUse(st, c), u)
      BY <2>2, TablesAreListed
    <3>. QED  BY <3>1, <3>2
  <2>4. /\ Good(Reads(b, new, c)) /\ DOMAIN UsersOf(b, new, c) = DOMAIN st.rows
        /\ \A u \in DOMAIN st.rows : UsersOf(b, new, c)[u] = UserOf(new.rows, new.keyTab, InUse(new, c), u)
    BY <1>2, <2>1, TablesAreListed
  <2>5. \A u \in DOMAIN st.rows : UsersOf(b, new, c)[u] = V1User(st.rows[u])
    BY <1>2, <2>2, <2>4, CreationIsMissed
  <2>6. UsersOf(b, new, c) = UsersOf(b, st, c)
    BY <2>3, <2>4, <2>5, SameUsers DEF UsersOf
  <2>. QED  BY <1>2, <2>6, CreationIsMissed DEF ReadyFor
<1>3. CASE BareIn(new)
  BY <1>3 DEF ReadyFor
<1>. QED  BY <1>1, <1>2, <1>3, TableIsCreated

LEMMA EnsureProgress ==
    ASSUME Solo, NEW p \in Proc, EnsureStorage(p)
    PROVE  Progress(p) /\ Ready' /\ Running(proc[p]) /\ UNCHANGED <<backend, cfg>>
<1>. DEFINE me == proc[p]
            next == Moved(me, "commit")
<1>1. /\ me.pc = "write" /\ me.pc \in Writers /\ me.pc \notin Reading /\ Running(me)
      /\ backend \in SqlBackend /\ backend # "mongodb" /\ UNCHANGED <<backend, cfg>>
      /\ Become(p, next) /\ store' = StorageEnsured(store, me.want.schema)
  BY DEF EnsureStorage, Moved, Writers, Reading, Running, Ends, SqlBackend
<1>2. /\ Good(me.want) /\ GoodStore(store) /\ Knows(me, backend, store, cfg) /\ me \in ProcessType
      /\ cfg \in {1, 2}
  BY <1>1, SoloFacts
<1>3. me.want.schema \in {1, 2}
  BY <1>2, GoodContent
<1>4. /\ next.pc = "commit" /\ next.req = me.req /\ next.held = me.held /\ next.want = me.want
  BY <1>2, PlaceFields DEF Places
<1>. HIDE DEF next
<1>5. PICK new : new = store'
  OBVIOUS
<1>6. UsersOf(backend, store, cfg) = me.held.users
  BY <1>1, <1>2 DEF Knows
<1>7. /\ BareIn(new) \/ UsersOf(backend, new, cfg) = UsersOf(backend, store, cfg)
      /\ ReadyFor(backend, store, cfg) => ReadyFor(backend, new, cfg)
  BY <1>1, <1>2, <1>3, <1>5, EnsuredIsListed
<1>8. Knows(next, backend, new, cfg)
  BY <1>1, <1>2, <1>4, <1>6, <1>7 DEF Knows
<1>9. Shows(me, backend, store, cfg) = me.held.users /\ Shows(next, backend, new, cfg) = me.held.users
  BY <1>1, <1>4, <1>6 DEF Shows
<1>10. Ready'
  BY <1>1, <1>5, <1>7 DEF Ready, Solo
<1>. QED  BY <1>1, <1>5, <1>8, <1>9, <1>10 DEF Progress, Promised

(* Users of schema 1 that are migrated are the same in the old column. *)
LEMMA MigratedIsAlike ==
    ASSUME NEW h, Good(h), Stored(h) = h, h.schema = 1, NEW w, Good(w), w.users = h.users,
           NEW st, GoodStore(st), st.rows = Rows(w), st.keyTab = KeyRows(w),
           NEW b \in SqlBackend
    PROVE  Alike(st) /\ UsersOf(b, st, 1) = w.users
<1>1. /\ DOMAIN st.rows = DOMAIN w.users
      /\ \A u \in DOMAIN w.users :
            /\ st.rows[u] = V1Mapping(w.users[u]) /\ st.keyTab[u] = w.users[u].keys
            /\ w.users[u] = V1User(V1Mapping(w.users[u]))
  <2>1. DOMAIN Rows(w) = DOMAIN w.users /\ \A u \in DOMAIN w.users : Rows(w)[u] = V1Mapping(w.users[u])
    BY DEF Rows, UserRow
  <2>2. \A u \in DOMAIN w.users : KeyRows(w)[u] = w.users[u].keys
    BY KeyRowsOfContent
  <2>3. Stored(h).users = [u \in DOMAIN h.users |-> FromMapping(1, ToMapping(1, h.users[u]))]
    BY StoredForm
  <2>4. \A u \in DOMAIN h.users : h.users[u] = FromMapping(1, ToMapping(1, h.users[u]))
    BY <2>3
  <2>. QED  BY <2>1, <2>2, <2>4 DEF FromMapping, ToMapping
<1>2. \A u \in DOMAIN w.users : w.users[u].keys = Anonymous(st.rows[u].public_keys)
  <2>1. \A u \in DOMAIN w.users :
           V1User(V1Mapping(w.users[u])).keys = Anonymous(V1Mapping(w.users[u]).public_keys)
    BY DEF V1User
  <2>. QED  BY <1>1, <2>1
<1>3. Alike(st)
  BY <1>1, <1>2 DEF Alike
<1>4. /\ Good(Reads(b, st, 1)) /\ DOMAIN UsersOf(b, st, 1) = DOMAIN st.rows
      /\ \A u \in DOMAIN st.rows : UsersOf(b, st, 1)[u] = V1User(st.rows[u])
  <2>1. InUse(st, 1) = 1
    BY DEF InUse
  <2>2. \A u : UserOf(st.rows, st.keyTab, InUse(st, 1), u) = V1User(st.rows[u])
    BY <2>1 DEF UserOf
  <2>3. /\ Good(Reads(b, st, 1)) /\ DOMAIN UsersOf(b, st, 1) = DOMAIN st.rows
        /\ \A u \in DOMAIN st.rows : UsersOf(b, st, 1)[u] = UserOf(st.rows, st.keyTab, InUse(st, 1), u)
    BY <2>1, TablesAreListed
  <2>. QED  BY <2>2, <2>3
<1>5. UsersOf(b, st, 1) = w.users
  BY <1>1, <1>4, SameUsers DEF UsersOf
<1>. QED  BY <1>3, <1>5

LEMMA CommitProgress ==
    ASSUME Solo, Types', NEW p \in Proc, Commit(p), mishap' = {}
    PROVE  Progress(p) /\ Ready' /\ Running(proc[p]) /\ UNCHANGED <<backend, cfg>>
<1>. DEFINE me == proc[p]
            w == me.want
            h == me.held
<1>1. /\ me.pc = "commit" /\ me.pc \in Writers /\ me.pc \notin Reading /\ Running(me)
      /\ UNCHANGED <<backend, cfg>> /\ Become(p, AfterWrite(me))
      /\ store' = Committed(store, w) /\ ~Mismatched(me)
  BY DEF Commit, Writers, Reading, Running, Ends
<1>2. /\ Good(w) /\ Good(h) /\ GoodStore(store) /\ Knows(me, backend, store, cfg) /\ me \in ProcessType
      /\ IsRequest(me.req) /\ Sound(me.req, w) /\ cfg \in {1, 2} /\ w.schema \in {1, 2}
  BY <1>1, SoloFacts, GoodContent
<1>3. backend \in SqlBackend /\ backend \notin FileBackend /\ backend # "mongodb" /\ backend \in Backend
  BY <1>1, SoloFacts DEF Invocation, RightPlace, SqlBackend, FileBackend
<1>4. PICK new : new = store'
  OBVIOUS
<1>5. GoodStore(new) /\ new.rows = Rows(w) /\ new.keyTab = IF w.schema = 2 THEN KeyRows(w) ELSE store.keyTab
  BY <1>1, <1>2, <1>4, ContentIsCommitted
<1>6. /\ me.req.op # "migrate" => w.schema = cfg
      /\ w.schema = 1 => store.keyTab = NoTable
  BY <1>1 DEF Mismatched
<1>7. /\ Derived(me.req, h, w) /\ Stored(w) = w
      /\ me.req.op # "deploy" => me.req \in Requests
  BY <1>1, <1>2 DEF Knows, Sound
<1>8. UsersOf(backend, new, cfg) = w.users /\ ReadyFor(backend, new, cfg)
  <2>1. CASE w.schema = cfg
    <3>1. Holds(backend, new, w)
      BY <1>2, <1>3, <1>5, <1>6 DEF Holds
    <3>2. UsersOf(backend, new, cfg) = w.users
      BY <1>2, <1>3, <1>5, <1>7, <2>1, <3>1, HeldIsRead DEF UsersOf
    <3>3. ReadyFor(backend, new, cfg)
      BY <1>5, <1>6, <2>1 DEF ReadyFor, Alike
    <3>. QED  BY <3>2, <3>3
  <2>2. CASE w.schema # cfg
    <3>1. h.schema = 1 /\ w.schema = 2 /\ w.users = h.users /\ Stored(h) = h /\ cfg = 1
      BY <1>2, <1>6, <1>7, <2>2, Reconciliations DEF Derived
    <3>2. Alike(new) /\ UsersOf(backend, new, 1) = w.users
      BY <1>2, <1>3, <1>5, <3>1, MigratedIsAlike
    <3>. QED  BY <3>1, <3>2 DEF ReadyFor
  <2>. QED  BY <2>1, <2>2
<1>9. /\ Running(AfterWrite(me)) => Knows(AfterWrite(me), backend, new, cfg)
      /\ Shows(AfterWrite(me), backend, new, cfg) = UsersOf(backend, new, cfg)
  BY <1>1, <1>2, WrittenKnows
<1>10. Shows(me, backend, store, cfg) = h.users
  BY <1>1 DEF Shows
<1>11. Promised(h.users, w.users)
  BY <1>2, <1>7, WholeIsPromised
<1>12. Ready'
  BY <1>1, <1>4, <1>8 DEF Ready
<1>. QED  BY <1>1, <1>4, <1>8, <1>9, <1>10, <1>11, <1>12 DEF Progress
-----------------------------------------------------------------------------
(* Documents *)

LEMMA DocsAreUsers ==
    ASSUME NEW st, GoodStore(st), NEW c \in {1, 2}
    PROVE  LET users == UsersOf("mongodb", st, c)
           IN  /\ IsUsers(users) /\ DOMAIN users = DOMAIN st.docs
               /\ \A u \in DOMAIN st.docs : users[u] = V2User(st.docs[u].user)
<1>1. Reads("mongodb", st, c) = FromDocs(st.docs, c)
  BY DEF Reads, PlannedSchema, ReadAs, FileBackend, SqlBackend
<1>2. /\ Good(FromDocs(st.docs, c)) /\ DOMAIN FromDocs(st.docs, c).users = DOMAIN st.docs
      /\ \A u \in DOMAIN st.docs : FromDocs(st.docs, c).users[u] = V2User(st.docs[u].user)
  BY DocsRead DEF GoodStore
<1>3. IsUsers(FromDocs(st.docs, c).users)
  BY <1>2, ContentForm DEF Good
<1>. QED  BY <1>1, <1>2, <1>3 DEF UsersOf

(* A document is read as the user it was written for. *)
LEMMA DocumentIsRead ==
    ASSUME NEW w, Good(w), Stored(w) = w, NEW u \in DOMAIN w.users
    PROVE  V2User(Document(w.schema, w.users[u]).user) = w.users[u]
<1>1. w.schema \in {1, 2} /\ w.users[u] \in SFTPUser
  BY ContentForm, UsersForm DEF Good
<1>2. FromMapping(w.schema, ToMapping(w.schema, w.users[u])) = V2User(ToMapping(w.schema, w.users[u]))
  BY <1>1, WrittenAndRead
<1>3. Stored(w).users = [v \in DOMAIN w.users |-> FromMapping(w.schema, ToMapping(w.schema, w.users[v]))]
  BY StoredForm
<1>4. Stored(w).users[u] = FromMapping(w.schema, ToMapping(w.schema, w.users[u]))
  BY <1>3
<1>. QED  BY <1>2, <1>4 DEF Document

LEMMA AboutOne ==
    ASSUME NEW r, IsRequest(r), r.op \notin Transfer
    PROVE  About(r) \subseteq {r.user}
<1>1. r.op # "merge" /\ r.op \notin {"replace", "copy"} /\ r.dry \in BOOLEAN
  BY RequestForm DEF Transfer
<1>. QED  BY <1>1 DEF About

(* How far a write of documents has come: what is not written is as it was *)
(* read.                                                                   *)
LEMMA DocsHalfWritten ==
    ASSUME Solo, NEW p \in Proc, proc[p].pc = "write", backend = "mongodb"
    PROVE  LET me == proc[p]
               old == UsersOf(backend, store, cfg)
           IN  /\ IsUsers(old) /\ DOMAIN old = DOMAIN store.docs
               /\ \A u \in DOMAIN store.docs : old[u] = V2User(store.docs[u].user)
               /\ \A u \in User :
                    IF u \in DOMAIN me.want.users \ me.todo
                    THEN Same(old, me.want.users, u) ELSE Same(old, me.held.users, u)
<1>. DEFINE me == proc[p]
            w == me.want
            old == UsersOf(backend, store, cfg)
<1>1. me.pc \in Writers /\ me.pc \notin Reading /\ Running(me)
  BY DEF Writers, Reading, Running, Ends
<1>2. /\ Good(w) /\ GoodStore(store) /\ Knows(me, backend, store, cfg) /\ Stands(me, backend, store, cfg)
      /\ Stored(w) = w /\ cfg \in {1, 2}
  BY <1>1, SoloFacts DEF Sound
<1>3. /\ IsUsers(old) /\ DOMAIN old = DOMAIN store.docs
      /\ \A u \in DOMAIN store.docs : old[u] = V2User(store.docs[u].user)
  BY <1>2, DocsAreUsers
<1>4. ASSUME NEW u \in DOMAIN w.users \ me.todo PROVE Same(old, w.users, u)
  <2>1. u \in DOMAIN store.docs /\ store.docs[u] = Document(w.schema, w.users[u])
    BY <1>2 DEF Stands
  <2>2. V2User(store.docs[u].user) = w.users[u]
    BY <1>2, <2>1, DocumentIsRead
  <2>. QED  BY <1>3, <2>1, <2>2 DEF Same
<1>5. ASSUME NEW u \in User, u \notin DOMAIN w.users \ me.todo PROVE Same(old, me.held.users, u)
  <2>1. DocOf(store.docs, me.held.users, u)
    BY <1>2, <1>5 DEF Knows
  <2>. QED  BY <1>3, <2>1 DEF DocOf, Same
<1>. QED  BY <1>3, <1>4, <1>5

(* One user of a write served: when the request is about nobody else, the  *)
(* users were still as it has read them.                                   *)
LEMMA OneServed ==
    ASSUME NEW r, IsRequest(r), r.op # "deploy" => r \in Requests, NEW h, NEW w, Derived(r, h, w),
           NEW old, IsUsers(old), NEW new, IsUsers(new), NEW v \in User,
           Same(old, h.users, v), Same(new, w.users, v), \A u \in User : u # v => Same(new, old, u),
           \A u \in User : Same(old, w.users, u) \/ Same(old, h.users, u)
    PROVE  Promised(old, new)
<1>0. \A u \in User : r.op \in Reconciling \/ u \notin About(r) => Same(w.users, h.users, u)
  BY OthersAreSpared DEF Derived, Same
<1>1. CASE r.op \in Reconciling \/ v \notin About(r)
  <2>1. Same(new, old, v)
    BY <1>0, <1>1 DEF Same
  <2>2. new = old
    BY <2>1, SameAll
  <2>. QED  BY <2>2 DEF Promised
<1>2. CASE r.op \notin Reconciling /\ v \in About(r)
  <2>1. r \in Requests
    BY <1>2, Reconciliations
  <2>2. old = h.users \/ r.op \in Transfer
    <3>. SUFFICES ASSUME r.op \notin Transfer PROVE old = h.users
      OBVIOUS
    <3>1. \A u \in User : u # v => u \notin About(r)
      BY <1>2, AboutOne
    <3>2. \A u \in User : Same(old, h.users, u)
      BY <1>0, <3>1 DEF Same
    <3>3. IsUsers(h.users)
      BY ContentForm DEF Derived, Good
    <3>. QED  BY <3>2, <3>3, SameAll
  <2>3. /\ {v} \in SUBSET About(r)
        /\ \A u \in User : IF u \in {v} THEN Same(new, w.users, u) ELSE Same(new, old, u)
    BY <1>2
  <2>4. Serves(r, old, new)
    BY <1>2, <2>2, <2>3, Serving
  <2>. QED  BY <2>1, <2>4 DEF Promised
<1>. QED  BY <1>1, <1>2

LEMMA ReplaceProgress ==
    ASSUME Solo, NEW p \in Proc, ReplaceDoc(p)
    PROVE  Progress(p) /\ Running(proc[p]) /\ UNCHANGED <<backend, cfg>> /\ backend \notin SqlBackend
<1>. DEFINE me == proc[p]
            w == me.want
            h == me.held
<1>1. PICK v \in me.todo :
         /\ store' = DocReplaced(store, w, v)
         /\ Become(p, [me EXCEPT !.todo = @ \ {v}])
  BY DEF ReplaceDoc
<1>. DEFINE next == [me EXCEPT !.todo = @ \ {v}]
<1>2. /\ me.pc = "write" /\ me.pc \notin Reading /\ backend = "mongodb" /\ Running(me)
      /\ me.pc \in Writers /\ UNCHANGED <<backend, cfg>> /\ backend \notin SqlBackend
  BY DEF ReplaceDoc, Reading, Running, Ends, Writers, SqlBackend
<1>3. /\ me \in ProcessType /\ Good(w) /\ Good(h) /\ GoodStore(store) /\ cfg \in {1, 2}
      /\ IsRequest(me.req) /\ Stored(w) = w /\ Knows(me, backend, store, cfg)
      /\ me.todo \subseteq DOMAIN w.users
  BY <1>2, SoloFacts DEF Sound, Invocation
<1>4. v \in DOMAIN w.users /\ v \in User
  BY <1>3, GoodContent
<1>5. /\ next.pc = "write" /\ next.req = me.req /\ next.want = w /\ next.held = h
      /\ next.todo = me.todo \ {v}
  BY <1>2, <1>3 DEF ProcessType
<1>6. Become(p, next)
  BY <1>1
<1>. HIDE DEF next
<1>7. PICK new : new = store'
  OBVIOUS
<1>8. /\ GoodStore(new) /\ DOMAIN new.docs = DOMAIN store.docs \cup {v}
      /\ new.docs[v] = Document(w.schema, w.users[v])
      /\ \A u \in DOMAIN store.docs \ {v} : new.docs[u] = store.docs[u]
  BY <1>1, <1>3, <1>4, <1>7, DocIsReplaced
<1>9. PICK old : old = UsersOf(backend, store, cfg)
  OBVIOUS
<1>10. PICK then : then = UsersOf(backend, new, cfg)
  OBVIOUS
<1>11. /\ IsUsers(old) /\ DOMAIN old = DOMAIN store.docs
       /\ \A u \in DOMAIN store.docs : old[u] = V2User(store.docs[u].user)
       /\ \A u \in User :
            IF u \in DOMAIN w.users \ me.todo THEN Same(old, w.users, u) ELSE Same(old, h.users, u)
  BY <1>2, <1>9, DocsHalfWritten
<1>12. /\ IsUsers(then) /\ DOMAIN then = DOMAIN new.docs
       /\ \A u \in DOMAIN new.docs : then[u] = V2User(new.docs[u].user)
  BY <1>2, <1>3, <1>8, <1>10, DocsAreUsers
<1>13. then[v] = w.users[v]
  BY <1>3, <1>4, <1>8, <1>12, DocumentIsRead
<1>14. Same(then, w.users, v) /\ Same(old, h.users, v) /\ \A u \in User : u # v => Same(then, old, u)
  BY <1>4, <1>8, <1>11, <1>12, <1>13 DEF Same
<1>15. Derived(me.req, h, w) /\ (me.req.op # "deploy" => me.req \in Requests)
  BY <1>2, <1>3 DEF Knows
<1>16. Promised(old, then)
  BY <1>3, <1>4, <1>11, <1>12, <1>14, <1>15, OneServed
<1>17. \A u \in User : u \notin DOMAIN w.users \ next.todo => DocOf(new.docs, h.users, u)
  BY <1>5, <1>4, <1>11, <1>12, <1>14 DEF DocOf, Same
<1>18. Knows(next, backend, new, cfg)
  BY <1>2, <1>5, <1>15, <1>17 DEF Knows
<1>19. Shows(me, backend, store, cfg) = old /\ Shows(next, backend, new, cfg) = then
  BY <1>2, <1>5, <1>9, <1>10 DEF Shows
<1>. QED  BY <1>2, <1>6, <1>7, <1>16, <1>18, <1>19 DEF Progress

(* The users nobody asked for go, all at once. *)
LEMMA OthersServed ==
    ASSUME NEW r, IsRequest(r), r.op # "deploy" => r \in Requests, NEW h, NEW w, Derived(r, h, w),
           NEW old, IsUsers(old),
           \A u \in User : IF u \in DOMAIN w.users THEN Same(old, w.users, u) ELSE Same(old, h.users, u)
    PROVE  Promised(old, w.users)
<1>0. /\ IsUsers(h.users) /\ IsUsers(w.users)
      /\ \A u \in User : r.op \in Reconciling \/ u \notin About(r) => Same(w.users, h.users, u)
  BY ContentForm, OthersAreSpared DEF Derived, Good, Same
<1>1. \A u \in User : r.op \in Reconciling \/ u \notin About(r) => Same(w.users, old, u)
  BY <1>0 DEF Same
<1>2. CASE \A u \in User : Same(w.users, old, u)
  <2>1. w.users = old
    BY <1>0, <1>2, SameAll
  <2>. QED  BY <2>1 DEF Promised
<1>3. CASE \E v \in User : ~Same(w.users, old, v)
  <2>1. PICK v \in User : ~Same(w.users, old, v)
    BY <1>3
  <2>2. r.op \notin Reconciling /\ v \in About(r) /\ v \notin DOMAIN w.users
    BY <1>1, <2>1 DEF Same
  <2>3. r \in Requests
    BY <2>2, Reconciliations
  <2>4. old = h.users \/ r.op \in Transfer
    <3>. SUFFICES ASSUME r.op \notin Transfer PROVE old = h.users
      OBVIOUS
    <3>1. \A u \in User : u # v => u \notin About(r)
      BY <2>2, AboutOne
    <3>2. \A u \in User : Same(old, h.users, u)
      BY <1>0, <2>2, <3>1 DEF Same
    <3>. QED  BY <1>0, <3>2, SameAll
  <2>5. \A u \in User : IF u \in About(r) THEN Same(w.users, w.users, u) ELSE Same(w.users, old, u)
    BY <1>1 DEF Same
  <2>6. Serves(r, old, w.users)
    BY <1>0, <2>2, <2>4, <2>5, Serving
  <2>. QED  BY <2>3, <2>6 DEF Promised
<1>. QED  BY <1>2, <1>3

LEMMA DeleteOthersProgress ==
    ASSUME Solo, Types', NEW p \in Proc, DeleteOthers(p)
    PROVE  Progress(p) /\ Running(proc[p]) /\ UNCHANGED <<backend, cfg>> /\ backend \notin SqlBackend
<1>. DEFINE me == proc[p]
            w == me.want
            h == me.held
            docs == [u \in DOMAIN store.docs \cap DOMAIN w.users |-> store.docs[u]]
<1>1. /\ me.pc = "write" /\ me.pc \notin Reading /\ backend = "mongodb" /\ Running(me)
      /\ me.pc \in Writers /\ me.todo = {} /\ UNCHANGED <<backend, cfg>>
      /\ Become(p, AfterWrite(me)) /\ backend \notin SqlBackend
  BY DEF DeleteOthers, Reading, Running, Ends, Writers, SqlBackend
<1>2. /\ me \in ProcessType /\ Good(w) /\ GoodStore(store) /\ cfg \in {1, 2}
      /\ IsRequest(me.req) /\ Knows(me, backend, store, cfg) /\ GoodDocs(docs)
  BY <1>1, SoloFacts, DocsAreDeleted
<1>3. PICK new : new = store'
  OBVIOUS
<1>4. new.docs = docs /\ GoodStore(new)
  <2>1. new = [store EXCEPT !.docs = docs]
    BY <1>2, <1>3 DEF DeleteOthers, OthersDeleted, GoodStore
  <2>. HIDE DEF docs
  <2>. QED  BY <1>2, <2>1, StoreWithDocs
<1>. HIDE DEF docs
<1>5. PICK old : old = UsersOf(backend, store, cfg)
  OBVIOUS
<1>6. PICK then : then = UsersOf(backend, new, cfg)
  OBVIOUS
<1>7. /\ IsUsers(old) /\ DOMAIN old = DOMAIN store.docs
      /\ \A u \in DOMAIN store.docs : old[u] = V2User(store.docs[u].user)
      /\ \A u \in User : IF u \in DOMAIN w.users THEN Same(old, w.users, u) ELSE Same(old, h.users, u)
  BY <1>1, <1>5, DocsHalfWritten
<1>8. /\ IsUsers(then) /\ DOMAIN then = DOMAIN docs
      /\ \A u \in DOMAIN docs : then[u] = V2User(docs[u].user)
  BY <1>1, <1>2, <1>4, <1>6, DocsAreUsers
<1>9. \A u \in User : Same(then, w.users, u)
  <2>1. \A u \in User : u \in DOMAIN w.users => u \in DOMAIN store.docs /\ old[u] = w.users[u]
    BY <1>7 DEF Same
  <2>2. \A u \in DOMAIN docs : docs[u] = store.docs[u]
    BY DEF docs
  <2>3. DOMAIN docs = DOMAIN store.docs \cap DOMAIN w.users
    BY DEF docs
  <2>. QED  BY <1>7, <1>8, <2>1, <2>2, <2>3 DEF Same
<1>10. then = w.users
  <2>1. IsUsers(w.users)
    BY <1>2, ContentForm DEF Good
  <2>. QED  BY <1>8, <1>9, <2>1, SameAll
<1>11. Derived(me.req, h, w) /\ (me.req.op # "deploy" => me.req \in Requests)
  BY <1>1, <1>2 DEF Knows
<1>12. Promised(old, w.users)
  BY <1>2, <1>7, <1>11, OthersServed
<1>13. /\ Running(AfterWrite(me)) => Knows(AfterWrite(me), backend, new, cfg)
       /\ Shows(AfterWrite(me), backend, new, cfg) = UsersOf(backend, new, cfg)
  BY <1>1, <1>2, WrittenKnows
<1>14. Shows(me, backend, store, cfg) = old
  BY <1>1, <1>5 DEF Shows
<1>. QED  BY <1>1, <1>3, <1>6, <1>10, <1>12, <1>13, <1>14 DEF Progress
-----------------------------------------------------------------------------
(* `user remove` on a database, and the configuration *)

LEMMA QuietFacts ==
    ASSUME Solo, NEW p \in Proc, Running(proc[p]), proc[p].pc \notin {"fill", "commit"}
    PROVE  Good(Reads(backend, store, cfg)) /\ (backend \in SqlBackend => ~BareIn(store))
<1>1. \A q \in Proc : q # p => ~Running(proc[q])
  BY SoloFacts
<1>2. Filling = {} /\ Committing = {}
  BY <1>1 DEF Filling, Committing, Running, Ends
<1>. QED  BY <1>2, KeptIsReadable DEF Solo, Fits, StoreFits, TablesFit, Bare, BareIn

(* new is old without v. *)
Without(new, old, v) ==
    /\ IsUsers(new) /\ v \in DOMAIN old /\ DOMAIN new = DOMAIN old \ {v}
    /\ \A u \in DOMAIN new : new[u] = old[u]

LEMMA RemovalIsPromised ==
    ASSUME NEW r \in Requests, IsRequest(r), r.op = "remove",
           NEW old, IsUsers(old), AllValid(old), NEW new, Without(new, old, r.user)
    PROVE  Promised(old, new)
<1>. DEFINE v == r.user
            h == [schema |-> 2, users |-> old]
            w == Stored(Apply(r, h))
            left == [u \in DOMAIN old \ {v} |-> old[u]]
<1>1. ~r.dry /\ r.op \notin Reconciling /\ About(r) = {v}
  BY RequestForm, Reconciliations DEF About, OfOneUser
<1>2. Good(h) /\ Stored(h) = h
  <2>1. Good(h)
    BY ContentMade DEF Good
  <2>2. h.schema = 2
    OBVIOUS
  <2>. HIDE DEF h
  <2>. QED  BY <2>1, <2>2, StoredTwice
<1>3. Apply(r, h) # Rejected
  <2>1. Apply(r, h) = RemoveUser(h, v)
    BY DEF Apply
  <2>2. RemoveUser(h, v) = [h EXCEPT !.users = left]
    BY DEF RemoveUser, Without
  <2>3. IsUsers(left)
    <3>1. left \in [DOMAIN old \ {v} -> SFTPUser] /\ DOMAIN old \ {v} \in SUBSET User
      BY UsersForm
    <3>. HIDE DEF left
    <3>. QED  BY <3>1, UsersMade
  <2>. HIDE DEF h, left
  <2>4. IsProviderUsers([h EXCEPT !.users = left])
    BY <1>2, <2>3, ContentWith DEF Good
  <2>. QED  BY <2>1, <2>2, <2>4, ContentIsNotRejected
<1>4. h.users = old
  OBVIOUS
<1>. HIDE DEF h
<1>5. Good(w) /\ v \notin DOMAIN w.users
  BY <1>1, <1>2, <1>3, ResultIsSound DEF Sound
<1>6. Derived(r, h, w)
  BY <1>1, <1>2, <1>3, <1>5 DEF Derived
<1>. HIDE DEF w
<1>7. \A u \in User : IF u \in {v} THEN Same(new, w.users, u) ELSE Same(new, old, u)
  BY <1>5 DEF Same, Without
<1>8. Serves(r, old, new)
  <2>. IsUsers(new)
    BY DEF Without
  <2>. QED
    BY <1>1, <1>4, <1>6, <1>7, Serving
<1>. QED  BY <1>8 DEF Promised

(* A row less is a user less. *)
LEMMA RowDeletedIsListed ==
    ASSUME NEW b \in SqlBackend, NEW st, GoodStore(st), NEW c \in {1, 2}, ~BareIn(st),
           c = 2 => st.keyTab # NoTable, c = 1 => st.keyTab = NoTable, NEW v \in DOMAIN st.rows,
           NEW new, new = RowDeleted(st, v, c), GoodStore(new)
    PROVE  Without(UsersOf(b, new, c), UsersOf(b, st, c), v) /\ ReadyFor(b, new, c)
<1>1. /\ DOMAIN new.rows = DOMAIN st.rows \ {v}
      /\ \A u \in DOMAIN st.rows \ {v} : new.rows[u] = st.rows[u]
      /\ c = 1 => new.keyTab = NoTable
      /\ c = 2 => new.keyTab # NoTable /\ \A u \in User \ {v} : new.keyTab[u] = st.keyTab[u]
  BY RowIsDeleted, TableAssumption
<1>2. InUse(st, c) = c /\ InUse(new, c) = c
  BY <1>1 DEF InUse
<1>3. \A u \in DOMAIN new.rows : u \in User /\ u \in DOMAIN st.rows /\ u # v
  BY <1>1, RowsForm DEF GoodStore, GoodRows
<1>4. ~BareIn(new)
  BY <1>1, <1>3 DEF BareIn
<1>5. \A u \in DOMAIN new.rows : UserOf(new.rows, new.keyTab, c, u) = UserOf(st.rows, st.keyTab, c, u)
  BY <1>1, <1>3 DEF UserOf
<1>6. /\ Good(Reads(b, st, c)) /\ DOMAIN UsersOf(b, st, c) = DOMAIN st.rows
      /\ \A u \in DOMAIN st.rows : UsersOf(b, st, c)[u] = UserOf(st.rows, st.keyTab, c, u)
  BY <1>2, TablesAreListed
<1>7. /\ Good(Reads(b, new, c)) /\ DOMAIN UsersOf(b, new, c) = DOMAIN new.rows
      /\ \A u \in DOMAIN new.rows : UsersOf(b, new, c)[u] = UserOf(new.rows, new.keyTab, c, u)
  BY <1>2, <1>4, TablesAreListed
<1>8. IsUsers(UsersOf(b, new, c))
  BY <1>7, ContentForm DEF Good, UsersOf
<1>9. ReadyFor(b, new, c)
  BY <1>1 DEF ReadyFor, Alike
<1>. QED  BY <1>1, <1>3, <1>5, <1>6, <1>7, <1>8, <1>9 DEF Without

LEMMA EnsureBeforeDeleteProgress ==
    ASSUME Solo, NEW p \in Proc, EnsureBeforeDelete(p), mishap' = {}
    PROVE  Progress(p) /\ Running(proc[p]) /\ UNCHANGED <<backend, cfg, store>>
<1>. DEFINE me == proc[p]
            next == Moved(me, "delete")
<1>1. me.pc = "remove" /\ Become(p, next) /\ UNCHANGED <<backend, cfg>> /\ Running(me)
  BY DEF EnsureBeforeDelete, Moved, Running, Ends
<1>2. Knows(me, backend, store, cfg) /\ me \in ProcessType /\ GoodStore(store) /\ me.view \in {1, 2}
  BY <1>1, SoloFacts
<1>3. next.pc = "delete" /\ next.req = me.req
  BY <1>2, PlaceFields DEF Places
<1>4. store' = store
  <2>1. ~ (me.view = 2 /\ store.keyTab = NoTable)
    BY DEF EnsureBeforeDelete
  <2>. QED  BY <1>2, <2>1, TableIsCreated DEF EnsureBeforeDelete
<1>. HIDE DEF next
<1>5. Knows(next, backend, store, cfg)
  BY <1>2, <1>3 DEF Knows, Writers
<1>6. Shows(next, backend, store, cfg) = Shows(me, backend, store, cfg)
  BY <1>1, <1>3 DEF Shows
<1>. QED  BY <1>1, <1>4, <1>5, <1>6 DEF Progress, Promised

(* A command that ends with the store as it is to be *)
LEMMA EndProgress ==
    ASSUME Solo, NEW p \in Proc, Running(proc[p]), proc[p].pc \notin {"fill", "commit"},
           NEW next \in {Failed, Done(proc[p])}, Become(p, next),
           NEW new, new = store', NEW c, c = cfg',
           Promised(UsersOf(backend, store, cfg), UsersOf(backend, new, c))
    PROVE  Progress(p)
<1>1. next.pc \in {"failed", "done"}
  BY SoloFacts, AtEnd
<1>2. ~Running(next) /\ Shows(next, backend, new, c) = UsersOf(backend, new, c)
  BY <1>1 DEF Running, Ends, Shows
<1>3. Shows(proc[p], backend, store, cfg) = UsersOf(backend, store, cfg)
  BY DEF Shows
<1>. QED  BY <1>2, <1>3 DEF Progress

LEMMA DeleteRowProgress ==
    ASSUME Solo, Types', NEW p \in Proc, DeleteRow(p), mishap' = {}
    PROVE  Progress(p) /\ Ready' /\ Running(proc[p]) /\ UNCHANGED <<backend, cfg>>
<1>. DEFINE me == proc[p]
            v == me.req.user
<1>1. /\ me.pc = "delete" /\ me.pc \notin {"fill", "commit"} /\ me.pc \notin Reading /\ Running(me)
      /\ UNCHANGED <<backend, cfg>>
  BY DEF DeleteRow, Reading, Running, Ends
<1>2. /\ me \in ProcessType /\ GoodStore(store) /\ backend \in SqlBackend /\ cfg \in {1, 2}
      /\ me.req.op = "remove" /\ IsRequest(me.req) /\ me.view = cfg /\ ~BareIn(store)
      /\ me.view = 2 => store.keyTab # NoTable
      /\ Knows(me, backend, store, cfg) /\ Good(Reads(backend, store, cfg))
  BY <1>1, SoloFacts, QuietFacts DEF Solo, Invocation, RightPlace, Types
<1>3. CASE v \notin DOMAIN store.rows
  <2>1. Become(p, Failed) /\ store' = store
    BY <1>3 DEF DeleteRow
  <2>2. Progress(p)
    BY <1>1, <2>1, EndProgress DEF Promised
  <2>3. Ready'
    BY <1>1, <2>1 DEF Solo, Ready
  <2>. QED  BY <1>1, <2>2, <2>3
<1>4. CASE v \in DOMAIN store.rows
  <2>1. PICK new : new = store'
    OBVIOUS
  <2>2. Become(p, Done(me)) /\ new = RowDeleted(store, v, cfg) /\ GoodStore(new)
    BY <1>2, <1>4, <2>1 DEF DeleteRow, Types
  <2>3. (cfg = 2 => store.keyTab # NoTable) /\ (cfg = 1 => store.keyTab = NoTable)
    BY <1>2, <1>4 DEF DeleteRow
  <2>4. me.req \in Requests
    BY <1>2 DEF Knows
  <2>5. PICK old : old = UsersOf(backend, store, cfg)
    OBVIOUS
  <2>6. PICK then : then = UsersOf(backend, new, cfg)
    OBVIOUS
  <2>7. Without(then, old, v) /\ ReadyFor(backend, new, cfg)
    BY <1>2, <1>4, <2>2, <2>3, <2>5, <2>6, RowDeletedIsListed
  <2>8. IsUsers(old) /\ AllValid(old)
    BY <1>2, <2>5, ContentForm DEF Good, UsersOf
  <2>9. Promised(old, then)
    BY <1>2, <2>4, <2>7, <2>8, RemovalIsPromised
  <2>10. Progress(p)
    BY <1>1, <2>1, <2>2, <2>5, <2>6, <2>9, EndProgress
  <2>11. Ready'
    BY <1>1, <2>1, <2>7 DEF Ready
  <2>. QED  BY <1>1, <2>10, <2>11
<1>. QED  BY <1>3, <1>4

LEMMA DeleteDocProgress ==
    ASSUME Solo, Types', NEW p \in Proc, DeleteDoc(p)
    PROVE  Progress(p) /\ Running(proc[p]) /\ UNCHANGED <<backend, cfg>> /\ backend \notin SqlBackend
<1>. DEFINE me == proc[p]
            v == me.req.user
            docs == [u \in DOMAIN store.docs \ {v} |-> store.docs[u]]
<1>1. /\ me.pc = "remove" /\ me.pc \notin {"fill", "commit"} /\ me.pc \notin Reading /\ Running(me)
      /\ UNCHANGED <<backend, cfg>> /\ backend = "mongodb" /\ backend \notin SqlBackend
  BY DEF DeleteDoc, Reading, Running, Ends, SqlBackend
<1>2. /\ me \in ProcessType /\ GoodStore(store) /\ cfg \in {1, 2}
      /\ me.req.op = "remove" /\ IsRequest(me.req)
      /\ Knows(me, backend, store, cfg) /\ Good(Reads(backend, store, cfg))
  BY <1>1, SoloFacts, QuietFacts DEF Invocation, RightPlace
<1>3. CASE v \notin DOMAIN store.docs
  <2>1. Become(p, Failed) /\ store' = store
    BY <1>3 DEF DeleteDoc
  <2>2. Progress(p)
    BY <1>1, <2>1, EndProgress DEF Promised
  <2>. QED  BY <1>1, <2>2
<1>4. CASE v \in DOMAIN store.docs
  <2>1. PICK new : new = store'
    OBVIOUS
  <2>2. Become(p, Done(me)) /\ new = [store EXCEPT !.docs = docs] /\ GoodDocs(docs)
    BY <1>2, <1>4, <2>1, DocsAreDeleted DEF DeleteDoc, DocDeleted, GoodStore
  <2>3. DOMAIN docs = DOMAIN store.docs \ {v} /\ \A u \in DOMAIN docs : docs[u] = store.docs[u]
    OBVIOUS
  <2>. HIDE DEF docs
  <2>4. new.docs = docs /\ GoodStore(new)
    BY <1>2, <2>2, StoreWithDocs
  <2>5. PICK old : old = UsersOf(backend, store, cfg)
    OBVIOUS
  <2>6. PICK then : then = UsersOf(backend, new, cfg)
    OBVIOUS
  <2>7. /\ IsUsers(old) /\ DOMAIN old = DOMAIN store.docs
        /\ \A u \in DOMAIN store.docs : old[u] = V2User(store.docs[u].user)
    BY <1>1, <1>2, <2>5, DocsAreUsers
  <2>8. /\ IsUsers(then) /\ DOMAIN then = DOMAIN new.docs
        /\ \A u \in DOMAIN new.docs : then[u] = V2User(new.docs[u].user)
    BY <1>1, <1>2, <2>4, <2>6, DocsAreUsers
  <2>9. Without(then, old, v)
    BY <1>4, <2>3, <2>4, <2>7, <2>8 DEF Without
  <2>10. me.req \in Requests /\ AllValid(old)
    BY <1>2, <1>4, <2>5, <2>7 DEF Knows, Good, UsersOf
  <2>11. Promised(old, then)
    BY <1>2, <2>7, <2>8, <2>9, <2>10, RemovalIsPromised
  <2>12. Progress(p)
    BY <1>1, <2>1, <2>2, <2>5, <2>6, <2>11, EndProgress
  <2>. QED  BY <1>1, <2>12
<1>. QED  BY <1>3, <1>4

(* Nobody changes with the configured schema, unless it is set back under  *)
(* a key table.                                                            *)
LEMMA EitherSchemaIsListed ==
    ASSUME NEW b \in Backend, NEW st, GoodStore(st), NEW c \in {1, 2}, NEW t \in {1, 2},
           b \in SqlBackend => ~BareIn(st), ReadyFor(b, st, c),
           b \in SqlBackend /\ t = 1 => st.keyTab = NoTable
    PROVE  UsersOf(b, st, t) = UsersOf(b, st, c) /\ ReadyFor(b, st, t)
<1>1. CASE b \in FileBackend
  BY <1>1 DEF UsersOf, Reads, ReadAs, ReadyFor, SqlBackend, FileBackend
<1>2. CASE b = "mongodb"
  <2>1. \A s \in {1, 2} :
           /\ IsUsers(UsersOf("mongodb", st, s)) /\ DOMAIN UsersOf("mongodb", st, s) = DOMAIN st.docs
           /\ \A u \in DOMAIN st.docs : UsersOf("mongodb", st, s)[u] = V2User(st.docs[u].user)
    BY DocsAreUsers
  <2>2. \A u \in User : Same(UsersOf("mongodb", st, t), UsersOf("mongodb", st, c), u)
    BY <2>1 DEF Same
  <2>3. UsersOf("mongodb", st, t) = UsersOf("mongodb", st, c)
    BY <2>1, <2>2, SameAll
  <2>. QED  BY <1>2, <2>3 DEF ReadyFor, SqlBackend
<1>3. CASE b \in SqlBackend
  <2>1. \A s \in {1, 2} :
           /\ Good(Reads(b, st, s)) /\ DOMAIN UsersOf(b, st, s) = DOMAIN st.rows
           /\ \A u \in DOMAIN st.rows :
                 UsersOf(b, st, s)[u] = UserOf(st.rows, st.keyTab, InUse(st, s), u)
    BY <1>3, TablesAreListed
  <2>2. ASSUME NEW u \in DOMAIN st.rows
        PROVE  UserOf(st.rows, st.keyTab, InUse(st, t), u) = UserOf(st.rows, st.keyTab, InUse(st, c), u)
    <3>1. CASE st.keyTab = NoTable \/ t = c
      BY <3>1 DEF InUse
    <3>2. CASE st.keyTab # NoTable /\ t = 2 /\ c = 1
      <4>1. st.keyTab[u] = Anonymous(st.rows[u].public_keys)
        BY <1>3, <3>2 DEF ReadyFor, Alike
      <4>2. InUse(st, t) = 2 /\ InUse(st, c) = 1
        BY <3>2 DEF InUse
      <4>. QED  BY <4>1, <4>2 DEF UserOf, V1User
    <3>. QED  BY <1>3, <3>1, <3>2
  <2>3. UsersOf(b, st, t) = UsersOf(b, st, c)
    BY <2>1, <2>2, SameUsers DEF UsersOf
  <2>4. ReadyFor(b, st, t)
    BY <1>3 DEF ReadyFor, Alike
  <2>. QED  BY <2>3, <2>4
<1>. QED  BY <1>1, <1>2, <1>3 DEF Backend

LEMMA ConfigProgress ==
    ASSUME Solo, NEW p \in Proc, WriteConfig(p), mishap' = {}
    PROVE  Progress(p) /\ Ready' /\ Running(proc[p]) /\ UNCHANGED backend
<1>. DEFINE me == proc[p]
            to == me.req.to
<1>1. /\ me.pc = "config" /\ me.pc \notin {"fill", "commit"} /\ Running(me) /\ cfg' = to
      /\ Become(p, Done(me)) /\ UNCHANGED <<backend, store>>
      /\ ~(backend \in SqlBackend /\ to = 1 /\ store.keyTab # NoTable)
  BY DEF WriteConfig, Running, Ends
<1>2. /\ GoodStore(store) /\ backend \in Backend /\ cfg \in {1, 2} /\ IsRequest(me.req)
      /\ backend \in SqlBackend => ~BareIn(store)
  BY <1>1, SoloFacts, QuietFacts
<1>3. to \in {1, 2}
  BY <1>2, RequestedSchema
<1>4. ReadyFor(backend, store, cfg)
  BY DEF Solo, Ready
<1>5. UsersOf(backend, store, to) = UsersOf(backend, store, cfg) /\ ReadyFor(backend, store, to)
  BY <1>1, <1>2, <1>3, <1>4, EitherSchemaIsListed
<1>6. Ready'
  BY <1>1, <1>5 DEF Ready
<1>7. Progress(p)
  BY <1>1, <1>5, EndProgress DEF Promised
<1>. QED  BY <1>1, <1>6, <1>7

(* A command that begins has changed nothing yet. *)
LEMMA StartIsQuiet ==
    ASSUME Types, Fits, Ready, (Types /\ Fits)', NEW p \in Proc, NEW op, NEW place, Start(p, op, place),
           place \in {"read", "remove", "confirm", "plan"}, mishap' = {}
    PROVE  Known' /\ Ready' /\ Listed' = Listed
<1>1. PICK r \in Requests : Become(p, Begun(r, place))
  BY DEF Start
<1>. DEFINE me == Begun(r, place)
            req == IF r.op = "deploy" THEN [r EXCEPT !.to = cfg] ELSE r
<1>2. /\ UNCHANGED <<backend, cfg, store>> /\ cfg \in {1, 2}
      /\ \A q \in Proc : ~Running(proc[q])
  BY TypesFacts DEF Start
<1>3. req.op = "deploy" \/ req = r
  BY <1>2, RequestTo, RequestsAssumption
<1>4. me.pc = place /\ me.req = req
  <2>. HIDE DEF req
  <2>1. me = [Idle EXCEPT !.req = req, !.view = cfg, !.turn = commands + 1, !.pc = place]
    BY DEF Begun, req
  <2>. QED  BY <2>1, IdleFields DEF ProcessType
<1>5. \A q \in Proc : proc'[q] = IF q = p THEN me ELSE proc[q]
  BY <1>1 DEF Types, Become
<1>. HIDE DEF me, req
<1>6. \A b, st, c : Knows(me, b, st, c)
  BY <1>3, <1>4 DEF Knows, Writers
<1>7. Known'
  BY <1>2, <1>5, <1>6 DEF Known
<1>8. \A q \in Proc : proc[q].pc \notin {"fill", "commit"} /\ proc'[q].pc \notin {"fill", "commit"}
  BY <1>2, <1>4, <1>5 DEF Running, Ends
<1>9. Listed = UsersOf(backend, store, cfg)
  BY <1>8, RestIsListed DEF Filling, Committing
<1>10. Listed' = UsersOf(backend', store', cfg')
  <2>1. Filling' = {} /\ Committing' = {}
    BY <1>8 DEF Filling, Committing
  <2>2. (Types /\ Fits /\ Filling = {} /\ Committing = {})' =>
            (Listed = UsersOf(backend, store, cfg) /\ IsUsers(Listed))'
    BY RestIsListed, PTL
  <2>. QED  BY <2>1, <2>2
<1>. QED  BY <1>2, <1>7, <1>9, <1>10 DEF Ready
-----------------------------------------------------------------------------
(* Every step *)

LEMMA StepIsPromised ==
    ASSUME Solo, (Types /\ Fits)', NEW p \in Proc, Step(p) \/ Kill(p), mishap' = {}
    PROVE  Known' /\ Ready' /\ Promised(Listed, Listed')
<1>1. Progress(p) /\ Ready' /\ Running(proc[p]) /\ UNCHANGED backend
  <2>1. backend \notin SqlBackend /\ UNCHANGED backend => Ready'
    BY DEF Ready, ReadyFor
  <2>2. UNCHANGED <<backend, cfg, store>> => Ready'
    BY DEF Solo, Ready
  <2>3. CASE Read(p) \/ SelectUsers(p) \/ SelectKeys(p)
    BY <2>2, <2>3, ReadProgress
  <2>4. CASE Backup(p) \/ RollBack(p) \/ Kill(p) \/ EnsureBeforeDelete(p)
    BY <2>2, <2>4, BackupProgress, FailureProgress, EnsureBeforeDeleteProgress
  <2>5. CASE OpenFile(p) \/ FlushRows(p) \/ FillFile(p)
    BY <2>1, <2>5, OpenProgress, FlushProgress, FillProgress
  <2>6. CASE EnsureStorage(p) \/ Commit(p) \/ DeleteRow(p)
    BY <2>6, EnsureProgress, CommitProgress, DeleteRowProgress
  <2>7. CASE ReplaceDoc(p) \/ DeleteOthers(p) \/ DeleteDoc(p)
    BY <2>1, <2>7, ReplaceProgress, DeleteOthersProgress, DeleteDocProgress
  <2>8. CASE WriteConfig(p)
    BY <2>8, ConfigProgress
  <2>9. ~CreateOnRead(p)
    BY DEF CreateOnRead
  <2>. QED  BY <2>3, <2>4, <2>5, <2>6, <2>7, <2>8, <2>9 DEF Step
<1>. QED  BY <1>1, ProgressIsPromised

LEMMA InformedFromStart == Init => Informed
<1>. SUFFICES ASSUME Init PROVE Known /\ Ready
  BY DEF Informed
<1>1. \A p \in Proc : ~Running(proc[p])
  BY IdleFields DEF Init, Running, Ends
<1>2. Ready
  <2>1. PICK start \in Initial : cfg = start.cfg /\ store = Holding(backend, start.content)
    BY DEF Init
  <2>2. SUFFICES ASSUME backend \in SqlBackend, cfg = 1 PROVE store.keyTab = NoTable
    BY DEF Ready, ReadyFor, Alike
  <2>3. Good(start.content) /\ start.content.schema <= start.cfg
    BY InitialAssumption DEF Good
  <2>4. start.content.schema = 1
    BY <2>1, <2>2, <2>3, GoodContent
  <2>5. backend \in Backend
    BY <2>2 DEF Backend
  <2>6. Holding(backend, start.content).keyTab =
          IF start.content.schema = 2 THEN KeyRows(start.content) ELSE NoTable
    BY <2>2, <2>3, <2>5, HeldStore
  <2>. QED  BY <2>1, <2>4, <2>6
<1>. QED  BY <1>1, <1>2 DEF Known

(* A step of the commands, while nothing goes wrong *)
LEMMA NextIsPromised ==
    ASSUME Inv, Inv', Lone, Informed, Next, mishap' = {}
    PROVE  mishap = {} /\ Known' /\ Ready' /\ Promised(Listed, Listed')
<1>1. PICK p \in Proc : Begin(p) \/ Step(p) \/ Kill(p)
  BY DEF Next
<1>2. mishap = {}
  BY <1>1, WhatHasHappened DEF Inv
<1>3. Solo /\ (Types /\ Fits)'
  BY <1>2 DEF Inv, Lone, Informed, Clean, Solo
<1>4. CASE Begin(p)
  <2>1. PICK op, place : Start(p, op, place) /\ place \in {"read", "remove", "confirm", "plan"}
    BY <1>4, BeginStarts
  <2>2. Types /\ Fits /\ Ready
    BY <1>3 DEF Solo
  <2>. QED  BY <1>2, <1>3, <2>1, <2>2, StartIsQuiet DEF Promised
<1>5. CASE Step(p) \/ Kill(p)
  BY <1>2, <1>3, <1>5, StepIsPromised
<1>. QED  BY <1>1, <1>4, <1>5

LEMMA InformedIsKept == Inv /\ Inv' /\ Lone /\ Informed /\ [Next]_vars => Informed'
<1>1. ASSUME Informed, UNCHANGED vars PROVE Informed'
  BY <1>1 DEF Informed, Known, Ready, vars
<1>. QED  BY <1>1, NextIsPromised DEF Informed

(* A promise kept is a step of the directory. *)
LEMMA PromisedIsServed ==
    ASSUME Promised(Listed, Listed'), mishap = {}, mishap' = {}
    PROVE  [D!Next]_(D!dvars)
<1>1. CASE Listed' = Listed
  BY <1>1 DEF D!dvars, Listed
<1>2. CASE \E r \in Requests : Serves(r, Listed, Listed')
  <2>1. PICK r \in Requests : Serves(r, Listed, Listed')
    BY <1>2
  <2>2. PICK S \in SUBSET About(r), s \in Schema, t \in Schema :
           /\ Asked(r, s, Listed) # Rejected
           /\ Listed' = [u \in (DOMAIN Listed \ S) \cup (DOMAIN Answer(r, s, t, Listed) \cap S) |->
                            IF u \in S THEN Answer(r, s, t, Listed)[u] ELSE Listed[u]]
    BY <2>1 DEF Serves
  <2>3. D!Apply(r, [schema |-> s, users |-> Listed]) = Asked(r, s, Listed)
    BY SameRequests DEF Asked
  <2>4. D!Stored([D!Apply(r, [schema |-> s, users |-> Listed]) EXCEPT !.schema = t]).users
          = Answer(r, s, t, Listed)
    BY <2>3, SameStored DEF Answer
  <2>5. Listed' = D!Served(r, S, s, t)
    BY <2>2, <2>4 DEF D!Served, Listed
  <2>6. D!Serve(r)
    BY <2>2, <2>3, <2>5, SameAbout DEF D!Serve, Listed, Schema, D!Schema
  <2>. QED  BY <2>6 DEF D!Next
<1>. QED  BY <1>1, <1>2 DEF Promised

(* The provider of an operator who works alone is the directory: its users *)
(* change only as a request says and only for whom the request is about,   *)
(* through every operation a write is made of, every migration, and every  *)
(* command killed where it leaves nothing half-done.                       *)
THEOREM LoneCommandsKeepIt == Spec => LoneCommandsKeepTheDirectory
<1>1. Init => D!Init
  <2>1. SUFFICES ASSUME Init PROVE D!Init
    OBVIOUS
  <2>2. Types /\ Fits /\ mishap = {}
    BY <2>1, InvFromStart DEF Inv, Clean, Init
  <2>3. Filling = {} /\ Committing = {}
    BY <2>1, IdleFields DEF Init, Filling, Committing
  <2>4. IsUsers(Listed)
    BY <2>2, <2>3, RestIsListed
  <2>. QED  BY <2>2, <2>4 DEF D!Init, Listed, IsUsers, D!IsUsers, SFTPUser, D!SFTPUser, KeyObject, D!KeyObject
<1>2. Inv /\ Inv' /\ Lone /\ Informed /\ [Next]_vars => [D!Next]_(D!dvars)
  <2>1. SUFFICES ASSUME Inv, Inv', Lone, Informed, [Next]_vars PROVE [D!Next]_(D!dvars)
    OBVIOUS
  <2>2. CASE UNCHANGED vars
    BY <2>2 DEF vars, D!dvars, Directory, Filling, Committing, Content
  <2>3. CASE Next /\ mishap' = {}
    BY <2>1, <2>3, NextIsPromised, PromisedIsServed
  <2>4. CASE mishap' # {}
    BY <2>4 DEF D!Next
  <2>. QED  BY <2>1, <2>2, <2>3, <2>4
<1>3. Spec => []Inv
  BY InvIsInvariant
<1>. QED  BY <1>1, <1>2, <1>3, LoneFromStart, LoneIsKept, InformedFromStart, InformedIsKept, PTL
          DEF Spec, LoneCommandsKeepTheDirectory, D!Spec
=============================================================================
