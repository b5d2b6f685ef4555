-------------------------- MODULE AllocationProofs --------------------------
(***************************************************************************)
(* Theorems about Allocation: what the loop of allocate_users hands out,   *)
(* and that it computes the declarative allocation of ProviderData.        *)
(***************************************************************************)
EXTENDS Allocation, FiniteSetTheorems, TLAPS

ContentOK ==
    /\ Len(content.users) \in Nat /\ DOMAIN content.users = 1 .. Len(content.users)
    /\ \A i \in DOMAIN content.users : content.users[i] \in User
    /\ \A i, j \in DOMAIN content.users : content.users[i] = content.users[j] => i = j
    /\ Names(content) \subseteq User
    /\ \A u \in Names(content) : content.spec[u] \in UserSpec

(* The users that are resolved are those before the position of the loop. *)
Progress ==
    /\ \A i \in DOMAIN content.users : i < at <=> Done(content.users[i])
    /\ \A u \in User \ Names(content) : ~Done(u)
    /\ seen_ids = {uid[u] : u \in {w \in Names(content) : Done(w)}}
    /\ \A u, w \in Names(content) : Done(u) /\ Done(w) /\ uid[u] = uid[w] => u = w

(* What a resolved user has got. *)
Identities ==
    \A u \in Names(content) : Done(u) =>
       /\ FixedUid(content, su, u) # 0 => uid[u] = FixedUid(content, su, u)
       /\ FixedUid(content, su, u) = 0 =>
             /\ uid[u] \in FreeIds(content, su)
             /\ IsNthFree(content, su, Turn(content, su, u), uid[u])
       /\ gid[u] = IF content.spec[u].gid # 0 THEN content.spec[u].gid
                   ELSE IF su[u] # 0 THEN sg[u] ELSE uid[u]

(* The users among the first i that need a new id *)
Needing(i) ==
    {j \in DOMAIN content.users : j <= i /\ FixedUid(content, su, content.users[j]) = 0}

(* The new ids handed out so far *)
Given == used_ids \ UsedIds(content, su)

(* The cursor has passed exactly the ids that are in use or handed out. *)
Cursor ==
    /\ next_id \in Nat /\ next_id >= FirstId
    /\ UsedIds(content, su) \subseteq used_ids
    /\ Given \subseteq FreeIds(content, su)
    /\ \A x \in FreeIds(content, su) : x < next_id => x \in Given
    /\ \A x \in Given : x <= next_id
    /\ Cardinality(Given) = Cardinality(Needing(at - 1))

IInv ==
    /\ TypeOK /\ ContentOK
    /\ result # "raised" => ExplicitIdsUnique(content)
    /\ Progress /\ Identities /\ Cursor

-----------------------------------------------------------------------------
(* Facts about the data *)

(* A content lists users, none of them twice, and defines each of them. *)
LEMMA ContentFacts == ASSUME content \in Content PROVE ContentOK
<1>1. WellFormed(content)
  BY ContentAssumption
<1>2. content.users \in Seq(User) /\ content.spec \in [Names(content) -> UserSpec]
  BY <1>1 DEF WellFormed
<1>3. \A i, j \in DOMAIN content.users : content.users[i] = content.users[j] => i = j
  BY <1>1 DEF WellFormed
<1>. QED  BY <1>2, <1>3 DEF ContentOK, Names

(* The free ids are a finite set of numbers. *)
LEMMA FreeIdsFinite ==
    ASSUME NEW c, NEW s
    PROVE  /\ IsFiniteSet(FreeIds(c, s))
           /\ FreeIds(c, s) \subseteq Nat \ {0}
           /\ \A S \in SUBSET FreeIds(c, s) :
                 IsFiniteSet(S) /\ Cardinality(S) <= Cardinality(FreeIds(c, s))
<1>1. IsFiniteSet(FirstId .. LastId)
  BY FS_Interval, IdAssumption
<1>2. FreeIds(c, s) \subseteq FirstId .. LastId
  BY DEF FreeIds
<1>3. IsFiniteSet(FreeIds(c, s))
  BY <1>1, <1>2, FS_Subset
<1>4. FirstId .. LastId \subseteq Nat \ {0}
  BY IdAssumption
<1>5. \A S \in SUBSET FreeIds(c, s) :
         IsFiniteSet(S) /\ Cardinality(S) <= Cardinality(FreeIds(c, s))
  BY <1>3, FS_Subset
<1>. QED  BY <1>2, <1>3, <1>4, <1>5

(* At most one free id is the n-th. *)
LEMMA NthFreeUnique ==
    ASSUME NEW c, NEW s, NEW n, NEW x \in FreeIds(c, s), NEW y \in FreeIds(c, s),
           IsNthFree(c, s, n, x), IsNthFree(c, s, n, y)
    PROVE  x = y
<1>. DEFINE UpTo(z) == {f \in FreeIds(c, s) : f <= z}
<1>1. x \in Nat /\ y \in Nat /\ \A z : UpTo(z) \in SUBSET FreeIds(c, s)
  BY FreeIdsFinite
<1>2. ASSUME NEW a \in FreeIds(c, s), NEW b \in FreeIds(c, s), a < b
      PROVE  Cardinality(UpTo(a)) # Cardinality(UpTo(b))
  <2>1. a \in Nat /\ b \in Nat /\ FreeIds(c, s) \subseteq Nat
    BY FreeIdsFinite
  <2>2. UpTo(a) \subseteq UpTo(b) /\ b \in UpTo(b) /\ b \notin UpTo(a)
    BY <1>2, <2>1
  <2>3. IsFiniteSet(UpTo(b))
    BY FreeIdsFinite
  <2>4. UpTo(a) # UpTo(b)
    BY <2>2
  <2>5. Cardinality(UpTo(a)) < Cardinality(UpTo(b))
    BY <2>2, <2>3, <2>4, FS_Subset, FS_CardinalityType
  <2>6. Cardinality(UpTo(a)) \in Nat /\ Cardinality(UpTo(b)) \in Nat
    BY <2>2, <2>3, FS_Subset, FS_CardinalityType
  <2>. QED  BY <2>5, <2>6
<1>3. Cardinality(UpTo(x)) = n /\ Cardinality(UpTo(y)) = n
  BY DEF IsNthFree
<1>4. ~(x < y) /\ ~(y < x)
  BY <1>2, <1>3
<1>. QED  BY <1>1, <1>4

(* The users up to position i that need a new id are finitely many; i is   *)
(* one more than i - 1 exactly if it needs one itself.                     *)
LEMMA NeedingNext ==
    ASSUME ContentOK, NEW i \in DOMAIN content.users
    PROVE  /\ Cardinality(Needing(i - 1)) \in Nat
           /\ FixedUid(content, su, content.users[i]) # 0 => Needing(i) = Needing(i - 1)
           /\ FixedUid(content, su, content.users[i]) = 0 =>
                 Cardinality(Needing(i)) = Cardinality(Needing(i - 1)) + 1
<1>1. i \in Nat /\ DOMAIN content.users \subseteq Nat
  BY DEF ContentOK
<1>2. IsFiniteSet(DOMAIN content.users)
  BY FS_Interval DEF ContentOK
<1>3. IsFiniteSet(Needing(i - 1))
  <2>1. Needing(i - 1) \subseteq DOMAIN content.users
    BY DEF Needing
  <2>. QED  BY <1>2, <2>1, FS_Subset
<1>4. i \notin Needing(i - 1)
  BY <1>1 DEF Needing
<1>5. CASE FixedUid(content, su, content.users[i]) # 0
  <2>1. Needing(i) = Needing(i - 1)
    BY <1>1, <1>5 DEF Needing
  <2>. QED  BY <1>3, <1>5, <2>1, FS_CardinalityType
<1>6. CASE FixedUid(content, su, content.users[i]) = 0
  <2>1. Needing(i) = Needing(i - 1) \cup {i}
    BY <1>1, <1>6 DEF Needing
  <2>. QED  BY <1>3, <1>4, <1>6, <2>1, FS_AddElement, FS_CardinalityType
<1>. QED  BY <1>5, <1>6

(* The turn of the user at position i counts who needs an id up to there. *)
LEMMA TurnCounts ==
    ASSUME ContentOK, NEW i \in DOMAIN content.users
    PROVE  Turn(content, su, content.users[i]) = Cardinality(Needing(i))
<1>1. {k \in DOMAIN content.users :
          /\ FixedUid(content, su, content.users[k]) = 0
          /\ \A j \in DOMAIN content.users : content.users[j] = content.users[i] => k <= j}
        = Needing(i)
  BY DEF ContentOK, Needing
<1>. QED  BY <1>1 DEF Turn

(* The ids of the content and of the state are numbers. *)
LEMMA IdsAreNumbers ==
    ASSUME TypeOK, ContentOK
    PROVE  /\ \A u \in Names(content) : FixedUid(content, su, u) \in Nat
           /\ UsedIds(content, su) \subseteq Nat \ {0}
           /\ \A u \in Names(content) :
                 FixedUid(content, su, u) # 0 =>
                    FixedUid(content, su, u) \in UsedIds(content, su)
BY DEF TypeOK, ContentOK, FixedUid, UsedIds, UserSpec

-----------------------------------------------------------------------------
(* The inductive invariant *)

LEMMA InitIInv == Init => IInv
<1> SUFFICES ASSUME Init PROVE IInv
  OBVIOUS
<1>1. ContentOK
  BY ContentFacts DEF Init
<1>2. su \in [User -> Nat] /\ sg \in [User -> Nat]
  <2>1. su \in [User -> SavedIds \cup {0}] /\ sg \in [User -> SavedIds \cup {0}]
    BY DEF Init
  <2>2. SavedIds \cup {0} \subseteq Nat
    BY SavedIdsAssumption
  <2>. QED  BY <2>1, <2>2
<1>3. UsedIds(content, su) \subseteq Nat
  BY <1>1, <1>2 DEF ContentOK, UsedIds, UserSpec
<1>4. TypeOK
  BY <1>1, <1>2, <1>3, IdAssumption DEF Init, TypeOK, ContentOK, ZeroIds
<1>5. \A u \in User : ~Done(u)
  BY DEF Init, Done, ZeroIds
<1>6. Progress
  BY <1>1, <1>5 DEF Init, Progress, ContentOK
<1>7. Identities
  BY <1>1, <1>5 DEF Identities, ContentOK
<1>8. Cursor
  <2>1. Given = {}
    BY DEF Init, Given
  <2>2. Needing(at - 1) = {}
    BY <1>1 DEF Init, Needing, ContentOK
  <2>3. \A x \in FreeIds(content, su) : ~(x < next_id)
    BY IdAssumption DEF Init, FreeIds
  <2>. QED  BY <2>1, <2>2, <2>3, IdAssumption DEF Init, Cursor
<1>9. result # "raised" => ExplicitIdsUnique(content)
  BY DEF Init
<1>. QED  BY <1>1, <1>4, <1>6, <1>7, <1>8, <1>9 DEF IInv

(* The user at the position of the loop is not resolved yet. *)
LEMMA CurrentIsNext ==
    ASSUME IInv, Running
    PROVE  /\ at \in DOMAIN content.users /\ at \in Nat /\ at + 1 \in 1 .. Len(content.users) + 1
           /\ Current \in Names(content) /\ Current \in User
           /\ ~Done(Current)
<1>1. at \in DOMAIN content.users /\ at \in Nat
  BY DEF Running, IInv, TypeOK, ContentOK
<1>2. Current \in Names(content) /\ Current \in User
  BY <1>1 DEF Current, Names, IInv, ContentOK
<1>3. ~Done(Current)
  BY <1>1 DEF Current, IInv, Progress
<1>. QED  BY <1>1, <1>2, <1>3 DEF IInv, ContentOK

(* The rest of an iteration keeps what is known of the resolved users. *)
LEMMA ResolveKeeps ==
    ASSUME IInv, Running, NEW id \in Nat \ {0}, Resolve(id),
           ~NeedsNewId => id = FixedUid(content, su, Current),
           NeedsNewId => /\ id \in FreeIds(content, su)
                         /\ IsNthFree(content, su, Turn(content, su, Current), id)
    PROVE  /\ at' = at + 1 /\ at' \in 1 .. Len(content.users) + 1
           /\ UNCHANGED <<input, next_id, result>>
           /\ seen_ids' \subseteq Nat /\ uid' \in [User -> Nat] /\ gid' \in [User -> Nat]
           /\ ContentOK' /\ Progress' /\ Identities'
<1> DEFINE cur == Current
<1>1. /\ at \in DOMAIN content.users /\ at \in Nat /\ at + 1 \in 1 .. Len(content.users) + 1
      /\ cur \in Names(content) /\ cur \in User /\ ~Done(cur) /\ cur = content.users[at]
  BY CurrentIsNext DEF Current
<1>2. /\ at' = at + 1 /\ UNCHANGED <<content, su, sg, next_id, result>>
      /\ id \notin seen_ids /\ seen_ids' = seen_ids \cup {id}
      /\ uid' = [uid EXCEPT ![cur] = id]
      /\ gid' = [gid EXCEPT ![cur] = IF content.spec[cur].gid # 0 THEN content.spec[cur].gid
                                     ELSE IF su[cur] # 0 THEN sg[cur] ELSE id]
  BY DEF Resolve, input
<1>3. /\ TypeOK /\ ContentOK /\ Progress /\ Identities
  BY DEF IInv
<1>4. content.spec[cur].gid \in Nat /\ sg[cur] \in Nat
  BY <1>1, <1>3 DEF ContentOK, UserSpec, TypeOK
<1>5. uid' \in [User -> Nat] /\ gid' \in [User -> Nat] /\ seen_ids' \subseteq Nat
  BY <1>2, <1>3, <1>4 DEF TypeOK
<1>6. ContentOK'
  BY <1>2, <1>3 DEF ContentOK
<1>7. Names(content)' = Names(content)
  BY <1>2
<1>8. /\ uid'[cur] = id
      /\ \A u \in User \ {cur} : uid'[u] = uid[u] /\ gid'[u] = gid[u]
      /\ gid'[cur] = IF content.spec[cur].gid # 0 THEN content.spec[cur].gid
                     ELSE IF su[cur] # 0 THEN sg[cur] ELSE id
  BY <1>1, <1>2, <1>3 DEF TypeOK
<1>9. uid'[cur] # 0 /\ \A u \in User \ {cur} : uid'[u] # 0 <=> Done(u)
  BY <1>8 DEF Done
<1>10. Progress'
  <2>1. \A i \in DOMAIN content.users : i < at + 1 <=> uid'[content.users[i]] # 0
    <3>1. SUFFICES ASSUME NEW i \in DOMAIN content.users
                   PROVE  i < at + 1 <=> uid'[content.users[i]] # 0
      OBVIOUS
    <3>2. i \in Nat /\ content.users[i] \in User
      BY <1>3 DEF ContentOK
    <3>3. CASE i = at
      BY <3>2, <3>3, <1>1, <1>9
    <3>4. CASE i # at
      <4>1. content.users[i] # cur
        BY <3>4, <1>1, <1>3 DEF ContentOK
      <4>2. uid'[content.users[i]] # 0 <=> Done(content.users[i])
        BY <4>1, <3>2, <1>9
      <4>3. Done(content.users[i]) <=> i < at
        BY <1>3 DEF Progress
      <4>. QED  BY <4>2, <4>3, <3>2, <3>4, <1>1
    <3>. QED  BY <3>3, <3>4
  <2>2. \A u \in User \ Names(content) : uid'[u] = 0
    BY <1>1, <1>3, <1>9 DEF Progress
  <2>3. seen_ids' = {uid'[u] : u \in {w \in Names(content) : uid'[w] # 0}}
    <3> DEFINE Old == {w \in Names(content) : Done(w)}
               New == {w \in Names(content) : uid'[w] # 0}
    <3>1. New = Old \cup {cur}
      <4>1. \A w \in Names(content) : uid'[w] # 0 <=> Done(w) \/ w = cur
        BY <1>1, <1>3, <1>9 DEF ContentOK
      <4>. QED  BY <4>1, <1>1
    <3>2. \A w \in Names(content) : Done(w) => w # cur /\ uid'[w] = uid[w]
      BY <1>1, <1>3, <1>8 DEF ContentOK
    <3>3. seen_ids = {uid[u] : u \in {w \in Names(content) : Done(w)}}
      BY <1>3 DEF Progress
    <3>. QED  BY <3>1, <3>2, <3>3, <1>2, <1>8
  <2>4. \A u, w \in Names(content) :
           uid'[u] # 0 /\ uid'[w] # 0 /\ uid'[u] = uid'[w] => u = w
    <3>1. \A w \in Names(content) \ {cur} : uid'[w] # 0 => uid'[w] \in seen_ids
      BY <1>3, <1>8, <1>9 DEF Progress, ContentOK
    <3>2. \A u, w \in Names(content) \ {cur} :
             uid'[u] # 0 /\ uid'[w] # 0 /\ uid'[u] = uid'[w] => u = w
      BY <1>3, <1>8, <1>9 DEF Progress, ContentOK
    <3>. QED  BY <3>1, <3>2, <1>2, <1>8
  <2>. QED  BY <2>1, <2>2, <2>3, <2>4, <1>2 DEF Progress, Done
<1>11. Identities'
  <2>1. SUFFICES ASSUME NEW u \in Names(content), uid'[u] # 0
                 PROVE  /\ FixedUid(content, su, u) # 0 => uid'[u] = FixedUid(content, su, u)
                        /\ FixedUid(content, su, u) = 0 =>
                              /\ uid'[u] \in FreeIds(content, su)
                              /\ IsNthFree(content, su, Turn(content, su, u), uid'[u])
                        /\ gid'[u] = IF content.spec[u].gid # 0 THEN content.spec[u].gid
                                     ELSE IF su[u] # 0 THEN sg[u] ELSE uid'[u]
    BY <1>2 DEF Identities, Done
  <2>2. CASE u = cur
    BY <2>2, <1>8 DEF NeedsNewId
  <2>3. CASE u # cur
    <3>1. uid'[u] = uid[u] /\ gid'[u] = gid[u] /\ Done(u)
      BY <2>1, <2>3, <1>3, <1>8, <1>9 DEF ContentOK
    <3>. QED  BY <3>1, <1>3 DEF Identities
  <2>. QED  BY <2>2, <2>3
<1>. QED  BY <1>1, <1>2, <1>5, <1>6, <1>10, <1>11 DEF input

(* Taking the free id at the cursor makes it the one the user's turn asks  *)
(* for: the ids handed out before are the free ids below it.               *)
LEMMA CursorIsNthFree ==
    ASSUME IInv, Running, NeedsNewId, next_id \notin used_ids, next_id <= LastId
    PROVE  /\ next_id \in FreeIds(content, su)
           /\ IsNthFree(content, su, Turn(content, su, Current), next_id)
           /\ Cardinality(Given \cup {next_id}) = Cardinality(Needing(at))
<1>1. Cursor /\ ContentOK /\ at \in DOMAIN content.users
  BY CurrentIsNext DEF IInv
<1>2. next_id \in FreeIds(content, su)
  BY <1>1, IdAssumption DEF Cursor, FreeIds
<1>3. {x \in FreeIds(content, su) : x <= next_id} = Given \cup {next_id}
  <2>1. FreeIds(content, su) \subseteq Nat
    BY FreeIdsFinite
  <2>. QED  BY <1>1, <1>2, <2>1 DEF Cursor
<1>4. next_id \notin Given /\ IsFiniteSet(Given)
  <2>1. Given \in SUBSET FreeIds(content, su)
    BY <1>1 DEF Cursor
  <2>. QED  BY <2>1, FreeIdsFinite DEF Given
<1>5. Cardinality(Given \cup {next_id}) = Cardinality(Given) + 1
  BY <1>4, FS_AddElement
<1>6. Cardinality(Needing(at)) = Cardinality(Needing(at - 1)) + 1
  BY <1>1, NeedingNext DEF NeedsNewId, Current
<1>7. Cardinality(Given \cup {next_id}) = Cardinality(Needing(at))
  BY <1>1, <1>5, <1>6 DEF Cursor
<1>8. Turn(content, su, Current) = Cardinality(Needing(at))
  BY <1>1, TurnCounts DEF Current
<1>. QED  BY <1>2, <1>3, <1>7, <1>8 DEF IsNthFree

LEMMA StepIInv == IInv /\ [Next]_vars => IInv'
<1> SUFFICES ASSUME IInv, [Next]_vars PROVE IInv'
  OBVIOUS
<1> USE DEF input
<1>1. CASE SkipUsedId
  <2>1. /\ Running /\ next_id \in used_ids /\ next_id' = next_id + 1
        /\ UNCHANGED <<content, su, sg, at, used_ids, seen_ids, uid, gid, result>>
    BY <1>1 DEF SkipUsedId
  <2>2. TypeOK' /\ ContentOK' /\ Progress' /\ Identities'
    <3>1. TypeOK'
      BY <2>1 DEF IInv, TypeOK
    <3>2. ContentOK'
      BY <2>1 DEF IInv, ContentOK
    <3>3. Progress'
      BY <2>1 DEF IInv, Progress, Done
    <3>4. Identities'
      BY <2>1 DEF IInv, Identities, Done
    <3>. QED  BY <3>1, <3>2, <3>3, <3>4
  <2>3. Cursor'
    <3>1. Given' = Given /\ Needing(at - 1)' = Needing(at - 1)
      BY <2>1 DEF Given, Needing
    <3>2. FreeIds(content, su) \subseteq Nat /\ next_id \in Nat
      BY FreeIdsFinite DEF IInv, Cursor
    <3>3. \A x \in FreeIds(content, su) : x < next_id + 1 => x \in Given
      <4>1. \A x \in FreeIds(content, su) : x < next_id + 1 => x < next_id \/ x = next_id
        BY <3>2
      <4>2. next_id \in FreeIds(content, su) => next_id \in Given
        BY <2>1 DEF FreeIds, Given
      <4>. QED  BY <4>1, <4>2 DEF IInv, Cursor
    <3>4. \A x \in Given : x <= next_id + 1
      BY <3>2 DEF IInv, Cursor
    <3>. QED  BY <2>1, <3>1, <3>2, <3>3, <3>4, IdAssumption DEF IInv, Cursor
  <2>. QED  BY <2>1, <2>2, <2>3 DEF IInv
<1>2. CASE TakeNextId
  <2>1. /\ Running /\ NeedsNewId /\ next_id \notin used_ids /\ next_id <= LastId
        /\ used_ids' = used_ids \cup {next_id} /\ Resolve(next_id)
    BY <1>2 DEF TakeNextId
  <2>2. /\ next_id \in FreeIds(content, su)
        /\ IsNthFree(content, su, Turn(content, su, Current), next_id)
        /\ Cardinality(Given \cup {next_id}) = Cardinality(Needing(at))
    BY <2>1, CursorIsNthFree
  <2>3. next_id \in Nat \ {0}
    BY <2>2, FreeIdsFinite
  <2>4. /\ at' = at + 1 /\ at' \in 1 .. Len(content.users) + 1
        /\ UNCHANGED <<content, su, sg, next_id, result>>
        /\ seen_ids' \subseteq Nat /\ uid' \in [User -> Nat] /\ gid' \in [User -> Nat]
        /\ ContentOK' /\ Progress' /\ Identities'
    BY <2>1, <2>2, <2>3, ResolveKeeps
  <2>5. TypeOK'
    BY <2>1, <2>3, <2>4 DEF IInv, TypeOK
  <2>6. Cursor'
    <3>1. Given' = Given \cup {next_id}
      BY <2>1, <2>2, <2>4 DEF Given, FreeIds
    <3>2. Needing(at - 1)' = Needing(at)
      <4>1. at' - 1 = at
        BY <2>4 DEF IInv, TypeOK
      <4>. QED  BY <4>1, <2>4 DEF Needing
    <3>3. \A x \in Given \cup {next_id} : x <= next_id
      BY <2>3 DEF IInv, Cursor
    <3>. QED  BY <2>1, <2>2, <2>4, <3>1, <3>2, <3>3 DEF IInv, Cursor
  <2>. QED  BY <2>4, <2>5, <2>6 DEF IInv
<1>3. CASE KeepId
  <2>1. Running /\ ~NeedsNewId /\ Resolve(FixedUid(content, su, Current)) /\ used_ids' = used_ids
    BY <1>3 DEF KeepId
  <2>2. FixedUid(content, su, Current) \in Nat \ {0}
    BY <2>1, CurrentIsNext, IdsAreNumbers DEF NeedsNewId, IInv
  <2>3. /\ at' = at + 1 /\ at' \in 1 .. Len(content.users) + 1
        /\ UNCHANGED <<content, su, sg, next_id, result>>
        /\ seen_ids' \subseteq Nat /\ uid' \in [User -> Nat] /\ gid' \in [User -> Nat]
        /\ ContentOK' /\ Progress' /\ Identities'
    BY <2>1, <2>2, ResolveKeeps
  <2>4. TypeOK'
    BY <2>1, <2>3 DEF IInv, TypeOK
  <2>5. Cursor'
    <3>1. Given' = Given
      BY <2>1, <2>3 DEF Given
    <3>2. Needing(at - 1)' = Needing(at - 1)
      <4>1. at' - 1 = at
        BY <2>3 DEF IInv, TypeOK
      <4>2. Needing(at) = Needing(at - 1)
        BY <2>1, CurrentIsNext, NeedingNext DEF IInv, NeedsNewId, Current
      <4>3. Needing(at - 1)' = Needing(at)
        BY <4>1, <2>3 DEF Needing
      <4>. QED  BY <4>2, <4>3
    <3>. QED  BY <2>1, <2>3, <3>1, <3>2 DEF IInv, Cursor
  <2>. QED  BY <2>3, <2>4, <2>5 DEF IInv
<1>4. CASE UNCHANGED <<content, su, sg, at, next_id, used_ids, seen_ids, uid, gid>>
           /\ (result' = "raised" \/ (result = "running" /\ result' = "returned") \/ result' = result)
  <2>1. TypeOK' /\ ContentOK'
    BY <1>4 DEF IInv, TypeOK, ContentOK
  <2>2. Progress'
    BY <1>4 DEF IInv, Progress, Done
  <2>3. Identities'
    BY <1>4 DEF IInv, Identities, Done
  <2>4. Cursor'
    BY <1>4 DEF IInv, Cursor, Given, Needing
  <2>5. result' # "raised" => ExplicitIdsUnique(content)'
    BY <1>4 DEF IInv
  <2>. QED  BY <2>1, <2>2, <2>3, <2>4, <2>5 DEF IInv
<1>5. CASE RaiseExhausted \/ RaiseDuplicate \/ Return \/ UNCHANGED vars
  BY <1>4, <1>5 DEF RaiseExhausted, RaiseDuplicate, Return, vars
<1>. QED  BY <1>1, <1>2, <1>3, <1>5 DEF Next

LEMMA Invariant == Spec => []IInv
BY InitIInv, StepIInv, PTL DEF Spec

-----------------------------------------------------------------------------
(* Theorems *)

(* The loop's variables keep their types: the position never leaves the    *)
(* list, ids are numbers.                                                  *)
THEOREM TypeCorrect == Spec => []TypeOK
<1>1. IInv => TypeOK
  BY DEF IInv
<1>. QED  BY <1>1, Invariant, PTL

(* For every content and every saved state, an id that allocate_uid hands  *)
(* out is in the range of the configuration and nobody else's, neither by  *)
(* the provider nor by state.json.                                         *)
THEOREM FreshIds == Spec => []NewIdsAreFresh
<1>1. IInv => NewIdsAreFresh
  <2>1. SUFFICES ASSUME IInv, NEW u \in Names(content), Done(u),
                        FixedUid(content, su, u) = 0
                 PROVE  /\ uid[u] \in FirstId .. LastId
                        /\ \A w \in Names(content) \ {u} :
                              uid[u] \notin {uid[w], su[w], content.spec[w].uid,
                                             content.spec[w].gid}
    BY DEF NewIdsAreFresh
  <2>2. uid[u] \in FirstId .. LastId /\ uid[u] \notin UsedIds(content, su) /\ uid[u] # 0
    BY <2>1 DEF IInv, Identities, FreeIds, Done
  <2>3. \A w \in Names(content) \ {u} : uid[w] # uid[u]
    BY <2>1, <2>2 DEF IInv, Progress, Done
  <2>4. \A w \in Names(content) :
           uid[u] # su[w] /\ uid[u] # content.spec[w].uid /\ uid[u] # content.spec[w].gid
    BY <2>2 DEF UsedIds
  <2>. QED  BY <2>2, <2>3, <2>4
<1>. QED  BY <1>1, Invariant, PTL

(* A user whom state.json knows keeps the identity it records, unless the  *)
(* provider pins another.                                                  *)
THEOREM SavedIdsKept == Spec => []SavedIdsPreserved
<1>1. IInv => SavedIdsPreserved
  BY DEF IInv, Identities, SavedIdsPreserved, FixedUid
<1>. QED  BY <1>1, Invariant, PTL

(* How a call ends *)
Outcome ==
    /\ result = "raised" => ~AllocationSucceeds(content, su)
    /\ result = "returned" => at \notin DOMAIN content.users

(* A resolved user has the identity of the declarative allocation, if that *)
(* has one for everybody.                                                  *)
LEMMA DoneAsDefined ==
    ASSUME IInv, NEW u \in Names(content), Done(u)
    PROVE  /\ uid[u] = ResolvedUid(content, su, u)
           /\ gid[u] = ResolvedGid(content, su, sg, u)
           /\ FixedUid(content, su, u) = 0 => IdRemains(content, su, u)
<1>1. CASE FixedUid(content, su, u) # 0
  BY <1>1 DEF IInv, Identities, ResolvedUid, ResolvedGid
<1>2. CASE FixedUid(content, su, u) = 0
  <2>1. /\ uid[u] \in FreeIds(content, su)
        /\ IsNthFree(content, su, Turn(content, su, u), uid[u])
    BY <1>2 DEF IInv, Identities
  <2>2. NewUid(content, su, u) \in FreeIds(content, su)
        /\ IsNthFree(content, su, Turn(content, su, u), NewUid(content, su, u))
    BY <2>1 DEF NewUid
  <2>3. uid[u] = NewUid(content, su, u)
    BY <2>1, <2>2, NthFreeUnique
  <2>. QED  BY <1>2, <2>1, <2>3 DEF IInv, Identities, ResolvedUid, ResolvedGid, IdRemains
<1>. QED  BY <1>1, <1>2

(* When the range is exhausted, no id remains for the current user. *)
LEMMA ExhaustedFails ==
    ASSUME IInv, RaiseExhausted
    PROVE  ~AllocationSucceeds(content, su)
<1>1. /\ Running /\ NeedsNewId /\ next_id > LastId
      /\ Cursor /\ ContentOK /\ at \in DOMAIN content.users /\ Current \in Names(content)
  BY CurrentIsNext DEF RaiseExhausted, IInv
<1>2. Given = FreeIds(content, su)
  <2>1. \A x \in FreeIds(content, su) : x \in Nat /\ x <= LastId
    BY FreeIdsFinite, IdAssumption DEF FreeIds
  <2>. QED  BY <1>1, <2>1, IdAssumption DEF Cursor
<1>3. Turn(content, su, Current) = Cardinality(FreeIds(content, su)) + 1
      /\ Cardinality(FreeIds(content, su)) \in Nat
  BY <1>1, <1>2, NeedingNext, TurnCounts DEF Cursor, NeedsNewId, Current
<1>4. ASSUME NEW x \in FreeIds(content, su)
      PROVE  ~IsNthFree(content, su, Turn(content, su, Current), x)
  <2>1. {f \in FreeIds(content, su) : f <= x} \in SUBSET FreeIds(content, su)
    OBVIOUS
  <2>2. Cardinality({f \in FreeIds(content, su) : f <= x}) <= Cardinality(FreeIds(content, su))
        /\ Cardinality({f \in FreeIds(content, su) : f <= x}) \in Nat
    BY <2>1, FreeIdsFinite, FS_CardinalityType
  <2>. QED  BY <1>3, <2>2 DEF IsNthFree
<1>5. ~IdRemains(content, su, Current) /\ FixedUid(content, su, Current) = 0
  BY <1>1, <1>4 DEF IdRemains, NeedsNewId
<1>. QED  BY <1>1, <1>5 DEF AllocationSucceeds

(* When a UID is refused as a duplicate, two users would have it. *)
LEMMA DuplicateFails ==
    ASSUME IInv, RaiseDuplicate
    PROVE  ~AllocationSucceeds(content, su)
<1>1. /\ Running /\ Current \in Names(content) /\ ~Done(Current)
      /\ TypeOK /\ ContentOK /\ Progress /\ Identities /\ Cursor
  BY CurrentIsNext DEF RaiseDuplicate, IInv
<1>2. CASE NeedsNewId
  <2>1. next_id \in seen_ids /\ next_id \notin used_ids
    BY <1>2 DEF RaiseDuplicate
  <2>2. PICK w \in Names(content) : Done(w) /\ uid[w] = next_id
    BY <1>1, <2>1 DEF Progress
  <2>3. CASE FixedUid(content, su, w) # 0
    <3>1. next_id \in UsedIds(content, su)
      BY <1>1, <2>2, <2>3, IdsAreNumbers DEF Identities
    <3>. QED  BY <1>1, <2>1, <3>1 DEF Cursor
  <2>4. CASE FixedUid(content, su, w) = 0
    <3>1. /\ next_id \in FreeIds(content, su)
          /\ IsNthFree(content, su, Turn(content, su, w), next_id)
      BY <1>1, <2>2, <2>4 DEF Identities
    <3>2. next_id <= LastId
      BY <3>1, FreeIdsFinite DEF FreeIds
    <3>3. /\ IsNthFree(content, su, Turn(content, su, Current), next_id)
          /\ Cardinality(Needing(at)) = Cardinality(Given \cup {next_id})
      BY <1>1, <1>2, <2>1, <3>2, CursorIsNthFree
    <3>4. PICK i \in DOMAIN content.users : content.users[i] = w
      BY DEF Names
    <3>5. /\ i < at /\ at \in DOMAIN content.users /\ i \in Nat /\ at \in Nat
          /\ content.users[at] = Current
      BY <1>1, <2>2, <3>4, CurrentIsNext DEF Progress, ContentOK, Current
    <3>6. Turn(content, su, w) = Cardinality(Needing(i))
          /\ Turn(content, su, Current) = Cardinality(Needing(at))
      BY <1>1, <3>4, <3>5, TurnCounts
    <3>7. Cardinality(Needing(i)) <= Cardinality(Needing(at - 1))
      <4>1. IsFiniteSet(DOMAIN content.users)
        BY <1>1, FS_Interval DEF ContentOK
      <4>2. Needing(at - 1) \in SUBSET DOMAIN content.users
            /\ Needing(i) \in SUBSET Needing(at - 1)
        BY <1>1, <3>5 DEF Needing, ContentOK
      <4>. QED  BY <4>1, <4>2, FS_Subset
    <3>8. Cardinality(Needing(at)) = Cardinality(Needing(at - 1)) + 1
          /\ Cardinality(Needing(at - 1)) \in Nat
      BY <1>1, <1>2, <3>5, NeedingNext DEF NeedsNewId
    <3>9. Cardinality(Needing(i)) = Cardinality(Needing(at))
      BY <3>1, <3>3, <3>6 DEF IsNthFree
    <3>10. Cardinality(Needing(i)) \in Nat
      BY <3>8, <3>9
    <3>. QED  BY <3>7, <3>8, <3>9, <3>10
  <2>. QED  BY <2>3, <2>4
<1>3. CASE ~NeedsNewId
  <2>1. FixedUid(content, su, Current) \in seen_ids
    BY <1>3 DEF RaiseDuplicate
  <2>2. PICK w \in Names(content) : Done(w) /\ uid[w] = FixedUid(content, su, Current)
    BY <1>1, <2>1 DEF Progress
  <2>3. ResolvedUid(content, su, w) = ResolvedUid(content, su, Current)
    BY <1>3, <2>2, DoneAsDefined DEF ResolvedUid, NeedsNewId
  <2>4. w # Current
    BY <1>1, <2>2
  <2>. QED  BY <1>1, <2>3, <2>4 DEF AllocationSucceeds, UidsDistinct
<1>. QED  BY <1>2, <1>3

(* The loop of allocate_users raises exactly when the declarative          *)
(* allocation does not exist, and computes it otherwise: what the Runtime  *)
(* module takes in one step is what the code does.                         *)
THEOREM LoopIsDefinition == Spec => []LoopMatchesDefinition
<1>1. Init => Outcome
  BY DEF Init, Outcome, AllocationSucceeds
<1>2. IInv /\ Outcome /\ [Next]_vars => Outcome'
  <2>1. SUFFICES ASSUME IInv, Outcome, [Next]_vars PROVE Outcome'
    OBVIOUS
  <2>2. CASE UNCHANGED vars
    BY <2>1, <2>2 DEF Outcome, vars
  <2>3. CASE SkipUsedId \/ TakeNextId \/ KeepId
    <3>1. result' = result /\ result = "running"
      BY <2>3 DEF SkipUsedId, TakeNextId, KeepId, Resolve, Running
    <3>. QED  BY <3>1 DEF Outcome
  <2>4. CASE RaiseExhausted
    BY <2>1, <2>4, ExhaustedFails DEF RaiseExhausted, Outcome, input
  <2>5. CASE RaiseDuplicate
    BY <2>1, <2>5, DuplicateFails DEF RaiseDuplicate, Outcome, input
  <2>6. CASE Return
    BY <2>6 DEF Return, Outcome, input
  <2>. QED  BY <2>1, <2>2, <2>3, <2>4, <2>5, <2>6 DEF Next
<1>3. IInv /\ Outcome => LoopMatchesDefinition
  <2>1. SUFFICES ASSUME IInv, Outcome, result = "returned"
                 PROVE  /\ AllocationSucceeds(content, su)
                        /\ \A u \in Names(content) :
                              /\ uid[u] = ResolvedUid(content, su, u)
                              /\ gid[u] = ResolvedGid(content, su, sg, u)
    BY DEF LoopMatchesDefinition, Outcome
  <2>2. \A i \in DOMAIN content.users : i < at
    <3>1. at \in 1 .. Len(content.users) + 1 /\ at \notin 1 .. Len(content.users)
          /\ DOMAIN content.users = 1 .. Len(content.users) /\ Len(content.users) \in Nat
      BY <2>1 DEF Outcome, IInv, TypeOK, ContentOK
    <3>. QED  BY <3>1
  <2>3. \A u \in Names(content) : Done(u)
    BY <2>1, <2>2 DEF IInv, Progress, Names
  <2>4. \A u \in Names(content) :
           /\ uid[u] = ResolvedUid(content, su, u)
           /\ gid[u] = ResolvedGid(content, su, sg, u)
           /\ FixedUid(content, su, u) = 0 => IdRemains(content, su, u)
    BY <2>1, <2>3, DoneAsDefined
  <2>5. UidsDistinct(content, su)
    BY <2>1, <2>3, <2>4 DEF IInv, Progress, UidsDistinct
  <2>. QED  BY <2>1, <2>4, <2>5 DEF IInv, AllocationSucceeds
<1>. QED  BY <1>1, <1>2, <1>3, Invariant, PTL DEF Spec
=============================================================================
