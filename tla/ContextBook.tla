---------------------------- MODULE ContextBook ----------------------------
(***************************************************************************)
(* What contexts.toml promises the user of one shell: a book of contexts   *)
(* that every command changes in one step, where it was asked to and       *)
(* nowhere else (docs/configuration.md:636, `contexts` is "Managed by      *)
(* `init`, `context add`, `context rename`, and `context remove`", and     *)
(* docs/operations.md:101 for contexts whose folder is gone).              *)
(*                                                                         *)
(* Nothing is promised from the moment on where two commands overlap or    *)
(* one is killed.                                                          *)
(***************************************************************************)
EXTENDS FiniteSets

CONSTANTS Name, NoName, NoRoot, NoEntry

VARIABLES
    book,     \* [entry, default]
    raced     \* commands have overlapped, or one was killed

Names(b) == {n \in Name : b.entry[n] # NoEntry}
Rooted(b) == {n \in Names(b) : b.entry[n].root # NoRoot}

Init ==
    /\ book.default # NoName => book.default \in Names(book)
    /\ raced = FALSE

OnlyChanges(S) == \A n \in Name \ S : book'.entry[n] = book.entry[n]

(* A context is registered, replaced or changed. *)
Put(n) ==
    /\ OnlyChanges({n})
    /\ n \in Names(book')
    /\ \/ book'.default = book.default
       \/ book.default = NoName /\ book'.default = n

(* One context, or contexts with a local folder, are taken out. *)
Forget(S) ==
    /\ OnlyChanges(S)
    /\ S \cap Names(book') = {}
    /\ Cardinality(S) = 1 \/ S \subseteq Rooted(book)
    /\ \/ book'.default = book.default
       \/ /\ book.default \in S
          /\ \/ book'.default \in Names(book')
             \/ book'.default = NoName /\ Names(book') = {}

(* The context keeps what it is, and the default follows the name. *)
Rename(n, m) ==
    /\ OnlyChanges({n, m})
    /\ book'.entry[m] = book.entry[n]
    /\ n # m => n \notin Names(book')
    /\ book'.default = IF book.default = n THEN m ELSE book.default

ChooseDefault ==
    /\ book'.entry = book.entry
    /\ book'.default \in Names(book') \cup {NoName}

Next ==
    \/ raced'
    \/ /\ ~raced'
       /\ \/ \E n \in Name : Put(n)
          \/ \E S \in SUBSET Names(book) : Forget(S)
          \/ \E n \in Names(book), m \in Name : Rename(n, m)
          \/ ChooseDefault

Spec == Init /\ [][Next]_<<book, raced>>
=============================================================================
