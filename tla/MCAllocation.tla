---------------------------- MODULE MCAllocation ----------------------------
(***************************************************************************)
(* Every content of up to three users that are automatic, or pinned to an  *)
(* id of the allocation range, against every state.json over two ids.      *)
(***************************************************************************)
EXTENDS Allocation, SequencesExt

CONSTANTS alice, bob, carol, k1, h1

MCUser == {alice, bob, carol}
MCExpiry == [k \in {k1} |-> 1]

Auto == [disabled |-> FALSE, hash |-> h1, keys |-> {}, uid |-> 0, gid |-> 0,
         comment |-> FALSE]

MCSpec == {Auto, [Auto EXCEPT !.uid = 2], [Auto EXCEPT !.gid = 1]}

MCContent ==
    UNION {{c \in [users : {s}, spec : [ToSet(s) -> MCSpec]] : WellFormed(c)} :
             s \in {t \in BoundedSeq(MCUser, 3) : IsInjective(t)}}
=============================================================================
