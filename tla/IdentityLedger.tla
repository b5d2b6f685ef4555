--------------------------- MODULE IdentityLedger ---------------------------
(***************************************************************************)
(* The promise of docs/configuration.md:236 about the identities of SFTP   *)
(* users: "Runtime currently preserves allocations through state for       *)
(* existing users".  The ledger knows the UID of every user that ever had  *)
(* one.  A step may enter users, but it neither forgets one nor changes a  *)
(* UID, unless the provider pins the user to the new one.                  *)
(***************************************************************************)
EXTENDS Naturals

CONSTANTS
    User,
    Pins       \* the <<user, uid>> pairs some provider content states

VARIABLE ledger

Init == ledger = [u \in User |-> 0]

Preserves(u) ==
    \/ ledger[u] = 0
    \/ ledger'[u] = ledger[u]
    \/ <<u, ledger'[u]>> \in Pins

Record ==
    /\ ledger' \in [User -> Nat]
    /\ \A u \in User : Preserves(u)

Spec == Init /\ [][Record]_ledger
=============================================================================
