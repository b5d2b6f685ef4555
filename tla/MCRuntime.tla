------------------------------ MODULE MCRuntime ------------------------------
(***************************************************************************)
(* Small instances of Runtime: alice and bob, a key that expires and       *)
(* contents in which a user is added, removed, disabled and pinned.        *)
(***************************************************************************)
EXTENDS Runtime, TLC

CONSTANTS alice, bob, k1, k2, h1, h2

MCUser == {alice, bob}
MCExpiry == k1 :> 1 @@ k2 :> 9

Account(h, ks) ==
    [disabled |-> FALSE, hash |-> h, keys |-> ks, uid |-> 0, gid |-> 0,
     comment |-> FALSE]

Solo(u, s) == [users |-> <<u>>, spec |-> u :> s]
Pair(u, s, w, t) == [users |-> <<u, w>>, spec |-> u :> s @@ w :> t]

OnlyAlice == Solo(alice, Account(h1, {}))
AliceDisabled ==
    Pair(alice, [Account(h1, {k2}) EXCEPT !.disabled = TRUE], bob, Account(NoHash, {k2}))
BobExpiring == Pair(alice, Account(h2, {}), bob, Account(h1, {k1}))
OnlyBob == Solo(bob, Account(NoHash, {k2}))
BobPinned == Solo(bob, [Account(NoHash, {k2}) EXCEPT !.uid = 2])
Commented == Solo(alice, [Account(h1, {}) EXCEPT !.comment = TRUE])
Rehashed == Solo(alice, Account(h2, {}))

MCContent ==
    {EmptyContent, OnlyAlice, Commented, Rehashed, AliceDisabled, BobExpiring,
     OnlyBob, BobPinned}

\* for the run with a refresh beside the loop
SharedContent == {OnlyAlice, Rehashed, AliceDisabled, BobExpiring, OnlyBob, BobPinned}
=============================================================================
