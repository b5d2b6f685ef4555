----------------------------- MODULE MCWatcher -----------------------------
(* Two contexts, two hosts and two contents of one size.                   *)
EXTENDS Watcher, TLC

CONSTANTS alpha, beta, old, new

MCRank == (alpha :> 1) @@ (beta :> 2)
MCSize == (old :> 2) @@ (new :> 2) @@ (Partial :> 1) @@ (Absent :> 0)
=============================================================================
