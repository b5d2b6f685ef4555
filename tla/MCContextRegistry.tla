------------------------- MODULE MCContextRegistry -------------------------
(* Two names, two folders: every way to share a folder, to take a name that *)
(* is in use, to be the last synced context.                                *)
EXTENDS ContextRegistry, TLC

CONSTANTS alpha, beta, r1, r2

\* no property tells one invocation from the other
Invocations == Permutations(Cli)

From(a, b, d, p1, p2) ==
    [registry |-> [entry |-> (alpha :> a @@ beta :> b), default |-> d],
     project |-> (r1 :> p1 @@ r2 :> p2)]
Local(r) == [kind |-> "local", root |-> r]
Synced(r) == [kind |-> "sync", root |-> r]
RemoteOnly == [kind |-> "remoteOnly", root |-> NoRoot]

\* a shared folder; the last synced context beside a remote-only one, and
\* beside a local one whose folder is missing
MCInitial ==
    {From(Local(r1), Local(r1), beta, alpha, NoConfig),
     From(Synced(r1), RemoteOnly, alpha, alpha, beta),
     From(Synced(r1), Local(r2), beta, alpha, Gone)}

\* a new machine with one project folder
FreshInitial == {From(NoEntry, NoEntry, NoName, alpha, Gone)}
=============================================================================
