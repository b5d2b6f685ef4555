-------------------------- MODULE MCUserCommands --------------------------
(* Two users, two keys and two processes; every operation once or twice. *)
EXTENDS UserCommands, TLC

CONSTANTS alice, bob, k1, k2, laptop, p1, p2

Symmetry == Permutations(Proc)

For(op, u) == [Request(op) EXCEPT !.user = u]

Named(k, off) == [name |-> laptop, key |-> k, disabled |-> off, expired |-> FALSE]
SFTP(pw, keys) == [password |-> pw, disabled |-> FALSE, keys |-> keys]

Old == [schema |-> 1, users |-> (alice :> [SFTP(TRUE, Anonymous({k1})) EXCEPT !.disabled = TRUE] @@ bob :> SFTP(FALSE, Anonymous({k2})))]
Shared == [schema |-> 1, users |-> (alice :> SFTP(TRUE, Anonymous({k1})) @@ bob :> SFTP(FALSE, Anonymous({k1})))]
New == [schema |-> 2, users |-> (alice :> SFTP(TRUE, Anonymous({k1})) @@ bob :> SFTP(TRUE, {Named(k2, TRUE)}))]

Passwords == [Old EXCEPT !.users[bob].password = TRUE]

MCInitial == {[cfg |-> 1, content |-> Old], [cfg |-> 2, content |-> Old],
              [cfg |-> 1, content |-> Passwords], [cfg |-> 2, content |-> Passwords],
              [cfg |-> 2, content |-> New], [cfg |-> 2, content |-> Shared]}

Unmigrated == {[cfg |-> 2, content |-> Passwords]}
ReadAndDeploy == {Request("list"), Request("deploy")}

Brought(s) == [schema |-> s, users |-> (alice :> SFTP(TRUE, {Named(k1, TRUE)}))]

MCRequests ==
    {Request("list"), Request("deploy"),
     [Request("migrate") EXCEPT !.backup = FALSE], Request("migrate"),
     [Request("set schema") EXCEPT !.to = 1], Request("set schema"),
     For("disable", alice), For("enable", alice), For("remove", alice), [For("update", bob) EXCEPT !.password = TRUE],
     [For("create", alice) EXCEPT !.keys = {k2}],
     [For("update", alice) EXCEPT !.keys = {k2}],
     [For("key add", alice) EXCEPT !.keys = {k2}, !.label = laptop],
     [For("key remove", alice) EXCEPT !.id = k1],
     [For("key disable", alice) EXCEPT !.id = k1],
     [For("key enable", bob) EXCEPT !.id = laptop],
     [For("key expire", alice) EXCEPT !.id = k1],
     [For("key rename", alice) EXCEPT !.id = k1, !.label = laptop],
     [For("key import", alice) EXCEPT !.keys = {k2}, !.label = laptop],
     [For("key rotate", alice) EXCEPT !.id = k1, !.keys = {k2}],
     [For("key disable", bob) EXCEPT !.id = k2, !.dry = TRUE],
     [Request("migrate") EXCEPT !.dry = TRUE],
     [Request("merge") EXCEPT !.source = Brought(2)],
     [Request("replace") EXCEPT !.source = [Brought(1) EXCEPT !.users[alice].keys = Anonymous({k1})]],
     [Request("copy") EXCEPT !.source = Brought(2)]}
=============================================================================
