-------------------------- MODULE MCWatcherInstall --------------------------
(* Hosts with one or two schedulers, two contexts, two invocations. *)
EXTENDS WatcherInstall, TLC

CONSTANTS c1, c2, p1, p2

Symmetry == Permutations(Proc)

MCHosts == {{"systemd", "docker"}, {"openrc", "runit"}, {"launchd", "supervisord"}, {"docker"}}

Ask(op, mode) == [op |-> op, mode |-> mode, activate |-> TRUE, yes |-> TRUE, context |-> c1]

MCRequests ==
    {Ask("install", m) : m \in {"auto", "docker", "runit", "supervisord"}}
    \cup {[Ask("install", "auto") EXCEPT !.yes = FALSE],
          [Ask("install", "docker") EXCEPT !.activate = FALSE],
          Ask("uninstall", NoMode), Ask("default-provider", NoMode),
          Ask("add", NoMode), Ask("add", "docker"),
          [Ask("add", "auto") EXCEPT !.context = c2, !.yes = FALSE],
          Ask("remove", NoMode), [Ask("remove", NoMode) EXCEPT !.context = c2],
          Ask("convert", NoMode), [Ask("convert", NoMode) EXCEPT !.yes = FALSE]}
=============================================================================
