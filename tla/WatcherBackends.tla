-------------------------- MODULE WatcherBackends --------------------------
(***************************************************************************)
(* The schedulers a watcher can be installed in (watcher/backends/): the   *)
(* commands each one is activated and deactivated with, and what those     *)
(* commands need and do on the host.                                       *)
(*                                                                         *)
(* What the host knows of the watcher in one scheduler is a set of facts:  *)
(*   "file"     the file generated under the home of SFTPWarden            *)
(*   "placed"   its copy where the scheduler looks                         *)
(*   "known"    the scheduler has read it                                  *)
(*   "boot"     it is started again after a reboot                         *)
(*   "up"       it runs                                                    *)
(* Paths, rendered texts, users and images are left out; a command is      *)
(* named by its program and verb.                                          *)
(***************************************************************************)
EXTENDS Sequences, FiniteSets, Integers

Fact == {"file", "placed", "known", "boot", "up"}

(* auto_priority, native_scheduler and the two plans of each backend *)
SystemdUnitStays ==
    [priority |-> 30, native |-> TRUE,
     commands |-> <<"install", "reload", "enable_now">>,
     uninstall_commands |-> <<"disable_now", "reload">>]

Systemd ==
    [priority |-> 30, native |-> TRUE,
     commands |-> <<"install", "reload", "enable_now">>,
     uninstall_commands |-> <<"disable_now", "rm", "reload">>]

OpenRC ==
    [priority |-> 40, native |-> TRUE,
     commands |-> <<"install", "rc-update_add", "rc-service_start">>,
     uninstall_commands |-> <<"rc-service_stop", "rc-update_del", "rm">>]

Runit ==
    [priority |-> 50, native |-> TRUE,
     commands |-> <<"mkdir", "install", "ln", "sv_up">>,
     uninstall_commands |-> <<"sv_down", "rm_link", "rm">>]

SupervisordRereadOnly ==
    [priority |-> 60, native |-> TRUE,
     commands |-> <<"install", "reread", "supervisorctl_start">>,
     uninstall_commands |-> <<"supervisorctl_stop", "rm", "reread", "update">>]

Supervisord ==
    [priority |-> 60, native |-> TRUE,
     commands |-> <<"install", "reread", "update", "supervisorctl_start">>,
     uninstall_commands |-> <<"supervisorctl_stop", "rm", "reread", "update">>]

Launchd ==
    [priority |-> 20, native |-> TRUE,
     commands |-> <<"mkdir", "install", "load">>,
     uninstall_commands |-> <<"unload", "rm">>]

WindowsTask ==
    [priority |-> 10, native |-> TRUE,
     commands |-> <<"schtasks_create", "schtasks_run">>,
     uninstall_commands |-> <<"schtasks_delete">>]

(* of a packaged SFTPWarden; a source checkout and --image do not pull *)
Docker ==
    [priority |-> 1000, native |-> FALSE,
     commands |-> <<"pull", "compose_up">>,
     uninstall_commands |-> <<"compose_down">>]

Mode == {"systemd", "openrc", "runit", "supervisord", "launchd", "windows-task", "docker"}

watcher_class(mode) ==
    CASE mode = "systemd" -> Systemd
      [] mode = "openrc" -> OpenRC
      [] mode = "runit" -> Runit
      [] mode = "supervisord" -> Supervisord
      [] mode = "launchd" -> Launchd
      [] mode = "windows-task" -> WindowsTask
      [] mode = "docker" -> Docker

Native(supported) == {m \in supported : watcher_class(m).native}

(* detect_native_watcher_mode: the first of auto_priority's order *)
DetectNative(supported) ==
    CHOOSE m \in Native(supported) :
        \A n \in Native(supported) : watcher_class(m).priority <= watcher_class(n).priority
-----------------------------------------------------------------------------
(* The schedulers themselves: commands of the host, not of SFTPWarden. *)

(* Facts without which the command exits with an error; launchctl's load   *)
(* and unload exit 0 whatever they find.                                   *)
Needs(cmd) ==
    CASE cmd \in {"install", "pull", "compose_up", "compose_down"} -> {"file"}
      [] cmd \in {"enable_now", "disable_now", "rc-update_add", "rc-service_start",
                  "rc-service_stop"} -> {"placed"}
      [] cmd \in {"rc-update_del", "sv_up", "sv_down"} -> {"boot"}
      [] cmd \in {"supervisorctl_start", "supervisorctl_stop", "schtasks_run",
                  "schtasks_delete"} -> {"known"}
      [] OTHER -> {}

Works(cmd, facts) == Needs(cmd) \subseteq facts

(* supervisord starts a program it learns of (autostart), stops and forgets *)
(* one whose file is gone; runsvdir starts what is linked, and stops it     *)
(* when the link is gone.                                                   *)
After(cmd, facts) ==
    LET if_placed == IF "placed" \in facts THEN {"boot", "up"} ELSE {}
    IN  CASE cmd = "install" -> facts \cup {"placed"}
          [] cmd = "rm" -> facts \ {"placed"}
          [] cmd = "reload" -> IF "placed" \in facts THEN facts \cup {"known"} ELSE facts \ {"known"}
          [] cmd \in {"ln", "load"} -> facts \cup if_placed
          [] cmd = "rc-update_add" -> facts \cup {"boot"}
          [] cmd = "rc-update_del" -> facts \ {"boot"}
          [] cmd \in {"enable_now", "compose_up"} -> facts \cup {"boot", "up"}
          [] cmd \in {"disable_now", "rm_link", "unload", "compose_down"} -> facts \ {"boot", "up"}
          [] cmd \in {"rc-service_start", "sv_up", "supervisorctl_start", "schtasks_run"} ->
               facts \cup {"up"}
          [] cmd \in {"rc-service_stop", "sv_down", "supervisorctl_stop"} -> facts \ {"up"}
          [] cmd = "update" ->
               IF "placed" \notin facts THEN facts \ {"known", "boot", "up"}
               ELSE facts \cup {"known", "boot"} \cup (IF "known" \in facts THEN {} ELSE {"up"})
          [] cmd = "schtasks_create" -> facts \cup {"known", "boot"}
          [] cmd = "schtasks_delete" -> facts \ {"known", "boot"}
          [] OTHER -> facts
=============================================================================
