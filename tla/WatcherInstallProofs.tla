------------------------ MODULE WatcherInstallProofs ------------------------
(***************************************************************************)
(* Theorems about WatcherInstall: its types; that the Docker watcher is    *)
(* not left with a context that was removed; that the metadata says what   *)
(* runs, and nothing is left behind in a scheduler it does not name; and   *)
(* that an install that finds nothing recorded works.                      *)
(***************************************************************************)
EXTENDS WatcherInstall, FiniteSetTheorems, SequenceTheorems, TLAPS

(* A plan does jobs in schedulers, and then may save the metadata. *)
Command ==
    {"", "install", "rm", "mkdir", "reload", "enable_now", "disable_now",
     "rc-update_add", "rc-service_start", "rc-service_stop", "rc-update_del",
     "ln", "sv_up", "sv_down", "rm_link",
     "reread", "update", "supervisorctl_start", "supervisorctl_stop",
     "load", "unload", "schtasks_create", "schtasks_run", "schtasks_delete",
     "pull", "compose_up", "compose_down"}
Job == [do : {"run", "unlink", "contexts", "write"}, mode : Mode, cmd : Command]
Saving == {jobs \o SaveSteps : jobs \in Seq(Job)} \cup {<<Do("save", NoMode)>>}
Plan == Seq(Job) \cup Saving
WorkStep == [do : {"run", "unlink", "contexts", "write", "truncate", "save"},
          mode : Mode \cup {NoMode}, cmd : Command]

Lists(plan) == \E i \in 1 .. Len(plan) : plan[i].do = "contexts"

Invocation ==
    [pc : {"idle", "load", "work", "failed"}, req : Requests, left : SUBSET Context,
     was : Config, want : Config, todo : Plan, clean : BOOLEAN]

(* The Docker watcher's list holds no context that was removed. *)
Listed == watched \ contexts \subseteq converted

(* What holds inside a command that runs alone, wherever it is. *)
Loading(me) ==
    Recorded.mode = "docker" => Listed \/ me.req.op = "remove"

Planning(me) ==
    /\ me.todo = <<Do("save", NoMode)>> => global = Blank
    /\ me.todo \in Seq(Job) => me.want = Recorded
    /\ me.want.mode = "docker" => Listed \/ Lists(me.todo)

Lone ==
    /\ global # Broken
    /\ \A p, q \in Proc : Running(proc[p]) /\ Running(proc[q]) => p = q
    /\ \A p \in Proc : proc[p].pc = "load" => Loading(proc[p])
    /\ \A p \in Proc : proc[p].pc = "work" => Planning(proc[p])
    /\ AtRest /\ Recorded.mode = "docker" => Listed

Types ==
    /\ TypeOK
    /\ proc \in [Proc -> Invocation]

IInv == Types /\ (mishap = {} => Lone)
-----------------------------------------------------------------------------
(* Facts about plans *)

LEMMA Tuples ==
    ASSUME NEW S
    PROVE  /\ <<>> \in Seq(S)
           /\ \A a \in S : <<a>> \in Seq(S)
           /\ \A a, b \in S : <<a, b>> \in Seq(S)
           /\ \A a, b, c \in S : <<a, b, c>> \in Seq(S)
           /\ \A a, b, c, d \in S : <<a, b, c, d>> \in Seq(S)
OBVIOUS

LEMMA TupleParts ==
    ASSUME NEW a, NEW b
    PROVE  /\ Len(<<a>>) = 1 /\ <<a>>[1] = a /\ Head(<<a>>) = a /\ <<a>> # <<>>
           /\ Len(<<a, b>>) = 2 /\ <<a, b>>[1] = a /\ <<a, b>>[2] = b
           /\ Head(<<a, b>>) = a /\ Tail(<<a, b>>) = <<b>> /\ <<a, b>> # <<>>
OBVIOUS

LEMMA SaveFacts ==
    /\ SaveSteps \in Seq(WorkStep)
    /\ Len(SaveSteps) = 2
    /\ SaveSteps[1].do = "truncate" /\ SaveSteps[2].do = "save"
    /\ Head(SaveSteps).do = "truncate" /\ SaveSteps # <<>>
    /\ Tail(SaveSteps) = <<Do("save", NoMode)>>
    /\ Head(<<Do("save", NoMode)>>).do = "save"
    /\ <<Do("save", NoMode)>>[1].do = "save"
    /\ Len(<<Do("save", NoMode)>>) = 1
    /\ <<Do("save", NoMode)>> \in Seq(WorkStep) /\ <<Do("save", NoMode)>> # <<>>
    /\ Seq(Job) \subseteq Seq(WorkStep)
<1>1. Do("save", NoMode) \in WorkStep /\ Do("truncate", NoMode) \in WorkStep
  BY DEF Do, WorkStep, Command
<1>2. Job \subseteq WorkStep
  BY DEF Job, WorkStep
<1>3. Seq(Job) \subseteq Seq(WorkStep)
  BY <1>2, SeqMonotonic
<1>4. SaveSteps \in Seq(WorkStep) /\ <<Do("save", NoMode)>> \in Seq(WorkStep)
  BY <1>1 DEF SaveSteps
<1>5. Do("truncate", NoMode).do = "truncate" /\ Do("save", NoMode).do = "save"
  BY DEF Do
<1>. QED  BY <1>3, <1>4, <1>5, TupleParts DEF SaveSteps

LEMMA JobSteps ==
    ASSUME NEW mode \in Mode, NEW cmds \in Seq(Command),
           NEW what \in {"run", "unlink", "contexts", "write"}
    PROVE  Run(mode, cmds) \in Seq(Job) /\ Do(what, mode) \in Job
<1>1. Len(cmds) \in Nat /\ DOMAIN cmds = 1 .. Len(cmds) /\ \A i \in DOMAIN cmds : cmds[i] \in Command
  BY LenProperties, ElementOfSeq
<1>2. \A c \in Command : [do |-> "run", mode |-> mode, cmd |-> c] \in Job
  BY DEF Job
<1>3. Run(mode, cmds) = [i \in 1 .. Len(cmds) |-> [do |-> "run", mode |-> mode, cmd |-> cmds[i]]]
  BY <1>1 DEF Run
<1>4. Run(mode, cmds) \in [1 .. Len(cmds) -> Job]
  BY <1>1, <1>2, <1>3
<1>5. [1 .. Len(cmds) -> Job] \subseteq Seq(Job)
  BY <1>1, SeqDef
<1>6. "" \in Command
  BY DEF Command
<1>. QED  BY <1>4, <1>5, <1>6 DEF Do, Job

LEMMA CommandLists ==
    ASSUME NEW mode \in Mode
    PROVE  /\ watcher_class(mode).commands \in Seq(Command)
           /\ watcher_class(mode).uninstall_commands \in Seq(Command)
<1>1. /\ {"install", "rm", "mkdir", "reload", "enable_now", "disable_now"} \subseteq Command
      /\ {"rc-update_add", "rc-service_start", "rc-service_stop", "rc-update_del"} \subseteq Command
      /\ {"ln", "sv_up", "sv_down", "rm_link"} \subseteq Command
      /\ {"reread", "update", "supervisorctl_start", "supervisorctl_stop"} \subseteq Command
      /\ {"load", "unload"} \subseteq Command
      /\ {"schtasks_create", "schtasks_run", "schtasks_delete"} \subseteq Command
      /\ {"pull", "compose_up", "compose_down"} \subseteq Command
  BY DEF Command
<1>2. CASE mode = "systemd"  BY <1>1, <1>2, Tuples DEF watcher_class, Systemd
<1>3. CASE mode = "openrc"  BY <1>1, <1>3, Tuples DEF watcher_class, OpenRC
<1>4. CASE mode = "runit"  BY <1>1, <1>4, Tuples DEF watcher_class, Runit
<1>5. CASE mode = "supervisord"  BY <1>1, <1>5, Tuples DEF watcher_class, Supervisord
<1>6. CASE mode = "launchd"  BY <1>1, <1>6, Tuples DEF watcher_class, Launchd
<1>7. CASE mode = "windows-task"  BY <1>1, <1>7, Tuples DEF watcher_class, WindowsTask
<1>8. CASE mode = "docker"  BY <1>1, <1>8, Tuples DEF watcher_class, Docker
<1>. QED  BY <1>2, <1>3, <1>4, <1>5, <1>6, <1>7, <1>8 DEF Mode

(* Positions of two plans in the one that joins them *)
LEMMA Joined ==
    ASSUME NEW s \in Seq(WorkStep), NEW t \in Seq(WorkStep)
    PROVE  /\ s \o t \in Seq(WorkStep)
           /\ Lists(s) \/ Lists(t) => Lists(s \o t)
<1>1. s \o t \in Seq(WorkStep) /\ Len(s \o t) = Len(s) + Len(t)
        /\ Len(s) \in Nat /\ Len(t) \in Nat
  BY ConcatProperties, LenProperties
<1>2. \A i \in 1 .. Len(s) + Len(t) : (s \o t)[i] = IF i <= Len(s) THEN s[i] ELSE t[i - Len(s)]
  BY ConcatProperties
<1>3. \A i \in 1 .. Len(s) : (s \o t)[i] = s[i] /\ i \in 1 .. Len(s \o t)
  BY <1>1, <1>2
<1>4. ASSUME NEW i \in 1 .. Len(t)
      PROVE  (s \o t)[Len(s) + i] = t[i] /\ Len(s) + i \in 1 .. Len(s \o t)
  <2>1. Len(s) + i \in 1 .. Len(s) + Len(t) /\ ~ (Len(s) + i <= Len(s)) /\ (Len(s) + i) - Len(s) = i
    BY <1>1
  <2>. QED  BY <1>1, <1>2, <2>1
<1>. QED  BY <1>3, <1>4 DEF Lists

LEMMA SavesAfter ==
    ASSUME NEW s \in Seq(Job)
    PROVE  /\ s \o SaveSteps \in Saving
           /\ s \o SaveSteps \in Seq(WorkStep)
           /\ Len(s \o SaveSteps) = Len(s) + 2
           /\ s \o SaveSteps \notin Seq(Job)
           /\ s \o SaveSteps # <<>>
           /\ s \o SaveSteps # <<Do("save", NoMode)>>
<1>0. s \in Seq(WorkStep) /\ Len(s) \in Nat
  BY SaveFacts, LenProperties
<1>1. Len(s \o SaveSteps) = Len(s) + 2 /\ s \o SaveSteps \in Seq(WorkStep)
  <2>1. SaveSteps \in Seq(WorkStep) /\ Len(SaveSteps) = 2
    BY SaveFacts
  <2>2. s \o SaveSteps \in Seq(WorkStep) /\ Len(s \o SaveSteps) = Len(s) + Len(SaveSteps)
    BY <1>0, <2>1, ConcatProperties
  <2>. QED  BY <2>1, <2>2
<1>2. (s \o SaveSteps)[Len(s) + 2].do = "save"
  <2>1. Len(s) + 2 \in 1 .. Len(s) + 2 /\ ~ (Len(s) + 2 <= Len(s)) /\ (Len(s) + 2) - Len(s) = 2
    BY <1>0
  <2>2. \A i \in 1 .. Len(s) + Len(SaveSteps) :
          (s \o SaveSteps)[i] = IF i <= Len(s) THEN s[i] ELSE SaveSteps[i - Len(s)]
    BY <1>0, SaveFacts, ConcatProperties
  <2>. QED  BY <2>1, <2>2, SaveFacts
<1>3. s \o SaveSteps \notin Seq(Job)
  <2>1. SUFFICES ASSUME s \o SaveSteps \in Seq(Job) PROVE FALSE
    OBVIOUS
  <2>2. Len(s) + 2 \in 1 .. Len(s \o SaveSteps)
    BY <1>0, <1>1
  <2>3. (s \o SaveSteps)[Len(s) + 2] \in Job
    BY <2>1, <2>2, ElementOfSeq
  <2>. QED  BY <1>2, <2>3 DEF Job
<1>4. s \o SaveSteps # <<>> /\ s \o SaveSteps # <<Do("save", NoMode)>>
  <2>1. Len(<<Do("save", NoMode)>>) = 1 /\ Len(<<>>) = 0
    BY TupleParts, EmptySeq
  <2>2. Len(s) + 2 # 1 /\ Len(s) + 2 # 0
    BY <1>0
  <2>. QED  BY <1>1, <2>1, <2>2
<1>. QED  BY <1>1, <1>3, <1>4 DEF Saving

(* A plan that runs jobs only: what is left of it, too. *)
LEMMA JobPlan ==
    ASSUME NEW plan \in Seq(WorkStep), plan # <<>>
    PROVE  /\ Len(plan) \in Nat \ {0} /\ Head(plan) \in WorkStep
           /\ Tail(plan) \in Seq(WorkStep)
           /\ Len(plan) # 1 => Tail(plan) # <<>>
           /\ Head(plan).do # "contexts" /\ Lists(plan) => Len(plan) # 1 /\ Lists(Tail(plan))
           /\ plan \in Seq(Job) => Head(plan) \in Job /\ Tail(plan) \in Seq(Job)
<1>1. Len(plan) \in Nat \ {0}
  BY EmptySeq
<1>2. /\ Head(plan) \in WorkStep /\ Tail(plan) \in Seq(WorkStep) /\ Len(Tail(plan)) = Len(plan) - 1
      /\ \A i \in 1 .. Len(Tail(plan)) : Tail(plan)[i] = plan[i + 1]
  BY HeadTailProperties
<1>3. plan \in Seq(Job) => Head(plan) \in Job /\ Tail(plan) \in Seq(Job)
  BY HeadTailProperties
<1>4. Len(plan) # 1 => Tail(plan) # <<>>
  <2>1. Len(<<>>) = 0
    BY EmptySeq
  <2>2. Len(plan) # 1 => Len(Tail(plan)) # 0
    BY <1>1, <1>2
  <2>. QED  BY <2>1, <2>2
<1>5. ASSUME Head(plan).do # "contexts", Lists(plan)
      PROVE  Len(plan) # 1 /\ Lists(Tail(plan))
  <2>1. PICK i \in 1 .. Len(plan) : plan[i].do = "contexts"
    BY <1>5 DEF Lists
  <2>2. Head(plan) = plan[1]
    OBVIOUS
  <2>3. i # 1 /\ i - 1 \in 1 .. Len(Tail(plan)) /\ (i - 1) + 1 = i
    BY <1>1, <1>2, <1>5, <2>1, <2>2
  <2>4. Tail(plan)[i - 1].do = "contexts"
    BY <1>2, <2>1, <2>3
  <2>5. Len(plan) # 1
    BY <1>1, <2>1, <2>3
  <2>6. Lists(Tail(plan))
    BY <2>3, <2>4 DEF Lists
  <2>. QED  BY <2>5, <2>6
<1>. QED  BY <1>1, <1>2, <1>3, <1>4, <1>5

LEMMA HeadTailOfJoined ==
    ASSUME NEW S, NEW s \in Seq(S), NEW t \in Seq(S), s # <<>>
    PROVE  Head(s \o t) = Head(s) /\ Tail(s \o t) = Tail(s) \o t
<1>1. /\ s \o t \in Seq(S) /\ Len(s \o t) = Len(s) + Len(t)
      /\ Len(s) \in Nat \ {0} /\ Len(t) \in Nat
  BY ConcatProperties, LenProperties, EmptySeq
<1>2. \A i \in 1 .. Len(s) + Len(t) : (s \o t)[i] = IF i <= Len(s) THEN s[i] ELSE t[i - Len(s)]
  BY ConcatProperties
<1>3. s \o t # <<>>
  <2>1. Len(<<>>) = 0 /\ Len(s \o t) # 0
    BY <1>1, EmptySeq
  <2>. QED  BY <2>1
<1>4. Head(s) = s[1] /\ Head(s \o t) = (s \o t)[1]
  OBVIOUS
<1>5. /\ Tail(s) \in Seq(S) /\ Len(Tail(s)) = Len(s) - 1
      /\ \A i \in 1 .. Len(Tail(s)) : Tail(s)[i] = s[i + 1]
  BY HeadTailProperties
<1>6. /\ Tail(s \o t) \in Seq(S) /\ Len(Tail(s \o t)) = Len(s) + Len(t) - 1
      /\ \A i \in 1 .. Len(Tail(s \o t)) : Tail(s \o t)[i] = (s \o t)[i + 1]
  BY <1>1, <1>3, HeadTailProperties
<1>7. /\ Tail(s) \o t \in Seq(S) /\ Len(Tail(s) \o t) = Len(Tail(s)) + Len(t)
      /\ \A i \in 1 .. Len(Tail(s)) + Len(t) :
            (Tail(s) \o t)[i] = IF i <= Len(Tail(s)) THEN Tail(s)[i] ELSE t[i - Len(Tail(s))]
  BY <1>5, ConcatProperties
<1>8. ASSUME NEW i \in 1 .. Len(s) + Len(t) - 1
      PROVE  Tail(s \o t)[i] = (Tail(s) \o t)[i]
  <2>1. Tail(s \o t)[i] = IF i + 1 <= Len(s) THEN s[i + 1] ELSE t[i + 1 - Len(s)]
    BY <1>1, <1>2, <1>6
  <2>2. (Tail(s) \o t)[i] = IF i <= Len(s) - 1 THEN Tail(s)[i] ELSE t[i - (Len(s) - 1)]
    BY <1>1, <1>5, <1>7
  <2>3. CASE i + 1 <= Len(s)
    BY <1>1, <1>5, <2>1, <2>2, <2>3
  <2>4. CASE ~ (i + 1 <= Len(s))
    <3>1. ~ (i <= Len(s) - 1) /\ i - (Len(s) - 1) = i + 1 - Len(s)
      BY <1>1, <2>4
    <3>. QED  BY <2>1, <2>2, <2>4, <3>1
  <2>. QED  BY <2>3, <2>4
<1>9. Len(Tail(s \o t)) = Len(Tail(s) \o t) /\ Len(Tail(s \o t)) = Len(s) + Len(t) - 1
  BY <1>1, <1>5, <1>6, <1>7
<1>10. Tail(s \o t) = Tail(s) \o t
  BY <1>6, <1>7, <1>8, <1>9, SeqEqual
<1>11. (s \o t)[1] = s[1]
  BY <1>1, <1>2
<1>. QED  BY <1>4, <1>10, <1>11

(* Jobs that are left come before the two steps of the save. *)
LEMMA JobsBeforeSave ==
    ASSUME NEW jobs \in Seq(Job), jobs # <<>>
    PROVE  /\ Head(jobs \o SaveSteps) \in Job
           /\ Tail(jobs \o SaveSteps) = Tail(jobs) \o SaveSteps
<1>1. /\ jobs \in Seq(WorkStep) /\ Len(jobs) \in Nat \ {0} /\ Head(jobs) \in Job
      /\ Tail(jobs) \in Seq(Job) /\ Tail(jobs) \in Seq(WorkStep)
  BY SaveFacts, EmptySeq, HeadTailProperties
<1>2. SaveSteps \in Seq(WorkStep)
  BY SaveFacts
<1>3. Head(jobs \o SaveSteps) = Head(jobs) /\ Tail(jobs \o SaveSteps) = Tail(jobs) \o SaveSteps
  BY <1>1, <1>2, HeadTailOfJoined
<1>. QED  BY <1>1, <1>3

LEMMA PlanSteps ==
    ASSUME NEW plan \in Plan, plan # <<>>
    PROVE  /\ Head(plan).do = "truncate" => Len(plan) # 1
           /\ Head(plan).do = "save" => plan = <<Do("save", NoMode)>>
           /\ Head(plan).do \notin {"truncate", "save"} => Head(plan) \in Job
           /\ Len(plan) # 1 => Tail(plan) \in Plan /\ Tail(plan) # <<>>
           /\ Len(plan) # 1 /\ plan \in Saving => Tail(plan) \in Saving
           /\ Len(plan) # 1 /\ Tail(plan) = <<Do("save", NoMode)>> => Head(plan).do = "truncate"
           /\ Len(plan) = 1 => plan = <<Do("save", NoMode)>> \/ plan \in Seq(Job)
           /\ Head(plan).do # "contexts" /\ Lists(plan) => Len(plan) # 1 /\ Lists(Tail(plan))
<1>0. plan \in Seq(WorkStep)
  BY SaveFacts, SavesAfter DEF Plan, Saving
<1>1. CASE plan \in Seq(Job)
  <2>1. plan # <<Do("save", NoMode)>> /\ plan \notin Saving
    <3>1. Head(plan) \in Job
      BY <1>0, <1>1, JobPlan
    <3>2. plan # <<Do("save", NoMode)>>
      BY <3>1, SaveFacts DEF Job
    <3>. QED  BY <1>1, <3>2, SavesAfter DEF Saving
  <2>2. ASSUME Len(plan) # 1 PROVE Tail(plan) # <<Do("save", NoMode)>>
    <3>1. Tail(plan) \in Seq(Job) /\ Tail(plan) # <<>>
      BY <1>0, <1>1, <2>2, JobPlan
    <3>2. Head(Tail(plan)) \in Job
      BY <3>1, HeadTailProperties
    <3>. QED  BY <3>2, SaveFacts DEF Job
  <2>. QED  BY <1>0, <1>1, <2>1, <2>2, JobPlan DEF Plan, Job
<1>2. CASE plan = <<Do("save", NoMode)>>
  <2>1. Len(plan) = 1 /\ Head(plan).do = "save"
    BY <1>2, SaveFacts
  <2>. QED  BY <1>0, <1>2, <2>1, JobPlan
<1>3. CASE plan = SaveSteps
  <2>1. Head(plan).do = "truncate" /\ Len(plan) = 2 /\ Tail(plan) = <<Do("save", NoMode)>>
    BY <1>3, SaveFacts
  <2>. QED  BY <1>0, <2>1, JobPlan, SaveFacts DEF Saving, Plan
<1>4. ASSUME NEW jobs \in Seq(Job), plan = jobs \o SaveSteps, jobs # <<>>
      PROVE  /\ Head(plan) \in Job /\ Len(plan) # 1
             /\ Tail(plan) \in Saving /\ Tail(plan) # <<>> /\ Tail(plan) # <<Do("save", NoMode)>>
  <2>1. Head(plan) \in Job /\ Tail(plan) = Tail(jobs) \o SaveSteps /\ Tail(jobs) \in Seq(Job)
    BY <1>4, JobsBeforeSave, HeadTailProperties
  <2>2. Len(plan) # 1
    <3>1. Len(plan) = Len(jobs) + 2 /\ Len(jobs) \in Nat
      BY <1>4, SavesAfter, LenProperties
    <3>. QED  BY <3>1
  <2>. QED  BY <2>1, <2>2, SavesAfter
<1>5. plan \in Seq(Job) \/ plan = <<Do("save", NoMode)>> \/ plan = SaveSteps
        \/ \E jobs \in Seq(Job) : plan = jobs \o SaveSteps /\ jobs # <<>>
  <2>1. <<>> \o SaveSteps = SaveSteps
    BY SaveFacts, ConcatEmptySeq
  <2>. QED  BY <2>1 DEF Plan, Saving
<1>6. CASE \E jobs \in Seq(Job) : plan = jobs \o SaveSteps /\ jobs # <<>>
  BY <1>0, <1>4, <1>6, JobPlan DEF Plan, Job
<1>. QED  BY <1>1, <1>2, <1>3, <1>5, <1>6
-----------------------------------------------------------------------------
(* Facts about the commands' plans *)

LEMMA DoFields == ASSUME NEW what, NEW mode
                  PROVE  Do(what, mode).do = what /\ Do(what, mode).mode = mode
BY DEF Do

LEMMA FilesPlan ==
    ASSUME NEW mode \in Mode
    PROVE  /\ write_watcher_files(mode) \in Seq(Job) /\ write_watcher_files(mode) # <<>>
           /\ mode = "docker" => Lists(write_watcher_files(mode))
<1>1. Do("contexts", mode) \in Job /\ Do("write", mode) \in Job
  BY CommandLists, JobSteps
<1>2. /\ <<Do("contexts", mode), Do("write", mode)>> \in Seq(Job)
      /\ <<Do("write", mode)>> \in Seq(Job)
  BY <1>1, Tuples
<1>3. Lists(<<Do("contexts", mode), Do("write", mode)>>)
  <2>1. 1 \in 1 .. 2
    OBVIOUS
  <2>. QED  BY <2>1, TupleParts, DoFields DEF Lists
<1>. QED  BY <1>2, <1>3, TupleParts DEF write_watcher_files

LEMMA DeactivationPlan ==
    ASSUME NEW config \in Config, config.mode # NoMode
    PROVE  Deactivation(config) \in Seq(Job)
<1>1. config.mode \in Mode
  BY DEF Config
<1>2. watcher_class(config.mode).uninstall_commands \in Seq(Command)
  BY <1>1, CommandLists
<1>3. Run(config.mode, watcher_class(config.mode).uninstall_commands) \in Seq(Job)
        /\ Do("unlink", config.mode) \in Job
  BY <1>1, <1>2, JobSteps
<1>4. <<>> \in Seq(Job) /\ <<Do("unlink", config.mode)>> \in Seq(Job)
  BY <1>3, Tuples
<1>. QED  BY <1>3, <1>4, ConcatProperties DEF Deactivation

LEMMA JobsJoined ==
    ASSUME NEW s \in Seq(Job), NEW t \in Seq(Job)
    PROVE  /\ s \o t \in Seq(Job)
           /\ Lists(s) \/ Lists(t) => Lists(s \o t)
           /\ Lists(s) => Lists(s \o SaveSteps)
<1>1. s \in Seq(WorkStep) /\ t \in Seq(WorkStep) /\ SaveSteps \in Seq(WorkStep)
  BY SaveFacts
<1>2. s \o t \in Seq(Job)
  BY ConcatProperties
<1>. QED  BY <1>1, <1>2, Joined

LEMMA InstallPlan ==
    ASSUME NEW config \in Config, NEW mode \in Mode, NEW activate \in BOOLEAN
    PROVE  /\ InstallSteps(config, mode, activate) \in Saving
           /\ InstallSteps(config, mode, activate) \notin Seq(Job)
           /\ InstallSteps(config, mode, activate) # <<>>
           /\ InstallSteps(config, mode, activate) # <<Do("save", NoMode)>>
           /\ mode = "docker" => Lists(InstallSteps(config, mode, activate))
<1> DEFINE old == IF config.mode # NoMode THEN Deactivation(config) ELSE <<>>
           files == write_watcher_files(mode)
           start == IF activate THEN Run(mode, watcher_class(mode).commands) ELSE <<>>
<1>1. old \in Seq(Job)
  BY DeactivationPlan, Tuples
<1>2. files \in Seq(Job) /\ (mode = "docker" => Lists(files))
  BY FilesPlan
<1>3. start \in Seq(Job)
  BY CommandLists, JobSteps, Tuples
<1>4. old \o files \in Seq(Job) /\ (mode = "docker" => Lists(old \o files))
  BY <1>1, <1>2, JobsJoined
<1>5. old \o files \o start \in Seq(Job) /\ (mode = "docker" => Lists(old \o files \o start))
  BY <1>3, <1>4, JobsJoined
<1>6. InstallSteps(config, mode, activate) = (old \o files \o start) \o SaveSteps
  BY DEF InstallSteps
<1>. HIDE DEF old, files, start
<1>. QED  BY <1>5, <1>6, SavesAfter, JobsJoined

LEMMA RefreshPlan ==
    ASSUME NEW config \in Config
    PROVE  /\ RefreshSteps(config) \in Seq(Job) /\ RefreshSteps(config) # <<>>
           /\ Lists(RefreshSteps(config))
<1> DEFINE files == write_watcher_files("docker")
           start == IF config.activated THEN Run("docker", watcher_class("docker").commands) ELSE <<>>
<1>1. "docker" \in Mode
  BY DEF Mode
<1>2. files \in Seq(Job) /\ files # <<>> /\ Lists(files)
  BY <1>1, FilesPlan
<1>3. start \in Seq(Job)
  BY <1>1, CommandLists, JobSteps, Tuples
<1>4. RefreshSteps(config) = files \o start
  BY DEF RefreshSteps
<1>. HIDE DEF files, start
<1>. QED  BY <1>2, <1>3, <1>4, JobsJoined, ConcatEqualIffEmpty

LEMMA SaveOnly ==
    /\ SaveSteps \in Saving /\ SaveSteps \notin Seq(Job)
    /\ SaveSteps # <<>> /\ SaveSteps # <<Do("save", NoMode)>>
<1>1. <<>> \in Seq(Job) /\ <<>> \o SaveSteps = SaveSteps
  BY Tuples, SaveFacts, ConcatEmptySeq
<1>. QED  BY <1>1, SavesAfter

(* Some scheduler comes first. *)
LEMMA NativeFirst ==
    ASSUME NEW supported \in SUBSET Mode, Native(supported) # {}
    PROVE  DetectNative(supported) \in Mode
<1> DEFINE First(m) == m \in Native(supported) /\ \A n \in Native(supported) :
                          watcher_class(m).priority <= watcher_class(n).priority
<1>1. /\ watcher_class("windows-task").priority = 10 /\ watcher_class("launchd").priority = 20
      /\ watcher_class("systemd").priority = 30 /\ watcher_class("openrc").priority = 40
      /\ watcher_class("runit").priority = 50 /\ watcher_class("supervisord").priority = 60
      /\ watcher_class("docker").native = FALSE
  BY DEF watcher_class, Systemd, OpenRC, Runit, Supervisord, Launchd, WindowsTask, Docker
<1>2. Native(supported) \subseteq
        {"windows-task", "launchd", "systemd", "openrc", "runit", "supervisord"}
  BY <1>1 DEF Native, Mode
<1>3. \E m : First(m)
  <2>1. CASE "windows-task" \in Native(supported)
    BY <1>1, <1>2, <2>1
  <2>2. CASE "windows-task" \notin Native(supported) /\ "launchd" \in Native(supported)
    BY <1>1, <1>2, <2>2
  <2>3. CASE /\ {"windows-task", "launchd"} \cap Native(supported) = {}
             /\ "systemd" \in Native(supported)
    BY <1>1, <1>2, <2>3
  <2>4. CASE /\ {"windows-task", "launchd", "systemd"} \cap Native(supported) = {}
             /\ "openrc" \in Native(supported)
    BY <1>1, <1>2, <2>4
  <2>5. CASE /\ {"windows-task", "launchd", "systemd", "openrc"} \cap Native(supported) = {}
             /\ "runit" \in Native(supported)
    BY <1>1, <1>2, <2>5
  <2>6. CASE Native(supported) = {"supervisord"}
    BY <1>1, <2>6
  <2>. QED  BY <1>2, <2>1, <2>2, <2>3, <2>4, <2>5, <2>6
<1>4. \E m \in Native(supported) : \A n \in Native(supported) :
         watcher_class(m).priority <= watcher_class(n).priority
  BY <1>3
<1>5. DetectNative(supported) \in Native(supported)
  BY <1>4 DEF DetectNative
<1>. QED  BY <1>5 DEF Native
-----------------------------------------------------------------------------
(* What loading the configuration makes of an invocation *)
Outcome(me, config, new) ==
    /\ new \in Invocation
    /\ new.pc \in {"idle", "failed", "work"}
    /\ new.pc = "work" <=> new.todo # <<>>
    /\ new.pc # "work" => (config.mode = "docker" => me.req.op # "remove")
    /\ new.pc = "work" =>
         /\ new.todo # <<Do("save", NoMode)>>
         /\ new.todo \in Seq(Job) => new.want = config
         /\ new.want.mode = "docker" =>
              Lists(new.todo) \/ (config.mode = "docker" /\ me.req.op # "remove")

LEMMA IdleTyped == Idle \in Invocation /\ Default \in Config
<1>1. Default \in Config
  BY DEF Default, Config
<1>2. (CHOOSE r \in Requests : TRUE) \in Requests
  BY RequestsAssumption
<1>3. <<>> \in Plan
  BY Tuples DEF Plan
<1>. QED  BY <1>1, <1>2, <1>3 DEF Idle, Invocation

LEMMA Ended ==
    ASSUME NEW me \in Invocation, NEW config, config.mode = "docker" => me.req.op # "remove"
    PROVE  Outcome(me, config, Done(me)) /\ Outcome(me, config, Failed(me))
<1>1. <<>> \in Plan
  BY Tuples DEF Plan
<1>2. Outcome(me, config, Failed(me))
  BY <1>1 DEF Outcome, Failed, Invocation
<1>3. Idle.pc = "idle" /\ Idle.todo = <<>>
  BY DEF Idle
<1>. QED  BY <1>2, <1>3, IdleTyped DEF Outcome, Done

LEMMA Worked ==
    ASSUME NEW me \in Invocation, NEW config, NEW want \in Config, NEW steps \in Plan,
           steps # <<>>, steps # <<Do("save", NoMode)>>,
           steps \in Seq(Job) => want = config,
           want.mode = "docker" =>
             Lists(steps) \/ (config.mode = "docker" /\ me.req.op # "remove")
    PROVE  Outcome(me, config, Working(me, want, steps))
<1>1. /\ Working(me, want, steps) \in Invocation
      /\ Working(me, want, steps).pc = "work"
      /\ Working(me, want, steps).todo = steps /\ Working(me, want, steps).want = want
  BY DEF Working, Invocation
<1>. QED  BY <1>1 DEF Outcome

LEMMA InstallOutcome ==
    ASSUME NEW me \in Invocation, NEW config \in Config, NEW activate \in BOOLEAN,
           host \subseteq Mode, me.req.op # "remove"
    PROVE  Outcome(me, config, install_watcher(me, config, activate))
<1> DEFINE mode == Resolved(me.req)
           want == [config EXCEPT !.mode = mode, !.activated = activate]
<1>1. me.req \in Request
  BY RequestsAssumption DEF Invocation
<1>2. mode \in Mode \cup {NoMode}
  BY <1>1, NativeFirst DEF Resolved, Request, Mode
<1>3. CASE mode = NoMode
  BY <1>3, Ended DEF install_watcher
<1>4. CASE mode # NoMode /\ config.mode = mode
  BY <1>4, Ended DEF install_watcher
<1>5. CASE mode \notin {NoMode, config.mode}
  <2>1. want \in Config /\ want.mode = mode
    BY <1>2 DEF Config
  <2>2. mode \in Mode
    BY <1>2, <1>5
  <2>3. Outcome(me, config, Working(me, want, InstallSteps(config, mode, activate)))
    BY <2>1, <2>2, InstallPlan, Worked DEF Plan
  <2>4. install_watcher(me, config, activate) \in
          {Failed(me), Working(me, want, InstallSteps(config, mode, activate))}
    BY <1>5 DEF install_watcher
  <2>. QED  BY <2>3, <2>4, Ended
<1>. QED  BY <1>3, <1>4, <1>5

LEMMA UninstallOutcome ==
    ASSUME NEW me \in Invocation, NEW config \in Config
    PROVE  Outcome(me, config, uninstall_watcher(me, config))
<1>1. "docker" \in Mode /\ NoMode # "docker"
  BY NoModeAssumption DEF Mode
<1>2. CASE config.mode = NoMode
  BY <1>1, <1>2, Ended DEF uninstall_watcher
<1>3. CASE config.mode # NoMode
  <2>1. Cleared(config) \in Config /\ Cleared(config).mode = NoMode
    BY DEF Cleared, Config
  <2>2. Deactivation(config) \in Seq(Job)
    BY <1>3, DeactivationPlan
  <2>3. /\ UninstallSteps(config) \in Saving /\ UninstallSteps(config) \notin Seq(Job)
        /\ UninstallSteps(config) # <<>> /\ UninstallSteps(config) # <<Do("save", NoMode)>>
    BY <2>2, SavesAfter DEF UninstallSteps
  <2>. QED  BY <1>1, <1>3, <2>1, <2>3, Worked DEF uninstall_watcher, Plan
<1>. QED  BY <1>2, <1>3

LEMMA CleanupOutcome ==
    ASSUME NEW me \in Invocation, NEW config \in Config
    PROVE  Outcome(me, config, cleanup_watcher_if_unused(me, config))
<1>1. CASE me.left = {}
  BY <1>1, UninstallOutcome DEF cleanup_watcher_if_unused
<1>2. CASE me.left # {} /\ config.mode = "docker"
  <2>1. /\ RefreshSteps(config) \in Seq(Job) /\ RefreshSteps(config) # <<>>
        /\ Lists(RefreshSteps(config)) /\ RefreshSteps(config) # <<Do("save", NoMode)>>
    <3>1. RefreshSteps(config) \in Seq(Job) /\ RefreshSteps(config) # <<>>
            /\ Lists(RefreshSteps(config))
      BY RefreshPlan
    <3>2. Head(RefreshSteps(config)) \in Job
      BY <3>1, HeadTailProperties
    <3>. QED  BY <3>1, <3>2, SaveFacts DEF Job
  <2>. QED  BY <1>2, <2>1, Worked DEF cleanup_watcher_if_unused, Plan
<1>3. CASE me.left # {} /\ config.mode # "docker"
  BY <1>3, Ended DEF cleanup_watcher_if_unused
<1>. QED  BY <1>1, <1>2, <1>3

(* Every command's plan *)
LEMMA LoadOutcome ==
    ASSUME NEW me \in Invocation, NEW config \in Config, host \subseteq Mode
    PROVE  LET new == CASE me.req.op = "install" -> install_watcher(me, config, me.req.activate)
                        [] me.req.op = "uninstall" -> uninstall_watcher(me, config)
                        [] me.req.op = "add" -> install_context_watcher(me, config)
                        [] me.req.op = "remove" -> cleanup_watcher_if_unused(me, config)
                        [] me.req.op = "convert" ->
                             handle_watcher_without_local_sync_targets(me, config)
                        [] me.req.op = "default-provider" -> default_provider(me, config)
           IN  Outcome(me, config, new)
<1>1. /\ me.req.op \in {"install", "uninstall", "add", "remove", "convert", "default-provider"}
      /\ me.req.activate \in BOOLEAN
  BY RequestsAssumption DEF Invocation, Request
<1>2. me.req.op = "install" => Outcome(me, config, install_watcher(me, config, me.req.activate))
  BY <1>1, InstallOutcome
<1>3. me.req.op = "uninstall" => Outcome(me, config, uninstall_watcher(me, config))
  BY UninstallOutcome
<1>4. me.req.op = "add" => Outcome(me, config, install_context_watcher(me, config))
  BY InstallOutcome, Ended DEF install_context_watcher
<1>5. me.req.op = "remove" => Outcome(me, config, cleanup_watcher_if_unused(me, config))
  BY CleanupOutcome
<1>6. me.req.op = "convert" =>
        Outcome(me, config, handle_watcher_without_local_sync_targets(me, config))
  BY UninstallOutcome, Ended DEF handle_watcher_without_local_sync_targets
<1>7. me.req.op = "default-provider" => Outcome(me, config, default_provider(me, config))
  <2>1. ASSUME me.req.op = "default-provider" PROVE Outcome(me, config, default_provider(me, config))
    <3>1. [config EXCEPT !.provider = TRUE] \in Config
            /\ [config EXCEPT !.provider = TRUE].mode = config.mode
      BY DEF Config
    <3>. QED  BY <2>1, <3>1, SaveOnly, Worked DEF default_provider, Plan
  <2>. QED  BY <2>1
<1>. QED  BY <1>1, <1>2, <1>3, <1>4, <1>5, <1>6, <1>7
-----------------------------------------------------------------------------
(* The invariant *)

LEMMA PlansDiffer == Saving \cap Seq(Job) = {}
<1>1. <<Do("save", NoMode)>> \notin Seq(Job)
  <2>1. SUFFICES ASSUME <<Do("save", NoMode)>> \in Seq(Job) PROVE FALSE
    OBVIOUS
  <2>2. Head(<<Do("save", NoMode)>>) \in Job
    BY <2>1, SaveFacts, HeadTailProperties
  <2>. QED  BY <2>2, SaveFacts DEF Job
<1>. QED  BY <1>1, SavesAfter DEF Saving

LEMMA AdvancedTyped ==
    ASSUME NEW me \in Invocation, me.pc = "work", me.todo # <<>>
    PROVE  /\ Advanced(me) \in Invocation
           /\ Advanced(me).pc = "work" <=> Advanced(me).todo # <<>>
           /\ Len(me.todo) = 1 => Advanced(me) = Idle
           /\ Len(me.todo) # 1 =>
                Advanced(me).pc = "work" /\ Advanced(me).todo = Tail(me.todo)
                  /\ Advanced(me).want = me.want
<1>1. Idle.pc = "idle" /\ Idle.todo = <<>>
  BY DEF Idle
<1>2. CASE Len(me.todo) = 1
  BY <1>1, <1>2, IdleTyped DEF Advanced, Done
<1>3. CASE Len(me.todo) # 1
  <2>1. Tail(me.todo) \in Plan /\ Tail(me.todo) # <<>>
    BY <1>3, PlanSteps DEF Invocation
  <2>. QED  BY <1>3, <2>1 DEF Advanced, Invocation
<1>. QED  BY <1>2, <1>3

LEMMA FailedTyped ==
    ASSUME NEW me \in Invocation
    PROVE  /\ Failed(me) \in Invocation /\ [Failed(me) EXCEPT !.clean = FALSE] \in Invocation
           /\ Failed(me).pc = "failed" /\ [Failed(me) EXCEPT !.clean = FALSE].pc = "failed"
           /\ Failed(me).todo = <<>> /\ [Failed(me) EXCEPT !.clean = FALSE].todo = <<>>
<1>1. <<>> \in Plan
  BY Tuples DEF Plan
<1>. QED  BY <1>1 DEF Failed, Invocation

(* A step of p keeps the types if what it leaves of p has its type. *)
LEMMA StepTypes ==
    ASSUME Types, NEW p \in Proc, NEW new \in Invocation, Become(p, new),
           new.pc = "work" <=> new.todo # <<>>,
           UNCHANGED <<host, contexts, converted>>,
           global' \in Config \cup {Blank, Broken},
           facts' \in [Mode -> SUBSET Fact],
           watched' \subseteq Context,
           mishap' \subseteq {"overlap", "failed", "killed", "half-started"}
    PROVE  Types'
<1>1. proc' \in [Proc -> Invocation]
  BY DEF Types, Become
<1>2. \A q \in Proc : proc'[q].pc = "work" <=> proc'[q].todo # <<>>
  BY DEF Types, TypeOK, Become
<1>3. \A q \in Proc : /\ proc'[q].pc \in {"idle", "load", "work", "failed"}
                      /\ proc'[q].want \in Config /\ proc'[q].was \in Config
  BY <1>1 DEF Invocation
<1>. QED  BY <1>1, <1>2, <1>3 DEF Types, TypeOK

(* p was the only one that ran, and what it has become holds its part. *)
LEMMA StepLone ==
    ASSUME Types, Lone, NEW p \in Proc, NEW new \in Invocation, Become(p, new),
           Running(proc[p]), new.pc \in {"idle", "failed", "work"},
           UNCHANGED <<contexts, converted>>, global' # Broken,
           new.pc = "work" =>
             /\ new.todo = <<Do("save", NoMode)>> => global' = Blank
             /\ new.todo \in Seq(Job) => new.want = Recorded'
             /\ new.want.mode = "docker" => Listed' \/ Lists(new.todo),
           new.pc # "work" => (Recorded'.mode = "docker" => Listed')
    PROVE  Lone'
<1>1. proc'[p] = new /\ \A q \in Proc \ {p} : proc'[q] = proc[q]
  BY DEF Types, Become
<1>2. \A q \in Proc \ {p} : ~ Running(proc'[q])
  BY <1>1 DEF Lone
<1>3. \A q \in Proc : proc'[q].pc # "load"
  BY <1>1, <1>2 DEF Running
<1>4. ASSUME NEW q \in Proc, proc'[q].pc = "work" PROVE Planning(proc[q])'
  <2>1. q = p
    BY <1>2, <1>4 DEF Running
  <2>. QED  BY <1>1, <1>4, <2>1 DEF Planning
<1>5. AtRest' /\ Recorded'.mode = "docker" => Listed'
  BY <1>1 DEF AtRest, Running
<1>. QED  BY <1>2, <1>3, <1>4, <1>5 DEF Lone, Running

(* One step of a plan: the list is written where the plan says, and the    *)
(* metadata is what the plan wants once it is saved.                       *)
LEMMA WorkLone ==
    ASSUME Types, Lone, NEW p \in Proc, NEW what, Next1(p, what),
           Become(p, Advanced(proc[p])),
           UNCHANGED <<contexts, converted>>, global' # Broken,
           what = "contexts" => Listed',
           what # "contexts" => watched' = watched,
           what = "truncate" => global' = Blank,
           what = "save" => global' = proc[p].want,
           what \notin {"truncate", "save"} => global' = global
    PROVE  Lone'
<1> DEFINE me == proc[p]
           new == Advanced(me)
<1>1. me \in Invocation /\ me.pc = "work" /\ me.todo # <<>> /\ me.todo \in Plan
        /\ Head(me.todo).do = what /\ me.want \in Config
  BY DEF Types, TypeOK, Next1, Invocation
<1>2. Planning(me)
  BY <1>1 DEF Lone
<1>3. Running(me)
  BY <1>1 DEF Running
<1>4. Default.mode = NoMode /\ NoMode # "docker"
  BY NoModeAssumption DEF Default, Mode
<1>5. Listed /\ what # "contexts" => Listed'
  BY DEF Listed
<1>6. CASE Len(me.todo) = 1
  <2>1. new = Idle /\ Idle.pc = "idle"
    BY <1>1, <1>6, AdvancedTyped DEF Idle
  <2>2. me.want.mode = "docker" => Listed'
    BY <1>1, <1>2, <1>5, <1>6, PlanSteps DEF Planning
  <2>3. Recorded'.mode = "docker" => Listed'
    <3>1. CASE what = "save"
      BY <1>4, <2>2, <3>1 DEF Recorded, load_global_config
    <3>2. CASE what # "save"
      <4>1. what # "truncate" /\ me.todo \in Seq(Job)
        BY <1>1, <1>6, <3>2, PlanSteps, SaveFacts
      <4>2. me.want = Recorded /\ global' = global
        BY <1>2, <3>2, <4>1 DEF Planning
      <4>. QED  BY <2>2, <4>2 DEF Recorded, load_global_config
    <3>. QED  BY <3>1, <3>2
  <2>. HIDE DEF new
  <2>. QED  BY <1>3, <2>1, <2>3, IdleTyped, StepLone DEF new
<1>7. CASE Len(me.todo) # 1
  <2>1. new \in Invocation /\ new.pc = "work" /\ new.todo = Tail(me.todo) /\ new.want = me.want
    BY <1>1, <1>7, AdvancedTyped
  <2>2. Tail(me.todo) = <<Do("save", NoMode)>> => global' = Blank
    BY <1>1, <1>7, PlanSteps
  <2>3. ASSUME Tail(me.todo) \in Seq(Job) PROVE me.want = Recorded'
    <3>1. me.todo \in Seq(Job)
      BY <1>1, <1>7, <2>3, PlanSteps, PlansDiffer DEF Plan
    <3>2. what \notin {"truncate", "save"}
      <4>1. Head(me.todo) \in Job
        BY <1>1, <3>1, HeadTailProperties
      <4>. QED  BY <1>1, <4>1 DEF Job
    <3>. QED  BY <1>2, <3>1, <3>2 DEF Planning, Recorded, load_global_config
  <2>4. me.want.mode = "docker" => Listed' \/ Lists(Tail(me.todo))
    BY <1>1, <1>2, <1>5, PlanSteps DEF Planning
  <2>. QED  BY <1>3, <2>1, <2>2, <2>3, <2>4, StepLone
<1>. QED  BY <1>6, <1>7
-----------------------------------------------------------------------------
(* The actions *)

LEMMA InitIInv == Init => IInv
<1> SUFFICES ASSUME Init PROVE IInv
  OBVIOUS
<1>1. proc \in [Proc -> Invocation] /\ \A p \in Proc : proc[p] = Idle
  BY IdleTyped DEF Init
<1>2. Idle.pc = "idle" /\ Idle.todo = <<>> /\ Idle.want \in Config /\ Idle.was \in Config
  BY IdleTyped DEF Idle
<1>3. TypeOK
  BY <1>1, <1>2, IdleTyped, HostsAssumption DEF Init, TypeOK
<1>4. global # Broken
  BY IdleTyped, BrokenAssumption DEF Init
<1>5. Recorded.mode # "docker"
  <2>1. Default.mode = NoMode /\ NoMode # "docker"
    BY NoModeAssumption DEF Default, Mode
  <2>. QED  BY <2>1 DEF Init, Recorded, load_global_config
<1>. QED  BY <1>1, <1>2, <1>3, <1>4, <1>5 DEF IInv, Types, Lone, Running

(* A command begins: the registry of contexts has changed before, and what *)
(* left it was removed or converted.                                       *)
LEMMA StartIInv ==
    ASSUME IInv, NEW p \in Proc, NEW req \in Requests, NEW left \in SUBSET Context,
           Start(p, req, left), contexts' \subseteq Context, converted' \subseteq Context,
           Listed => Listed' \/ req.op = "remove"
    PROVE  IInv'
<1> DEFINE others == {q \in Proc : Running(proc[q])}
           me == [Idle EXCEPT !.pc = "load", !.req = req, !.left = left,
                              !.clean = (others = {})]
<1>1. /\ me \in Invocation /\ me.pc = "load" /\ me.todo = <<>> /\ me.req = req
      /\ Idle \in Invocation /\ Idle.pc = "idle" /\ Idle.todo = <<>>
  <2>1. Idle \in Invocation /\ Idle.pc = "idle" /\ Idle.todo = <<>>
    BY IdleTyped DEF Idle
  <2>. QED  BY <2>1 DEF Invocation
<1>2. proc' = [q \in Proc |-> IF q = p THEN me
                              ELSE IF q \in others THEN [proc[q] EXCEPT !.clean = FALSE]
                              ELSE Idle]
  BY DEF Start
<1>3. \A q \in others : /\ [proc[q] EXCEPT !.clean = FALSE] \in Invocation
                        /\ [proc[q] EXCEPT !.clean = FALSE].pc = proc[q].pc
                        /\ [proc[q] EXCEPT !.clean = FALSE].todo = proc[q].todo
  BY DEF IInv, Types, Invocation
<1>4. Types'
  <2>1. proc' \in [Proc -> Invocation]
    BY <1>1, <1>2, <1>3
  <2>2. \A q \in Proc : proc'[q].pc = "work" <=> proc'[q].todo # <<>>
    BY <1>1, <1>2, <1>3 DEF IInv, Types, TypeOK
  <2>3. \A q \in Proc : /\ proc'[q].pc \in {"idle", "load", "work", "failed"}
                        /\ proc'[q].want \in Config /\ proc'[q].was \in Config
    BY <2>1 DEF Invocation
  <2>4. /\ host' \subseteq Mode /\ global' \in Config \cup {Blank, Broken}
        /\ facts' \in [Mode -> SUBSET Fact] /\ watched' \subseteq Context
        /\ mishap' \subseteq {"overlap", "failed", "killed", "half-started"}
    BY DEF IInv, Types, TypeOK, Start
  <2>. QED  BY <2>1, <2>2, <2>3, <2>4 DEF Types, TypeOK
<1>5. ASSUME mishap' = {} PROVE Lone'
  <2>1. mishap = {} /\ others = {}
    BY <1>5 DEF Start
  <2>2. Lone /\ AtRest /\ global' = global
    BY <2>1 DEF IInv, AtRest, Start
  <2>3. \A q \in Proc : proc'[q] = IF q = p THEN me ELSE Idle
    BY <1>2, <2>1
  <2>4. \A q \in Proc : Running(proc'[q]) <=> q = p
    BY <1>1, <2>3 DEF Running
  <2>5. Loading(proc[p])'
    <3>1. Recorded' = Recorded /\ proc'[p].req = req
      BY <1>1, <2>2, <2>3 DEF Recorded, load_global_config
    <3>. QED  BY <2>2, <3>1 DEF Loading, Lone
  <2>6. \A q \in Proc : proc'[q].pc # "work" /\ (proc'[q].pc = "load" => q = p)
    BY <1>1, <2>3
  <2>7. ~ AtRest'
    BY <2>4 DEF AtRest
  <2>. QED  BY <2>2, <2>4, <2>5, <2>6, <2>7 DEF Lone
<1>. QED  BY <1>4, <1>5 DEF IInv

LEMMA BeginIInv == ASSUME IInv, NEW p \in Proc, Begin(p) PROVE IInv'
<1>0. contexts \subseteq Context /\ converted \subseteq Context
  BY DEF IInv, Types, TypeOK
<1>1. \A req \in Requests : req.context \in Context
  BY RequestsAssumption DEF Request
<1>2. CASE WatcherCommand(p)
  <2>1. PICK req \in Requests : Start(p, req, {}) /\ UNCHANGED <<contexts, converted>>
    BY <1>2 DEF WatcherCommand
  <2>2. Listed => Listed'
    BY <2>1 DEF Listed, Start
  <2>. QED  BY <1>0, <2>1, <2>2, StartIInv
<1>3. CASE AddContext(p)
  <2>1. PICK req \in Requests : /\ Start(p, req, {})
                                /\ contexts' = contexts \cup {req.context}
                                /\ converted' = converted \ {req.context}
    BY <1>3 DEF AddContext
  <2>2. Listed => Listed'
    BY <2>1 DEF Listed, Start
  <2>3. contexts' \subseteq Context /\ converted' \subseteq Context
    BY <1>0, <1>1, <2>1
  <2>. QED  BY <2>1, <2>2, <2>3, StartIInv
<1>4. CASE RemoveContext(p)
  <2>1. PICK req \in Requests : /\ req.op = "remove" /\ Start(p, req, contexts')
                                /\ contexts' = contexts \ {req.context}
                                /\ UNCHANGED converted
    BY <1>4 DEF RemoveContext
  <2>2. contexts' \in SUBSET Context /\ converted' \subseteq Context
    BY <1>0, <2>1
  <2>. QED  BY <2>1, <2>2, StartIInv
<1>5. CASE ConvertContext(p)
  <2>1. PICK req \in Requests : /\ Start(p, req, contexts')
                                /\ contexts' = contexts \ {req.context}
                                /\ converted' = converted \cup {req.context}
    BY <1>5 DEF ConvertContext
  <2>2. Listed => Listed'
    BY <2>1 DEF Listed, Start
  <2>3. contexts' \in SUBSET Context /\ converted' \subseteq Context
    BY <1>0, <1>1, <2>1
  <2>. QED  BY <2>1, <2>2, <2>3, StartIInv
<1>. QED  BY <1>2, <1>3, <1>4, <1>5 DEF Begin

LEMMA LoadIInv == ASSUME IInv, NEW p \in Proc, Load(p) PROVE IInv'
<1> DEFINE config == load_global_config
           me == [proc[p] EXCEPT !.was = config]
<1>1. /\ host \subseteq Mode /\ proc[p] \in Invocation /\ proc[p].pc = "load"
      /\ global # Broken /\ UNCHANGED <<host, global, facts, contexts, watched, converted, mishap>>
  BY DEF IInv, Types, TypeOK, Load
<1>2. config \in Config
  BY <1>1, IdleTyped DEF IInv, Types, TypeOK, load_global_config
<1>3. me \in Invocation /\ me.req = proc[p].req
  BY <1>1, <1>2 DEF Invocation
<1>4. PICK new : Become(p, new) /\ Outcome(me, config, new)
  BY <1>1, <1>2, <1>3, LoadOutcome DEF Load
<1>5. new \in Invocation /\ (new.pc = "work" <=> new.todo # <<>>)
  BY <1>4 DEF Outcome
<1>6. Types'
  BY <1>1, <1>4, <1>5, StepTypes DEF IInv, Types, TypeOK
<1>7. ASSUME mishap' = {} PROVE Lone'
  <2>1. Lone /\ Types /\ Running(proc[p])
    BY <1>1, <1>7 DEF IInv, Running
  <2>2. Recorded.mode = "docker" => Listed \/ me.req.op = "remove"
    BY <1>1, <1>3, <2>1 DEF Lone, Loading
  <2>3. Recorded' = config /\ Recorded = config /\ (Listed' <=> Listed)
    BY <1>1 DEF Recorded, load_global_config, Listed
  <2>4. new.pc = "work" =>
           /\ new.todo = <<Do("save", NoMode)>> => global' = Blank
           /\ new.todo \in Seq(Job) => new.want = Recorded'
           /\ new.want.mode = "docker" => Listed' \/ Lists(new.todo)
    BY <1>4, <2>2, <2>3 DEF Outcome
  <2>5. new.pc # "work" => (Recorded'.mode = "docker" => Listed')
    BY <1>4, <2>2, <2>3 DEF Outcome
  <2>6. new.pc \in {"idle", "failed", "work"}
    BY <1>4 DEF Outcome
  <2>. QED  BY <1>1, <1>4, <1>5, <2>1, <2>4, <2>5, <2>6, StepLone
<1>. QED  BY <1>6, <1>7 DEF IInv

(* A command that breaks off is not clean, except one that finds the       *)
(* global configuration unreadable.                                        *)
LEMMA FailIInv ==
    ASSUME IInv, NEW p \in Proc,
           LoadFails(p) \/ CommandRefused(p) \/ CommandFails(p) \/ RenderFails(p) \/ Kill(p)
    PROVE  IInv'
<1>1. proc[p] \in Invocation
  BY DEF IInv, Types
<1>2. PICK new \in Invocation : Become(p, new) /\ new.pc = "failed" /\ new.todo = <<>>
  BY <1>1, FailedTyped DEF LoadFails, CommandRefused, CommandFails, RenderFails, Kill
<1>3. UNCHANGED <<host, global, facts, contexts, watched, converted>>
  BY DEF LoadFails, CommandRefused, CommandFails, RenderFails, Kill
<1>4. mishap' \subseteq {"overlap", "failed", "killed", "half-started"}
  BY DEF LoadFails, CommandRefused, CommandFails, RenderFails, Kill, Broke, IInv, Types, TypeOK
<1>5. Types'
  BY <1>2, <1>3, <1>4, StepTypes DEF IInv, Types, TypeOK
<1>6. mishap' # {}
  <2>1. CASE LoadFails(p)
    BY <2>1 DEF LoadFails, IInv, Lone
  <2>2. CASE ~ LoadFails(p)
    BY <2>2 DEF CommandRefused, CommandFails, RenderFails, Kill, Broke
  <2>. QED  BY <2>1, <2>2
<1>. QED  BY <1>5, <1>6 DEF IInv

LEMMA AfterTyped ==
    ASSUME NEW cmd \in Command, NEW S \in SUBSET Fact
    PROVE  After(cmd, S) \subseteq Fact
<1>1. "placed" \in Fact /\ "known" \in Fact /\ "boot" \in Fact /\ "up" \in Fact
  BY DEF Fact
<1> DEFINE if_placed == IF "placed" \in S THEN {"boot", "up"} ELSE {}
<1>2. if_placed \subseteq Fact
  BY <1>1
<1>3. CASE cmd = "install"
  BY <1>1, <1>2, <1>3 DEF After
<1>4. CASE cmd = "rm"
  BY <1>1, <1>2, <1>4 DEF After
<1>5. CASE cmd = "reload"
  BY <1>1, <1>2, <1>5 DEF After
<1>6. CASE cmd \in {"ln", "load"}
  BY <1>1, <1>2, <1>6 DEF After
<1>7. CASE cmd = "rc-update_add"
  BY <1>1, <1>2, <1>7 DEF After
<1>8. CASE cmd = "rc-update_del"
  BY <1>1, <1>2, <1>8 DEF After
<1>9. CASE cmd \in {"enable_now", "compose_up"}
  BY <1>1, <1>2, <1>9 DEF After
<1>10. CASE cmd \in {"disable_now", "rm_link", "unload", "compose_down"}
  BY <1>1, <1>2, <1>10 DEF After
<1>11. CASE cmd \in {"rc-service_start", "sv_up", "supervisorctl_start", "schtasks_run"}
  BY <1>1, <1>2, <1>11 DEF After
<1>12. CASE cmd \in {"rc-service_stop", "sv_down", "supervisorctl_stop"}
  BY <1>1, <1>2, <1>12 DEF After
<1>13. CASE cmd = "update"
  BY <1>1, <1>2, <1>13 DEF After
<1>14. CASE cmd = "schtasks_create"
  BY <1>1, <1>2, <1>14 DEF After
<1>15. CASE cmd = "schtasks_delete"
  BY <1>1, <1>2, <1>15 DEF After
<1>16. CASE cmd \in {"", "mkdir", "reread", "pull"}
  BY <1>1, <1>2, <1>16 DEF After
<1>. QED  BY <1>3, <1>4, <1>5, <1>6, <1>7, <1>8, <1>9, <1>10, <1>11, <1>12, <1>13, <1>14, <1>15, <1>16 DEF Command

LEMMA WorkIInv ==
    ASSUME IInv, NEW p \in Proc,
           RunCommand(p) \/ Unlink(p) \/ write_docker_watcher_contexts(p) \/ WriteFile(p)
             \/ Truncate(p) \/ Save(p)
    PROVE  IInv'
<1> USE DEF RunCommand, Unlink, write_docker_watcher_contexts, WriteFile, Truncate, Save
<1>1. proc[p] \in Invocation /\ proc[p].pc = "work" /\ proc[p].todo # <<>>
        /\ proc[p].todo \in Plan /\ proc[p].want \in Config
  BY DEF IInv, Types, TypeOK, Next1, Invocation
<1>2. /\ Become(p, Advanced(proc[p])) /\ UNCHANGED <<host, contexts, converted, mishap>>
      /\ Advanced(proc[p]) \in Invocation
      /\ Advanced(proc[p]).pc = "work" <=> Advanced(proc[p]).todo # <<>>
  BY <1>1, AdvancedTyped
<1>3. facts' \in [Mode -> SUBSET Fact]
  <2>1. facts \in [Mode -> SUBSET Fact]
    BY DEF IInv, Types, TypeOK
  <2>2. \A cmd \in Command, S \in SUBSET Fact : After(cmd, S) \subseteq Fact
    BY AfterTyped
  <2>3. "file" \in Fact
    BY DEF Fact
  <2>4. CASE RunCommand(p)
    <3>1. Head(proc[p].todo) \in Job
      BY <1>1, <2>4, PlanSteps DEF Next1
    <3>2. Head(proc[p].todo).mode \in Mode /\ Head(proc[p].todo).cmd \in Command
      BY <3>1 DEF Job
    <3>. QED  BY <2>1, <2>2, <2>4, <3>2
  <2>5. CASE ~ RunCommand(p)
    BY <2>1, <2>3, <2>5
  <2>. QED  BY <2>4, <2>5
<1>4. global' \in Config \cup {Blank, Broken}
  BY <1>1 DEF IInv, Types, TypeOK
<1>5. watched' \subseteq Context
  BY DEF IInv, Types, TypeOK
<1>6. Types'
  BY <1>2, <1>3, <1>4, <1>5, StepTypes DEF IInv, Types, TypeOK
<1>7. ASSUME mishap' = {} PROVE Lone'
  <2>1. Lone /\ Types /\ global # Broken
    BY <1>2, <1>7 DEF IInv, Lone
  <2>2. CASE RunCommand(p)
    BY <1>2, <2>1, <2>2, WorkLone
  <2>3. CASE Unlink(p)
    BY <1>2, <2>1, <2>3, WorkLone
  <2>4. CASE write_docker_watcher_contexts(p)
    <3>1. Listed'
      BY <2>4 DEF Listed
    <3>. QED  BY <1>2, <2>1, <2>4, <3>1, WorkLone
  <2>5. CASE WriteFile(p)
    BY <1>2, <2>1, <2>5, WorkLone
  <2>6. CASE Truncate(p)
    <3>1. Blank # Broken
      BY BrokenAssumption
    <3>. QED  BY <1>2, <2>1, <2>6, <3>1, WorkLone
  <2>7. CASE Save(p)
    <3>1. proc[p].todo = <<Do("save", NoMode)>>
      BY <1>1, <2>7, PlanSteps DEF Next1
    <3>2. global = Blank
      BY <1>1, <2>1, <3>1 DEF Lone, Planning
    <3>3. global' = proc[p].want /\ global' # Broken
      BY <1>1, <2>7, <3>2, BrokenAssumption
    <3>. QED  BY <1>2, <2>1, <2>7, <3>3, WorkLone
  <2>. QED  BY <2>2, <2>3, <2>4, <2>5, <2>6, <2>7
<1>. QED  BY <1>6, <1>7 DEF IInv
-----------------------------------------------------------------------------
LEMMA NextIInv == IInv /\ [Next]_vars => IInv'
<1> SUFFICES ASSUME IInv, [Next]_vars PROVE IInv'
  OBVIOUS
<1>1. CASE UNCHANGED vars
  BY <1>1 DEF vars, IInv, Types, TypeOK, Lone, Loading, Planning, Listed, AtRest, Running,
              Recorded, load_global_config
<1>2. CASE Next
  <2>1. PICK p \in Proc : Begin(p) \/ Step(p)
    BY <1>2 DEF Next
  <2>. QED  BY <2>1, BeginIInv, LoadIInv, FailIInv, WorkIInv DEF Step
<1>. QED  BY <1>1, <1>2

LEMMA Invariant == Spec => []IInv
BY InitIInv, NextIInv, PTL DEF Spec

(* Every variable keeps its type, whichever commands overlap, fail or are  *)
(* killed: no scheduler, context or step appears that nobody asked for,    *)
(* and an invocation has steps left exactly while it is at work.           *)
THEOREM TypeCorrect == Spec => []TypeOK
<1>1. IInv => TypeOK
  BY DEF IInv, Types
<1>. QED  BY <1>1, Invariant, PTL

(* However many contexts, hosts and commands there are: as long as none    *)
(* overlaps another, fails or is killed, the list of the Docker watcher    *)
(* holds no context that was removed or pruned.                            *)
THEOREM RemovedContextsAreDropped == Spec => []NoRemovedContexts
<1>1. IInv => NoRemovedContexts
  BY DEF IInv, Lone, Listed, NoRemovedContexts
<1>. QED  BY <1>1, Invariant, PTL
-----------------------------------------------------------------------------
(* What an invocation that runs alone leaves in the schedulers.            *)
(*                                                                         *)
(* The commands that are left of a scheduler's activation and deactivation *)

StartLeft(mode) ==
    CASE mode = "systemd" -> {<<"install", "reload", "enable_now">>, <<"reload", "enable_now">>,
                              <<"enable_now">>, <<>>}
      [] mode = "openrc" -> {<<"install", "rc-update_add", "rc-service_start">>,
                             <<"rc-update_add", "rc-service_start">>, <<"rc-service_start">>, <<>>}
      [] mode = "runit" -> {<<"mkdir", "install", "ln", "sv_up">>, <<"install", "ln", "sv_up">>,
                            <<"ln", "sv_up">>, <<"sv_up">>, <<>>}
      [] mode = "supervisord" -> {<<"install", "reread", "update", "supervisorctl_start">>,
                                  <<"reread", "update", "supervisorctl_start">>,
                                  <<"update", "supervisorctl_start">>,
                                  <<"supervisorctl_start">>, <<>>}
      [] mode = "launchd" -> {<<"mkdir", "install", "load">>, <<"install", "load">>,
                              <<"load">>, <<>>}
      [] mode = "windows-task" -> {<<"schtasks_create", "schtasks_run">>, <<"schtasks_run">>, <<>>}
      [] mode = "docker" -> {<<"pull", "compose_up">>, <<"compose_up">>, <<>>}

StopLeft(mode) ==
    CASE mode = "systemd" -> {<<"disable_now", "rm", "reload">>, <<"rm", "reload">>, <<"reload">>,
                              <<>>}
      [] mode = "openrc" -> {<<"rc-service_stop", "rc-update_del", "rm">>,
                             <<"rc-update_del", "rm">>, <<"rm">>, <<>>}
      [] mode = "runit" -> {<<"sv_down", "rm_link", "rm">>, <<"rm_link", "rm">>, <<"rm">>, <<>>}
      [] mode = "supervisord" -> {<<"supervisorctl_stop", "rm", "reread", "update">>,
                                  <<"rm", "reread", "update">>, <<"reread", "update">>,
                                  <<"update">>, <<>>}
      [] mode = "launchd" -> {<<"unload", "rm">>, <<"rm">>, <<>>}
      [] mode = "windows-task" -> {<<"schtasks_delete">>, <<>>}
      [] mode = "docker" -> {<<"compose_down">>, <<>>}

(* What the host knows when an activation has gone well, ... *)
Active(mode) ==
    CASE mode \in {"systemd", "supervisord"} -> {"file", "placed", "known", "boot", "up"}
      [] mode \in {"openrc", "runit", "launchd"} -> {"file", "placed", "boot", "up"}
      [] mode = "windows-task" -> {"file", "known", "boot", "up"}
      [] mode = "docker" -> {"file", "boot", "up"}

(* ... while left is still to be done of one that began with the file, ... *)
Begun(mode, left) ==
    IF left = <<>> THEN Active(mode)
    ELSE CASE Head(left) \in {"mkdir", "install", "schtasks_create", "pull", "compose_up"} -> {"file"}
           [] Head(left) \in {"reload", "rc-update_add", "ln", "reread", "update", "load"} ->
                {"file", "placed"}
           [] Head(left) = "enable_now" -> {"file", "placed", "known"}
           [] Head(left) = "rc-service_start" -> {"file", "placed", "boot"}
           [] Head(left) = "sv_up" -> {"file", "placed", "boot", "up"}
           [] Head(left) = "supervisorctl_start" -> {"file", "placed", "known", "boot", "up"}
           [] Head(left) = "schtasks_run" -> {"file", "known", "boot"}

(* ... and while left is to be done of a deactivation. *)
Stopped(mode, left) ==
    IF left = <<>> THEN {"file"}
    ELSE CASE Head(left) \in {"disable_now", "rc-service_stop", "sv_down", "supervisorctl_stop",
                              "unload", "compose_down"} -> Active(mode)
           [] Head(left) \in {"rc-update_del", "rm_link"} -> {"file", "placed", "boot"}
           [] Head(left) = "reload" -> {"file", "known"}
           [] Head(left) \in {"reread", "update"} -> {"file", "known", "boot"}
           [] Head(left) = "rm" ->
                CASE mode = "systemd" -> {"file", "placed", "known"}
                  [] mode = "supervisord" -> {"file", "placed", "known", "boot"}
                  [] OTHER -> {"file", "placed"}

(* Whatever is left over from failures: an activation that finds what its  *)
(* next command needs, ...                                                 *)
Ready(left, F) ==
    left # <<>> =>
      /\ "file" \in F
      /\ Head(left) \in {"reload", "enable_now", "rc-update_add", "rc-service_start", "ln",
                         "reread", "update", "load"} => "placed" \in F
      /\ Head(left) = "sv_up" => "boot" \in F
      /\ Head(left) \in {"supervisorctl_start", "schtasks_run"} => "known" \in F

(* ... and a deactivation that has stopped the watcher. *)
Silenced(left, F) ==
    left = <<>> \/ Head(left) \notin {"disable_now", "rc-service_stop", "sv_down",
                                      "supervisorctl_stop", "unload", "compose_down"} =>
      /\ "up" \notin F
      /\ left # <<>> /\ Head(left) \in {"reread", "update"} => "placed" \notin F

(* The facts that a configuration is true of *)
Settled(config, mode) ==
    IF mode # config.mode THEN {} ELSE IF config.activated THEN Active(mode) ELSE {"file"}

(* An activation comes to its end: the commands find what they need, and   *)
(* each does its part.                                                     *)
StartStep(mode, left, F) ==
    LET cmd == Head(left)
    IN  /\ Tail(left) \in StartLeft(mode)
        /\ Ready(left, F) => Works(cmd, F) /\ Ready(Tail(left), After(cmd, F))
        /\ F = Begun(mode, left) => After(cmd, F) = Begun(mode, Tail(left))

LEMMA SystemdStarts ==
    ASSUME NEW left, left \in StartLeft("systemd"), left # <<>>, NEW F \in SUBSET Fact
    PROVE  StartStep("systemd", left, F)
<1>1. CASE left = <<"install", "reload", "enable_now">>
  <2>1. Head(left) = "install" /\ Tail(left) = <<"reload", "enable_now">> /\ Head(Tail(left)) = "reload"
    BY <1>1
  <2>. QED
    BY <1>1, <2>1 DEF StartStep, StartLeft, Ready, Begun, Works, Needs, After, Active
<1>2. CASE left = <<"reload", "enable_now">>
  <2>1. Head(left) = "reload" /\ Tail(left) = <<"enable_now">> /\ Head(Tail(left)) = "enable_now"
    BY <1>2
  <2>. QED
    BY <1>2, <2>1 DEF StartStep, StartLeft, Ready, Begun, Works, Needs, After, Active
<1>3. CASE left = <<"enable_now">>
  <2>1. Head(left) = "enable_now" /\ Tail(left) = <<>>
    BY <1>3
  <2>. QED
    BY <1>3, <2>1 DEF StartStep, StartLeft, Ready, Begun, Works, Needs, After, Active
<1>. QED  BY <1>1, <1>2, <1>3 DEF StartLeft

LEMMA OpenRCStarts ==
    ASSUME NEW left, left \in StartLeft("openrc"), left # <<>>, NEW F \in SUBSET Fact
    PROVE  StartStep("openrc", left, F)
<1>1. CASE left = <<"install", "rc-update_add", "rc-service_start">>
  <2>1. Head(left) = "install" /\ Tail(left) = <<"rc-update_add", "rc-service_start">> /\ Head(Tail(left)) = "rc-update_add"
    BY <1>1
  <2>. QED
    BY <1>1, <2>1 DEF StartStep, StartLeft, Ready, Begun, Works, Needs, After, Active
<1>2. CASE left = <<"rc-update_add", "rc-service_start">>
  <2>1. Head(left) = "rc-update_add" /\ Tail(left) = <<"rc-service_start">> /\ Head(Tail(left)) = "rc-service_start"
    BY <1>2
  <2>. QED
    BY <1>2, <2>1 DEF StartStep, StartLeft, Ready, Begun, Works, Needs, After, Active
<1>3. CASE left = <<"rc-service_start">>
  <2>1. Head(left) = "rc-service_start" /\ Tail(left) = <<>>
    BY <1>3
  <2>. QED
    BY <1>3, <2>1 DEF StartStep, StartLeft, Ready, Begun, Works, Needs, After, Active
<1>. QED  BY <1>1, <1>2, <1>3 DEF StartLeft

LEMMA RunitStarts ==
    ASSUME NEW left, left \in StartLeft("runit"), left # <<>>, NEW F \in SUBSET Fact
    PROVE  StartStep("runit", left, F)
<1>1. CASE left = <<"mkdir", "install", "ln", "sv_up">>
  <2>1. Head(left) = "mkdir" /\ Tail(left) = <<"install", "ln", "sv_up">> /\ Head(Tail(left)) = "install"
    BY <1>1
  <2>. QED
    BY <1>1, <2>1 DEF StartStep, StartLeft, Ready, Begun, Works, Needs, After, Active
<1>2. CASE left = <<"install", "ln", "sv_up">>
  <2>1. Head(left) = "install" /\ Tail(left) = <<"ln", "sv_up">> /\ Head(Tail(left)) = "ln"
    BY <1>2
  <2>. QED
    BY <1>2, <2>1 DEF StartStep, StartLeft, Ready, Begun, Works, Needs, After, Active
<1>3. CASE left = <<"ln", "sv_up">>
  <2>1. Head(left) = "ln" /\ Tail(left) = <<"sv_up">> /\ Head(Tail(left)) = "sv_up"
    BY <1>3
  <2>. QED
    BY <1>3, <2>1 DEF StartStep, StartLeft, Ready, Begun, Works, Needs, After, Active
<1>4. CASE left = <<"sv_up">>
  <2>1. Head(left) = "sv_up" /\ Tail(left) = <<>>
    BY <1>4
  <2>. QED
    BY <1>4, <2>1 DEF StartStep, StartLeft, Ready, Begun, Works, Needs, After, Active
<1>. QED  BY <1>1, <1>2, <1>3, <1>4 DEF StartLeft

LEMMA SupervisordStarts ==
    ASSUME NEW left, left \in StartLeft("supervisord"), left # <<>>, NEW F \in SUBSET Fact
    PROVE  StartStep("supervisord", left, F)
<1>1. CASE left = <<"install", "reread", "update", "supervisorctl_start">>
  <2>1. Head(left) = "install" /\ Tail(left) = <<"reread", "update", "supervisorctl_start">> /\ Head(Tail(left)) = "reread"
    BY <1>1
  <2>. QED
    BY <1>1, <2>1 DEF StartStep, StartLeft, Ready, Begun, Works, Needs, After, Active
<1>2. CASE left = <<"reread", "update", "supervisorctl_start">>
  <2>1. Head(left) = "reread" /\ Tail(left) = <<"update", "supervisorctl_start">> /\ Head(Tail(left)) = "update"
    BY <1>2
  <2>. QED
    BY <1>2, <2>1 DEF StartStep, StartLeft, Ready, Begun, Works, Needs, After, Active
<1>3. CASE left = <<"update", "supervisorctl_start">>
  <2>1. Head(left) = "update" /\ Tail(left) = <<"supervisorctl_start">> /\ Head(Tail(left)) = "supervisorctl_start"
    BY <1>3
  <2>. QED
    BY <1>3, <2>1 DEF StartStep, StartLeft, Ready, Begun, Works, Needs, After, Active
<1>4. CASE left = <<"supervisorctl_start">>
  <2>1. Head(left) = "supervisorctl_start" /\ Tail(left) = <<>>
    BY <1>4
  <2>. QED
    BY <1>4, <2>1 DEF StartStep, StartLeft, Ready, Begun, Works, Needs, After, Active
<1>. QED  BY <1>1, <1>2, <1>3, <1>4 DEF StartLeft

LEMMA LaunchdStarts ==
    ASSUME NEW left, left \in StartLeft("launchd"), left # <<>>, NEW F \in SUBSET Fact
    PROVE  StartStep("launchd", left, F)
<1>1. CASE left = <<"mkdir", "install", "load">>
  <2>1. Head(left) = "mkdir" /\ Tail(left) = <<"install", "load">> /\ Head(Tail(left)) = "install"
    BY <1>1
  <2>. QED
    BY <1>1, <2>1 DEF StartStep, StartLeft, Ready, Begun, Works, Needs, After, Active
<1>2. CASE left = <<"install", "load">>
  <2>1. Head(left) = "install" /\ Tail(left) = <<"load">> /\ Head(Tail(left)) = "load"
    BY <1>2
  <2>. QED
    BY <1>2, <2>1 DEF StartStep, StartLeft, Ready, Begun, Works, Needs, After, Active
<1>3. CASE left = <<"load">>
  <2>1. Head(left) = "load" /\ Tail(left) = <<>>
    BY <1>3
  <2>. QED
    BY <1>3, <2>1 DEF StartStep, StartLeft, Ready, Begun, Works, Needs, After, Active
<1>. QED  BY <1>1, <1>2, <1>3 DEF StartLeft

LEMMA WindowsTaskStarts ==
    ASSUME NEW left, left \in StartLeft("windows-task"), left # <<>>, NEW F \in SUBSET Fact
    PROVE  StartStep("windows-task", left, F)
<1>1. CASE left = <<"schtasks_create", "schtasks_run">>
  <2>1. Head(left) = "schtasks_create" /\ Tail(left) = <<"schtasks_run">> /\ Head(Tail(left)) = "schtasks_run"
    BY <1>1
  <2>. QED
    BY <1>1, <2>1 DEF StartStep, StartLeft, Ready, Begun, Works, Needs, After, Active
<1>2. CASE left = <<"schtasks_run">>
  <2>1. Head(left) = "schtasks_run" /\ Tail(left) = <<>>
    BY <1>2
  <2>. QED
    BY <1>2, <2>1 DEF StartStep, StartLeft, Ready, Begun, Works, Needs, After, Active
<1>. QED  BY <1>1, <1>2 DEF StartLeft

LEMMA DockerStarts ==
    ASSUME NEW left, left \in StartLeft("docker"), left # <<>>, NEW F \in SUBSET Fact
    PROVE  StartStep("docker", left, F)
<1>1. CASE left = <<"pull", "compose_up">>
  <2>1. Head(left) = "pull" /\ Tail(left) = <<"compose_up">> /\ Head(Tail(left)) = "compose_up"
    BY <1>1
  <2>. QED
    BY <1>1, <2>1 DEF StartStep, StartLeft, Ready, Begun, Works, Needs, After, Active
<1>2. CASE left = <<"compose_up">>
  <2>1. Head(left) = "compose_up" /\ Tail(left) = <<>>
    BY <1>2
  <2>. QED
    BY <1>2, <2>1 DEF StartStep, StartLeft, Ready, Begun, Works, Needs, After, Active
<1>. QED  BY <1>1, <1>2 DEF StartLeft

(* A deactivation that comes to its end has stopped the watcher; one that  *)
(* found the watcher as it was activated has taken everything back.        *)
StopStep(mode, left, F) ==
    LET cmd == Head(left)
    IN  /\ Tail(left) \in StopLeft(mode)
        /\ Silenced(left, F) /\ Works(cmd, F) => Silenced(Tail(left), After(cmd, F))
        /\ F = Stopped(mode, left) => After(cmd, F) = Stopped(mode, Tail(left))

LEMMA SystemdStops ==
    ASSUME NEW left, left \in StopLeft("systemd"), left # <<>>, NEW F \in SUBSET Fact
    PROVE  StopStep("systemd", left, F)
<1>1. CASE left = <<"disable_now", "rm", "reload">>
  <2>1. Head(left) = "disable_now" /\ Tail(left) = <<"rm", "reload">> /\ Head(Tail(left)) = "rm"
    BY <1>1
  <2>. QED
    BY <1>1, <2>1 DEF StopStep, StopLeft, Silenced, Stopped, Works, Needs, After, Active
<1>2. CASE left = <<"rm", "reload">>
  <2>1. Head(left) = "rm" /\ Tail(left) = <<"reload">> /\ Head(Tail(left)) = "reload"
    BY <1>2
  <2>. QED
    BY <1>2, <2>1 DEF StopStep, StopLeft, Silenced, Stopped, Works, Needs, After, Active
<1>3. CASE left = <<"reload">>
  <2>1. Head(left) = "reload" /\ Tail(left) = <<>>
    BY <1>3
  <2>. QED
    BY <1>3, <2>1 DEF StopStep, StopLeft, Silenced, Stopped, Works, Needs, After, Active
<1>. QED  BY <1>1, <1>2, <1>3 DEF StopLeft

LEMMA OpenRCStops ==
    ASSUME NEW left, left \in StopLeft("openrc"), left # <<>>, NEW F \in SUBSET Fact
    PROVE  StopStep("openrc", left, F)
<1>1. CASE left = <<"rc-service_stop", "rc-update_del", "rm">>
  <2>1. Head(left) = "rc-service_stop" /\ Tail(left) = <<"rc-update_del", "rm">> /\ Head(Tail(left)) = "rc-update_del"
    BY <1>1
  <2>. QED
    BY <1>1, <2>1 DEF StopStep, StopLeft, Silenced, Stopped, Works, Needs, After, Active
<1>2. CASE left = <<"rc-update_del", "rm">>
  <2>1. Head(left) = "rc-update_del" /\ Tail(left) = <<"rm">> /\ Head(Tail(left)) = "rm"
    BY <1>2
  <2>. QED
    BY <1>2, <2>1 DEF StopStep, StopLeft, Silenced, Stopped, Works, Needs, After, Active
<1>3. CASE left = <<"rm">>
  <2>1. Head(left) = "rm" /\ Tail(left) = <<>>
    BY <1>3
  <2>. QED
    BY <1>3, <2>1 DEF StopStep, StopLeft, Silenced, Stopped, Works, Needs, After, Active
<1>. QED  BY <1>1, <1>2, <1>3 DEF StopLeft

LEMMA RunitStops ==
    ASSUME NEW left, left \in StopLeft("runit"), left # <<>>, NEW F \in SUBSET Fact
    PROVE  StopStep("runit", left, F)
<1>1. CASE left = <<"sv_down", "rm_link", "rm">>
  <2>1. Head(left) = "sv_down" /\ Tail(left) = <<"rm_link", "rm">> /\ Head(Tail(left)) = "rm_link"
    BY <1>1
  <2>. QED
    BY <1>1, <2>1 DEF StopStep, StopLeft, Silenced, Stopped, Works, Needs, After, Active
<1>2. CASE left = <<"rm_link", "rm">>
  <2>1. Head(left) = "rm_link" /\ Tail(left) = <<"rm">> /\ Head(Tail(left)) = "rm"
    BY <1>2
  <2>. QED
    BY <1>2, <2>1 DEF StopStep, StopLeft, Silenced, Stopped, Works, Needs, After, Active
<1>3. CASE left = <<"rm">>
  <2>1. Head(left) = "rm" /\ Tail(left) = <<>>
    BY <1>3
  <2>. QED
    BY <1>3, <2>1 DEF StopStep, StopLeft, Silenced, Stopped, Works, Needs, After, Active
<1>. QED  BY <1>1, <1>2, <1>3 DEF StopLeft

LEMMA SupervisordStops ==
    ASSUME NEW left, left \in StopLeft("supervisord"), left # <<>>, NEW F \in SUBSET Fact
    PROVE  StopStep("supervisord", left, F)
<1>1. CASE left = <<"supervisorctl_stop", "rm", "reread", "update">>
  <2>1. Head(left) = "supervisorctl_stop" /\ Tail(left) = <<"rm", "reread", "update">> /\ Head(Tail(left)) = "rm"
    BY <1>1
  <2>. QED
    BY <1>1, <2>1 DEF StopStep, StopLeft, Silenced, Stopped, Works, Needs, After, Active
<1>2. CASE left = <<"rm", "reread", "update">>
  <2>1. Head(left) = "rm" /\ Tail(left) = <<"reread", "update">> /\ Head(Tail(left)) = "reread"
    BY <1>2
  <2>. QED
    BY <1>2, <2>1 DEF StopStep, StopLeft, Silenced, Stopped, Works, Needs, After, Active
<1>3. CASE left = <<"reread", "update">>
  <2>1. Head(left) = "reread" /\ Tail(left) = <<"update">> /\ Head(Tail(left)) = "update"
    BY <1>3
  <2>. QED
    BY <1>3, <2>1 DEF StopStep, StopLeft, Silenced, Stopped, Works, Needs, After, Active
<1>4. CASE left = <<"update">>
  <2>1. Head(left) = "update" /\ Tail(left) = <<>>
    BY <1>4
  <2>. QED
    BY <1>4, <2>1 DEF StopStep, StopLeft, Silenced, Stopped, Works, Needs, After, Active
<1>. QED  BY <1>1, <1>2, <1>3, <1>4 DEF StopLeft

LEMMA LaunchdStops ==
    ASSUME NEW left, left \in StopLeft("launchd"), left # <<>>, NEW F \in SUBSET Fact
    PROVE  StopStep("launchd", left, F)
<1>1. CASE left = <<"unload", "rm">>
  <2>1. Head(left) = "unload" /\ Tail(left) = <<"rm">> /\ Head(Tail(left)) = "rm"
    BY <1>1
  <2>. QED
    BY <1>1, <2>1 DEF StopStep, StopLeft, Silenced, Stopped, Works, Needs, After, Active
<1>2. CASE left = <<"rm">>
  <2>1. Head(left) = "rm" /\ Tail(left) = <<>>
    BY <1>2
  <2>. QED
    BY <1>2, <2>1 DEF StopStep, StopLeft, Silenced, Stopped, Works, Needs, After, Active
<1>. QED  BY <1>1, <1>2 DEF StopLeft

LEMMA DockerStops ==
    ASSUME NEW left, left \in StopLeft("docker"), left # <<>>, NEW F \in SUBSET Fact
    PROVE  StopStep("docker", left, F)
<1>1. CASE left = <<"compose_down">>
  <2>1. Head(left) = "compose_down" /\ Tail(left) = <<>>
    BY <1>1
  <2>. QED
    BY <1>1, <2>1 DEF StopStep, StopLeft, Silenced, Stopped, Works, Needs, After, Active
<1>. QED  BY <1>1 DEF StopLeft
-----------------------------------------------------------------------------
(* Where an invocation is in its plan *)

Starting(me) ==
    IF me.want.activated THEN Run(me.want.mode, watcher_class(me.want.mode).commands) ELSE <<>>

\* a refresh saves nothing
Ending(me) == IF me.want.mode = me.was.mode THEN <<>> ELSE SaveSteps

Building(me) == write_watcher_files(me.want.mode) \o (Starting(me) \o Ending(me))

Remaining(me) == IF me.want.mode = NoMode THEN SaveSteps ELSE Building(me)

AtStop(me, left) ==
    /\ me.was.mode \in Mode /\ me.want.mode # me.was.mode
    /\ left \in StopLeft(me.was.mode)
    /\ left # <<>> => me.was.activated
    /\ me.todo = Run(me.was.mode, left) \o (<<Do("unlink", me.was.mode)>> \o Remaining(me))

Builds(me) ==
    /\ me.want.mode \in Mode
    /\ me.want.mode = me.was.mode => me.want = me.was /\ me.want.mode = "docker"

AtFiles(me) ==
    /\ Builds(me)
    /\ \/ me.todo = Building(me)
       \/ /\ me.want.mode = "docker"
          /\ me.todo = <<Do("write", "docker")>> \o (Starting(me) \o Ending(me))

AtStart(me, left) ==
    /\ Builds(me)
    /\ me.want.activated
    /\ left \in StartLeft(me.want.mode) /\ left # <<>>
    /\ me.todo = Run(me.want.mode, left) \o Ending(me)

AtSave(me) == me.todo \in {SaveSteps, <<Do("save", NoMode)>>}

(* What the facts are there: as long as nothing has happened but commands  *)
(* that failed, which schedulers have it running; as long as nothing has   *)
(* happened, all of them.  An instance of the Windows task survives its    *)
(* deletion: hosts with that scheduler are left out.                       *)

Quiet == mishap \subseteq {"failed"} /\ "windows-task" \notin host
Exact == mishap = {} /\ "windows-task" \notin host

StopFacts(me, left) ==
    /\ Quiet => Up \subseteq {me.was.mode} /\ Silenced(left, facts[me.was.mode])
    /\ Exact => \A m \in Mode :
          facts[m] = IF m = me.was.mode THEN Stopped(m, left) ELSE {}

FilesFacts(me) ==
    /\ Quiet => Up \subseteq {me.was.mode} /\ (Up # {} => me.want = me.was /\ me.was.activated)
    /\ Exact => \A m \in Mode :
          facts[m] = IF me.want.mode = me.was.mode THEN Settled(me.was, m) ELSE {}

StartFacts(me, left) ==
    /\ Ready(left, facts[me.want.mode])
    /\ Quiet => Up \subseteq {me.want.mode}
    /\ Exact => \A m \in Mode :
          facts[m] = IF m # me.want.mode THEN {}
                     ELSE IF me.want.mode = me.was.mode THEN Active(m) ELSE Begun(m, left)

(* The facts agree with a configuration. *)
Agrees(config) ==
    /\ Quiet => Up \subseteq {config.mode} /\ (Up # {} => config.activated)
    /\ Exact => \A m \in Mode : facts[m] = Settled(config, m)

Standing(me) ==
    \/ /\ me.was.mode \in Mode
       /\ \E left \in StopLeft(me.was.mode) : AtStop(me, left) /\ StopFacts(me, left)
    \/ AtFiles(me) /\ FilesFacts(me)
    \/ /\ me.want.mode \in Mode
       /\ \E left \in StartLeft(me.want.mode) : AtStart(me, left) /\ StartFacts(me, left)
    \/ AtSave(me) /\ Agrees(me.want)

Placed(me) ==
    /\ Standing(me)
    /\ Quiet => IF me.todo = <<Do("save", NoMode)>> THEN global = Blank ELSE global = me.was
    /\ me.req.op = "install" => me.want.mode = Resolved(me.req)

(* An activated watcher is in a scheduler that the host has. *)
Activable(config) == config.activated => config.mode \in host

(* Why a command may have failed without anybody's interference *)
Excused(me) ==
    me.req.op = "install" /\ me.was.mode = NoMode /\ global # Broken =>
        \/ Resolved(me.req) = NoMode
        \/ me.req.activate /\ Resolved(me.req) \notin host
        \/ Resolved(me.req) = "docker" /\ contexts \cap Keyless # {}

(* A clean invocation is the only one that runs. *)
Sole ==
    /\ \A p, q \in Proc : Running(proc[p]) /\ proc[p].clean /\ Running(proc[q]) => p = q
    /\ \A p \in Proc : proc[p].pc = "failed" /\ proc[p].clean => AtRest
    /\ mishap \subseteq {"failed"} => \A p \in Proc : Running(proc[p]) => proc[p].clean

Supported ==
    /\ global \in Config => Activable(global)
    /\ \A p \in Proc : Activable(proc[p].was) /\ Activable(proc[p].want)

(* The global configuration is a whole one, and true. *)
Truthful ==
    /\ Quiet => global \in Config
    /\ global \in Config => Agrees(global)

Steady ==
    /\ Sole
    /\ Supported
    /\ (\A p \in Proc : proc[p].pc # "work") => Truthful
    /\ \A p \in Proc : proc[p].pc = "work" /\ proc[p].clean => Placed(proc[p])
    /\ \A p \in Proc : proc[p].pc = "failed" /\ proc[p].clean => Excused(proc[p])
-----------------------------------------------------------------------------
(* The steps of a plan, one by one *)

LEMMA LeftCommands ==
    ASSUME NEW mode \in Mode
    PROVE  /\ StartLeft(mode) \subseteq Seq(Command) /\ StopLeft(mode) \subseteq Seq(Command)
           /\ <<>> \in StopLeft(mode)
           /\ watcher_class(mode).commands \in StartLeft(mode) \ {<<>>}
           /\ watcher_class(mode).uninstall_commands \in StopLeft(mode)
<1> USE Tuples DEF Command, StartLeft, StopLeft, watcher_class
<1>1. CASE mode = "systemd"  BY <1>1 DEF Systemd
<1>2. CASE mode = "openrc"  BY <1>2 DEF OpenRC
<1>3. CASE mode = "runit"  BY <1>3 DEF Runit
<1>4. CASE mode = "supervisord"  BY <1>4 DEF Supervisord
<1>5. CASE mode = "launchd"  BY <1>5 DEF Launchd
<1>6. CASE mode = "windows-task"  BY <1>6 DEF WindowsTask
<1>7. CASE mode = "docker"  BY <1>7 DEF Docker
<1>. QED  BY <1>1, <1>2, <1>3, <1>4, <1>5, <1>6, <1>7 DEF Mode

(* What an activation and a deactivation begin with *)
LEMMA Beginnings ==
    ASSUME NEW mode \in Mode, NEW F \in SUBSET Fact
    PROVE  /\ "file" \in F => Ready(watcher_class(mode).commands, F)
           /\ Begun(mode, watcher_class(mode).commands) = {"file"}
           /\ mode # "windows-task" =>
                /\ Silenced(watcher_class(mode).uninstall_commands, F)
                /\ Stopped(mode, watcher_class(mode).uninstall_commands) = Active(mode)
<1> USE DEF Ready, Begun, Silenced, Stopped, watcher_class
<1>1. CASE mode = "systemd"  BY <1>1 DEF Systemd
<1>2. CASE mode = "openrc"  BY <1>2 DEF OpenRC
<1>3. CASE mode = "runit"  BY <1>3 DEF Runit
<1>4. CASE mode = "supervisord"  BY <1>4 DEF Supervisord
<1>5. CASE mode = "launchd"  BY <1>5 DEF Launchd
<1>6. CASE mode = "windows-task"  BY <1>6 DEF WindowsTask
<1>7. CASE mode = "docker"  BY <1>7 DEF Docker
<1>. QED  BY <1>1, <1>2, <1>3, <1>4, <1>5, <1>6, <1>7 DEF Mode

LEMMA Starts ==
    ASSUME NEW mode \in Mode, NEW left \in StartLeft(mode), left # <<>>, NEW F \in SUBSET Fact
    PROVE  StartStep(mode, left, F)
BY SystemdStarts, OpenRCStarts, RunitStarts, SupervisordStarts, LaunchdStarts, WindowsTaskStarts,
   DockerStarts DEF Mode

LEMMA Stops ==
    ASSUME NEW mode \in Mode \ {"windows-task"}, NEW left \in StopLeft(mode), left # <<>>,
           NEW F \in SUBSET Fact
    PROVE  StopStep(mode, left, F)
BY SystemdStops, OpenRCStops, RunitStops, SupervisordStops, LaunchdStops, DockerStops DEF Mode

(* Starting the Docker watcher again changes nothing. *)
LEMMA DockerStays ==
    ASSUME NEW left \in StartLeft("docker"), left # <<>>
    PROVE  After(Head(left), Active("docker")) = Active("docker")
<1>1. left = <<"pull", "compose_up">> \/ left = <<"compose_up">>
  BY DEF StartLeft
<1>2. Head(left) = "pull" \/ Head(left) = "compose_up"
  BY <1>1
<1>. QED  BY <1>2 DEF After, Active

LEMMA SameEnd == ASSUME NEW a \in Nat, NEW b \in Nat, 1 .. a = 1 .. b PROVE a = b
<1>1. a # 0 => a \in 1 .. b
  OBVIOUS
<1>2. b # 0 => b \in 1 .. a
  OBVIOUS
<1>. QED  BY <1>1, <1>2

LEMMA RunSteps ==
    ASSUME NEW mode \in Mode, NEW cmds \in Seq(Command), NEW rest \in Seq(WorkStep)
    PROVE  /\ Run(mode, cmds) \o rest \in Seq(WorkStep)
           /\ cmds = <<>> => Run(mode, cmds) \o rest = rest
           /\ cmds # <<>> =>
                /\ Run(mode, cmds) \o rest # <<>>
                /\ Head(Run(mode, cmds) \o rest) = [do |-> "run", mode |-> mode, cmd |-> Head(cmds)]
                /\ Tail(Run(mode, cmds) \o rest) = Run(mode, Tail(cmds)) \o rest
<1>1. Run(mode, cmds) \in Seq(Job) /\ Run(mode, cmds) \in Seq(WorkStep)
  BY JobSteps, SaveFacts
<1>2. /\ Len(cmds) \in Nat /\ DOMAIN cmds = 1 .. Len(cmds)
      /\ Run(mode, cmds) = [i \in 1 .. Len(cmds) |-> [do |-> "run", mode |-> mode, cmd |-> cmds[i]]]
      /\ Len(Run(mode, cmds)) = Len(cmds)
  <2>1. Len(cmds) \in Nat /\ DOMAIN cmds = 1 .. Len(cmds)
    BY LenProperties
  <2>2. Run(mode, cmds) = [i \in 1 .. Len(cmds) |-> [do |-> "run", mode |-> mode, cmd |-> cmds[i]]]
    BY <2>1 DEF Run
  <2>3. Len(Run(mode, cmds)) \in Nat /\ DOMAIN Run(mode, cmds) = 1 .. Len(Run(mode, cmds))
    BY <1>1, LenProperties
  <2>4. 1 .. Len(Run(mode, cmds)) = 1 .. Len(cmds)
    BY <2>2, <2>3
  <2>5. Len(Run(mode, cmds)) = Len(cmds)
    BY <2>1, <2>3, <2>4, SameEnd
  <2>. QED  BY <2>1, <2>2, <2>5
<1>3. CASE cmds = <<>>
  <2>1. Run(mode, cmds) = <<>>
    BY <1>1, <1>2, <1>3, EmptySeq
  <2>. QED  BY <1>1, <1>3, <2>1, ConcatEmptySeq, ConcatProperties
<1>4. CASE cmds # <<>>
  <2>1. Len(cmds) \in Nat \ {0} /\ Tail(cmds) \in Seq(Command) /\ Len(Tail(cmds)) = Len(cmds) - 1
        /\ \A i \in 1 .. Len(Tail(cmds)) : Tail(cmds)[i] = cmds[i + 1]
    BY <1>2, <1>4, EmptySeq, HeadTailProperties
  <2>2. Run(mode, cmds) # <<>>
    BY <1>1, <1>2, <2>1, EmptySeq
  <2>3. /\ Tail(Run(mode, cmds)) \in Seq(WorkStep)
        /\ Len(Tail(Run(mode, cmds))) = Len(cmds) - 1
        /\ \A i \in 1 .. Len(cmds) - 1 : Tail(Run(mode, cmds))[i] = Run(mode, cmds)[i + 1]
    BY <1>1, <1>2, <2>2, HeadTailProperties
  <2>4. /\ Run(mode, Tail(cmds)) \in Seq(WorkStep)
        /\ DOMAIN Tail(cmds) = 1 .. Len(cmds) - 1
        /\ Len(Run(mode, Tail(cmds))) = Len(cmds) - 1
    <3>1. Run(mode, Tail(cmds)) \in Seq(Job) /\ Run(mode, Tail(cmds)) \in Seq(WorkStep)
      BY <2>1, JobSteps, SaveFacts
    <3>2. DOMAIN Tail(cmds) = 1 .. Len(cmds) - 1
      BY <2>1, LenProperties
    <3>3. DOMAIN Run(mode, Tail(cmds)) = 1 .. Len(cmds) - 1
      BY <3>2 DEF Run
    <3>4. Len(Run(mode, Tail(cmds))) \in Nat
            /\ DOMAIN Run(mode, Tail(cmds)) = 1 .. Len(Run(mode, Tail(cmds)))
      BY <3>1, LenProperties
    <3>5. 1 .. Len(Run(mode, Tail(cmds))) = 1 .. Len(cmds) - 1
      BY <3>3, <3>4
    <3>6. Len(cmds) - 1 \in Nat
      BY <2>1
    <3>7. Len(Run(mode, Tail(cmds))) = Len(cmds) - 1
      BY <3>4, <3>5, <3>6, SameEnd
    <3>. QED  BY <3>1, <3>2, <3>7
  <2>5. ASSUME NEW i \in 1 .. Len(cmds) - 1
        PROVE  Tail(Run(mode, cmds))[i] = Run(mode, Tail(cmds))[i]
    <3>1. i + 1 \in 1 .. Len(cmds)
      BY <2>1
    <3>2. Tail(Run(mode, cmds))[i] = [do |-> "run", mode |-> mode, cmd |-> cmds[i + 1]]
      BY <1>2, <2>3, <3>1
    <3>3. Run(mode, Tail(cmds))[i] = [do |-> "run", mode |-> mode, cmd |-> Tail(cmds)[i]]
      BY <2>4 DEF Run
    <3>. QED  BY <2>1, <3>2, <3>3
  <2>6. Tail(Run(mode, cmds)) = Run(mode, Tail(cmds))
    BY <2>1, <2>3, <2>4, <2>5, SeqEqual
  <2>7. Head(Run(mode, cmds)) = [do |-> "run", mode |-> mode, cmd |-> Head(cmds)]
    <3>1. 1 \in 1 .. Len(cmds)
      BY <2>1
    <3>2. Head(cmds) = cmds[1] /\ Head(Run(mode, cmds)) = Run(mode, cmds)[1]
      BY <1>1, <1>4, <2>2
    <3>. QED  BY <1>2, <3>1, <3>2
  <2>8. Run(mode, cmds) \o rest \in Seq(WorkStep) /\ Run(mode, cmds) \o rest # <<>>
    BY <1>1, <2>2, ConcatProperties, ConcatEqualIffEmpty
  <2>. QED  BY <1>1, <1>4, <2>2, <2>6, <2>7, <2>8, HeadTailOfJoined
<1>. QED  BY <1>3, <1>4

LEMMA OneBefore ==
    ASSUME NEW step \in WorkStep, NEW rest \in Seq(WorkStep)
    PROVE  /\ <<step>> \o rest \in Seq(WorkStep) /\ <<step>> \o rest # <<>>
           /\ Head(<<step>> \o rest) = step /\ Tail(<<step>> \o rest) = rest
<1>1. /\ <<step>> \in Seq(WorkStep) /\ <<step>> # <<>>
      /\ Head(<<step>>) = step /\ Tail(<<step>>) = <<>>
  OBVIOUS
<1>2. <<>> \o rest = rest
  BY ConcatEmptySeq
<1>3. <<step>> \o rest \in Seq(WorkStep) /\ <<step>> \o rest # <<>>
  BY <1>1, ConcatProperties, ConcatEqualIffEmpty
<1>. QED  BY <1>1, <1>2, <1>3, HeadTailOfJoined

(* An invocation is one step further in its plan. *)
Further(me) ==
    /\ Advanced(me).pc = "work" /\ Advanced(me).todo = Tail(me.todo)
    /\ Advanced(me).req = me.req /\ Advanced(me).clean = me.clean
    /\ Advanced(me).was = me.was /\ Advanced(me).want = me.want

LEMMA Advance ==
    ASSUME NEW me \in Invocation, me.pc = "work", me.todo # <<>>
    PROVE  /\ me.todo \in Seq(WorkStep)
           /\ Tail(me.todo) # <<>> => Further(me)
           /\ Tail(me.todo) = <<>> => Advanced(me) = Idle
<1>1. me.todo \in Seq(WorkStep)
  BY SaveFacts, SavesAfter DEF Invocation, Plan, Saving
<1>2. Len(me.todo) # 1 => Tail(me.todo) # <<>>
  BY <1>1, JobPlan
<1>3. Len(me.todo) = 1 => Tail(me.todo) = <<>>
  <2>1. Tail(me.todo) \in Seq(WorkStep) /\ Len(Tail(me.todo)) = Len(me.todo) - 1
    BY <1>1, HeadTailProperties
  <2>2. Len(me.todo) = 1 => Len(Tail(me.todo)) = 0
    BY <2>1
  <2>. QED  BY <2>1, <2>2, EmptySeq
<1>4. Len(me.todo) # 1 => Further(me)
  <2>1. Len(me.todo) # 1 => Advanced(me) = [me EXCEPT !.todo = Tail(@)]
    BY DEF Advanced
  <2>. QED  BY <2>1 DEF Further, Invocation
<1>. QED  BY <1>1, <1>2, <1>3, <1>4 DEF Advanced, Done

LEMMA PlanParts ==
    ASSUME NEW me \in Invocation
    PROVE  /\ Ending(me) \in Seq(WorkStep)
           /\ Ending(me) = IF me.want.mode = me.was.mode THEN <<>> ELSE SaveSteps
           /\ me.want.mode \in Mode =>
                /\ Starting(me) \in Seq(WorkStep) /\ Starting(me) \o Ending(me) \in Seq(WorkStep)
                /\ Building(me) \in Seq(WorkStep) /\ Building(me) # <<>>
           /\ Remaining(me) \in Seq(WorkStep) /\ Remaining(me) # <<>>
<1>1. Ending(me) \in Seq(WorkStep)
  BY SaveFacts, Tuples DEF Ending
<1>2. ASSUME me.want.mode \in Mode
      PROVE  /\ Starting(me) \in Seq(WorkStep) /\ Starting(me) \o Ending(me) \in Seq(WorkStep)
             /\ Building(me) \in Seq(WorkStep) /\ Building(me) # <<>>
  <2>1. Starting(me) \in Seq(WorkStep)
    BY <1>2, CommandLists, JobSteps, SaveFacts, Tuples DEF Starting
  <2>2. Starting(me) \o Ending(me) \in Seq(WorkStep)
    BY <1>1, <2>1, ConcatProperties
  <2>3. write_watcher_files(me.want.mode) \in Seq(WorkStep)
          /\ write_watcher_files(me.want.mode) # <<>>
    BY <1>2, FilesPlan, SaveFacts
  <2>. QED  BY <2>1, <2>2, <2>3, ConcatProperties, ConcatEqualIffEmpty DEF Building
<1>3. me.want.mode \in Mode \cup {NoMode}
  BY DEF Invocation, Config
<1>. QED  BY <1>1, <1>2, <1>3, SaveFacts DEF Ending, Remaining

(* While the old watcher is deactivated *)
LEMMA StopSteps ==
    ASSUME NEW me \in Invocation, me.pc = "work", NEW left, AtStop(me, left)
    PROVE  /\ left # <<>> =>
                /\ Head(me.todo) = [do |-> "run", mode |-> me.was.mode, cmd |-> Head(left)]
                /\ Further(me) /\ AtStop(Advanced(me), Tail(left))
           /\ left = <<>> =>
                /\ Head(me.todo) = Do("unlink", me.was.mode) /\ Further(me)
                /\ IF me.want.mode = NoMode THEN AtSave(Advanced(me)) ELSE AtFiles(Advanced(me))
<1> DEFINE mode == me.was.mode
           rest == <<Do("unlink", mode)>> \o Remaining(me)
<1>1. mode \in Mode /\ left \in StopLeft(mode) /\ left \in Seq(Command)
        /\ me.todo = Run(mode, left) \o rest
  BY LeftCommands DEF AtStop
<1>2. Do("unlink", mode) \in WorkStep
  BY <1>1, Tuples DEF Do, WorkStep, Command
<1>3. rest \in Seq(WorkStep) /\ rest # <<>> /\ Head(rest) = Do("unlink", mode) /\ Tail(rest) = Remaining(me)
  BY <1>2, PlanParts, OneBefore
<1>. HIDE DEF rest
<1>4. ASSUME left # <<>>
      PROVE  /\ Head(me.todo) = [do |-> "run", mode |-> mode, cmd |-> Head(left)]
             /\ Further(me) /\ AtStop(Advanced(me), Tail(left))
  <2>1. Tail(left) \in StopLeft(mode) /\ Tail(left) \in Seq(Command)
    <3>1. CASE mode = "windows-task"
      <4>1. left = <<"schtasks_delete">>
        BY <1>1, <1>4, <3>1 DEF StopLeft
      <4>2. Tail(left) = <<>>
        BY <4>1
      <4>. QED  BY <1>1, <4>2, LeftCommands
    <3>2. CASE mode # "windows-task"
      <4>1. {} \in SUBSET Fact
        OBVIOUS
      <4>2. StopStep(mode, left, {})
        BY <1>1, <1>4, <3>2, <4>1, Stops
      <4>. QED  BY <1>1, <4>2, LeftCommands DEF StopStep
    <3>. QED  BY <3>1, <3>2
  <2>2. /\ me.todo # <<>>
        /\ Head(me.todo) = [do |-> "run", mode |-> mode, cmd |-> Head(left)]
        /\ Tail(me.todo) = Run(mode, Tail(left)) \o rest
    <3>1. /\ Run(mode, left) \o rest # <<>>
          /\ Head(Run(mode, left) \o rest) = [do |-> "run", mode |-> mode, cmd |-> Head(left)]
          /\ Tail(Run(mode, left) \o rest) = Run(mode, Tail(left)) \o rest
      BY <1>1, <1>3, <1>4, RunSteps
    <3>. QED  BY <1>1, <3>1
  <2>3. Tail(me.todo) # <<>>
    <3>1. Tail(left) = <<>> => Run(mode, Tail(left)) \o rest = rest
      BY <1>1, <1>3, <2>1, RunSteps
    <3>2. Tail(left) # <<>> => Run(mode, Tail(left)) \o rest # <<>>
      BY <1>1, <1>3, <2>1, RunSteps
    <3>. QED  BY <1>3, <2>2, <3>1, <3>2
  <2>4. Further(me)
    BY <2>2, <2>3, Advance
  <2>. QED  BY <1>1, <1>4, <2>1, <2>2, <2>4
            DEF rest, Further, AtStop, Remaining, Building, Starting, Ending
<1>5. ASSUME left = <<>>
      PROVE  /\ Head(me.todo) = Do("unlink", mode) /\ Further(me)
             /\ IF me.want.mode = NoMode THEN AtSave(Advanced(me)) ELSE AtFiles(Advanced(me))
  <2>1. me.todo = rest
    BY <1>1, <1>3, <1>5, RunSteps
  <2>2. Further(me)
    BY <1>3, <2>1, PlanParts, Advance
  <2>3. Advanced(me).todo = Remaining(me)
    BY <1>3, <2>1, <2>2 DEF Further
  <2>4. CASE me.want.mode = NoMode
    BY <1>3, <2>1, <2>2, <2>3, <2>4 DEF AtSave, Remaining
  <2>5. CASE me.want.mode # NoMode
    <3>1. me.want.mode \in Mode /\ me.want.mode # me.was.mode
      BY <2>5 DEF Invocation, Config, AtStop
    <3>2. Building(Advanced(me)) = Building(me)
      BY <2>2 DEF Further, Building, Starting, Ending
    <3>. QED  BY <1>3, <2>1, <2>2, <2>3, <2>5, <3>1, <3>2 DEF AtFiles, Builds, Remaining, Further
  <2>. QED  BY <2>4, <2>5
<1>. QED  BY <1>4, <1>5

(* While the files are written *)
LEMMA FilesSteps ==
    ASSUME NEW me \in Invocation, me.pc = "work", AtFiles(me)
    PROVE  \/ /\ Head(me.todo) = Do("contexts", "docker")
              /\ Further(me) /\ AtFiles(Advanced(me))
           \/ /\ me.todo # <<>> /\ Head(me.todo) = Do("write", me.want.mode)
              /\ Tail(me.todo) = Starting(me) \o Ending(me)
<1> DEFINE mode == me.want.mode
           rest == Starting(me) \o Ending(me)
<1>1. mode \in Mode /\ rest \in Seq(WorkStep)
  BY PlanParts DEF AtFiles, Builds
<1>2. Do("write", mode) \in WorkStep /\ Do("contexts", mode) \in WorkStep
  BY <1>1 DEF Do, WorkStep, Command
<1>. HIDE DEF rest
<1>3. CASE me.todo = <<Do("write", mode)>> \o rest
  BY <1>1, <1>2, <1>3, OneBefore DEF rest
<1>4. CASE mode = "docker" /\ me.todo = <<Do("contexts", mode), Do("write", mode)>> \o rest
  <2>1. /\ <<Do("contexts", mode), Do("write", mode)>> \in Seq(WorkStep)
        /\ <<Do("contexts", mode), Do("write", mode)>> # <<>>
        /\ Head(<<Do("contexts", mode), Do("write", mode)>>) = Do("contexts", mode)
        /\ Tail(<<Do("contexts", mode), Do("write", mode)>>) = <<Do("write", mode)>>
    BY <1>2
  <2>2. Head(me.todo) = Do("contexts", mode) /\ Tail(me.todo) = <<Do("write", mode)>> \o rest
    BY <1>1, <1>4, <2>1, HeadTailOfJoined
  <2>3. me.todo # <<>> /\ Tail(me.todo) # <<>>
    BY <1>1, <1>2, <1>4, <2>1, <2>2, OneBefore, ConcatEqualIffEmpty
  <2>4. Further(me)
    BY <2>3, Advance
  <2>5. AtFiles(Advanced(me))
    BY <1>4, <2>2, <2>4 DEF rest, AtFiles, Builds, Further, Starting, Ending
  <2>. QED  BY <1>4, <2>2, <2>4, <2>5
<1>5. me.todo = <<Do("write", mode)>> \o rest
        \/ (mode = "docker" /\ me.todo = <<Do("contexts", mode), Do("write", mode)>> \o rest)
  BY DEF rest, AtFiles, Building, write_watcher_files
<1>. QED  BY <1>3, <1>4, <1>5

LEMMA AfterWrite ==
    ASSUME NEW me \in Invocation, me.pc = "work", Builds(me), me.todo # <<>>,
           Tail(me.todo) = Starting(me) \o Ending(me)
    PROVE  /\ me.want.activated =>
                Further(me) /\ AtStart(Advanced(me), watcher_class(me.want.mode).commands)
           /\ ~ me.want.activated /\ me.want.mode # me.was.mode =>
                Further(me) /\ AtSave(Advanced(me))
           /\ ~ me.want.activated /\ me.want.mode = me.was.mode => Advanced(me) = Idle
<1>1. me.want.mode \in Mode /\ Ending(me) \in Seq(WorkStep)
  BY PlanParts DEF Builds
<1>2. ASSUME me.want.activated
      PROVE  Further(me) /\ AtStart(Advanced(me), watcher_class(me.want.mode).commands)
  <2> DEFINE cmds == watcher_class(me.want.mode).commands
  <2>1. cmds \in StartLeft(me.want.mode) /\ cmds # <<>> /\ cmds \in Seq(Command)
    BY <1>1, LeftCommands
  <2>2. Tail(me.todo) = Run(me.want.mode, cmds) \o Ending(me)
    BY <1>2 DEF Starting
  <2>. HIDE DEF cmds
  <2>3. Run(me.want.mode, cmds) \o Ending(me) # <<>>
    BY <1>1, <2>1, RunSteps
  <2>4. Further(me)
    BY <2>2, <2>3, Advance
  <2>5. AtStart(Advanced(me), cmds)
    BY <1>2, <2>1, <2>2, <2>4 DEF AtStart, Builds, Further, Ending
  <2>. QED  BY <2>4, <2>5 DEF cmds
<1>3. ASSUME ~ me.want.activated
      PROVE  /\ me.want.mode # me.was.mode => Further(me) /\ AtSave(Advanced(me))
             /\ me.want.mode = me.was.mode => Advanced(me) = Idle
  <2>1. Tail(me.todo) = Ending(me)
    <3>1. Starting(me) = <<>>
      BY <1>3 DEF Starting
    <3>. QED  BY <1>1, <3>1, ConcatEmptySeq
  <2>2. me.want.mode # me.was.mode => Further(me) /\ AtSave(Advanced(me))
    BY <2>1, SaveFacts, Advance DEF Ending, AtSave, Further
  <2>3. me.want.mode = me.was.mode => Advanced(me) = Idle
    BY <2>1, Advance DEF Ending
  <2>. QED  BY <2>2, <2>3
<1>. QED  BY <1>2, <1>3

(* While the new watcher is activated *)
LEMMA StartSteps ==
    ASSUME NEW me \in Invocation, me.pc = "work", NEW left, AtStart(me, left)
    PROVE  /\ Head(me.todo) = [do |-> "run", mode |-> me.want.mode, cmd |-> Head(left)]
           /\ Tail(left) # <<>> => Further(me) /\ AtStart(Advanced(me), Tail(left))
           /\ Tail(left) = <<>> /\ me.want.mode # me.was.mode =>
                Further(me) /\ AtSave(Advanced(me))
           /\ Tail(left) = <<>> /\ me.want.mode = me.was.mode => Advanced(me) = Idle
<1> DEFINE mode == me.want.mode
           rest == Ending(me)
<1>1. /\ mode \in Mode /\ left \in StartLeft(mode) /\ left \in Seq(Command) /\ left # <<>>
      /\ me.todo = Run(mode, left) \o rest /\ rest \in Seq(WorkStep)
  BY PlanParts, LeftCommands DEF AtStart, Builds
<1>2. Tail(left) \in StartLeft(mode) /\ Tail(left) \in Seq(Command)
  <2>1. {} \in SUBSET Fact
    OBVIOUS
  <2>2. StartStep(mode, left, {})
    BY <1>1, <2>1, Starts
  <2>. QED  BY <1>1, <2>2, LeftCommands DEF StartStep
<1>. HIDE DEF rest
<1>3. /\ me.todo # <<>>
      /\ Head(me.todo) = [do |-> "run", mode |-> mode, cmd |-> Head(left)]
      /\ Tail(me.todo) = Run(mode, Tail(left)) \o rest
  <2>1. /\ Run(mode, left) \o rest # <<>>
        /\ Head(Run(mode, left) \o rest) = [do |-> "run", mode |-> mode, cmd |-> Head(left)]
        /\ Tail(Run(mode, left) \o rest) = Run(mode, Tail(left)) \o rest
    BY <1>1, RunSteps
  <2>. QED  BY <1>1, <2>1
<1>4. ASSUME Tail(left) # <<>>
      PROVE  Further(me) /\ AtStart(Advanced(me), Tail(left))
  <2>1. Run(mode, Tail(left)) \o rest # <<>>
    BY <1>1, <1>2, <1>4, RunSteps
  <2>2. Further(me)
    BY <1>3, <2>1, Advance
  <2>. QED  BY <1>2, <1>3, <1>4, <2>2 DEF rest, AtStart, Builds, Further, Ending
<1>5. ASSUME Tail(left) = <<>>
      PROVE  /\ me.want.mode # me.was.mode => Further(me) /\ AtSave(Advanced(me))
             /\ me.want.mode = me.was.mode => Advanced(me) = Idle
  <2>1. Run(mode, Tail(left)) \o rest = rest
    BY <1>1, <1>2, <1>5, RunSteps
  <2>2. Tail(me.todo) = Ending(me)
    BY <1>3, <2>1 DEF rest
  <2>3. me.want.mode # me.was.mode => Further(me) /\ AtSave(Advanced(me))
    BY <1>3, <2>2, SaveFacts, Advance DEF Ending, AtSave, Further
  <2>4. me.want.mode = me.was.mode => Advanced(me) = Idle
    BY <1>3, <2>2, Advance DEF Ending
  <2>. QED  BY <2>3, <2>4
<1>. QED  BY <1>3, <1>4, <1>5

(* While the metadata is saved *)
LEMMA SaveStep ==
    ASSUME NEW me \in Invocation, me.pc = "work", AtSave(me)
    PROVE  \/ /\ me.todo = SaveSteps /\ Head(me.todo).do = "truncate"
              /\ Further(me) /\ AtSave(Advanced(me)) /\ Advanced(me).todo = <<Do("save", NoMode)>>
           \/ /\ me.todo = <<Do("save", NoMode)>> /\ Head(me.todo).do = "save"
              /\ Advanced(me) = Idle
<1>1. CASE me.todo = SaveSteps
  <2>1. me.todo # <<>> /\ Tail(me.todo) = <<Do("save", NoMode)>> /\ Tail(me.todo) # <<>>
    BY <1>1, SaveFacts
  <2>2. Further(me)
    BY <2>1, Advance
  <2>. QED  BY <1>1, <2>1, <2>2, SaveFacts DEF AtSave, Further
<1>2. CASE me.todo = <<Do("save", NoMode)>>
  <2>1. me.todo # <<>> /\ Tail(me.todo) = <<>>
    BY <1>2
  <2>. QED  BY <1>2, <2>1, SaveFacts, Advance
<1>. QED  BY <1>1, <1>2 DEF AtSave
-----------------------------------------------------------------------------
(* What a step does to the facts *)

LEMMA FactsStep ==
    ASSUME facts \in [Mode -> SUBSET Fact], NEW mode \in Mode, NEW F,
           facts' = [facts EXCEPT ![mode] = F]
    PROVE  /\ facts'[mode] = F /\ \A m \in Mode \ {mode} : facts'[m] = facts[m]
           /\ Up' \subseteq Up \cup {mode}
           /\ "up" \notin F => Up' \subseteq Up \ {mode}
BY DEF Up

LEMMA StopFactsStep ==
    ASSUME Types, NEW me \in Invocation, NEW new, new.was = me.was, NEW left,
           AtStop(me, left), left # <<>>, StopFacts(me, left), Activable(me.was),
           Works(Head(left), facts[me.was.mode]),
           facts' = [facts EXCEPT ![me.was.mode] = After(Head(left), @)],
           UNCHANGED <<host, mishap>>
    PROVE  StopFacts(new, Tail(left))'
<1> DEFINE mode == me.was.mode
           F == After(Head(left), facts[mode])
<1>1. /\ mode \in Mode /\ left \in StopLeft(mode) /\ me.was.activated
      /\ facts \in [Mode -> SUBSET Fact] /\ facts[mode] \in SUBSET Fact
  BY DEF AtStop, Types, TypeOK
<1>2. /\ facts'[mode] = F /\ \A m \in Mode \ {mode} : facts'[m] = facts[m]
      /\ Up' \subseteq Up \cup {mode}
  BY <1>1, FactsStep
<1>3. Quiet => mode # "windows-task"
  BY <1>1 DEF Quiet, Activable
<1>4. ASSUME Quiet' PROVE Up' \subseteq {mode} /\ Silenced(Tail(left), F)
  <2>1. Quiet /\ mode # "windows-task"
    BY <1>3, <1>4 DEF Quiet
  <2>2. StopStep(mode, left, facts[mode])
    BY <1>1, <2>1, Stops
  <2>. QED  BY <1>2, <2>1, <2>2 DEF StopFacts, StopStep
<1>5. ASSUME Exact', NEW m \in Mode
      PROVE  facts'[m] = IF m = mode THEN Stopped(m, Tail(left)) ELSE {}
  <2>1. Exact /\ mode # "windows-task"
    BY <1>3, <1>5 DEF Exact, Quiet
  <2>2. StopStep(mode, left, facts[mode])
    BY <1>1, <2>1, Stops
  <2>3. facts[mode] = Stopped(mode, left) /\ \A n \in Mode \ {mode} : facts[n] = {}
    BY <1>1, <2>1 DEF StopFacts
  <2>. QED  BY <1>2, <2>2, <2>3 DEF StopStep
<1>. HIDE DEF F
<1>. QED  BY <1>2, <1>4, <1>5 DEF StopFacts

LEMMA StartFactsStep ==
    ASSUME Types, NEW me \in Invocation, NEW new, new.was = me.was, new.want = me.want, NEW left,
           AtStart(me, left), StartFacts(me, left),
           facts' = [facts EXCEPT ![me.want.mode] = After(Head(left), @)],
           UNCHANGED <<host, mishap>>
    PROVE  StartFacts(new, Tail(left))'
<1> DEFINE mode == me.want.mode
           F == After(Head(left), facts[mode])
<1>1. /\ mode \in Mode /\ left \in StartLeft(mode) /\ left # <<>>
      /\ facts \in [Mode -> SUBSET Fact] /\ facts[mode] \in SUBSET Fact
  BY DEF AtStart, Builds, Types, TypeOK
<1>2. /\ facts'[mode] = F /\ \A m \in Mode \ {mode} : facts'[m] = facts[m]
      /\ Up' \subseteq Up \cup {mode}
  BY <1>1, FactsStep
<1>3. StartStep(mode, left, facts[mode])
  BY <1>1, Starts
<1>4. Ready(Tail(left), F)
  BY <1>3 DEF StartFacts, StartStep
<1>5. Quiet' => Up' \subseteq {mode}
  BY <1>2 DEF StartFacts, Quiet
<1>6. ASSUME Exact'
      PROVE  /\ F = IF mode = me.was.mode THEN Active(mode) ELSE Begun(mode, Tail(left))
             /\ \A m \in Mode \ {mode} : facts'[m] = {}
  <2>1. Exact
    BY <1>6 DEF Exact
  <2>2. /\ facts[mode] = IF mode = me.was.mode THEN Active(mode) ELSE Begun(mode, left)
        /\ \A m \in Mode \ {mode} : facts[m] = {}
    BY <1>1, <2>1 DEF StartFacts
  <2>3. CASE mode = me.was.mode
    <3>1. mode = "docker"
      BY <2>3 DEF AtStart, Builds
    <3>. QED  BY <1>1, <1>2, <2>2, <2>3, <3>1, DockerStays
  <2>4. CASE mode # me.was.mode
    BY <1>2, <1>3, <2>2, <2>4 DEF StartStep
  <2>. QED  BY <2>3, <2>4
<1>. HIDE DEF F
<1>. QED  BY <1>2, <1>4, <1>5, <1>6 DEF StartFacts

LEMMA StartedAgrees ==
    ASSUME NEW me \in Invocation, me.want.activated, me.want.mode \in Mode, StartFacts(me, <<>>)'
    PROVE  Agrees(me.want)'
<1>1. Begun(me.want.mode, <<>>) = Active(me.want.mode)
  BY DEF Begun
<1>. QED  BY <1>1 DEF StartFacts, Agrees, Settled
-----------------------------------------------------------------------------
(* A step of one invocation *)

(* The others are at rest while a clean invocation runs; one that is not   *)
(* clean owes nothing.                                                     *)
LEMMA StepSteady ==
    ASSUME Types, Steady, NEW p \in Proc, NEW new \in Invocation, Become(p, new),
           Running(proc[p]), new.pc \in {"idle", "failed", "work"},
           UNCHANGED <<host, contexts>>, mishap \subseteq mishap',
           Activable(new.was), Activable(new.want), global' \in Config => Activable(global'),
           proc[p].clean =>
             /\ new.pc = "work" => new.clean /\ Placed(new)'
             /\ new.pc = "failed" /\ new.clean => Excused(new)'
             /\ new.pc # "work" => Truthful',
           ~ proc[p].clean /\ new.pc # "idle" => ~ new.clean
    PROVE  Steady'
<1>1. proc'[p] = new /\ \A q \in Proc \ {p} : proc'[q] = proc[q]
  BY DEF Types, Become
<1>2. Sole /\ Supported
  BY DEF Steady
<1>3. ~ AtRest
  BY DEF AtRest
<1>4. \A q \in Proc : ~ (proc[q].pc = "failed" /\ proc[q].clean)
  BY <1>2, <1>3 DEF Sole
<1>5. Supported'
  BY <1>1, <1>2 DEF Supported, Activable
<1>6. CASE proc[p].clean
  <2>1. \A q \in Proc \ {p} : ~ Running(proc'[q])
    BY <1>1, <1>2, <1>6 DEF Sole
  <2>2. \A q \in Proc \ {p} : proc'[q].pc # "work" /\ ~ (proc'[q].pc = "failed" /\ proc'[q].clean)
    BY <1>1, <1>4, <2>1 DEF Running
  <2>3. Sole'
    <3>1. \A q, r \in Proc : Running(proc'[q]) /\ Running(proc'[r]) => q = r
      BY <2>1
    <3>2. ASSUME NEW q \in Proc, proc'[q].pc = "failed", proc'[q].clean PROVE AtRest'
      <4>1. q = p /\ new.pc = "failed"
        BY <1>1, <2>2, <3>2
      <4>. QED  BY <1>1, <2>1, <4>1 DEF AtRest, Running
    <3>3. \A q \in Proc : Running(proc'[q]) => proc'[q].clean
      BY <1>1, <1>6, <2>1 DEF Running
    <3>. QED  BY <3>1, <3>2, <3>3 DEF Sole
  <2>4. (\A q \in Proc : proc'[q].pc # "work") => Truthful'
    BY <1>1, <1>6
  <2>5. ASSUME NEW q \in Proc, proc'[q].pc = "work" PROVE Placed(proc[q])'
    <3>1. q = p
      BY <2>2, <2>5
    <3>2. proc'[q] = new /\ Placed(new)'
      BY <1>1, <1>6, <2>5, <3>1
    <3>. QED  BY <3>2 DEF Placed, Standing, StopFacts, FilesFacts, StartFacts, Agrees, Resolved
  <2>6. ASSUME NEW q \in Proc, proc'[q].pc = "failed", proc'[q].clean PROVE Excused(proc[q])'
    <3>1. q = p
      BY <2>2, <2>6
    <3>. QED  BY <1>1, <1>6, <2>6, <3>1 DEF Excused
  <2>. QED  BY <1>5, <2>3, <2>4, <2>5, <2>6 DEF Steady
<1>7. CASE ~ proc[p].clean
  <2>1. ~ (mishap' \subseteq {"failed"}) /\ ~ Quiet' /\ ~ Exact'
    BY <1>2, <1>7 DEF Sole, Quiet, Exact
  <2>2. \A q \in Proc : ~ (Running(proc[q]) /\ proc[q].clean)
    BY <1>2, <1>7 DEF Sole
  <2>3. \A q \in Proc : ~ (Running(proc'[q]) /\ proc'[q].clean)
    BY <1>1, <1>7, <2>2 DEF Running
  <2>4. \A q \in Proc : ~ (proc'[q].pc = "failed" /\ proc'[q].clean)
    BY <1>1, <1>4, <1>7
  <2>5. Sole'
    BY <2>1, <2>3, <2>4 DEF Sole
  <2>6. Truthful'
    BY <2>1 DEF Truthful, Agrees
  <2>7. \A q \in Proc : ~ (proc'[q].pc = "work" /\ proc'[q].clean)
    BY <2>3 DEF Running
  <2>. QED  BY <1>5, <2>4, <2>5, <2>6, <2>7 DEF Steady
<1>. QED  BY <1>6, <1>7

LEMMA IdleSupported == Idle.pc = "idle" /\ Activable(Idle.was) /\ Activable(Idle.want)
BY DEF Idle, Activable, Default

(* One step of a plan that has gone well: where the invocation stands      *)
(* then, or what the host and the metadata are at its end, is for the      *)
(* step's own lemma to say.                                                *)
LEMMA Progress ==
    ASSUME Types, Steady, NEW p \in Proc, NEW what, Next1(p, what),
           NEW me, me = proc[p], NEW new, new = Advanced(me), Become(p, new),
           UNCHANGED <<host, contexts, mishap>>,
           what # "truncate" => global' = global \/ new.pc = "idle",
           what = "truncate" => global' = Blank,
           global' \in Config => Activable(global'),
           me.clean =>
             /\ what = "truncate" => new.todo = <<Do("save", NoMode)>>
             /\ new.pc = "work" => Standing(new)'
             /\ new.pc # "work" => Truthful'
    PROVE  Steady'
<1>1. /\ me \in Invocation /\ me.pc = "work" /\ me.todo # <<>> /\ me.todo \in Plan
      /\ Head(me.todo).do = what /\ Running(proc[p])
  BY DEF Types, TypeOK, Next1, Invocation, Running
<1>2. new \in Invocation
  BY <1>1, AdvancedTyped
<1>3. /\ Len(me.todo) = 1 => new = Idle
      /\ Len(me.todo) # 1 => Further(me) /\ Tail(me.todo) # <<>>
  <2>1. me.todo \in Seq(WorkStep) /\ (Len(me.todo) # 1 => Tail(me.todo) # <<>>)
    BY <1>1, Advance, JobPlan
  <2>. QED  BY <1>1, <2>1, Advance, AdvancedTyped
<1>4. Activable(me.was) /\ Activable(me.want)
  BY DEF Steady, Supported
<1>5. Activable(new.was) /\ Activable(new.want) /\ new.pc \in {"idle", "work"}
        /\ (new.pc = "work" => new.clean = me.clean /\ new.was = me.was /\ new.want = me.want
                                 /\ new.req = me.req /\ new.todo = Tail(me.todo) /\ Len(me.todo) # 1)
  BY <1>3, <1>4, IdleSupported DEF Further
<1>6. ASSUME me.clean, new.pc = "work" PROVE Placed(new)'
  <2>1. Placed(me)
    BY <1>1, <1>6 DEF Steady
  <2>2. Quiet' => IF new.todo = <<Do("save", NoMode)>> THEN global' = Blank ELSE global' = new.was
    <3>1. CASE what = "truncate"
      BY <1>6, <3>1
    <3>2. CASE what # "truncate"
      <4>1. new.todo # <<Do("save", NoMode)>>
        BY <1>1, <1>5, <1>6, <3>2, PlanSteps
      <4>2. me.todo # <<Do("save", NoMode)>>
        <5>1. Len(<<Do("save", NoMode)>>) = 1
          BY SaveFacts
        <5>. QED  BY <1>5, <1>6, <5>1
      <4>. QED  BY <1>5, <1>6, <2>1, <3>2, <4>1, <4>2 DEF Placed, Quiet
    <3>. QED  BY <3>1, <3>2
  <2>3. new.req.op = "install" => new.want.mode = Resolved(new.req)'
    BY <1>5, <1>6, <2>1 DEF Placed, Resolved
  <2>4. Standing(new)'
    BY <1>6
  <2>. QED  BY <2>2, <2>3, <2>4 DEF Placed
<1>7. ~ me.clean /\ new.pc # "idle" => ~ new.clean
  BY <1>5
<1>8. mishap \subseteq mishap'
  OBVIOUS
<1>. QED  BY <1>1, <1>2, <1>5, <1>6, <1>7, <1>8, StepSteady

(* Where an invocation stands that does a step *)
LEMMA Where ==
    ASSUME NEW me \in Invocation, me.pc = "work", Standing(me)
    PROVE  /\ Head(me.todo).do = "run" =>
                \/ \E left \in StopLeft(me.was.mode) :
                      left # <<>> /\ AtStop(me, left) /\ StopFacts(me, left)
                \/ \E left \in StartLeft(me.want.mode) : AtStart(me, left) /\ StartFacts(me, left)
           /\ Head(me.todo).do = "unlink" => AtStop(me, <<>>) /\ StopFacts(me, <<>>)
           /\ Head(me.todo).do \in {"contexts", "write"} => AtFiles(me) /\ FilesFacts(me)
           /\ Head(me.todo).do \in {"truncate", "save"} => AtSave(me) /\ Agrees(me.want)
<1>1. ASSUME NEW left, AtStop(me, left)
      PROVE  Head(me.todo).do = IF left = <<>> THEN "unlink" ELSE "run"
  <2>1. CASE left = <<>>
    <3>1. Head(me.todo) = Do("unlink", me.was.mode)
      BY <1>1, <2>1, StopSteps
    <3>. QED  BY <2>1, <3>1, DoFields
  <2>2. CASE left # <<>>
    <3>1. Head(me.todo) = [do |-> "run", mode |-> me.was.mode, cmd |-> Head(left)]
      BY <1>1, <2>2, StopSteps
    <3>. QED  BY <2>2, <3>1
  <2>. QED  BY <2>1, <2>2
<1>2. AtFiles(me) => Head(me.todo).do \in {"contexts", "write"}
  BY FilesSteps, DoFields
<1>3. ASSUME NEW left, AtStart(me, left) PROVE Head(me.todo).do = "run"
  <2>1. Head(me.todo) = [do |-> "run", mode |-> me.want.mode, cmd |-> Head(left)]
    BY <1>3, StartSteps
  <2>. QED  BY <2>1
<1>4. AtSave(me) => Head(me.todo).do \in {"truncate", "save"}
  BY SaveStep
<1>5. CASE \E left \in StopLeft(me.was.mode) : AtStop(me, left) /\ StopFacts(me, left)
  BY <1>1, <1>5
<1>6. CASE AtFiles(me) /\ FilesFacts(me)
  BY <1>2, <1>6
<1>7. CASE \E left \in StartLeft(me.want.mode) : AtStart(me, left) /\ StartFacts(me, left)
  BY <1>3, <1>7
<1>8. CASE AtSave(me) /\ Agrees(me.want)
  BY <1>4, <1>8
<1>. QED  BY <1>5, <1>6, <1>7, <1>8 DEF Standing

(* At the end of a refresh the metadata has not changed. *)
LEMMA RefreshEnds ==
    ASSUME NEW me \in Invocation, Placed(me), me.pc = "work", me.todo # <<Do("save", NoMode)>>,
           Builds(me), me.want.mode = me.was.mode, Agrees(me.want)',
           UNCHANGED <<host, global, mishap>>
    PROVE  Truthful'
<1>1. me.want = me.was /\ me.was \in Config
  BY DEF Builds, Invocation
<1>2. Quiet => global = me.was
  BY DEF Placed
<1>3. (Quiet' <=> Quiet) /\ (Exact' => Quiet')
  BY DEF Quiet, Exact
<1>4. global' \in Config => Agrees(global)'
  <2>1. CASE Quiet
    <3>1. global' = me.want
      BY <1>1, <1>2, <2>1
    <3>. QED  BY <3>1 DEF Agrees
  <2>2. CASE ~ Quiet
    BY <1>3, <2>2 DEF Agrees
  <2>. QED  BY <2>1, <2>2
<1>. QED  BY <1>1, <1>2, <1>3, <1>4 DEF Truthful

LEMMA RunSteady == ASSUME Types, Steady, NEW p \in Proc, RunCommand(p) PROVE Steady'
<1>1. PICK me : me = proc[p]
  OBVIOUS
<1>2. PICK new : new = Advanced(me)
  OBVIOUS
<1>3. /\ Next1(p, "run") /\ Become(p, new) /\ UNCHANGED <<host, global, contexts, mishap>>
      /\ me \in Invocation /\ me.pc = "work" /\ me.todo # <<>> /\ Head(me.todo).do = "run"
      /\ Works(Head(me.todo).cmd, facts[Head(me.todo).mode])
      /\ facts' = [facts EXCEPT ![Head(me.todo).mode] = After(Head(me.todo).cmd, @)]
  BY <1>1, <1>2 DEF Types, TypeOK, RunCommand, Next1
<1>4. global' \in Config => Activable(global')
  BY <1>3 DEF Steady, Supported
<1>5. ASSUME me.clean
      PROVE  (new.pc = "work" => Standing(new)') /\ (new.pc # "work" => Truthful')
  <2>1. Placed(me) /\ Activable(me.was)
    BY <1>1, <1>3, <1>5 DEF Steady, Supported
  <2>2. ASSUME NEW left \in StopLeft(me.was.mode), left # <<>>, AtStop(me, left), StopFacts(me, left)
        PROVE  new.pc = "work" /\ Standing(new)'
    <3>1. /\ Head(me.todo) = [do |-> "run", mode |-> me.was.mode, cmd |-> Head(left)]
          /\ Further(me) /\ AtStop(new, Tail(left))
      BY <1>2, <1>3, <2>2, StopSteps
    <3>2. new.pc = "work" /\ new.was = me.was
      BY <1>2, <3>1 DEF Further
    <3>3. Head(me.todo).mode = me.was.mode /\ Head(me.todo).cmd = Head(left)
      BY <3>1
    <3>4. /\ Works(Head(left), facts[me.was.mode])
          /\ facts' = [facts EXCEPT ![me.was.mode] = After(Head(left), @)]
      BY <1>3, <3>3
    <3>5. StopFacts(new, Tail(left))'
      BY <1>3, <2>1, <2>2, <3>2, <3>4, StopFactsStep
    <3>. QED  BY <3>1, <3>2, <3>5 DEF Standing, AtStop
  <2>3. ASSUME NEW left \in StartLeft(me.want.mode), AtStart(me, left), StartFacts(me, left)
        PROVE  (new.pc = "work" => Standing(new)') /\ (new.pc # "work" => Truthful')
    <3>1. /\ Head(me.todo) = [do |-> "run", mode |-> me.want.mode, cmd |-> Head(left)]
          /\ Tail(left) # <<>> => Further(me) /\ AtStart(new, Tail(left))
          /\ Tail(left) = <<>> /\ me.want.mode # me.was.mode => Further(me) /\ AtSave(new)
          /\ Tail(left) = <<>> /\ me.want.mode = me.was.mode => new = Idle
      BY <1>2, <1>3, <2>3, StartSteps
    <3>2. facts' = [facts EXCEPT ![me.want.mode] = After(Head(left), @)]
      <4>1. Head(me.todo).mode = me.want.mode /\ Head(me.todo).cmd = Head(left)
        BY <3>1
      <4>. QED  BY <1>3, <4>1
    <3>3. Builds(me) /\ me.want.activated /\ me.want.mode \in Mode
      BY <2>3 DEF AtStart, Builds
    <3>4. Further(me) => new.pc = "work" /\ new.was = me.was /\ new.want = me.want
      BY <1>2 DEF Further
    <3>5. CASE Tail(left) # <<>>
      <4>1. StartFacts(new, Tail(left))'
        BY <1>3, <2>3, <3>1, <3>2, <3>4, <3>5, StartFactsStep
      <4>. QED  BY <3>1, <3>4, <3>5, <4>1 DEF Standing, AtStart, Builds
    <3>6. CASE Tail(left) = <<>>
      <4>1. StartFacts(me, <<>>)'
        <5>1. StartFacts(me, Tail(left))'
          BY <1>3, <2>3, <3>2, StartFactsStep
        <5>. QED  BY <3>6, <5>1
      <4>2. Agrees(me.want)'
        BY <1>3, <3>3, <4>1, StartedAgrees
      <4>3. CASE me.want.mode # me.was.mode
        <5>1. AtSave(new) /\ new.want = me.want /\ new.pc = "work"
          BY <3>1, <3>4, <3>6, <4>3
        <5>. QED  BY <4>2, <5>1 DEF Standing
      <4>4. CASE me.want.mode = me.was.mode
        <5>1. new.pc = "idle"
          BY <3>1, <3>6, <4>4, IdleSupported
        <5>2. me.todo # <<Do("save", NoMode)>>
          BY <1>3, SaveFacts
        <5>. QED  BY <1>3, <2>1, <3>3, <4>2, <4>4, <5>1, <5>2, RefreshEnds
      <4>. QED  BY <4>3, <4>4
    <3>. QED  BY <3>5, <3>6
  <2>. QED  BY <1>3, <2>1, <2>2, <2>3, Where DEF Placed
<1>. QED  BY <1>1, <1>2, <1>3, <1>4, <1>5, Progress

LEMMA UnlinkSteady == ASSUME Types, Steady, NEW p \in Proc, Unlink(p) PROVE Steady'
<1>1. PICK me : me = proc[p]
  OBVIOUS
<1>2. PICK new : new = Advanced(me)
  OBVIOUS
<1>3. /\ Next1(p, "unlink") /\ Become(p, new) /\ UNCHANGED <<host, global, contexts, mishap>>
      /\ me \in Invocation /\ me.pc = "work" /\ me.todo # <<>> /\ Head(me.todo).do = "unlink"
      /\ facts' = [facts EXCEPT ![Head(me.todo).mode] = @ \ {"file"}]
      /\ facts \in [Mode -> SUBSET Fact]
  BY <1>1, <1>2 DEF Types, TypeOK, Unlink, Next1
<1>4. global' \in Config => Activable(global')
  BY <1>3 DEF Steady, Supported
<1>5. ASSUME me.clean PROVE new.pc = "work" /\ Standing(new)'
  <2>1. AtStop(me, <<>>) /\ StopFacts(me, <<>>)
    BY <1>1, <1>3, <1>5, Where DEF Steady, Placed
  <2>2. /\ Head(me.todo) = Do("unlink", me.was.mode) /\ Further(me)
        /\ IF me.want.mode = NoMode THEN AtSave(new) ELSE AtFiles(new)
    BY <1>2, <1>3, <2>1, StopSteps
  <2>3. /\ new.pc = "work" /\ new.was = me.was /\ new.want = me.want
        /\ me.was.mode \in Mode /\ me.want.mode # me.was.mode
    BY <1>2, <2>1, <2>2 DEF Further, AtStop
  <2>4. /\ facts'[me.was.mode] = facts[me.was.mode] \ {"file"}
        /\ \A m \in Mode \ {me.was.mode} : facts'[m] = facts[m]
    <3>1. Head(me.todo).mode = me.was.mode
      BY <2>2, DoFields
    <3>. QED  BY <1>3, <2>3, <3>1
  <2>5. Quiet' => Up' = {}
    <3>1. Quiet' => "up" \notin facts[me.was.mode] /\ Up \subseteq {me.was.mode}
      BY <1>3, <2>1 DEF Quiet, StopFacts, Silenced
    <3>. QED  BY <2>3, <2>4, <3>1 DEF Up
  <2>6. Exact' => \A m \in Mode : facts'[m] = {}
    <3>1. Exact' => \A m \in Mode : facts[m] = IF m = me.was.mode THEN {"file"} ELSE {}
      BY <1>3, <2>1 DEF Exact, StopFacts, Stopped
    <3>. QED  BY <2>3, <2>4, <3>1
  <2>7. CASE me.want.mode = NoMode
    <3>1. \A m \in Mode : Settled(me.want, m) = {}
      BY <2>7, NoModeAssumption DEF Settled
    <3>2. Agrees(new.want)'
      BY <2>3, <2>5, <2>6, <3>1 DEF Agrees
    <3>. QED  BY <2>2, <2>3, <2>7, <3>2 DEF Standing
  <2>8. CASE me.want.mode # NoMode
    <3>1. FilesFacts(new)'
      BY <2>3, <2>5, <2>6 DEF FilesFacts
    <3>. QED  BY <2>2, <2>3, <2>8, <3>1 DEF Standing
  <2>. QED  BY <2>7, <2>8
<1>. QED  BY <1>1, <1>2, <1>3, <1>4, <1>5, Progress

LEMMA ContextsSteady ==
    ASSUME Types, Steady, NEW p \in Proc, write_docker_watcher_contexts(p) PROVE Steady'
<1>1. PICK me : me = proc[p]
  OBVIOUS
<1>2. PICK new : new = Advanced(me)
  OBVIOUS
<1>3. /\ Next1(p, "contexts") /\ Become(p, new)
      /\ UNCHANGED <<host, global, facts, contexts, mishap>>
      /\ me \in Invocation /\ me.pc = "work" /\ me.todo # <<>> /\ Head(me.todo).do = "contexts"
  BY <1>1, <1>2 DEF Types, TypeOK, write_docker_watcher_contexts, Next1
<1>4. global' \in Config => Activable(global')
  BY <1>3 DEF Steady, Supported
<1>5. ASSUME me.clean PROVE new.pc = "work" /\ Standing(new)'
  <2>1. AtFiles(me) /\ FilesFacts(me)
    BY <1>1, <1>3, <1>5, Where DEF Steady, Placed
  <2>2. Further(me) /\ AtFiles(new)
    <3>1. Head(me.todo) # Do("write", me.want.mode)
      BY <1>3, DoFields
    <3>. QED  BY <1>2, <1>3, <2>1, <3>1, FilesSteps
  <2>3. new.pc = "work" /\ new.was = me.was /\ new.want = me.want
    BY <1>2, <2>2 DEF Further
  <2>4. FilesFacts(new)'
    BY <1>3, <2>1, <2>3 DEF FilesFacts, Quiet, Exact, Up
  <2>. QED  BY <2>2, <2>3, <2>4 DEF Standing
<1>. QED  BY <1>1, <1>2, <1>3, <1>4, <1>5, Progress

(* The file is there now, for an activation to begin with. *)
LEMMA WrittenFacts ==
    ASSUME Types, NEW me \in Invocation, Builds(me), FilesFacts(me),
           facts' = [facts EXCEPT ![me.want.mode] = @ \cup {"file"}],
           UNCHANGED <<host, mishap>>
    PROVE  /\ facts'[me.want.mode] \in SUBSET Fact /\ "file" \in facts'[me.want.mode]
           /\ Quiet' => /\ Up' \subseteq {me.want.mode}
                        /\ Up' # {} => me.want = me.was /\ me.want.activated
           /\ Exact' => \A m \in Mode :
                facts'[m] = IF m # me.want.mode THEN {}
                            ELSE IF me.want.mode = me.was.mode THEN Settled(me.want, m) ELSE {"file"}
<1> DEFINE mode == me.want.mode
<1>1. mode \in Mode /\ facts \in [Mode -> SUBSET Fact] /\ "file" \in Fact
  BY DEF Builds, Types, TypeOK, Fact
<1>2. /\ facts'[mode] = facts[mode] \cup {"file"} /\ \A m \in Mode \ {mode} : facts'[m] = facts[m]
      /\ facts' \in [Mode -> SUBSET Fact]
  BY <1>1
<1>3. Up' = Up
  BY <1>1, <1>2 DEF Up
<1>4. (Quiet' => Quiet) /\ (Exact' => Exact)
  BY DEF Quiet, Exact
<1>5. Quiet' => Up' \subseteq {mode} /\ (Up' # {} => me.want = me.was /\ me.want.activated)
  BY <1>3, <1>4 DEF FilesFacts
<1>6. ASSUME Exact', NEW m \in Mode
      PROVE  facts'[m] = IF m # mode THEN {}
                         ELSE IF mode = me.was.mode THEN Settled(me.want, m) ELSE {"file"}
  <2>1. facts[m] = IF mode = me.was.mode THEN Settled(me.was, m) ELSE {}
    BY <1>4, <1>6 DEF FilesFacts
  <2>2. mode = me.was.mode => me.want = me.was /\ mode = "docker"
    BY DEF Builds
  <2>3. Active("docker") \cup {"file"} = Active("docker")
    BY DEF Active
  <2>. QED  BY <1>2, <2>1, <2>2, <2>3 DEF Settled
<1>. QED  BY <1>1, <1>2, <1>5, <1>6

LEMMA WriteSteady == ASSUME Types, Steady, NEW p \in Proc, WriteFile(p) PROVE Steady'
<1>1. PICK me : me = proc[p]
  OBVIOUS
<1>2. PICK new : new = Advanced(me)
  OBVIOUS
<1>3. /\ Next1(p, "write") /\ Become(p, new) /\ UNCHANGED <<host, global, contexts, mishap>>
      /\ me \in Invocation /\ me.pc = "work" /\ me.todo # <<>> /\ Head(me.todo).do = "write"
      /\ facts' = [facts EXCEPT ![Head(me.todo).mode] = @ \cup {"file"}]
  BY <1>1, <1>2 DEF Types, TypeOK, WriteFile, Next1
<1>4. global' \in Config => Activable(global')
  BY <1>3 DEF Steady, Supported
<1>5. ASSUME me.clean
      PROVE  (new.pc = "work" => Standing(new)') /\ (new.pc # "work" => Truthful')
  <2>1. AtFiles(me) /\ FilesFacts(me) /\ Placed(me)
    BY <1>1, <1>3, <1>5, Where DEF Steady, Placed
  <2>2. Builds(me) /\ me.want.mode \in Mode
    BY <2>1 DEF AtFiles, Builds
  <2>3. Head(me.todo) = Do("write", me.want.mode) /\ Tail(me.todo) = Starting(me) \o Ending(me)
    <3>1. Head(me.todo) # Do("contexts", "docker")
      BY <1>3, DoFields
    <3>. QED  BY <1>3, <2>1, <3>1, FilesSteps
  <2>4. facts' = [facts EXCEPT ![me.want.mode] = @ \cup {"file"}]
    <3>1. Head(me.todo).mode = me.want.mode
      BY <2>3, DoFields
    <3>. QED  BY <1>3, <3>1
  <2>5. /\ facts'[me.want.mode] \in SUBSET Fact /\ "file" \in facts'[me.want.mode]
        /\ Quiet' => /\ Up' \subseteq {me.want.mode}
                     /\ Up' # {} => me.want = me.was /\ me.want.activated
        /\ Exact' => \A m \in Mode :
             facts'[m] = IF m # me.want.mode THEN {}
                         ELSE IF me.want.mode = me.was.mode THEN Settled(me.want, m) ELSE {"file"}
    BY <1>3, <2>1, <2>2, <2>4, WrittenFacts
  <2>6. Further(me) => new.pc = "work" /\ new.was = me.was /\ new.want = me.want
    BY <1>2 DEF Further
  <2>7. CASE me.want.activated
    <3> DEFINE cmds == watcher_class(me.want.mode).commands
    <3>1. Further(me) /\ AtStart(new, cmds) /\ cmds \in StartLeft(me.want.mode)
      BY <1>2, <1>3, <2>2, <2>3, <2>7, AfterWrite, LeftCommands
    <3>2. /\ Ready(cmds, facts'[me.want.mode])
          /\ Begun(me.want.mode, cmds) = {"file"}
      BY <2>2, <2>5, Beginnings
    <3>3. Settled(me.want, me.want.mode) = Active(me.want.mode)
      BY <2>7 DEF Settled
    <3>. HIDE DEF cmds
    <3>4. StartFacts(new, cmds)'
      BY <2>5, <2>6, <3>1, <3>2, <3>3 DEF StartFacts
    <3>. QED  BY <2>2, <2>6, <3>1, <3>4 DEF Standing
  <2>8. CASE ~ me.want.activated
    <3>1. Agrees(me.want)'
      <4>1. Settled(me.want, me.want.mode) = {"file"}
              /\ \A m \in Mode \ {me.want.mode} : Settled(me.want, m) = {}
        BY <2>8 DEF Settled
      <4>. QED  BY <2>5, <2>8, <4>1 DEF Agrees
    <3>2. CASE me.want.mode # me.was.mode
      <4>1. Further(me) /\ AtSave(new)
        BY <1>2, <1>3, <2>2, <2>3, <2>8, <3>2, AfterWrite
      <4>. QED  BY <2>6, <3>1, <4>1 DEF Standing
    <3>3. CASE me.want.mode = me.was.mode
      <4>1. new.pc = "idle"
        BY <1>2, <1>3, <2>2, <2>3, <2>8, <3>3, AfterWrite, IdleSupported
      <4>2. me.todo # <<Do("save", NoMode)>>
        BY <1>3, SaveFacts
      <4>. QED  BY <1>3, <2>1, <2>2, <3>1, <3>3, <4>1, <4>2, RefreshEnds
    <3>. QED  BY <3>2, <3>3
  <2>. QED  BY <2>7, <2>8
<1>. QED  BY <1>1, <1>2, <1>3, <1>4, <1>5, Progress

LEMMA TruncateSteady == ASSUME Types, Steady, NEW p \in Proc, Truncate(p) PROVE Steady'
<1>1. PICK me : me = proc[p]
  OBVIOUS
<1>2. PICK new : new = Advanced(me)
  OBVIOUS
<1>3. /\ Next1(p, "truncate") /\ Become(p, new) /\ UNCHANGED <<host, facts, contexts, mishap>>
      /\ me \in Invocation /\ me.pc = "work" /\ me.todo # <<>> /\ Head(me.todo).do = "truncate"
      /\ global' = Blank
  BY <1>1, <1>2 DEF Types, TypeOK, Truncate, Next1
<1>4. global' \in Config => Activable(global')
  BY <1>3, BrokenAssumption
<1>5. ASSUME me.clean
      PROVE  new.pc = "work" /\ new.todo = <<Do("save", NoMode)>> /\ Standing(new)'
  <2>1. AtSave(me) /\ Agrees(me.want)
    BY <1>1, <1>3, <1>5, Where DEF Steady, Placed
  <2>2. Further(me) /\ AtSave(new) /\ new.todo = <<Do("save", NoMode)>>
    BY <1>2, <1>3, <2>1, SaveStep
  <2>3. new.pc = "work" /\ new.want = me.want
    BY <1>2, <2>2 DEF Further
  <2>4. Agrees(new.want)'
    BY <1>3, <2>1, <2>3 DEF Agrees, Quiet, Exact, Up
  <2>. QED  BY <2>2, <2>3, <2>4 DEF Standing
<1>. QED  BY <1>1, <1>2, <1>3, <1>4, <1>5, Progress

LEMMA SaveSteady == ASSUME Types, Steady, NEW p \in Proc, Save(p) PROVE Steady'
<1>1. PICK me : me = proc[p]
  OBVIOUS
<1>2. PICK new : new = Advanced(me)
  OBVIOUS
<1>3. /\ Next1(p, "save") /\ Become(p, new) /\ UNCHANGED <<host, facts, contexts, mishap>>
      /\ me \in Invocation /\ me.pc = "work" /\ me.todo # <<>> /\ me.todo \in Plan
      /\ Head(me.todo).do = "save" /\ me.want \in Config
      /\ global' \in {me.want} \cup (IF global = Blank THEN {} ELSE {Broken})
  BY <1>1, <1>2 DEF Types, TypeOK, Save, Next1, Invocation
<1>4. global' \in Config => global' = me.want
  BY <1>3, BrokenAssumption
<1>5. global' \in Config => Activable(global')
  BY <1>1, <1>3, <1>4 DEF Steady, Supported, Activable
<1>6. me.todo = <<Do("save", NoMode)>> /\ new.pc = "idle"
  <2>1. me.todo = <<Do("save", NoMode)>>
    BY <1>3, PlanSteps
  <2>2. Len(me.todo) = 1
    BY <2>1, SaveFacts
  <2>. QED  BY <1>2, <1>3, <2>1, <2>2, AdvancedTyped, IdleSupported
<1>7. ASSUME me.clean PROVE Truthful'
  <2>1. Agrees(me.want) /\ (Quiet => global = Blank)
    BY <1>1, <1>3, <1>6, <1>7, Where DEF Steady, Placed
  <2>2. Quiet' => global' \in Config
    BY <1>3, <2>1 DEF Quiet
  <2>3. Agrees(me.want)'
    BY <1>3, <2>1 DEF Agrees, Quiet, Exact, Up
  <2>4. global' \in Config => Agrees(global)'
    BY <1>4, <2>3 DEF Agrees
  <2>. QED  BY <2>2, <2>4 DEF Truthful
<1>. QED  BY <1>1, <1>2, <1>3, <1>5, <1>6, <1>7, Progress

(* A command that breaks off *)
LEMMA BreakSteady ==
    ASSUME Types, Steady, NEW p \in Proc, Running(proc[p]), NEW me, me = proc[p],
           NEW new \in {Failed(me), [Failed(me) EXCEPT !.clean = FALSE]}, Become(p, new),
           UNCHANGED <<host, global, contexts>>, mishap \subseteq mishap',
           me.clean => Truthful' /\ (new.clean => Excused(new)')
    PROVE  Steady'
<1>0. me \in Invocation
  BY DEF Types
<1>1. me \in Invocation /\ new \in Invocation /\ new.pc = "failed"
  BY <1>0, FailedTyped
<1>2. new.was = me.was /\ new.want = me.want /\ (new.clean => me.clean)
  BY <1>1 DEF Failed, Invocation
<1>3. Activable(me.was) /\ Activable(me.want) /\ (global' \in Config => Activable(global'))
  BY DEF Steady, Supported
<1>. QED  BY <1>1, <1>2, <1>3, StepSteady

(* Whatever the failure leaves running is what the metadata names. *)
LEMMA FailureIsTold ==
    ASSUME Types, NEW me \in Invocation, me.pc = "work", Placed(me),
           Head(me.todo).do \in {"run", "write"},
           mishap' = Broke(me, "failed"), UNCHANGED <<host, global, facts>>
    PROVE  Truthful'
<1>1. ~ Exact' /\ (Quiet' => Quiet /\ ~ HalfStarted(me)) /\ (Up' = Up)
  BY DEF Exact, Quiet, Broke, Up
<1>2. SUFFICES ASSUME Quiet'
               PROVE  /\ global' \in Config
                      /\ Up \subseteq {global'.mode} /\ (Up # {} => global'.activated)
  BY <1>1 DEF Truthful, Agrees
<1>3. global' = me.was /\ me.was \in Config
  <2>1. me.todo # <<Do("save", NoMode)>>
    BY SaveFacts
  <2>. QED  BY <1>1, <1>2, <2>1 DEF Placed, Invocation
<1>4. Quiet /\ ~ HalfStarted(me)
  BY <1>1, <1>2
<1>5. ASSUME NEW left, left # <<>>, AtStop(me, left), StopFacts(me, left)
      PROVE  Up \subseteq {me.was.mode} /\ me.was.activated
  BY <1>4, <1>5 DEF AtStop, StopFacts
<1>6. ASSUME AtFiles(me), FilesFacts(me)
      PROVE  Up \subseteq {me.was.mode} /\ (Up # {} => me.was.activated)
  BY <1>4, <1>6 DEF FilesFacts
<1>7. ASSUME NEW left, AtStart(me, left), StartFacts(me, left)
      PROVE  Up \subseteq {me.was.mode} /\ (Up # {} => me.was.activated)
  <2>1. Up \subseteq {me.want.mode} /\ me.want.activated /\ me.want.mode \in Mode
    BY <1>4, <1>7 DEF StartFacts, AtStart, Builds
  <2>2. CASE me.want.mode = me.was.mode
    BY <1>7, <2>1, <2>2 DEF AtStart, Builds
  <2>3. CASE me.want.mode # me.was.mode
    <3>1. "up" \notin facts[me.want.mode]
      BY <1>4, <2>1, <2>3, NoModeAssumption DEF HalfStarted
    <3>. QED  BY <2>1, <3>1 DEF Up
  <2>. QED  BY <2>2, <2>3
<1>. QED  BY <1>3, <1>5, <1>6, <1>7, Where DEF Placed

LEMMA FailSteady ==
    ASSUME Types, Steady, NEW p \in Proc,
           LoadFails(p) \/ CommandRefused(p) \/ CommandFails(p) \/ RenderFails(p) \/ Kill(p)
    PROVE  Steady'
<1>1. PICK me : me = proc[p]
  OBVIOUS
<1>2. me \in Invocation /\ (me.pc = "work" => me.todo # <<>>)
        /\ UNCHANGED <<host, global, facts, contexts>>
  BY <1>1 DEF Types, TypeOK, LoadFails, CommandRefused, CommandFails, RenderFails, Kill
<1>3. me.clean /\ me.pc = "work" => Placed(me)
  BY <1>1 DEF Steady
<1>4. Failed(me).was = me.was /\ Failed(me).req = me.req /\ Failed(me).clean = me.clean
        /\ ~ [Failed(me) EXCEPT !.clean = FALSE].clean
  BY <1>2 DEF Failed, Invocation
<1>5. CASE LoadFails(p)
  <2>1. Running(proc[p]) /\ Become(p, Failed(me)) /\ mishap' = mishap
          /\ proc[p].pc = "load" /\ global = Broken
    BY <1>1, <1>5 DEF LoadFails, Running
  <2>2. ASSUME me.clean PROVE Truthful'
    <3>1. \A q \in Proc : proc[q].pc # "work"
      BY <1>1, <2>1, <2>2 DEF Steady, Sole, Running
    <3>2. Truthful
      BY <3>1 DEF Steady
    <3>. QED  BY <1>2, <2>1, <3>2 DEF Truthful, Agrees, Quiet, Exact, Up
  <2>3. \A new : Excused(new)'
    BY <1>2, <2>1 DEF Excused
  <2>. QED  BY <1>1, <1>2, <2>1, <2>2, <2>3, BreakSteady
<1>6. CASE CommandRefused(p)
  <2>1. /\ Running(proc[p]) /\ Become(p, Failed(me)) /\ mishap' = Broke(me, "failed")
        /\ me.pc = "work" /\ Head(me.todo).do = "run" /\ mishap \subseteq mishap'
        /\ ~ Works(Head(me.todo).cmd, facts[Head(me.todo).mode])
    BY <1>1, <1>6 DEF CommandRefused, Next1, Running, Broke
  <2>2. me.clean => Truthful'
    BY <1>2, <1>3, <2>1, FailureIsTold
  <2>3. ASSUME me.clean PROVE me.was.mode # NoMode
    <3>1. ASSUME NEW left, AtStart(me, left), StartFacts(me, left) PROVE FALSE
      <4>1. Head(me.todo) = [do |-> "run", mode |-> me.want.mode, cmd |-> Head(left)]
        BY <1>2, <2>1, <3>1, StartSteps
      <4>2. Head(me.todo).mode = me.want.mode /\ Head(me.todo).cmd = Head(left)
        BY <4>1
      <4>3. /\ me.want.mode \in Mode /\ left \in StartLeft(me.want.mode) /\ left # <<>>
            /\ facts[me.want.mode] \in SUBSET Fact
        BY <3>1 DEF AtStart, Builds, Types, TypeOK
      <4>4. StartStep(me.want.mode, left, facts[me.want.mode])
        BY <4>3, Starts
      <4>. QED  BY <2>1, <3>1, <4>2, <4>4 DEF StartStep, StartFacts
    <3>2. PICK left \in StopLeft(me.was.mode) : AtStop(me, left)
      BY <1>2, <1>3, <2>1, <2>3, <3>1, Where DEF Placed
    <3>. QED  BY <3>2, NoModeAssumption DEF AtStop
  <2>4. PICK new : new = Failed(me)
    OBVIOUS
  <2>5. me.clean => Excused(new)'
    BY <1>4, <2>3, <2>4 DEF Excused
  <2>. QED  BY <1>1, <1>2, <2>1, <2>2, <2>4, <2>5, BreakSteady
<1>7. CASE CommandFails(p)
  <2>1. /\ Running(proc[p]) /\ Become(p, [Failed(me) EXCEPT !.clean = FALSE])
        /\ mishap' = Broke(me, "failed")
        /\ me.pc = "work" /\ Head(me.todo).do = "run" /\ mishap \subseteq mishap'
    BY <1>1, <1>7 DEF CommandFails, Next1, Running, Broke
  <2>2. me.clean => Truthful'
    BY <1>2, <1>3, <2>1, FailureIsTold
  <2>3. PICK new : new = [Failed(me) EXCEPT !.clean = FALSE]
    OBVIOUS
  <2>4. ~ new.clean
    BY <1>4, <2>3
  <2>. QED  BY <1>1, <1>2, <2>1, <2>2, <2>3, <2>4, BreakSteady
<1>8. CASE RenderFails(p)
  <2>1. /\ Running(proc[p]) /\ Become(p, Failed(me)) /\ mishap' = Broke(me, "failed")
        /\ me.pc = "work" /\ Head(me.todo).do = "write" /\ mishap \subseteq mishap'
        /\ Head(me.todo).mode = "docker" /\ contexts \cap Keyless # {}
    BY <1>1, <1>8 DEF RenderFails, Renders, Next1, Running, Broke
  <2>2. me.clean => Truthful'
    BY <1>2, <1>3, <2>1, FailureIsTold
  <2>3. ASSUME me.clean, me.req.op = "install" PROVE Resolved(me.req) = "docker"
    <3>1. AtFiles(me) /\ Resolved(me.req) = me.want.mode
      BY <1>2, <1>3, <2>1, <2>3, Where DEF Placed
    <3>2. Head(me.todo) # Do("contexts", "docker")
      BY <2>1, DoFields
    <3>3. Head(me.todo) = Do("write", me.want.mode)
      BY <1>2, <2>1, <3>1, <3>2, FilesSteps
    <3>. QED  BY <2>1, <3>1, <3>3, DoFields
  <2>4. PICK new : new = Failed(me)
    OBVIOUS
  <2>5. me.clean => Excused(new)'
    BY <1>2, <1>4, <2>1, <2>3, <2>4 DEF Excused, Resolved
  <2>. QED  BY <1>1, <1>2, <2>1, <2>2, <2>4, <2>5, BreakSteady
<1>9. CASE Kill(p)
  <2>1. /\ Running(proc[p]) /\ Become(p, [Failed(me) EXCEPT !.clean = FALSE])
        /\ mishap \subseteq mishap' /\ "killed" \in mishap'
    BY <1>1, <1>9 DEF Kill, Broke
  <2>2. Truthful'
    BY <2>1 DEF Truthful, Agrees, Quiet, Exact
  <2>3. PICK new : new = [Failed(me) EXCEPT !.clean = FALSE]
    OBVIOUS
  <2>4. ~ new.clean
    BY <1>4, <2>3
  <2>. QED  BY <1>1, <1>2, <2>1, <2>2, <2>3, <2>4, BreakSteady
<1>. QED  BY <1>5, <1>6, <1>7, <1>8, <1>9
-----------------------------------------------------------------------------
(* Where a plan begins *)

(* What is there of an old watcher, as a list of commands that are left *)
Old(config) ==
    IF config.activated THEN watcher_class(config.mode).uninstall_commands ELSE <<>>

LEMMA DeactivationIs ==
    ASSUME NEW config \in Config, config.mode # NoMode, NEW rest \in Seq(WorkStep)
    PROVE  /\ Old(config) \in StopLeft(config.mode) /\ config.mode \in Mode
           /\ Deactivation(config) \in Seq(WorkStep)
           /\ Deactivation(config) \o rest =
                Run(config.mode, Old(config)) \o (<<Do("unlink", config.mode)>> \o rest)
<1> DEFINE run == IF config.activated
                  THEN Run(config.mode, watcher_class(config.mode).uninstall_commands) ELSE <<>>
           unlink == <<Do("unlink", config.mode)>>
<1>1. config.mode \in Mode
  BY DEF Config
<1>2. Old(config) \in StopLeft(config.mode) /\ Old(config) \in Seq(Command)
  BY <1>1, LeftCommands DEF Old
<1>3. unlink \in Seq(WorkStep) /\ unlink \o rest \in Seq(WorkStep)
  <2>1. Do("unlink", config.mode) \in WorkStep
    BY <1>1 DEF Do, WorkStep, Command
  <2>. QED  BY <2>1, OneBefore, Tuples
<1>4. run \in Seq(WorkStep)
  BY <1>1, CommandLists, JobSteps, SaveFacts, Tuples
<1>5. Deactivation(config) = run \o unlink
  BY DEF Deactivation
<1>6. run \o (unlink \o rest) = Run(config.mode, Old(config)) \o (unlink \o rest)
  <2>1. CASE config.activated
    BY <2>1 DEF Old
  <2>2. CASE ~ config.activated
    <3>1. Old(config) = <<>> /\ run = <<>>
      BY <2>2 DEF Old
    <3>2. Run(config.mode, Old(config)) \o (unlink \o rest) = unlink \o rest
      BY <1>1, <1>2, <1>3, <3>1, RunSteps
    <3>3. <<>> \o (unlink \o rest) = unlink \o rest
      BY <1>3, ConcatEmptySeq
    <3>. QED  BY <3>1, <3>2, <3>3
  <2>. QED  BY <2>1, <2>2
<1>. HIDE DEF run, unlink
<1>7. Deactivation(config) \in Seq(WorkStep)
        /\ Deactivation(config) \o rest = run \o (unlink \o rest)
  BY <1>3, <1>4, <1>5, ConcatProperties, ConcatAssociative
<1>. QED  BY <1>1, <1>2, <1>6, <1>7 DEF unlink

LEMMA UninstallBegins ==
    ASSUME NEW me \in Invocation, me.was.mode # NoMode, me.want.mode = NoMode,
           me.todo = UninstallSteps(me.was)
    PROVE  AtStop(me, Old(me.was))
<1>1. me.was \in Config /\ SaveSteps \in Seq(WorkStep)
  BY SaveFacts DEF Invocation
<1>. QED  BY <1>1, DeactivationIs DEF AtStop, UninstallSteps, Remaining, Old

LEMMA InstallBegins ==
    ASSUME NEW me \in Invocation, me.want.mode \in Mode, me.want.mode # me.was.mode,
           me.todo = InstallSteps(me.was, me.want.mode, me.want.activated)
    PROVE  /\ me.was.mode # NoMode => AtStop(me, Old(me.was))
           /\ me.was.mode = NoMode => AtFiles(me)
<1> DEFINE files == write_watcher_files(me.want.mode)
           start == Starting(me)
<1>1. me.was \in Config /\ SaveSteps \in Seq(WorkStep) /\ Ending(me) = SaveSteps
  BY SaveFacts DEF Invocation, Ending
<1>2. files \in Seq(WorkStep) /\ start \in Seq(WorkStep)
  BY FilesPlan, SaveFacts, PlanParts
<1>3. Building(me) = files \o (start \o SaveSteps)
  BY <1>1 DEF Building
<1>4. ASSUME NEW old \in Seq(WorkStep), me.todo = ((old \o files) \o start) \o SaveSteps
      PROVE  me.todo = old \o Building(me)
  <2>1. PICK b, c, d \in Seq(WorkStep) : b = files /\ c = start /\ d = SaveSteps
    BY <1>1, <1>2
  <2>2. PICK ob, cd \in Seq(WorkStep) : ob = old \o b /\ cd = c \o d
    BY ConcatProperties
  <2>3. (ob \o c) \o d = ob \o (c \o d)
    BY ConcatAssociative
  <2>4. (old \o b) \o cd = old \o (b \o cd)
    BY ConcatAssociative
  <2>5. ((old \o b) \o c) \o d = old \o (b \o (c \o d))
    BY <2>2, <2>3, <2>4
  <2>. QED  BY <1>3, <1>4, <2>1, <2>5
<1>5. Building(me) \in Seq(WorkStep)
  BY PlanParts
<1>6. CASE me.was.mode # NoMode
  <2>1. /\ Deactivation(me.was) \in Seq(WorkStep)
        /\ Old(me.was) \in StopLeft(me.was.mode) /\ me.was.mode \in Mode
        /\ Deactivation(me.was) \o Building(me) =
             Run(me.was.mode, Old(me.was)) \o (<<Do("unlink", me.was.mode)>> \o Building(me))
    BY <1>1, <1>5, <1>6, DeactivationIs
  <2>2. me.todo = ((Deactivation(me.was) \o files) \o start) \o SaveSteps
    BY <1>6 DEF InstallSteps, Starting
  <2>3. me.todo = Deactivation(me.was) \o Building(me)
    BY <1>4, <2>1, <2>2
  <2>4. Remaining(me) = Building(me)
    BY NoModeAssumption DEF Remaining
  <2>. QED  BY <1>6, <2>1, <2>3, <2>4 DEF AtStop, Old
<1>7. CASE me.was.mode = NoMode
  <2>1. <<>> \in Seq(WorkStep) /\ me.todo = ((<<>> \o files) \o start) \o SaveSteps
    BY <1>7, Tuples DEF InstallSteps, Starting
  <2>2. me.todo = <<>> \o Building(me)
    BY <1>4, <2>1
  <2>3. <<>> \o Building(me) = Building(me)
    BY <1>5, ConcatEmptySeq
  <2>. QED  BY <1>7, <2>2, <2>3 DEF AtFiles, Builds
<1>. QED  BY <1>6, <1>7

LEMMA RefreshBegins ==
    ASSUME NEW me \in Invocation, me.want = me.was, me.want.mode = "docker",
           me.todo = RefreshSteps(me.want)
    PROVE  AtFiles(me)
<1>1. "docker" \in Mode
  BY DEF Mode
<1>2. Starting(me) \in Seq(WorkStep) /\ Ending(me) = <<>>
  BY <1>1, PlanParts
<1>3. Starting(me) \o Ending(me) = Starting(me)
  BY <1>2, ConcatEmptySeq
<1>4. me.todo = Building(me)
  BY <1>3 DEF Building, RefreshSteps, Starting
<1>. QED  BY <1>1, <1>4 DEF AtFiles, Builds

(* What loading the configuration makes of an invocation, seen from the    *)
(* schedulers.                                                             *)
Takes(me, new) ==
    /\ new \in Invocation /\ new.pc \in {"idle", "failed", "work"}
    /\ Activable(new.was) /\ Activable(new.want)
    /\ new.pc # "idle" => new.clean = me.clean
    /\ new.pc = "failed" => Excused(new)
    /\ new.pc = "work" /\ me.clean => Placed(new)

(* An invocation that has just read the configuration *)
Reads(me) ==
    /\ me \in Invocation
    /\ Activable(me.was) /\ Activable(me.want)
    /\ me.clean => Agrees(me.was) /\ (Quiet => global = me.was)

LEMMA TakesNothing ==
    ASSUME NEW me, Reads(me)
    PROVE  /\ Takes(me, Done(me))
           /\ Excused(me) => Takes(me, Failed(me))
<1>1. Takes(me, Done(me))
  BY IdleTyped, IdleSupported DEF Takes, Done
<1>2. /\ Failed(me) \in Invocation /\ Failed(me).pc = "failed" /\ Failed(me).was = me.was
      /\ Failed(me).want = me.want /\ Failed(me).clean = me.clean /\ Failed(me).req = me.req
  BY FailedTyped DEF Reads, Failed, Invocation
<1>3. Excused(me) => Takes(me, Failed(me))
  BY <1>2 DEF Takes, Reads, Excused
<1>. QED  BY <1>1, <1>3

LEMMA TakesWork ==
    ASSUME NEW me, Reads(me), NEW want \in Config, NEW steps \in Plan,
           steps # <<Do("save", NoMode)>>, Activable(want),
           me.req.op = "install" => want.mode = Resolved(me.req),
           NEW new, new = Working(me, want, steps),
           me.clean => Standing(new)
    PROVE  Takes(me, new)
<1>1. /\ new \in Invocation /\ new.pc = "work" /\ new.want = want /\ new.was = me.was
      /\ new.req = me.req /\ new.clean = me.clean /\ new.todo = steps
  BY DEF Reads, Working, Invocation
<1>2. me.clean => Placed(new)
  BY <1>1 DEF Placed, Reads
<1>. QED  BY <1>1, <1>2 DEF Takes, Reads

(* Before a deactivation, the old watcher is as its metadata says. *)
LEMMA StopFactsBegin ==
    ASSUME Types, NEW me \in Invocation, Agrees(me.was), Activable(me.was), me.was.mode \in Mode
    PROVE  StopFacts(me, Old(me.was))
<1> DEFINE mode == me.was.mode
<1>1. facts[mode] \in SUBSET Fact
  BY DEF Types, TypeOK
<1>2. ASSUME Quiet PROVE Up \subseteq {mode} /\ Silenced(Old(me.was), facts[mode])
  <2>1. Up \subseteq {mode} /\ (Up # {} => me.was.activated)
    BY <1>2 DEF Agrees
  <2>2. CASE me.was.activated
    <3>1. mode # "windows-task"
      BY <1>2, <2>2 DEF Quiet, Activable
    <3>2. Silenced(watcher_class(mode).uninstall_commands, facts[mode])
      BY <1>1, <3>1, Beginnings
    <3>. QED  BY <2>1, <2>2, <3>2 DEF Old
  <2>3. CASE ~ me.was.activated
    <3>1. "up" \notin facts[mode]
      BY <2>1, <2>3 DEF Up
    <3>2. Old(me.was) = <<>>
      BY <2>3 DEF Old
    <3>. QED  BY <2>1, <3>1, <3>2 DEF Silenced
  <2>. QED  BY <2>2, <2>3
<1>3. ASSUME Exact, NEW m \in Mode
      PROVE  facts[m] = IF m = mode THEN Stopped(m, Old(me.was)) ELSE {}
  <2>1. facts[m] = Settled(me.was, m)
    BY <1>3 DEF Agrees
  <2>2. CASE me.was.activated
    <3>1. mode # "windows-task"
      BY <1>3, <2>2 DEF Exact, Activable
    <3>2. Stopped(mode, watcher_class(mode).uninstall_commands) = Active(mode)
      BY <1>1, <3>1, Beginnings
    <3>. QED  BY <2>1, <2>2, <3>2 DEF Old, Settled
  <2>3. CASE ~ me.was.activated
    <3>1. Stopped(mode, Old(me.was)) = {"file"}
      BY <2>3 DEF Old, Stopped
    <3>. QED  BY <2>1, <2>3, <3>1 DEF Settled
  <2>. QED  BY <2>2, <2>3
<1>. QED  BY <1>2, <1>3 DEF StopFacts

LEMMA UninstallTakes ==
    ASSUME Types, NEW me, Reads(me), me.req.op # "install"
    PROVE  Takes(me, uninstall_watcher(me, me.was))
<1> DEFINE want == Cleared(me.was)
           steps == UninstallSteps(me.was)
<1>1. me \in Invocation /\ me.was \in Config /\ Activable(me.was)
  BY DEF Reads, Invocation
<1>2. CASE me.was.mode = NoMode
  BY <1>2, TakesNothing DEF uninstall_watcher
<1>3. CASE me.was.mode # NoMode
  <2>1. want \in Config /\ want.mode = NoMode /\ Activable(want)
    BY <1>1 DEF Cleared, Config, Activable
  <2>2. steps \in Plan /\ steps # <<>> /\ steps # <<Do("save", NoMode)>>
    <3>1. Deactivation(me.was) \in Seq(Job)
      BY <1>1, <1>3, DeactivationPlan
    <3>. QED  BY <3>1, SavesAfter DEF UninstallSteps, Plan
  <2>3. PICK new : new = Working(me, want, steps)
    OBVIOUS
  <2>. HIDE DEF want, steps
  <2>4. new \in Invocation /\ new.want = want /\ new.was = me.was /\ new.todo = steps
    BY <1>1, <2>1, <2>2, <2>3 DEF Working, Invocation
  <2>5. ASSUME me.clean PROVE Standing(new)
    <3>1. AtStop(new, Old(me.was))
      BY <1>3, <2>1, <2>4, UninstallBegins DEF steps
    <3>2. StopFacts(new, Old(me.was))
      BY <1>1, <2>4, <2>5, <3>1, StopFactsBegin DEF Reads, AtStop
    <3>. QED  BY <2>4, <3>1, <3>2 DEF Standing, AtStop
  <2>6. Takes(me, new)
    BY <2>1, <2>2, <2>3, <2>5, TakesWork
  <2>. QED  BY <1>3, <2>3, <2>6 DEF want, steps, uninstall_watcher
<1>. QED  BY <1>2, <1>3

LEMMA InstallTakes ==
    ASSUME Types, NEW me, Reads(me), NEW activate \in BOOLEAN,
           me.req.op = "install" => activate = me.req.activate
    PROVE  Takes(me, install_watcher(me, me.was, activate))
<1> DEFINE mode == Resolved(me.req)
           want == [me.was EXCEPT !.mode = mode, !.activated = activate]
           steps == InstallSteps(me.was, mode, activate)
<1>1. /\ me \in Invocation /\ me.was \in Config /\ me.req \in Request /\ host \subseteq Mode
      /\ Activable(me.was)
  BY RequestsAssumption DEF Reads, Invocation, Types, TypeOK
<1>2. mode \in Mode \cup {NoMode}
  BY <1>1, NativeFirst DEF Resolved, Request, Mode
<1>3. CASE mode = NoMode
  <2>1. Excused(me)
    BY <1>3 DEF Excused
  <2>. QED  BY <1>3, <2>1, TakesNothing DEF install_watcher
<1>4. CASE mode # NoMode /\ me.was.mode = mode
  BY <1>4, TakesNothing DEF install_watcher
<1>5. CASE /\ mode \notin {NoMode, me.was.mode}
           /\ (me.was.mode # NoMode /\ ~ me.req.yes) \/ (activate /\ mode \notin host)
  <2>1. Excused(me)
    BY <1>5 DEF Excused
  <2>. QED  BY <1>5, <2>1, TakesNothing DEF install_watcher
<1>6. CASE /\ mode \notin {NoMode, me.was.mode}
           /\ ~ ((me.was.mode # NoMode /\ ~ me.req.yes) \/ (activate /\ mode \notin host))
  <2>0. mode \in Mode /\ mode # me.was.mode
    BY <1>2, <1>6
  <2>1. want \in Config /\ want.mode = mode /\ want.activated = activate /\ Activable(want)
    BY <1>1, <1>6, <2>0 DEF Config, Activable
  <2>2. steps \in Plan /\ steps # <<Do("save", NoMode)>>
    BY <1>1, <2>0, InstallPlan DEF Plan
  <2>3. PICK new : new = Working(me, want, steps)
    OBVIOUS
  <2>4. install_watcher(me, me.was, activate) = new
    BY <1>6, <2>3 DEF install_watcher
  <2>. HIDE DEF want, steps, mode
  <2>5. new \in Invocation /\ new.want = want /\ new.was = me.was /\ new.todo = steps
    BY <1>1, <2>1, <2>2, <2>3 DEF Working, Invocation
  <2>6. ASSUME me.clean PROVE Standing(new)
    <3>1. /\ new.was.mode # NoMode => AtStop(new, Old(new.was))
          /\ new.was.mode = NoMode => AtFiles(new)
      BY <2>0, <2>1, <2>5, InstallBegins DEF steps
    <3>2. Agrees(new.was) /\ Activable(new.was)
      BY <1>1, <2>5, <2>6 DEF Reads
    <3>3. CASE new.was.mode # NoMode
      <4>1. StopFacts(new, Old(new.was))
        BY <2>5, <3>1, <3>2, <3>3, StopFactsBegin DEF AtStop
      <4>. QED  BY <3>1, <3>3, <4>1 DEF Standing, AtStop
    <3>4. CASE new.was.mode = NoMode
      <4>1. new.want.mode # new.was.mode
        BY <2>0, <2>1, <2>5
      <4>2. \A m \in Mode : Settled(new.was, m) = {}
        BY <3>4, NoModeAssumption DEF Settled
      <4>3. Quiet => Up = {}
        BY <3>2, <3>4, NoModeAssumption DEF Agrees, Up
      <4>4. FilesFacts(new)
        BY <3>2, <4>1, <4>2, <4>3 DEF FilesFacts, Agrees
      <4>. QED  BY <3>1, <3>4, <4>4 DEF Standing
    <3>. QED  BY <3>3, <3>4
  <2>7. Takes(me, new)
    BY <2>1, <2>2, <2>3, <2>6, TakesWork DEF mode
  <2>. QED  BY <2>4, <2>7
<1>. QED  BY <1>3, <1>4, <1>5, <1>6

LEMMA CleanupTakes ==
    ASSUME Types, NEW me, Reads(me), me.req.op # "install"
    PROVE  Takes(me, cleanup_watcher_if_unused(me, me.was))
<1>1. me \in Invocation /\ me.was \in Config /\ Activable(me.was)
  BY DEF Reads, Invocation
<1>2. CASE me.left = {}
  BY <1>2, UninstallTakes DEF cleanup_watcher_if_unused
<1>3. CASE me.left # {} /\ me.was.mode # "docker"
  BY <1>3, TakesNothing DEF cleanup_watcher_if_unused
<1>4. CASE me.left # {} /\ me.was.mode = "docker"
  <2> DEFINE steps == RefreshSteps(me.was)
  <2>1. steps \in Plan /\ steps # <<Do("save", NoMode)>>
    <3>1. steps \in Seq(Job) /\ steps # <<>>
      BY <1>1, RefreshPlan
    <3>2. <<Do("save", NoMode)>> \notin Seq(Job)
      BY PlansDiffer DEF Saving
    <3>. QED  BY <3>1, <3>2 DEF Plan
  <2>2. PICK new : new = Working(me, me.was, steps)
    OBVIOUS
  <2>3. cleanup_watcher_if_unused(me, me.was) = new
    BY <1>4, <2>2 DEF cleanup_watcher_if_unused
  <2>. HIDE DEF steps
  <2>4. new \in Invocation /\ new.want = me.was /\ new.was = me.was /\ new.todo = steps
    BY <1>1, <2>1, <2>2 DEF Working, Invocation
  <2>5. ASSUME me.clean PROVE Standing(new)
    <3>1. AtFiles(new)
      BY <1>4, <2>4, RefreshBegins DEF steps
    <3>2. Agrees(me.was)
      BY <2>5 DEF Reads
    <3>3. FilesFacts(new)
      BY <2>4, <3>2 DEF FilesFacts, Agrees
    <3>. QED  BY <3>1, <3>3 DEF Standing
  <2>6. Takes(me, new)
    BY <1>1, <2>1, <2>2, <2>5, TakesWork
  <2>. QED  BY <2>3, <2>6
<1>. QED  BY <1>2, <1>3, <1>4

LEMMA DefaultProviderTakes ==
    ASSUME Types, NEW me, Reads(me), me.req.op # "install"
    PROVE  Takes(me, default_provider(me, me.was))
<1> DEFINE want == [me.was EXCEPT !.provider = TRUE]
<1>1. me \in Invocation /\ me.was \in Config /\ Activable(me.was)
  BY DEF Reads, Invocation
<1>2. want \in Config /\ want.mode = me.was.mode /\ want.activated = me.was.activated
  BY <1>1 DEF Config
<1>3. PICK new : new = Working(me, want, SaveSteps)
  OBVIOUS
<1>4. default_provider(me, me.was) = new
  BY <1>3 DEF default_provider
<1>. HIDE DEF want
<1>5. SaveSteps \in Plan /\ SaveSteps # <<Do("save", NoMode)>>
  BY SaveOnly DEF Plan
<1>6. new \in Invocation /\ new.want = want /\ new.todo = SaveSteps
  BY <1>1, <1>2, <1>3, <1>5 DEF Working, Invocation
<1>7. ASSUME me.clean PROVE Standing(new)
  <2>1. Agrees(me.was)
    BY <1>7 DEF Reads
  <2>2. Agrees(want)
    BY <1>2, <2>1 DEF Agrees, Settled
  <2>. QED  BY <1>6, <2>2 DEF Standing, AtSave
<1>8. Activable(want)
  BY <1>1, <1>2 DEF Activable
<1>9. Takes(me, new)
  BY <1>2, <1>3, <1>5, <1>7, <1>8, TakesWork
<1>. QED  BY <1>4, <1>9

LEMMA LoadSteady == ASSUME Types, Steady, NEW p \in Proc, Load(p) PROVE Steady'
<1>1. PICK config : config = load_global_config
  OBVIOUS
<1>2. PICK me : me = [proc[p] EXCEPT !.was = config]
  OBVIOUS
<1>3. /\ proc[p] \in Invocation /\ proc[p].pc = "load" /\ Running(proc[p]) /\ global # Broken
      /\ UNCHANGED <<host, global, facts, contexts, mishap>>
  BY DEF Types, Load, Running
<1>4. config \in Config /\ Activable(config)
  <2>1. CASE global = Blank
    BY <1>1, <2>1, IdleTyped DEF load_global_config, Default, Activable
  <2>2. CASE global # Blank
    BY <1>1, <1>3, <2>2 DEF load_global_config, Types, TypeOK, Steady, Supported
  <2>. QED  BY <2>1, <2>2
<1>5. /\ me \in Invocation /\ me.was = config /\ me.req = proc[p].req /\ me.clean = proc[p].clean
      /\ me.want = proc[p].want /\ me.left = proc[p].left
  BY <1>2, <1>3, <1>4 DEF Invocation
<1>6. ASSUME me.clean PROVE Truthful
  <2>1. \A q \in Proc : proc[q].pc # "work"
    BY <1>3, <1>5, <1>6 DEF Steady, Sole, Running
  <2>. QED  BY <2>1 DEF Steady
<1>7. Reads(me)
  <2>1. ASSUME me.clean PROVE Agrees(config) /\ (Quiet => global = config)
    <3>1. CASE global = Blank
      <4>1. ~ Quiet /\ ~ Exact
        BY <1>6, <2>1, <3>1, BrokenAssumption DEF Truthful, Quiet, Exact
      <4>. QED  BY <4>1 DEF Agrees
    <3>2. CASE global # Blank
      <4>1. global = config
        BY <1>1, <3>2 DEF load_global_config
      <4>. QED  BY <1>4, <1>6, <2>1, <4>1 DEF Truthful, Agrees
    <3>. QED  BY <3>1, <3>2
  <2>. QED  BY <1>4, <1>5, <2>1 DEF Reads, Steady, Supported
<1>8. PICK new : /\ Become(p, new)
                 /\ new = CASE me.req.op = "install" -> install_watcher(me, config, me.req.activate)
                            [] me.req.op = "uninstall" -> uninstall_watcher(me, config)
                            [] me.req.op = "add" -> install_context_watcher(me, config)
                            [] me.req.op = "remove" -> cleanup_watcher_if_unused(me, config)
                            [] me.req.op = "convert" ->
                                 handle_watcher_without_local_sync_targets(me, config)
                            [] me.req.op = "default-provider" -> default_provider(me, config)
  BY <1>1, <1>2 DEF Load
<1>9. Takes(me, new)
  <2>1. /\ me.req.op \in {"install", "uninstall", "add", "remove", "convert", "default-provider"}
        /\ me.req.activate \in BOOLEAN
    BY <1>5, RequestsAssumption DEF Invocation, Request
  <2>2. CASE me.req.op = "install"
    <3>1. new = install_watcher(me, me.was, me.req.activate)
      BY <1>5, <1>8, <2>2
    <3>. QED  BY <1>7, <2>1, <3>1, InstallTakes
  <2>3. CASE me.req.op = "uninstall"
    <3>1. new = uninstall_watcher(me, me.was)
      BY <1>5, <1>8, <2>3
    <3>. QED  BY <1>7, <2>3, <3>1, UninstallTakes
  <2>4. CASE me.req.op = "add"
    <3>1. new = install_context_watcher(me, me.was)
      BY <1>5, <1>8, <2>4
    <3>2. Takes(me, install_watcher(me, me.was, FALSE))
      BY <1>7, <2>4, InstallTakes
    <3>. QED  BY <1>7, <3>1, <3>2, TakesNothing DEF install_context_watcher
  <2>5. CASE me.req.op = "remove"
    <3>1. new = cleanup_watcher_if_unused(me, me.was)
      BY <1>5, <1>8, <2>5
    <3>. QED  BY <1>7, <2>5, <3>1, CleanupTakes
  <2>6. CASE me.req.op = "convert"
    <3>1. new = handle_watcher_without_local_sync_targets(me, me.was)
      BY <1>5, <1>8, <2>6
    <3>2. Takes(me, uninstall_watcher(me, me.was))
      BY <1>7, <2>6, UninstallTakes
    <3>. QED  BY <1>7, <3>1, <3>2, TakesNothing DEF handle_watcher_without_local_sync_targets
  <2>7. CASE me.req.op = "default-provider"
    <3>1. new = default_provider(me, me.was)
      BY <1>5, <1>8, <2>7
    <3>. QED  BY <1>7, <2>7, <3>1, DefaultProviderTakes
  <2>. QED  BY <2>1, <2>2, <2>3, <2>4, <2>5, <2>6, <2>7
<1>10. Placed(new) => Placed(new)'
  BY <1>3 DEF Placed, Standing, StopFacts, FilesFacts, StartFacts, Agrees, Resolved, Quiet, Exact, Up
<1>11. Excused(new) => Excused(new)'
  BY <1>3 DEF Excused, Resolved
<1>12. Truthful => Truthful'
  BY <1>3 DEF Truthful, Agrees, Quiet, Exact, Up
<1>13. global' \in Config => Activable(global')
  BY <1>3 DEF Steady, Supported
<1>. QED  BY <1>3, <1>5, <1>6, <1>8, <1>9, <1>10, <1>11, <1>12, <1>13, StepSteady DEF Takes
-----------------------------------------------------------------------------
(* Every step *)

LEMMA StartSteady ==
    ASSUME Types, Steady, NEW p \in Proc, NEW req, NEW left, Start(p, req, left)
    PROVE  Steady'
<1> DEFINE others == {q \in Proc : Running(proc[q])}
           me == [Idle EXCEPT !.pc = "load", !.req = req, !.left = left,
                              !.clean = (others = {})]
<1>1. /\ me.pc = "load" /\ me.clean = (others = {}) /\ me.was = Idle.was /\ me.want = Idle.want
      /\ Idle.pc = "idle" /\ Activable(Idle.was) /\ Activable(Idle.want)
  BY IdleSupported DEF Idle
<1>2. /\ proc' = [q \in Proc |-> IF q = p THEN me
                                 ELSE IF q \in others THEN [proc[q] EXCEPT !.clean = FALSE]
                                 ELSE Idle]
      /\ mishap' = IF others = {} THEN mishap ELSE mishap \cup {"overlap"}
      /\ UNCHANGED <<host, global, facts>> /\ p \notin others
  BY DEF Start
<1>3. \A q \in others : LET you == [proc[q] EXCEPT !.clean = FALSE]
                        IN  /\ you.pc = proc[q].pc /\ ~ you.clean
                            /\ you.was = proc[q].was /\ you.want = proc[q].want
  BY DEF Types, Invocation
<1>. HIDE DEF me
<1>4. Supported'
  BY <1>1, <1>2, <1>3 DEF Steady, Supported, Activable
<1>5. \A q \in Proc : /\ proc'[q].pc # "failed"
                      /\ Running(proc'[q]) => q = p \/ (q \in others /\ ~ proc'[q].clean)
  BY <1>1, <1>2, <1>3 DEF Running
<1>6. proc'[p] = me
  BY <1>2
<1>7. Sole'
  <2>1. CASE others = {}
    <3>1. \A q \in Proc : Running(proc'[q]) => q = p /\ proc'[q].clean
      BY <1>1, <1>5, <1>6, <2>1
    <3>. QED  BY <1>5, <3>1 DEF Sole
  <2>2. CASE others # {}
    <3>1. ~ (mishap' \subseteq {"failed"})
      BY <1>2, <2>2
    <3>2. \A q \in Proc : Running(proc'[q]) => ~ proc'[q].clean
      BY <1>1, <1>5, <1>6, <2>2
    <3>. QED  BY <1>5, <3>1, <3>2 DEF Sole
  <2>. QED  BY <2>1, <2>2
<1>8. (\A q \in Proc : proc'[q].pc # "work") => Truthful'
  <2>1. ASSUME \A q \in Proc : proc'[q].pc # "work" PROVE \A q \in Proc : proc[q].pc # "work"
    BY <1>2, <1>3, <2>1 DEF Running
  <2>2. Truthful => Truthful'
    BY <1>2 DEF Truthful, Agrees, Quiet, Exact, Up
  <2>. QED  BY <2>1, <2>2 DEF Steady
<1>9. \A q \in Proc : ~ (proc'[q].pc = "work" /\ proc'[q].clean)
  BY <1>1, <1>5, <1>6 DEF Running
<1>. QED  BY <1>4, <1>5, <1>7, <1>8, <1>9 DEF Steady

LEMMA InitSteady == Init => Steady
<1> SUFFICES ASSUME Init PROVE Steady
  OBVIOUS
<1>1. \A p \in Proc : proc[p] = Idle
  BY DEF Init
<1>2. \A p \in Proc : /\ ~ Running(proc[p]) /\ proc[p].pc \notin {"work", "failed"}
                      /\ Activable(proc[p].was) /\ Activable(proc[p].want)
  BY <1>1, IdleSupported DEF Running
<1>3. global = Default /\ Default \in Config /\ Default.mode = NoMode /\ ~ Default.activated
  BY IdleTyped DEF Init, Default
<1>4. Supported /\ Sole
  BY <1>2, <1>3 DEF Supported, Sole, Activable
<1>5. Agrees(global)
  <2>1. Up = {} /\ \A m \in Mode : facts[m] = {} /\ Settled(global, m) = {}
    BY <1>3, NoModeAssumption DEF Init, Up, Settled
  <2>. QED  BY <2>1 DEF Agrees
<1>. QED  BY <1>2, <1>3, <1>4, <1>5 DEF Steady, Truthful

LEMMA NextSteady == Types /\ Steady /\ [Next]_vars => Steady'
<1> SUFFICES ASSUME Types, Steady, [Next]_vars PROVE Steady'
  OBVIOUS
<1>1. CASE UNCHANGED vars
  <2>1. (Sole => Sole') /\ (Supported => Supported') /\ (Truthful => Truthful')
    BY <1>1 DEF vars, Sole, Running, AtRest, Supported, Activable, Truthful, Agrees, Quiet, Exact, Up
  <2>2. proc' = proc
    BY <1>1 DEF vars
  <2>3. \A q \in Proc : (Placed(proc[q]) => Placed(proc[q])') /\ (Excused(proc[q]) => Excused(proc[q])')
    BY <1>1 DEF vars, Placed, Standing, StopFacts, FilesFacts, StartFacts, Agrees, Resolved, Quiet,
                Exact, Up, Excused
  <2>. QED  BY <2>1, <2>2, <2>3 DEF Steady
<1>2. CASE Next
  <2>1. PICK p \in Proc : Begin(p) \/ Step(p)
    BY <1>2 DEF Next
  <2>2. CASE Begin(p)
    BY <2>2, StartSteady DEF Begin, WatcherCommand, AddContext, RemoveContext, ConvertContext
  <2>3. CASE Step(p)
    BY <2>3, LoadSteady, FailSteady, RunSteady, UnlinkSteady, ContextsSteady, WriteSteady,
       TruncateSteady, SaveSteady DEF Step
  <2>. QED  BY <2>1, <2>2, <2>3
<1>. QED  BY <1>1, <1>2

LEMMA SteadyInvariant == Spec => [](Types /\ Steady)
<1>1. Init => Types /\ Steady
  BY InitIInv, InitSteady DEF IInv
<1>2. IInv /\ Steady /\ [Next]_vars => Steady'
  BY NextSteady DEF IInv
<1>3. IInv => Types
  BY DEF IInv
<1>. QED  BY <1>1, <1>2, <1>3, Invariant, PTL DEF Spec

(* On a host without the Windows scheduler, whose deletion of a task       *)
(* leaves a running instance up: never two watchers at a time, and once    *)
(* the commands have ended the one that runs is the one the metadata names *)
(* as activated, however many commands there have been, and also after     *)
(* ones that failed; the other way round if none has.                      *)
THEOREM TheRecordIsTrue == Spec => []("windows-task" \notin host => RecordIsTrue)
<1>1. ASSUME Types, Steady, "windows-task" \notin host PROVE RecordIsTrue
  <2>1. ASSUME mishap \subseteq {"failed"} PROVE \E m : Up \subseteq {m}
    <3>1. Quiet
      BY <1>1, <2>1 DEF Quiet
    <3>2. CASE \A p \in Proc : proc[p].pc # "work"
      BY <1>1, <3>1, <3>2 DEF Steady, Truthful, Agrees
    <3>3. ASSUME NEW p \in Proc, proc[p].pc = "work" PROVE \E m : Up \subseteq {m}
      <4>1. Standing(proc[p])
        BY <1>1, <2>1, <3>3 DEF Steady, Sole, Running, Placed
      <4>. QED  BY <3>1, <4>1 DEF Standing, StopFacts, FilesFacts, StartFacts, Agrees
    <3>. QED  BY <3>2, <3>3
  <2>2. mishap \subseteq {"failed"} => Cardinality(Up) <= 1
    <3>1. ASSUME NEW m, Up \subseteq {m} PROVE Cardinality(Up) <= 1
      <4>1. Up = {} \/ Up = {m}
        BY <3>1
      <4>2. Cardinality({}) = 0 /\ Cardinality({m}) = 1
        BY FS_EmptySet, FS_Singleton
      <4>. QED  BY <4>1, <4>2
    <3>. QED  BY <2>1, <3>1
  <2>3. ASSUME mishap \subseteq {"failed"}, AtRest
        PROVE  /\ Up \subseteq {Recorded.mode} /\ (Up # {} => Recorded.activated)
               /\ Exact => \A m \in Mode : facts[m] = Settled(Recorded, m)
    <3>1. Quiet
      BY <1>1, <2>3 DEF Quiet
    <3>2. Truthful
      BY <1>1, <2>3 DEF Steady, AtRest, Running
    <3>3. global \in Config /\ Recorded = global
      BY <3>1, <3>2, BrokenAssumption DEF Truthful, Recorded, load_global_config
    <3>. QED  BY <3>1, <3>2, <3>3 DEF Truthful, Agrees
  <2>4. ASSUME mishap = {}, AtRest, Recorded.activated PROVE Up = {Recorded.mode}
    <3>1. Exact
      BY <1>1, <2>4 DEF Exact
    <3>2. Recorded.mode \in Mode
      <4>1. Truthful /\ global \in Config
        BY <1>1, <2>4, <3>1 DEF Steady, AtRest, Running, Truthful, Exact, Quiet
      <4>2. Recorded = global /\ Activable(global)
        BY <1>1, <4>1, BrokenAssumption DEF Recorded, load_global_config, Steady, Supported
      <4>. QED  BY <1>1, <2>4, <4>2 DEF Activable, Types, TypeOK
    <3>3. facts[Recorded.mode] = Active(Recorded.mode)
      BY <2>3, <2>4, <3>1, <3>2 DEF Settled
    <3>4. "up" \in Active(Recorded.mode)
      BY <3>2 DEF Active, Mode
    <3>. QED  BY <2>3, <2>4, <3>2, <3>3, <3>4 DEF Up
  <2>. QED  BY <2>2, <2>3, <2>4 DEF RecordIsTrue
<1>. QED  BY <1>1, SteadyInvariant, PTL

(* On such a host, and as long as no command overlaps another, fails or is *)
(* killed: a replacement or an uninstall takes back everything from the    *)
(* old scheduler, down to what it starts at boot.                          *)
THEOREM NothingStaysBehind == Spec => []("windows-task" \notin host => NothingLeftBehind)
<1>1. ASSUME Types, Steady, "windows-task" \notin host PROVE NothingLeftBehind
  <2>1. SUFFICES ASSUME mishap = {}, AtRest, NEW m \in Mode \ {Recorded.mode} PROVE facts[m] = {}
    BY DEF NothingLeftBehind
  <2>2. Exact /\ Quiet
    BY <1>1, <2>1 DEF Exact, Quiet
  <2>3. Truthful
    BY <1>1, <2>1 DEF Steady, AtRest, Running
  <2>4. global \in Config /\ Recorded = global
    BY <2>2, <2>3, BrokenAssumption DEF Truthful, Recorded, load_global_config
  <2>. QED  BY <2>1, <2>2, <2>3, <2>4 DEF Truthful, Agrees, Settled
<1>. QED  BY <1>1, SteadyInvariant, PTL

(* On every host, and whatever has happened before: an install that runs   *)
(* alone and finds no watcher recorded fails only where its scheduler is   *)
(* missing or a context has no key that the container could mount.  The    *)
(* commands of an activation find what they need whatever was left over.   *)
THEOREM InstallsRecover == Spec => []InstallRecovers
<1>1. ASSUME Steady PROVE InstallRecovers
  BY <1>1 DEF Steady, InstallRecovers, Excused
<1>. QED  BY <1>1, SteadyInvariant, PTL
=============================================================================
