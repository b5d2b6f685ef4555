---------------------- MODULE ProjectOperationsProofs ----------------------
(***************************************************************************)
(* Theorems about ProjectOperations: its types, what a deploy delivers,    *)
(* what a restore puts back, and that a restore can be undone.             *)
(***************************************************************************)
EXTENDS ProjectOperations, SequenceTheorems, TLAPS

Place == {"project", "server"}
AnyContent == UNION {Content(f) : f \in File}
Change == File \cup {"restored", "deleted", "db"}

DeployStepName ==
    {"plan", "apply_plan", "load", "render", "rsync", "test", "up",
     "apply", "apply_template", "restart", "delete_map", "delete"}
BackupStepName == {"extract", "archive", "snapshot", "rmtree", "copy", "upload", "users"}
WorkStep == (DeployStepName \cup BackupStepName \cup {"done"}) \X (File \cup {"none"})

(* The steps of a command come in this order. *)
Turn(f) == CASE f = "data" -> 4 [] f = "artifact" -> 6 [] f = "config" -> 7 [] f = "state" -> 8
             [] OTHER -> 10

Rank(s) ==
    CASE s[1] \in {"plan", "load", "extract"} -> 1
      [] s[1] \in {"apply_plan", "render", "archive"} -> 2
      [] s[1] \in {"test", "apply", "delete_map", "snapshot"} -> 3
      [] s[1] \in {"rsync", "upload", "rmtree"} -> Turn(s[2])
      [] s[1] = "copy" -> IF s[2] \in Directory THEN Turn(s[2]) + 1 ELSE Turn(s[2])
      [] s[1] \in {"up", "apply_template", "delete"} -> 11
      [] s[1] = "restart" -> 12
      [] s[1] = "users" -> 13
      [] OTHER -> 14

Ordered(todo) == \A i, j \in DOMAIN todo : i < j => Rank(todo[i]) < Rank(todo[j])
Pending(todo) == {todo[i] : i \in DOMAIN todo}
Left(todo, name) == \E s \in Pending(todo) : s[1] = name

StepNames(op) ==
    CASE op = "deploy" ->
           {"plan", "apply_plan", "done"} \cup
           (CASE target = "local" -> {"up"}
              [] target = "synced" -> {"rsync", "up"}
              [] target = "remote_only" -> {"test", "up"}
              [] OTHER -> {"apply", "apply_template", "restart"})
      [] op = "apply" -> {"load", "render", "apply", "apply_template", "restart", "done"}
      [] op = "delete" -> {"load", "render", "delete_map", "delete", "done"}
      [] op = "backup" -> {"archive", "snapshot", "done"}
      [] op \in {"restore", "undo"} ->
           {"extract", "archive", "snapshot", "done"} \cup
           (IF target = "remote_only" THEN {"upload"} ELSE {"rmtree", "copy", "users"})
      [] OTHER -> {}

(* What is left of a command goes with the command and with itself. *)
Consistent(todo) ==
    /\ Ordered(todo)
    /\ Left(todo, "plan") => Left(todo, "apply_plan")
    /\ Left(todo, "load") => Left(todo, "render")
    /\ Left(todo, "rsync") => Left(todo, "up")
    /\ Left(todo, "apply") => Left(todo, "apply_template")
    /\ Left(todo, "render") /\ Left(todo, "apply_template") => Left(todo, "apply")
    /\ Left(todo, "apply_template") => Left(todo, "restart")
    /\ Left(todo, "archive") => Left(todo, "snapshot")
    /\ \A s \in Pending(todo) : s[1] \in {"rsync", "rmtree", "copy", "upload"} => s[2] \in File
    /\ \A s \in Pending(todo) : s[1] = "rmtree" =>
         s[2] \in Directory /\ <<"copy", s[2]>> \in Pending(todo)

Operation == {"none", "deploy", "apply", "delete", "backup", "restore", "undo"}

Before == [files : Files, db : Users]

Job ==
    [op : Operation, flag : BOOLEAN, todo : Seq(WorkStep), loaded : AnyContent,
     source : Archive \cup {NoArchive}, draft : Archive \cup {NoArchive},
     edited : SUBSET Change, before : Before \cup {Absent}]

Entries(job) == RestoredEntries(job.source.files, job.flag)

(* What each command holds *)
Holds(job) ==
    /\ Consistent(job.todo)
    /\ \A s \in Pending(job.todo) : s[1] \in StepNames(job.op)
    /\ job.op = "none" => job = Idle
    /\ job.op \in {"apply", "delete"} => target \in Kubernetes
    /\ job.op = "apply" /\ Left(job.todo, "render") => Left(job.todo, "apply")
    /\ Left(job.todo, "render") /\ ~Left(job.todo, "load") => job.loaded \in Config
    /\ Left(job.todo, "apply_template") /\ ~Left(job.todo, "apply") => job.loaded \in Rendering
    /\ Left(job.todo, "snapshot") /\ ~Left(job.todo, "archive") => job.draft \in Archive
    /\ job.op = "backup" => job.edited = {}
    /\ job.op \in {"restore", "undo"} =>
         /\ job.before \in Before
         /\ Left(job.todo, "extract") \/ job.source \in Archive
         /\ \A s \in Pending(job.todo) : s[1] \in {"copy", "upload"} => s[2] \in Entries(job)

Container ==
    [template : Template \cup {NotMade},
     held : {held \in [Mounted -> AnyContent \cup {Attached}] :
               \A f \in Mounted : held[f] \in Content(f) \cup {Attached}}]

(* What a cluster has *)
ClusterFits ==
    /\ target \in Kubernetes =>
         /\ disk.server.artifact \in Rendering \cup {Absent}
         /\ rollout \/ container.template # NotMade => disk.server.artifact \in Rendering
    /\ target \notin Kubernetes => rollout = FALSE

FileTypes ==
    /\ target \in Target /\ disk \in [Place -> Files] /\ db \in Users
    /\ Root["config"] # Absent /\ Root["users"] # Absent

ContainerTypes ==
    /\ container \in Container /\ rollout \in BOOLEAN /\ settled \in BOOLEAN /\ ClusterFits

JobTypes == jobs \in [Proc -> Job] /\ \A p \in Proc : Holds(jobs[p])

ArchiveTypes ==
    /\ archives \in [Proc \cup {Kept} -> Archive \cup {NoArchive}]
    /\ archives[Kept] \in Archive
    /\ \A p \in Proc : jobs[p].op = "undo" => archives[p] \in Archive

Types == FileTypes /\ ContainerTypes /\ JobTypes /\ ArchiveTypes
-----------------------------------------------------------------------------
(* What a restore has done *)

Same(p, f) == f \in jobs[p].edited \/ Root[f] = jobs[p].before.files[f]
SameUsers(p) == "db" \in jobs[p].edited \/ db = jobs[p].before.db

(* The archive has what the project had when the restore began. *)
Saves(p, archive) ==
    jobs[p].before.files.config \in Config /\ "config" \notin jobs[p].edited =>
      \A f \in (IF target = "remote_only" THEN File
                ELSE backup_entries(target, jobs[p].before.files, jobs[p].before.files.config, TRUE)) :
        f \in jobs[p].edited \/ (f = "data" /\ ~jobs[p].flag) \/ archive.files[f] = jobs[p].before.files[f]

Saved(p) ==
    /\ archives[p] \in Archive /\ Saves(p, archives[p])
    /\ "config" \notin jobs[p].edited /\ "db" \notin jobs[p].edited
         /\ jobs[p].before.files.config \in Config /\ jobs[p].before.files.config.provider = "db" =>
           archives[p].users \in {jobs[p].before.db, Unread}

Untouched(p) == (\A f \in File : Same(p, f)) /\ SameUsers(p)

Replaced(p, f) == f \in jobs[p].edited \/ Root[f] = jobs[p].source.files[f]

RestoreFits(p) ==
    LET todo == jobs[p].todo
        copied(f) == <<"copy", f>> \notin Pending(todo) /\ <<"upload", f>> \notin Pending(todo)
    IN  IF Left(todo, "extract") THEN Untouched(p)
        ELSE /\ Left(todo, "snapshot") => Untouched(p)
             /\ Left(todo, "snapshot") /\ ~Left(todo, "archive") =>
                  /\ Saves(p, jobs[p].draft)
                  /\ "config" \in jobs[p].edited \/ jobs[p].loaded = jobs[p].before.files.config
             /\ ~Left(todo, "snapshot") => Saved(p)
             /\ \A f \in File : f \notin Entries(jobs[p]) => Same(p, f)
             /\ \A f \in Entries(jobs[p]) : copied(f) => Replaced(p, f)
             /\ target = "remote_only" \/ Left(todo, "users") => SameUsers(p)
             /\ \A s \in Pending(todo) : s[1] = "copy" => Left(todo, "users")
             /\ target # "remote_only" /\ ~Left(todo, "users") =>
                  \/ {"db", "config"} \cap jobs[p].edited # {}
                  \/ db = IF jobs[p].source.users # Unread /\ Root.config.provider = "db"
                          THEN jobs[p].source.users ELSE jobs[p].before.db

RestoresFit == \A p \in Proc : Restoring(p) => RestoreFits(p)
-----------------------------------------------------------------------------
(* What a deploy has done *)

(* No command still running has missed an edit. *)
AllFresh == \A q \in Running : jobs[q].edited \cap Desired = {}

Written == target # "remote_only" => Root.artifact = Rendered(target, Root.config, Root.users)

Required == {"artifact", "config"} \cup {f \in {"users"} : Root.config.provider = "file"}
Sent(f) == target = "synced" => disk.server[f] = Root[f]

Made == target \notin Kubernetes => container.template = disk[Host].artifact.template

Mapped ==
    target \in Kubernetes =>
      /\ disk.server.config = Root.config
      /\ disk.server.users = bootstrap_text(Root.config, Root.users)

Stated ==
    target \in Kubernetes =>
      /\ disk.server.artifact = Root.artifact
      /\ rollout \/ container.template = disk.server.artifact.template

Started ==
    target \in Kubernetes =>
      rollout \/ (Reaches("config") /\ (Root.config.provider = "file" => Reaches("users")))

Delivered == Written /\ (\A f \in Required : Sent(f)) /\ Made /\ Mapped /\ Stated /\ Started

Rendering_left(todo) ==
    Left(todo, "plan") \/ Left(todo, "apply_plan") \/ Left(todo, "load") \/ Left(todo, "render")

DeployFits(p) ==
    LET todo == jobs[p].todo
    IN  ~Rendering_left(todo) =>
          /\ Written
          /\ \A f \in Required : <<"rsync", f>> \notin Pending(todo) => Sent(f)
          /\ ~Left(todo, "up") => Made
          /\ ~Left(todo, "apply") => Mapped
          /\ ~Left(todo, "apply") /\ Left(todo, "apply_template") => jobs[p].loaded = Root.artifact
          /\ ~Left(todo, "apply_template") => Stated
          /\ ~Left(todo, "restart") => Started

LoadFits(p) ==
    Left(jobs[p].todo, "render") /\ ~Left(jobs[p].todo, "load") => jobs[p].loaded = Root.config

Deploying(p) == jobs[p].op \in {"deploy", "apply"}

LocalFits ==
    target = "local" => container.held["config"] = Attached /\ container.held["users"] = Attached

DeploysFit ==
    /\ LocalFits
    /\ AllFresh => \A p \in Proc : LoadFits(p) /\ (Deploying(p) => DeployFits(p))
    /\ settled => AllFresh /\ Delivered
-----------------------------------------------------------------------------
(* Lists of steps *)

StepName == DeployStepName \cup BackupStepName \cup {"done"}

LEMMA Ranks == \A s \in WorkStep : Rank(s) \in 1 .. 14
BY DEF Rank, Turn, WorkStep

LEMMA Tuples ==
    ASSUME NEW S, NEW a \in S, NEW b \in S, NEW c \in S, NEW d \in S, NEW e \in S, NEW f \in S
    PROVE  /\ <<>> \in Seq(S) /\ DOMAIN <<>> = {}
           /\ <<a>> \in Seq(S) /\ DOMAIN <<a>> = 1 .. 1 /\ <<a>>[1] = a
           /\ <<a, b>> \in Seq(S) /\ DOMAIN <<a, b>> = 1 .. 2
           /\ <<a, b>>[1] = a /\ <<a, b>>[2] = b
           /\ <<a, b, c>> \in Seq(S) /\ DOMAIN <<a, b, c>> = 1 .. 3
           /\ <<a, b, c>>[1] = a /\ <<a, b, c>>[2] = b /\ <<a, b, c>>[3] = c
           /\ <<a, b, c, d>> \in Seq(S) /\ DOMAIN <<a, b, c, d>> = 1 .. 4
           /\ <<a, b, c, d>>[1] = a /\ <<a, b, c, d>>[2] = b
           /\ <<a, b, c, d>>[3] = c /\ <<a, b, c, d>>[4] = d
           /\ <<a, b, c, d, e>> \in Seq(S) /\ DOMAIN <<a, b, c, d, e>> = 1 .. 5
           /\ <<a, b, c, d, e>>[1] = a /\ <<a, b, c, d, e>>[2] = b
           /\ <<a, b, c, d, e>>[3] = c /\ <<a, b, c, d, e>>[4] = d /\ <<a, b, c, d, e>>[5] = e
           /\ <<a, b, c, d, e, f>> \in Seq(S) /\ DOMAIN <<a, b, c, d, e, f>> = 1 .. 6
           /\ <<a, b, c, d, e, f>>[1] = a /\ <<a, b, c, d, e, f>>[2] = b
           /\ <<a, b, c, d, e, f>>[3] = c /\ <<a, b, c, d, e, f>>[4] = d
           /\ <<a, b, c, d, e, f>>[5] = e /\ <<a, b, c, d, e, f>>[6] = f
OBVIOUS

LEMMA DoSteps ==
    ASSUME NEW names \in Seq(StepName)
    PROVE  /\ Do(names) \in Seq(WorkStep)
           /\ DOMAIN Do(names) = DOMAIN names
           /\ \A i \in DOMAIN names : Do(names)[i] = <<names[i], "none">>
           /\ Pending(Do(names)) = {<<names[i], "none">> : i \in DOMAIN names}
<1>1. Len(names) \in Nat /\ DOMAIN names = 1 .. Len(names) /\ \A i \in DOMAIN names : names[i] \in StepName
  BY LenProperties, ElementOfSeq
<1>2. DOMAIN Do(names) = DOMAIN names /\ \A i \in DOMAIN names : Do(names)[i] = <<names[i], "none">>
  BY DEF Do
<1>3. \A n \in StepName : <<n, "none">> \in WorkStep
  BY DEF WorkStep, StepName
<1>4. Do(names) \in [1 .. Len(names) -> WorkStep]
  BY <1>1, <1>3 DEF Do
<1>5. [1 .. Len(names) -> WorkStep] \subseteq Seq(WorkStep)
  BY <1>1, SeqDef
<1>. QED  BY <1>2, <1>4, <1>5 DEF Pending

(* What is left when the first step is done *)
LEMMA Popped ==
    ASSUME NEW todo \in Seq(WorkStep), todo # <<>>, Ordered(todo)
    PROVE  /\ Head(todo) \in Pending(todo) /\ Head(todo) \in WorkStep
           /\ Tail(todo) \in Seq(WorkStep) /\ Ordered(Tail(todo))
           /\ Pending(todo) = Pending(Tail(todo)) \cup {Head(todo)}
           /\ \A s \in Pending(todo) : s \in WorkStep
           /\ \A s \in Pending(Tail(todo)) : Rank(Head(todo)) < Rank(s)
<1>1. /\ Len(todo) \in Nat \ {0} /\ DOMAIN todo = 1 .. Len(todo)
      /\ \A i \in DOMAIN todo : todo[i] \in WorkStep
  BY EmptySeq, LenProperties, ElementOfSeq
<1>2. /\ Head(todo) = todo[1] /\ Tail(todo) \in Seq(WorkStep)
      /\ Len(Tail(todo)) = Len(todo) - 1 /\ DOMAIN Tail(todo) = 1 .. Len(todo) - 1
      /\ \A i \in 1 .. Len(todo) - 1 : Tail(todo)[i] = todo[i + 1]
  BY <1>1, HeadTailProperties, LenProperties
<1>3. Pending(todo) = Pending(Tail(todo)) \cup {Head(todo)}
  <2>1. ASSUME NEW i \in DOMAIN todo PROVE todo[i] \in Pending(Tail(todo)) \cup {Head(todo)}
    <3>1. CASE i = 1  BY <1>2, <3>1
    <3>2. CASE i # 1
      <4>1. i - 1 \in 1 .. Len(todo) - 1 /\ (i - 1) + 1 = i
        BY <1>1, <3>2
      <4>. QED  BY <1>2, <4>1 DEF Pending
    <3>. QED  BY <3>1, <3>2
  <2>2. ASSUME NEW i \in 1 .. Len(todo) - 1 PROVE Tail(todo)[i] \in Pending(todo)
    <3>1. i + 1 \in DOMAIN todo
      BY <1>1
    <3>. QED  BY <1>2, <3>1 DEF Pending
  <2>3. todo[1] \in Pending(todo)
    BY <1>1 DEF Pending
  <2>. QED  BY <1>2, <2>1, <2>2, <2>3 DEF Pending
<1>4. Ordered(Tail(todo))
  <2>1. SUFFICES ASSUME NEW i \in 1 .. Len(todo) - 1, NEW j \in 1 .. Len(todo) - 1, i < j
                 PROVE  Rank(Tail(todo)[i]) < Rank(Tail(todo)[j])
    BY <1>2 DEF Ordered
  <2>2. i + 1 \in DOMAIN todo /\ j + 1 \in DOMAIN todo /\ i + 1 < j + 1
    BY <1>1, <2>1
  <2>. QED  BY <1>2, <2>2 DEF Ordered
<1>5. ASSUME NEW i \in 1 .. Len(todo) - 1 PROVE Rank(Head(todo)) < Rank(Tail(todo)[i])
  <2>1. 1 \in DOMAIN todo /\ i + 1 \in DOMAIN todo /\ 1 < i + 1
    BY <1>1
  <2>. QED  BY <1>2, <2>1 DEF Ordered
<1>6. \A s \in Pending(Tail(todo)) : Rank(Head(todo)) < Rank(s)
  BY <1>2, <1>5 DEF Pending
<1>7. \A s \in Pending(todo) : s \in WorkStep
  BY <1>1 DEF Pending
<1>8. Head(todo) \in Pending(todo)
  BY <1>1, <1>2 DEF Pending
<1>. QED  BY <1>2, <1>3, <1>4, <1>6, <1>7, <1>8

LEMMA Joined ==
    ASSUME NEW s \in Seq(WorkStep), NEW t \in Seq(WorkStep)
    PROVE  /\ s \o t \in Seq(WorkStep) /\ Pending(s \o t) = Pending(s) \cup Pending(t)
           /\ Ordered(s) /\ Ordered(t) /\ (\A a \in Pending(s), b \in Pending(t) : Rank(a) < Rank(b))
                => Ordered(s \o t)
<1>1. /\ s \o t \in Seq(WorkStep) /\ Len(s \o t) = Len(s) + Len(t) /\ Len(s) \in Nat /\ Len(t) \in Nat
      /\ DOMAIN s = 1 .. Len(s) /\ DOMAIN t = 1 .. Len(t) /\ DOMAIN (s \o t) = 1 .. Len(s) + Len(t)
  BY ConcatProperties, LenProperties
<1>2. \A i \in 1 .. Len(s) + Len(t) : (s \o t)[i] = IF i <= Len(s) THEN s[i] ELSE t[i - Len(s)]
  BY ConcatProperties
<1>3. \A i \in DOMAIN s : i \in DOMAIN (s \o t) /\ (s \o t)[i] = s[i]
  BY <1>1, <1>2
<1>4. \A i \in DOMAIN t : Len(s) + i \in DOMAIN (s \o t) /\ (s \o t)[Len(s) + i] = t[i]
  <2>1. SUFFICES ASSUME NEW i \in DOMAIN t
                 PROVE  Len(s) + i \in DOMAIN (s \o t) /\ (s \o t)[Len(s) + i] = t[i]
    OBVIOUS
  <2>2. Len(s) + i \in 1 .. Len(s) + Len(t) /\ ~(Len(s) + i <= Len(s)) /\ (Len(s) + i) - Len(s) = i
    BY <1>1
  <2>. QED  BY <1>1, <1>2, <2>2
<1>5. \A i \in DOMAIN (s \o t) :
         \/ i \in DOMAIN s /\ (s \o t)[i] = s[i]
         \/ ~(i <= Len(s)) /\ i - Len(s) \in DOMAIN t /\ (s \o t)[i] = t[i - Len(s)]
  BY <1>1, <1>2
<1>6. Pending(s \o t) = Pending(s) \cup Pending(t)
  <2>1. Pending(s) \subseteq Pending(s \o t)
    BY <1>3 DEF Pending
  <2>2. Pending(t) \subseteq Pending(s \o t)
    BY <1>4 DEF Pending
  <2>3. Pending(s \o t) \subseteq Pending(s) \cup Pending(t)
    BY <1>5 DEF Pending
  <2>. QED  BY <2>1, <2>2, <2>3
<1>7. ASSUME Ordered(s), Ordered(t), \A a \in Pending(s), b \in Pending(t) : Rank(a) < Rank(b),
             NEW i \in DOMAIN (s \o t), NEW j \in DOMAIN (s \o t), i < j
      PROVE  Rank((s \o t)[i]) < Rank((s \o t)[j])
  <2>1. CASE i \in DOMAIN s /\ j \in DOMAIN s
    BY <1>3, <1>7, <2>1 DEF Ordered
  <2>2. CASE i \in DOMAIN s /\ j \notin DOMAIN s
    BY <1>3, <1>5, <1>7, <2>2 DEF Pending
  <2>3. CASE i \notin DOMAIN s
    <3>1. i - Len(s) \in DOMAIN t /\ j - Len(s) \in DOMAIN t /\ i - Len(s) < j - Len(s) /\ j \notin DOMAIN s
      BY <1>1, <1>7, <2>3
    <3>2. (s \o t)[i] = t[i - Len(s)] /\ (s \o t)[j] = t[j - Len(s)]
      BY <1>5, <2>3, <3>1
    <3>. QED  BY <1>7, <3>1, <3>2 DEF Ordered
  <2>. QED  BY <2>1, <2>2, <2>3
<1>. QED  BY <1>1, <1>6, <1>7 DEF Ordered

LEMMA PendingRanks ==
    ASSUME NEW todo \in Seq(WorkStep)
    PROVE  \A s \in Pending(todo) : s \in WorkStep /\ Rank(s) \in Nat
<1>1. \A s \in Pending(todo) : s \in WorkStep
  BY ElementOfSeq, LenProperties DEF Pending
<1>. QED  BY <1>1, Ranks

LEMMA NameRanks ==
    /\ Rank(<<"plan", "none">>) = 1 /\ Rank(<<"load", "none">>) = 1 /\ Rank(<<"extract", "none">>) = 1
    /\ Rank(<<"apply_plan", "none">>) = 2 /\ Rank(<<"render", "none">>) = 2 /\ Rank(<<"archive", "none">>) = 2
    /\ Rank(<<"test", "none">>) = 3 /\ Rank(<<"apply", "none">>) = 3 /\ Rank(<<"delete_map", "none">>) = 3
    /\ Rank(<<"delete", "none">>) = 11
    /\ Rank(<<"snapshot", "none">>) = 3 /\ Rank(<<"up", "none">>) = 11 /\ Rank(<<"apply_template", "none">>) = 11
    /\ Rank(<<"restart", "none">>) = 12 /\ Rank(<<"users", "none">>) = 13 /\ Rank(<<"done", "none">>) = 14
BY DEF Rank

LEMMA OneSteps ==
    ASSUME NEW t, DOMAIN t = 1 .. 1
    PROVE  /\ Pending(t) = {t[1]}
           /\ Rank(t[1]) \in Nat /\ TRUE
                => Ordered(t)
<1>1. \A i \in 1 .. 1 : i = 1
  OBVIOUS
<1>2. 1 \in 1 .. 1
  OBVIOUS
<1>. QED  BY <1>1, <1>2 DEF Pending, Ordered

LEMMA TwoSteps ==
    ASSUME NEW t, DOMAIN t = 1 .. 2
    PROVE  /\ Pending(t) = {t[1], t[2]}
           /\ Rank(t[1]) \in Nat /\ Rank(t[2]) \in Nat /\ Rank(t[1]) < Rank(t[2])
                => Ordered(t)
<1>1. \A i \in 1 .. 2 : i = 1 \/ i = 2
  OBVIOUS
<1>2. 1 \in 1 .. 2 /\ 2 \in 1 .. 2
  OBVIOUS
<1>. QED  BY <1>1, <1>2 DEF Pending, Ordered

LEMMA ThreeSteps ==
    ASSUME NEW t, DOMAIN t = 1 .. 3
    PROVE  /\ Pending(t) = {t[1], t[2], t[3]}
           /\ Rank(t[1]) \in Nat /\ Rank(t[2]) \in Nat /\ Rank(t[3]) \in Nat /\ Rank(t[1]) < Rank(t[2]) /\ Rank(t[2]) < Rank(t[3])
                => Ordered(t)
<1>1. \A i \in 1 .. 3 : i = 1 \/ i = 2 \/ i = 3
  OBVIOUS
<1>2. 1 \in 1 .. 3 /\ 2 \in 1 .. 3 /\ 3 \in 1 .. 3
  OBVIOUS
<1>. QED  BY <1>1, <1>2 DEF Pending, Ordered

LEMMA FiveSteps ==
    ASSUME NEW t, DOMAIN t = 1 .. 5
    PROVE  /\ Pending(t) = {t[1], t[2], t[3], t[4], t[5]}
           /\ (\A i \in 1 .. 5 : Rank(t[i]) \in Nat) /\ Rank(t[1]) < Rank(t[2]) /\ Rank(t[2]) < Rank(t[3])
              /\ Rank(t[3]) < Rank(t[4]) /\ Rank(t[4]) < Rank(t[5])
                => Ordered(t)
<1>1. \A i \in 1 .. 5 : i = 1 \/ i = 2 \/ i = 3 \/ i = 4 \/ i = 5
  OBVIOUS
<1>2. 1 \in 1 .. 5 /\ 2 \in 1 .. 5 /\ 3 \in 1 .. 5 /\ 4 \in 1 .. 5 /\ 5 \in 1 .. 5
  OBVIOUS
<1>. QED  BY <1>1, <1>2 DEF Pending, Ordered

LEMMA SixSteps ==
    ASSUME NEW t, DOMAIN t = 1 .. 6
    PROVE  /\ Pending(t) = {t[1], t[2], t[3], t[4], t[5], t[6]}
           /\ Rank(t[1]) \in Nat /\ Rank(t[2]) \in Nat /\ Rank(t[3]) \in Nat /\ Rank(t[4]) \in Nat /\ Rank(t[5]) \in Nat /\ Rank(t[6]) \in Nat /\ Rank(t[1]) < Rank(t[2]) /\ Rank(t[2]) < Rank(t[3]) /\ Rank(t[3]) < Rank(t[4]) /\ Rank(t[4]) < Rank(t[5]) /\ Rank(t[5]) < Rank(t[6])
                => Ordered(t)
<1>1. \A i \in 1 .. 6 : i = 1 \/ i = 2 \/ i = 3 \/ i = 4 \/ i = 5 \/ i = 6
  OBVIOUS
<1>2. 1 \in 1 .. 6 /\ 2 \in 1 .. 6 /\ 3 \in 1 .. 6 /\ 4 \in 1 .. 6 /\ 5 \in 1 .. 6 /\ 6 \in 1 .. 6
  OBVIOUS
<1>. QED  BY <1>1, <1>2 DEF Pending, Ordered

(* The steps of a command that have a name only *)
Lists(todo, names) ==
    /\ todo \in Seq(WorkStep) /\ Ordered(todo) /\ names \subseteq StepName
    /\ Pending(todo) = {<<n, "none">> : n \in names}

LEMMA DoOne ==
    ASSUME NEW a \in StepName
    PROVE  Lists(Do(<<a>>), {a})
<1>. DEFINE t == Do(<<a>>)
<1>1. <<a>> \in Seq(StepName) /\ DOMAIN <<a>> = 1 .. 1
  BY Tuples
<1>2. t \in Seq(WorkStep) /\ DOMAIN t = 1 .. 1
  BY <1>1, DoSteps
<1>3. t[1] = <<a, "none">>
  BY <1>1, Tuples DEF Do
<1>4. \A n \in StepName : Rank(<<n, "none">>) \in Nat
  BY Ranks DEF WorkStep, StepName
<1>. HIDE DEF t
<1>5. Pending(t) = {t[1]}
  BY <1>2, OneSteps
<1>6. Pending(t) = {<<a, "none">>}
  BY <1>3, <1>5
<1>7. Rank(t[1]) \in Nat
  BY <1>3, <1>4
<1>8. Ordered(t)
  BY <1>2, <1>3, <1>7, OneSteps
<1>. QED  BY <1>2, <1>6, <1>8 DEF Lists, t

LEMMA DoTwo ==
    ASSUME NEW a \in StepName, NEW b \in StepName,
           Rank(<<a, "none">>) < Rank(<<b, "none">>)
    PROVE  Lists(Do(<<a, b>>), {a, b})
<1>. DEFINE t == Do(<<a, b>>)
<1>1. <<a, b>> \in Seq(StepName) /\ DOMAIN <<a, b>> = 1 .. 2
  BY Tuples
<1>2. t \in Seq(WorkStep) /\ DOMAIN t = 1 .. 2
  BY <1>1, DoSteps
<1>3. t[1] = <<a, "none">> /\ t[2] = <<b, "none">>
  BY <1>1, Tuples DEF Do
<1>4. \A n \in StepName : Rank(<<n, "none">>) \in Nat
  BY Ranks DEF WorkStep, StepName
<1>. HIDE DEF t
<1>5. Pending(t) = {t[1], t[2]}
  BY <1>2, TwoSteps
<1>6. Pending(t) = {<<a, "none">>, <<b, "none">>}
  BY <1>3, <1>5
<1>7. Rank(t[1]) \in Nat /\ Rank(t[2]) \in Nat
  BY <1>3, <1>4
<1>8. Ordered(t)
  BY <1>2, <1>3, <1>7, TwoSteps
<1>. QED  BY <1>2, <1>6, <1>8 DEF Lists, t

LEMMA DoThree ==
    ASSUME NEW a \in StepName, NEW b \in StepName, NEW c \in StepName,
           Rank(<<a, "none">>) < Rank(<<b, "none">>),
           Rank(<<b, "none">>) < Rank(<<c, "none">>)
    PROVE  Lists(Do(<<a, b, c>>), {a, b, c})
<1>. DEFINE t == Do(<<a, b, c>>)
<1>1. <<a, b, c>> \in Seq(StepName) /\ DOMAIN <<a, b, c>> = 1 .. 3
  BY Tuples
<1>2. t \in Seq(WorkStep) /\ DOMAIN t = 1 .. 3
  BY <1>1, DoSteps
<1>3. t[1] = <<a, "none">> /\ t[2] = <<b, "none">> /\ t[3] = <<c, "none">>
  BY <1>1, Tuples DEF Do
<1>4. \A n \in StepName : Rank(<<n, "none">>) \in Nat
  BY Ranks DEF WorkStep, StepName
<1>. HIDE DEF t
<1>5. Pending(t) = {t[1], t[2], t[3]}
  BY <1>2, ThreeSteps
<1>6. Pending(t) = {<<a, "none">>, <<b, "none">>, <<c, "none">>}
  BY <1>3, <1>5
<1>7. Rank(t[1]) \in Nat /\ Rank(t[2]) \in Nat /\ Rank(t[3]) \in Nat
  BY <1>3, <1>4
<1>8. Ordered(t)
  BY <1>2, <1>3, <1>7, ThreeSteps
<1>. QED  BY <1>2, <1>6, <1>8 DEF Lists, t

LEMMA DeleteSteps ==
    Lists(Do(<<"load", "render", "delete_map", "delete", "done">>),
          {"load", "render", "delete_map", "delete", "done"})
<1>. DEFINE names == <<"load", "render", "delete_map", "delete", "done">>
<1>1. /\ names \in Seq(StepName) /\ DOMAIN names = 1 .. 5
      /\ names[1] = "load" /\ names[2] = "render" /\ names[3] = "delete_map"
      /\ names[4] = "delete" /\ names[5] = "done"
  BY Tuples DEF StepName, DeployStepName
<1>. DEFINE t == Do(names)
<1>2. t \in Seq(WorkStep) /\ DOMAIN t = 1 .. 5
  BY <1>1, DoSteps
<1>3. /\ t[1] = <<"load", "none">> /\ t[2] = <<"render", "none">> /\ t[3] = <<"delete_map", "none">>
      /\ t[4] = <<"delete", "none">> /\ t[5] = <<"done", "none">>
  BY <1>1 DEF Do
<1>. HIDE DEF t
<1>4. Pending(t) = {t[1], t[2], t[3], t[4], t[5]}
  BY <1>2, FiveSteps
<1>5. Rank(t[1]) = 1 /\ Rank(t[2]) = 2 /\ Rank(t[3]) = 3 /\ Rank(t[4]) = 11 /\ Rank(t[5]) = 14
  BY <1>3, NameRanks
<1>6. Ordered(t)
  <2>1. \A i \in 1 .. 5 : Rank(t[i]) \in Nat
    BY <1>5
  <2>. QED  BY <1>2, <1>5, <2>1, FiveSteps
<1>7. Pending(t) = {<<"load", "none">>, <<"render", "none">>, <<"delete_map", "none">>,
                    <<"delete", "none">>, <<"done", "none">>}
  BY <1>3, <1>4
<1>. QED  BY <1>2, <1>6, <1>7 DEF Lists, t, StepName, DeployStepName

LEMMA ApplySteps ==
    Lists(Do(<<"load", "render", "apply", "apply_template", "restart", "done">>),
          {"load", "render", "apply", "apply_template", "restart", "done"})
<1>. DEFINE names == <<"load", "render", "apply", "apply_template", "restart", "done">>
<1>1. /\ names \in Seq(StepName) /\ DOMAIN names = 1 .. 6
      /\ names[1] = "load" /\ names[2] = "render" /\ names[3] = "apply"
      /\ names[4] = "apply_template" /\ names[5] = "restart" /\ names[6] = "done"
  BY Tuples DEF StepName, DeployStepName
<1>. DEFINE t == Do(names)
<1>3. t \in Seq(WorkStep) /\ DOMAIN t = 1 .. 6
  BY <1>1, DoSteps
<1>4. /\ t[1] = <<"load", "none">> /\ t[2] = <<"render", "none">> /\ t[3] = <<"apply", "none">>
      /\ t[4] = <<"apply_template", "none">> /\ t[5] = <<"restart", "none">> /\ t[6] = <<"done", "none">>
  BY <1>1 DEF Do
<1>. HIDE DEF t
<1>5. Pending(t) = {t[1], t[2], t[3], t[4], t[5], t[6]}
  BY <1>3, SixSteps
<1>6. /\ Rank(t[1]) = 1 /\ Rank(t[2]) = 2 /\ Rank(t[3]) = 3
      /\ Rank(t[4]) = 11 /\ Rank(t[5]) = 12 /\ Rank(t[6]) = 14
  BY <1>4, NameRanks
<1>7. Ordered(t)
  BY <1>3, <1>6, SixSteps
<1>8. Pending(t) = {<<"load", "none">>, <<"render", "none">>, <<"apply", "none">>,
                    <<"apply_template", "none">>, <<"restart", "none">>, <<"done", "none">>}
  BY <1>4, <1>5
<1>. QED  BY <1>3, <1>7, <1>8 DEF Lists, t, StepName, DeployStepName

LEMMA Nothing == <<>> \in Seq(WorkStep) /\ Pending(<<>>) = {} /\ Ordered(<<>>)
BY DEF Pending, Ordered

(* The steps on each file, one file after the other *)
LEMMA InTurn ==
    ASSUME NEW step \in [File -> Seq(WorkStep)],
           \A f \in File : Ordered(step[f]),
           \A f \in File : \A s \in Pending(step[f]) :
             Turn(f) <= Rank(s) /\ Rank(s) <= (IF f \in Directory THEN Turn(f) + 1 ELSE Turn(f))
    PROVE  /\ InOrder(step) \in Seq(WorkStep) /\ Ordered(InOrder(step))
           /\ Pending(InOrder(step)) = UNION {Pending(step[f]) : f \in File}
           /\ \A s \in Pending(InOrder(step)) : 4 <= Rank(s) /\ Rank(s) <= 10
<1>. DEFINE two == step["data"] \o step["artifact"]
            three == two \o step["config"]
            four == three \o step["state"]
            five == four \o step["users"]
<1>1. /\ File = {"config", "users", "artifact", "state", "data"}
      /\ \A f \in File : step[f] \in Seq(WorkStep) /\ Ordered(step[f])
  BY DEF File
<1>a. /\ step["data"] \in Seq(WorkStep) /\ Ordered(step["data"])
      /\ step["artifact"] \in Seq(WorkStep) /\ Ordered(step["artifact"])
      /\ step["config"] \in Seq(WorkStep) /\ Ordered(step["config"])
      /\ step["state"] \in Seq(WorkStep) /\ Ordered(step["state"])
      /\ step["users"] \in Seq(WorkStep) /\ Ordered(step["users"])
  BY <1>1
<1>2. \A f \in File : \A s \in Pending(step[f]) : Rank(s) \in Nat
  <2>1. \A r \in Seq(WorkStep) : \A a \in Pending(r) : a \in WorkStep
    BY ElementOfSeq, LenProperties DEF Pending
  <2>2. \A f \in File : step[f] \in Seq(WorkStep)
    BY <1>1
  <2>3. \A s \in WorkStep : Rank(s) \in Nat
    BY Ranks
  <2>. QED  BY <2>1, <2>2, <2>3
<1>3. \A s \in Pending(step["data"]) : Rank(s) \in Nat /\ 4 <= Rank(s) /\ Rank(s) <= 5
  BY <1>1, <1>2 DEF Turn, Directory
<1>4. \A s \in Pending(step["artifact"]) : Rank(s) \in Nat /\ 5 < Rank(s) /\ Rank(s) <= 6
  BY <1>1, <1>2 DEF Turn, Directory
<1>5. \A s \in Pending(step["config"]) : Rank(s) \in Nat /\ 6 < Rank(s) /\ Rank(s) <= 7
  BY <1>1, <1>2 DEF Turn, Directory
<1>6. \A s \in Pending(step["state"]) : Rank(s) \in Nat /\ 7 < Rank(s) /\ Rank(s) <= 9
  BY <1>1, <1>2 DEF Turn, Directory
<1>7. \A s \in Pending(step["users"]) : Rank(s) \in Nat /\ 9 < Rank(s) /\ Rank(s) <= 10
  BY <1>1, <1>2 DEF Turn, Directory
<1>8. /\ two \in Seq(WorkStep) /\ Pending(two) = Pending(step["data"]) \cup Pending(step["artifact"])
      /\ Ordered(two) /\ \A s \in Pending(two) : Rank(s) \in Nat /\ 4 <= Rank(s) /\ Rank(s) <= 6
  <2>1. two \in Seq(WorkStep) /\ Pending(two) = Pending(step["data"]) \cup Pending(step["artifact"])
    BY <1>a, <1>3, Joined
  <2>2. \A a \in Pending(step["data"]), b \in Pending(step["artifact"]) : Rank(a) < Rank(b)
    BY <1>4, <1>3
  <2>3. Ordered(two)
    BY <1>a, <1>3, <2>2, Joined
  <2>. QED  BY <1>4, <1>3, <2>1, <2>3
<1>. HIDE DEF two
<1>9. /\ three \in Seq(WorkStep) /\ Pending(three) = Pending(two) \cup Pending(step["config"])
      /\ Ordered(three) /\ \A s \in Pending(three) : Rank(s) \in Nat /\ 4 <= Rank(s) /\ Rank(s) <= 7
  <2>1. three \in Seq(WorkStep) /\ Pending(three) = Pending(two) \cup Pending(step["config"])
    BY <1>a, <1>8, Joined
  <2>2. \A a \in Pending(two), b \in Pending(step["config"]) : Rank(a) < Rank(b)
    BY <1>5, <1>8
  <2>3. Ordered(three)
    BY <1>a, <1>8, <2>2, Joined
  <2>. QED  BY <1>5, <1>8, <2>1, <2>3
<1>. HIDE DEF three
<1>10. /\ four \in Seq(WorkStep) /\ Pending(four) = Pending(three) \cup Pending(step["state"])
      /\ Ordered(four) /\ \A s \in Pending(four) : Rank(s) \in Nat /\ 4 <= Rank(s) /\ Rank(s) <= 9
  <2>1. four \in Seq(WorkStep) /\ Pending(four) = Pending(three) \cup Pending(step["state"])
    BY <1>a, <1>9, Joined
  <2>2. \A a \in Pending(three), b \in Pending(step["state"]) : Rank(a) < Rank(b)
    BY <1>6, <1>9
  <2>3. Ordered(four)
    BY <1>a, <1>9, <2>2, Joined
  <2>. QED  BY <1>6, <1>9, <2>1, <2>3
<1>. HIDE DEF four
<1>11. /\ five \in Seq(WorkStep) /\ Pending(five) = Pending(four) \cup Pending(step["users"])
      /\ Ordered(five) /\ \A s \in Pending(five) : Rank(s) \in Nat /\ 4 <= Rank(s) /\ Rank(s) <= 10
  <2>1. five \in Seq(WorkStep) /\ Pending(five) = Pending(four) \cup Pending(step["users"])
    BY <1>a, <1>10, Joined
  <2>2. \A a \in Pending(four), b \in Pending(step["users"]) : Rank(a) < Rank(b)
    BY <1>7, <1>10
  <2>3. Ordered(five)
    BY <1>a, <1>10, <2>2, Joined
  <2>. QED  BY <1>7, <1>10, <2>1, <2>3
<1>. HIDE DEF five
<1>12. five = InOrder(step)
  BY DEF InOrder, two, three, four, five
<1>13. Pending(five) = UNION {Pending(step[f]) : f \in File}
  BY <1>1, <1>8, <1>9, <1>10, <1>11
<1>. QED  BY <1>11, <1>12, <1>13

LEMMA UploadSteps ==
    ASSUME NEW entries \in SUBSET File
    PROVE  /\ uploading(entries) \in Seq(WorkStep) /\ Ordered(uploading(entries))
           /\ Pending(uploading(entries)) = {<<"upload", f>> : f \in entries}
           /\ \A s \in Pending(uploading(entries)) : 4 <= Rank(s) /\ Rank(s) <= 10
<1>. DEFINE step == [f \in File |-> IF f \in entries THEN <<<<"upload", f>>>> ELSE <<>>]
<1>1. ASSUME NEW f \in File
      PROVE  /\ step[f] \in Seq(WorkStep) /\ Ordered(step[f])
             /\ Pending(step[f]) = {s \in {<<"upload", f>>} : f \in entries}
             /\ \A s \in Pending(step[f]) :
                  Turn(f) <= Rank(s) /\ Rank(s) <= (IF f \in Directory THEN Turn(f) + 1 ELSE Turn(f))
  <2>0. <<"upload", f>> \in WorkStep /\ Rank(<<"upload", f>>) = Turn(f) /\ Turn(f) \in Nat
    BY DEF WorkStep, BackupStepName, Rank, Turn
  <2>1. CASE f \in entries
    <3>1. <<<<"upload", f>>>> \in Seq(WorkStep) /\ DOMAIN <<<<"upload", f>>>> = 1 .. 1
          /\ <<<<"upload", f>>>>[1] = <<"upload", f>>
      BY <2>0, Tuples
    <3>2. Pending(<<<<"upload", f>>>>) = {<<"upload", f>>} /\ Ordered(<<<<"upload", f>>>>)
      BY <2>0, <3>1, OneSteps
    <3>. QED  BY <2>0, <2>1, <3>1, <3>2
  <2>2. CASE f \notin entries
    BY <2>2, Nothing
  <2>. QED  BY <2>1, <2>2
<1>2. step \in [File -> Seq(WorkStep)]
  BY <1>1
<1>. HIDE DEF step
<1>3. /\ InOrder(step) \in Seq(WorkStep) /\ Ordered(InOrder(step))
      /\ Pending(InOrder(step)) = UNION {Pending(step[f]) : f \in File}
      /\ \A s \in Pending(InOrder(step)) : 4 <= Rank(s) /\ Rank(s) <= 10
  BY <1>1, <1>2, InTurn
<1>4. UNION {Pending(step[f]) : f \in File} = {<<"upload", f>> : f \in entries}
  BY <1>1
<1>. QED  BY <1>3, <1>4 DEF uploading, step

LEMMA CopySteps ==
    ASSUME NEW entries \in SUBSET File
    PROVE  /\ overwriting(entries) \in Seq(WorkStep) /\ Ordered(overwriting(entries))
           /\ Pending(overwriting(entries)) =
                {<<"copy", f>> : f \in entries} \cup {<<"rmtree", f>> : f \in entries \cap Directory}
           /\ \A s \in Pending(overwriting(entries)) : 4 <= Rank(s) /\ Rank(s) <= 10
<1>. DEFINE step == [f \in File |-> IF f \in entries THEN Overwriting(f) ELSE <<>>]
<1>1. ASSUME NEW f \in File
      PROVE  /\ step[f] \in Seq(WorkStep) /\ Ordered(step[f])
             /\ Pending(step[f]) = {s \in {<<"copy", f>>} : f \in entries} \cup
                                   {s \in {<<"rmtree", f>>} : f \in entries \cap Directory}
             /\ \A s \in Pending(step[f]) :
                  Turn(f) <= Rank(s) /\ Rank(s) <= (IF f \in Directory THEN Turn(f) + 1 ELSE Turn(f))
  <2>0. /\ <<"copy", f>> \in WorkStep /\ <<"rmtree", f>> \in WorkStep /\ Turn(f) \in Nat
        /\ Rank(<<"copy", f>>) = IF f \in Directory THEN Turn(f) + 1 ELSE Turn(f)
        /\ Rank(<<"rmtree", f>>) = Turn(f)
    BY DEF WorkStep, BackupStepName, Rank, Turn
  <2>1. CASE f \in entries /\ f \notin Directory
    <3>1. <<<<"copy", f>>>> \in Seq(WorkStep) /\ DOMAIN <<<<"copy", f>>>> = 1 .. 1
          /\ <<<<"copy", f>>>>[1] = <<"copy", f>>
      BY <2>0, Tuples
    <3>2. Pending(<<<<"copy", f>>>>) = {<<"copy", f>>} /\ Ordered(<<<<"copy", f>>>>)
      BY <2>0, <2>1, <3>1, OneSteps
    <3>3. step[f] = <<<<"copy", f>>>>
      BY <2>1 DEF Overwriting
    <3>. HIDE DEF step
    <3>4. Pending(step[f]) = {<<"copy", f>>}
      BY <3>2, <3>3
    <3>. QED  BY <2>0, <2>1, <3>1, <3>2, <3>3, <3>4
  <2>2. CASE f \in entries /\ f \in Directory
    <3>. DEFINE t == <<<<"rmtree", f>>, <<"copy", f>>>>
    <3>1. /\ t \in Seq(WorkStep) /\ DOMAIN t = 1 .. 2
          /\ t[1] = <<"rmtree", f>> /\ t[2] = <<"copy", f>>
      BY <2>0, Tuples
    <3>2. step[f] = t
      BY <2>2 DEF Overwriting
    <3>. HIDE DEF t, step
    <3>3. Pending(t) = {t[1], t[2]}
      BY <3>1, TwoSteps
    <3>4. Rank(t[1]) \in Nat /\ Rank(t[2]) \in Nat /\ Rank(t[1]) < Rank(t[2])
      BY <2>0, <2>2, <3>1
    <3>5. Ordered(t)
      BY <3>1, <3>4, TwoSteps
    <3>. QED  BY <2>0, <2>2, <3>1, <3>2, <3>3, <3>5
  <2>3. CASE f \notin entries
    BY <2>3, Nothing
  <2>. QED  BY <2>1, <2>2, <2>3
<1>2. step \in [File -> Seq(WorkStep)]
  BY <1>1
<1>. HIDE DEF step
<1>3. /\ InOrder(step) \in Seq(WorkStep) /\ Ordered(InOrder(step))
      /\ Pending(InOrder(step)) = UNION {Pending(step[f]) : f \in File}
      /\ \A s \in Pending(InOrder(step)) : 4 <= Rank(s) /\ Rank(s) <= 10
  BY <1>1, <1>2, InTurn
<1>4. UNION {Pending(step[f]) : f \in File} =
        {<<"copy", f>> : f \in entries} \cup {<<"rmtree", f>> : f \in entries \cap Directory}
  BY <1>1
<1>. QED  BY <1>3, <1>4 DEF overwriting, step

(* A list of named steps leaves what its names say. *)
LEMMA NamedConsistent ==
    ASSUME NEW todo, NEW names, Lists(todo, names),
           names \cap {"rsync", "rmtree", "copy", "upload"} = {},
           "plan" \in names => "apply_plan" \in names,
           "load" \in names => "render" \in names,
           "apply" \in names => "apply_template" \in names,
           "render" \in names /\ "apply_template" \in names => "apply" \in names,
           "apply_template" \in names => "restart" \in names,
           "archive" \in names => "snapshot" \in names
    PROVE  /\ Consistent(todo)
           /\ \A n \in StepName : Left(todo, n) <=> n \in names
           /\ \A s \in Pending(todo) : s[1] \in names
<1>0. Ordered(todo) /\ names \subseteq StepName /\ Pending(todo) = {<<n, "none">> : n \in names}
  BY DEF Lists
<1>1. \A n \in names : <<n, "none">>[1] = n
  OBVIOUS
<1>2. \A s \in Pending(todo) : s[1] \in names
  BY <1>0, <1>1
<1>3. \A n \in StepName : Left(todo, n) <=> n \in names
  BY <1>0, <1>1 DEF Left
<1>. QED  BY <1>0, <1>2, <1>3 DEF Consistent, StepName, DeployStepName, BackupStepName

LEMMA StepsBegin ==
    ASSUME NEW op \in {"deploy", "apply", "delete", "backup", "restore", "undo"},
           op \in {"apply", "delete"} => target \in Kubernetes, target \in Target
    PROVE  /\ Steps(op) \in Seq(WorkStep) /\ Consistent(Steps(op)) /\ Steps(op) # <<>>
           /\ \A s \in Pending(Steps(op)) : s[1] \in StepNames(op)
           /\ op = "deploy" => Left(Steps(op), "plan")
           /\ op = "apply" => Left(Steps(op), "load") /\ Left(Steps(op), "apply")
           /\ op \in {"restore", "undo"} => Left(Steps(op), "extract")
           /\ Left(Steps(op), "render") => Left(Steps(op), "load")
           /\ Left(Steps(op), "apply_template") => Left(Steps(op), "apply")
           /\ Left(Steps(op), "snapshot") => Left(Steps(op), "archive")
           /\ \A s \in Pending(Steps(op)) : s[1] \notin {"copy", "upload"}
<1>0. {"plan", "apply_plan", "load", "render", "delete", "done", "archive", "snapshot", "extract"} \subseteq StepName
  BY DEF StepName, DeployStepName, BackupStepName
<1>1. Lists(Do(<<"plan", "apply_plan">>), {"plan", "apply_plan"})
  BY <1>0, DoTwo, NameRanks
<1>2. Lists(Do(<<"load", "render", "apply", "apply_template", "restart", "done">>),
           {"load", "render", "apply", "apply_template", "restart", "done"})
  BY ApplySteps
<1>3. Lists(Do(<<"delete", "done">>), {"delete", "done"})
  BY <1>0, DoTwo, NameRanks
<1>4. Lists(Do(<<"load", "render", "delete_map", "delete", "done">>),
            {"load", "render", "delete_map", "delete", "done"})
  BY DeleteSteps
<1>5. Lists(Do(<<"archive", "snapshot", "done">>), {"archive", "snapshot", "done"})
  BY <1>0, DoThree, NameRanks
<1>6. Lists(Do(<<"extract">>), {"extract"})
  BY <1>0, DoOne
<1>. DEFINE names ==
       CASE op = "deploy" -> {"plan", "apply_plan"}
         [] op = "apply" -> {"load", "render", "apply", "apply_template", "restart", "done"}
         [] op = "delete" -> IF target = "helm" THEN {"delete", "done"}
                              ELSE {"load", "render", "delete_map", "delete", "done"}
         [] op = "backup" -> {"archive", "snapshot", "done"}
         [] OTHER -> {"extract"}
<1>7. Lists(Steps(op), names)
  BY <1>1, <1>2, <1>3, <1>4, <1>5, <1>6 DEF Steps
<1>8. /\ names \cap {"rsync", "rmtree", "copy", "upload"} = {}
      /\ "plan" \in names => "apply_plan" \in names
      /\ op = "apply" => "apply" \in names
      /\ "load" \in names => "render" \in names
      /\ "apply" \in names => "apply_template" \in names
      /\ "apply_template" \in names => "restart" \in names
      /\ "archive" \in names => "snapshot" \in names
      /\ "render" \in names => "load" \in names
      /\ "apply_template" \in names => "apply" \in names
      /\ "snapshot" \in names => "archive" \in names
      /\ op = "deploy" => "plan" \in names
      /\ op = "apply" => "load" \in names
      /\ op \in {"restore", "undo"} => "extract" \in names
      /\ names # {}
  OBVIOUS
<1>9. names \subseteq StepNames(op)
  BY DEF StepNames
<1>. HIDE DEF names
<1>10. /\ Consistent(Steps(op))
       /\ \A n \in StepName : Left(Steps(op), n) <=> n \in names
       /\ \A s \in Pending(Steps(op)) : s[1] \in names
  BY <1>7, <1>8, NamedConsistent
<1>11. Steps(op) # <<>>
  BY <1>7, <1>8, Nothing DEF Lists
<1>. QED  BY <1>7, <1>8, <1>9, <1>10, <1>11 DEF Lists, StepName, DeployStepName, BackupStepName

LEMMA RsyncSteps ==
    ASSUME NEW config
    PROVE  LET t == [i \in DOMAIN required_sync_files(config) |-> <<"rsync", required_sync_files(config)[i]>>]
           IN  /\ t \in Seq(WorkStep) /\ Ordered(t)
               /\ Pending(t) = {<<"rsync", f>> : f \in {"artifact", "config"} \cup
                                                    {u \in {"users"} : config.provider = "file"}}
<1>. DEFINE t == [i \in DOMAIN required_sync_files(config) |-> <<"rsync", required_sync_files(config)[i]>>]
<1>0. /\ <<"rsync", "artifact">> \in WorkStep /\ <<"rsync", "config">> \in WorkStep /\ <<"rsync", "users">> \in WorkStep
      /\ Rank(<<"rsync", "artifact">>) = 6 /\ Rank(<<"rsync", "config">>) = 7 /\ Rank(<<"rsync", "users">>) = 10
  BY DEF WorkStep, File, DeployStepName, Rank, Turn
<1>1. CASE config.provider = "file"
  <2>1. /\ DOMAIN required_sync_files(config) = 1 .. 3
        /\ required_sync_files(config)[1] = "artifact" /\ required_sync_files(config)[2] = "config"
        /\ required_sync_files(config)[3] = "users"
    BY <1>1 DEF required_sync_files
  <2>2. DOMAIN t = 1 .. 3 /\ t[1] = <<"rsync", "artifact">> /\ t[2] = <<"rsync", "config">> /\ t[3] = <<"rsync", "users">>
    BY <2>1
  <2>3. t = <<<<"rsync", "artifact">>, <<"rsync", "config">>, <<"rsync", "users">>>>
    BY <2>1
  <2>. HIDE DEF t
  <2>4. Pending(t) = {t[1], t[2], t[3]} /\ Ordered(t)
    BY <1>0, <2>2, ThreeSteps
  <2>5. t \in Seq(WorkStep)
    BY <1>0, <2>3, Tuples
  <2>6. Pending(t) = {<<"rsync", f>> : f \in {"artifact", "config"} \cup {u \in {"users"} : config.provider = "file"}}
    BY <1>1, <2>2, <2>4
  <2>. QED  BY <2>4, <2>5, <2>6 DEF t
<1>2. CASE config.provider # "file"
  <2>1. /\ DOMAIN required_sync_files(config) = 1 .. 2
        /\ required_sync_files(config)[1] = "artifact" /\ required_sync_files(config)[2] = "config"
    BY <1>2 DEF required_sync_files
  <2>2. DOMAIN t = 1 .. 2 /\ t[1] = <<"rsync", "artifact">> /\ t[2] = <<"rsync", "config">>
    BY <2>1
  <2>3. t = <<<<"rsync", "artifact">>, <<"rsync", "config">>>>
    BY <2>1
  <2>. HIDE DEF t
  <2>4. Pending(t) = {t[1], t[2]} /\ Ordered(t)
    BY <1>0, <2>2, TwoSteps
  <2>5. t \in Seq(WorkStep)
    BY <1>0, <2>3, Tuples
  <2>6. Pending(t) = {<<"rsync", f>> : f \in {"artifact", "config"} \cup {u \in {"users"} : config.provider = "file"}}
    BY <1>2, <2>2, <2>4
  <2>. QED  BY <2>4, <2>5, <2>6 DEF t
<1>. QED  BY <1>1, <1>2

(* What a deploy still has to do when the compose file is written *)
LEMMA DeployCommands ==
    ASSUME NEW config, target \in Target
    PROVE  LET todo == deploy_commands(config) \o Do(<<"done">>)
           IN  /\ todo \in Seq(WorkStep) /\ Consistent(todo)
               /\ \A s \in Pending(todo) : s[1] \in StepNames("deploy") \ {"plan", "apply_plan"}
               /\ target = "synced" => /\ <<"rsync", "artifact">> \in Pending(todo)
                                       /\ <<"rsync", "config">> \in Pending(todo)
                                       /\ config.provider = "file" => <<"rsync", "users">> \in Pending(todo)
               /\ target \in Kubernetes => Left(todo, "apply") /\ Left(todo, "apply_template") /\ Left(todo, "restart")
               /\ target \notin Kubernetes => Left(todo, "up")
<1>. DEFINE todo == deploy_commands(config) \o Do(<<"done">>)
<1>0. {"up", "test", "apply", "apply_template", "restart", "done"} \subseteq StepName
  BY DEF StepName, DeployStepName
<1>1. Lists(Do(<<"done">>), {"done"}) /\ Rank(<<"done", "none">>) = 14
  BY <1>0, DoOne, NameRanks
<1>2. ASSUME NEW names, Lists(deploy_commands(config), names), names \subseteq StepName,
             \A n \in names : Rank(<<n, "none">>) < 14
      PROVE  Lists(todo, names \cup {"done"})
  <2>1. \A a \in Pending(deploy_commands(config)), b \in Pending(Do(<<"done">>)) : Rank(a) < Rank(b)
    BY <1>1, <1>2 DEF Lists
  <2>2. /\ todo \in Seq(WorkStep)
        /\ Pending(todo) = Pending(deploy_commands(config)) \cup Pending(Do(<<"done">>))
        /\ Ordered(todo)
    BY <1>1, <1>2, <2>1, Joined DEF Lists
  <2>. HIDE DEF todo
  <2>. QED  BY <1>1, <1>2, <2>2 DEF Lists
<1>3. CASE target = "local"
  <2>1. Lists(deploy_commands(config), {"up"})
    <3>1. deploy_commands(config) = Do(<<"up">>)
      BY <1>3 DEF deploy_commands, Kubernetes
    <3>. QED  BY <1>0, <3>1, DoOne
  <2>2. Rank(<<"up", "none">>) < 14
    BY NameRanks
  <2>3. Lists(todo, {"up"} \cup {"done"})
    BY <1>0, <1>2, <2>1, <2>2
  <2>. HIDE DEF todo
  <2>4. /\ Consistent(todo) /\ \A s \in Pending(todo) : s[1] \in {"up"} \cup {"done"}
        /\ \A m \in StepName : Left(todo, m) <=> m \in {"up"} \cup {"done"}
    BY <2>3, NamedConsistent
  <2>5. Left(todo, "up")
    BY <1>0, <2>4
  <2>. QED  BY <1>3, <2>3, <2>4, <2>5 DEF Lists, StepNames, Kubernetes, todo
<1>4. CASE target = "remote_only"
  <2>1. Lists(deploy_commands(config), {"test", "up"})
    <3>1. deploy_commands(config) = Do(<<"test", "up">>)
      BY <1>4 DEF deploy_commands, Kubernetes
    <3>. QED  BY <1>0, <3>1, DoTwo, NameRanks
  <2>2. Rank(<<"up", "none">>) < 14 /\ Rank(<<"test", "none">>) < 14
    BY NameRanks
  <2>3. Lists(todo, {"test", "up"} \cup {"done"})
    BY <1>0, <1>2, <2>1, <2>2
  <2>. HIDE DEF todo
  <2>4. /\ Consistent(todo) /\ \A s \in Pending(todo) : s[1] \in {"test", "up"} \cup {"done"}
        /\ \A m \in StepName : Left(todo, m) <=> m \in {"test", "up"} \cup {"done"}
    BY <2>3, NamedConsistent
  <2>5. Left(todo, "up")
    BY <1>0, <2>4
  <2>. QED  BY <1>4, <2>3, <2>4, <2>5 DEF Lists, StepNames, Kubernetes, todo
<1>5. CASE target \in Kubernetes
  <2>1. Lists(deploy_commands(config), {"apply", "apply_template", "restart"})
    BY <1>0, <1>5, DoThree, NameRanks DEF deploy_commands, Kubernetes
  <2>2. Rank(<<"apply", "none">>) < 14 /\ Rank(<<"apply_template", "none">>) < 14 /\ Rank(<<"restart", "none">>) < 14
    BY NameRanks
  <2>3. Lists(todo, {"apply", "apply_template", "restart"} \cup {"done"})
    BY <1>0, <1>2, <2>1, <2>2
  <2>. HIDE DEF todo
  <2>4. /\ Consistent(todo) /\ \A s \in Pending(todo) : s[1] \in {"apply", "apply_template", "restart"} \cup {"done"}
        /\ \A m \in StepName : Left(todo, m) <=> m \in {"apply", "apply_template", "restart"} \cup {"done"}
    BY <2>3, NamedConsistent
  <2>5. Left(todo, "apply") /\ Left(todo, "apply_template") /\ Left(todo, "restart")
    BY <1>0, <2>4
  <2>. QED  BY <1>5, <2>3, <2>4, <2>5 DEF Lists, StepNames, Kubernetes, todo
<1>6. CASE target = "synced"
  <2>. DEFINE sent == [i \in DOMAIN required_sync_files(config) |-> <<"rsync", required_sync_files(config)[i]>>]
              files == {"artifact", "config"} \cup {u \in {"users"} : config.provider = "file"}
              sending == sent \o Do(<<"up">>)
  <2>1. /\ sent \in Seq(WorkStep) /\ Ordered(sent)
        /\ Pending(sent) = {<<"rsync", f>> : f \in files}
    BY RsyncSteps
  <2>2. deploy_commands(config) = sending
    BY <1>6 DEF deploy_commands, Kubernetes
  <2>3. Lists(Do(<<"up">>), {"up"}) /\ Rank(<<"up", "none">>) = 11
    BY <1>0, DoOne, NameRanks
  <2>4. \A f \in files : f \in File /\ Rank(<<"rsync", f>>) < 11
    BY DEF Rank, Turn, File
  <2>. HIDE DEF sent, files
  <2>5. /\ sending \in Seq(WorkStep) /\ Ordered(sending)
        /\ Pending(sending) = {<<"rsync", f>> : f \in files} \cup {<<"up", "none">>}
    <3>1. Pending(Do(<<"up">>)) = {<<"up", "none">>} /\ Do(<<"up">>) \in Seq(WorkStep) /\ Ordered(Do(<<"up">>))
      BY <2>3 DEF Lists
    <3>2. \A a \in Pending(sent), b \in Pending(Do(<<"up">>)) : Rank(a) < Rank(b)
      BY <2>1, <2>3, <2>4, <3>1
    <3>. QED  BY <2>1, <3>1, <3>2, Joined
  <2>. HIDE DEF sending
  <2>6. /\ todo \in Seq(WorkStep) /\ Ordered(todo)
        /\ Pending(todo) = {<<"rsync", f>> : f \in files} \cup {<<"up", "none">>, <<"done", "none">>}
    <3>1. Pending(Do(<<"done">>)) = {<<"done", "none">>} /\ Do(<<"done">>) \in Seq(WorkStep) /\ Ordered(Do(<<"done">>))
      BY <1>1 DEF Lists
    <3>2. \A s \in Pending(sending) : Rank(s) < 14
      BY <2>3, <2>4, <2>5 DEF Rank, Turn, File
    <3>3. \A a \in Pending(sending), b \in Pending(Do(<<"done">>)) : Rank(a) < Rank(b)
      BY <1>1, <3>1, <3>2
    <3>4. todo = sending \o Do(<<"done">>)
      BY <2>2
    <3>. QED  BY <2>5, <3>1, <3>3, <3>4, Joined
  <2>. HIDE DEF todo
  <2>7. /\ \A s \in Pending(todo) : s[1] \in {"rsync", "up", "done"} /\ (s[1] = "rsync" => s[2] \in File)
        /\ Left(todo, "up")
    <3>1. \A s \in {<<"rsync", f>> : f \in files} : s[1] = "rsync" /\ s[2] \in File
      BY <2>4
    <3>2. \A s \in {<<"up", "none">>, <<"done", "none">>} : s[1] \in {"up", "done"}
      OBVIOUS
    <3>3. <<"up", "none">> \in Pending(todo) /\ <<"up", "none">>[1] = "up"
      BY <2>6
    <3>4. Left(todo, "up")
      BY <3>3 DEF Left
    <3>. QED  BY <2>6, <3>1, <3>2, <3>4
  <2>8. Consistent(todo)
    BY <2>6, <2>7 DEF Consistent, Left
  <2>9. <<"rsync", "artifact">> \in Pending(todo) /\ <<"rsync", "config">> \in Pending(todo)
        /\ (config.provider = "file" => <<"rsync", "users">> \in Pending(todo))
    BY <2>6 DEF files
  <2>. QED  BY <1>6, <2>6, <2>7, <2>8, <2>9 DEF StepNames, Kubernetes, todo
<1>. QED  BY <1>3, <1>4, <1>5, <1>6 DEF Target, Kubernetes

(* What a restore does when it has read the archive *)
LEMMA RestoreCommands ==
    ASSUME NEW entries \in SUBSET File
    PROVE  LET todo == Do(<<"archive", "snapshot">>) \o
                         (IF target = "remote_only" THEN uploading(entries)
                          ELSE overwriting(entries) \o Do(<<"users">>)) \o Do(<<"done">>)
           IN  /\ todo \in Seq(WorkStep) /\ Consistent(todo)
               /\ \A s \in Pending(todo) : s[1] \in StepNames("restore") \ {"extract"}
               /\ Left(todo, "archive") /\ Left(todo, "snapshot")
               /\ target # "remote_only" => Left(todo, "users")
               /\ \A s \in Pending(todo) : s[1] \in {"copy", "upload"} => s[2] \in entries
               /\ \A f \in entries : <<"copy", f>> \in Pending(todo) \/ <<"upload", f>> \in Pending(todo)
<1>. DEFINE first == Do(<<"archive", "snapshot">>)
            middle == IF target = "remote_only" THEN uploading(entries) ELSE overwriting(entries) \o Do(<<"users">>)
            todo == first \o middle \o Do(<<"done">>)
            writes == IF target = "remote_only" THEN {<<"upload", f>> : f \in entries}
                      ELSE {<<"copy", f>> : f \in entries} \cup {<<"rmtree", f>> : f \in entries \cap Directory}
            last == IF target = "remote_only" THEN {} ELSE {<<"users", "none">>}
<1>0. {"archive", "snapshot", "users", "done"} \subseteq StepName
  BY DEF StepName, BackupStepName
<1>1. /\ first \in Seq(WorkStep) /\ Ordered(first)
      /\ Pending(first) = {<<"archive", "none">>, <<"snapshot", "none">>}
      /\ \A s \in Pending(first) : Rank(s) < 4
  <2>1. Lists(first, {"archive", "snapshot"})
    BY <1>0, DoTwo, NameRanks
  <2>. HIDE DEF first
  <2>2. Pending(first) = {<<"archive", "none">>, <<"snapshot", "none">>}
    BY <2>1 DEF Lists
  <2>3. \A s \in Pending(first) : Rank(s) < 4
    BY <2>2, NameRanks
  <2>. QED  BY <2>1, <2>2, <2>3 DEF Lists
<1>2. /\ Do(<<"done">>) \in Seq(WorkStep) /\ Ordered(Do(<<"done">>))
      /\ Pending(Do(<<"done">>)) = {<<"done", "none">>} /\ Rank(<<"done", "none">>) = 14
  BY <1>0, DoOne, NameRanks DEF Lists
<1>3. /\ middle \in Seq(WorkStep) /\ Ordered(middle) /\ Pending(middle) = writes \cup last
      /\ \A s \in Pending(middle) : 4 <= Rank(s) /\ Rank(s) < 14
  <2>1. CASE target = "remote_only"
    <3>1. \A s \in Pending(uploading(entries)) : Rank(s) \in Nat /\ 4 <= Rank(s) /\ Rank(s) <= 10
      BY UploadSteps, PendingRanks
    <3>2. /\ uploading(entries) \in Seq(WorkStep) /\ Ordered(uploading(entries))
          /\ Pending(uploading(entries)) = {<<"upload", f>> : f \in entries}
      BY UploadSteps
    <3>3. \A s \in Pending(uploading(entries)) : 4 <= Rank(s) /\ Rank(s) < 14
      BY <3>1
    <3>. QED  BY <2>1, <3>2, <3>3
  <2>2. CASE target # "remote_only"
    <3>1. \A s \in Pending(overwriting(entries)) : Rank(s) \in Nat /\ 4 <= Rank(s) /\ Rank(s) <= 10
      BY CopySteps, PendingRanks
    <3>2. /\ overwriting(entries) \in Seq(WorkStep) /\ Ordered(overwriting(entries))
          /\ Pending(overwriting(entries)) = writes
      BY <2>2, CopySteps
    <3>3. /\ Do(<<"users">>) \in Seq(WorkStep) /\ Ordered(Do(<<"users">>))
          /\ Pending(Do(<<"users">>)) = {<<"users", "none">>} /\ Rank(<<"users", "none">>) = 13
      BY <1>0, DoOne, NameRanks DEF Lists
    <3>4. \A a \in Pending(overwriting(entries)), b \in Pending(Do(<<"users">>)) : Rank(a) < Rank(b)
      <4>1. \A b \in Pending(Do(<<"users">>)) : Rank(b) = 13
        BY <3>3
      <4>. QED  BY <3>1, <4>1
    <3>. HIDE DEF writes
    <3>5. /\ middle \in Seq(WorkStep) /\ Pending(middle) = Pending(overwriting(entries)) \cup Pending(Do(<<"users">>))
          /\ Ordered(middle)
      BY <2>2, <3>2, <3>3, <3>4, Joined
    <3>6. \A s \in Pending(middle) : 4 <= Rank(s) /\ Rank(s) < 14
      <4>1. \A s \in Pending(Do(<<"users">>)) : 4 <= Rank(s) /\ Rank(s) < 14
        BY <3>3
      <4>. QED  BY <3>1, <3>5, <4>1
    <3>7. last = {<<"users", "none">>}
      BY <2>2
    <3>. QED  BY <3>2, <3>3, <3>5, <3>6, <3>7
  <2>. QED  BY <2>1, <2>2
<1>. HIDE DEF first, middle
<1>4. /\ middle \o Do(<<"done">>) \in Seq(WorkStep) /\ Ordered(middle \o Do(<<"done">>))
      /\ Pending(middle \o Do(<<"done">>)) = writes \cup last \cup {<<"done", "none">>}
      /\ \A s \in Pending(middle \o Do(<<"done">>)) : 4 <= Rank(s)
  <2>1. \A a \in Pending(middle), b \in Pending(Do(<<"done">>)) : Rank(a) < Rank(b)
    BY <1>2, <1>3
  <2>2. /\ middle \o Do(<<"done">>) \in Seq(WorkStep) /\ Ordered(middle \o Do(<<"done">>))
        /\ Pending(middle \o Do(<<"done">>)) = Pending(middle) \cup Pending(Do(<<"done">>))
    BY <1>2, <1>3, <2>1, Joined
  <2>. HIDE DEF writes, last
  <2>. QED  BY <1>2, <1>3, <2>2
<1>. DEFINE rest == middle \o Do(<<"done">>)
<1>. HIDE DEF rest
<1>5. /\ todo \in Seq(WorkStep) /\ Ordered(todo)
      /\ Pending(todo) = {<<"archive", "none">>, <<"snapshot", "none">>} \cup writes \cup last \cup {<<"done", "none">>}
  <2>0. todo = first \o rest
    BY <1>1, <1>2, <1>3, ConcatAssociative DEF rest
  <2>1. \A s \in Pending(first) \cup Pending(rest) : Rank(s) \in Nat
    BY <1>1, <1>4, PendingRanks DEF rest
  <2>2. \A a \in Pending(first), b \in Pending(rest) : Rank(a) < Rank(b)
    <3>1. \A b \in Pending(rest) : 4 <= Rank(b)
      BY <1>4 DEF rest
    <3>2. \A a \in Pending(first) : Rank(a) < 4
      BY <1>1
    <3>. QED  BY <2>1, <3>1, <3>2
  <2>3. todo \in Seq(WorkStep) /\ Ordered(todo) /\ Pending(todo) = Pending(first) \cup Pending(rest)
    BY <1>1, <1>4, <2>0, <2>2, Joined DEF rest
  <2>4. Pending(rest) = writes \cup last \cup {<<"done", "none">>}
    BY <1>4 DEF rest
  <2>. HIDE DEF writes, last, todo
  <2>. QED  BY <1>1, <2>3, <2>4
<1>. HIDE DEF todo
<1>6. /\ \A s \in writes : s[1] \in {"upload", "copy", "rmtree"} /\ s[2] \in File /\ s[2] \in entries
      /\ \A s \in writes : s[1] = "rmtree" => s[2] \in Directory /\ <<"copy", s[2]>> \in writes
      /\ \A s \in writes : s[1] \in (IF target = "remote_only" THEN {"upload"} ELSE {"rmtree", "copy"})
      /\ \A f \in entries : <<"copy", f>> \in writes \/ <<"upload", f>> \in writes
  OBVIOUS
<1>. HIDE DEF writes
<1>7. \A s \in Pending(todo) : s \in writes \/ s[1] \in {"archive", "snapshot", "done"} \cup
                                 (IF target = "remote_only" THEN {} ELSE {"users"})
  BY <1>5
<1>8. Left(todo, "archive") /\ Left(todo, "snapshot") /\ (target # "remote_only" => Left(todo, "users"))
  <2>1. /\ <<"archive", "none">> \in Pending(todo) /\ <<"snapshot", "none">> \in Pending(todo)
        /\ target # "remote_only" => <<"users", "none">> \in Pending(todo)
    BY <1>5
  <2>2. \A n : <<n, "none">>[1] = n
    OBVIOUS
  <2>. QED  BY <2>1, <2>2 DEF Left
<1>9. Consistent(todo)
  <2>1. \A n \in {"plan", "load", "rsync", "apply", "apply_template"} : ~Left(todo, n)
    BY <1>6, <1>7 DEF Left
  <2>2. \A s \in Pending(todo) : s[1] \in {"rsync", "rmtree", "copy", "upload"} => s \in writes
    BY <1>7
  <2>. QED  BY <1>5, <1>6, <1>8, <2>1, <2>2 DEF Consistent
<1>10. \A s \in Pending(todo) : s[1] \in StepNames("restore") \ {"extract"}
  BY <1>6, <1>7 DEF StepNames
<1>11. \A s \in Pending(todo) : s[1] \in {"copy", "upload"} => s[2] \in entries
  BY <1>6, <1>7
<1>12. \A f \in entries : <<"copy", f>> \in Pending(todo) \/ <<"upload", f>> \in Pending(todo)
  BY <1>5, <1>6
<1>. QED  BY <1>5, <1>8, <1>9, <1>10, <1>11, <1>12 DEF todo, first, middle

(* A step taken leaves the rest consistent. *)
LEMMA PoppedConsistent ==
    ASSUME NEW todo \in Seq(WorkStep), todo # <<>>, Consistent(todo)
    PROVE  /\ Consistent(Tail(todo)) /\ Tail(todo) \in Seq(WorkStep)
           /\ Head(todo) \in WorkStep /\ Head(todo) \in Pending(todo)
           /\ Pending(Tail(todo)) = Pending(todo) \ {Head(todo)}
           /\ \A s \in Pending(Tail(todo)) : Rank(Head(todo)) < Rank(s)
           /\ \A n \in StepName : Left(todo, n) <=> Left(Tail(todo), n) \/ Head(todo)[1] = n
           /\ \A n \in {"apply", "render", "snapshot", "users", "extract", "archive", "load", "apply_template"} :
                Head(todo)[1] = n => ~Left(Tail(todo), n)
           /\ Head(todo)[1] = "render" => ~Left(todo, "load")
           /\ Head(todo)[1] \in {"apply_template", "restart"} => ~Left(todo, "apply")
           /\ Head(todo)[1] = "restart" => ~Left(todo, "apply_template")
           /\ Head(todo)[1] = "apply" => ~Left(todo, "render")
           /\ Head(todo)[1] = "snapshot" => ~Left(todo, "archive")
           /\ Head(todo)[1] \in {"copy", "upload", "rmtree", "users"} => ~Left(todo, "snapshot") /\ ~Left(todo, "extract")
           /\ Head(todo)[1] \in {"archive", "snapshot"} => ~Left(todo, "extract")
<1>1. /\ Ordered(todo) /\ Head(todo) \in Pending(todo) /\ Head(todo) \in WorkStep
      /\ Tail(todo) \in Seq(WorkStep) /\ Ordered(Tail(todo))
      /\ Pending(todo) = Pending(Tail(todo)) \cup {Head(todo)}
      /\ \A s \in Pending(todo) : s \in WorkStep
      /\ \A s \in Pending(Tail(todo)) : Rank(Head(todo)) < Rank(s)
  BY Popped DEF Consistent
<1>2. Rank(Head(todo)) \in Nat
  BY <1>1, Ranks
<1>. DEFINE h == Head(todo)
            t == Tail(todo)
<1>3. Pending(t) = Pending(todo) \ {h}
  BY <1>1, <1>2
<1>4. \A n \in StepName : Left(todo, n) <=> Left(t, n) \/ h[1] = n
  BY <1>1 DEF Left
<1>. HIDE DEF h, t
<1>5. ASSUME NEW s \in Pending(t) PROVE Rank(h) < Rank(s)
  BY <1>1 DEF h, t
<1>6. /\ Rank(h) \in Nat
      /\ h[1] \in {"load", "extract"} => Rank(h) = 1
      /\ h[1] \in {"apply_plan", "render", "archive"} => Rank(h) = 2
      /\ h[1] \in {"apply", "snapshot"} => Rank(h) = 3
      /\ h[1] \in {"copy", "upload", "rmtree"} => Rank(h) >= 4
      /\ h[1] \in {"up", "apply_template"} => Rank(h) = 11
      /\ h[1] = "restart" => Rank(h) = 12
      /\ h[1] = "users" => Rank(h) = 13
  BY <1>2 DEF Rank, Turn, h
<1>7. ASSUME NEW s \in Pending(t)
      PROVE  /\ s[1] \in {"plan", "load", "extract"} => Rank(s) = 1
             /\ s[1] \in {"render", "archive"} => Rank(s) = 2
             /\ s[1] \in {"apply", "snapshot"} => Rank(s) = 3
             /\ s[1] \in {"up", "apply_template"} => Rank(s) = 11
             /\ s[1] = "restart" => Rank(s) = 12
             /\ s[1] = "users" => Rank(s) = 13
             /\ s[1] \in {"rsync", "rmtree"} /\ s[2] \in File => Rank(s) < 11
  BY DEF Rank, Turn
<1>8. \A n \in {"apply", "render", "snapshot", "users", "extract", "archive", "load", "apply_template"} :
         h[1] = n => ~Left(t, n)
  BY <1>5, <1>6, <1>7 DEF Left
<1>9. {"plan", "apply_plan", "apply", "render", "snapshot", "users", "extract", "archive", "load", "apply_template", "restart",
       "copy", "upload", "rmtree", "up", "rsync"} \subseteq StepName
  BY DEF StepName, DeployStepName, BackupStepName
<1>10. /\ h[1] = "render" => ~Left(todo, "load")
       /\ h[1] \in {"apply_template", "restart"} => ~Left(todo, "apply")
       /\ h[1] = "restart" => ~Left(todo, "apply_template")
       /\ h[1] = "apply" => ~Left(todo, "render")
       /\ h[1] = "snapshot" => ~Left(todo, "archive")
       /\ h[1] \in {"copy", "upload", "rmtree", "users"} => ~Left(todo, "snapshot") /\ ~Left(todo, "extract")
       /\ h[1] \in {"archive", "snapshot"} => ~Left(todo, "extract")
  <2>1. h[1] = "render" => ~Left(t, "load")
    BY <1>5, <1>6, <1>7 DEF Left
  <2>2. h[1] \in {"apply_template", "restart"} => ~Left(t, "apply")
    BY <1>5, <1>6, <1>7 DEF Left
  <2>3. h[1] = "restart" => ~Left(t, "apply_template")
    BY <1>5, <1>6, <1>7 DEF Left
  <2>4. h[1] = "snapshot" => ~Left(t, "archive")
    BY <1>5, <1>6, <1>7 DEF Left
  <2>5. h[1] \in {"copy", "upload", "rmtree"} => ~Left(t, "snapshot") /\ ~Left(t, "extract")
    BY <1>5, <1>6, <1>7 DEF Left
  <2>6. h[1] = "users" => ~Left(t, "snapshot") /\ ~Left(t, "extract")
    BY <1>5, <1>6, <1>7 DEF Left
  <2>7. h[1] \in {"archive", "snapshot"} => ~Left(t, "extract")
    BY <1>5, <1>6, <1>7 DEF Left
  <2>8. h[1] = "apply" => ~Left(t, "render")
    BY <1>5, <1>6, <1>7 DEF Left
  <2>. QED  BY <1>4, <1>9, <2>1, <2>2, <2>3, <2>4, <2>5, <2>6, <2>7, <2>8
<1>11. Consistent(t)
  <2>1. \A s \in Pending(t) : s \in Pending(todo)
    BY <1>3
  <2>2. /\ Left(t, "plan") => Left(t, "apply_plan")
        /\ Left(t, "load") => Left(t, "render")
        /\ Left(t, "apply") => Left(t, "apply_template")
        /\ Left(t, "render") /\ Left(t, "apply_template") => Left(t, "apply")
        /\ Left(t, "apply_template") => Left(t, "restart")
        /\ Left(t, "archive") => Left(t, "snapshot")
    <3>1. /\ Left(todo, "plan") => Left(todo, "apply_plan")
          /\ h[1] = "apply_plan" => ~Left(t, "plan")
          /\ Left(todo, "load") => Left(todo, "render")
          /\ Left(todo, "apply") => Left(todo, "apply_template")
          /\ Left(todo, "render") /\ Left(todo, "apply_template") => Left(todo, "apply")
          /\ h[1] = "apply" => ~Left(todo, "render")
          /\ Left(todo, "apply_template") => Left(todo, "restart")
          /\ Left(todo, "archive") => Left(todo, "snapshot")
      <4>1. h[1] = "apply_plan" => ~Left(t, "plan")
        BY <1>5, <1>6, <1>7 DEF Left
      <4>. QED  BY <1>10, <4>1 DEF Consistent
    <3>. QED  BY <1>4, <1>9, <1>10, <3>1
  <2>3. Left(t, "rsync") => Left(t, "up")
    <3>1. SUFFICES ASSUME NEW s \in Pending(t), s[1] = "rsync" PROVE Left(t, "up")
      BY DEF Left
    <3>2. s \in Pending(todo) /\ s[2] \in File /\ Left(todo, "up")
      BY <2>1, <3>1 DEF Consistent, Left
    <3>3. Rank(h) < 11
      <4>1. Rank(s) \in Nat /\ Rank(h) < Rank(s) /\ Rank(s) < 11
        BY <1>5, <1>7, <3>1, <3>2, PendingRanks
      <4>. QED  BY <1>6, <4>1
    <3>4. h[1] # "up"
      BY <1>6, <3>3
    <3>. QED  BY <1>4, <1>9, <3>2, <3>4
  <2>4. \A s \in Pending(t) : s[1] \in {"rsync", "rmtree", "copy", "upload"} => s[2] \in File
    BY <2>1 DEF Consistent
  <2>5. ASSUME NEW s \in Pending(t), s[1] = "rmtree"
        PROVE  s[2] \in Directory /\ <<"copy", s[2]>> \in Pending(t)
    <3>1. s[2] \in Directory /\ <<"copy", s[2]>> \in Pending(todo)
      BY <2>1, <2>5 DEF Consistent
    <3>2. <<"copy", s[2]>> # h
      <4>1. Rank(<<"copy", s[2]>>) = Turn(s[2]) + 1 /\ Rank(s) = Turn(s[2]) /\ Turn(s[2]) \in Nat
        BY <2>5, <3>1 DEF Rank, Turn
      <4>. QED  BY <1>5, <4>1
    <3>. QED  BY <1>3, <3>1, <3>2
  <2>6. Ordered(t)
    BY <1>1 DEF t
  <2>. QED  BY <2>2, <2>3, <2>4, <2>5, <2>6 DEF Consistent
<1>. QED  BY <1>1, <1>3, <1>4, <1>8, <1>10, <1>11 DEF h, t
-----------------------------------------------------------------------------
(* Types *)

LEMMA Contents ==
    /\ Content("config") = {Absent} \cup Config \cup {Torn}
    /\ Content("artifact") = {Absent} \cup Rendering \cup {Torn}
    /\ Content("users") = {Absent} \cup Users \cup {Torn}
    /\ Content("state") = {Absent} \cup Users
    /\ Content("data") = {Absent} \cup Nat
    /\ \A f \in File : Absent \in Content(f) /\ Content(f) \subseteq AnyContent
    /\ \A f \in Directory : 0 \in Content(f)
<1>1. \A f \in File : Content(f) \subseteq AnyContent
  BY DEF AnyContent
<1>. QED  BY <1>1 DEF Content, Directory, Users

LEMMA FilesFit ==
    \A files : files \in Files <=>
      files \in [File -> AnyContent] /\ \A f \in File : files[f] \in Content(f)
BY DEF Files, AnyContent

LEMMA FilePut ==
    ASSUME NEW files \in Files, NEW f \in File, NEW v \in Content(f)
    PROVE  [files EXCEPT ![f] = v] \in Files
<1>1. v \in AnyContent
  BY Contents
<1>. QED  BY <1>1, FilesFit

LEMMA DiskFits ==
    ASSUME disk \in [Place -> Files], target \in Target
    PROVE  /\ Home \in Place /\ Host \in Place /\ Root \in Files
           /\ \A place \in Place : disk[place] \in Files
           /\ \A place \in Place, f \in File : disk[place][f] \in Content(f) /\ disk[place][f] \in AnyContent
           /\ \A f \in File : Root[f] \in Content(f) /\ Root[f] \in AnyContent
           /\ disk.server = disk["server"] /\ disk.project = disk["project"]
<1>1. Home \in Place /\ Host \in Place
  BY DEF Home, Host, Place
<1>2. \A place \in Place : disk[place] \in Files
  OBVIOUS
<1>3. \A place \in Place, f \in File : disk[place][f] \in Content(f) /\ disk[place][f] \in AnyContent
  BY <1>2, FilesFit
<1>. QED  BY <1>1, <1>2, <1>3 DEF Root

LEMMA FoldersFit ==
    ASSUME NEW files \in Files
    PROVE  /\ WithFolders(files) \in Files
           /\ \A f \in File \ Directory : WithFolders(files)[f] = files[f]
           /\ \A f \in File : files[f] # Absent => WithFolders(files)[f] = files[f]
<1>1. WithFolders(files) \in [File -> AnyContent] /\ \A f \in File : WithFolders(files)[f] \in Content(f)
  BY FilesFit, Contents DEF WithFolders
<1>. QED  BY <1>1, FilesFit DEF WithFolders

LEMMA RenderedFits ==
    ASSUME NEW config \in Config, NEW users \in Content("users"), target \in Target,
           CanRender(target, config, users)
    PROVE  /\ Rendered(target, config, users) \in Rendering /\ Rendered(target, config, users) \in Content("artifact")
           /\ Rendered(target, config, users).template = template(config)
<1>1. template(config) \in Template
  BY DEF template, Template, Config
<1>2. target \in Kubernetes => bootstrap_text(config, users) \in Users \cup {Absent}
  BY Contents DEF bootstrap_text, CanRender, Users, Config
<1>3. Rendered(target, config, users) \in Rendering
      /\ Rendered(target, config, users).template = template(config)
  BY <1>1, <1>2 DEF Rendered, Rendering, compose_model, kubernetes_manifests, helm_values_model, Kubernetes
<1>. QED  BY <1>3, Contents

LEMMA ContainerFits ==
    ASSUME container \in Container
    PROVE  /\ container.template \in Template \cup {NotMade}
           /\ container.held \in [Mounted -> AnyContent \cup {Attached}]
           /\ \A f \in Mounted : container.held[f] \in Content(f) \cup {Attached}
           /\ container = [template |-> container.template, held |-> container.held]
BY DEF Container

LEMMA ContainerMade ==
    ASSUME NEW made \in Template \cup {NotMade}, NEW held \in [Mounted -> AnyContent \cup {Attached}],
           \A f \in Mounted : held[f] \in Content(f) \cup {Attached}
    PROVE  [template |-> made, held |-> held] \in Container
BY DEF Container

LEMMA HeldPut ==
    ASSUME container \in Container, NEW f \in Mounted, NEW v \in Content(f)
    PROVE  /\ [container EXCEPT !.held[f] = v] \in Container
           /\ [container EXCEPT !.held[f] = v].template = container.template
           /\ [container EXCEPT !.held[f] = v].held[f] = v
           /\ \A g \in Mounted \ {f} : [container EXCEPT !.held[f] = v].held[g] = container.held[g]
<1>. DEFINE held == [container.held EXCEPT ![f] = v]
<1>1. f \in File /\ v \in AnyContent
  BY Contents DEF Mounted, File
<1>2. held \in [Mounted -> AnyContent \cup {Attached}] /\ \A g \in Mounted : held[g] \in Content(g) \cup {Attached}
  BY <1>1, ContainerFits
<1>3. [container EXCEPT !.held[f] = v] = [template |-> container.template, held |-> held]
  BY ContainerFits
<1>4. [template |-> container.template, held |-> held] \in Container
  BY <1>2, ContainerFits, ContainerMade
<1>5. held[f] = v /\ \A g \in Mounted \ {f} : held[g] = container.held[g]
  BY ContainerFits
<1>. QED  BY <1>3, <1>4, <1>5

LEMMA DetachedFits ==
    ASSUME container \in Container, disk \in [Place -> Files], target \in Target,
           NEW place \in Place, NEW f \in Mounted
    PROVE  /\ Detached(place, f) \in Container /\ Detached(place, f).template = container.template
           /\ \A g \in Mounted \ {f} : Detached(place, f).held[g] = container.held[g]
<1>1. f \in File /\ disk[Host][f] \in Content(f)
  BY DiskFits DEF Mounted, File
<1>. QED  BY <1>1, HeldPut DEF Detached

LEMMA ViewFits ==
    ASSUME container \in Container, disk \in [Place -> Files], target \in Target, NEW f \in Mounted
    PROVE  View(f) \in Content(f)
<1>1. f \in File
  BY DEF Mounted, File
<1>. QED  BY <1>1, DiskFits, ContainerFits DEF View

LEMMA JobTypesNext ==
    ASSUME target' = target, jobs' \in [Proc -> Job], \A q \in Proc : Holds(jobs'[q])
    PROVE  JobTypes'
BY DEF JobTypes, Holds, StepNames

LEMMA JobFits ==
    \A job \in Job :
      /\ job.op \in Operation /\ job.flag \in BOOLEAN /\ job.todo \in Seq(WorkStep)
      /\ job.loaded \in AnyContent /\ job.source \in Archive \cup {NoArchive}
      /\ job.draft \in Archive \cup {NoArchive} /\ job.edited \in SUBSET Change
      /\ job.before \in Before \cup {Absent}
BY DEF Job

LEMMA NotedFits ==
    ASSUME NEW js \in [Proc -> Job], \A q \in Proc : Holds(js[q]), NEW p, NEW changed \in SUBSET Change
    PROVE  /\ Noted(js, p, changed) \in [Proc -> Job] /\ \A q \in Proc : Holds(Noted(js, p, changed)[q])
           /\ \A q \in Proc :
                \/ Noted(js, p, changed)[q] = js[q] /\ (q = p \/ js[q].op \in {"none", "backup"})
                \/ /\ q # p /\ js[q].op \notin {"none", "backup"}
                   /\ Noted(js, p, changed)[q] = [js[q] EXCEPT !.edited = @ \cup changed]
<1>1. \A q \in Proc : Noted(js, p, changed)[q] = IF q # p /\ js[q].op \notin {"none", "backup"}
                                                THEN [js[q] EXCEPT !.edited = @ \cup changed] ELSE js[q]
  BY DEF Noted
<1>2. ASSUME NEW q \in Proc
      PROVE  [js[q] EXCEPT !.edited = @ \cup changed] \in Job
  BY DEF Job
<1>3. ASSUME NEW q \in Proc, js[q].op \notin {"none", "backup"}
      PROVE  Holds([js[q] EXCEPT !.edited = @ \cup changed])
  <2>. DEFINE job == [js[q] EXCEPT !.edited = @ \cup changed]
  <2>1. /\ job.op = js[q].op /\ job.flag = js[q].flag /\ job.todo = js[q].todo /\ job.loaded = js[q].loaded
        /\ job.source = js[q].source /\ job.draft = js[q].draft /\ job.before = js[q].before
    BY DEF Job
  <2>. HIDE DEF job
  <2>2. Holds(job)
    BY <1>3, <2>1 DEF Holds, Entries
  <2>. QED  BY <2>2 DEF job
<1>4. Noted(js, p, changed) \in [Proc -> Job]
  BY <1>2 DEF Noted
<1>. QED  BY <1>1, <1>3, <1>4

LEMMA JobWritten ==
    ASSUME JobTypes, target' = target, NEW p \in Proc, NEW job \in Job, Holds(job), NEW changed \in SUBSET Change,
           jobs' = Noted([jobs EXCEPT ![p] = job], p, changed)
    PROVE  /\ JobTypes' /\ jobs'[p] = job
           /\ \A q \in Proc \ {p} :
                \/ jobs'[q] = jobs[q] /\ jobs[q].op \in {"none", "backup"}
                \/ /\ jobs[q].op \notin {"none", "backup"}
                   /\ jobs'[q] = [jobs[q] EXCEPT !.edited = @ \cup changed]
           /\ \A q \in Proc \ {p} : jobs'[q].op = jobs[q].op
<1>. DEFINE js == [jobs EXCEPT ![p] = job]
<1>1. js \in [Proc -> Job] /\ js[p] = job /\ \A q \in Proc \ {p} : js[q] = jobs[q]
  BY DEF JobTypes
<1>. HIDE DEF js
<1>2. \A q \in Proc : Holds(js[q])
  BY <1>1 DEF JobTypes
<1>3. /\ Noted(js, p, changed) \in [Proc -> Job] /\ \A q \in Proc : Holds(Noted(js, p, changed)[q])
      /\ \A q \in Proc :
           \/ Noted(js, p, changed)[q] = js[q] /\ (q = p \/ js[q].op \in {"none", "backup"})
           \/ /\ q # p /\ js[q].op \notin {"none", "backup"}
              /\ Noted(js, p, changed)[q] = [js[q] EXCEPT !.edited = @ \cup changed]
  BY <1>1, <1>2, NotedFits
<1>4. jobs' = Noted(js, p, changed)
  BY DEF js
<1>5. JobTypes'
  BY <1>3, <1>4, JobTypesNext
<1>6. \A q \in Proc \ {p} :
        \/ jobs'[q] = jobs[q] /\ jobs[q].op \in {"none", "backup"}
        \/ /\ jobs[q].op \notin {"none", "backup"}
           /\ jobs'[q] = [jobs[q] EXCEPT !.edited = @ \cup changed]
  BY <1>1, <1>3, <1>4
<1>7. \A q \in Proc \ {p} : jobs'[q].op = jobs[q].op
  <2>1. \A q \in Proc : jobs[q] \in Job /\ [jobs[q] EXCEPT !.edited = @ \cup changed].op = jobs[q].op
    BY DEF JobTypes, Job
  <2>. QED  BY <1>6, <2>1
<1>. QED  BY <1>1, <1>3, <1>4, <1>5, <1>6, <1>7

(* Nobody's step *)
LEMMA JobsNoted ==
    ASSUME JobTypes, target' = target, NEW changed \in SUBSET Change, jobs' = Noted(jobs, Nobody, changed)
    PROVE  /\ JobTypes' /\ \A q \in Proc : jobs'[q].op = jobs[q].op
           /\ \A q \in Proc :
                \/ jobs'[q] = jobs[q] /\ jobs[q].op \in {"none", "backup"}
                \/ /\ jobs[q].op \notin {"none", "backup"}
                   /\ jobs'[q] = [jobs[q] EXCEPT !.edited = @ \cup changed]
<1>1. jobs \in [Proc -> Job] /\ \A q \in Proc : Holds(jobs[q])
  BY DEF JobTypes
<1>2. \A q \in Proc : q # Nobody
  BY ProcAssumption DEF Nobody
<1>3. /\ jobs' \in [Proc -> Job] /\ \A q \in Proc : Holds(jobs'[q])
      /\ \A q \in Proc :
           \/ jobs'[q] = jobs[q] /\ jobs[q].op \in {"none", "backup"}
           \/ /\ jobs[q].op \notin {"none", "backup"}
              /\ jobs'[q] = [jobs[q] EXCEPT !.edited = @ \cup changed]
  BY <1>1, <1>2, NotedFits
<1>4. JobTypes'
  BY <1>3, JobTypesNext
<1>5. \A q \in Proc : jobs[q] \in Job /\ [jobs[q] EXCEPT !.edited = @ \cup changed].op = jobs[q].op
  BY <1>1 DEF Job
<1>. QED  BY <1>3, <1>4, <1>5

LEMMA StepTaken ==
    ASSUME JobTypes, NEW p \in Proc, Step(p)[1] \in StepName
    PROVE  /\ jobs[p] \in Job /\ Holds(jobs[p])
           /\ jobs[p].todo # <<>> /\ jobs[p].todo \in Seq(WorkStep) /\ Head(jobs[p].todo) = Step(p)
           /\ Step(p) \in WorkStep /\ Step(p) \in Pending(jobs[p].todo)
           /\ Step(p)[1] \in StepNames(jobs[p].op) /\ jobs[p].op # "none"
           /\ Consistent(jobs[p].todo)
<1>1. jobs[p] \in Job /\ Holds(jobs[p]) /\ jobs[p].todo \in Seq(WorkStep)
  BY DEF JobTypes, Job
<1>2. "none" \notin StepName
  BY DEF StepName, DeployStepName, BackupStepName
<1>3. jobs[p].todo # <<>> /\ Head(jobs[p].todo) = Step(p)
  BY <1>2 DEF Step
<1>4. Consistent(jobs[p].todo) /\ \A s \in Pending(jobs[p].todo) : s[1] \in StepNames(jobs[p].op)
  BY <1>1 DEF Holds
<1>5. Step(p) \in WorkStep /\ Step(p) \in Pending(jobs[p].todo)
  BY <1>1, <1>3, <1>4, PoppedConsistent
<1>6. jobs[p].op # "none"
  BY <1>4, <1>5 DEF StepNames
<1>. QED  BY <1>1, <1>3, <1>4, <1>5, <1>6

LEMMA Advanced ==
    ASSUME JobTypes, NEW p \in Proc, Step(p)[1] \in StepName \ {"extract"}, NEW job,
           NEW loaded \in AnyContent, NEW draft \in Archive \cup {NoArchive},
           job = [jobs[p] EXCEPT !.todo = Tail(@), !.loaded = loaded, !.draft = draft],
           Left(Tail(jobs[p].todo), "render") /\ ~Left(Tail(jobs[p].todo), "load") => loaded \in Config,
           Left(Tail(jobs[p].todo), "apply_template") /\ ~Left(Tail(jobs[p].todo), "apply") => loaded \in Rendering,
           Left(Tail(jobs[p].todo), "snapshot") /\ ~Left(Tail(jobs[p].todo), "archive") => draft \in Archive
    PROVE  job \in Job /\ Holds(job)
<1>1. /\ jobs[p] \in Job /\ Holds(jobs[p])
      /\ jobs[p].todo # <<>> /\ jobs[p].todo \in Seq(WorkStep) /\ Head(jobs[p].todo) = Step(p)
      /\ jobs[p].op # "none" /\ Consistent(jobs[p].todo)
  BY StepTaken
<1>. DEFINE t == Tail(jobs[p].todo)
<1>2. /\ Consistent(t) /\ t \in Seq(WorkStep) /\ Pending(t) = Pending(jobs[p].todo) \ {Step(p)}
      /\ \A n \in StepName : Left(jobs[p].todo, n) <=> Left(t, n) \/ Step(p)[1] = n
      /\ Step(p)[1] = "apply" => ~Left(jobs[p].todo, "render")
  BY <1>1, PoppedConsistent
<1>3. /\ job.op = jobs[p].op /\ job.flag = jobs[p].flag /\ job.todo = t /\ job.loaded = loaded
      /\ job.source = jobs[p].source /\ job.draft = draft /\ job.edited = jobs[p].edited
      /\ job.before = jobs[p].before
  BY <1>1 DEF Job
<1>4. job \in Job
  BY <1>1, <1>2 DEF Job
<1>5. "extract" \in StepName
  BY DEF StepName, BackupStepName
<1>6. \A s \in Pending(t) : s[1] \in StepNames(job.op)
  BY <1>1, <1>2, <1>3 DEF Holds
<1>. HIDE DEF t
<1>7. job.op \in {"restore", "undo"} =>
         /\ job.before \in Before
         /\ Left(job.todo, "extract") \/ job.source \in Archive
         /\ \A s \in Pending(job.todo) : s[1] \in {"copy", "upload"} => s[2] \in Entries(job)
  BY <1>1, <1>2, <1>3, <1>5 DEF Holds, Entries
<1>8. /\ job.op # "none" /\ (job.op \in {"apply", "delete"} => target \in Kubernetes)
      /\ job.op = "backup" => job.edited = {}
      /\ job.op = "apply" /\ Left(t, "render") => Left(t, "apply")
  BY <1>1, <1>2, <1>3 DEF Holds, StepName, DeployStepName
<1>9. Holds(job)
  BY <1>2, <1>3, <1>6, <1>7, <1>8 DEF Holds, t
<1>. QED  BY <1>4, <1>9

(* A step that leaves what the command holds *)
LEMMA AdvanceFits ==
    ASSUME JobTypes, target' = target, NEW p \in Proc, Step(p)[1] \in StepName \ {"extract", "load", "apply", "archive"},
           NEW changed \in SUBSET Change, Advance(p, changed)
    PROVE  /\ JobTypes' /\ \A q \in Proc : jobs'[q].op = jobs[q].op
           /\ jobs'[p] = [jobs[p] EXCEPT !.todo = Tail(@)]
           /\ \A q \in Proc \ {p} :
                \/ jobs'[q] = jobs[q] /\ jobs[q].op \in {"none", "backup"}
                \/ /\ jobs[q].op \notin {"none", "backup"}
                   /\ jobs'[q] = [jobs[q] EXCEPT !.edited = @ \cup changed]
<1>. DEFINE job == [jobs[p] EXCEPT !.todo = Tail(@)]
<1>1. /\ jobs[p] \in Job /\ Holds(jobs[p])
      /\ jobs[p].todo # <<>> /\ jobs[p].todo \in Seq(WorkStep) /\ Head(jobs[p].todo) = Step(p)
      /\ Consistent(jobs[p].todo)
  BY StepTaken
<1>2. job = [jobs[p] EXCEPT !.todo = Tail(@), !.loaded = jobs[p].loaded, !.draft = jobs[p].draft]
  BY <1>1 DEF Job
<1>3. /\ Left(Tail(jobs[p].todo), "render") /\ ~Left(Tail(jobs[p].todo), "load") => jobs[p].loaded \in Config
      /\ Left(Tail(jobs[p].todo), "apply_template") /\ ~Left(Tail(jobs[p].todo), "apply") => jobs[p].loaded \in Rendering
      /\ Left(Tail(jobs[p].todo), "snapshot") /\ ~Left(Tail(jobs[p].todo), "archive") => jobs[p].draft \in Archive
  <2>1. {"render", "load", "apply", "apply_template", "snapshot", "archive"} \subseteq StepName
    BY DEF StepName, DeployStepName, BackupStepName
  <2>2. \A n \in StepName : Left(jobs[p].todo, n) <=> Left(Tail(jobs[p].todo), n) \/ Step(p)[1] = n
    BY <1>1, PoppedConsistent
  <2>. QED  BY <1>1, <2>1, <2>2 DEF Holds
<1>4. jobs[p].loaded \in AnyContent /\ jobs[p].draft \in Archive \cup {NoArchive}
  BY <1>1, JobFits
<1>5. job \in Job /\ Holds(job)
  BY <1>2, <1>3, <1>4, Advanced
<1>6. jobs' = Noted([jobs EXCEPT ![p] = job], p, changed)
  BY DEF Advance
<1>7. job.op = jobs[p].op
  BY <1>1 DEF Job
<1>. HIDE DEF job
<1>8. /\ JobTypes' /\ jobs'[p] = job
      /\ \A q \in Proc \ {p} :
                \/ jobs'[q] = jobs[q] /\ jobs[q].op \in {"none", "backup"}
                \/ /\ jobs[q].op \notin {"none", "backup"}
                   /\ jobs'[q] = [jobs[q] EXCEPT !.edited = @ \cup changed]
      /\ \A q \in Proc \ {p} : jobs'[q].op = jobs[q].op
  BY <1>5, <1>6, JobWritten
<1>. QED  BY <1>7, <1>8 DEF job

LEMMA SamePlaces ==
    ASSUME target' = target
    PROVE  Home' = Home /\ Host' = Host /\ Root' = disk'[Home]
BY DEF Home, Host, Root

LEMMA FoldersSame ==
    ASSUME Types, target' = target, disk' = disk, db' = db
    PROVE  FileTypes'
BY SamePlaces DEF Types, FileTypes, Root

(* One file is written, and the container sees what it did, or less. *)
LEMMA FileWritten ==
    ASSUME Types, target' = target, db' \in Users, NEW place \in Place, NEW f \in File, NEW v \in Content(f),
           disk' = [disk EXCEPT ![place][f] = v],
           place = Home /\ f \in {"config", "users"} => v # Absent,
           target \in Kubernetes => place = "project" \/ f # "artifact",
           container' \in Container, container'.template = container.template,
           rollout' = rollout, settled' \in BOOLEAN
    PROVE  /\ FileTypes' /\ ContainerTypes'
           /\ \A g \in File : Root'[g] = IF place = Home /\ g = f THEN v ELSE Root[g]
           /\ \A g \in File : g # f => Root'[g] = Root[g]
           /\ disk'[place][f] = v
           /\ \A other \in Place, g \in File : (other # place \/ g # f) => disk'[other][g] = disk[other][g]
<1>1. /\ disk \in [Place -> Files] /\ target \in Target /\ rollout \in BOOLEAN
      /\ Root["config"] # Absent /\ Root["users"] # Absent
  BY DEF Types, FileTypes, ContainerTypes
<1>2. /\ disk' \in [Place -> Files] /\ disk'[place][f] = v
      /\ \A other \in Place, g \in File : (other # place \/ g # f) => disk'[other][g] = disk[other][g]
  <2>1. [disk[place] EXCEPT ![f] = v] \in Files
    BY <1>1, FilePut
  <2>2. disk' = [disk EXCEPT ![place] = [disk[place] EXCEPT ![f] = v]]
    OBVIOUS
  <2>3. disk[place] \in [File -> AnyContent]
    BY <1>1, FilesFit
  <2>. QED  BY <1>1, <2>1, <2>2, <2>3
<1>3. Home \in Place
  BY <1>1, DiskFits
<1>4. \A g \in File : Root'[g] = IF place = Home /\ g = f THEN v ELSE Root[g]
  BY <1>2, <1>3, SamePlaces DEF Root
<1>5. Root'["config"] # Absent /\ Root'["users"] # Absent
  BY <1>1, <1>4 DEF File
<1>6. FileTypes'
  BY <1>1, <1>2, <1>5, SamePlaces DEF FileTypes, Root
<1>7. target \in Kubernetes => disk'["server"]["artifact"] = disk["server"]["artifact"]
  <2>1. "server" \in Place /\ "artifact" \in File /\ "server" # "project"
    BY DEF Place, File
  <2>. QED  BY <1>2, <2>1
<1>8. ClusterFits'
  <2>1. ClusterFits
    BY DEF Types, ContainerTypes
  <2>. QED  BY <1>1, <1>2, <1>7, <2>1 DEF ClusterFits, Kubernetes
<1>9. ContainerTypes'
  BY <1>1, <1>8 DEF ContainerTypes, Container, AnyContent, Content
<1>. QED  BY <1>2, <1>4, <1>6, <1>9

LEMMA NothingWritten ==
    ASSUME Types, target' = target, db' = db, disk' = disk, container' = container,
           rollout' = rollout, settled' \in BOOLEAN
    PROVE  FileTypes' /\ ContainerTypes' /\ Root' = Root
<1>1. FileTypes' /\ Root' = Root
  BY FoldersSame, SamePlaces DEF Root
<1>2. ContainerTypes'
  BY DEF Types, ContainerTypes, ClusterFits, Container
<1>. QED  BY <1>1, <1>2

LEMMA ArchivesSame ==
    ASSUME Types, archives' = archives, \A q \in Proc : jobs'[q].op = "undo" => jobs[q].op = "undo"
    PROVE  ArchiveTypes'
BY DEF Types, ArchiveTypes

(* What a step of another may do to the command of q *)
Spared(q) ==
    /\ jobs'[q].op = jobs[q].op
    /\ jobs[q].op \notin {"none", "backup"} =>
      /\ jobs'[q].flag = jobs[q].flag /\ jobs'[q].todo = jobs[q].todo
      /\ jobs'[q].loaded = jobs[q].loaded /\ jobs'[q].source = jobs[q].source
      /\ jobs'[q].draft = jobs[q].draft /\ jobs'[q].before = jobs[q].before
      /\ jobs[q].edited \subseteq jobs'[q].edited
      /\ archives'[q] = archives[q]
      /\ \A f \in File : Root'[f] # Root[f] => f \in jobs'[q].edited
      /\ db' # db => "db" \in jobs'[q].edited

LEMMA SparedBy ==
    ASSUME JobTypes, NEW q \in Proc, NEW changed,
           \/ jobs'[q] = jobs[q] /\ jobs[q].op \in {"none", "backup"}
           \/ /\ jobs[q].op \notin {"none", "backup"}
              /\ jobs'[q] = [jobs[q] EXCEPT !.edited = @ \cup changed],
           archives'[q] = archives[q],
           \A f \in File : Root'[f] # Root[f] => f \in changed,
           db' # db => "db" \in changed
    PROVE  Spared(q)
<1>1. jobs[q] \in Job
  BY DEF JobTypes
<1>. QED  BY <1>1 DEF Spared, Job

LEMMA SparedBySame ==
    ASSUME NEW q \in Proc, jobs'[q] = jobs[q], archives'[q] = archives[q],
           \A f \in File : Root'[f] = Root[f], db' = db
    PROVE  Spared(q)
BY DEF Spared

(* A command goes on: what it and the others hold *)
LEMMA AdvanceAll ==
    ASSUME Types, NEW p \in Proc, Step(p)[1] \in StepName \ {"extract", "load", "apply", "archive"},
           NEW changed \in SUBSET Change, Advance(p, changed), target' = target, archives' = archives,
           FileTypes', ContainerTypes',
           \A f \in File : Root'[f] # Root[f] => f \in changed, db' # db => "db" \in changed
    PROVE  /\ Types' /\ \A q \in Proc \ {p} : Spared(q)
           /\ jobs'[p] = [jobs[p] EXCEPT !.todo = Tail(@)]
<1>1. JobTypes
  BY DEF Types
<1>2. /\ JobTypes' /\ \A q \in Proc : jobs'[q].op = jobs[q].op
      /\ jobs'[p] = [jobs[p] EXCEPT !.todo = Tail(@)]
      /\ \A q \in Proc \ {p} :
           \/ jobs'[q] = jobs[q] /\ jobs[q].op \in {"none", "backup"}
           \/ /\ jobs[q].op \notin {"none", "backup"}
              /\ jobs'[q] = [jobs[q] EXCEPT !.edited = @ \cup changed]
  BY <1>1, AdvanceFits
<1>3. \A q \in Proc \ {p} : Spared(q)
  BY <1>1, <1>2, SparedBy
<1>. QED  BY <1>2, <1>3, ArchivesSame DEF Types

LEMMA WriteAll ==
    ASSUME Types, NEW p \in Proc, NEW job \in Job, Holds(job), job.op = "undo" => jobs[p].op = "undo",
           NEW changed \in SUBSET Change, jobs' = Noted([jobs EXCEPT ![p] = job], p, changed),
           target' = target, archives' = archives, FileTypes', ContainerTypes',
           \A f \in File : Root'[f] # Root[f] => f \in changed, db' # db => "db" \in changed
    PROVE  /\ Types' /\ \A q \in Proc \ {p} : Spared(q)
           /\ jobs'[p] = job
<1>1. JobTypes
  BY DEF Types
<1>2. /\ JobTypes' /\ jobs'[p] = job
      /\ \A q \in Proc \ {p} :
           \/ jobs'[q] = jobs[q] /\ jobs[q].op \in {"none", "backup"}
           \/ /\ jobs[q].op \notin {"none", "backup"}
              /\ jobs'[q] = [jobs[q] EXCEPT !.edited = @ \cup changed]
      /\ \A q \in Proc \ {p} : jobs'[q].op = jobs[q].op
  BY <1>1, JobWritten
<1>3. \A q \in Proc \ {p} : Spared(q)
  BY <1>1, <1>2, SparedBy
<1>4. \A q \in Proc : jobs'[q].op = "undo" => jobs[q].op = "undo"
  BY <1>2
<1>. QED  BY <1>2, <1>3, <1>4, ArchivesSame DEF Types

(* A command goes on and nothing but its own record changes *)
LEMMA WriteOwn ==
    ASSUME Types, NEW p \in Proc, NEW job \in Job, Holds(job), job.op = "undo" => jobs[p].op = "undo",
           jobs' = [jobs EXCEPT ![p] = job],
           target' = target, archives' = archives, FileTypes', ContainerTypes',
           \A f \in File : Root'[f] = Root[f], db' = db
    PROVE  /\ Types' /\ \A q \in Proc \ {p} : Spared(q)
           /\ jobs'[p] = job
<1>1. jobs \in [Proc -> Job] /\ \A q \in Proc : Holds(jobs[q])
  BY DEF Types, JobTypes
<1>2. jobs' \in [Proc -> Job] /\ jobs'[p] = job /\ \A q \in Proc \ {p} : jobs'[q] = jobs[q]
  BY <1>1
<1>3. JobTypes'
  BY <1>1, <1>2, JobTypesNext
<1>4. \A q \in Proc \ {p} : Spared(q)
  BY <1>2, SparedBySame
<1>5. \A q \in Proc : jobs'[q].op = "undo" => jobs[q].op = "undo"
  BY <1>2
<1>. QED  BY <1>2, <1>3, <1>4, <1>5, ArchivesSame DEF Types

LEMMA deployment_planFits ==
    ASSUME Types, NEW p \in Proc, deployment_plan(p)
    PROVE  Types' /\ \A q \in Proc \ {p} : Spared(q)
<1>1. Step(p)[1] = "plan" /\ "plan" \in StepName \ {"extract", "load", "apply", "archive"}
  BY DEF deployment_plan, StepName, DeployStepName
<1>2. target' = target /\ db' = db /\ archives' = archives /\ container' = container /\ rollout' = rollout
      /\ settled' = settled /\ settled \in BOOLEAN /\ target \in Target /\ db' \in Users
      /\ container \in Container /\ disk \in [Place -> Files]
  BY DEF deployment_plan, Unchanged, Types, ContainerTypes, FileTypes
<1>3. CASE target \in {"local", "synced"}
  <2>1. disk' = [disk EXCEPT ![Home]["artifact"] = Rendered(target, Root.config, Root.users)]
        /\ Advance(p, {"artifact"}) /\ Root["config"] \in Config
    BY <1>3 DEF deployment_plan, write_artifact, Loadable
  <2>2. "artifact" \in File /\ {"artifact"} \in SUBSET Change /\ Root["users"] \in Content("users") /\ Home \in Place
    BY <1>2, DiskFits DEF File, Change
  <2>3. Rendered(target, Root.config, Root.users) \in Content("artifact")
    BY <1>2, <1>3, <2>1, <2>2, RenderedFits DEF CanRender, Kubernetes
  <2>4. FileTypes' /\ ContainerTypes' /\ \A g \in File : g # "artifact" => Root'[g] = Root[g]
    BY <1>2, <1>3, <2>1, <2>2, <2>3, FileWritten DEF Kubernetes
  <2>. QED  BY <1>1, <1>2, <2>1, <2>2, <2>4, AdvanceAll
<1>4. CASE target \notin {"local", "synced"}
  <2>1. disk' = disk /\ Advance(p, {})
    BY <1>4 DEF deployment_plan
  <2>2. FileTypes' /\ ContainerTypes' /\ Root' = Root
    BY <1>2, <2>1, NothingWritten
  <2>. QED  BY <1>1, <1>2, <2>1, <2>2, AdvanceAll
<1>. QED  BY <1>3, <1>4

LEMMA apply_deployment_planFits ==
    ASSUME Types, NEW p \in Proc, apply_deployment_plan(p)
    PROVE  Types' /\ \A q \in Proc \ {p} : Spared(q)
<1>1. Step(p)[1] = "apply_plan" /\ "apply_plan" \in StepName
  BY DEF apply_deployment_plan, StepName, DeployStepName
<1>2. target' = target /\ db' = db /\ archives' = archives /\ container' = container /\ rollout' = rollout
      /\ settled' = settled /\ settled \in BOOLEAN /\ target \in Target /\ db' \in Users
      /\ container \in Container /\ disk \in [Place -> Files]
  BY DEF apply_deployment_plan, Unchanged, Types, ContainerTypes, FileTypes
<1>3. FileTypes' /\ ContainerTypes' /\ \A g \in File : g # "artifact" => Root'[g] = Root[g]
  <2>1. CASE target = "remote_only"
    BY <1>2, <2>1, NothingWritten DEF apply_deployment_plan
  <2>2. CASE target # "remote_only"
    <3>1. disk' = [disk EXCEPT ![Home]["artifact"] = Rendered(target, Root.config, Root.users)]
          /\ Root["config"] \in Config /\ CanRender(target, Root.config, Root.users) /\ Home = "project"
      BY <2>2 DEF apply_deployment_plan, write_artifact, Loadable, Home
    <3>2. "artifact" \in File /\ Root["users"] \in Content("users") /\ Home \in Place
      BY <1>2, DiskFits DEF File
    <3>3. Rendered(target, Root.config, Root.users) \in Content("artifact")
      BY <1>2, <3>1, <3>2, RenderedFits
    <3>. QED  BY <1>2, <3>1, <3>2, <3>3, FileWritten
  <2>. QED  BY <2>1, <2>2
<1>. DEFINE todo == deploy_commands(Root.config) \o Do(<<"done">>)
            job == [jobs[p] EXCEPT !.todo = todo]
<1>4. /\ todo \in Seq(WorkStep) /\ Consistent(todo)
      /\ \A s \in Pending(todo) : s[1] \in StepNames("deploy") \ {"plan", "apply_plan"}
      /\ target \in Kubernetes => Left(todo, "apply")
  BY <1>2, DeployCommands
<1>5. /\ jobs[p] \in Job /\ Holds(jobs[p]) /\ Step(p)[1] \in StepNames(jobs[p].op)
  BY <1>1, StepTaken DEF Types
<1>6. jobs[p].op = "deploy"
  BY <1>1, <1>5 DEF StepNames
<1>7. jobs' = Noted([jobs EXCEPT ![p] = job], p, {"artifact"})
  BY DEF apply_deployment_plan
<1>. HIDE DEF todo
<1>8. job \in Job /\ job.todo = todo /\ job.op = "deploy"
  BY <1>4, <1>5, <1>6 DEF Job
<1>9. Holds(job)
  <2>1. ~Left(todo, "render") /\ ~Left(todo, "snapshot")
    BY <1>4 DEF Left, StepNames
  <2>2. Left(todo, "apply_template") => target \in Kubernetes
    BY <1>2, <1>4 DEF Left, StepNames, Target, Kubernetes
  <2>. HIDE DEF job
  <2>. QED  BY <1>4, <1>8, <2>1, <2>2 DEF Holds
<1>. HIDE DEF job
<1>10. {"artifact"} \in SUBSET Change
  BY DEF Change, File
<1>. QED  BY <1>2, <1>3, <1>7, <1>8, <1>9, <1>10, WriteAll

LEMMA LoadConfigFits ==
    ASSUME Types, NEW p \in Proc, LoadConfig(p)
    PROVE  Types' /\ \A q \in Proc \ {p} : Spared(q)
<1>1. Step(p)[1] = "load" /\ "load" \in StepName \ {"extract"}
  BY DEF LoadConfig, StepName, DeployStepName
<1>2. target' = target /\ db' = db /\ archives' = archives /\ container' = container /\ rollout' = rollout
      /\ settled' = settled /\ settled \in BOOLEAN /\ disk' = disk /\ Root["config"] \in Config /\ JobTypes
  BY DEF LoadConfig, Loadable, Unchanged, Types, ContainerTypes
<1>3. FileTypes' /\ ContainerTypes' /\ Root' = Root
  BY <1>2, NothingWritten
<1>4. /\ jobs[p] \in Job /\ Holds(jobs[p])
      /\ jobs[p].todo # <<>> /\ jobs[p].todo \in Seq(WorkStep) /\ Head(jobs[p].todo) = Step(p)
      /\ Consistent(jobs[p].todo)
  BY <1>1, StepTaken DEF Types
<1>. DEFINE job == [jobs[p] EXCEPT !.todo = Tail(@), !.loaded = Root["config"], !.draft = jobs[p].draft]
<1>5. jobs' = [jobs EXCEPT ![p] = job]
  BY <1>4 DEF LoadConfig, Job
<1>6. /\ Left(Tail(jobs[p].todo), "render") /\ ~Left(Tail(jobs[p].todo), "load") => Root["config"] \in Config
      /\ Left(Tail(jobs[p].todo), "apply_template") => Left(Tail(jobs[p].todo), "apply")
      /\ Left(Tail(jobs[p].todo), "snapshot") /\ ~Left(Tail(jobs[p].todo), "archive") => jobs[p].draft \in Archive
  <2>1. {"render", "load", "apply", "apply_template", "snapshot", "archive"} \subseteq StepName
    BY DEF StepName, DeployStepName, BackupStepName
  <2>2. /\ \A n \in StepName : Left(jobs[p].todo, n) <=> Left(Tail(jobs[p].todo), n) \/ Step(p)[1] = n
        /\ Consistent(Tail(jobs[p].todo))
    BY <1>4, PoppedConsistent
  <2>3. Left(Tail(jobs[p].todo), "render")
    BY <1>1, <1>4, <2>1, <2>2 DEF Consistent
  <2>. QED  BY <1>1, <1>2, <1>4, <2>1, <2>2, <2>3 DEF Holds, Consistent
<1>7. Root["config"] \in AnyContent /\ jobs[p].draft \in Archive \cup {NoArchive}
  BY <1>2, <1>4, Contents, JobFits DEF File
<1>8. job \in Job /\ Holds(job)
  BY <1>1, <1>2, <1>6, <1>7, Advanced
<1>9. job.op = jobs[p].op
  BY <1>4 DEF Job
<1>. HIDE DEF job
<1>. QED  BY <1>2, <1>3, <1>5, <1>8, <1>9, WriteOwn

LEMMA RenderLoadedFits ==
    ASSUME Types, NEW p \in Proc, RenderLoaded(p)
    PROVE  Types' /\ \A q \in Proc \ {p} : Spared(q)
<1>1. Step(p)[1] = "render" /\ "render" \in StepName \ {"extract", "load", "apply", "archive"} /\ "load" \in StepName
  BY DEF RenderLoaded, StepName, DeployStepName
<1>2. target' = target /\ db' = db /\ archives' = archives /\ container' = container /\ rollout' = rollout
      /\ settled' = settled /\ settled \in BOOLEAN /\ target \in Target /\ db' \in Users
      /\ container \in Container /\ disk \in [Place -> Files]
  BY DEF RenderLoaded, Unchanged, Types, ContainerTypes, FileTypes
<1>3. /\ jobs[p] \in Job /\ Holds(jobs[p])
      /\ jobs[p].todo # <<>> /\ jobs[p].todo \in Seq(WorkStep) /\ Head(jobs[p].todo) = Step(p)
      /\ Consistent(jobs[p].todo) /\ Step(p)[1] \in StepNames(jobs[p].op)
  BY <1>1, StepTaken DEF Types
<1>4. jobs[p].loaded \in Config
  <2>1. \A n \in StepName : Left(jobs[p].todo, n) <=> Left(Tail(jobs[p].todo), n) \/ Step(p)[1] = n
    BY <1>3, PoppedConsistent
  <2>2. ~Left(jobs[p].todo, "load")
    BY <1>1, <1>3, PoppedConsistent
  <2>. QED  BY <1>1, <1>3, <2>1, <2>2 DEF Holds
<1>5. target \in Kubernetes /\ Home = "project"
  BY <1>1, <1>3 DEF Holds, StepNames, Home, Kubernetes
<1>6. disk' = [disk EXCEPT ![Home]["artifact"] = Rendered(target, jobs[p].loaded, Root.users)]
      /\ CanRender(target, jobs[p].loaded, Root.users) /\ Advance(p, {"artifact"})
  BY DEF RenderLoaded, write_artifact
<1>7. "artifact" \in File /\ Root["users"] \in Content("users") /\ Home \in Place /\ {"artifact"} \in SUBSET Change
  BY <1>2, DiskFits DEF File, Change
<1>8. Rendered(target, jobs[p].loaded, Root.users) \in Content("artifact")
  BY <1>2, <1>4, <1>6, <1>7, RenderedFits
<1>9. FileTypes' /\ ContainerTypes' /\ \A g \in File : g # "artifact" => Root'[g] = Root[g]
  <2>1. PICK v \in Content("artifact") : disk' = [disk EXCEPT ![Home]["artifact"] = v]
    BY <1>6, <1>8
  <2>2. /\ container' \in Container /\ container'.template = container.template
        /\ settled' \in BOOLEAN /\ rollout' = rollout /\ target' = target /\ db' \in Users
    BY <1>2
  <2>3. PICK f \in File : f = "artifact"
    BY <1>7
  <2>4. v \in Content(f) /\ f \notin {"config", "users"} /\ disk' = [disk EXCEPT ![Home][f] = v]
    BY <2>1, <2>3
  <2>5. FileTypes' /\ ContainerTypes' /\ \A g \in File : g # f => Root'[g] = Root[g]
    BY <1>5, <1>7, <2>2, <2>4, FileWritten
  <2>. QED  BY <2>3, <2>5
<1>. QED  BY <1>1, <1>2, <1>6, <1>7, <1>9, AdvanceAll

LEMMA remote_rsyncFits ==
    ASSUME Types, NEW p \in Proc, remote_rsync(p)
    PROVE  Types' /\ \A q \in Proc \ {p} : Spared(q)
<1>. DEFINE f == Step(p)[2]
<1>1. Step(p)[1] = "rsync" /\ "rsync" \in StepName \ {"extract", "load", "apply", "archive"}
  BY DEF remote_rsync, StepName, DeployStepName
<1>2. target' = target /\ db' = db /\ archives' = archives /\ rollout' = rollout
      /\ settled' = settled /\ settled \in BOOLEAN /\ target \in Target /\ db' \in Users
      /\ container \in Container /\ disk \in [Place -> Files]
  BY DEF remote_rsync, Unchanged, Types, ContainerTypes, FileTypes
<1>3. /\ Holds(jobs[p]) /\ Step(p) \in Pending(jobs[p].todo)
      /\ Consistent(jobs[p].todo) /\ Step(p)[1] \in StepNames(jobs[p].op)
  BY <1>1, StepTaken DEF Types
<1>4. f \in File /\ target = "synced" /\ Home = "project" /\ "server" \in Place /\ target \notin Kubernetes
  BY <1>1, <1>3 DEF Consistent, Holds, StepNames, Home, Kubernetes, Place
<1>5. Root[f] \in Content(f) /\ Advance(p, {})
  BY <1>2, <1>4, DiskFits DEF remote_rsync
<1>6. FileTypes' /\ ContainerTypes' /\ \A g \in File : Root'[g] = Root[g]
  <2>1. disk' = [disk EXCEPT !["server"][f] = Root[f]]
    BY DEF remote_rsync
  <2>2. container' \in Container /\ container'.template = container.template
    <3>1. \/ container' = IF f \in Mounted THEN Detached("server", f) ELSE container
          \/ container' = container
      BY DEF remote_rsync
    <3>. QED  BY <1>2, <1>4, <3>1, DetachedFits
  <2>. HIDE DEF f
  <2>3. FileTypes' /\ ContainerTypes' /\ \A g \in File : Root'[g] = IF "server" = Home /\ g = f THEN Root[f] ELSE Root[g]
    BY <1>2, <1>4, <1>5, <2>1, <2>2, FileWritten
  <2>. QED  BY <1>4, <2>3
<1>. QED  BY <1>1, <1>2, <1>5, <1>6, AdvanceAll

LEMMA TestRemoteFits ==
    ASSUME Types, NEW p \in Proc, TestRemote(p)
    PROVE  Types' /\ \A q \in Proc \ {p} : Spared(q)
<1>1. Step(p)[1] = "test" /\ "test" \in StepName \ {"extract", "load", "apply", "archive"}
  BY DEF TestRemote, StepName, DeployStepName
<1>2. target' = target /\ db' = db /\ archives' = archives /\ rollout' = rollout
      /\ settled' = settled /\ settled \in BOOLEAN /\ disk' = disk /\ container' = container /\ Advance(p, {})
  BY DEF TestRemote, Unchanged, Types, ContainerTypes
<1>3. FileTypes' /\ ContainerTypes' /\ Root' = Root
  BY <1>2, NothingWritten
<1>. QED  BY <1>1, <1>2, <1>3, AdvanceAll

(* The container or pod is started: what was missing of its folders is made. *)
LEMMA WithFoldersStarted ==
    ASSUME Types, target' = target, db' = db, disk' = [disk EXCEPT ![Host] = WithFolders(@)],
           container' \in Container, rollout' \in BOOLEAN, settled' \in BOOLEAN,
           target \in Kubernetes => disk["server"]["artifact"] \in Rendering,
           target \notin Kubernetes => rollout' = FALSE
    PROVE  /\ FileTypes' /\ ContainerTypes'
           /\ \A f \in File : Root'[f] # Root[f] => f \in Created
           /\ \A place \in Place, f \in File \ Directory : disk'[place][f] = disk[place][f]
           /\ \A place \in Place, f \in File : disk[place][f] # Absent => disk'[place][f] = disk[place][f]
<1>1. /\ disk \in [Place -> Files] /\ target \in Target /\ db \in Users
      /\ Root["config"] # Absent /\ Root["users"] # Absent
  BY DEF Types, FileTypes
<1>2. Host \in Place /\ Home \in Place /\ disk[Host] \in Files
  BY <1>1, DiskFits
<1>3. /\ WithFolders(disk[Host]) \in Files
      /\ \A f \in File \ Directory : WithFolders(disk[Host])[f] = disk[Host][f]
      /\ \A f \in File : disk[Host][f] # Absent => WithFolders(disk[Host])[f] = disk[Host][f]
  BY <1>2, FoldersFit
<1>4. /\ disk' \in [Place -> Files] /\ disk'[Host] = WithFolders(disk[Host])
      /\ \A place \in Place \ {Host} : disk'[place] = disk[place]
  BY <1>1, <1>2, <1>3
<1>5. /\ \A place \in Place, f \in File \ Directory : disk'[place][f] = disk[place][f]
      /\ \A place \in Place, f \in File : disk[place][f] # Absent => disk'[place][f] = disk[place][f]
  BY <1>3, <1>4
<1>6. "config" \in File \ Directory /\ "users" \in File \ Directory /\ "artifact" \in File \ Directory
      /\ "server" \in Place
  BY DEF File, Directory, Place
<1>7. Root'["config"] # Absent /\ Root'["users"] # Absent
  BY <1>1, <1>2, <1>5, <1>6, SamePlaces DEF Root
<1>8. FileTypes'
  BY <1>1, <1>4, <1>7 DEF FileTypes
<1>9. disk'["server"]["artifact"] = disk["server"]["artifact"]
  BY <1>5, <1>6
<1>10. ClusterFits'
  <2>1. ClusterFits
    BY DEF Types, ContainerTypes
  <2>. QED  BY <1>9, <2>1 DEF ClusterFits
<1>11. ContainerTypes'
  BY <1>10 DEF ContainerTypes, Container, AnyContent, Content
<1>12. ASSUME NEW f \in File, Root'[f] # Root[f] PROVE f \in Created
  <2>1. Home = Host /\ f \in Directory /\ Root[f] = Absent
    BY <1>2, <1>4, <1>5, <1>12, SamePlaces DEF Root
  <2>. QED  BY <2>1 DEF Created
<1>. QED  BY <1>5, <1>8, <1>11, <1>12

LEMMA compose_upFits ==
    ASSUME Types, NEW p \in Proc, compose_up(p)
    PROVE  Types' /\ \A q \in Proc \ {p} : Spared(q)
<1>1. Step(p)[1] = "up" /\ "up" \in StepName \ {"extract", "load", "apply", "archive"}
  BY DEF compose_up, StepName, DeployStepName
<1>2. target' = target /\ db' = db /\ archives' = archives /\ rollout' = rollout /\ rollout' \in BOOLEAN
      /\ settled' = settled /\ settled' \in BOOLEAN /\ settled \in BOOLEAN /\ target \in Target
      /\ container \in Container /\ disk \in [Place -> Files]
  BY DEF compose_up, Unchanged, Types, ContainerTypes, FileTypes
<1>3. Holds(jobs[p]) /\ Step(p)[1] \in StepNames(jobs[p].op)
  BY <1>1, StepTaken DEF Types
<1>4. target \notin Kubernetes /\ rollout = FALSE
  <2>1. target \notin Kubernetes
    BY <1>1, <1>3, <1>2 DEF StepNames, Kubernetes, Target
  <2>. QED  BY <2>1 DEF Types, ContainerTypes, ClusterFits
<1>5. CASE container.template = disk[Host].artifact.template
  <2>1. disk' = disk /\ container' = container /\ Advance(p, {})
    BY <1>5 DEF compose_up
  <2>2. FileTypes' /\ ContainerTypes' /\ Root' = Root
    BY <1>2, <2>1, NothingWritten
  <2>. QED  BY <1>1, <1>2, <2>1, <2>2, AdvanceAll
<1>6. CASE container.template # disk[Host].artifact.template
  <2>1. Attach(disk[Host].artifact.template) /\ Advance(p, Created) /\ disk[Host].artifact \in Rendering
    BY <1>6 DEF compose_up
  <2>2. disk[Host].artifact.template \in Template
    BY <2>1 DEF Rendering
  <2>3. container' \in Container
    BY <2>1, <2>2, ContainerMade DEF Attach
  <2>4. FileTypes' /\ ContainerTypes' /\ \A f \in File : Root'[f] # Root[f] => f \in Created
    BY <1>2, <1>4, <2>1, <2>3, WithFoldersStarted DEF Attach
  <2>5. Created \in SUBSET Change
    BY DEF Created, Change, Directory, File
  <2>. QED  BY <1>1, <1>2, <2>1, <2>4, <2>5, AdvanceAll
<1>. QED  BY <1>5, <1>6

LEMMA apply_config_mapFits ==
    ASSUME Types, NEW p \in Proc, apply_config_map(p)
    PROVE  Types' /\ \A q \in Proc \ {p} : Spared(q)
<1>1. Step(p)[1] = "apply" /\ "apply" \in StepName \ {"extract"}
  BY DEF apply_config_map, StepName, DeployStepName
<1>2. target' = target /\ db' = db /\ archives' = archives /\ rollout' = rollout /\ container' = container
      /\ settled' = settled /\ settled \in BOOLEAN /\ target \in Target /\ db \in Users
      /\ container \in Container /\ disk \in [Place -> Files] /\ JobTypes
      /\ Root["config"] # Absent /\ Root["users"] # Absent /\ rollout \in BOOLEAN
  BY DEF apply_config_map, Unchanged, Types, ContainerTypes, FileTypes
<1>3. /\ jobs[p] \in Job /\ Holds(jobs[p])
      /\ jobs[p].todo # <<>> /\ jobs[p].todo \in Seq(WorkStep) /\ Head(jobs[p].todo) = Step(p)
      /\ Consistent(jobs[p].todo) /\ Step(p)[1] \in StepNames(jobs[p].op)
  BY <1>1, StepTaken DEF Types
<1>4. target \in Kubernetes /\ Home = "project"
  BY <1>1, <1>2, <1>3 DEF Holds, StepNames, Home, Kubernetes, Target
<1>5. Root["artifact"] \in Rendering
  BY DEF apply_config_map
<1>6. /\ disk' = [disk EXCEPT !["server"] = [disk["server"] EXCEPT !["config"] = Root["artifact"].config,
                                                                 !["users"] = Root["artifact"].users]]
  BY <1>2, DiskFits DEF apply_config_map
<1>. DEFINE files == [disk["server"] EXCEPT !["config"] = Root["artifact"].config,
                                             !["users"] = Root["artifact"].users]
<1>7. files \in Files /\ files["artifact"] = disk["server"]["artifact"]
  <2>1. disk["server"] \in Files /\ "config" \in File /\ "users" \in File /\ "artifact" \in File
    BY <1>2, DiskFits DEF Place, File
  <2>2. Root["artifact"].config \in Content("config") /\ Root["artifact"].users \in Content("users")
    BY <1>5, Contents DEF Rendering
  <2>3. disk["server"] \in [File -> AnyContent] /\ \A f \in File : disk["server"][f] \in Content(f)
    BY <2>1, FilesFit
  <2>4. Root["artifact"].config \in AnyContent /\ Root["artifact"].users \in AnyContent
    BY <2>1, <2>2, Contents
  <2>5. files \in [File -> AnyContent] /\ \A f \in File : files[f] \in Content(f)
    BY <2>2, <2>3, <2>4
  <2>6. files["artifact"] = disk["server"]["artifact"]
    BY <2>1, <2>3
  <2>. QED  BY <2>5, <2>6, FilesFit
<1>. HIDE DEF files
<1>8. /\ disk' \in [Place -> Files] /\ disk'["project"] = disk["project"] /\ disk'["server"] = files
  BY <1>2, <1>6, <1>7 DEF files, Place
<1>9. Root' = Root /\ FileTypes'
  BY <1>2, <1>4, <1>8, SamePlaces DEF Root, FileTypes
<1>10. ContainerTypes'
  <2>1. ClusterFits
    BY DEF Types, ContainerTypes
  <2>2. ClusterFits'
    BY <1>2, <1>7, <1>8, <2>1 DEF ClusterFits
  <2>. QED  BY <1>2, <2>2 DEF ContainerTypes, Container, AnyContent, Content
<1>. DEFINE job == [jobs[p] EXCEPT !.todo = Tail(@), !.loaded = Root["artifact"], !.draft = jobs[p].draft]
<1>11. jobs' = [jobs EXCEPT ![p] = job]
  BY <1>3 DEF apply_config_map, Job
<1>12. /\ ~Left(Tail(jobs[p].todo), "render")
       /\ Left(Tail(jobs[p].todo), "snapshot") /\ ~Left(Tail(jobs[p].todo), "archive") => jobs[p].draft \in Archive
  <2>1. {"render", "load", "apply", "apply_template", "snapshot", "archive"} \subseteq StepName
    BY DEF StepName, DeployStepName, BackupStepName
  <2>2. /\ \A n \in StepName : Left(jobs[p].todo, n) <=> Left(Tail(jobs[p].todo), n) \/ Step(p)[1] = n
        /\ ~Left(jobs[p].todo, "render")
    BY <1>1, <1>3, PoppedConsistent
  <2>. QED  BY <1>1, <1>3, <2>1, <2>2 DEF Holds
<1>13. Root["artifact"] \in AnyContent /\ jobs[p].draft \in Archive \cup {NoArchive}
  BY <1>3, <1>5, Contents, JobFits DEF File
<1>14. job \in Job /\ Holds(job)
  BY <1>1, <1>2, <1>5, <1>12, <1>13, Advanced
<1>15. job.op = jobs[p].op
  BY <1>3 DEF Job
<1>. HIDE DEF job
<1>. QED  BY <1>2, <1>9, <1>10, <1>11, <1>14, <1>15, WriteOwn

LEMMA apply_stateful_setFits ==
    ASSUME Types, NEW p \in Proc, apply_stateful_set(p)
    PROVE  Types' /\ \A q \in Proc \ {p} : Spared(q)
<1>1. Step(p)[1] = "apply_template" /\ "apply_template" \in StepName \ {"extract", "load", "apply", "archive"}
      /\ "apply" \in StepName
  BY DEF apply_stateful_set, StepName, DeployStepName
<1>2. target' = target /\ db' = db /\ archives' = archives /\ container' = container
      /\ settled' = settled /\ settled \in BOOLEAN /\ target \in Target /\ db \in Users
      /\ container \in Container /\ disk \in [Place -> Files] /\ rollout \in BOOLEAN
      /\ Root["config"] # Absent /\ Root["users"] # Absent
  BY DEF apply_stateful_set, Unchanged, Types, ContainerTypes, FileTypes
<1>3. /\ jobs[p] \in Job /\ Holds(jobs[p])
      /\ jobs[p].todo # <<>> /\ jobs[p].todo \in Seq(WorkStep) /\ Head(jobs[p].todo) = Step(p)
      /\ Consistent(jobs[p].todo) /\ Step(p)[1] \in StepNames(jobs[p].op) /\ Step(p) \in Pending(jobs[p].todo)
  BY <1>1, StepTaken DEF Types
<1>4. target \in Kubernetes /\ Home = "project"
  BY <1>1, <1>2, <1>3 DEF Holds, StepNames, Home, Kubernetes, Target
<1>5. jobs[p].loaded \in Rendering
  <2>1. Left(jobs[p].todo, "apply_template")
    BY <1>1, <1>3 DEF Left
  <2>2. ~Left(jobs[p].todo, "apply")
    BY <1>1, <1>3, PoppedConsistent
  <2>. QED  BY <1>3, <2>1, <2>2 DEF Holds
<1>6. /\ disk' = [disk EXCEPT !["server"] = [disk["server"] EXCEPT !["artifact"] = jobs[p].loaded]]
      /\ Advance(p, {}) /\ rollout' \in BOOLEAN
  BY <1>2, DiskFits DEF apply_stateful_set
<1>7. [disk["server"] EXCEPT !["artifact"] = jobs[p].loaded] \in Files
  <2>1. "artifact" \in File /\ jobs[p].loaded \in Content("artifact") /\ disk["server"] \in Files
    BY <1>2, <1>5, Contents, DiskFits DEF File, Place
  <2>. QED  BY <2>1, FilePut
<1>8. disk' \in [Place -> Files] /\ disk'["project"] = disk["project"] /\ disk'["server"]["artifact"] = jobs[p].loaded
  <2>1. disk["server"] \in [File -> AnyContent] /\ "artifact" \in File
    BY <1>2, DiskFits, FilesFit DEF File, Place
  <2>. QED  BY <1>2, <1>6, <1>7, <2>1 DEF Place
<1>9. Root' = Root /\ FileTypes'
  BY <1>2, <1>4, <1>8, SamePlaces DEF Root, FileTypes
<1>10. ContainerTypes'
  <2>1. ClusterFits'
    BY <1>2, <1>4, <1>5, <1>8 DEF ClusterFits
  <2>. QED  BY <1>2, <1>6, <2>1 DEF ContainerTypes, Container, AnyContent, Content
<1>. QED  BY <1>1, <1>2, <1>6, <1>9, <1>10, AdvanceAll

LEMMA rollout_restartFits ==
    ASSUME Types, NEW p \in Proc, rollout_restart(p)
    PROVE  Types' /\ \A q \in Proc \ {p} : Spared(q)
<1>1. Step(p)[1] = "restart" /\ "restart" \in StepName \ {"extract", "load", "apply", "archive"}
  BY DEF rollout_restart, StepName, DeployStepName
<1>2. target' = target /\ db' = db /\ archives' = archives /\ container' = container /\ disk' = disk
      /\ settled' = settled /\ settled \in BOOLEAN /\ target \in Target /\ rollout' = TRUE
      /\ container \in Container /\ Advance(p, {}) /\ disk["server"]["artifact"] # Absent
      /\ ClusterFits /\ disk \in [Place -> Files]
  BY DiskFits DEF rollout_restart, Unchanged, Types, ContainerTypes, FileTypes
<1>3. Holds(jobs[p]) /\ Step(p)[1] \in StepNames(jobs[p].op)
  BY <1>1, StepTaken DEF Types
<1>4. target \in Kubernetes
  BY <1>1, <1>2, <1>3 DEF Holds, StepNames, Kubernetes, Target
<1>5. Root' = Root /\ FileTypes'
  BY <1>2, FoldersSame, SamePlaces DEF Root
<1>6. ContainerTypes'
  <2>1. ClusterFits'
    BY <1>2, <1>4 DEF ClusterFits
  <2>. QED  BY <1>2, <2>1 DEF ContainerTypes, Container, AnyContent, Content
<1>. QED  BY <1>1, <1>2, <1>5, <1>6, AdvanceAll

LEMMA delete_config_mapFits ==
    ASSUME Types, NEW p \in Proc, delete_config_map(p)
    PROVE  Types' /\ \A q \in Proc \ {p} : Spared(q)
<1>1. Step(p)[1] = "delete_map" /\ "delete_map" \in StepName \ {"extract", "load", "apply", "archive"}
  BY DEF delete_config_map, StepName, DeployStepName
<1>2. target' = target /\ db' = db /\ archives' = archives /\ rollout' = rollout /\ settled' = FALSE
      /\ container' = container /\ target \in Target /\ db \in Users /\ disk \in [Place -> Files]
      /\ Root["config"] # Absent /\ Root["users"] # Absent
      /\ container \in Container /\ rollout \in BOOLEAN
  BY DEF delete_config_map, Unchanged, Types, FileTypes, ContainerTypes
<1>3. Holds(jobs[p]) /\ Step(p)[1] \in StepNames(jobs[p].op)
  BY <1>1, StepTaken DEF Types
<1>4. target \in Kubernetes /\ Home = "project"
  BY <1>1, <1>2, <1>3 DEF Holds, StepNames, Home, Kubernetes, Target
<1>. DEFINE files == [disk["server"] EXCEPT !["config"] = Absent, !["users"] = Absent]
<1>5. files \in Files /\ files["artifact"] = disk["server"]["artifact"]
  <2>1. "config" \in File /\ "users" \in File /\ "artifact" \in File /\ \A f \in File : Absent \in Content(f)
    BY Contents DEF File
  <2>2. disk["server"] \in [File -> AnyContent] /\ \A f \in File : disk["server"][f] \in Content(f)
    BY <1>2, FilesFit DEF Place
  <2>3. Absent \in AnyContent
    BY <2>1, Contents
  <2>4. files \in [File -> AnyContent] /\ \A f \in File : files[f] \in Content(f)
    BY <2>1, <2>2, <2>3
  <2>. QED  BY <2>1, <2>2, <2>4, FilesFit
<1>6. disk' = [disk EXCEPT !["server"] = files]
  BY <1>2, DiskFits DEF delete_config_map
<1>. HIDE DEF files
<1>7. /\ disk' \in [Place -> Files] /\ disk'["project"] = disk["project"]
      /\ disk'["server"]["artifact"] = disk["server"]["artifact"]
  BY <1>2, <1>5, <1>6 DEF Place
<1>8. Root' = Root /\ FileTypes'
  BY <1>2, <1>4, <1>7, SamePlaces DEF Root, FileTypes
<1>9. ContainerTypes'
  <2>1. ClusterFits
    BY DEF Types, ContainerTypes
  <2>2. ClusterFits'
    BY <1>2, <1>7, <2>1 DEF ClusterFits
  <2>. QED  BY <1>2, <2>2 DEF ContainerTypes
<1>10. Advance(p, {"deleted"}) /\ {"deleted"} \in SUBSET Change
  BY DEF delete_config_map, Change
<1>. QED  BY <1>1, <1>2, <1>8, <1>9, <1>10, AdvanceAll

LEMMA delete_resourcesFits ==
    ASSUME Types, NEW p \in Proc, delete_resources(p)
    PROVE  Types' /\ \A q \in Proc \ {p} : Spared(q)
<1>1. Step(p)[1] = "delete" /\ "delete" \in StepName \ {"extract", "load", "apply", "archive"}
  BY DEF delete_resources, StepName, DeployStepName
<1>2. target' = target /\ db' = db /\ archives' = archives /\ rollout' = FALSE /\ settled' = FALSE
      /\ target \in Target /\ db \in Users /\ disk \in [Place -> Files]
      /\ Root["config"] # Absent /\ Root["users"] # Absent
      /\ container' = [template |-> NotMade, held |-> [f \in Mounted |-> Attached]]
  BY DEF delete_resources, Unchanged, Types, FileTypes
<1>3. Holds(jobs[p]) /\ Step(p)[1] \in StepNames(jobs[p].op)
  BY <1>1, StepTaken DEF Types
<1>4. target \in Kubernetes /\ Home = "project"
  BY <1>1, <1>2, <1>3 DEF Holds, StepNames, Home, Kubernetes, Target
<1>5. [f \in File |-> Absent] \in Files /\ "artifact" \in File
  BY FilesFit, Contents DEF File
<1>6. /\ disk' \in [Place -> Files] /\ disk'["project"] = disk["project"] /\ disk'["server"]["artifact"] = Absent
  BY <1>2, <1>5 DEF delete_resources, Place
<1>7. Root' = Root /\ FileTypes'
  BY <1>2, <1>4, <1>6, SamePlaces DEF Root, FileTypes
<1>8. ContainerTypes'
  <2>1. container' \in Container
    BY <1>2, ContainerMade
  <2>2. ClusterFits'
    BY <1>2, <1>4, <1>6 DEF ClusterFits
  <2>. QED  BY <1>2, <2>1, <2>2 DEF ContainerTypes, Container, AnyContent, Content
<1>9. Advance(p, {"deleted"}) /\ {"deleted"} \in SUBSET Change
  BY DEF delete_resources, Advance, Change
<1>. QED  BY <1>1, <1>2, <1>7, <1>8, <1>9, AdvanceAll

LEMMA IdleFits == Idle \in Job /\ Holds(Idle) /\ Idle.op = "none"
<1>1. Absent \in AnyContent
  BY Contents DEF File
<1>2. /\ Idle.op = "none" /\ Idle.flag = FALSE /\ Idle.todo = <<>> /\ Idle.loaded = Absent
      /\ Idle.source = NoArchive /\ Idle.draft = NoArchive /\ Idle.edited = {} /\ Idle.before = Absent
  BY DEF Idle
<1>3. Idle \in Job
  BY <1>1, Nothing DEF Idle, Job, Operation
<1>4. Consistent(<<>>) /\ \A n : ~Left(<<>>, n)
  BY Nothing DEF Consistent, Left
<1>5. Holds(Idle)
  BY <1>2, <1>4, Nothing DEF Holds
<1>. QED  BY <1>2, <1>3, <1>5

(* A command ends, well or not: the others get to know what it has missed. *)
LEMMA Ended ==
    ASSUME Types, NEW p \in Proc, jobs' = Noted([jobs EXCEPT ![p] = Idle], p, jobs[p].edited),
           UNCHANGED <<target, disk, db, container, rollout, archives>>, settled' \in BOOLEAN
    PROVE  Types' /\ (\A q \in Proc \ {p} : Spared(q)) /\ jobs'[p] = Idle
<1>1. jobs[p] \in Job /\ jobs[p].edited \in SUBSET Change
  BY JobFits DEF Types, JobTypes
<1>2. FileTypes' /\ ContainerTypes' /\ Root' = Root
  BY NothingWritten
<1>3. Idle.op = "undo" => jobs[p].op = "undo"
  BY DEF Idle
<1>4. target' = target /\ db' = db /\ archives' = archives /\ \A f \in File : Root'[f] = Root[f]
  BY <1>2
<1>. DEFINE job == Idle
<1>5. job \in Job /\ Holds(job) /\ (job.op = "undo" => jobs[p].op = "undo")
      /\ jobs' = Noted([jobs EXCEPT ![p] = job], p, jobs[p].edited)
  BY <1>3, IdleFits
<1>. HIDE DEF job
<1>6. Types' /\ (\A q \in Proc \ {p} : Spared(q)) /\ jobs'[p] = job
  BY <1>1, <1>2, <1>4, <1>5, WriteAll
<1>. QED  BY <1>6 DEF job

LEMMA FinishFits ==
    ASSUME Types, NEW p \in Proc, Finish(p)
    PROVE  Types' /\ (\A q \in Proc \ {p} : Spared(q)) /\ jobs'[p] = Idle
<1>1. settled' \in BOOLEAN
  BY DEF Finish, Types, ContainerTypes
<1>. QED  BY <1>1, Ended DEF Finish

LEMMA EndFits ==
    ASSUME Types, NEW p \in Proc, End(p)
    PROVE  Types' /\ (\A q \in Proc \ {p} : Spared(q)) /\ jobs'[p] = Idle
<1>1. settled' \in BOOLEAN
  BY DEF End, Types, ContainerTypes
<1>. QED  BY <1>1, Ended DEF End

LEMMA AtBackupStep ==
    ASSUME Types, NEW p \in Proc, Step(p)[1] \in BackupStepName
    PROVE  /\ jobs[p] \in Job /\ Holds(jobs[p]) /\ Step(p) \in WorkStep /\ Step(p)[1] \in StepName
           /\ jobs[p].todo # <<>> /\ jobs[p].todo \in Seq(WorkStep) /\ Head(jobs[p].todo) = Step(p)
           /\ Consistent(jobs[p].todo) /\ Step(p)[1] \in StepNames(jobs[p].op) /\ Step(p) \in Pending(jobs[p].todo)
           /\ jobs[p].op \in {"backup", "restore", "undo"}
           /\ Step(p)[1] \in {"extract", "rmtree", "copy", "upload", "users"} => jobs[p].op \in {"restore", "undo"}
           /\ Step(p)[1] = "upload" => target = "remote_only"
           /\ Step(p)[1] \in {"rmtree", "copy", "users"} => target # "remote_only"
           /\ \A n \in {"render", "apply_template"} : ~Left(Tail(jobs[p].todo), n)
           /\ Step(p)[1] \in {"rmtree", "copy", "upload", "users"} => jobs[p].source \in Archive
           /\ Step(p)[1] \in {"copy", "upload"} => Step(p)[2] \in Entries(jobs[p])
<1>1. Step(p)[1] \in StepName
  BY DEF StepName
<1>2. /\ jobs[p] \in Job /\ Holds(jobs[p]) /\ Step(p) \in WorkStep
      /\ jobs[p].todo # <<>> /\ jobs[p].todo \in Seq(WorkStep) /\ Head(jobs[p].todo) = Step(p)
      /\ Consistent(jobs[p].todo) /\ Step(p)[1] \in StepNames(jobs[p].op) /\ Step(p) \in Pending(jobs[p].todo)
  BY <1>1, StepTaken DEF Types
<1>3. target \in Target
  BY DEF Types, FileTypes
<1>4. jobs[p].op \in {"backup", "restore", "undo"}
  BY <1>2, <1>3 DEF StepNames, BackupStepName, Target
<1>5. /\ Step(p)[1] \in {"extract", "rmtree", "copy", "upload", "users"} => jobs[p].op \in {"restore", "undo"}
      /\ Step(p)[1] = "upload" => target = "remote_only"
      /\ Step(p)[1] \in {"rmtree", "copy", "users"} => target # "remote_only"
  BY <1>2, <1>4 DEF StepNames
<1>6. \A s \in Pending(Tail(jobs[p].todo)) : s \in Pending(jobs[p].todo)
  BY <1>2, PoppedConsistent
<1>7. \A n \in {"render", "apply_template"} : ~Left(Tail(jobs[p].todo), n)
  <2>1. {"render", "apply_template"} \cap StepNames(jobs[p].op) = {}
    BY <1>4 DEF StepNames
  <2>2. \A s \in Pending(jobs[p].todo) : s[1] \in StepNames(jobs[p].op)
    BY <1>2 DEF Holds
  <2>. QED  BY <1>6, <2>1, <2>2 DEF Left
<1>8. Step(p)[1] \in {"rmtree", "copy", "upload", "users"} => jobs[p].source \in Archive
  BY <1>2, <1>5, PoppedConsistent DEF Holds
<1>9. Step(p)[1] \in {"copy", "upload"} => Step(p)[2] \in Entries(jobs[p])
  BY <1>2, <1>5 DEF Holds
<1>. QED  BY <1>1, <1>2, <1>4, <1>5, <1>7, <1>8, <1>9

LEMMA ArchiveFits ==
    ASSUME NEW archive \in Archive
    PROVE  /\ archive.files \in Files /\ archive.users \in Users \cup {Unread}
           /\ \A f \in File : archive.files[f] \in Content(f) /\ archive.files[f] \in AnyContent
BY FilesFit DEF Archive

LEMMA TakenFits ==
    ASSUME NEW files \in Files, NEW entries
    PROVE  Taken(files, entries) \in Files
<1>1. \A f \in File : files[f] \in Content(f) /\ files[f] \in AnyContent /\ Absent \in Content(f) /\ Absent \in AnyContent
  BY FilesFit, Contents
<1>. QED  BY <1>1, FilesFit DEF Taken

LEMMA add_filesFits ==
    ASSUME Types, NEW p \in Proc, NEW entries, add_files(p, entries)
    PROVE  /\ Types' /\ (\A q \in Proc \ {p} : Spared(q))
           /\ jobs'[p] = [jobs[p] EXCEPT !.todo = Tail(@), !.loaded = Root["config"],
                            !.draft = [files |-> Taken(Root, entries), users |-> Unread]]
<1>1. Step(p)[1] = "archive" /\ "archive" \in BackupStepName /\ "archive" \in StepName \ {"extract"}
  BY DEF add_files, StepName, BackupStepName
<1>2. target' = target /\ db' = db /\ archives' = archives /\ container' = container /\ rollout' = rollout
      /\ settled' = settled /\ settled \in BOOLEAN /\ disk' = disk /\ JobTypes
      /\ disk \in [Place -> Files] /\ target \in Target
  BY DEF add_files, Unchanged, Types, ContainerTypes, FileTypes
<1>3. FileTypes' /\ ContainerTypes' /\ Root' = Root
  BY <1>2, NothingWritten
<1>. DEFINE draft == [files |-> Taken(Root, entries), users |-> Unread]
            job == [jobs[p] EXCEPT !.todo = Tail(@), !.loaded = Root["config"], !.draft = draft]
<1>4. jobs[p] \in Job /\ \A n \in {"render", "apply_template"} : ~Left(Tail(jobs[p].todo), n)
  BY <1>1, AtBackupStep
<1>5. jobs' = [jobs EXCEPT ![p] = job]
  BY <1>4 DEF add_files, Job
<1>6. Root["config"] \in AnyContent /\ draft \in Archive
  BY <1>2, DiskFits, TakenFits DEF File, Archive
<1>7. job.op = jobs[p].op
  BY <1>4 DEF Job
<1>. HIDE DEF draft
<1>8. job \in Job /\ Holds(job)
  BY <1>1, <1>2, <1>4, <1>6, Advanced
<1>. HIDE DEF job
<1>9. Types' /\ (\A q \in Proc \ {p} : Spared(q)) /\ jobs'[p] = job
  BY <1>2, <1>3, <1>5, <1>7, <1>8, WriteOwn
<1>. QED  BY <1>9 DEF job, draft

LEMMA KeptFits == Kept \notin Proc
BY ProcAssumption DEF Kept

LEMMA ReadUsersFits ==
    ASSUME Types, NEW p \in Proc
    PROVE  ReadUsers(p) \subseteq Users \cup {Unread}
BY DEF ReadUsers, Types, FileTypes

LEMMA add_usersFits ==
    ASSUME Types, NEW p \in Proc, add_users(p)
    PROVE  /\ Types' /\ (\A q \in Proc \ {p} : Spared(q))
           /\ jobs'[p] = [jobs[p] EXCEPT !.todo = Tail(@)]
           /\ \E users \in ReadUsers(p) :
                /\ [jobs[p].draft EXCEPT !.users = users] \in Archive
                /\ archives' = [archives EXCEPT ![IF jobs[p].op = "backup" THEN Kept ELSE p] =
                                  [jobs[p].draft EXCEPT !.users = users]]
                /\ jobs[p].op # "backup" => archives'[p] = [jobs[p].draft EXCEPT !.users = users]
<1>1. Step(p)[1] = "snapshot" /\ "snapshot" \in BackupStepName
      /\ "snapshot" \in StepName \ {"extract", "load", "apply", "archive"} /\ "archive" \in StepName
  BY DEF add_users, StepName, BackupStepName
<1>2. target' = target /\ db' = db /\ container' = container /\ rollout' = rollout
      /\ settled' = settled /\ settled \in BOOLEAN /\ disk' = disk /\ JobTypes
      /\ archives \in [Proc \cup {Kept} -> Archive \cup {NoArchive}] /\ archives[Kept] \in Archive
      /\ \A q \in Proc : jobs[q].op = "undo" => archives[q] \in Archive
  BY DEF add_users, Types, ContainerTypes, ArchiveTypes
<1>3. FileTypes' /\ ContainerTypes' /\ Root' = Root
  BY <1>2, NothingWritten
<1>4. /\ jobs[p] \in Job /\ Holds(jobs[p])
      /\ jobs[p].todo # <<>> /\ jobs[p].todo \in Seq(WorkStep) /\ Head(jobs[p].todo) = Step(p)
      /\ Consistent(jobs[p].todo) /\ Step(p) \in Pending(jobs[p].todo)
  BY <1>1, AtBackupStep
<1>5. jobs[p].draft \in Archive
  <2>1. Left(jobs[p].todo, "snapshot")
    BY <1>1, <1>4 DEF Left
  <2>2. ~Left(jobs[p].todo, "archive")
    BY <1>1, <1>4, PoppedConsistent
  <2>. QED  BY <1>4, <2>1, <2>2 DEF Holds
<1>6. PICK users \in ReadUsers(p) :
        archives' = [archives EXCEPT ![IF jobs[p].op = "backup" THEN Kept ELSE p] =
                       [jobs[p].draft EXCEPT !.users = users]]
  BY DEF add_users
<1>. DEFINE archive == [jobs[p].draft EXCEPT !.users = users]
<1>7. archive \in Archive
  BY <1>5, <1>6, ReadUsersFits DEF Archive
<1>. HIDE DEF archive
<1>8. archives' = [archives EXCEPT ![IF jobs[p].op = "backup" THEN Kept ELSE p] = archive]
  BY <1>6 DEF archive
<1>9. /\ archives' \in [Proc \cup {Kept} -> Archive \cup {NoArchive}] /\ archives'[Kept] \in Archive
      /\ \A q \in Proc : archives'[q] = archives[q] \/ archives'[q] = archive
      /\ \A q \in Proc \ {p} : archives'[q] = archives[q]
      /\ jobs[p].op # "backup" => archives'[p] = archive
  BY <1>2, <1>7, <1>8, KeptFits
<1>10. jobs' = [jobs EXCEPT ![p].todo = Tail(@)]
  BY DEF add_users
<1>. DEFINE job == [jobs[p] EXCEPT !.todo = Tail(@), !.loaded = jobs[p].loaded, !.draft = jobs[p].draft]
<1>11. jobs' = [jobs EXCEPT ![p] = job] /\ job.op = jobs[p].op /\ job = [jobs[p] EXCEPT !.todo = Tail(@)]
  BY <1>4, <1>10 DEF Job
<1>12. \A n \in {"render", "apply_template"} : ~Left(Tail(jobs[p].todo), n)
  BY <1>1, AtBackupStep
<1>13. job \in Job /\ Holds(job)
  BY <1>1, <1>2, <1>4, <1>5, <1>12, JobFits, Advanced
<1>. HIDE DEF job
<1>14. jobs' \in [Proc -> Job] /\ jobs'[p] = job /\ \A q \in Proc \ {p} : jobs'[q] = jobs[q]
  BY <1>2, <1>11, <1>13 DEF JobTypes
<1>15. JobTypes'
  BY <1>2, <1>13, <1>14, JobTypesNext DEF JobTypes
<1>16. \A q \in Proc \ {p} : Spared(q)
  BY <1>2, <1>3, <1>9, <1>14, SparedBySame
<1>17. ArchiveTypes'
  <2>1. \A q \in Proc : jobs'[q].op = "undo" => jobs[q].op = "undo"
    BY <1>11, <1>14
  <2>2. \A q \in Proc : jobs'[q].op = "undo" => archives'[q] \in Archive
    BY <1>2, <1>7, <1>9, <2>1
  <2>. QED  BY <1>9, <2>2 DEF ArchiveTypes
<1>18. Types'
  BY <1>3, <1>15, <1>17 DEF Types
<1>. QED  BY <1>6, <1>7, <1>9, <1>11, <1>14, <1>16, <1>18 DEF archive

LEMMA extractFits ==
    ASSUME Types, NEW p \in Proc, extract(p)
    PROVE  LET source == archives[IF jobs[p].op = "undo" THEN p ELSE Kept]
               entries == RestoredEntries(source.files, jobs[p].flag)
               todo == Do(<<"archive", "snapshot">>) \o
                         (IF target = "remote_only" THEN uploading(entries)
                          ELSE overwriting(entries) \o Do(<<"users">>)) \o Do(<<"done">>)
           IN  /\ Types' /\ (\A q \in Proc \ {p} : Spared(q))
               /\ jobs'[p] = [jobs[p] EXCEPT !.source = source, !.todo = todo]
               /\ source \in Archive
<1>. DEFINE source == archives[IF jobs[p].op = "undo" THEN p ELSE Kept]
            entries == RestoredEntries(source.files, jobs[p].flag)
            todo == Do(<<"archive", "snapshot">>) \o
                      (IF target = "remote_only" THEN uploading(entries)
                       ELSE overwriting(entries) \o Do(<<"users">>)) \o Do(<<"done">>)
            job == [jobs[p] EXCEPT !.source = source, !.todo = todo]
<1>1. Step(p)[1] = "extract" /\ "extract" \in BackupStepName
  BY DEF extract, BackupStepName
<1>2. target' = target /\ db' = db /\ archives' = archives /\ container' = container /\ rollout' = rollout
      /\ settled' = settled /\ settled \in BOOLEAN /\ disk' = disk /\ jobs' = [jobs EXCEPT ![p] = job]
  BY DEF extract, Unchanged, Types, ContainerTypes
<1>3. FileTypes' /\ ContainerTypes' /\ Root' = Root
  BY <1>2, NothingWritten
<1>4. jobs[p] \in Job /\ Holds(jobs[p]) /\ jobs[p].op \in {"restore", "undo"}
  BY <1>1, AtBackupStep
<1>5. source \in Archive
  BY DEF Types, ArchiveTypes
<1>6. entries \in SUBSET File
  BY DEF RestoredEntries
<1>. HIDE DEF source, entries
<1>7. /\ todo \in Seq(WorkStep) /\ Consistent(todo)
      /\ \A s \in Pending(todo) : s[1] \in StepNames("restore") \ {"extract"}
      /\ Left(todo, "archive") /\ Left(todo, "snapshot")
      /\ \A s \in Pending(todo) : s[1] \in {"copy", "upload"} => s[2] \in entries
  BY <1>6, RestoreCommands
<1>. HIDE DEF todo
<1>8. /\ job \in Job /\ job.op = jobs[p].op /\ job.flag = jobs[p].flag /\ job.todo = todo
      /\ job.source = source /\ job.before = jobs[p].before
  BY <1>4, <1>5, <1>7 DEF Job
<1>9. Entries(job) = entries
  BY <1>8 DEF Entries, entries
<1>10. Holds(job)
  <2>1. ~Left(todo, "render") /\ ~Left(todo, "apply_template")
    BY <1>7 DEF Left, StepNames
  <2>2. StepNames("restore") = StepNames(jobs[p].op)
    BY <1>4 DEF StepNames
  <2>3. jobs[p].before \in Before
    BY <1>4 DEF Holds
  <2>. HIDE DEF job
  <2>. QED  BY <1>4, <1>5, <1>7, <1>8, <1>9, <2>1, <2>2, <2>3 DEF Holds
<1>. HIDE DEF job
<1>11. Types' /\ (\A q \in Proc \ {p} : Spared(q)) /\ jobs'[p] = job
  BY <1>2, <1>3, <1>8, <1>10, WriteOwn
<1>. QED  BY <1>5, <1>11 DEF job, todo, entries, source

LEMMA remove_treeFits ==
    ASSUME Types, NEW p \in Proc, remove_tree(p)
    PROVE  /\ Types' /\ (\A q \in Proc \ {p} : Spared(q))
           /\ jobs'[p] = [jobs[p] EXCEPT !.todo = Tail(@)]
           /\ \A f \in File : f # Step(p)[2] => Root'[f] = Root[f]
<1>. DEFINE f == Step(p)[2]
<1>1. Step(p)[1] = "rmtree" /\ "rmtree" \in BackupStepName
      /\ "rmtree" \in StepName \ {"extract", "load", "apply", "archive"}
  BY DEF remove_tree, StepName, BackupStepName
<1>2. target' = target /\ db' = db /\ archives' = archives /\ rollout' = rollout
      /\ settled' \in BOOLEAN /\ target \in Target /\ db' \in Users
      /\ container \in Container /\ disk \in [Place -> Files]
  BY DEF remove_tree, Unchanged, Types, ContainerTypes, FileTypes
<1>3. f \in Directory /\ f \in File /\ f \in Mounted /\ f \notin {"config", "users", "artifact"}
  <2>1. f \in Directory
    BY <1>1, AtBackupStep DEF Consistent
  <2>. HIDE DEF f
  <2>. QED  BY <2>1 DEF Directory, File, Mounted
<1>4. Home \in Place /\ Absent \in Content(f)
  BY <1>2, <1>3, DiskFits, Contents
<1>5. disk' = [disk EXCEPT ![Home][f] = Absent] /\ container' = Detached(Home, f) /\ Advance(p, {f, "restored"})
  BY DEF remove_tree
<1>6. container' \in Container /\ container'.template = container.template
  BY <1>2, <1>3, <1>4, <1>5, DetachedFits
<1>7. {f, "restored"} \in SUBSET Change
  BY <1>3 DEF Change
<1>. HIDE DEF f
<1>8. FileTypes' /\ ContainerTypes' /\ \A g \in File : g # f => Root'[g] = Root[g]
  BY <1>2, <1>3, <1>4, <1>5, <1>6, FileWritten
<1>9. Types' /\ (\A q \in Proc \ {p} : Spared(q)) /\ jobs'[p] = [jobs[p] EXCEPT !.todo = Tail(@)]
  BY <1>1, <1>2, <1>5, <1>7, <1>8, AdvanceAll
<1>. QED  BY <1>8, <1>9 DEF f

LEMMA copy_entryFits ==
    ASSUME Types, NEW p \in Proc, copy_entry(p)
    PROVE  /\ Types' /\ (\A q \in Proc \ {p} : Spared(q))
           /\ jobs'[p] = [jobs[p] EXCEPT !.todo = Tail(@)]
           /\ \A f \in File : f # Step(p)[2] => Root'[f] = Root[f]
           /\ Step(p)[2] \in File => Root'[Step(p)[2]] = jobs[p].source.files[Step(p)[2]]
<1>. DEFINE f == Step(p)[2]
<1>1. Step(p)[1] = "copy" /\ "copy" \in BackupStepName
      /\ "copy" \in StepName \ {"extract", "load", "apply", "archive"}
  BY DEF copy_entry, StepName, BackupStepName
<1>2. target' = target /\ db' = db /\ archives' = archives /\ rollout' = rollout /\ container' = container
      /\ settled' \in BOOLEAN /\ target \in Target /\ db' \in Users
      /\ container \in Container /\ disk \in [Place -> Files]
  BY DEF copy_entry, Unchanged, Types, ContainerTypes, FileTypes
<1>3. f \in Entries(jobs[p]) /\ jobs[p].source \in Archive /\ target # "remote_only"
  BY <1>1, AtBackupStep
<1>4. f \in File /\ jobs[p].source.files[f] # Absent
  BY <1>3 DEF Entries, RestoredEntries
<1>5. Home \in Place /\ Home = "project" /\ jobs[p].source.files[f] \in Content(f)
  BY <1>2, <1>3, <1>4, DiskFits, ArchiveFits DEF Home
<1>6. disk' = [disk EXCEPT ![Home][f] = jobs[p].source.files[f]] /\ Advance(p, {f, "restored"})
  BY DEF copy_entry
<1>7. {f, "restored"} \in SUBSET Change
  BY <1>4 DEF Change
<1>. HIDE DEF f
<1>8. /\ FileTypes' /\ ContainerTypes'
      /\ \A g \in File : Root'[g] = IF Home = Home /\ g = f THEN jobs[p].source.files[f] ELSE Root[g]
  BY <1>2, <1>4, <1>5, <1>6, FileWritten
<1>9. Types' /\ (\A q \in Proc \ {p} : Spared(q)) /\ jobs'[p] = [jobs[p] EXCEPT !.todo = Tail(@)]
  BY <1>1, <1>2, <1>6, <1>7, <1>8, AdvanceAll
<1>. QED  BY <1>8, <1>9 DEF f

LEMMA CopyTornFits ==
    ASSUME Types, NEW p \in Proc, CopyTorn(p)
    PROVE  Types' /\ (\A q \in Proc \ {p} : Spared(q)) /\ jobs'[p] = Idle
<1>. DEFINE f == Step(p)[2]
<1>1. Step(p)[1] = "copy" /\ "copy" \in BackupStepName /\ f \notin Directory
  BY DEF CopyTorn, BackupStepName
<1>2. target' = target /\ db' = db /\ archives' = archives /\ rollout' = rollout /\ container' = container
      /\ settled' \in BOOLEAN /\ target \in Target /\ db' \in Users
      /\ container \in Container /\ disk \in [Place -> Files]
  BY DEF CopyTorn, Types, ContainerTypes, FileTypes
<1>3. f \in Entries(jobs[p]) /\ target # "remote_only" /\ jobs[p] \in Job
  BY <1>1, AtBackupStep
<1>4. f \in File /\ f \in {"config", "users", "artifact"}
  <2>1. f \in File
    BY <1>3 DEF Entries, RestoredEntries
  <2>. HIDE DEF f
  <2>. QED  BY <1>1, <2>1 DEF Directory, File
<1>5. Home \in Place /\ Home = "project"
  BY <1>2, <1>3, DiskFits DEF Home
<1>6. PICK rest \in (IF f = "users" THEN {Torn, 0} ELSE {Torn}) : disk' = [disk EXCEPT ![Home][f] = rest]
  BY DEF CopyTorn
<1>. HIDE DEF f
<1>7. rest \in Content(f) /\ rest # Absent
  BY <1>4, <1>6, Contents, AbsentAssumption DEF Users
<1>8. FileTypes' /\ ContainerTypes' /\ \A g \in File : g # f => Root'[g] = Root[g]
  BY <1>2, <1>4, <1>5, <1>6, <1>7, FileWritten
<1>. DEFINE changed == jobs[p].edited \cup {f, "restored"}
            job == Idle
<1>9. changed \in SUBSET Change /\ f \in changed
  BY <1>3, <1>4, JobFits DEF Change
<1>10. jobs' = Noted([jobs EXCEPT ![p] = job], p, changed)
  BY DEF CopyTorn, f
<1>11. job \in Job /\ Holds(job) /\ (job.op = "undo" => jobs[p].op = "undo")
  BY IdleFits
<1>. HIDE DEF job, changed
<1>a. \A g \in File : Root'[g] # Root[g] => g \in changed
  BY <1>8, <1>9
<1>b. target' = target /\ archives' = archives /\ db' = db /\ FileTypes' /\ ContainerTypes'
  BY <1>2, <1>8
<1>12. Types' /\ (\A q \in Proc \ {p} : Spared(q)) /\ jobs'[p] = job
  BY <1>9, <1>10, <1>11, <1>a, <1>b, WriteAll
<1>. QED  BY <1>12 DEF job

LEMMA upload_entryFits ==
    ASSUME Types, NEW p \in Proc, upload_entry(p)
    PROVE  /\ Types' /\ (\A q \in Proc \ {p} : Spared(q))
           /\ jobs'[p] = [jobs[p] EXCEPT !.todo = Tail(@)]
           /\ \A f \in File : f # Step(p)[2] => Root'[f] = Root[f]
           /\ Step(p)[2] \in File => Root'[Step(p)[2]] = jobs[p].source.files[Step(p)[2]]
<1>. DEFINE f == Step(p)[2]
<1>1. Step(p)[1] = "upload" /\ "upload" \in BackupStepName
      /\ "upload" \in StepName \ {"extract", "load", "apply", "archive"}
  BY DEF upload_entry, StepName, BackupStepName
<1>2. target' = target /\ db' = db /\ archives' = archives /\ rollout' = rollout
      /\ settled' \in BOOLEAN /\ target \in Target /\ db' \in Users
      /\ container \in Container /\ disk \in [Place -> Files]
  BY DEF upload_entry, Unchanged, Types, ContainerTypes, FileTypes
<1>3. f \in Entries(jobs[p]) /\ jobs[p].source \in Archive /\ target = "remote_only"
  BY <1>1, AtBackupStep
<1>4. f \in File /\ jobs[p].source.files[f] # Absent
  BY <1>3 DEF Entries, RestoredEntries
<1>5. Home \in Place /\ Home = "server" /\ jobs[p].source.files[f] \in Content(f) /\ target \notin Kubernetes
  BY <1>2, <1>3, <1>4, DiskFits, ArchiveFits DEF Home, Kubernetes
<1>6. Advance(p, {f, "restored"}) /\ {f, "restored"} \in SUBSET Change
  BY <1>4 DEF Change, upload_entry
<1>7. /\ FileTypes' /\ ContainerTypes' /\ \A g \in File : g # f => Root'[g] = Root[g]
      /\ Root'[f] = jobs[p].source.files[f]
  <2>1. /\ disk' = [disk EXCEPT !["server"][f] = jobs[p].source.files[f]]
        /\ container' = IF f \in Mounted \ Directory THEN Detached("server", f) ELSE container
    BY DEF upload_entry
  <2>2. container' \in Container /\ container'.template = container.template
    BY <1>2, <1>5, <2>1, DetachedFits
  <2>. HIDE DEF f
  <2>3. "server" \in Place /\ db' \in Users
    BY <1>2 DEF Place
  <2>4. /\ FileTypes' /\ ContainerTypes'
        /\ \A g \in File : Root'[g] = IF "server" = Home /\ g = f THEN jobs[p].source.files[f] ELSE Root[g]
    BY <1>2, <1>4, <1>5, <2>1, <2>2, <2>3, FileWritten
  <2>. QED  BY <1>4, <1>5, <2>4
<1>. HIDE DEF f
<1>8. Types' /\ (\A q \in Proc \ {p} : Spared(q)) /\ jobs'[p] = [jobs[p] EXCEPT !.todo = Tail(@)]
  BY <1>1, <1>2, <1>6, <1>7, AdvanceAll
<1>. QED  BY <1>7, <1>8 DEF f

LEMMA restore_usersFits ==
    ASSUME Types, NEW p \in Proc, restore_users(p)
    PROVE  /\ Types' /\ (\A q \in Proc \ {p} : Spared(q))
           /\ jobs'[p] = [jobs[p] EXCEPT !.todo = Tail(@)]
           /\ Root' = Root
           /\ db' = IF jobs[p].source.users # Unread /\ Root["config"].provider = "db"
                    THEN jobs[p].source.users ELSE db
<1>1. Step(p)[1] = "users" /\ "users" \in BackupStepName
      /\ "users" \in StepName \ {"extract", "load", "apply", "archive"}
  BY DEF restore_users, StepName, BackupStepName
<1>2. target' = target /\ archives' = archives /\ rollout' = rollout /\ container' = container /\ disk' = disk
      /\ settled' = settled /\ settled \in BOOLEAN /\ target \in Target /\ db \in Users
      /\ container \in Container /\ disk \in [Place -> Files] /\ Root["config"] # Absent /\ Root["users"] # Absent
      /\ rollout \in BOOLEAN
  BY DEF restore_users, Types, ContainerTypes, FileTypes
<1>3. jobs[p].source \in Archive
  BY <1>1, AtBackupStep
<1>. DEFINE write == jobs[p].source.users # Unread /\ Root["config"].provider = "db"
<1>4. db' = (IF write THEN jobs[p].source.users ELSE db) /\ Advance(p, IF write THEN {"db"} ELSE {})
  BY <1>2 DEF restore_users
<1>5. db' \in Users
  BY <1>2, <1>3, <1>4, ArchiveFits
<1>6. FileTypes' /\ ContainerTypes' /\ Root' = Root
  <2>1. Root' = Root
    BY <1>2, SamePlaces DEF Root
  <2>2. FileTypes'
    BY <1>2, <1>5, <2>1 DEF FileTypes
  <2>3. ContainerTypes'
    BY <1>2 DEF Types, ContainerTypes, ClusterFits, Container
  <2>. QED  BY <2>1, <2>2, <2>3
<1>. DEFINE changed == IF write THEN {"db"} ELSE {}
<1>7. changed \in SUBSET Change /\ (db' # db => "db" \in changed) /\ Advance(p, changed)
  BY <1>4 DEF Change
<1>. HIDE DEF changed
<1>8. Types' /\ (\A q \in Proc \ {p} : Spared(q)) /\ jobs'[p] = [jobs[p] EXCEPT !.todo = Tail(@)]
  BY <1>1, <1>2, <1>6, <1>7, AdvanceAll
<1>. QED  BY <1>4, <1>6, <1>8

LEMMA BeginFits ==
    ASSUME Types, NEW p \in Proc, NEW request \in Requests, Begin(p, request)
    PROVE  /\ Types' /\ (\A q \in Proc \ {p} : Spared(q))
           /\ jobs[p] = Idle /\ jobs'[p].op = request[1] /\ jobs'[p].flag = request[2]
           /\ jobs'[p].todo = Steps(request[1]) /\ jobs'[p].edited = {}
           /\ request[1] \in {"restore", "undo"} => jobs'[p].before = [files |-> Root, db |-> db]
<1>. DEFINE before == IF request[1] \in {"restore", "undo"} THEN [files |-> Root, db |-> db] ELSE Absent
            job == [Idle EXCEPT !.op = request[1], !.flag = request[2], !.todo = Steps(request[1]), !.before = before]
<1>1. /\ request[1] \in {"deploy", "apply", "delete", "backup", "restore", "undo"} /\ request[2] \in BOOLEAN
      /\ request[1] \in {"apply", "delete"} => target \in Kubernetes
  BY RequestsAssumption DEF Begin
<1>2. target' = target /\ db' = db /\ archives' = archives /\ container' = container /\ rollout' = rollout
      /\ settled' = settled /\ settled \in BOOLEAN /\ disk' = disk /\ jobs' = [jobs EXCEPT ![p] = job]
      /\ target \in Target /\ disk \in [Place -> Files] /\ db \in Users /\ jobs[p].op = "none"
      /\ jobs \in [Proc -> Job] /\ \A q \in Proc : Holds(jobs[q])
  BY DEF Begin, Types, FileTypes, ContainerTypes, JobTypes
<1>3. FileTypes' /\ ContainerTypes' /\ Root' = Root
  BY <1>2, NothingWritten
<1>4. before \in Before \cup {Absent} /\ (request[1] \in {"restore", "undo"} => before \in Before)
  BY <1>2, DiskFits DEF Before
<1>5. /\ Steps(request[1]) \in Seq(WorkStep) /\ Consistent(Steps(request[1]))
      /\ \A s \in Pending(Steps(request[1])) : s[1] \in StepNames(request[1])
      /\ request[1] \in {"restore", "undo"} => Left(Steps(request[1]), "extract")
      /\ request[1] = "apply" => Left(Steps(request[1]), "apply")
      /\ Left(Steps(request[1]), "render") => Left(Steps(request[1]), "load")
      /\ Left(Steps(request[1]), "apply_template") => Left(Steps(request[1]), "apply")
      /\ Left(Steps(request[1]), "snapshot") => Left(Steps(request[1]), "archive")
      /\ \A s \in Pending(Steps(request[1])) : s[1] \notin {"copy", "upload"}
  BY <1>1, <1>2, StepsBegin
<1>. HIDE DEF before
<1>6. Idle \in Job /\ Idle.edited = {}
  BY IdleFits DEF Idle
<1>7. /\ job \in Job /\ job.op = request[1] /\ job.flag = request[2] /\ job.todo = Steps(request[1])
      /\ job.edited = {} /\ job.before = before
  BY <1>1, <1>4, <1>5, <1>6 DEF Job, Operation
<1>. HIDE DEF job
<1>8. Holds(job)
  BY <1>1, <1>4, <1>5, <1>7 DEF Holds
<1>9. jobs' \in [Proc -> Job] /\ jobs'[p] = job /\ \A q \in Proc \ {p} : jobs'[q] = jobs[q]
  BY <1>2, <1>7
<1>10. JobTypes'
  BY <1>2, <1>8, <1>9, JobTypesNext
<1>11. \A q \in Proc \ {p} : Spared(q)
  BY <1>2, <1>3, <1>9, SparedBySame
<1>12. ArchiveTypes'
  <2>1. request[1] = "undo" => archives[p] \in Archive
    BY DEF Begin, Types, ArchiveTypes
  <2>2. ArchiveTypes
    BY DEF Types
  <2>3. \A q \in Proc : jobs'[q].op = "undo" => archives[q] \in Archive
    BY <1>7, <1>9, <2>1, <2>2 DEF ArchiveTypes
  <2>. QED  BY <1>2, <2>2, <2>3 DEF ArchiveTypes
<1>13. jobs[p] = Idle
  BY <1>2 DEF Holds
<1>14. Types'
  BY <1>3, <1>10, <1>12 DEF Types
<1>15. request[1] \in {"restore", "undo"} => before = [files |-> Root, db |-> db]
  BY DEF before
<1>. QED  BY <1>7, <1>9, <1>11, <1>13, <1>14, <1>15

(* What nobody's command does *)
LEMMA NotedAll ==
    ASSUME Types, NEW changed \in SUBSET Change, jobs' = Noted(jobs, Nobody, changed),
           target' = target, archives' = archives, FileTypes', ContainerTypes',
           \A f \in File : Root'[f] # Root[f] => f \in changed, db' # db => "db" \in changed
    PROVE  Types' /\ \A q \in Proc : Spared(q)
<1>1. JobTypes
  BY DEF Types
<1>2. /\ JobTypes' /\ \A q \in Proc : jobs'[q].op = jobs[q].op
      /\ \A q \in Proc :
           \/ jobs'[q] = jobs[q] /\ jobs[q].op \in {"none", "backup"}
           \/ /\ jobs[q].op \notin {"none", "backup"}
              /\ jobs'[q] = [jobs[q] EXCEPT !.edited = @ \cup changed]
  BY <1>1, JobsNoted
<1>3. \A q \in Proc : Spared(q)
  BY <1>1, <1>2, SparedBy
<1>. QED  BY <1>2, <1>3, ArchivesSame DEF Types

LEMMA UnnotedAll ==
    ASSUME Types, jobs' = jobs, target' = target, archives' = archives, FileTypes', ContainerTypes',
           \A f \in File : Root'[f] = Root[f], db' = db
    PROVE  Types' /\ \A q \in Proc : Spared(q)
<1>1. JobTypes'
  BY DEF Types, JobTypes, Holds, StepNames
<1>2. \A q \in Proc : Spared(q)
  BY SparedBySame
<1>. QED  BY <1>1, <1>2, ArchivesSame DEF Types

LEMMA EditConfigFits ==
    ASSUME Types, NEW field, NEW value, EditConfig(field, value),
           \/ field \in {"shape", "tuning"} /\ value \in Version
           \/ field = "provider" /\ value \in {"file", "db"}
    PROVE  Types' /\ \A q \in Proc : Spared(q)
<1>1. target' = target /\ db' = db /\ archives' = archives /\ rollout' = rollout /\ container' = container
      /\ settled' \in BOOLEAN /\ target \in Target /\ db' \in Users
      /\ container \in Container /\ disk \in [Place -> Files] /\ Root["config"] \in Config
  BY DEF EditConfig, Types, ContainerTypes, FileTypes
<1>. DEFINE config == [Root["config"] EXCEPT ![field] = value]
<1>2. config \in Config
  BY <1>1 DEF Config
<1>3. config \in Content("config") /\ config # Absent /\ "config" \in File /\ Home \in Place
  BY <1>1, <1>2, Contents, AbsentAssumption, DiskFits DEF File
<1>4. disk' = [disk EXCEPT ![Home]["config"] = config]
  BY DEF EditConfig, Root
<1>5. jobs' = Noted(jobs, Nobody, {"config"}) /\ {"config"} \in SUBSET Change
  BY <1>3 DEF EditConfig, Change
<1>. HIDE DEF config
<1>6. FileTypes' /\ ContainerTypes' /\ \A g \in File : g # "config" => Root'[g] = Root[g]
  BY <1>1, <1>3, <1>4, FileWritten
<1>. QED  BY <1>1, <1>5, <1>6, NotedAll

LEMMA EditUsersFits ==
    ASSUME Types, NEW v \in Version, EditUsers(v)
    PROVE  Types' /\ \A q \in Proc : Spared(q)
<1>1. target' = target /\ archives' = archives /\ rollout' = rollout /\ container' = container
      /\ settled' \in BOOLEAN /\ settled \in BOOLEAN /\ target \in Target /\ v \in Users /\ db \in Users
      /\ container \in Container /\ disk \in [Place -> Files] /\ Root["config"] # Absent /\ Root["users"] # Absent
  BY DEF EditUsers, Types, ContainerTypes, FileTypes, Users
<1>2. CASE Root.config.provider = "db"
  <2>1. db' = v /\ jobs' = Noted(jobs, Nobody, {"db"}) /\ disk' = disk
    BY <1>2 DEF EditUsers
  <2>2. Root' = Root
    BY <1>1, <2>1, SamePlaces DEF Root
  <2>3. FileTypes'
    BY <1>1, <2>1, <2>2 DEF FileTypes
  <2>4. ContainerTypes'
    BY <1>1, <2>1 DEF Types, ContainerTypes, ClusterFits, Container
  <2>5. {"db"} \in SUBSET Change
    BY DEF Change
  <2>. QED  BY <1>1, <2>1, <2>2, <2>3, <2>4, <2>5, NotedAll
<1>3. CASE Root.config.provider # "db"
  <2>1. /\ disk' = [disk EXCEPT ![Home]["users"] = v] /\ jobs' = Noted(jobs, Nobody, {"users"})
        /\ db' = db /\ db' \in Users
    BY <1>1, <1>3 DEF EditUsers
  <2>2. v \in Content("users") /\ v # Absent /\ "users" \in File /\ Home \in Place /\ {"users"} \in SUBSET Change
    BY <1>1, Contents, AbsentAssumption, VersionAssumption, DiskFits DEF File, Change
  <2>3. FileTypes' /\ ContainerTypes' /\ \A g \in File : g # "users" => Root'[g] = Root[g]
    BY <1>1, <2>1, <2>2, FileWritten
  <2>. QED  BY <1>1, <2>1, <2>2, <2>3, NotedAll
<1>. QED  BY <1>2, <1>3

LEMMA WatcherSyncFits ==
    ASSUME Types, WatcherSync
    PROVE  Types' /\ \A q \in Proc : Spared(q)
<1>1. target' = target /\ db' = db /\ archives' = archives /\ rollout' = rollout /\ jobs' = jobs
      /\ settled' \in BOOLEAN /\ target \in Target /\ db' \in Users
      /\ container \in Container /\ disk \in [Place -> Files] /\ target = "synced"
      /\ container' = Detached("server", "users")
  BY DEF WatcherSync, Types, ContainerTypes, FileTypes
<1>2. "users" \in File /\ "users" \in Mounted /\ "server" \in Place /\ Home = "project" /\ target \notin Kubernetes
  BY <1>1 DEF File, Mounted, Place, Home, Kubernetes
<1>3. disk' = [disk EXCEPT !["server"]["users"] = Root["users"]] /\ Root["users"] \in Content("users")
  BY <1>1, <1>2, DiskFits DEF WatcherSync
<1>4. container' \in Container /\ container'.template = container.template
  BY <1>1, <1>2, DetachedFits
<1>5. /\ FileTypes' /\ ContainerTypes'
      /\ \A g \in File : Root'[g] = IF "server" = Home /\ g = "users" THEN Root["users"] ELSE Root[g]
  BY <1>1, <1>2, <1>3, <1>4, FileWritten
<1>. QED  BY <1>1, <1>2, <1>5, UnnotedAll

LEMMA refresh_contextFits ==
    ASSUME Types, refresh_context
    PROVE  Types' /\ \A q \in Proc : Spared(q)
<1>1. target' = target /\ db' = db /\ archives' = archives /\ rollout' = rollout
      /\ settled' = settled /\ settled' \in BOOLEAN /\ target \in Target /\ db' \in Users
      /\ container \in Container /\ disk \in [Place -> Files] /\ Seen \in Users
  BY DEF refresh_context, Types, ContainerTypes, FileTypes
<1>2. "state" \in File /\ "state" \in Mounted /\ Home \in Place /\ Host \in Place /\ Seen \in Content("state")
      /\ {"state"} \in SUBSET Change
  BY <1>1, DiskFits, Contents DEF File, Mounted, Change
<1>3. CASE container.held.state = Attached
  <2>1. /\ disk' = [disk EXCEPT ![Host]["state"] = Seen] /\ container' = container
        /\ jobs' = IF Home = Host THEN Noted(jobs, Nobody, {"state"}) ELSE jobs
    BY <1>3 DEF refresh_context
  <2>2. /\ FileTypes' /\ ContainerTypes'
        /\ \A g \in File : Root'[g] = IF Host = Home /\ g = "state" THEN Seen ELSE Root[g]
    BY <1>1, <1>2, <2>1, FileWritten
  <2>. QED  BY <1>1, <1>2, <2>1, <2>2, NotedAll, UnnotedAll
<1>4. CASE container.held.state # Attached
  <2>1. container' = [container EXCEPT !.held["state"] = Seen] /\ disk' = disk /\ jobs' = jobs
    BY <1>4 DEF refresh_context
  <2>2. container' \in Container /\ container'.template = container.template
    BY <1>1, <1>2, <2>1, HeldPut
  <2>3. FileTypes' /\ Root' = Root
    BY <1>1, <2>1, FoldersSame, SamePlaces DEF Root
  <2>4. ContainerTypes'
    BY <1>1, <2>1, <2>2 DEF Types, ContainerTypes, ClusterFits, Container, AnyContent, Content
  <2>. QED  BY <1>1, <2>1, <2>3, <2>4, UnnotedAll
<1>. QED  BY <1>3, <1>4

LEMMA UploadFits ==
    ASSUME Types, Upload
    PROVE  Types' /\ \A q \in Proc : Spared(q)
<1>1. target' = target /\ db' = db /\ archives' = archives /\ rollout' = rollout
      /\ settled' = settled /\ settled' \in BOOLEAN /\ target \in Target /\ db' \in Users
      /\ container \in Container /\ disk \in [Place -> Files] /\ View("data") \in Nat
  BY DEF Upload, Types, ContainerTypes, FileTypes
<1>2. "data" \in File /\ "data" \in Mounted /\ Home \in Place /\ Host \in Place /\ {"data"} \in SUBSET Change
  BY <1>1, DiskFits DEF File, Mounted, Change
<1>3. CASE container.held.data = Attached
  <2>1. /\ disk' = [disk EXCEPT ![Host]["data"] = @ + 1] /\ container' = container
        /\ jobs' = IF Home = Host THEN Noted(jobs, Nobody, {"data"}) ELSE jobs
    BY <1>3 DEF Upload
  <2>2. disk[Host]["data"] \in Nat
    BY <1>1, <1>3 DEF View
  <2>3. disk[Host]["data"] + 1 \in Content("data")
    BY <2>2, Contents
  <2>4. PICK v : v = disk[Host]["data"] + 1
    OBVIOUS
  <2>5. v \in Content("data")
    BY <2>3, <2>4
  <2>6. disk' = [disk EXCEPT ![Host]["data"] = v]
    BY <2>1, <2>4
  <2>7. container' \in Container /\ container'.template = container.template
    BY <1>1, <2>1
  <2>8. /\ FileTypes' /\ ContainerTypes'
        /\ \A g \in File : Root'[g] = IF Host = Home /\ g = "data" THEN v ELSE Root[g]
    BY <1>1, <1>2, <2>5, <2>6, <2>7, FileWritten
  <2>. QED  BY <1>1, <1>2, <2>1, <2>8, NotedAll, UnnotedAll
<1>4. CASE container.held.data # Attached
  <2>1. container' = [container EXCEPT !.held["data"] = @ + 1] /\ disk' = disk /\ jobs' = jobs
    BY <1>4 DEF Upload
  <2>2. container.held["data"] \in Nat
    BY <1>1, <1>4 DEF View
  <2>. DEFINE v == container.held["data"] + 1
  <2>3. v \in Content("data") /\ container' = [container EXCEPT !.held["data"] = v]
    BY <2>1, <2>2, Contents
  <2>. HIDE DEF v
  <2>4. container' \in Container /\ container'.template = container.template
    BY <1>1, <1>2, <2>3, HeldPut
  <2>5. FileTypes' /\ Root' = Root
    BY <1>1, <2>1, FoldersSame, SamePlaces DEF Root
  <2>6. ContainerTypes'
    BY <1>1, <2>1, <2>4 DEF Types, ContainerTypes, ClusterFits, Container, AnyContent, Content
  <2>. QED  BY <1>1, <2>1, <2>5, <2>6, UnnotedAll
<1>. QED  BY <1>3, <1>4

LEMMA PodFits ==
    ASSUME Types, PodStarts, target \in Kubernetes, disk["server"]["artifact"] \in Rendering
    PROVE  container' \in Container /\ disk' = [disk EXCEPT ![Host] = WithFolders(@)]
<1>1. container \in Container /\ disk \in [Place -> Files] /\ target \in Target
  BY DEF Types, ContainerTypes, FileTypes
<1>2. "server" \in Place /\ "config" \in File /\ "users" \in File /\ "users" \in Mounted /\ Host = "server"
  BY DEF Place, File, Mounted, Host, Kubernetes
<1>3. /\ disk["server"]["config"] \in Content("config") /\ disk["server"]["users"] \in Content("users")
      /\ disk["server"]["config"] \in AnyContent /\ disk["server"]["users"] \in AnyContent
      /\ disk["server"]["artifact"].template \in Template
  BY <1>1, <1>2, DiskFits DEF Rendering
<1>4. container.held["users"] \in Content("users") \cup {Attached}
      /\ container.held["users"] \in AnyContent \cup {Attached}
  BY <1>1, <1>2, ContainerFits
<1>. DEFINE held == [f \in Mounted |->
                       CASE f = "config" -> disk.server.config
                         [] f = "users" -> (IF disk.server.users = Absent
                                            THEN container.held.users
                                            ELSE disk.server.users)
                         [] OTHER -> Attached]
<1>5. held \in [Mounted -> AnyContent \cup {Attached}] /\ \A f \in Mounted : held[f] \in Content(f) \cup {Attached}
  BY <1>3, <1>4
<1>6. container' = [template |-> disk["server"]["artifact"].template, held |-> held]
  BY DEF PodStarts
<1>. HIDE DEF held
<1>7. container' \in Container
  BY <1>3, <1>5, <1>6, ContainerMade
<1>. QED  BY <1>2, <1>7 DEF PodStarts

LEMMA PodReplacedFits ==
    ASSUME Types, PodReplaced
    PROVE  Types' /\ \A q \in Proc : Spared(q)
<1>1. target' = target /\ db' = db /\ archives' = archives /\ rollout' = FALSE /\ jobs' = jobs
      /\ settled' \in BOOLEAN /\ target \in Target /\ PodStarts /\ rollout /\ ClusterFits
      /\ disk \in [Place -> Files] /\ rollout' \in BOOLEAN
  BY DEF PodReplaced, Types, ContainerTypes, FileTypes
<1>2. target \in Kubernetes /\ disk["server"]["artifact"] \in Rendering
  BY <1>1, DiskFits DEF ClusterFits
<1>3. container' \in Container /\ disk' = [disk EXCEPT ![Host] = WithFolders(@)]
  BY <1>1, <1>2, PodFits
<1>4. FileTypes' /\ ContainerTypes' /\ \A f \in File : Root'[f] # Root[f] => f \in Created
  BY <1>1, <1>2, <1>3, WithFoldersStarted
<1>5. Created = {}
  BY <1>2 DEF Created, Home, Host, Kubernetes
<1>. QED  BY <1>1, <1>4, <1>5, UnnotedAll

LEMMA RebootFits ==
    ASSUME Types, Reboot
    PROVE  Types' /\ \A q \in Proc : Spared(q)
<1>1. target' = target /\ db' = db /\ archives' = archives /\ rollout' = rollout
      /\ jobs' = Noted(jobs, Nobody, Created)
      /\ settled' \in BOOLEAN /\ target \in Target /\ ClusterFits /\ container.template # NotMade
      /\ disk \in [Place -> Files] /\ rollout' \in BOOLEAN /\ container \in Container
  BY DEF Reboot, Types, ContainerTypes, FileTypes
<1>2. Created \in SUBSET Change
  BY DEF Created, Change, Directory, File
<1>3. container' \in Container /\ disk' = [disk EXCEPT ![Host] = WithFolders(@)]
      /\ (target \in Kubernetes => disk["server"]["artifact"] \in Rendering)
      /\ (target \notin Kubernetes => rollout' = FALSE)
  <2>1. CASE target \in Kubernetes
    <3>1. disk["server"]["artifact"] \in Rendering /\ PodStarts
      BY <1>1, <2>1, DiskFits DEF ClusterFits, Reboot
    <3>. QED  BY <2>1, <3>1, PodFits
  <2>2. CASE target \notin Kubernetes
    <3>1. Attach(container.template) /\ rollout' = FALSE
      BY <1>1, <2>2 DEF Reboot, ClusterFits
    <3>. QED  BY <1>1, <2>2, <3>1, ContainerFits, ContainerMade DEF Attach
  <2>. QED  BY <2>1, <2>2
<1>4. FileTypes' /\ ContainerTypes' /\ \A f \in File : Root'[f] # Root[f] => f \in Created
  BY <1>1, <1>3, WithFoldersStarted
<1>. QED  BY <1>1, <1>2, <1>4, NotedAll

LEMMA StopFits ==
    ASSUME Types, NEW p \in Proc, Stop(p)
    PROVE  Types' /\ \A q \in Proc \ {p} : Spared(q)
BY EndFits DEF Stop

LEMMA RefusedFits ==
    ASSUME Types, NEW p \in Proc, Refused(p)
    PROVE  Types' /\ \A q \in Proc \ {p} : Spared(q)
<1>1. End(p)
  BY DEF Refused
<1>2. jobs[p].op # "none"
  BY DEF Refused
<1>. QED  BY <1>1, <1>2, EndFits

LEMMA StutterFits ==
    ASSUME Types, UNCHANGED vars
    PROVE  Types' /\ \A q \in Proc : Spared(q)
<1>1. /\ target' = target /\ disk' = disk /\ db' = db /\ container' = container /\ rollout' = rollout
      /\ jobs' = jobs /\ archives' = archives /\ settled' = settled /\ settled' \in BOOLEAN
  BY DEF vars, Types, ContainerTypes
<1>2. FileTypes' /\ ContainerTypes' /\ Root' = Root
  BY <1>1, NothingWritten
<1>. QED  BY <1>1, <1>2, UnnotedAll
-----------------------------------------------------------------------------
(* Types *)

LEMMA ProjectFits ==
    ASSUME NEW deploy \in Target, NEW provider \in {"file", "db"}, NEW v \in Version
    PROVE  /\ Project(deploy, provider, v) \in Files
           /\ Project(deploy, provider, v)["config"] # Absent
           /\ Project(deploy, provider, v)["users"] # Absent
           /\ deploy \in Kubernetes => Project(deploy, provider, v)["artifact"] = Absent
<1>. DEFINE config == [shape |-> v, tuning |-> v, provider |-> provider]
            artifact == IF deploy \in Kubernetes THEN Absent ELSE compose_model(config)
<1>1. config \in Config /\ v \in Users /\ v \in Nat /\ v # Absent /\ config # Absent
  BY VersionAssumption, AbsentAssumption DEF Config, Users
<1>2. artifact \in Content("artifact")
  BY <1>1, Contents DEF compose_model, Rendering, Template, template, Config
<1>3. config \in Content("config") /\ v \in Content("users")
      /\ Absent \in Content("state") /\ Absent \in Content("data")
  BY <1>1, Contents DEF File
<1>. HIDE DEF config, artifact
<1>. DEFINE files == [config |-> config, users |-> v, state |-> Absent, data |-> Absent, artifact |-> artifact]
<1>4. /\ DOMAIN files = File
      /\ files["config"] = config /\ files["users"] = v /\ files["state"] = Absent
      /\ files["data"] = Absent /\ files["artifact"] = artifact
  BY DEF File
<1>5. \A f \in File : files[f] \in Content(f) /\ files[f] \in AnyContent
  BY <1>2, <1>3, <1>4, Contents DEF File
<1>6. files \in [File -> AnyContent]
  BY <1>4, <1>5
<1>7. Project(deploy, provider, v) = files
  BY DEF Project, files, config, artifact
<1>8. deploy \in Kubernetes => artifact = Absent
  BY DEF artifact
<1>. HIDE DEF files
<1>. QED  BY <1>1, <1>4, <1>5, <1>6, <1>7, <1>8, FilesFit

LEMMA EarlierFits ==
    ASSUME NEW deploy \in Target, NEW provider \in {"file", "db"}, NEW v \in Version
    PROVE  Earlier(deploy, provider, v) \in Archive
<1>. DEFINE files == Project(deploy, provider, v)
            kept == [files EXCEPT !.users = IF provider = "db" THEN Absent ELSE @,
                                  !.state = IF deploy \in {"local", "remote_only"} THEN v ELSE @,
                                  !.data = IF deploy \in {"local", "remote_only"} THEN v ELSE @]
<1>1. files \in Files
  BY ProjectFits
<1>2. v \in Users /\ v \in Nat
  BY VersionAssumption DEF Users
<1>3. Earlier(deploy, provider, v) = [users |-> v, files |-> kept]
  BY DEF Earlier
<1>. HIDE DEF files
<1>4. /\ files \in [File -> AnyContent] /\ \A f \in File : files[f] \in Content(f) /\ Absent \in Content(f)
      /\ v \in Content("state") /\ v \in Content("data")
  BY <1>1, <1>2, FilesFit, Contents
<1>5. /\ kept \in [File -> AnyContent]
      /\ \A f \in File : kept[f] \in Content(f)
  BY <1>4, Contents DEF File
<1>. HIDE DEF kept
<1>. QED  BY <1>2, <1>3, <1>5, FilesFit DEF Archive

LEMMA InitFits ==
    ASSUME Init
    PROVE  Types /\ (\A p \in Proc : jobs[p] = Idle) /\ settled = FALSE
           /\ container.held["config"] = Attached /\ container.held["users"] = Attached
<1>1. PICK scenario \in Scenarios, new \in Version, old \in Version :
        /\ target = scenario[1]
        /\ disk = [project |-> IF target = "remote_only" THEN [f \in File |-> Absent]
                               ELSE Project(scenario[1], scenario[2], new),
                   server |-> IF target = "remote_only" THEN Project(scenario[1], scenario[2], new)
                              ELSE [f \in File |-> Absent]]
        /\ db = new
        /\ container = [template |-> NotMade, held |-> [f \in Mounted |-> Attached]]
        /\ rollout = FALSE /\ settled = FALSE
        /\ jobs = [p \in Proc |-> Idle]
        /\ archives = [a \in Proc \cup {Kept} |->
                         IF a = Kept THEN Earlier(scenario[1], scenario[2], old) ELSE NoArchive]
  BY DEF Init
<1>2. scenario[1] \in Target /\ scenario[2] \in {"file", "db"} /\ target \in Target /\ target = scenario[1]
  BY <1>1, ScenarioAssumption
<1>. DEFINE project == Project(scenario[1], scenario[2], new)
            nothing == [f \in File |-> Absent]
<1>3. /\ project \in Files /\ project["config"] # Absent /\ project["users"] # Absent
      /\ target \in Kubernetes => project["artifact"] = Absent
  BY <1>2, ProjectFits
<1>4. nothing \in Files /\ \A f \in File : nothing[f] = Absent
  BY Contents, FilesFit
<1>. HIDE DEF project, nothing
<1>5. /\ disk \in [Place -> Files] /\ Root = project
      /\ target \in Kubernetes => disk["server"] = nothing
  <2>1. disk = [project |-> IF target = "remote_only" THEN nothing ELSE project,
                server |-> IF target = "remote_only" THEN project ELSE nothing]
    BY <1>1 DEF project, nothing
  <2>2. DOMAIN disk = Place /\ disk["project"] = (IF target = "remote_only" THEN nothing ELSE project)
        /\ disk["server"] = (IF target = "remote_only" THEN project ELSE nothing)
    BY <2>1 DEF Place
  <2>3. disk = [place \in Place |-> disk[place]]
    BY <2>1 DEF Place
  <2>. QED  BY <1>3, <1>4, <2>2, <2>3 DEF Place, Root, Home, Kubernetes
<1>6. FileTypes
  BY <1>1, <1>2, <1>3, <1>5 DEF FileTypes, Users
<1>7. container \in Container /\ container.template = NotMade
      /\ container.held["config"] = Attached /\ container.held["users"] = Attached
  BY <1>1, ContainerMade DEF Mounted, Container
<1>8. ClusterFits
  BY <1>1, <1>4, <1>5, <1>7 DEF ClusterFits, File
<1>9. ContainerTypes
  BY <1>1, <1>7, <1>8 DEF ContainerTypes
<1>10. JobTypes /\ \A p \in Proc : jobs[p] = Idle
  BY <1>1, IdleFits DEF JobTypes
<1>11. ArchiveTypes
  <2>1. Earlier(scenario[1], scenario[2], old) \in Archive
    BY <1>2, EarlierFits
  <2>. QED  BY <1>1, <1>10, <2>1, IdleFits, KeptFits DEF ArchiveTypes
<1>. QED  BY <1>1, <1>6, <1>7, <1>9, <1>10, <1>11 DEF Types

LEMMA DeployFitsTypes ==
    ASSUME Types, NEW p \in Proc, DeployStep(p)
    PROVE  Types' /\ \A q \in Proc \ {p} : Spared(q)
BY deployment_planFits, apply_deployment_planFits, LoadConfigFits, RenderLoadedFits, remote_rsyncFits,
   TestRemoteFits, compose_upFits, apply_config_mapFits, apply_stateful_setFits, rollout_restartFits,
   delete_config_mapFits, delete_resourcesFits
   DEF DeployStep

LEMMA BackupFitsTypes ==
    ASSUME Types, NEW p \in Proc, BackupStep(p)
    PROVE  Types' /\ \A q \in Proc \ {p} : Spared(q)
<1>1. CASE create_backup(p)  BY <1>1, add_filesFits DEF create_backup
<1>2. CASE create_remote_backup(p)  BY <1>2, add_filesFits DEF create_remote_backup
<1>3. CASE extract(p)  BY <1>3, extractFits
<1>. QED  BY <1>1, <1>2, <1>3, add_usersFits, remove_treeFits, copy_entryFits, upload_entryFits, restore_usersFits
          DEF BackupStep

(* A step is one of a command, or one that spares them all. *)
Own(p) ==
    \/ \E request \in Requests : Begin(p, request)
    \/ DeployStep(p) \/ BackupStep(p) \/ Finish(p) \/ Stop(p) \/ CopyTorn(p) \/ Refused(p)

Outside ==
    \/ \E field \in {"shape", "tuning"}, v \in Version : EditConfig(field, v)
    \/ \E provider \in {"file", "db"} : EditConfig("provider", provider)
    \/ \E v \in Version : EditUsers(v)
    \/ Upload \/ WatcherSync \/ refresh_context \/ PodReplaced \/ Reboot

LEMMA OwnFits ==
    ASSUME Types, NEW p \in Proc, Own(p)
    PROVE  Types' /\ \A q \in Proc \ {p} : Spared(q)
<1>1. CASE \E request \in Requests : Begin(p, request)  BY <1>1, BeginFits
<1>2. CASE DeployStep(p)  BY <1>2, DeployFitsTypes
<1>3. CASE BackupStep(p)  BY <1>3, BackupFitsTypes
<1>4. CASE Finish(p)  BY <1>4, FinishFits
<1>5. CASE Stop(p)  BY <1>5, StopFits
<1>6. CASE CopyTorn(p)  BY <1>6, CopyTornFits
<1>7. CASE Refused(p)  BY <1>7, RefusedFits
<1>. QED  BY <1>1, <1>2, <1>3, <1>4, <1>5, <1>6, <1>7 DEF Own

LEMMA OutsideFits ==
    ASSUME Types, Outside \/ UNCHANGED vars
    PROVE  Types' /\ \A q \in Proc : Spared(q)
<1>1. CASE \E field \in {"shape", "tuning"}, v \in Version : EditConfig(field, v)
  <2>1. PICK field \in {"shape", "tuning"}, v \in Version : EditConfig(field, v)
    BY <1>1
  <2>. QED  BY <2>1, EditConfigFits
<1>2. CASE \E provider \in {"file", "db"} : EditConfig("provider", provider)
  <2>1. PICK provider \in {"file", "db"} : EditConfig("provider", provider)
    BY <1>2
  <2>. QED  BY <2>1, EditConfigFits
<1>3. CASE \E v \in Version : EditUsers(v)  BY <1>3, EditUsersFits
<1>4. CASE Upload  BY <1>4, UploadFits
<1>5. CASE WatcherSync  BY <1>5, WatcherSyncFits
<1>6. CASE refresh_context  BY <1>6, refresh_contextFits
<1>7. CASE PodReplaced  BY <1>7, PodReplacedFits
<1>8. CASE Reboot  BY <1>8, RebootFits
<1>9. CASE UNCHANGED vars  BY <1>9, StutterFits
<1>. QED  BY <1>1, <1>2, <1>3, <1>4, <1>5, <1>6, <1>7, <1>8, <1>9 DEF Outside

LEMMA StepKinds ==
    ASSUME [Next]_vars
    PROVE  (\E p \in Proc : Own(p)) \/ Outside \/ UNCHANGED vars
BY DEF Next, Own, Outside

LEMMA TypesNext ==
    ASSUME Types, [Next]_vars
    PROVE  Types'
BY StepKinds, OwnFits, OutsideFits

LEMMA TypesTold ==
    ASSUME Types
    PROVE  TypeOK
<1>1. /\ disk \in [Place -> Files] /\ target \in Target /\ db \in Users /\ container \in Container
      /\ \A p \in Proc : Holds(jobs[p])
      /\ archives \in [Proc \cup {Kept} -> Archive \cup {NoArchive}]
  BY DEF Types, FileTypes, ContainerTypes, JobTypes, ArchiveTypes
<1>2. \A place \in {"project", "server"}, f \in File : disk[place][f] \in Content(f)
  BY <1>1, DiskFits DEF Place
<1>3. /\ \A f \in Mounted : container.held[f] \in Content(f) \cup {Attached}
      /\ container.template \in Template \cup {NotMade}
  BY <1>1, ContainerFits
<1>4. \A p \in Proc : jobs[p].op = "none" => jobs[p] = Idle
  BY <1>1 DEF Holds
<1>5. \A a \in Proc \cup {Kept} : archives[a] # NoArchive =>
        /\ \A f \in File : archives[a].files[f] \in Content(f)
        /\ archives[a].users \in Users \cup {Unread}
  BY <1>1, ArchiveFits
<1>. QED  BY <1>1, <1>2, <1>3, <1>4, <1>5 DEF TypeOK

(* Every value that the commands, the container, the edits and the faults  *)
(* leave in a file, in an archive or in the record of a command is one     *)
(* that may be there, whatever is run at the same time.                    *)
THEOREM TypeCorrect == Spec => []TypeOK
<1>1. Init => Types
  BY InitFits
<1>2. Types /\ [Next]_vars => Types'
  BY TypesNext
<1>3. Types => TypeOK
  BY TypesTold
<1>. QED  BY <1>1, <1>2, <1>3, PTL DEF Spec
-----------------------------------------------------------------------------
(* Restores *)

LEMMA TargetKept ==
    ASSUME [Next]_vars
    PROVE  target' = target
<1>1. ASSUME NEW p \in Proc, DeployStep(p) PROVE target' = target
  BY <1>1 DEF DeployStep, deployment_plan, apply_deployment_plan, LoadConfig, RenderLoaded, remote_rsync,
       TestRemote, compose_up, apply_config_map, apply_stateful_set, rollout_restart, delete_config_map,
       delete_resources, Unchanged
<1>2. ASSUME NEW p \in Proc, BackupStep(p) PROVE target' = target
  BY <1>2 DEF BackupStep, create_backup, create_remote_backup, add_files, add_users, extract, remove_tree,
       copy_entry, upload_entry, restore_users, Unchanged
<1>3. ASSUME NEW p \in Proc, NEW request \in Requests, Begin(p, request) PROVE target' = target
  BY <1>3 DEF Begin
<1>4. ASSUME NEW p \in Proc, Finish(p) \/ Stop(p) \/ CopyTorn(p) \/ Refused(p) PROVE target' = target
  BY <1>4 DEF Finish, Stop, CopyTorn, Refused, End
<1>5. ASSUME \/ \E field \in {"shape", "tuning"}, v \in Version : EditConfig(field, v)
             \/ \E provider \in {"file", "db"} : EditConfig("provider", provider)
             \/ \E v \in Version : EditUsers(v)
             \/ Upload \/ WatcherSync \/ refresh_context \/ PodReplaced \/ Reboot
      PROVE  target' = target
  BY <1>5 DEF EditConfig, EditUsers, Upload, WatcherSync, refresh_context, PodReplaced, Reboot
<1>. QED  BY <1>1, <1>2, <1>3, <1>4, <1>5 DEF Next, vars

LEMMA SavedKept ==
    ASSUME target' = target, NEW q \in Proc, jobs'[q].before = jobs[q].before, jobs'[q].flag = jobs[q].flag,
           jobs[q].edited \subseteq jobs'[q].edited
    PROVE  /\ \A archive : Saves(q, archive) => Saves(q, archive)'
           /\ archives'[q] = archives[q] /\ Saved(q) => Saved(q)'
<1>1. \A archive : Saves(q, archive) => Saves(q, archive)'
  BY DEF Saves, backup_entries
<1>. QED  BY <1>1 DEF Saved

LEMMA RestoreSpared ==
    ASSUME Types, target' = target, NEW q \in Proc, Restoring(q), RestoreFits(q), Spared(q)
    PROVE  RestoreFits(q)'
<1>1. /\ jobs'[q].op = jobs[q].op /\ jobs'[q].flag = jobs[q].flag /\ jobs'[q].todo = jobs[q].todo
      /\ jobs'[q].loaded = jobs[q].loaded /\ jobs'[q].source = jobs[q].source
      /\ jobs'[q].draft = jobs[q].draft /\ jobs'[q].before = jobs[q].before
      /\ jobs[q].edited \subseteq jobs'[q].edited
      /\ archives'[q] = archives[q]
      /\ \A f \in File : Root'[f] # Root[f] => f \in jobs'[q].edited
      /\ db' # db => "db" \in jobs'[q].edited
  BY DEF Spared, Restoring
<1>2. Entries(jobs'[q]) = Entries(jobs[q]) /\ "config" \in File
  BY <1>1 DEF Entries, File
<1>3. /\ \A f \in File : Same(q, f) => Same(q, f)'
      /\ \A f \in File : Replaced(q, f) => Replaced(q, f)'
      /\ SameUsers(q) => SameUsers(q)'
  BY <1>1 DEF Same, SameUsers, Replaced
<1>4. Untouched(q) => Untouched(q)'
  BY <1>3 DEF Untouched
<1>5. /\ \A archive : Saves(q, archive) => Saves(q, archive)'
      /\ Saved(q) => Saved(q)'
  BY <1>1, SavedKept
<1>6. CASE Left(jobs[q].todo, "extract")
  BY <1>1, <1>4, <1>6 DEF RestoreFits
<1>7. CASE ~Left(jobs[q].todo, "extract")
  <2>1. Left(jobs'[q].todo, "snapshot") => Untouched(q)'
    BY <1>1, <1>4, <1>7 DEF RestoreFits
  <2>2. Left(jobs'[q].todo, "snapshot") /\ ~Left(jobs'[q].todo, "archive") => Saves(q, jobs[q].draft)'
    BY <1>1, <1>5, <1>7 DEF RestoreFits
  <2>3. Left(jobs'[q].todo, "snapshot") /\ ~Left(jobs'[q].todo, "archive") =>
          "config" \in jobs'[q].edited \/ jobs'[q].loaded = jobs'[q].before.files.config
    BY <1>1, <1>7 DEF RestoreFits
  <2>4. ~Left(jobs'[q].todo, "snapshot") => Saved(q)'
    BY <1>1, <1>5, <1>7 DEF RestoreFits
  <2>5. /\ \A f \in File : f \notin Entries(jobs'[q]) => Same(q, f)'
        /\ target' = "remote_only" \/ Left(jobs'[q].todo, "users") => SameUsers(q)'
    BY <1>1, <1>2, <1>3, <1>7 DEF RestoreFits
  <2>6. \A f \in Entries(jobs'[q]) :
          <<"copy", f>> \notin Pending(jobs'[q].todo) /\ <<"upload", f>> \notin Pending(jobs'[q].todo)
            => Replaced(q, f)'
    BY <1>1, <1>2, <1>3, <1>7 DEF RestoreFits, Entries, RestoredEntries
  <2>7. \A s \in Pending(jobs'[q].todo) : s[1] = "copy" => Left(jobs'[q].todo, "users")
    BY <1>1, <1>7 DEF RestoreFits
  <2>8. target' # "remote_only" /\ ~Left(jobs'[q].todo, "users") =>
          \/ {"db", "config"} \cap jobs'[q].edited # {}
          \/ db' = IF jobs'[q].source.users # Unread /\ Root'["config"].provider = "db"
                   THEN jobs'[q].source.users ELSE jobs'[q].before.db
    BY <1>1, <1>2, <1>7 DEF RestoreFits
  <2>. QED  BY <1>1, <1>7, <2>1, <2>2, <2>3, <2>4, <2>5, <2>6, <2>7, <2>8 DEF RestoreFits
<1>. QED  BY <1>6, <1>7

LEMMA Advancing ==
    ASSUME JobTypes, NEW p \in Proc, Step(p)[1] \in StepName, jobs'[p] = [jobs[p] EXCEPT !.todo = Tail(@)]
    PROVE  /\ jobs'[p].op = jobs[p].op /\ jobs'[p].flag = jobs[p].flag /\ jobs'[p].todo = Tail(jobs[p].todo)
           /\ jobs'[p].loaded = jobs[p].loaded /\ jobs'[p].source = jobs[p].source
           /\ jobs'[p].draft = jobs[p].draft /\ jobs'[p].before = jobs[p].before
           /\ jobs'[p].edited = jobs[p].edited /\ Entries(jobs'[p]) = Entries(jobs[p])
           /\ Pending(jobs'[p].todo) = Pending(jobs[p].todo) \ {Step(p)}
           /\ \A s \in Pending(jobs'[p].todo) : Rank(Step(p)) < Rank(s)
           /\ \A n \in StepName : Left(jobs[p].todo, n) <=> Left(jobs'[p].todo, n) \/ Step(p)[1] = n
<1>1. /\ jobs[p] \in Job /\ jobs[p].todo # <<>> /\ jobs[p].todo \in Seq(WorkStep)
      /\ Head(jobs[p].todo) = Step(p) /\ Consistent(jobs[p].todo)
  BY StepTaken
<1>2. /\ jobs'[p].op = jobs[p].op /\ jobs'[p].flag = jobs[p].flag /\ jobs'[p].todo = Tail(jobs[p].todo)
      /\ jobs'[p].loaded = jobs[p].loaded /\ jobs'[p].source = jobs[p].source
      /\ jobs'[p].draft = jobs[p].draft /\ jobs'[p].before = jobs[p].before
      /\ jobs'[p].edited = jobs[p].edited
  BY <1>1 DEF Job
<1>. QED  BY <1>1, <1>2, PoppedConsistent DEF Entries

LEMMA DeploysOnly ==
    ASSUME Types, NEW p \in Proc, DeployStep(p)
    PROVE  jobs[p].op \notin {"none", "backup", "restore", "undo"} /\ jobs'[p].op = jobs[p].op
<1>1. Step(p)[1] \in DeployStepName
  BY DEF DeployStep, DeployStepName, deployment_plan, apply_deployment_plan, LoadConfig, RenderLoaded,
         remote_rsync, TestRemote, compose_up, apply_config_map, apply_stateful_set, rollout_restart,
         delete_config_map, delete_resources
<1>2. /\ jobs \in [Proc -> Job] /\ jobs[p] \in Job /\ Step(p)[1] \in StepNames(jobs[p].op)
      /\ jobs[p].op # "none"
  BY <1>1, StepTaken DEF Types, JobTypes, StepName
<1>3. jobs[p].op \notin {"backup", "restore", "undo"}
  BY <1>1, <1>2 DEF StepNames, DeployStepName
<1>4. ASSUME NEW todo, NEW loaded, NEW changed,
             \/ jobs' = Noted([jobs EXCEPT ![p].todo = todo], p, changed)
             \/ jobs' = [jobs EXCEPT ![p].todo = todo, ![p].loaded = loaded]
      PROVE  jobs'[p].op = jobs[p].op
  BY <1>2, <1>4 DEF Noted, Job
<1>5. \E todo, loaded, changed :
        \/ jobs' = Noted([jobs EXCEPT ![p].todo = todo], p, changed)
        \/ jobs' = [jobs EXCEPT ![p].todo = todo, ![p].loaded = loaded]
  <2>1. CASE \E changed : Advance(p, changed)
    <3>1. PICK changed : Advance(p, changed)
      BY <2>1
    <3>2. jobs' = Noted([jobs EXCEPT ![p].todo = Tail(jobs[p].todo)], p, changed)
      BY <3>1 DEF Advance
    <3>. QED  BY <3>2
  <2>2. CASE apply_deployment_plan(p)  BY <2>2 DEF apply_deployment_plan
  <2>3. CASE LoadConfig(p)
    <3>1. jobs' = [jobs EXCEPT ![p].todo = Tail(jobs[p].todo), ![p].loaded = Root.config]
      BY <2>3 DEF LoadConfig
    <3>. QED  BY <3>1
  <2>4. CASE apply_config_map(p)
    <3>1. jobs' = [jobs EXCEPT ![p].todo = Tail(jobs[p].todo), ![p].loaded = Root.artifact]
      BY <2>4 DEF apply_config_map
    <3>. QED  BY <3>1
  <2>5. CASE delete_resources(p)
    <3>1. jobs' = Noted([jobs EXCEPT ![p].todo = Tail(jobs[p].todo)], p, {"deleted"})
      BY <2>5 DEF delete_resources
    <3>. QED  BY <3>1
  <2>6. deployment_plan(p) \/ RenderLoaded(p) \/ remote_rsync(p) \/ TestRemote(p) \/ compose_up(p)
        \/ apply_stateful_set(p) \/ rollout_restart(p) \/ delete_config_map(p) => \E changed : Advance(p, changed)
    BY DEF deployment_plan, RenderLoaded, remote_rsync, TestRemote, compose_up, apply_stateful_set,
           rollout_restart, delete_config_map
  <2>. QED  BY <2>1, <2>2, <2>3, <2>4, <2>5, <2>6 DEF DeployStep
<1>. QED  BY <1>2, <1>3, <1>4, <1>5

LEMMA RestoreBegins ==
    ASSUME Types, NEW p \in Proc, NEW request \in Requests, Begin(p, request), Restoring(p)'
    PROVE  RestoreFits(p)'
<1>1. request[1] \in {"restore", "undo"} /\ request[1] \in {"deploy", "apply", "delete", "backup", "restore", "undo"}
  BY BeginFits DEF Restoring
<1>2. /\ jobs'[p].todo = Steps(request[1]) /\ jobs'[p].before = [files |-> Root, db |-> db]
      /\ target \in Target
  BY <1>1, BeginFits DEF Types, FileTypes
<1>3. Left(jobs'[p].todo, "extract")
  BY <1>1, <1>2, StepsBegin
<1>4. Root' = Root /\ db' = db
  BY DEF Begin, Root, Home
<1>5. Untouched(p)'
  BY <1>2, <1>4 DEF Untouched, Same, SameUsers
<1>. QED  BY <1>3, <1>5 DEF RestoreFits

LEMMA RestoreExtracts ==
    ASSUME Types, NEW p \in Proc, extract(p), RestoreFits(p)
    PROVE  RestoreFits(p)'
<1>. DEFINE source == archives[IF jobs[p].op = "undo" THEN p ELSE Kept]
            entries == RestoredEntries(source.files, jobs[p].flag)
            todo == Do(<<"archive", "snapshot">>) \o
                      (IF target = "remote_only" THEN uploading(entries)
                       ELSE overwriting(entries) \o Do(<<"users">>)) \o Do(<<"done">>)
<1>1. jobs[p] \in Job /\ Left(jobs[p].todo, "extract")
  <2>1. Step(p)[1] = "extract" /\ "extract" \in BackupStepName
    BY DEF extract, BackupStepName
  <2>. QED  BY <2>1, AtBackupStep DEF Left
<1>2. jobs'[p] = [jobs[p] EXCEPT !.source = source, !.todo = todo]
  BY extractFits
<1>3. entries \in SUBSET File
  BY DEF RestoredEntries
<1>. HIDE DEF entries
<1>4. /\ \A s \in Pending(todo) : s[1] \in StepNames("restore") \ {"extract"}
      /\ Left(todo, "archive") /\ Left(todo, "snapshot")
      /\ target # "remote_only" => Left(todo, "users")
      /\ \A f \in entries : <<"copy", f>> \in Pending(todo) \/ <<"upload", f>> \in Pending(todo)
  BY <1>3, RestoreCommands
<1>. HIDE DEF todo, source
<1>5. /\ jobs'[p].flag = jobs[p].flag /\ jobs'[p].todo = todo /\ jobs'[p].source = source
      /\ jobs'[p].before = jobs[p].before /\ jobs'[p].edited = jobs[p].edited
  BY <1>1, <1>2 DEF Job
<1>6. Entries(jobs'[p]) = entries
  BY <1>5 DEF Entries, entries
<1>7. target' = target /\ Root' = Root /\ db' = db
  BY DEF extract, Unchanged, Root, Home
<1>8. Untouched(p)'
  <2>1. Untouched(p)
    BY <1>1 DEF RestoreFits
  <2>. QED  BY <1>5, <1>7, <2>1 DEF Untouched, Same, SameUsers
<1>9. /\ ~Left(todo, "extract")
      /\ \A s \in Pending(todo) : s[1] = "copy" => Left(todo, "users")
  BY <1>4 DEF Left, StepNames
<1>. QED  BY <1>4, <1>5, <1>6, <1>7, <1>8, <1>9 DEF RestoreFits, Untouched

LEMMA RestoreArchives ==
    ASSUME Types, NEW p \in Proc, Restoring(p), RestoreFits(p), create_backup(p) \/ create_remote_backup(p)
    PROVE  RestoreFits(p)'
<1>1. PICK entries :
        /\ add_files(p, entries)
        /\ entries = IF target = "remote_only" THEN remote_backup_candidates(Root, jobs[p].flag)
                     ELSE backup_entries(target, Root, Root.config, jobs[p].flag)
  BY DEF create_backup, create_remote_backup
<1>2. Step(p)[1] = "archive" /\ "archive" \in BackupStepName /\ "snapshot" \in StepName /\ "archive" \in StepName
      /\ "extract" \in StepName /\ "users" \in StepName
  BY <1>1 DEF add_files, StepName, BackupStepName
<1>3. /\ jobs[p] \in Job /\ jobs[p].todo # <<>> /\ jobs[p].todo \in Seq(WorkStep)
      /\ Head(jobs[p].todo) = Step(p) /\ Consistent(jobs[p].todo) /\ Step(p) \in Pending(jobs[p].todo)
  BY <1>2, AtBackupStep
<1>4. /\ ~Left(jobs[p].todo, "extract") /\ Left(jobs[p].todo, "archive")
      /\ Pending(Tail(jobs[p].todo)) = Pending(jobs[p].todo) \ {Step(p)}
      /\ ~Left(Tail(jobs[p].todo), "archive")
      /\ \A n \in StepName : Left(jobs[p].todo, n) <=> Left(Tail(jobs[p].todo), n) \/ Step(p)[1] = n
      /\ Left(jobs[p].todo, "archive") => Left(jobs[p].todo, "snapshot")
  BY <1>2, <1>3, PoppedConsistent DEF Left, Consistent
<1>5. /\ Left(Tail(jobs[p].todo), "snapshot") /\ ~Left(Tail(jobs[p].todo), "extract")
      /\ Left(Tail(jobs[p].todo), "users") <=> Left(jobs[p].todo, "users")
      /\ \A f : <<"copy", f>> # Step(p) /\ <<"upload", f>> # Step(p)
  BY <1>2, <1>4
<1>a. PICK draft : draft = [files |-> Taken(Root, entries), users |-> Unread]
  OBVIOUS
<1>b. jobs'[p] = [jobs[p] EXCEPT !.todo = Tail(@), !.loaded = Root["config"], !.draft = draft]
  BY <1>1, <1>a, add_filesFits
<1>6. /\ jobs'[p].flag = jobs[p].flag /\ jobs'[p].todo = Tail(jobs[p].todo)
      /\ jobs'[p].loaded = Root["config"] /\ jobs'[p].draft = draft /\ jobs'[p].source = jobs[p].source
      /\ jobs'[p].before = jobs[p].before /\ jobs'[p].edited = jobs[p].edited
  BY <1>3, <1>b DEF Job
<1>7. Entries(jobs'[p]) = Entries(jobs[p])
  BY <1>6 DEF Entries
<1>8. target' = target /\ Root' = Root /\ db' = db
  BY <1>1 DEF add_files, Unchanged, Root, Home
<1>9. /\ Untouched(p) /\ \A f \in File : f \notin Entries(jobs[p]) => Same(p, f)
      /\ \A s \in Pending(jobs[p].todo) : s[1] = "copy" => Left(jobs[p].todo, "users")
      /\ \A f \in Entries(jobs[p]) :
           <<"copy", f>> \notin Pending(jobs[p].todo) /\ <<"upload", f>> \notin Pending(jobs[p].todo) => Replaced(p, f)
  BY <1>3, <1>4 DEF RestoreFits, Entries, RestoredEntries
<1>10. /\ Untouched(p)'
       /\ \A f \in File : Same(p, f) => Same(p, f)'
       /\ \A f \in File : Replaced(p, f) => Replaced(p, f)'
  BY <1>6, <1>8, <1>9 DEF Untouched, Same, SameUsers, Replaced
<1>11. Saves(p, draft)'
  <2>1. SUFFICES ASSUME jobs[p].before.files.config \in Config, "config" \notin jobs[p].edited,
                        NEW f \in (IF target = "remote_only" THEN File
                                   ELSE backup_entries(target, jobs[p].before.files,
                                                       jobs[p].before.files.config, TRUE)),
                        f \notin jobs[p].edited, f = "data" => jobs[p].flag
                 PROVE  Taken(Root, entries)[f] = jobs[p].before.files[f]
    BY <1>6, <1>8, <1>a DEF Saves, backup_entries
  <2>2. f \in File /\ "config" \in File
    BY DEF backup_entries, File
  <2>3. Root[f] = jobs[p].before.files[f] /\ Root["config"] = jobs[p].before.files.config
    BY <1>9, <2>1, <2>2 DEF Untouched, Same
  <2>4. f \in entries \/ Root[f] = Absent
    BY <1>1, <2>1, <2>2, <2>3 DEF backup_entries, remote_backup_candidates
  <2>. QED  BY <2>2, <2>3, <2>4 DEF Taken
<1>12. "config" \in jobs'[p].edited \/ jobs'[p].loaded = jobs'[p].before.files.config
  BY <1>6, <1>9 DEF Untouched, Same, File
<1>13. Saves(p, jobs[p].draft)'
  BY <1>6, <1>11
<1>14. \A f \in Entries(jobs'[p]) :
          <<"copy", f>> \notin Pending(jobs'[p].todo) /\ <<"upload", f>> \notin Pending(jobs'[p].todo)
            => Replaced(p, f)'
  BY <1>4, <1>5, <1>6, <1>7, <1>9, <1>10 DEF Entries, RestoredEntries
<1>15. \A s \in Pending(jobs'[p].todo) : s[1] = "copy" => Left(jobs'[p].todo, "users")
  BY <1>4, <1>5, <1>6, <1>9
<1>16. SameUsers(p)'
  BY <1>10 DEF Untouched
<1>17. /\ target' # "remote_only" /\ ~Left(jobs'[p].todo, "users") =>
            \/ {"db", "config"} \cap jobs'[p].edited # {}
            \/ db' = IF jobs'[p].source.users # Unread /\ Root'["config"].provider = "db"
                     THEN jobs'[p].source.users ELSE jobs'[p].before.db
  BY <1>4, <1>5, <1>6, <1>8 DEF RestoreFits
<1>. QED  BY <1>5, <1>6, <1>7, <1>9, <1>10, <1>12, <1>13, <1>14, <1>15, <1>16, <1>17 DEF RestoreFits

(* What is left when a restore takes a step that leaves its record *)
LEMMA RestoreStep ==
    ASSUME Types, NEW p \in Proc, Restoring(p), RestoreFits(p), target' = target,
           Step(p)[1] \in {"snapshot", "rmtree", "copy", "upload", "users"},
           jobs'[p] = [jobs[p] EXCEPT !.todo = Tail(@)]
    PROVE  /\ jobs'[p].flag = jobs[p].flag /\ jobs'[p].source = jobs[p].source
           /\ jobs'[p].before = jobs[p].before /\ jobs'[p].edited = jobs[p].edited
           /\ Entries(jobs'[p]) = Entries(jobs[p])
           /\ Pending(jobs'[p].todo) = Pending(jobs[p].todo) \ {Step(p)}
           /\ ~Left(jobs[p].todo, "extract") /\ ~Left(jobs[p].todo, "archive")
           /\ ~Left(jobs'[p].todo, "extract") /\ ~Left(jobs'[p].todo, "snapshot")
           /\ Left(jobs[p].todo, "snapshot") <=> Step(p)[1] = "snapshot"
           /\ Left(jobs[p].todo, "users") <=> Left(jobs'[p].todo, "users") \/ Step(p)[1] = "users"
           /\ \A s \in Pending(jobs'[p].todo) : s[1] = "copy" => Left(jobs'[p].todo, "users")
<1>1. Step(p)[1] \in BackupStepName /\ Step(p)[1] \in StepName /\ JobTypes
      /\ {"extract", "archive", "snapshot", "users"} \subseteq StepName
  BY DEF BackupStepName, StepName, Types
<1>2. /\ jobs[p] \in Job /\ jobs[p].todo # <<>> /\ jobs[p].todo \in Seq(WorkStep)
      /\ Head(jobs[p].todo) = Step(p) /\ Consistent(jobs[p].todo) /\ Step(p) \in Pending(jobs[p].todo)
  BY <1>1, AtBackupStep
<1>3. /\ jobs'[p].flag = jobs[p].flag /\ jobs'[p].todo = Tail(jobs[p].todo)
      /\ jobs'[p].source = jobs[p].source /\ jobs'[p].before = jobs[p].before
      /\ jobs'[p].edited = jobs[p].edited /\ Entries(jobs'[p]) = Entries(jobs[p])
      /\ Pending(jobs'[p].todo) = Pending(jobs[p].todo) \ {Step(p)}
      /\ \A s \in Pending(jobs'[p].todo) : Rank(Step(p)) < Rank(s)
      /\ \A n \in StepName : Left(jobs[p].todo, n) <=> Left(jobs'[p].todo, n) \/ Step(p)[1] = n
  BY <1>1, Advancing
<1>4. /\ ~Left(jobs[p].todo, "extract") /\ ~Left(Tail(jobs[p].todo), "extract") /\ ~Left(Tail(jobs[p].todo), "snapshot")
      /\ Step(p)[1] = "snapshot" => ~Left(jobs[p].todo, "archive")
      /\ Step(p)[1] # "snapshot" => ~Left(jobs[p].todo, "snapshot")
  BY <1>1, <1>2, PoppedConsistent
<1>5. ~Left(jobs[p].todo, "archive")
  BY <1>2, <1>4 DEF Consistent
<1>6. \A s \in Pending(jobs'[p].todo) : s[1] = "copy" => Left(jobs'[p].todo, "users")
  <2>1. SUFFICES ASSUME NEW s \in Pending(jobs'[p].todo), s[1] = "copy", Step(p)[1] = "users" PROVE FALSE
    BY <1>1, <1>3, <1>4 DEF RestoreFits
  <2>2. Rank(s) \in Nat /\ Rank(s) <= 12 /\ Rank(Step(p)) = 13
    BY <1>2, <1>3, <2>1, PoppedConsistent DEF Rank, Turn, WorkStep
  <2>. QED  BY <1>3, <2>1, <2>2
<1>. QED  BY <1>1, <1>3, <1>4, <1>5, <1>6

LEMMA RestoreSnapshots ==
    ASSUME Types, NEW p \in Proc, Restoring(p), RestoreFits(p), add_users(p)
    PROVE  RestoreFits(p)'
<1>1. Step(p)[1] = "snapshot" /\ jobs'[p] = [jobs[p] EXCEPT !.todo = Tail(@)]
      /\ target' = target /\ Root' = Root /\ db' = db /\ jobs[p].op # "backup"
  <2>1. jobs'[p] = [jobs[p] EXCEPT !.todo = Tail(@)]
    BY add_usersFits
  <2>. QED  BY <2>1 DEF add_users, Root, Home, Restoring
<1>2. /\ jobs'[p].flag = jobs[p].flag /\ jobs'[p].source = jobs[p].source
      /\ jobs'[p].before = jobs[p].before /\ jobs'[p].edited = jobs[p].edited
      /\ Entries(jobs'[p]) = Entries(jobs[p])
      /\ Pending(jobs'[p].todo) = Pending(jobs[p].todo) \ {Step(p)}
      /\ ~Left(jobs[p].todo, "extract") /\ ~Left(jobs[p].todo, "archive")
      /\ ~Left(jobs'[p].todo, "extract") /\ ~Left(jobs'[p].todo, "snapshot")
      /\ Left(jobs[p].todo, "snapshot")
      /\ Left(jobs[p].todo, "users") <=> Left(jobs'[p].todo, "users")
      /\ \A s \in Pending(jobs'[p].todo) : s[1] = "copy" => Left(jobs'[p].todo, "users")
  BY <1>1, RestoreStep
<1>3. /\ Untouched(p) /\ Saves(p, jobs[p].draft)
      /\ "config" \in jobs[p].edited \/ jobs[p].loaded = jobs[p].before.files.config
      /\ \A f \in File : f \notin Entries(jobs[p]) => Same(p, f)
      /\ \A f \in Entries(jobs[p]) :
           <<"copy", f>> \notin Pending(jobs[p].todo) /\ <<"upload", f>> \notin Pending(jobs[p].todo) => Replaced(p, f)
      /\ target # "remote_only" /\ ~Left(jobs[p].todo, "users") =>
           \/ {"db", "config"} \cap jobs[p].edited # {}
           \/ db = IF jobs[p].source.users # Unread /\ Root["config"].provider = "db"
                   THEN jobs[p].source.users ELSE jobs[p].before.db
  BY <1>2 DEF RestoreFits
<1>4. /\ \A f \in File : Same(p, f) => Same(p, f)'
      /\ \A f \in File : Replaced(p, f) => Replaced(p, f)'
      /\ SameUsers(p)'
  BY <1>1, <1>2, <1>3 DEF Untouched, Same, SameUsers, Replaced
<1>5. PICK users \in ReadUsers(p) :
        /\ [jobs[p].draft EXCEPT !.users = users] \in Archive
        /\ archives'[p] = [jobs[p].draft EXCEPT !.users = users]
  BY <1>1, add_usersFits
<1>6. jobs[p].draft \in Archive
  <2>1. Holds(jobs[p])
    BY DEF Types, JobTypes
  <2>. QED  BY <1>2, <2>1 DEF Holds
<1>7. archives'[p] \in Archive /\ archives'[p].files = jobs[p].draft.files /\ archives'[p].users = users
  BY <1>5, <1>6 DEF Archive
<1>8. Saves(p, archives[p])'
  BY <1>1, <1>2, <1>3, <1>7 DEF Saves, backup_entries
<1>9. ASSUME "config" \notin jobs[p].edited, "db" \notin jobs[p].edited, jobs[p].before.files.config \in Config,
             jobs[p].before.files.config.provider = "db"
      PROVE  users \in {jobs[p].before.db, Unread}
  <2>1. jobs[p].loaded = jobs[p].before.files.config /\ db = jobs[p].before.db
    BY <1>3, <1>9 DEF Untouched, SameUsers
  <2>. QED  BY <1>5, <1>9, <2>1 DEF ReadUsers
<1>10. Saved(p)'
  BY <1>2, <1>7, <1>8, <1>9 DEF Saved
<1>11. \A f \in Entries(jobs'[p]) :
          <<"copy", f>> \notin Pending(jobs'[p].todo) /\ <<"upload", f>> \notin Pending(jobs'[p].todo)
            => Replaced(p, f)'
  BY <1>1, <1>2, <1>3, <1>4 DEF Entries, RestoredEntries
<1>12. target' # "remote_only" /\ ~Left(jobs'[p].todo, "users") =>
            \/ {"db", "config"} \cap jobs'[p].edited # {}
            \/ db' = IF jobs'[p].source.users # Unread /\ Root'["config"].provider = "db"
                     THEN jobs'[p].source.users ELSE jobs'[p].before.db
  BY <1>1, <1>2, <1>3
<1>. QED  BY <1>2, <1>3, <1>4, <1>10, <1>11, <1>12 DEF RestoreFits

LEMMA RestoreWrites ==
    ASSUME Types, NEW p \in Proc, Restoring(p), RestoreFits(p), target' = target, db' = db,
           Step(p)[1] \in {"rmtree", "copy", "upload"}, jobs'[p] = [jobs[p] EXCEPT !.todo = Tail(@)],
           archives' = archives, NEW f \in Entries(jobs[p]), Step(p) = <<Step(p)[1], f>>,
           \A g \in File : g # f => Root'[g] = Root[g],
           Step(p)[1] \in {"copy", "upload"} => Root'[f] = jobs[p].source.files[f]
    PROVE  RestoreFits(p)'
<1>1. /\ jobs'[p].flag = jobs[p].flag /\ jobs'[p].source = jobs[p].source
      /\ jobs'[p].before = jobs[p].before /\ jobs'[p].edited = jobs[p].edited
      /\ Entries(jobs'[p]) = Entries(jobs[p])
      /\ Pending(jobs'[p].todo) = Pending(jobs[p].todo) \ {Step(p)}
      /\ ~Left(jobs[p].todo, "extract") /\ ~Left(jobs[p].todo, "snapshot")
      /\ ~Left(jobs'[p].todo, "extract") /\ ~Left(jobs'[p].todo, "snapshot")
      /\ Left(jobs[p].todo, "users") <=> Left(jobs'[p].todo, "users")
      /\ \A s \in Pending(jobs'[p].todo) : s[1] = "copy" => Left(jobs'[p].todo, "users")
  BY RestoreStep
<1>2. /\ Saved(p)
      /\ \A g \in File : g \notin Entries(jobs[p]) => Same(p, g)
      /\ \A g \in Entries(jobs[p]) :
           <<"copy", g>> \notin Pending(jobs[p].todo) /\ <<"upload", g>> \notin Pending(jobs[p].todo) => Replaced(p, g)
      /\ target = "remote_only" \/ Left(jobs[p].todo, "users") => SameUsers(p)
      /\ \A s \in Pending(jobs[p].todo) : s[1] = "copy" => Left(jobs[p].todo, "users")
  BY <1>1 DEF RestoreFits, Entries, RestoredEntries
<1>3. Saved(p)'
  BY <1>1, <1>2, SavedKept
<1>4. \A g \in File : g \notin Entries(jobs'[p]) => Same(p, g)'
  BY <1>1, <1>2 DEF Same
<1>5. Step(p) \in Pending(jobs[p].todo) /\ Consistent(jobs[p].todo)
      /\ (Step(p)[1] = "upload" => target = "remote_only")
  BY AtBackupStep DEF BackupStepName
<1>6. Step(p)[1] = "rmtree" => <<"copy", f>> \in Pending(jobs'[p].todo)
  <2>1. Step(p)[1] = "rmtree" => <<"copy", Step(p)[2]>> \in Pending(jobs[p].todo)
    BY <1>5 DEF Consistent
  <2>2. Step(p)[2] = f
    OBVIOUS
  <2>3. Step(p)[1] = "rmtree" => <<"copy", f>> # Step(p)
    OBVIOUS
  <2>. QED  BY <1>1, <2>1, <2>2, <2>3
<1>7. target # "remote_only" => Left(jobs'[p].todo, "users")
  <2>1. CASE Step(p)[1] = "rmtree"
    BY <1>1, <1>6, <2>1
  <2>2. CASE Step(p)[1] = "copy"
    BY <1>1, <1>2, <1>5, <2>2
  <2>3. CASE Step(p)[1] = "upload"
    BY <1>5, <2>3
  <2>. QED  BY <2>1, <2>2, <2>3
<1>8. SameUsers(p)'
  BY <1>1, <1>2, <1>7 DEF SameUsers
<1>9. ASSUME NEW g \in Entries(jobs'[p]),
             <<"copy", g>> \notin Pending(jobs'[p].todo), <<"upload", g>> \notin Pending(jobs'[p].todo)
      PROVE  Replaced(p, g)'
  <2>1. CASE g = f
    <3>1. Step(p)[1] # "rmtree"
      BY <1>6, <1>9, <2>1
    <3>. QED  BY <1>1, <2>1, <3>1 DEF Replaced
  <2>2. CASE g # f
    <3>1. g \in File /\ g \in Entries(jobs[p])
      BY <1>1 DEF Entries, RestoredEntries
    <3>2. Step(p)[2] = f /\ <<"copy", g>>[2] = g /\ <<"upload", g>>[2] = g
      OBVIOUS
    <3>3. <<"copy", g>> # Step(p) /\ <<"upload", g>> # Step(p)
      BY <2>2, <3>2
    <3>4. Replaced(p, g)
      BY <1>1, <1>2, <1>9, <3>1, <3>3
    <3>. QED  BY <1>1, <2>2, <3>1, <3>4 DEF Replaced
  <2>. QED  BY <2>1, <2>2
<1>. QED  BY <1>1, <1>3, <1>4, <1>7, <1>8, <1>9 DEF RestoreFits

LEMMA RestoreReadsUsers ==
    ASSUME Types, NEW p \in Proc, Restoring(p), RestoreFits(p), restore_users(p)
    PROVE  RestoreFits(p)'
<1>1. /\ Step(p)[1] = "users" /\ target' = target /\ archives' = archives /\ Root' = Root
      /\ jobs'[p] = [jobs[p] EXCEPT !.todo = Tail(@)]
      /\ db' = IF jobs[p].source.users # Unread /\ Root["config"].provider = "db"
               THEN jobs[p].source.users ELSE db
  <2>1. /\ Root' = Root /\ jobs'[p] = [jobs[p] EXCEPT !.todo = Tail(@)]
        /\ db' = IF jobs[p].source.users # Unread /\ Root["config"].provider = "db"
                 THEN jobs[p].source.users ELSE db
    BY restore_usersFits
  <2>. QED  BY <2>1 DEF restore_users
<1>2. /\ jobs'[p].flag = jobs[p].flag /\ jobs'[p].source = jobs[p].source
      /\ jobs'[p].before = jobs[p].before /\ jobs'[p].edited = jobs[p].edited
      /\ Entries(jobs'[p]) = Entries(jobs[p])
      /\ Pending(jobs'[p].todo) = Pending(jobs[p].todo) \ {Step(p)}
      /\ ~Left(jobs[p].todo, "extract") /\ ~Left(jobs[p].todo, "snapshot")
      /\ ~Left(jobs'[p].todo, "extract") /\ ~Left(jobs'[p].todo, "snapshot")
      /\ Left(jobs[p].todo, "users")
      /\ \A s \in Pending(jobs'[p].todo) : s[1] = "copy" => Left(jobs'[p].todo, "users")
  BY <1>1, RestoreStep
<1>3. /\ Saved(p) /\ SameUsers(p)
      /\ \A f \in File : f \notin Entries(jobs[p]) => Same(p, f)
      /\ \A f \in Entries(jobs[p]) :
           <<"copy", f>> \notin Pending(jobs[p].todo) /\ <<"upload", f>> \notin Pending(jobs[p].todo) => Replaced(p, f)
  BY <1>2 DEF RestoreFits, Entries, RestoredEntries
<1>4. Saved(p)'
  BY <1>1, <1>2, <1>3, SavedKept
<1>5. /\ \A f \in File : f \notin Entries(jobs'[p]) => Same(p, f)'
      /\ \A f \in File : Replaced(p, f) => Replaced(p, f)'
  BY <1>1, <1>2, <1>3 DEF Same, Replaced
<1>6. \A f \in Entries(jobs'[p]) :
        <<"copy", f>> \notin Pending(jobs'[p].todo) /\ <<"upload", f>> \notin Pending(jobs'[p].todo) => Replaced(p, f)'
  BY <1>1, <1>2, <1>3, <1>5 DEF Entries, RestoredEntries
<1>7. target # "remote_only" /\ ~Left(jobs'[p].todo, "users")
  <2>1. /\ target # "remote_only" /\ jobs[p].todo # <<>> /\ jobs[p].todo \in Seq(WorkStep)
        /\ Head(jobs[p].todo) = Step(p) /\ Consistent(jobs[p].todo) /\ jobs[p] \in Job
    BY <1>1, AtBackupStep DEF BackupStepName
  <2>. QED  BY <1>1, <2>1, PoppedConsistent DEF Job
<1>8. \/ {"db", "config"} \cap jobs'[p].edited # {}
      \/ db' = IF jobs'[p].source.users # Unread /\ Root'["config"].provider = "db"
               THEN jobs'[p].source.users ELSE jobs'[p].before.db
  BY <1>1, <1>2, <1>3 DEF SameUsers
<1>. QED  BY <1>1, <1>2, <1>4, <1>5, <1>6, <1>7, <1>8 DEF RestoreFits

LEMMA RestoreGoesOn ==
    ASSUME Types, NEW p \in Proc, BackupStep(p), Restoring(p) => RestoreFits(p), Restoring(p)'
    PROVE  RestoreFits(p)'
<1>1. CASE create_backup(p) \/ create_remote_backup(p)
  <2>1. PICK entries : add_files(p, entries)
    BY <1>1 DEF create_backup, create_remote_backup
  <2>2. jobs[p] \in Job
    BY DEF Types, JobTypes
  <2>3. jobs'[p].op = jobs[p].op
    BY <2>1, <2>2, add_filesFits DEF Job
  <2>. QED  BY <1>1, <2>3, RestoreArchives DEF Restoring
<1>2. CASE add_users(p)
  <2>1. jobs[p] \in Job
    BY DEF Types, JobTypes
  <2>2. jobs'[p].op = jobs[p].op
    BY <1>2, <2>1, add_usersFits DEF Job
  <2>. QED  BY <1>2, <2>2, RestoreSnapshots DEF Restoring
<1>3. CASE extract(p)
  <2>1. Step(p)[1] = "extract" /\ "extract" \in BackupStepName
    BY <1>3 DEF extract, BackupStepName
  <2>2. Restoring(p)
    BY <2>1, AtBackupStep DEF Restoring
  <2>. QED  BY <1>3, <2>2, RestoreExtracts
<1>4. CASE remove_tree(p) \/ copy_entry(p) \/ upload_entry(p)
  <2>1. /\ Step(p)[1] \in {"rmtree", "copy", "upload"} /\ Step(p)[1] \in BackupStepName
        /\ target' = target /\ db' = db /\ archives' = archives
    BY <1>4 DEF remove_tree, copy_entry, upload_entry, BackupStepName, Unchanged
  <2>2. /\ Restoring(p) /\ RestoreFits(p) /\ Step(p) \in WorkStep /\ Holds(jobs[p])
        /\ Step(p) \in Pending(jobs[p].todo) /\ Consistent(jobs[p].todo)
        /\ (Step(p)[1] \in {"copy", "upload"} => Step(p)[2] \in Entries(jobs[p]))
    BY <2>1, AtBackupStep DEF Restoring
  <2>3. PICK f : f = Step(p)[2]
    OBVIOUS
  <2>4. f \in Entries(jobs[p])
    <3>1. CASE Step(p)[1] = "rmtree"
      <4>1. <<"copy", f>> \in Pending(jobs[p].todo)
        BY <2>2, <2>3, <3>1 DEF Consistent
      <4>. QED  BY <2>2, <4>1 DEF Holds, Restoring
    <3>2. CASE Step(p)[1] # "rmtree"
      BY <2>1, <2>2, <2>3, <3>2
    <3>. QED  BY <3>1, <3>2
  <2>5. f \in File /\ Step(p) = <<Step(p)[1], f>>
    BY <2>2, <2>3, <2>4 DEF Entries, RestoredEntries, WorkStep
  <2>6. /\ jobs'[p] = [jobs[p] EXCEPT !.todo = Tail(@)]
        /\ \A g \in File : g # f => Root'[g] = Root[g]
        /\ Step(p)[1] \in {"copy", "upload"} => Root'[f] = jobs[p].source.files[f]
    <3>1. CASE remove_tree(p)
      <4>1. Step(p)[1] = "rmtree"
        BY <3>1 DEF remove_tree
      <4>. QED  BY <2>3, <3>1, <4>1, remove_treeFits
    <3>2. CASE copy_entry(p)  BY <2>3, <2>5, <3>2, copy_entryFits
    <3>3. CASE upload_entry(p)  BY <2>3, <2>5, <3>3, upload_entryFits
    <3>. QED  BY <1>4, <3>1, <3>2, <3>3
  <2>. QED  BY <2>1, <2>2, <2>4, <2>5, <2>6, RestoreWrites
<1>5. CASE restore_users(p)
  <2>1. Step(p)[1] = "users" /\ "users" \in BackupStepName
    BY <1>5 DEF restore_users, BackupStepName
  <2>2. Restoring(p)
    BY <2>1, AtBackupStep DEF Restoring
  <2>. QED  BY <1>5, <2>2, RestoreReadsUsers
<1>. QED  BY <1>1, <1>2, <1>3, <1>4, <1>5 DEF BackupStep

LEMMA RestoresNext ==
    ASSUME Types, RestoresFit, [Next]_vars
    PROVE  RestoresFit'
<1>1. target' = target
  BY TargetKept
<1>2. SUFFICES ASSUME NEW q \in Proc, Restoring(q)' PROVE RestoreFits(q)'
  BY DEF RestoresFit
<1>3. CASE Spared(q)
  <2>1. Restoring(q)
    BY <1>2, <1>3 DEF Restoring, Spared
  <2>. QED  BY <1>1, <1>3, <2>1, RestoreSpared DEF RestoresFit
<1>4. CASE Own(q)
  <2>1. CASE \E request \in Requests : Begin(q, request)
    BY <1>2, <2>1, RestoreBegins
  <2>2. CASE DeployStep(q)
    BY <1>2, <2>2, DeploysOnly DEF Restoring
  <2>3. CASE BackupStep(q)
    BY <1>2, <2>3, RestoreGoesOn DEF RestoresFit
  <2>4. CASE Finish(q) \/ Stop(q) \/ CopyTorn(q) \/ Refused(q)
    <3>1. jobs'[q] = Idle
      <4>1. Stop(q) \/ Refused(q) => End(q)
        BY DEF Stop, Refused
      <4>. QED  BY <2>4, <4>1, FinishFits, EndFits, CopyTornFits
    <3>. QED  BY <1>2, <3>1, IdleFits DEF Restoring
  <2>. QED  BY <1>4, <2>1, <2>2, <2>3, <2>4 DEF Own
<1>. QED  BY <1>3, <1>4, StepKinds, OwnFits, OutsideFits

(* "done" is the last step of a command. *)
LEMMA OnlyDone ==
    ASSUME Types, NEW p \in Proc, Step(p)[1] = "done"
    PROVE  Pending(jobs[p].todo) = {<<"done", Step(p)[2]>>}
<1>1. Step(p)[1] \in StepName /\ JobTypes
  BY DEF StepName, Types
<1>2. /\ jobs[p].todo # <<>> /\ jobs[p].todo \in Seq(WorkStep) /\ Head(jobs[p].todo) = Step(p)
      /\ Consistent(jobs[p].todo) /\ Step(p) \in WorkStep
  BY <1>1, StepTaken
<1>3. /\ Step(p) \in Pending(jobs[p].todo)
      /\ \A s \in Pending(Tail(jobs[p].todo)) : Rank(Step(p)) < Rank(s)
      /\ Pending(Tail(jobs[p].todo)) = Pending(jobs[p].todo) \ {Step(p)}
      /\ \A s \in Pending(jobs[p].todo) : s \in WorkStep
  BY <1>2, PoppedConsistent, Popped DEF Consistent
<1>4. Rank(Step(p)) = 14 /\ \A s \in WorkStep : Rank(s) \in Nat /\ Rank(s) <= 14
  BY Ranks DEF Rank
<1>5. Pending(Tail(jobs[p].todo)) = {}
  BY <1>3, <1>4
<1>6. Step(p) = <<"done", Step(p)[2]>>
  BY <1>2 DEF WorkStep
<1>. QED  BY <1>3, <1>5, <1>6

LEMMA RestoresTold ==
    ASSUME Types, RestoresFit
    PROVE  RestoreRestores /\ RestoreIsUndoable
<1>1. RestoreRestores
  <2>1. SUFFICES ASSUME NEW p \in Proc, Restoring(p), Step(p)[1] = "done"
                 PROVE  /\ \A f \in File \ jobs[p].edited :
                             Root[f] = IF f \in Entries(jobs[p]) THEN jobs[p].source.files[f]
                                       ELSE jobs[p].before.files[f]
                        /\ target # "remote_only" /\ "db" \notin jobs[p].edited /\ "config" \notin jobs[p].edited =>
                             db = IF Root.config.provider = "db" /\ jobs[p].source.users # Unread
                                  THEN jobs[p].source.users ELSE jobs[p].before.db
    BY DEF RestoreRestores, Entries
  <2>2. Pending(jobs[p].todo) = {<<"done", Step(p)[2]>>} /\ RestoreFits(p)
    BY <2>1, OnlyDone DEF RestoresFit
  <2>3. /\ \A f : <<"copy", f>> \notin Pending(jobs[p].todo) /\ <<"upload", f>> \notin Pending(jobs[p].todo)
        /\ ~Left(jobs[p].todo, "extract") /\ ~Left(jobs[p].todo, "users")
    BY <2>2 DEF Left
  <2>4. /\ \A f \in File : f \notin Entries(jobs[p]) => Same(p, f)
        /\ \A f \in Entries(jobs[p]) : Replaced(p, f)
        /\ target # "remote_only" =>
             \/ {"db", "config"} \cap jobs[p].edited # {}
             \/ db = IF jobs[p].source.users # Unread /\ Root.config.provider = "db"
                     THEN jobs[p].source.users ELSE jobs[p].before.db
    BY <2>2, <2>3 DEF RestoreFits
  <2>. QED  BY <2>4 DEF Same, Replaced
<1>2. RestoreIsUndoable
  <2>1. SUFFICES ASSUME NEW p \in Proc, Restoring(p), jobs[p].before.files.config \in Config,
                        "config" \notin jobs[p].edited
                 PROVE  /\ \A f \in (IF target = "remote_only" THEN File
                                     ELSE backup_entries(target, jobs[p].before.files,
                                                         jobs[p].before.files.config, TRUE)) \ jobs[p].edited :
                             \/ Root[f] = jobs[p].before.files[f]
                             \/ archives[p] # NoArchive /\ archives[p].files[f] = jobs[p].before.files[f]
                        /\ jobs[p].before.files.config.provider = "db" /\ "db" \notin jobs[p].edited =>
                             db = jobs[p].before.db \/ archives[p].users \in {jobs[p].before.db, Unread}
    BY DEF RestoreIsUndoable
  <2>2. RestoreFits(p)
    BY <2>1 DEF RestoresFit
  <2>3. \A f \in backup_entries(target, jobs[p].before.files, jobs[p].before.files.config, TRUE) : f \in File
    BY DEF backup_entries, File
  <2>4. CASE Untouched(p)
    BY <2>1, <2>3, <2>4 DEF Untouched, Same, SameUsers
  <2>5. CASE ~Untouched(p)
    <3>1. Saved(p) /\ \A f \in File : f \notin Entries(jobs[p]) => Same(p, f)
      BY <2>2, <2>5 DEF RestoreFits
    <3>2. archives[p] \in Archive /\ archives[p] # NoArchive
      BY <3>1, ArchiveAssumption DEF Saved
    <3>3. ASSUME NEW f \in (IF target = "remote_only" THEN File
                            ELSE backup_entries(target, jobs[p].before.files, jobs[p].before.files.config, TRUE)),
                 f \notin jobs[p].edited
          PROVE  Root[f] = jobs[p].before.files[f] \/ archives[p].files[f] = jobs[p].before.files[f]
      <4>1. CASE f = "data" /\ ~jobs[p].flag
        <5>1. f \in File /\ f \notin Entries(jobs[p])
          BY <4>1 DEF Entries, RestoredEntries, File
        <5>. QED  BY <3>1, <3>3, <5>1 DEF Same
      <4>2. CASE ~(f = "data" /\ ~jobs[p].flag)
        BY <2>1, <3>1, <3>3, <4>2 DEF Saved, Saves
      <4>. QED  BY <4>1, <4>2
    <3>4. jobs[p].before.files.config.provider = "db" /\ "db" \notin jobs[p].edited =>
            archives[p].users \in {jobs[p].before.db, Unread}
      BY <2>1, <3>1 DEF Saved
    <3>. QED  BY <3>2, <3>3, <3>4
  <2>. QED  BY <2>4, <2>5
<1>. QED  BY <1>1, <1>2

LEMMA RestoresCorrect == Spec => [](Types /\ RestoresFit)
<1>1. Init => Types /\ RestoresFit
  BY InitFits, IdleFits DEF RestoresFit, Restoring
<1>2. Types /\ RestoresFit /\ [Next]_vars => Types' /\ RestoresFit'
  BY TypesNext, RestoresNext
<1>. QED  BY <1>1, <1>2, PTL DEF Spec

(* A restore that has ended well has put back every entry of its archive   *)
(* that was asked for, with the users of the database that the restored    *)
(* configuration names, and nothing else: whatever commands, edits,        *)
(* uploads, container starts and faults come between its steps.            *)
THEOREM RestoresPutBack == Spec => []RestoreRestores
<1>1. Types /\ RestoresFit => RestoreRestores
  BY RestoresTold
<1>. QED  BY <1>1, RestoresCorrect, PTL

(* At every step of a restore, and wherever it is refused or killed, what  *)
(* it has overwritten of the files the configuration names is in the       *)
(* safety backup it has taken.                                             *)
THEOREM RestoresCanBeUndone == Spec => []RestoreIsUndoable
<1>1. Types /\ RestoresFit => RestoreIsUndoable
  BY RestoresTold
<1>. QED  BY <1>1, RestoresCorrect, PTL
-----------------------------------------------------------------------------
(* Deploys: what a step that changes nothing a deploy wants leaves of what *)
(* deploys have done *)

Forward ==
    /\ Root'["config"] = Root["config"] /\ Root'["users"] = Root["users"]
    /\ Written => Written' /\ Root'["artifact"] = Root["artifact"]
    /\ \A f \in Required : Written /\ Sent(f) => Sent(f)'
    /\ Written /\ (\A f \in Required : Sent(f)) /\ Made => Made'
    /\ Written /\ Mapped => Mapped'
    /\ Written /\ Mapped /\ Stated => Stated'
    /\ Written /\ Mapped /\ Stated /\ Started => Started'

LEMMA RequiredFits ==
    /\ Required \subseteq File \cap {"artifact", "config", "users"}
    /\ "artifact" \in Required /\ "config" \in Required
BY DEF Required, File

LEMMA ForwardSame ==
    ASSUME Types, target' = target,
           \A f \in {"config", "users", "artifact"} : Root'[f] = Root[f] /\ disk'["server"][f] = disk["server"][f],
           container'.template = container.template, rollout' = rollout,
           target \in Kubernetes => View("config")' = View("config") /\ View("users")' = View("users")
    PROVE  Forward
<1>1. Home' = Home /\ Host' = Host
  BY SamePlaces
<1>2. disk'[Host]["artifact"] = disk[Host]["artifact"]
  BY <1>1 DEF Host, Home, Root
<1>3. Required \subseteq {"artifact", "config", "users"}
  BY RequiredFits
<1>4. /\ Written => Written'
      /\ Mapped => Mapped' 
      /\ Stated => Stated'
      /\ Started => Started'
  BY DEF Written, Mapped, Stated, Started, Reaches
<1>5. /\ \A f \in Required : Sent(f) => Sent(f)'
      /\ Made => Made'
  BY <1>1, <1>2, <1>3 DEF Sent, Made
<1>. QED  BY <1>4, <1>5 DEF Forward

(* A deploy goes on, or stays where it is, while what it has done stands. *)
LEMMA DeploySpared ==
    ASSUME Types, Types', NEW q \in Proc, Spared(q), Forward, LoadFits(q), Deploying(q) => DeployFits(q)
    PROVE  LoadFits(q)' /\ (Deploying(q)' => DeployFits(q)')
<1>1. LoadFits(q)'
  <2>1. CASE jobs[q].op \in {"none", "backup"}
    <3>1. jobs'[q].op = jobs[q].op /\ Holds(jobs[q])' /\ target' \in Target
      BY DEF Spared, Types, JobTypes, FileTypes
    <3>2. ~Left(jobs'[q].todo, "render")
      <4>1. \A s \in Pending(jobs'[q].todo) : s[1] # "render"
        BY <2>1, <3>1 DEF Holds, StepNames
      <4>. QED  BY <4>1 DEF Left
    <3>. QED  BY <3>2 DEF LoadFits
  <2>2. CASE jobs[q].op \notin {"none", "backup"}
    BY <2>2 DEF LoadFits, Spared, Forward
  <2>. QED  BY <2>1, <2>2
<1>2. ASSUME Deploying(q)' PROVE DeployFits(q)'
  <2>1. /\ Deploying(q) /\ DeployFits(q) /\ jobs'[q].todo = jobs[q].todo /\ jobs'[q].loaded = jobs[q].loaded
        /\ Consistent(jobs[q].todo)
    BY <1>2 DEF Deploying, Spared, Types, JobTypes, Holds
  <2>2. SUFFICES ASSUME ~Rendering_left(jobs[q].todo)
                 PROVE  /\ Written'
                        /\ \A f \in Required' : <<"rsync", f>> \notin Pending(jobs[q].todo) => Sent(f)'
                        /\ ~Left(jobs[q].todo, "up") => Made'
                        /\ ~Left(jobs[q].todo, "apply") => Mapped'
                        /\ ~Left(jobs[q].todo, "apply") /\ Left(jobs[q].todo, "apply_template") =>
                             jobs[q].loaded = Root'["artifact"]
                        /\ ~Left(jobs[q].todo, "apply_template") => Stated'
                        /\ ~Left(jobs[q].todo, "restart") => Started'
    BY <2>1 DEF DeployFits
  <2>3. Required' = Required
    BY DEF Required, Forward
  <2>4. /\ Written
        /\ \A f \in Required : <<"rsync", f>> \notin Pending(jobs[q].todo) => Sent(f)
        /\ ~Left(jobs[q].todo, "up") => Made
        /\ ~Left(jobs[q].todo, "apply") => Mapped
        /\ ~Left(jobs[q].todo, "apply") /\ Left(jobs[q].todo, "apply_template") => jobs[q].loaded = Root["artifact"]
        /\ ~Left(jobs[q].todo, "apply_template") => Stated
        /\ ~Left(jobs[q].todo, "restart") => Started
    BY <2>1, <2>2 DEF DeployFits
  <2>5. ~Left(jobs[q].todo, "up") => \A f \in Required : <<"rsync", f>> \notin Pending(jobs[q].todo)
    <3>1. Left(jobs[q].todo, "rsync") => Left(jobs[q].todo, "up")
      BY <2>1 DEF Consistent
    <3>. QED  BY <3>1 DEF Left
  <2>6. /\ ~Left(jobs[q].todo, "apply_template") => ~Left(jobs[q].todo, "apply")
        /\ ~Left(jobs[q].todo, "restart") => ~Left(jobs[q].todo, "apply_template")
    BY <2>1 DEF Consistent
  <2>. QED  BY <2>3, <2>4, <2>5, <2>6 DEF Forward
<1>. QED  BY <1>1, <1>2

LEMMA DeliveredStands ==
    ASSUME Forward, Delivered
    PROVE  Delivered'
<1>1. Required' = Required
  BY DEF Required, Forward
<1>. QED  BY <1>1 DEF Delivered, Forward

(* A step of the commands in actors that leaves the others what they have *)
LEMMA Onward ==
    ASSUME Types, Types', DeploysFit, NEW actors \in SUBSET Proc,
           AllFresh' => AllFresh, settled' => settled, settled' /\ AllFresh => AllFresh',
           AllFresh => Forward, LocalFits', \A q \in Proc \ actors : Spared(q),
           AllFresh => \A q \in actors : LoadFits(q)' /\ (Deploying(q)' => DeployFits(q)')
    PROVE  DeploysFit'
<1>1. AllFresh' => \A q \in Proc : LoadFits(q)' /\ (Deploying(q)' => DeployFits(q)')
  BY DeploySpared DEF DeploysFit
<1>2. settled' => AllFresh' /\ Delivered'
  BY DeliveredStands DEF DeploysFit
<1>. QED  BY <1>1, <1>2 DEF DeploysFit

(* A step that changes what a deploy wants *)
LEMMA Disturbed ==
    ASSUME Types', settled' = FALSE, LocalFits',
           AllFresh' => \A q \in Proc : LoadFits(q)' /\ ~Deploying(q)'
    PROVE  DeploysFit'
BY DEF DeploysFit

LEMMA FreshKept ==
    ASSUME NEW changed, changed \cap Desired = {},
           \A q \in Proc : /\ jobs'[q].op = jobs[q].op
                           /\ jobs'[q].edited = jobs[q].edited \/ jobs'[q].edited = jobs[q].edited \cup changed
    PROVE  AllFresh' <=> AllFresh
<1>1. \A q \in Proc : jobs'[q].edited \cap Desired = {} <=> jobs[q].edited \cap Desired = {}
  OBVIOUS
<1>2. Running' = Running /\ \A q \in Running : q \in Proc
  BY DEF Running
<1>. QED  BY <1>1, <1>2 DEF AllFresh, Desired

LEMMA TodoFresh ==
    ASSUME JobTypes, NEW p \in Proc, NEW todo, NEW changed, changed \cap Desired = {},
           jobs' = Noted([jobs EXCEPT ![p].todo = todo], p, changed)
    PROVE  AllFresh' <=> AllFresh
<1>1. jobs \in [Proc -> Job] /\ \A q \in Proc : jobs[q] \in Job
  BY DEF JobTypes
<1>2. ASSUME NEW q \in Proc
      PROVE  /\ jobs'[q].op = jobs[q].op
             /\ jobs'[q].edited = jobs[q].edited \/ jobs'[q].edited = jobs[q].edited \cup changed
  BY <1>1 DEF Noted, Job
<1>. QED  BY <1>2, FreshKept

LEMMA AdvanceFresh ==
    ASSUME JobTypes, NEW p \in Proc, NEW changed, Advance(p, changed), changed \cap Desired = {}
    PROVE  AllFresh' <=> AllFresh
<1>1. jobs' = Noted([jobs EXCEPT ![p].todo = Tail(jobs[p].todo)], p, changed)
  BY DEF Advance
<1>. QED  BY <1>1, TodoFresh

LEMMA NobodyFresh ==
    ASSUME JobTypes, NEW changed, changed \cap Desired = {}, jobs' = Noted(jobs, Nobody, changed)
    PROVE  AllFresh' <=> AllFresh
<1>1. jobs \in [Proc -> Job] /\ \A q \in Proc : jobs[q] \in Job
  BY DEF JobTypes
<1>2. ASSUME NEW q \in Proc
      PROVE  /\ jobs'[q].op = jobs[q].op
             /\ jobs'[q].edited = jobs[q].edited \/ jobs'[q].edited = jobs[q].edited \cup changed
  BY <1>1 DEF Noted, Job
<1>. QED  BY <1>2, FreshKept

LEMMA NotedDisturbs ==
    ASSUME NEW js, NEW p, NEW changed, jobs' = Noted(js, p, changed),
           \A q \in Proc \ {p} : js[q] \in Job,
           changed \cap Desired # {}, AllFresh', NEW q \in Proc, q # p
    PROVE  jobs'[q].op \in {"none", "backup"}
<1>1. SUFFICES ASSUME js[q].op \notin {"none", "backup"} PROVE FALSE
  BY DEF Noted
<1>2. jobs'[q] = [js[q] EXCEPT !.edited = @ \cup changed] /\ js[q] \in Job
  BY <1>1 DEF Noted
<1>3. jobs'[q].op = js[q].op /\ jobs'[q].edited = js[q].edited \cup changed
  BY <1>2 DEF Job
<1>4. q \in Running' /\ jobs'[q].edited \cap Desired # {}
  BY <1>1, <1>3 DEF Running
<1>. QED  BY <1>4 DEF AllFresh, Desired

LEMMA NotDeploying ==
    ASSUME Types', NEW q \in Proc, jobs'[q].op \in {"none", "backup", "restore", "undo"}
    PROVE  LoadFits(q)' /\ ~Deploying(q)'
<1>1. Holds(jobs[q])' /\ target' \in Target
  BY DEF Types, JobTypes, FileTypes
<1>2. \A s \in Pending(jobs'[q].todo) : s[1] # "render"
  BY <1>1 DEF Holds, StepNames
<1>. QED  BY <1>2 DEF LoadFits, Left, Deploying

(* The first step of a deploy's commands, and what it finds done *)
LEMMA AtDeployStep ==
    ASSUME Types, NEW p \in Proc, Step(p)[1] \in DeployStepName \cup {"done"}
    PROVE  /\ jobs[p] \in Job /\ Holds(jobs[p]) /\ jobs[p].todo # <<>> /\ jobs[p].todo \in Seq(WorkStep)
           /\ Head(jobs[p].todo) = Step(p) /\ Consistent(jobs[p].todo) /\ Step(p) \in WorkStep
           /\ Step(p)[1] \in StepNames(jobs[p].op)
           /\ Step(p)[1] \in {"plan", "apply_plan", "rsync", "test", "up"} => jobs[p].op = "deploy"
           /\ Step(p)[1] \in {"apply", "apply_template", "restart"} => Deploying(p) /\ target \in Kubernetes
           /\ Step(p)[1] \in {"up", "rsync", "test"} => target \notin Kubernetes
           /\ Step(p)[1] = "rsync" => target = "synced"
           /\ Step(p)[1] \notin {"plan", "apply_plan", "load", "render"} =>
                ~Rendering_left(jobs[p].todo) /\ ~Rendering_left(Tail(jobs[p].todo))
           /\ Step(p)[1] \in {"delete_map", "delete"} => jobs[p].op = "delete"
           /\ Step(p)[1] \in {"load", "render"} => jobs[p].op \in {"apply", "delete"} /\ target \in Kubernetes
<1>1. Step(p)[1] \in StepName /\ JobTypes /\ target \in Target
  BY DEF StepName, Types, FileTypes
<1>2. /\ jobs[p] \in Job /\ Holds(jobs[p]) /\ jobs[p].todo # <<>> /\ jobs[p].todo \in Seq(WorkStep)
      /\ Head(jobs[p].todo) = Step(p) /\ Consistent(jobs[p].todo) /\ Step(p) \in WorkStep
      /\ Step(p)[1] \in StepNames(jobs[p].op) /\ jobs[p].op # "none"
  BY <1>1, StepTaken
<1>3. /\ Step(p)[1] \in {"plan", "apply_plan", "rsync", "test", "up"} => jobs[p].op = "deploy"
      /\ Step(p)[1] \in {"apply", "apply_template", "restart"} => jobs[p].op \in {"deploy", "apply"}
      /\ Step(p)[1] \in {"delete_map", "delete"} => jobs[p].op = "delete"
      /\ Step(p)[1] \in {"load", "render"} => jobs[p].op \in {"apply", "delete"}
  BY <1>2 DEF StepNames
<1>4. /\ Step(p)[1] \in {"apply", "apply_template", "restart"} => target \in Kubernetes
      /\ Step(p)[1] \in {"up", "rsync", "test"} => target \notin Kubernetes
      /\ Step(p)[1] = "rsync" => target = "synced"
      /\ Step(p)[1] \in {"load", "render"} => target \in Kubernetes
  BY <1>1, <1>2, <1>3 DEF StepNames, Holds, Kubernetes, Target
<1>5. ASSUME Step(p)[1] \notin {"plan", "apply_plan", "load", "render"}
      PROVE  ~Rendering_left(jobs[p].todo) /\ ~Rendering_left(Tail(jobs[p].todo))
  <2>1. /\ \A s \in Pending(Tail(jobs[p].todo)) : Rank(Step(p)) < Rank(s)
        /\ Pending(Tail(jobs[p].todo)) = Pending(jobs[p].todo) \ {Step(p)}
        /\ Step(p)[1] = "rsync" => Step(p)[2] \in File
    BY <1>2, PoppedConsistent DEF Consistent
  <2>2. Rank(Step(p)) \in Nat /\ Rank(Step(p)) >= 3
    BY <1>5, <2>1 DEF Rank, Turn, DeployStepName
  <2>3. \A s : s[1] \in {"plan", "apply_plan", "load", "render"} => Rank(s) \in Nat /\ Rank(s) <= 2
    BY DEF Rank
  <2>4. \A s \in Pending(jobs[p].todo) : s[1] \notin {"plan", "apply_plan", "load", "render"}
    BY <1>5, <2>1, <2>2, <2>3
  <2>. QED  BY <2>1, <2>4 DEF Rendering_left, Left
<1>. QED  BY <1>2, <1>3, <1>4, <1>5 DEF Deploying

(* The deployment file is written from the configuration as it is. *)
LEMMA ForwardWrite ==
    ASSUME Types, target' = target, target # "remote_only", container' = container, rollout' = rollout,
           disk' = [disk EXCEPT ![Home]["artifact"] = Rendered(target, Root["config"], Root["users"])]
    PROVE  Forward /\ Written'
<1>1. disk \in [Place -> Files] /\ target \in Target /\ Home \in Place /\ "artifact" \in File
      /\ \A place \in Place : disk[place] \in [File -> AnyContent]
  BY DiskFits, FilesFit DEF Types, FileTypes, File
<1>2. /\ Root' = disk'[Home] /\ Home' = Home /\ Host' = Host
  BY SamePlaces
<1>3. /\ Root'["artifact"] = Rendered(target, Root["config"], Root["users"])
      /\ Root'["config"] = Root["config"] /\ Root'["users"] = Root["users"]
  BY <1>1, <1>2 DEF Root, File
<1>4. Written'
  BY <1>3 DEF Written
<1>5. CASE Written
  <2>1. disk[Home]["artifact"] = Rendered(target, Root["config"], Root["users"])
    BY <1>5 DEF Written, Root
  <2>2. disk' = disk
    BY <1>1, <2>1
  <2>3. \A f \in {"config", "users"} : View(f)' = View(f)
    BY <1>2, <2>2 DEF View
  <2>. QED  BY <1>2, <1>4, <2>2, <2>3, ForwardSame DEF Root
<1>6. CASE ~Written
  BY <1>3, <1>4, <1>6 DEF Forward
<1>. QED  BY <1>4, <1>5, <1>6

LEMMA LocalKept ==
    ASSUME LocalFits, target' = target,
           target = "local" => container'.held["config"] = container.held["config"]
                               /\ container'.held["users"] = container.held["users"]
    PROVE  LocalFits'
BY DEF LocalFits

LEMMA PlanDeploys ==
    ASSUME Types, DeploysFit, NEW p \in Proc, deployment_plan(p)
    PROVE  DeploysFit'
<1>1. Step(p)[1] = "plan" /\ "plan" \in DeployStepName /\ target' = target
      /\ container' = container /\ rollout' = rollout /\ settled' = settled /\ JobTypes
  BY DEF deployment_plan, DeployStepName, Unchanged, Types
<1>2. /\ jobs[p] \in Job /\ jobs[p].todo # <<>> /\ jobs[p].todo \in Seq(WorkStep) /\ jobs[p].op = "deploy"
      /\ Head(jobs[p].todo) = Step(p) /\ Consistent(jobs[p].todo) /\ Holds(jobs[p])
  BY <1>1, AtDeployStep
<1>3. Types' /\ \A q \in Proc \ {p} : Spared(q)
  BY deployment_planFits
<1>4. PICK changed : Advance(p, changed) /\ changed \in {{}, {"artifact"}}
  BY DEF deployment_plan
<1>5. AllFresh' <=> AllFresh
  BY <1>1, <1>4, AdvanceFresh DEF Desired
<1>6. jobs'[p] = [jobs[p] EXCEPT !.todo = Tail(@)]
  <2>1. jobs' = Noted([jobs EXCEPT ![p].todo = Tail(jobs[p].todo)], p, changed)
    BY <1>4 DEF Advance
  <2>. QED  BY <1>1, <2>1 DEF Noted, JobTypes
<1>7. Forward
  <2>1. CASE target \in {"local", "synced"}
    <3>1. disk' = [disk EXCEPT ![Home]["artifact"] = Rendered(target, Root["config"], Root["users"])]
      BY <2>1 DEF deployment_plan, write_artifact
    <3>. QED  BY <1>1, <2>1, <3>1, ForwardWrite
  <2>2. CASE target \notin {"local", "synced"}
    <3>1. disk' = disk
      BY <2>2 DEF deployment_plan
    <3>2. \A f \in {"config", "users"} : View(f)' = View(f)
      BY <1>1, <3>1, SamePlaces DEF View
    <3>. QED  BY <1>1, <3>1, <3>2, SamePlaces, ForwardSame DEF Root
  <2>. QED  BY <2>1, <2>2
<1>8. LoadFits(p)' /\ DeployFits(p)'
  <2>1. jobs'[p].todo = Tail(jobs[p].todo) /\ jobs'[p].op = "deploy"
    BY <1>2, <1>6 DEF Job
  <2>2. Left(Tail(jobs[p].todo), "apply_plan")
    BY <1>1, <1>2, PoppedConsistent DEF Consistent, Left, StepName, DeployStepName
  <2>3. ~Left(Tail(jobs[p].todo), "render")
    <3>1. \A s \in Pending(Tail(jobs[p].todo)) : s[1] \in StepNames("deploy")
      BY <1>2, PoppedConsistent DEF Holds
    <3>. QED  BY <3>1 DEF Left, StepNames, Types, FileTypes, Target
  <2>. QED  BY <2>1, <2>2, <2>3 DEF DeployFits, LoadFits, Rendering_left
<1>9. LocalFits'
  BY <1>1, LocalKept DEF DeploysFit
<1>10. \A q \in {p} : LoadFits(q)' /\ (Deploying(q)' => DeployFits(q)')
  BY <1>8
<1>11. {p} \in SUBSET Proc
  OBVIOUS
<1>. QED  BY <1>1, <1>3, <1>5, <1>7, <1>9, <1>10, <1>11, Onward

(* A command alone takes a step and nothing that a deploy wants changes. *)
LEMMA Alone ==
    ASSUME Types, Types', DeploysFit, NEW p \in Proc, AllFresh' <=> AllFresh, settled' = settled,
           AllFresh => Forward, LocalFits', \A q \in Proc \ {p} : Spared(q),
           AllFresh => LoadFits(p)' /\ (Deploying(p)' => DeployFits(p)')
    PROVE  DeploysFit'
<1>1. {p} \in SUBSET Proc /\ (AllFresh => \A q \in {p} : LoadFits(q)' /\ (Deploying(q)' => DeployFits(q)'))
  OBVIOUS
<1>. QED  BY <1>1, Onward

(* A deploy does its next step after those that write the deployment file. *)
LEMMA Delivering ==
    ASSUME Types, NEW p \in Proc, Step(p)[1] \in {"rsync", "test", "up", "apply", "apply_template", "restart"},
           jobs'[p].todo = Tail(jobs[p].todo), DeployFits(p), Forward,
           \A f \in File : Step(p) = <<"rsync", f>> => Sent(f)',
           Step(p)[1] = "up" /\ Written /\ (\A f \in Required : Sent(f)) => Made',
           Step(p)[1] = "apply" /\ Written => Mapped',
           jobs'[p].loaded = IF Step(p)[1] = "apply" THEN Root'["artifact"] ELSE jobs[p].loaded,
           Step(p)[1] = "apply_template" /\ Written /\ Mapped /\ jobs[p].loaded = Root["artifact"] => Stated',
           Step(p)[1] = "restart" /\ Written /\ Mapped /\ Stated => Started'
    PROVE  LoadFits(p)' /\ DeployFits(p)'
<1>. DEFINE s == Step(p)
            todo == jobs[p].todo
            rest == Tail(jobs[p].todo)
<1>1. /\ todo # <<>> /\ todo \in Seq(WorkStep) /\ Head(todo) = s /\ Consistent(todo)
      /\ ~Rendering_left(todo) /\ ~Rendering_left(rest)
  BY AtDeployStep DEF DeployStepName
<1>2. /\ Consistent(rest) /\ Pending(rest) = Pending(todo) \ {s}
      /\ \A n \in StepName : Left(todo, n) <=> Left(rest, n) \/ s[1] = n
      /\ s[1] = "apply_template" => ~Left(rest, "apply_template")
      /\ s[1] \in {"apply_template", "restart"} => ~Left(todo, "apply")
      /\ s[1] = "restart" => ~Left(todo, "apply_template")
      /\ s \in WorkStep
  BY <1>1, PoppedConsistent
<1>3. {"rsync", "test", "up", "apply", "apply_template", "restart"} \subseteq StepName
  BY DEF StepName, DeployStepName
<1>4. /\ Written
      /\ \A f \in Required : <<"rsync", f>> \notin Pending(todo) => Sent(f)
      /\ ~Left(todo, "up") => Made
      /\ ~Left(todo, "apply") => Mapped
      /\ ~Left(todo, "apply") /\ Left(todo, "apply_template") => jobs[p].loaded = Root["artifact"]
      /\ ~Left(todo, "apply_template") => Stated
      /\ ~Left(todo, "restart") => Started
  BY <1>1 DEF DeployFits
<1>5. Required' = Required /\ Written' /\ Root'["artifact"] = Root["artifact"]
  BY <1>4 DEF Required, Forward
<1>6. ASSUME NEW f \in Required, <<"rsync", f>> \notin Pending(rest) PROVE Sent(f)'
  <2>1. CASE <<"rsync", f>> \in Pending(todo)
    <3>1. s = <<"rsync", f>> /\ f \in File
      BY <1>2, <1>6, <2>1, RequiredFits
    <3>. QED  BY <3>1
  <2>2. CASE <<"rsync", f>> \notin Pending(todo)
    BY <1>4, <2>2 DEF Forward
  <2>. QED  BY <2>1, <2>2
<1>7. ASSUME ~Left(rest, "up") PROVE Made'
  <2>1. ~Left(rest, "rsync")
    BY <1>2, <1>7 DEF Consistent
  <2>2. s[1] # "rsync"
    <3>1. s[1] = "rsync" => Left(todo, "rsync") /\ s[1] # "up"
      BY <1>2, <1>3
    <3>2. Left(todo, "rsync") => Left(todo, "up")
      BY <1>1 DEF Consistent
    <3>. QED  BY <1>2, <1>3, <1>7, <3>1, <3>2
  <2>3. \A f \in Required : Sent(f)
    <3>1. ~Left(todo, "rsync")
      BY <1>2, <1>3, <2>1, <2>2
    <3>2. \A f \in Required : <<"rsync", f>> \notin Pending(todo)
      BY <3>1 DEF Left
    <3>. QED  BY <1>4, <3>2
  <2>4. CASE s[1] = "up"
    BY <1>4, <2>3, <2>4
  <2>5. CASE s[1] # "up"
    BY <1>2, <1>3, <1>4, <1>7, <2>3, <2>5 DEF Forward
  <2>. QED  BY <2>4, <2>5
<1>8. ASSUME ~Left(rest, "apply") PROVE Mapped'
  BY <1>2, <1>3, <1>4, <1>8 DEF Forward
<1>9. ASSUME ~Left(rest, "apply"), Left(rest, "apply_template") PROVE jobs'[p].loaded = Root'["artifact"]
  BY <1>2, <1>3, <1>4, <1>5, <1>9
<1>10. ASSUME ~Left(rest, "apply_template") PROVE Stated'
  <2>1. ~Left(rest, "apply")
    BY <1>2, <1>10 DEF Consistent
  <2>2. CASE s[1] = "apply_template"
    <3>1. Left(todo, "apply_template") /\ ~Left(todo, "apply")
      BY <1>2, <1>3, <2>2
    <3>. QED  BY <1>4, <2>2, <3>1
  <2>3. CASE s[1] # "apply_template"
    <3>1. ~Left(todo, "apply_template")
      BY <1>2, <1>3, <1>10, <2>3
    <3>2. ~Left(todo, "apply")
      BY <1>1, <3>1 DEF Consistent
    <3>. QED  BY <1>4, <3>1, <3>2 DEF Forward
  <2>. QED  BY <2>2, <2>3
<1>11. ASSUME ~Left(rest, "restart") PROVE Started'
  <2>1. CASE s[1] = "restart"
    BY <1>2, <1>4, <2>1
  <2>2. CASE s[1] # "restart"
    <3>1. ~Left(todo, "restart")
      BY <1>2, <1>3, <1>11, <2>2
    <3>2. ~Left(todo, "apply_template") /\ ~Left(todo, "apply")
      BY <1>1, <3>1 DEF Consistent
    <3>. QED  BY <1>4, <3>1, <3>2 DEF Forward
  <2>. QED  BY <2>1, <2>2
<1>12. ~Left(rest, "render")
  BY <1>1 DEF Rendering_left
<1>. HIDE DEF s, todo
<1>. QED  BY <1>5, <1>6, <1>7, <1>8, <1>9, <1>10, <1>11, <1>12 DEF DeployFits, LoadFits

LEMMA EditedKept ==
    ASSUME \A q \in Proc : jobs'[q].op = jobs[q].op /\ jobs'[q].edited = jobs[q].edited
    PROVE  AllFresh' <=> AllFresh
<1>1. Running' = Running /\ \A q \in Running : q \in Proc
  BY DEF Running
<1>. QED  BY <1>1 DEF AllFresh, Desired

LEMMA AdvanceOwn ==
    ASSUME JobTypes, NEW p \in Proc, NEW changed, Advance(p, changed)
    PROVE  /\ jobs'[p].todo = Tail(jobs[p].todo) /\ jobs'[p].op = jobs[p].op
           /\ jobs'[p].loaded = jobs[p].loaded /\ jobs'[p].edited = jobs[p].edited
<1>1. jobs' = Noted([jobs EXCEPT ![p].todo = Tail(jobs[p].todo)], p, changed) /\ jobs[p] \in Job
  BY DEF Advance, JobTypes
<1>2. jobs'[p] = [jobs[p] EXCEPT !.todo = Tail(@)]
  BY <1>1 DEF Noted, JobTypes
<1>. QED  BY <1>1, <1>2 DEF Job

LEMMA ApplyPlanDeploys ==
    ASSUME Types, DeploysFit, NEW p \in Proc, apply_deployment_plan(p)
    PROVE  DeploysFit'
<1>. DEFINE todo == deploy_commands(Root.config) \o Do(<<"done">>)
<1>1. /\ Step(p)[1] = "apply_plan" /\ "apply_plan" \in DeployStepName /\ target' = target
      /\ container' = container /\ rollout' = rollout /\ settled' = settled /\ JobTypes /\ target \in Target
      /\ jobs' = Noted([jobs EXCEPT ![p].todo = todo], p, {"artifact"})
  BY DEF apply_deployment_plan, DeployStepName, Unchanged, Types, FileTypes
<1>2. jobs[p] \in Job /\ jobs[p].op = "deploy"
  BY <1>1, AtDeployStep
<1>3. Types' /\ \A q \in Proc \ {p} : Spared(q)
  BY apply_deployment_planFits
<1>4. PICK commands_left : commands_left = todo
  OBVIOUS
<1>5. /\ \A s \in Pending(commands_left) : s[1] \in StepNames("deploy") \ {"plan", "apply_plan"}
      /\ target = "synced" => /\ <<"rsync", "artifact">> \in Pending(commands_left)
                              /\ <<"rsync", "config">> \in Pending(commands_left)
                              /\ Root.config.provider = "file" => <<"rsync", "users">> \in Pending(commands_left)
      /\ target \in Kubernetes => Left(commands_left, "apply") /\ Left(commands_left, "apply_template")
                                  /\ Left(commands_left, "restart")
      /\ target \notin Kubernetes => Left(commands_left, "up")
  BY <1>1, <1>4, DeployCommands
<1>. HIDE DEF todo
<1>6. jobs'[p].todo = commands_left /\ jobs'[p].op = "deploy"
  <2>1. jobs'[p] = [jobs[p] EXCEPT !.todo = commands_left]
    BY <1>1, <1>4 DEF Noted, JobTypes
  <2>. QED  BY <1>2, <2>1 DEF Job
<1>7. AllFresh' <=> AllFresh
  BY <1>1, TodoFresh DEF Desired
<1>8. Forward /\ Written'
  <2>1. CASE target = "remote_only"
    <3>1. disk' = disk
      BY <2>1 DEF apply_deployment_plan
    <3>2. \A f \in {"config", "users"} : View(f)' = View(f)
      BY <1>1, <3>1, SamePlaces DEF View
    <3>. QED  BY <1>1, <2>1, <3>1, <3>2, SamePlaces, ForwardSame DEF Root, Written
  <2>2. CASE target # "remote_only"
    <3>1. disk' = [disk EXCEPT ![Home]["artifact"] = Rendered(target, Root["config"], Root["users"])]
      BY <2>2 DEF apply_deployment_plan, write_artifact
    <3>. QED  BY <1>1, <2>2, <3>1, ForwardWrite
  <2>. QED  BY <2>1, <2>2
<1>9. LoadFits(p)' /\ DeployFits(p)'
  <2>1. ~Left(commands_left, "render")
    BY <1>1, <1>5 DEF Left, StepNames, Target
  <2>2. Required' = Required
    BY <1>8 DEF Required, Forward
  <2>3. ASSUME NEW f \in Required, <<"rsync", f>> \notin Pending(commands_left) PROVE Sent(f)'
    BY <1>1, <1>5, <2>3 DEF Required, Sent
  <2>4. target \in Kubernetes => Made'
    BY <1>1 DEF Made
  <2>5. target \notin Kubernetes => Mapped' /\ Stated' /\ Started'
    BY <1>1 DEF Mapped, Stated, Started
  <2>6. target \notin Kubernetes => ~Left(commands_left, "apply_template")
    BY <1>1, <1>5 DEF Left, StepNames, Target, Kubernetes
  <2>. QED  BY <1>5, <1>6, <1>8, <2>1, <2>2, <2>3, <2>4, <2>5, <2>6 DEF DeployFits, LoadFits
<1>10. LocalFits'
  BY <1>1, LocalKept DEF DeploysFit
<1>. QED  BY <1>1, <1>3, <1>7, <1>8, <1>9, <1>10, Alone

LEMMA LoadDeploys ==
    ASSUME Types, DeploysFit, NEW p \in Proc, LoadConfig(p)
    PROVE  DeploysFit'
<1>1. /\ Step(p)[1] = "load" /\ "load" \in DeployStepName /\ target' = target /\ disk' = disk
      /\ container' = container /\ rollout' = rollout /\ settled' = settled /\ jobs \in [Proc -> Job]
      /\ jobs' = [jobs EXCEPT ![p].todo = Tail(@), ![p].loaded = Root["config"]]
  BY DEF LoadConfig, DeployStepName, Unchanged, Types, JobTypes
<1>2. /\ jobs[p] \in Job /\ jobs[p].todo # <<>> /\ jobs[p].todo \in Seq(WorkStep)
      /\ Head(jobs[p].todo) = Step(p) /\ Consistent(jobs[p].todo)
  BY <1>1, AtDeployStep
<1>3. Types' /\ \A q \in Proc \ {p} : Spared(q)
  BY LoadConfigFits
<1>4. jobs'[p].todo = Tail(jobs[p].todo) /\ jobs'[p].loaded = Root["config"]
  BY <1>1, <1>2 DEF Job
<1>5. AllFresh' <=> AllFresh
  <2>1. \A q \in Proc : jobs'[q].op = jobs[q].op /\ jobs'[q].edited = jobs[q].edited
    BY <1>1 DEF Job
  <2>. QED  BY <2>1, EditedKept
<1>6. Home' = Home /\ Host' = Host /\ Root' = Root
  BY <1>1, SamePlaces DEF Root
<1>7. Forward
  <2>1. \A f \in {"config", "users"} : View(f)' = View(f)
    BY <1>1, <1>6 DEF View
  <2>. QED  BY <1>1, <1>6, <2>1, ForwardSame
<1>8. LoadFits(p)' /\ DeployFits(p)'
  <2>1. Left(Tail(jobs[p].todo), "render")
    <3>1. /\ \A n \in StepName : Left(jobs[p].todo, n) <=> Left(Tail(jobs[p].todo), n) \/ Step(p)[1] = n
          /\ {"load", "render"} \subseteq StepName
      BY <1>2, PoppedConsistent DEF StepName, DeployStepName
    <3>. QED  BY <1>1, <1>2, <3>1 DEF Consistent
  <2>. QED  BY <1>4, <1>6, <2>1 DEF LoadFits, DeployFits, Rendering_left
<1>9. LocalFits'
  BY <1>1, LocalKept DEF DeploysFit
<1>. QED  BY <1>1, <1>3, <1>5, <1>7, <1>8, <1>9, Alone

LEMMA RenderDeploys ==
    ASSUME Types, DeploysFit, NEW p \in Proc, RenderLoaded(p)
    PROVE  DeploysFit'
<1>1. /\ Step(p)[1] = "render" /\ "render" \in DeployStepName /\ target' = target
      /\ container' = container /\ rollout' = rollout /\ settled' = settled /\ JobTypes
      /\ Advance(p, {"artifact"})
      /\ disk' = [disk EXCEPT ![Home]["artifact"] = Rendered(target, jobs[p].loaded, Root["users"])]
  BY DEF RenderLoaded, write_artifact, DeployStepName, Unchanged, Types
<1>2. /\ jobs[p] \in Job /\ jobs[p].todo # <<>> /\ jobs[p].todo \in Seq(WorkStep) /\ Holds(jobs[p])
      /\ Head(jobs[p].todo) = Step(p) /\ Consistent(jobs[p].todo) /\ target \in Kubernetes
      /\ jobs[p].op \in {"apply", "delete"}
  BY <1>1, AtDeployStep
<1>3. Types' /\ \A q \in Proc \ {p} : Spared(q)
  BY RenderLoadedFits
<1>4. jobs'[p].todo = Tail(jobs[p].todo) /\ jobs'[p].op = jobs[p].op
  BY <1>1, AdvanceOwn
<1>5. AllFresh' <=> AllFresh
  BY <1>1, AdvanceFresh DEF Desired
<1>6. /\ \A n \in StepName : Left(jobs[p].todo, n) <=> Left(Tail(jobs[p].todo), n) \/ Step(p)[1] = n
      /\ ~Left(Tail(jobs[p].todo), "render") /\ ~Left(jobs[p].todo, "load")
      /\ Consistent(Tail(jobs[p].todo))
      /\ {"load", "render", "apply"} \subseteq StepName
  BY <1>1, <1>2, PoppedConsistent DEF StepName, DeployStepName
<1>7. ASSUME AllFresh
      PROVE  Forward /\ Written'
  <2>1. jobs[p].loaded = Root["config"]
    BY <1>1, <1>6, <1>7 DEF DeploysFit, LoadFits
  <2>. QED  BY <1>1, <1>2, <2>1, ForwardWrite DEF Kubernetes
<1>8. LoadFits(p)'
  BY <1>4, <1>6 DEF LoadFits
<1>9. ASSUME AllFresh, Deploying(p)'
      PROVE  DeployFits(p)'
  <2>1. jobs[p].op = "apply"
    BY <1>2, <1>4, <1>9 DEF Deploying
  <2>2. Left(Tail(jobs[p].todo), "apply")
    <3>1. Left(jobs[p].todo, "apply")
      BY <1>1, <1>2, <1>6, <2>1 DEF Holds
    <3>. QED  BY <1>1, <1>6, <3>1
  <2>3. Left(Tail(jobs[p].todo), "apply_template") /\ Left(Tail(jobs[p].todo), "restart")
    BY <1>6, <2>2 DEF Consistent
  <2>4. Made' /\ \A f \in Required' : Sent(f)'
    BY <1>1, <1>2 DEF Made, Sent, Kubernetes
  <2>. QED  BY <1>4, <1>7, <1>9, <2>2, <2>3, <2>4 DEF DeployFits
<1>10. LocalFits'
  BY <1>1, LocalKept DEF DeploysFit
<1>. QED  BY <1>1, <1>3, <1>5, <1>7, <1>8, <1>9, <1>10, Alone

LEMMA RsyncDeploys ==
    ASSUME Types, DeploysFit, NEW p \in Proc, remote_rsync(p)
    PROVE  DeploysFit'
<1>1. /\ Step(p)[1] = "rsync" /\ "rsync" \in DeployStepName /\ target' = target
      /\ rollout' = rollout /\ settled' = settled /\ JobTypes /\ Advance(p, {})
      /\ container \in Container /\ disk \in [Place -> Files] /\ target \in Target
  BY DEF remote_rsync, DeployStepName, Unchanged, Types, FileTypes, ContainerTypes
<1>2. /\ Step(p) \in WorkStep /\ jobs[p].op = "deploy" /\ target = "synced" /\ Consistent(jobs[p].todo)
      /\ jobs[p].todo # <<>> /\ jobs[p].todo \in Seq(WorkStep) /\ Head(jobs[p].todo) = Step(p)
  BY <1>1, AtDeployStep
<1>3. PICK f \in File : f = Step(p)[2]
  BY <1>1, <1>2, PoppedConsistent DEF Consistent
<1>4. Types' /\ \A q \in Proc \ {p} : Spared(q)
  BY remote_rsyncFits
<1>5. /\ jobs'[p].todo = Tail(jobs[p].todo) /\ jobs'[p].op = jobs[p].op /\ jobs'[p].loaded = jobs[p].loaded
  BY <1>1, AdvanceOwn
<1>6. AllFresh' <=> AllFresh
  <2>1. {} \cap Desired = {}
    OBVIOUS
  <2>. QED  BY <1>1, <2>1, AdvanceFresh
<1>7. Home = "project" /\ Host = "server" /\ Home' = Home /\ Host' = Host /\ Root = disk["project"] /\ Root' = disk'["project"]
  BY <1>1, <1>2, SamePlaces DEF Home, Host, Root
<1>8. /\ disk'["project"] = disk["project"] /\ disk'["server"][f] = disk["project"][f]
      /\ \A g \in File \ {f} : disk'["server"][g] = disk["server"][g]
      /\ container'.template = container.template
  <2>1. disk.server = disk["server"] /\ "server" \in Place /\ "project" \in Place /\ disk["server"] \in [File -> AnyContent]
    BY <1>1, DiskFits, FilesFit DEF Place
  <2>2. disk' = [disk EXCEPT !["server"][f] = disk["project"][f]]
    BY <1>3, <1>7 DEF remote_rsync
  <2>3. container'.template = container.template
    <3>1. \/ container' = IF f \in Mounted THEN Detached("server", f) ELSE container
          \/ container' = container
      BY <1>3 DEF remote_rsync
    <3>. QED  BY <1>1, <2>1, <3>1, DetachedFits
  <2>. QED  BY <1>1, <2>1, <2>2, <2>3
<1>9. Sent(f)' /\ Root' = Root
  BY <1>1, <1>7, <1>8 DEF Sent
<1>10. Forward
  <2>1. Written => Written' /\ Root'["artifact"] = Root["artifact"]
    BY <1>1, <1>9 DEF Written
  <2>2. ASSUME NEW g \in Required, Sent(g) PROVE Sent(g)'
    <3>1. g \in File
      BY RequiredFits
    <3>. QED  BY <1>2, <1>1, <1>7, <1>8, <1>9, <2>2, <3>1 DEF Sent
  <2>3. ASSUME \A g \in Required : Sent(g), Made PROVE Made'
    <3>1. Sent("artifact") /\ "artifact" \in File
      BY <2>3, RequiredFits
    <3>2. disk'["server"]["artifact"] = disk["server"]["artifact"]
      <4>1. CASE f = "artifact"  BY <1>1, <1>2, <1>7, <1>8, <3>1, <4>1 DEF Sent
      <4>2. CASE f # "artifact"  BY <1>8, <3>1, <4>2
      <4>. QED  BY <4>1, <4>2
    <3>. QED  BY <1>1, <1>7, <1>8, <2>3, <3>2 DEF Made
  <2>4. Mapped' /\ Stated' /\ Started'
    BY <1>1, <1>2 DEF Mapped, Stated, Started, Kubernetes
  <2>. QED  BY <1>9, <2>1, <2>2, <2>3, <2>4 DEF Forward
<1>11. ASSUME AllFresh PROVE LoadFits(p)' /\ DeployFits(p)'
  <2>1. DeployFits(p)
    BY <1>2, <1>11 DEF DeploysFit, Deploying
  <2>2. \A g \in File : Step(p) = <<"rsync", g>> => Sent(g)'
    BY <1>3, <1>9
  <2>. QED  BY <1>1, <1>5, <1>10, <2>1, <2>2, Delivering
<1>12. LocalFits'
  BY <1>1, <1>2 DEF LocalFits
<1>. QED  BY <1>1, <1>4, <1>6, <1>10, <1>11, <1>12, Alone

LEMMA TestDeploys ==
    ASSUME Types, DeploysFit, NEW p \in Proc, TestRemote(p)
    PROVE  DeploysFit'
<1>1. /\ Step(p)[1] = "test" /\ "test" \in DeployStepName /\ target' = target /\ disk' = disk /\ container' = container
      /\ rollout' = rollout /\ settled' = settled /\ JobTypes /\ Advance(p, {})
  BY DEF TestRemote, DeployStepName, Unchanged, Types
<1>2. jobs[p].op = "deploy"
  BY <1>1, AtDeployStep
<1>3. Types' /\ \A q \in Proc \ {p} : Spared(q)
  BY TestRemoteFits
<1>4. jobs'[p].todo = Tail(jobs[p].todo) /\ jobs'[p].op = jobs[p].op /\ jobs'[p].loaded = jobs[p].loaded
  BY <1>1, AdvanceOwn
<1>5. AllFresh' <=> AllFresh
  <2>1. {} \cap Desired = {}
    OBVIOUS
  <2>. QED  BY <1>1, <2>1, AdvanceFresh
<1>6. Home' = Home /\ Host' = Host /\ Root' = Root
  BY <1>1, SamePlaces DEF Root
<1>7. Forward
  <2>1. \A f \in {"config", "users"} : View(f)' = View(f)
    BY <1>1, <1>6 DEF View
  <2>. QED  BY <1>1, <1>6, <2>1, ForwardSame
<1>8. ASSUME AllFresh PROVE LoadFits(p)' /\ DeployFits(p)'
  <2>1. DeployFits(p)
    BY <1>2, <1>8 DEF DeploysFit, Deploying
  <2>2. \A g \in File : Step(p) = <<"rsync", g>> => Sent(g)'
    BY <1>1
  <2>. QED  BY <1>1, <1>4, <1>7, <2>1, <2>2, Delivering
<1>9. LocalFits'
  BY <1>1, LocalKept DEF DeploysFit
<1>. QED  BY <1>1, <1>3, <1>5, <1>7, <1>8, <1>9, Alone

LEMMA UpDeploys ==
    ASSUME Types, DeploysFit, NEW p \in Proc, compose_up(p)
    PROVE  DeploysFit'
<1>1. /\ Step(p)[1] = "up" /\ "up" \in DeployStepName /\ target' = target /\ db' = db
      /\ rollout' = rollout /\ settled' = settled /\ settled' \in BOOLEAN /\ rollout' \in BOOLEAN /\ JobTypes
      /\ container \in Container /\ disk \in [Place -> Files] /\ target \in Target
  BY DEF compose_up, DeployStepName, Unchanged, Types, FileTypes, ContainerTypes
<1>2. jobs[p].op = "deploy" /\ target \notin Kubernetes
  BY <1>1, AtDeployStep
<1>3. Types' /\ \A q \in Proc \ {p} : Spared(q)
  BY compose_upFits
<1>4. PICK changed : Advance(p, changed) /\ changed \in {{}, Created}
  BY DEF compose_up
<1>5. jobs'[p].todo = Tail(jobs[p].todo) /\ jobs'[p].op = jobs[p].op /\ jobs'[p].loaded = jobs[p].loaded
  BY <1>1, <1>4, AdvanceOwn
<1>6. AllFresh' <=> AllFresh
  <2>1. changed \cap Desired = {}
    BY <1>4 DEF Desired, Created, Directory
  <2>. QED  BY <1>1, <1>4, <2>1, AdvanceFresh
<1>7. Home' = Home /\ Host' = Host /\ Root' = disk'[Home] /\ Home \in Place /\ Host \in Place
  BY <1>1, DiskFits, SamePlaces
<1>8. /\ \A place \in Place, f \in File \ Directory : disk'[place][f] = disk[place][f]
      /\ container'.template = disk[Host].artifact.template
      /\ container' = container \/ \A f \in Mounted : container'.held[f] = Attached
  <2>1. CASE container.template = disk[Host].artifact.template
    BY <2>1 DEF compose_up
  <2>2. CASE container.template # disk[Host].artifact.template
    <3>1. Attach(disk[Host].artifact.template) /\ disk[Host].artifact \in Rendering
      BY <2>2 DEF compose_up
    <3>2. rollout = FALSE
      BY <1>2 DEF Types, ContainerTypes, ClusterFits
    <3>3. container' \in Container
      BY <3>1, ContainerMade DEF Attach, Rendering
    <3>4. \A place \in Place, f \in File \ Directory : disk'[place][f] = disk[place][f]
      BY <1>1, <1>2, <3>1, <3>2, <3>3, WithFoldersStarted DEF Attach
    <3>. QED  BY <3>1, <3>4 DEF Attach
  <2>. QED  BY <2>1, <2>2
<1>9. \A f \in {"config", "users", "artifact"} : /\ f \in File \ Directory
                                                 /\ Root'[f] = Root[f] /\ disk'["server"][f] = disk["server"][f]
                                                 /\ disk'[Host][f] = disk[Host][f]
  <2>1. \A f \in {"config", "users", "artifact"} : f \in File \ Directory
    BY DEF File, Directory
  <2>. QED  BY <1>7, <1>8, <2>1 DEF Place, Root
<1>10. Made'
  <2>1. container'.template = disk'[Host]["artifact"].template
    BY <1>8, <1>9
  <2>. QED  BY <1>7, <2>1 DEF Made
<1>11. Forward
  <2>1. Written => Written'
    BY <1>1, <1>9 DEF Written
  <2>2. ASSUME NEW g \in Required, Sent(g) PROVE Sent(g)'
    BY <1>1, <1>9, <2>2, RequiredFits DEF Sent
  <2>3. Mapped' /\ Stated' /\ Started'
    BY <1>1, <1>2 DEF Mapped, Stated, Started
  <2>. QED  BY <1>9, <1>10, <2>1, <2>2, <2>3 DEF Forward
<1>12. ASSUME AllFresh PROVE LoadFits(p)' /\ DeployFits(p)'
  <2>1. DeployFits(p)
    BY <1>2, <1>12 DEF DeploysFit, Deploying
  <2>2. \A g \in File : Step(p) = <<"rsync", g>> => Sent(g)'
    BY <1>1
  <2>. QED  BY <1>1, <1>5, <1>10, <1>11, <2>1, <2>2, Delivering
<1>13. LocalFits'
  <2>1. LocalFits /\ "config" \in Mounted /\ "users" \in Mounted
    BY DEF DeploysFit, Mounted
  <2>. QED  BY <1>1, <1>8, <2>1 DEF LocalFits
<1>. QED  BY <1>1, <1>3, <1>6, <1>11, <1>12, <1>13, Alone

LEMMA MapDeploys ==
    ASSUME Types, DeploysFit, NEW p \in Proc, apply_config_map(p)
    PROVE  DeploysFit'
<1>1. /\ Step(p)[1] = "apply" /\ "apply" \in DeployStepName /\ target' = target /\ container' = container
      /\ rollout' = rollout /\ settled' = settled /\ jobs \in [Proc -> Job]
      /\ disk \in [Place -> Files] /\ target \in Target
      /\ jobs' = [jobs EXCEPT ![p].todo = Tail(@), ![p].loaded = Root["artifact"]]
  BY DEF apply_config_map, DeployStepName, Unchanged, Types, FileTypes, JobTypes
<1>2. jobs[p] \in Job /\ Deploying(p) /\ target \in Kubernetes
  BY <1>1, AtDeployStep
<1>3. Types' /\ \A q \in Proc \ {p} : Spared(q)
  BY apply_config_mapFits
<1>4. /\ jobs'[p].todo = Tail(jobs[p].todo) /\ jobs'[p].op = jobs[p].op /\ jobs'[p].loaded = Root["artifact"]
      /\ \A q \in Proc : jobs'[q].op = jobs[q].op /\ jobs'[q].edited = jobs[q].edited
  BY <1>1, <1>2 DEF Job
<1>5. AllFresh' <=> AllFresh
  BY <1>4, EditedKept
<1>6. Home = "project" /\ Host = "server" /\ Home' = Home /\ Host' = Host /\ Root = disk["project"] /\ Root' = disk'["project"]
  BY <1>1, <1>2, SamePlaces DEF Home, Host, Root, Kubernetes
<1>7. /\ disk'["project"] = disk["project"] /\ disk'["server"]["artifact"] = disk["server"]["artifact"]
      /\ disk'["server"]["config"] = Root["artifact"].config /\ disk'["server"]["users"] = Root["artifact"].users
  <2>1. disk["server"] \in [File -> AnyContent] /\ "server" \in Place /\ {"config", "users", "artifact"} \subseteq File
    BY <1>1, DiskFits, FilesFit DEF Place, File
  <2>2. disk' = [disk EXCEPT !["server"] = [disk["server"] EXCEPT !["config"] = Root["artifact"].config,
                                                                  !["users"] = Root["artifact"].users]]
    BY <1>1, DiskFits DEF apply_config_map
  <2>. QED  BY <1>1, <2>1, <2>2
<1>8. Root' = Root
  BY <1>6, <1>7
<1>9. ASSUME Written
      PROVE  /\ Mapped'
             /\ Mapped => \A f \in {"config", "users"} : disk'["server"][f] = disk["server"][f]
  <2>1. Root["artifact"].config = Root["config"] /\ Root["artifact"].users = bootstrap_text(Root["config"], Root["users"])
    BY <1>2, <1>9 DEF Written, Rendered, kubernetes_manifests, helm_values_model, Kubernetes
  <2>. QED  BY <1>1, <1>2, <1>7, <1>8, <2>1 DEF Mapped
<1>10. Forward
  <2>1. Written => Written' /\ Root'["artifact"] = Root["artifact"]
    BY <1>1, <1>8 DEF Written
  <2>2. Made' /\ \A g \in Required : Sent(g)'
    BY <1>1, <1>2 DEF Made, Sent, Kubernetes
  <2>3. Stated => Stated'
    BY <1>1, <1>7, <1>8 DEF Stated
  <2>4. ASSUME Written, Mapped, Started PROVE Started'
    <3>1. \A f \in {"config", "users"} : View(f)' = View(f)
      BY <1>1, <1>6, <1>9, <2>4 DEF View
    <3>. QED  BY <1>1, <1>8, <2>4, <3>1 DEF Started, Reaches
  <2>. QED  BY <1>8, <1>9, <2>1, <2>2, <2>3, <2>4 DEF Forward
<1>11. ASSUME AllFresh PROVE LoadFits(p)' /\ DeployFits(p)'
  <2>1. DeployFits(p)
    BY <1>2, <1>11 DEF DeploysFit
  <2>2. \A g \in File : Step(p) = <<"rsync", g>> => Sent(g)'
    BY <1>1
  <2>. QED  BY <1>1, <1>4, <1>8, <1>9, <1>10, <2>1, <2>2, Delivering
<1>12. LocalFits'
  BY <1>1, LocalKept DEF DeploysFit
<1>. QED  BY <1>1, <1>3, <1>5, <1>10, <1>11, <1>12, Alone

LEMMA SetDeploys ==
    ASSUME Types, DeploysFit, NEW p \in Proc, apply_stateful_set(p)
    PROVE  DeploysFit'
<1>1. /\ Step(p)[1] = "apply_template" /\ "apply_template" \in DeployStepName /\ target' = target
      /\ container' = container /\ settled' = settled /\ JobTypes /\ Advance(p, {})
      /\ rollout' = (rollout \/ container.template # jobs[p].loaded.template)
      /\ disk \in [Place -> Files] /\ target \in Target
  BY DEF apply_stateful_set, DeployStepName, Unchanged, Types, FileTypes
<1>2. /\ jobs[p] \in Job /\ Deploying(p) /\ target \in Kubernetes /\ ~Rendering_left(jobs[p].todo)
      /\ jobs[p].todo # <<>> /\ jobs[p].todo \in Seq(WorkStep) /\ Head(jobs[p].todo) = Step(p) /\ Consistent(jobs[p].todo)
  BY <1>1, AtDeployStep
<1>3. Types' /\ \A q \in Proc \ {p} : Spared(q)
  BY apply_stateful_setFits
<1>4. jobs'[p].todo = Tail(jobs[p].todo) /\ jobs'[p].op = jobs[p].op /\ jobs'[p].loaded = jobs[p].loaded
  BY <1>1, AdvanceOwn
<1>5. AllFresh' <=> AllFresh
  <2>1. {} \cap Desired = {}
    OBVIOUS
  <2>. QED  BY <1>1, <2>1, AdvanceFresh
<1>6. Home = "project" /\ Host = "server" /\ Home' = Home /\ Host' = Host /\ Root = disk["project"] /\ Root' = disk'["project"]
  BY <1>1, <1>2, SamePlaces DEF Home, Host, Root, Kubernetes
<1>7. /\ disk'["project"] = disk["project"] /\ disk'["server"]["artifact"] = jobs[p].loaded
      /\ \A f \in {"config", "users"} : disk'["server"][f] = disk["server"][f]
  <2>1. disk["server"] \in [File -> AnyContent] /\ "server" \in Place /\ {"config", "users", "artifact"} \subseteq File
    BY <1>1, DiskFits, FilesFit DEF Place, File
  <2>2. disk' = [disk EXCEPT !["server"] = [disk["server"] EXCEPT !["artifact"] = jobs[p].loaded]]
    BY <1>1, DiskFits DEF apply_stateful_set
  <2>. QED  BY <1>1, <2>1, <2>2
<1>8. Root' = Root
  BY <1>6, <1>7
<1>9. ASSUME jobs[p].loaded = Root["artifact"] PROVE Stated'
  BY <1>1, <1>7, <1>8, <1>9 DEF Stated
<1>10. ASSUME AllFresh PROVE jobs[p].loaded = Root["artifact"] /\ DeployFits(p)
  <2>1. Left(jobs[p].todo, "apply_template") /\ ~Left(jobs[p].todo, "apply")
    BY <1>1, <1>2, PoppedConsistent DEF StepName, DeployStepName
  <2>. QED  BY <1>2, <1>10, <2>1 DEF DeploysFit, DeployFits
<1>11. ASSUME AllFresh PROVE Forward
  <2>1. Written => Written' /\ Root'["artifact"] = Root["artifact"]
    BY <1>1, <1>8 DEF Written
  <2>2. Made' /\ \A g \in Required : Sent(g)'
    BY <1>1, <1>2 DEF Made, Sent, Kubernetes
  <2>3. Mapped => Mapped'
    BY <1>1, <1>7, <1>8 DEF Mapped
  <2>4. Started => Started'
    <3>1. \A f \in {"config", "users"} : View(f)' = View(f)
      BY <1>1, <1>6, <1>7 DEF View
    <3>. QED  BY <1>1, <1>8, <3>1 DEF Started, Reaches
  <2>. QED  BY <1>8, <1>9, <1>10, <1>11, <2>1, <2>2, <2>3, <2>4 DEF Forward
<1>12. ASSUME AllFresh PROVE LoadFits(p)' /\ DeployFits(p)'
  <2>1. \A g \in File : Step(p) = <<"rsync", g>> => Sent(g)'
    BY <1>1
  <2>. QED  BY <1>1, <1>4, <1>9, <1>10, <1>11, <1>12, <2>1, Delivering
<1>13. LocalFits'
  BY <1>1, LocalKept DEF DeploysFit
<1>. QED  BY <1>1, <1>3, <1>5, <1>11, <1>12, <1>13, Alone

LEMMA RestartDeploys ==
    ASSUME Types, DeploysFit, NEW p \in Proc, rollout_restart(p)
    PROVE  DeploysFit'
<1>1. /\ Step(p)[1] = "restart" /\ "restart" \in DeployStepName /\ target' = target /\ disk' = disk
      /\ container' = container /\ settled' = settled /\ rollout' = TRUE /\ JobTypes /\ Advance(p, {})
  BY DEF rollout_restart, DeployStepName, Unchanged, Types
<1>2. Deploying(p) /\ target \in Kubernetes
  BY <1>1, AtDeployStep
<1>3. Types' /\ \A q \in Proc \ {p} : Spared(q)
  BY rollout_restartFits
<1>4. jobs'[p].todo = Tail(jobs[p].todo) /\ jobs'[p].op = jobs[p].op /\ jobs'[p].loaded = jobs[p].loaded
  BY <1>1, AdvanceOwn
<1>5. AllFresh' <=> AllFresh
  <2>1. {} \cap Desired = {}
    OBVIOUS
  <2>. QED  BY <1>1, <2>1, AdvanceFresh
<1>6. Home' = Home /\ Host' = Host /\ Root' = Root
  BY <1>1, SamePlaces DEF Root
<1>7. Started' /\ (Stated => Stated')
  BY <1>1, <1>6 DEF Started, Stated
<1>8. Forward
  <2>1. /\ Written => Written'
        /\ Mapped => Mapped'
    BY <1>1, <1>6 DEF Written, Mapped
  <2>2. Made' /\ \A g \in Required : Sent(g)'
    BY <1>1, <1>2 DEF Made, Sent, Kubernetes
  <2>. QED  BY <1>6, <1>7, <2>1, <2>2 DEF Forward
<1>9. ASSUME AllFresh PROVE LoadFits(p)' /\ DeployFits(p)'
  <2>1. DeployFits(p)
    BY <1>2, <1>9 DEF DeploysFit
  <2>2. \A g \in File : Step(p) = <<"rsync", g>> => Sent(g)'
    BY <1>1
  <2>. QED  BY <1>1, <1>4, <1>7, <1>8, <2>1, <2>2, Delivering
<1>10. LocalFits'
  BY <1>1, LocalKept DEF DeploysFit
<1>. QED  BY <1>1, <1>3, <1>5, <1>8, <1>9, <1>10, Alone

LEMMA DeleteDeploys ==
    ASSUME Types, DeploysFit, NEW p \in Proc, delete_config_map(p) \/ delete_resources(p)
    PROVE  DeploysFit'
<1>1. /\ Step(p)[1] \in {"delete_map", "delete"} /\ {"delete_map", "delete"} \subseteq DeployStepName
      /\ target' = target /\ settled' = FALSE /\ Advance(p, {"deleted"}) /\ JobTypes /\ jobs \in [Proc -> Job]
      /\ container' = container \/ container'.held = [f \in Mounted |-> Attached]
  BY DEF delete_config_map, delete_resources, Advance, DeployStepName, Unchanged, Types, JobTypes
<1>2. jobs[p] \in Job /\ jobs[p].op = "delete" /\ ~Rendering_left(Tail(jobs[p].todo))
  BY <1>1, AtDeployStep
<1>3. Types'
  BY delete_config_mapFits, delete_resourcesFits
<1>4. jobs'[p].todo = Tail(jobs[p].todo) /\ jobs'[p].op = "delete"
  BY <1>1, <1>2, AdvanceOwn
<1>5. LoadFits(p)' /\ ~Deploying(p)'
  BY <1>2, <1>4 DEF LoadFits, Deploying, Rendering_left
<1>6. LocalFits'
  BY <1>1 DEF DeploysFit, LocalFits, Mounted
<1>7. ASSUME AllFresh', NEW q \in Proc, q # p PROVE LoadFits(q)' /\ ~Deploying(q)'
  <2>. DEFINE changed == {"deleted"}
              js == [jobs EXCEPT ![p].todo = Tail(@)]
  <2>1. changed \cap Desired # {} /\ jobs' = Noted(js, p, changed)
    BY <1>1 DEF Desired, Advance
  <2>2. \A r \in Proc \ {p} : js[r] \in Job
    BY <1>1
  <2>. HIDE DEF changed, js
  <2>3. jobs'[q].op \in {"none", "backup"}
    BY <1>7, <2>1, <2>2, NotedDisturbs
  <2>. QED  BY <1>3, <2>3, NotDeploying
<1>. QED  BY <1>1, <1>3, <1>5, <1>6, <1>7, Disturbed

(* Backups and restores *)
LEMMA Quiet ==
    ASSUME Types, Types', DeploysFit, NEW p \in Proc, target' = target, disk' = disk, container' = container,
           rollout' = rollout, settled' = settled, \A q \in Proc \ {p} : Spared(q), AllFresh' <=> AllFresh,
           jobs'[p].op \in {"backup", "restore", "undo"}
    PROVE  DeploysFit'
<1>1. Home' = Home /\ Host' = Host /\ Root' = Root
  BY SamePlaces DEF Root
<1>2. Forward
  <2>1. \A f \in {"config", "users"} : View(f)' = View(f)
    BY <1>1 DEF View
  <2>. QED  BY <1>1, <2>1, ForwardSame
<1>3. LoadFits(p)' /\ ~Deploying(p)'
  BY NotDeploying
<1>4. LocalFits'
  BY LocalKept DEF DeploysFit
<1>. QED  BY <1>2, <1>3, <1>4, Alone

LEMMA QuietBackup ==
    ASSUME Types, DeploysFit, NEW p \in Proc,
           create_backup(p) \/ create_remote_backup(p) \/ add_users(p) \/ extract(p) \/ restore_users(p)
    PROVE  DeploysFit'
<1>1. /\ target' = target /\ disk' = disk /\ container' = container /\ rollout' = rollout /\ settled' = settled
      /\ Step(p)[1] \in {"archive", "snapshot", "extract", "users"} /\ JobTypes /\ jobs \in [Proc -> Job]
  BY DEF create_backup, create_remote_backup, add_files, add_users, extract, restore_users, Unchanged, Types, JobTypes
<1>2. jobs[p].op \in {"backup", "restore", "undo"} /\ jobs[p] \in Job
  BY <1>1, AtBackupStep DEF BackupStepName
<1>3. Types' /\ \A q \in Proc \ {p} : Spared(q)
  BY BackupFitsTypes DEF BackupStep
<1>4. (AllFresh' <=> AllFresh) /\ jobs'[p].op = jobs[p].op
  <2>1. CASE restore_users(p)
    <3>1. PICK changed : Advance(p, changed) /\ changed \in {{}, {"db"}}
      BY <2>1 DEF restore_users
    <3>2. changed \cap Desired = {}
      BY <3>1 DEF Desired
    <3>. QED  BY <1>1, <3>1, <3>2, AdvanceFresh, AdvanceOwn
  <2>2. CASE create_backup(p) \/ create_remote_backup(p) \/ add_users(p) \/ extract(p)
    <3>1. \A q \in Proc : jobs'[q].op = jobs[q].op /\ jobs'[q].edited = jobs[q].edited
      <4>1. CASE create_backup(p) \/ create_remote_backup(p)
        <5>1. jobs' = [jobs EXCEPT ![p].todo = Tail(@), ![p].loaded = Root.config, ![p].draft = jobs'[p].draft]
          <6>1. PICK entries : add_files(p, entries)
            BY <4>1 DEF create_backup, create_remote_backup
          <6>2. jobs'[p].draft = [files |-> Taken(Root, entries), users |-> Unread]
            BY <1>1, <1>2, <6>1 DEF add_files, Job
          <6>. QED  BY <6>1, <6>2 DEF add_files
        <5>. QED  BY <1>1, <5>1 DEF Job
      <4>2. CASE add_users(p)
        <5>1. jobs' = [jobs EXCEPT ![p].todo = Tail(@)]
          BY <4>2 DEF add_users
        <5>. QED  BY <1>1, <5>1 DEF Job
      <4>3. CASE extract(p)
        <5>1. PICK source, todo : jobs' = [jobs EXCEPT ![p].source = source, ![p].todo = todo]
          BY <4>3 DEF extract
        <5>. QED  BY <1>1, <5>1 DEF Job
      <4>. QED  BY <2>2, <4>1, <4>2, <4>3
    <3>. QED  BY <3>1, EditedKept
  <2>. QED  BY <2>1, <2>2
<1>. QED  BY <1>1, <1>2, <1>3, <1>4, Quiet

LEMMA Overwrites ==
    ASSUME Types, Types', NEW p, settled' = FALSE, LocalFits', NEW js, NEW changed,
           jobs' = Noted(js, p, changed), changed \cap Desired # {}, \A q \in Proc \ {p} : js[q] \in Job,
           p \in Proc => jobs'[p].op \in {"none", "restore", "undo", "backup"}
    PROVE  DeploysFit'
<1>1. ASSUME AllFresh', NEW q \in Proc PROVE LoadFits(q)' /\ ~Deploying(q)'
  <2>1. jobs'[q].op \in {"none", "backup", "restore", "undo"}
    BY <1>1, NotedDisturbs
  <2>. QED  BY <2>1, NotDeploying
<1>. QED  BY <1>1, Disturbed

LEMMA RestoreOverwrites ==
    ASSUME Types, DeploysFit, NEW p \in Proc, remove_tree(p) \/ copy_entry(p) \/ upload_entry(p)
    PROVE  DeploysFit'
<1>1. /\ target' = target /\ settled' = FALSE /\ Step(p)[1] \in {"rmtree", "copy", "upload"}
      /\ JobTypes /\ jobs \in [Proc -> Job]
      /\ container \in Container /\ disk \in [Place -> Files] /\ target \in Target
  BY DEF remove_tree, copy_entry, upload_entry, Unchanged, Types, JobTypes, FileTypes, ContainerTypes
<1>2. /\ jobs[p].op \in {"backup", "restore", "undo"} /\ jobs[p] \in Job
      /\ Step(p)[1] = "upload" => target = "remote_only"
      /\ Consistent(jobs[p].todo) /\ Step(p) \in Pending(jobs[p].todo)
  BY <1>1, AtBackupStep DEF BackupStepName
<1>3. Types'
  BY BackupFitsTypes DEF BackupStep
<1>4. PICK changed : Advance(p, changed) /\ "restored" \in changed
  BY DEF remove_tree, copy_entry, upload_entry
<1>5. jobs'[p].op = jobs[p].op
  BY <1>1, <1>4, AdvanceOwn
<1>6. LocalFits'
  <2>1. CASE remove_tree(p)
    <3>1. Step(p)[2] \in Directory
      BY <1>2, <2>1 DEF Consistent, remove_tree
    <3>2. Step(p)[2] \in Mounted /\ {"config", "users"} \subseteq Mounted \ {Step(p)[2]} /\ Home \in Place
      BY <1>1, <3>1, DiskFits DEF Mounted, Directory
    <3>3. container' = Detached(Home, Step(p)[2])
      BY <2>1 DEF remove_tree
    <3>4. \A g \in Mounted \ {Step(p)[2]} : container'.held[g] = container.held[g]
      BY <1>1, <3>2, <3>3, DetachedFits
    <3>. QED  BY <1>1, <3>2, <3>4, LocalKept DEF DeploysFit
  <2>2. CASE copy_entry(p)
    BY <1>1, <2>2, LocalKept DEF DeploysFit, copy_entry
  <2>3. CASE upload_entry(p)
    BY <1>1, <1>2, <2>3 DEF LocalFits, upload_entry
  <2>. QED  BY <2>1, <2>2, <2>3
<1>7. PICK js : js = [jobs EXCEPT ![p].todo = Tail(@)]
  OBVIOUS
<1>8. jobs' = Noted(js, p, changed) /\ changed \cap Desired # {} /\ \A q \in Proc \ {p} : js[q] \in Job
  BY <1>1, <1>4, <1>7 DEF Advance, Desired
<1>. QED  BY <1>1, <1>2, <1>3, <1>5, <1>6, <1>8, Overwrites

LEMMA TornOverwrites ==
    ASSUME Types, DeploysFit, NEW p \in Proc, CopyTorn(p)
    PROVE  DeploysFit'
<1>1. /\ target' = target /\ settled' = FALSE /\ container' = container /\ jobs \in [Proc -> Job]
  BY DEF CopyTorn, Types, JobTypes
<1>2. Types' /\ jobs'[p] = Idle
  BY CopyTornFits
<1>3. PICK changed : changed = jobs[p].edited \cup {Step(p)[2], "restored"}
  OBVIOUS
<1>4. PICK js : js = [jobs EXCEPT ![p] = Idle]
  OBVIOUS
<1>5. jobs' = Noted(js, p, changed) /\ changed \cap Desired # {} /\ \A q \in Proc \ {p} : js[q] \in Job
  BY <1>1, <1>3, <1>4 DEF CopyTorn, Desired
<1>6. LocalFits' /\ jobs'[p].op \in {"none", "restore", "undo", "backup"}
  BY <1>1, <1>2, LocalKept, IdleFits DEF DeploysFit
<1>. QED  BY <1>1, <1>2, <1>5, <1>6, Overwrites
-----------------------------------------------------------------------------
(* The life of a command *)

LEMMA BeginDeploys ==
    ASSUME Types, DeploysFit, NEW p \in Proc, NEW request \in Requests, Begin(p, request)
    PROVE  DeploysFit'
<1>1. /\ target' = target /\ disk' = disk /\ container' = container /\ rollout' = rollout /\ settled' = settled
      /\ jobs \in [Proc -> Job] /\ target \in Target
      /\ request[1] \in {"apply", "delete"} => target \in Kubernetes
      /\ request[1] \in {"deploy", "apply", "delete", "backup", "restore", "undo"}
  BY RequestsAssumption DEF Begin, Types, JobTypes, FileTypes
<1>2. /\ Types' /\ (\A q \in Proc \ {p} : Spared(q))
      /\ jobs[p] = Idle /\ jobs'[p].op = request[1] /\ jobs'[p].todo = Steps(request[1]) /\ jobs'[p].edited = {}
  BY BeginFits
<1>3. \A q \in Proc \ {p} : jobs'[q] = jobs[q]
  BY <1>1 DEF Begin
<1>4. AllFresh' <=> AllFresh
  <2>1. jobs[p].op = "none"
    BY <1>2, IdleFits
  <2>2. Running \subseteq Proc \ {p} /\ Running' = Running \cup {p}
    BY <1>1, <1>2, <1>3, <2>1 DEF Running
  <2>. QED  BY <1>2, <1>3, <2>2 DEF AllFresh, Desired
<1>5. /\ Left(Steps(request[1]), "render") => Left(Steps(request[1]), "load")
      /\ request[1] = "deploy" => Left(Steps(request[1]), "plan")
      /\ request[1] = "apply" => Left(Steps(request[1]), "load")
  BY <1>1, StepsBegin
<1>6. LoadFits(p)' /\ (Deploying(p)' => DeployFits(p)')
  BY <1>2, <1>5 DEF LoadFits, Deploying, DeployFits, Rendering_left
<1>7. Home' = Home /\ Host' = Host /\ Root' = Root
  BY <1>1, SamePlaces DEF Root
<1>8. Forward
  <2>1. \A f \in {"config", "users"} : View(f)' = View(f)
    BY <1>1, <1>7 DEF View
  <2>. QED  BY <1>1, <1>7, <2>1, ForwardSame
<1>9. LocalFits'
  BY <1>1, LocalKept DEF DeploysFit
<1>. QED  BY <1>1, <1>2, <1>4, <1>6, <1>8, <1>9, Alone

LEMMA EndsDeploys ==
    ASSUME Types, DeploysFit, NEW p \in Proc, jobs' = Noted([jobs EXCEPT ![p] = Idle], p, jobs[p].edited),
           UNCHANGED <<target, disk, db, container, rollout, archives>>, settled' \in BOOLEAN,
           settled' => settled \/ (AllFresh /\ Delivered)
    PROVE  DeploysFit'
<1>1. Types' /\ (\A q \in Proc \ {p} : Spared(q)) /\ jobs'[p] = Idle
  BY Ended
<1>2. /\ target' = target /\ disk' = disk /\ container' = container /\ rollout' = rollout
      /\ jobs \in [Proc -> Job] /\ \A q \in Proc : Holds(jobs[q])
  BY DEF Types, JobTypes
<1>3. Home' = Home /\ Host' = Host /\ Root' = Root
  BY <1>2, SamePlaces DEF Root
<1>4. Forward
  <2>1. \A f \in {"config", "users"} : View(f)' = View(f)
    BY <1>2, <1>3 DEF View
  <2>. QED  BY <1>2, <1>3, <2>1, ForwardSame
<1>5. LocalFits'
  BY <1>2, LocalKept DEF DeploysFit
<1>6. LoadFits(p)' /\ ~Deploying(p)'
  BY <1>1, IdleFits, NotDeploying
<1>7. PICK js : js = [jobs EXCEPT ![p] = Idle]
  OBVIOUS
<1>8. PICK changed : changed = jobs[p].edited
  OBVIOUS
<1>9. jobs' = Noted(js, p, changed) /\ \A q \in Proc \ {p} : js[q] \in Job /\ js[q] = jobs[q]
  BY <1>2, <1>7, <1>8
<1>10. CASE AllFresh
  <2>1. changed \cap Desired = {}
    <3>1. CASE jobs[p].op = "none"
      <4>1. jobs[p] = Idle
        BY <1>2, <3>1 DEF Holds
      <4>. QED  BY <1>8, <4>1 DEF Idle
    <3>2. CASE jobs[p].op # "none"
      BY <1>8, <1>10, <3>2 DEF AllFresh, Running
    <3>. QED  BY <3>1, <3>2
  <2>2. ASSUME NEW q \in Running' PROVE jobs'[q].edited \cap Desired = {}
    <3>1. q \in Proc /\ jobs'[q].op # "none"
      BY <2>2 DEF Running
    <3>2. q # p
      BY <1>1, <3>1, IdleFits
    <3>3. /\ jobs'[q].op = jobs[q].op
          /\ jobs'[q].edited = jobs[q].edited \/ jobs'[q].edited = jobs[q].edited \cup changed
      BY <1>9, <3>1, <3>2 DEF Noted, Job
    <3>4. q \in Running
      BY <3>1, <3>3 DEF Running
    <3>. QED  BY <1>10, <2>1, <3>3, <3>4 DEF AllFresh
  <2>3. AllFresh'
    BY <2>2 DEF AllFresh, Desired
  <2>4. \A q \in Proc : LoadFits(q)' /\ (Deploying(q)' => DeployFits(q)')
    BY <1>1, <1>4, <1>6, <1>10, DeploySpared DEF DeploysFit
  <2>5. settled' => Delivered'
    BY <1>4, DeliveredStands DEF DeploysFit
  <2>. QED  BY <1>5, <2>3, <2>4, <2>5 DEF DeploysFit
<1>11. CASE ~AllFresh
  <2>1. settled' = FALSE
    BY <1>11 DEF DeploysFit
  <2>2. ASSUME AllFresh' PROVE changed \cap Desired # {}
    <3>1. PICK q \in Running : jobs[q].edited \cap Desired # {}
      BY <1>11 DEF AllFresh
    <3>2. q \in Proc /\ jobs[q].op # "none"
      BY <3>1 DEF Running
    <3>3. jobs[q].op # "backup"
      BY <1>2, <3>1, <3>2 DEF Holds
    <3>4. ASSUME q # p PROVE FALSE
      <4>1. jobs'[q].op = jobs[q].op /\ jobs[q].edited \subseteq jobs'[q].edited
        BY <1>1, <3>2, <3>3, <3>4 DEF Spared
      <4>2. q \in Running' /\ jobs'[q].edited \cap Desired # {}
        BY <3>1, <3>2, <4>1 DEF Running
      <4>. QED  BY <2>2, <4>2 DEF AllFresh, Desired
    <3>. QED  BY <1>8, <3>1, <3>4
  <2>3. ASSUME AllFresh', NEW q \in Proc PROVE LoadFits(q)' /\ ~Deploying(q)'
    <3>1. CASE q = p
      BY <1>6, <3>1
    <3>2. CASE q # p
      <4>1. jobs'[q].op \in {"none", "backup"}
        BY <1>9, <2>2, <2>3, <3>2, NotedDisturbs
      <4>. QED  BY <1>1, <4>1, NotDeploying
    <3>. QED  BY <3>1, <3>2
  <2>. QED  BY <1>1, <1>5, <2>1, <2>3, Disturbed
<1>. QED  BY <1>10, <1>11

LEMMA FinishDeploys ==
    ASSUME Types, DeploysFit, NEW p \in Proc, Finish(p)
    PROVE  DeploysFit'
<1>1. settled' \in BOOLEAN
  BY DEF Finish, Types, ContainerTypes
<1>2. ASSUME settled', Deploying(p), AllFresh PROVE Delivered
  <2>1. DeployFits(p) /\ Step(p)[1] = "done"
    BY <1>2 DEF DeploysFit, Finish
  <2>2. Pending(jobs[p].todo) = {<<"done", Step(p)[2]>>}
    BY <2>1, OnlyDone
  <2>3. /\ \A n : n # "done" => ~Left(jobs[p].todo, n)
        /\ \A f : <<"rsync", f>> \notin Pending(jobs[p].todo)
    BY <2>2 DEF Left
  <2>. QED  BY <2>1, <2>3 DEF DeployFits, Delivered, Rendering_left
<1>3. settled' => settled \/ (AllFresh /\ Delivered)
  BY <1>2 DEF Finish, AllFresh, Deploying
<1>. QED  BY <1>1, <1>3, EndsDeploys DEF Finish

LEMMA EndDeploys ==
    ASSUME Types, DeploysFit, NEW p \in Proc, End(p)
    PROVE  DeploysFit'
<1>1. settled' \in BOOLEAN
  BY DEF End, Types, ContainerTypes
<1>. QED  BY <1>1, EndsDeploys DEF End

LEMMA OwnDeploys ==
    ASSUME Types, DeploysFit, NEW p \in Proc, Own(p)
    PROVE  DeploysFit'
<1>1. CASE \E request \in Requests : Begin(p, request)
  BY <1>1, BeginDeploys
<1>2. CASE DeployStep(p)
  BY <1>2, PlanDeploys, ApplyPlanDeploys, LoadDeploys, RenderDeploys, RsyncDeploys, TestDeploys, UpDeploys,
     MapDeploys, SetDeploys, RestartDeploys, DeleteDeploys DEF DeployStep
<1>3. CASE BackupStep(p)
  BY <1>3, QuietBackup, RestoreOverwrites DEF BackupStep
<1>4. CASE Finish(p)
  BY <1>4, FinishDeploys
<1>5. CASE Stop(p)
  BY <1>5, EndDeploys DEF Stop
<1>6. CASE CopyTorn(p)
  BY <1>6, TornOverwrites
<1>7. CASE Refused(p)
  <2>1. End(p)
    BY <1>7 DEF Refused
  <2>. QED  BY <2>1, EndDeploys
<1>. QED  BY <1>1, <1>2, <1>3, <1>4, <1>5, <1>6, <1>7 DEF Own
-----------------------------------------------------------------------------
(* What is done outside the commands *)

LEMMA Apart ==
    ASSUME Types, Types', DeploysFit, AllFresh' <=> AllFresh, settled' = settled, Forward, LocalFits',
           \A q \in Proc : Spared(q)
    PROVE  DeploysFit'
<1>1. {} \in SUBSET Proc /\ \A q \in {} : LoadFits(q)' /\ (Deploying(q)' => DeployFits(q)')
  OBVIOUS
<1>. QED  BY <1>1, Onward

LEMMA EditConfigDeploys ==
    ASSUME Types, DeploysFit, NEW field, NEW value, EditConfig(field, value),
           \/ field \in {"shape", "tuning"} /\ value \in Version
           \/ field = "provider" /\ value \in {"file", "db"}
    PROVE  DeploysFit'
<1>1. Types'
  BY EditConfigFits
<1>2. /\ target' = target /\ container' = container /\ settled' = FALSE /\ \A q \in Proc : jobs[q] \in Job
      /\ jobs' = Noted(jobs, Nobody, {"config"})
  BY DEF EditConfig, Types, JobTypes
<1>3. LocalFits'
  BY <1>2, LocalKept DEF DeploysFit
<1>4. Nobody \notin Proc
  BY ProcAssumption DEF Nobody
<1>5. {"config"} \cap Desired # {}
  BY DEF Desired
<1>. QED  BY <1>1, <1>2, <1>3, <1>4, <1>5, Overwrites

LEMMA EditUsersDeploys ==
    ASSUME Types, DeploysFit, NEW v \in Version, EditUsers(v)
    PROVE  DeploysFit'
<1>1. Types' /\ \A q \in Proc : Spared(q)
  BY EditUsersFits
<1>2. /\ target' = target /\ container' = container /\ rollout' = rollout
      /\ JobTypes /\ \A q \in Proc : jobs[q] \in Job
  BY DEF EditUsers, Types, JobTypes
<1>3. LocalFits'
  BY <1>2, LocalKept DEF DeploysFit
<1>4. CASE Root.config.provider = "db"
  <2>1. jobs' = Noted(jobs, Nobody, {"db"}) /\ disk' = disk /\ settled' = settled
    BY <1>4 DEF EditUsers
  <2>2. AllFresh' <=> AllFresh
    <3>1. {"db"} \cap Desired = {}
      BY DEF Desired
    <3>. QED  BY <1>2, <2>1, <3>1, NobodyFresh
  <2>3. Home' = Home /\ Host' = Host /\ Root' = Root
    BY <1>2, <2>1, SamePlaces DEF Root
  <2>4. Forward
    <3>1. \A f \in {"config", "users"} : View(f)' = View(f)
      BY <1>2, <2>1, <2>3 DEF View
    <3>. QED  BY <1>2, <2>1, <2>3, <3>1, ForwardSame
  <2>. QED  BY <1>1, <1>3, <2>1, <2>2, <2>4, Apart
<1>5. CASE Root.config.provider # "db"
  <2>1. jobs' = Noted(jobs, Nobody, {"users"}) /\ settled' = FALSE
    BY <1>5 DEF EditUsers
  <2>2. Nobody \notin Proc
    BY ProcAssumption DEF Nobody
  <2>3. {"users"} \cap Desired # {}
    BY DEF Desired
  <2>. QED  BY <1>1, <1>2, <1>3, <2>1, <2>2, <2>3, Overwrites
<1>. QED  BY <1>4, <1>5

LEMMA WatcherSyncDeploys ==
    ASSUME Types, DeploysFit, WatcherSync
    PROVE  DeploysFit'
<1>1. Types' /\ \A q \in Proc : Spared(q)
  BY WatcherSyncFits
<1>2. /\ target' = target /\ target = "synced" /\ jobs' = jobs /\ rollout' = rollout /\ settled' = settled
      /\ container \in Container /\ disk \in [Place -> Files] /\ target \in Target
      /\ container' = Detached("server", "users")
      /\ disk' = [disk EXCEPT !["server"]["users"] = Root["users"]]
  BY DEF WatcherSync, Types, FileTypes, ContainerTypes
<1>3. Home = "project" /\ Host = "server" /\ Home' = Home /\ Host' = Host /\ Root = disk["project"] /\ Root' = disk'["project"]
  BY <1>2, SamePlaces DEF Home, Host, Root
<1>4. /\ disk'["project"] = disk["project"] /\ disk'["server"]["users"] = disk["project"]["users"]
      /\ \A g \in File \ {"users"} : disk'["server"][g] = disk["server"][g]
      /\ container'.template = container.template /\ "artifact" \in File
  <2>1. /\ "server" \in Place /\ "project" \in Place /\ disk["server"] \in [File -> AnyContent]
        /\ "users" \in File /\ "artifact" \in File /\ "users" \in Mounted
    BY <1>2, DiskFits, FilesFit DEF Place, File, Mounted
  <2>2. container'.template = container.template
    BY <1>2, <2>1, DetachedFits
  <2>. QED  BY <1>2, <1>3, <2>1, <2>2
<1>5. Forward
  <2>1. Root' = Root /\ (Written => Written')
    BY <1>2, <1>3, <1>4 DEF Written
  <2>2. ASSUME NEW g \in Required, Sent(g) PROVE Sent(g)'
    <3>1. g \in File
      BY RequiredFits
    <3>. QED  BY <1>2, <1>3, <1>4, <2>1, <2>2, <3>1 DEF Sent
  <2>3. Made => Made'
    BY <1>2, <1>3, <1>4 DEF Made
  <2>4. Mapped' /\ Stated' /\ Started'
    BY <1>2 DEF Mapped, Stated, Started, Kubernetes
  <2>. QED  BY <2>1, <2>2, <2>3, <2>4 DEF Forward
<1>6. AllFresh' <=> AllFresh
  BY <1>2, EditedKept
<1>7. LocalFits'
  BY <1>2 DEF LocalFits
<1>. QED  BY <1>1, <1>2, <1>5, <1>6, <1>7, Apart

(* The runtime and its clients write what no deploy wants. *)
LEMMA RuntimeDeploys ==
    ASSUME Types, DeploysFit, refresh_context \/ Upload
    PROVE  DeploysFit'
<1>1. Types' /\ \A q \in Proc : Spared(q)
  BY refresh_contextFits, UploadFits
<1>2. /\ target' = target /\ rollout' = rollout /\ settled' = settled /\ JobTypes
      /\ container \in Container /\ disk \in [Place -> Files] /\ target \in Target
  BY DEF refresh_context, Upload, Types, FileTypes, ContainerTypes
<1>3. PICK f \in {"state", "data"} : \E v :
        \/ /\ disk' = [disk EXCEPT ![Host][f] = v] /\ container' = container
           /\ jobs' = jobs \/ jobs' = Noted(jobs, Nobody, {f})
        \/ container' = [container EXCEPT !.held[f] = v] /\ disk' = disk /\ jobs' = jobs
  <2>1. CASE refresh_context
    BY <2>1 DEF refresh_context
  <2>2. CASE Upload
    BY <2>2 DEF Upload
  <2>. QED  BY <2>1, <2>2
<1>4. AllFresh' <=> AllFresh
  <2>1. {f} \cap Desired = {}
    BY DEF Desired
  <2>2. jobs' = jobs \/ jobs' = Noted(jobs, Nobody, {f})
    BY <1>3
  <2>. QED  BY <1>2, <2>1, <2>2, NobodyFresh, EditedKept
<1>5. /\ \A g \in {"config", "users", "artifact"}, place \in Place : disk'[place][g] = disk[place][g]
      /\ \A g \in {"config", "users"} : container'.held[g] = container.held[g]
      /\ container'.template = container.template
  <2>0. PICK v :
          \/ disk' = [disk EXCEPT ![Host][f] = v] /\ container' = container
          \/ container' = [container EXCEPT !.held[f] = v] /\ disk' = disk
    BY <1>3
  <2>1. CASE disk' = [disk EXCEPT ![Host][f] = v] /\ container' = container
    <3>1. /\ Host \in Place /\ disk[Host] \in [File -> AnyContent] /\ f \in File
          /\ f \notin {"config", "users", "artifact"} /\ {"config", "users", "artifact"} \subseteq File
      BY <1>2, DiskFits, FilesFit DEF File
    <3>. QED  BY <1>2, <2>1, <3>1
  <2>2. CASE container' = [container EXCEPT !.held[f] = v] /\ disk' = disk
    <3>1. container' = [template |-> container.template, held |-> [container.held EXCEPT ![f] = v]]
          /\ container.held \in [Mounted -> AnyContent \cup {Attached}]
          /\ {"config", "users"} \subseteq Mounted /\ f \notin {"config", "users"}
      BY <1>2, <2>2, ContainerFits DEF Mounted
    <3>. QED  BY <2>2, <3>1
  <2>. QED  BY <2>0, <2>1, <2>2
<1>6. Home' = Home /\ Host' = Host /\ Root' = disk'[Home] /\ Home \in Place /\ Host \in Place /\ "server" \in Place
  BY <1>2, DiskFits, SamePlaces DEF Place
<1>7. Forward
  <2>1. \A g \in {"config", "users", "artifact"} : Root'[g] = Root[g] /\ disk'["server"][g] = disk["server"][g]
    BY <1>5, <1>6 DEF Root
  <2>2. \A g \in {"config", "users"} : View(g)' = View(g)
    BY <1>5, <1>6 DEF View
  <2>. QED  BY <1>2, <1>5, <2>1, <2>2, ForwardSame
<1>8. LocalFits'
  BY <1>2, <1>5, LocalKept DEF DeploysFit
<1>. QED  BY <1>1, <1>2, <1>4, <1>7, <1>8, Apart

(* A new pod is made from the cluster's template, with its ConfigMap. *)
LEMMA PodForward ==
    ASSUME Types, target' = target, PodStarts, target \in Kubernetes, disk["server"]["artifact"] \in Rendering
    PROVE  Forward
<1>1. disk \in [Place -> Files] /\ target \in Target /\ Root["users"] # Absent
  BY DEF Types, FileTypes
<1>2. Home = "project" /\ Host = "server" /\ Home' = Home /\ Host' = Host /\ Root = disk["project"] /\ Root' = disk'["project"]
  BY <1>1, SamePlaces DEF Home, Host, Root, Kubernetes
<1>3. /\ disk'["project"] = disk["project"]
      /\ \A f \in {"config", "users", "artifact"} : disk'["server"][f] = disk["server"][f]
  <2>1. /\ "server" \in Place /\ "project" \in Place /\ disk["server"] \in Files
        /\ {"config", "users", "artifact"} \subseteq File \ Directory
    BY <1>1, DiskFits DEF Place, File, Directory
  <2>2. disk' = [disk EXCEPT !["server"] = WithFolders(disk["server"])]
    BY DEF PodStarts
  <2>. QED  BY <1>1, <2>1, <2>2, FoldersFit
<1>4. /\ container'.template = disk["server"]["artifact"].template
      /\ container'.held["config"] = disk["server"]["config"]
      /\ disk["server"]["users"] # Absent => container'.held["users"] = disk["server"]["users"]
  <2>. DEFINE held == [f \in Mounted |->
                         CASE f = "config" -> disk.server.config
                           [] f = "users" -> (IF disk.server.users = Absent
                                              THEN container.held.users
                                              ELSE disk.server.users)
                           [] OTHER -> Attached]
  <2>1. "config" \in Mounted /\ "users" \in Mounted /\ "config" # "users"
    BY DEF Mounted
  <2>2. held["config"] = disk["server"]["config"]
    BY <2>1
  <2>3. disk["server"]["users"] # Absent => held["users"] = disk["server"]["users"]
    BY <2>1
  <2>4. container' = [template |-> disk["server"]["artifact"].template, held |-> held]
    BY DEF PodStarts
  <2>. HIDE DEF held
  <2>. QED  BY <2>2, <2>3, <2>4
<1>5. Root' = Root
  BY <1>2, <1>3
<1>6. Made' /\ \A g \in Required : Sent(g)'
  BY DEF Made, Sent, Kubernetes
<1>7. /\ Written => Written'
      /\ Mapped => Mapped'
      /\ Stated => Stated'
  BY <1>3, <1>4, <1>5 DEF Written, Mapped, Stated
<1>8. ASSUME Mapped PROVE Started'
  <2>1. View("config")' = Root["config"]
    BY <1>2, <1>3, <1>4, <1>8 DEF View, Mapped
  <2>2. ASSUME Root["config"].provider = "file" PROVE View("users")' = Root["users"]
    <3>1. disk["server"]["users"] = Root["users"]
      BY <1>1, <1>8, <2>2 DEF Mapped, bootstrap_text
    <3>. QED  BY <1>1, <1>2, <1>3, <1>4, <3>1 DEF View
  <2>. QED  BY <1>5, <2>1, <2>2 DEF Started, Reaches
<1>. QED  BY <1>5, <1>6, <1>7, <1>8 DEF Forward

LEMMA PodReplacedDeploys ==
    ASSUME Types, DeploysFit, PodReplaced
    PROVE  DeploysFit'
<1>1. Types' /\ \A q \in Proc : Spared(q)
  BY PodReplacedFits
<1>2. /\ target' = target /\ jobs' = jobs /\ settled' = settled /\ PodStarts /\ rollout /\ ClusterFits
      /\ disk \in [Place -> Files] /\ target \in Target
  BY DEF PodReplaced, Types, FileTypes, ContainerTypes
<1>3. target \in Kubernetes /\ disk["server"]["artifact"] \in Rendering
  BY <1>2, DiskFits DEF ClusterFits
<1>4. LocalFits'
  BY <1>2, <1>3 DEF LocalFits, Kubernetes
<1>5. AllFresh' <=> AllFresh
  BY <1>2, EditedKept
<1>6. Forward
  BY <1>2, <1>3, PodForward
<1>. QED  BY <1>1, <1>2, <1>4, <1>5, <1>6, Apart

LEMMA RebootDeploys ==
    ASSUME Types, DeploysFit, Reboot
    PROVE  DeploysFit'
<1>1. Types' /\ \A q \in Proc : Spared(q)
  BY RebootFits
<1>2. /\ target' = target /\ db' = db /\ rollout' = rollout /\ settled' = settled /\ JobTypes /\ ClusterFits
      /\ container.template # NotMade /\ jobs' = Noted(jobs, Nobody, Created)
      /\ disk \in [Place -> Files] /\ target \in Target /\ container \in Container /\ container' \in Container
      /\ rollout' \in BOOLEAN /\ settled' \in BOOLEAN
  BY <1>1 DEF Reboot, Types, FileTypes, ContainerTypes
<1>3. AllFresh' <=> AllFresh
  <2>1. Created \cap Desired = {}
    BY DEF Created, Desired, Directory
  <2>. QED  BY <1>2, <2>1, NobodyFresh
<1>4. CASE target \in Kubernetes
  <2>1. PodStarts /\ disk["server"]["artifact"] \in Rendering
    BY <1>2, <1>4, DiskFits DEF Reboot, ClusterFits
  <2>2. LocalFits'
    BY <1>2, <1>4 DEF LocalFits, Kubernetes
  <2>3. Forward
    BY <1>2, <1>4, <2>1, PodForward
  <2>. QED  BY <1>1, <1>2, <1>3, <2>2, <2>3, Apart
<1>5. CASE target \notin Kubernetes
  <2>1. Attach(container.template) /\ rollout' = FALSE
    BY <1>2, <1>5 DEF Reboot, ClusterFits
  <2>2. \A place \in Place, f \in File \ Directory : disk'[place][f] = disk[place][f]
    BY <1>2, <1>5, <2>1, WithFoldersStarted DEF Attach
  <2>3. Home' = Home /\ Host' = Host /\ Root' = disk'[Home] /\ Home \in Place /\ Host \in Place /\ "server" \in Place
    BY <1>2, DiskFits, SamePlaces DEF Place
  <2>4. {"config", "users", "artifact"} \subseteq File \ Directory
    BY DEF File, Directory
  <2>5. Forward
    <3>1. \A g \in {"config", "users", "artifact"} : Root'[g] = Root[g] /\ disk'["server"][g] = disk["server"][g]
      BY <2>2, <2>3, <2>4 DEF Root
    <3>2. container'.template = container.template
      BY <2>1 DEF Attach
    <3>. QED  BY <1>2, <1>5, <3>1, <3>2, ForwardSame
  <2>6. LocalFits'
    BY <2>1 DEF LocalFits, Attach, Mounted
  <2>. QED  BY <1>1, <1>2, <1>3, <2>5, <2>6, Apart
<1>. QED  BY <1>4, <1>5

LEMMA StutterDeploys ==
    ASSUME Types, DeploysFit, UNCHANGED vars
    PROVE  DeploysFit'
<1>1. Types' /\ \A q \in Proc : Spared(q)
  BY StutterFits
<1>2. /\ target' = target /\ disk' = disk /\ container' = container /\ rollout' = rollout
      /\ jobs' = jobs /\ settled' = settled
  BY DEF vars
<1>3. Home' = Home /\ Host' = Host /\ Root' = Root
  BY <1>2, SamePlaces DEF Root
<1>4. Forward
  <2>1. \A f \in {"config", "users"} : View(f)' = View(f)
    BY <1>2, <1>3 DEF View
  <2>. QED  BY <1>2, <1>3, <2>1, ForwardSame
<1>5. LocalFits' /\ (AllFresh' <=> AllFresh)
  BY <1>2, LocalKept, EditedKept DEF DeploysFit
<1>. QED  BY <1>1, <1>2, <1>4, <1>5, Apart

LEMMA OutsideDeploys ==
    ASSUME Types, DeploysFit, Outside
    PROVE  DeploysFit'
<1>1. CASE \E field \in {"shape", "tuning"}, v \in Version : EditConfig(field, v)
  <2>1. PICK field \in {"shape", "tuning"}, v \in Version : EditConfig(field, v)
    BY <1>1
  <2>. QED  BY <2>1, EditConfigDeploys
<1>2. CASE \E provider \in {"file", "db"} : EditConfig("provider", provider)
  <2>1. PICK provider \in {"file", "db"} : EditConfig("provider", provider)
    BY <1>2
  <2>. QED  BY <2>1, EditConfigDeploys
<1>. QED  BY <1>1, <1>2, EditUsersDeploys, RuntimeDeploys, WatcherSyncDeploys, PodReplacedDeploys, RebootDeploys
          DEF Outside

LEMMA DeploysNext ==
    ASSUME Types, DeploysFit, [Next]_vars
    PROVE  DeploysFit'
BY StepKinds, OwnDeploys, OutsideDeploys, StutterDeploys

LEMMA DeploysTold ==
    ASSUME Types, DeploysFit
    PROVE  DeployDelivers
<1>1. SUFFICES ASSUME settled PROVE DeployDelivers
  BY DEF DeployDelivers
<1>2. Delivered /\ LocalFits /\ target \in Target
  BY <1>1 DEF DeploysFit, Types, FileTypes
<1>3. "artifact" \in Required /\ "config" \in Required /\ (Root.config.provider = "file" => "users" \in Required)
  BY DEF Required
<1>4. Written /\ (\A f \in Required : Sent(f)) /\ Made /\ Mapped /\ Stated /\ Started
  BY <1>2 DEF Delivered
<1>5. target # "remote_only" => Root.artifact = Rendered(target, Root.config, Root.users)
  BY <1>4 DEF Written
<1>6. CASE target \in {"local", "remote_only"}
  <2>1. Host = Home /\ target \notin Kubernetes
    BY <1>6 DEF Host, Home, Kubernetes
  <2>2. target = "local" => Reaches("config") /\ Reaches("users")
    BY <1>2, <2>1 DEF LocalFits, Reaches, View, Root
  <2>. QED  BY <1>4, <1>5, <1>6, <2>1, <2>2 DEF DeployDelivers, Made, Root
<1>7. CASE target = "synced"
  <2>1. Host = "server" /\ target \notin Kubernetes
    BY <1>7 DEF Host, Kubernetes
  <2>. QED  BY <1>3, <1>4, <1>5, <1>7, <2>1 DEF DeployDelivers, Made, Sent
<1>8. CASE target \in Kubernetes
  <2>1. Host = "server"
    BY <1>8 DEF Host, Kubernetes
  <2>2. Root.config.provider = "file" => disk["server"]["users"] = Root.users
    BY <1>4, <1>8 DEF Mapped, bootstrap_text, Types, FileTypes
  <2>3. disk.server = disk["server"]
    BY DiskFits DEF Types, FileTypes
  <2>. QED  BY <1>4, <1>5, <1>8, <2>1, <2>2, <2>3 DEF DeployDelivers, Mapped, Stated, Started
<1>. QED  BY <1>2, <1>6, <1>7, <1>8 DEF Target, Kubernetes

LEMMA DeploysCorrect == Spec => [](Types /\ DeploysFit)
<1>1. Init => Types /\ DeploysFit
  <2>1. SUFFICES ASSUME Init PROVE Types /\ DeploysFit
    OBVIOUS
  <2>2. /\ Types /\ (\A p \in Proc : jobs[p] = Idle) /\ settled = FALSE
        /\ container.held["config"] = Attached /\ container.held["users"] = Attached
    BY <2>1, InitFits
  <2>3. \A p \in Proc : ~Left(jobs[p].todo, "render") /\ ~Deploying(p)
    BY <2>2, Nothing DEF Idle, Left, Deploying
  <2>. QED  BY <2>2, <2>3 DEF DeploysFit, LocalFits, LoadFits
<1>2. Types /\ DeploysFit /\ [Next]_vars => Types' /\ DeploysFit'
  BY TypesNext, DeploysNext
<1>. QED  BY <1>1, <1>2, PTL DEF Spec

(* After a deploy that has succeeded, and until somebody edits the         *)
(* project: the deployment file is rendered from the configuration, the    *)
(* container or the pod to come is made from it, the host has what the     *)
(* deploy sends, and a local container or a new pod sees configuration and *)
(* users; whatever else was deploying, failing, starting or syncing        *)
(* between its steps.                                                      *)
THEOREM DeploysDeliver == Spec => []DeployDelivers
<1>1. Types /\ DeploysFit => DeployDelivers
  BY DeploysTold
<1>. QED  BY <1>1, DeploysCorrect, PTL
=============================================================================
