--------------------------- MODULE WatcherProofs ---------------------------
(***************************************************************************)
(* Theorems about Watcher: its type invariant and NoLostEdit, for any      *)
(* contexts, hosts, contents and bounds.                                   *)
(***************************************************************************)
EXTENDS Watcher, TLAPS

USE DEF Goto

LEMMA InitType == Init => TypeOK
<1> SUFFICES ASSUME Init PROVE TypeOK
  OBVIOUS
<1>1. PICK x \in Content : file = [c \in Context |-> [content |-> x, mtime |-> 1]]
  BY DEF Init
<1>2. file \in [Context -> File]
  BY <1>1 DEF File, FileContent
<1>3. copy \in [Context -> [Host -> File]]
  BY DEF Init, File, FileContent, NoFile
<1> QED
  BY <1>2, <1>3 DEF Init, TypeOK, NoEndpoints, NothingSeen

(* A step that ends the process leaves every local at its initial value.  *)
LEMMA DiesType ==
    ASSUME TypeOK, Dies, UNCHANGED <<copy, sentTo>>,
           endpoint' \in [Context -> Host \cup {NoHost}], file' \in [Context -> File],
           clock' \in Nat, edits' \in Nat, changes' \in Nat, faults' \in Nat,
           reachable' \subseteq Host
    PROVE  TypeOK'
  BY DEF TypeOK, Dies, NoEndpoints, NothingSeen

(* An edit of a file keeps its type. *)
LEMMA WriteType ==
    ASSUME TypeOK, NEW c \in Context, NEW content \in FileContent, Write(c, content)
    PROVE  file' \in [Context -> File] /\ clock' \in Nat
<1>1. [content |-> content, mtime |-> clock + 1] \in File
  BY DEF TypeOK, File
<1> QED
  BY <1>1 DEF TypeOK, Write

(* Steps of the environment do not touch the locals of the process. *)
LEMMA EnvironmentType ==
    ASSUME TypeOK, UNCHANGED <<copy, locals, sentTo>>,
           endpoint' \in [Context -> Host \cup {NoHost}], file' \in [Context -> File],
           clock' \in Nat, edits' \in Nat, changes' \in Nat, faults' \in Nat,
           reachable' \subseteq Host
    PROVE  TypeOK'
<1>1. \A c \in Context : IsCurrent(c)' <=> IsCurrent(c)
  BY DEF IsCurrent, locals
<1> QED
  BY <1>1 DEF TypeOK, locals

LEMMA NextType == TypeOK /\ [Next]_vars => TypeOK'
<1> SUFFICES ASSUME TypeOK, [Next]_vars PROVE TypeOK'
  OBVIOUS
<1>1. CASE LoadRegistry
  BY <1>1 DEF LoadRegistry, TypeOK, outside
<1>2. CASE DeriveTargets
  BY <1>2 DEF DeriveTargets, TypeOK, outside
<1>3. ASSUME NEW c \in Context, SkipUnchanged(c) PROVE TypeOK'
  BY <1>3 DEF SkipUnchanged, TypeOK, outside
<1>4. ASSUME NEW c \in Context, NoticeChange(c) PROVE TypeOK'
  <2>1. seen' \in [Context -> Nat]
    BY <1>4 DEF NoticeChange, TypeOK, File
  <2>2. IsCurrent(c)' /\ byName'[c] \in Host
    BY <1>4 DEF NoticeChange, TypeOK, IsCurrent
  <2> QED
    BY <1>4, <2>1, <2>2 DEF NoticeChange, TypeOK, outside
<1>5. ASSUME NEW c \in Context, LookupFails(c) PROVE TypeOK'
  BY <1>5, DiesType DEF LookupFails, outside, TypeOK
<1>6. ASSUME NEW c \in Context, NothingToSend(c) PROVE TypeOK'
  BY <1>6 DEF NothingToSend, TypeOK, outside
<1>7. ASSUME NEW c \in Context, StartTransfer(c) PROVE TypeOK'
  <2>1. sentMtime' \in Nat
    BY <1>7 DEF StartTransfer, TypeOK, File
  <2>2. IsCurrent(c)' /\ byName'[c] \in Host
    BY <1>7 DEF StartTransfer, TypeOK, IsCurrent
  <2> QED
    BY <1>7, <2>1, <2>2 DEF StartTransfer, TypeOK, outside
<1>8. ASSUME NEW c \in Context, FinishTransfer(c) PROVE TypeOK'
  <2>1. [content |-> file[c].content, mtime |-> sentMtime] \in File
    BY DEF TypeOK, File
  <2>2. copy' \in [Context -> [Host -> File]]
    BY <1>8, <2>1 DEF FinishTransfer, TypeOK
  <2> QED
    BY <1>8, <2>2 DEF FinishTransfer, TypeOK, outside
<1>9. ASSUME NEW c \in Context, TransferFails(c) PROVE TypeOK'
  BY <1>9, DiesType DEF TransferFails, outside, TypeOK
<1>10. CASE Sleep
  BY <1>10 DEF Sleep, TypeOK, outside, NoEndpoints
<1>11. CASE WakeUp
  BY <1>11 DEF WakeUp, TypeOK, outside
<1>12. CASE Restart
  BY <1>12 DEF Restart, TypeOK, outside
<1>13. CASE Killed
  BY <1>13, DiesType DEF Killed, TypeOK
<1>14. ASSUME NEW c \in Context, Truncate(c) PROVE TypeOK'
  <2>1. file' \in [Context -> File] /\ clock' \in Nat
    BY <1>14, WriteType DEF Truncate, FileContent
  <2> QED
    BY <1>14, <2>1, EnvironmentType DEF Truncate, Edit, TypeOK
<1>15. ASSUME NEW c \in Context, FinishWriting(c) PROVE TypeOK'
  <2>1. file' \in [Context -> File] /\ clock' \in Nat
    BY <1>15, WriteType DEF FinishWriting, FileContent
  <2> QED
    BY <1>15, <2>1, EnvironmentType DEF FinishWriting, TypeOK
<1>16. ASSUME NEW c \in Context, Replace(c) PROVE TypeOK'
  <2>1. file' \in [Context -> File] /\ clock' \in Nat
    BY <1>16, WriteType DEF Replace, FileContent
  <2> QED
    BY <1>16, <2>1, EnvironmentType DEF Replace, Edit, TypeOK
<1>17. ASSUME NEW c \in Context, RemoveFile(c) PROVE TypeOK'
  <2>1. file' \in [Context -> File]
    BY <1>17 DEF RemoveFile, TypeOK, NoFile, File, FileContent
  <2> QED
    BY <1>17, <2>1, EnvironmentType DEF RemoveFile, Edit, TypeOK
<1>18. ASSUME NEW c \in Context, ChangeRegistry(c) PROVE TypeOK'
  <2>1. endpoint' \in [Context -> Host \cup {NoHost}]
    BY <1>18 DEF ChangeRegistry, TypeOK
  <2> QED
    BY <1>18, <2>1, EnvironmentType DEF ChangeRegistry, TypeOK
<1>19. CASE ChangeReachability
  BY <1>19, EnvironmentType DEF ChangeReachability, TypeOK
<1>20. CASE Tick
  BY <1>20, EnvironmentType DEF Tick, TypeOK
<1>21. CASE UNCHANGED vars
  BY <1>21, EnvironmentType DEF vars, outside, TypeOK
<1> QED
  BY <1>1, <1>2, <1>3, <1>4, <1>5, <1>6, <1>7, <1>8, <1>9, <1>10, <1>11, <1>12,
     <1>13, <1>14, <1>15, <1>16, <1>17, <1>18, <1>19, <1>20, <1>21
     DEF Next, Poll, Environment

(* Every variable of the watcher keeps its type, and a transfer always has *)
(* a host of the registry to go to (poll_watch's by_name lookup).          *)
THEOREM TypeCorrect == Spec => []TypeOK
<1>1. Init => TypeOK
  BY InitType
<1>2. TypeOK /\ [Next]_vars => TypeOK'
  BY NextType
<1> QED
  BY <1>1, <1>2, PTL DEF Spec
-----------------------------------------------------------------------------
(* NoLostEdit speaks of the end of a round.  In the middle of one it holds *)
(* of every context but the one whose transfer is under way; and it is     *)
(* kept by edits because the mtimes the watcher has seen are of the past.  *)

SeenIsPast ==
    \A c \in Context : file[c].mtime <= clock /\ seen[c] <= clock

UnderWay(c) == pc \in {"connect", "transfer"} /\ IsCurrent(c)

Sent(c) == sentTo[c] # NoHost /\ Holds(c, sentTo[c])

SeenIsSent ==
    \A c \in Context :
        seen[c] # 0 /\ seen[c] = file[c].mtime => UnderWay(c) \/ Sent(c)

IInv == TypeOK /\ SeenIsPast /\ SeenIsSent

LEMMA InitIInv == Init => IInv
<1> SUFFICES ASSUME Init PROVE IInv
  OBVIOUS
<1>1. PICK x \in Content : file = [c \in Context |-> [content |-> x, mtime |-> 1]]
  BY DEF Init
<1>2. SeenIsPast
  <2>1. \A c \in Context : file[c].mtime = 1 /\ seen[c] = 0
    BY <1>1 DEF Init, NothingSeen
  <2>2. clock = 1
    BY DEF Init
  <2> QED
    BY <2>1, <2>2, 1 <= 1, 0 <= 1 DEF SeenIsPast
<1>3. SeenIsSent
  BY DEF Init, SeenIsSent, NothingSeen
<1> QED
  BY <1>2, <1>3, InitType DEF IInv

(* The loop is at one target at a time. *)
LEMMA CurrentIsUnique ==
    ASSUME NEW c \in Context, NEW d \in Context, IsCurrent(c), IsCurrent(d)
    PROVE  c = d
<1>1. Rank[c] <= Rank[d] /\ Rank[d] <= Rank[c]
  BY DEF IsCurrent
<1>2. Rank[c] \in Nat /\ Rank[d] \in Nat
  BY RankAssumption
<1> QED
  BY <1>1, <1>2, RankAssumption

(* A process that ends forgets what it has seen. *)
LEMMA DiesIInv ==
    ASSUME IInv, TypeOK', Dies, UNCHANGED <<file, clock, copy, sentTo>>
    PROVE  IInv'
<1>1. SeenIsPast'
  BY DEF IInv, SeenIsPast, Dies, NothingSeen, TypeOK
<1>2. SeenIsSent'
  BY DEF SeenIsSent, Dies, NothingSeen
<1> QED
  BY <1>1, <1>2 DEF IInv

(* What was sent stays sent while neither the file nor the copies change. *)
LEMMA SentStable ==
    ASSUME NEW c \in Context, Sent(c), file'[c] = file[c], copy'[c] = copy[c],
           sentTo'[c] = sentTo[c]
    PROVE  Sent(c)'
  BY DEF Sent, Holds, UpToDate, QuickCheck, Second

(* Steps outside the transfers: no seen mtime, copy or target changes. *)
LEMMA QuietIInv ==
    ASSUME IInv, TypeOK', UNCHANGED <<file, copy, seen, sentTo>>,
           clock' \in Nat, clock <= clock',
           \A c \in Context : UnderWay(c) => UnderWay(c)'
    PROVE  IInv'
<1>1. SeenIsPast'
  BY DEF IInv, SeenIsPast, TypeOK, File
<1>2. SeenIsSent'
  BY SentStable DEF IInv, SeenIsSent
<1> QED
  BY <1>1, <1>2 DEF IInv

(* A written file has an mtime the watcher cannot have seen. *)
LEMMA WriteIInv ==
    ASSUME IInv, TypeOK', NEW c \in Context, NEW content, Write(c, content),
           UNCHANGED <<copy, locals, sentTo>>
    PROVE  IInv'
<1> USE DEF locals
<1>1. file'[c].mtime = clock + 1 /\ \A d \in Context \ {c} : file'[d] = file[d]
  BY DEF IInv, TypeOK, Write
<1>2. SeenIsPast'
  BY <1>1 DEF IInv, SeenIsPast, TypeOK, File, Write
<1>3. ASSUME NEW d \in Context, seen'[d] # 0, seen'[d] = file'[d].mtime
      PROVE  UnderWay(d)' \/ Sent(d)'
  <2>1. d # c
    BY <1>1, <1>3 DEF IInv, SeenIsPast, TypeOK
  <2>2. UnderWay(d) \/ Sent(d)
    BY <1>1, <1>3, <2>1 DEF IInv, SeenIsSent
  <2>3. UnderWay(d) => UnderWay(d)'
    BY DEF UnderWay, IsCurrent
  <2> QED
    BY <1>1, <2>1, <2>2, <2>3, SentStable
<1> QED
  BY <1>2, <1>3 DEF IInv, SeenIsSent

LEMMA NextIInv == IInv /\ [Next]_vars => IInv'
<1> SUFFICES ASSUME IInv, [Next]_vars PROVE IInv'
  OBVIOUS
<1> USE DEF outside
<1>0. TypeOK /\ TypeOK'
  BY NextType DEF IInv
<1>1. CASE LoadRegistry
  BY <1>0, <1>1, QuietIInv DEF LoadRegistry, UnderWay, TypeOK
<1>2. CASE DeriveTargets
  BY <1>0, <1>2, QuietIInv DEF DeriveTargets, UnderWay, TypeOK
<1>3. ASSUME NEW c \in Context, SkipUnchanged(c) PROVE IInv'
  BY <1>0, <1>3, QuietIInv DEF SkipUnchanged, UnderWay, TypeOK
<1>4. ASSUME NEW c \in Context, NoticeChange(c) PROVE IInv'
  <2>1. UnderWay(c)'
    BY <1>4 DEF NoticeChange, UnderWay, IsCurrent
  <2>2. \A d \in Context : ~UnderWay(d)
    BY <1>4 DEF NoticeChange, UnderWay
  <2>3. \A d \in Context \ {c} : seen'[d] = seen[d]
    BY <1>0, <1>4 DEF NoticeChange, TypeOK
  <2>4. SeenIsSent'
    BY <1>4, <2>1, <2>2, <2>3, SentStable DEF IInv, SeenIsSent, NoticeChange
  <2>5. SeenIsPast'
    BY <1>0, <1>4 DEF IInv, SeenIsPast, NoticeChange, TypeOK
  <2> QED
    BY <1>0, <2>4, <2>5 DEF IInv
<1>5. ASSUME NEW c \in Context, LookupFails(c) PROVE IInv'
  BY <1>0, <1>5, DiesIInv DEF LookupFails
<1>6. ASSUME NEW c \in Context, NothingToSend(c) PROVE IInv'
  <2>1. byName[c] \in Host /\ sentTo'[c] = byName[c]
    BY <1>0, <1>6, HostAssumption DEF NothingToSend, TypeOK
  <2>2. Sent(c)'
    BY <1>6, <2>1, HostAssumption DEF NothingToSend, Sent, Holds, UpToDate, QuickCheck, Second
  <2>3. \A d \in Context \ {c} : ~UnderWay(d)
    BY <1>6, CurrentIsUnique DEF NothingToSend, UnderWay
  <2>4. \A d \in Context \ {c} : sentTo'[d] = sentTo[d]
    BY <1>0, <1>6 DEF NothingToSend, TypeOK
  <2>5. SeenIsSent'
    BY <1>6, <2>2, <2>3, <2>4, SentStable DEF IInv, SeenIsSent, NothingToSend
  <2>6. SeenIsPast'
    BY <1>6 DEF IInv, SeenIsPast, NothingToSend
  <2> QED
    BY <1>0, <2>5, <2>6 DEF IInv
<1>7. ASSUME NEW c \in Context, StartTransfer(c) PROVE IInv'
  BY <1>0, <1>7, QuietIInv DEF StartTransfer, UnderWay, IsCurrent, TypeOK
<1>8. ASSUME NEW c \in Context, FinishTransfer(c) PROVE IInv'
  <2>1. byName[c] \in Host /\ sentTo'[c] = byName[c]
    BY <1>0, <1>8, HostAssumption DEF FinishTransfer, TypeOK
  <2>2. copy'[c][byName[c]].content = file[c].content
    BY <1>0, <1>8, <2>1 DEF FinishTransfer, TypeOK
  <2>3. Sent(c)'
    BY <1>8, <2>1, <2>2, HostAssumption DEF FinishTransfer, Sent, Holds
  <2>4. \A d \in Context \ {c} : ~UnderWay(d)
    BY <1>8, CurrentIsUnique DEF FinishTransfer, UnderWay
  <2>5. \A d \in Context \ {c} : sentTo'[d] = sentTo[d] /\ copy'[d] = copy[d]
    BY <1>0, <1>8 DEF FinishTransfer, TypeOK
  <2>6. SeenIsSent'
    BY <1>8, <2>3, <2>4, <2>5, SentStable DEF IInv, SeenIsSent, FinishTransfer
  <2>7. SeenIsPast'
    BY <1>8 DEF IInv, SeenIsPast, FinishTransfer
  <2> QED
    BY <1>0, <2>6, <2>7 DEF IInv
<1>9. ASSUME NEW c \in Context, TransferFails(c) PROVE IInv'
  BY <1>0, <1>9, DiesIInv DEF TransferFails
<1>10. CASE Sleep
  BY <1>0, <1>10, QuietIInv DEF Sleep, UnderWay, TypeOK
<1>11. CASE WakeUp
  BY <1>0, <1>11, QuietIInv DEF WakeUp, UnderWay, TypeOK
<1>12. CASE Restart
  BY <1>0, <1>12, QuietIInv DEF Restart, UnderWay, TypeOK
<1>13. CASE Killed
  BY <1>0, <1>13, DiesIInv DEF Killed
<1>14. ASSUME NEW c \in Context, Truncate(c) PROVE IInv'
  BY <1>0, <1>14, WriteIInv DEF Truncate
<1>15. ASSUME NEW c \in Context, FinishWriting(c) PROVE IInv'
  BY <1>0, <1>15, WriteIInv DEF FinishWriting
<1>16. ASSUME NEW c \in Context, Replace(c) PROVE IInv'
  BY <1>0, <1>16, WriteIInv DEF Replace
<1>17. ASSUME NEW c \in Context, RemoveFile(c) PROVE IInv'
  <2>1. file'[c].mtime = 0 /\ \A d \in Context \ {c} : file'[d] = file[d]
    BY <1>0, <1>17 DEF RemoveFile, TypeOK, NoFile
  <2>2. SeenIsPast'
    BY <1>0, <1>17, <2>1 DEF IInv, SeenIsPast, RemoveFile, TypeOK, locals
  <2>3. \A d \in Context : UnderWay(d) => UnderWay(d)'
    BY <1>17 DEF RemoveFile, locals, UnderWay, IsCurrent
  <2>4. SeenIsSent'
    BY <1>17, <2>1, <2>3, SentStable DEF IInv, SeenIsSent, RemoveFile, locals
  <2> QED
    BY <1>0, <2>2, <2>4 DEF IInv
<1>18. ASSUME NEW c \in Context, ChangeRegistry(c) PROVE IInv'
  BY <1>0, <1>18, QuietIInv DEF ChangeRegistry, locals, UnderWay, IsCurrent, TypeOK
<1>19. CASE ChangeReachability
  BY <1>0, <1>19, QuietIInv DEF ChangeReachability, locals, UnderWay, IsCurrent, TypeOK
<1>20. CASE Tick
  BY <1>0, <1>20, QuietIInv DEF Tick, locals, UnderWay, IsCurrent, TypeOK
<1>21. CASE UNCHANGED vars
  BY <1>0, <1>21, QuietIInv DEF vars, locals, UnderWay, IsCurrent, TypeOK
<1> QED
  BY <1>1, <1>2, <1>3, <1>4, <1>5, <1>6, <1>7, <1>8, <1>9, <1>10, <1>11, <1>12,
     <1>13, <1>14, <1>15, <1>16, <1>17, <1>18, <1>19, <1>20, <1>21
     DEF Next, Poll, Environment

(* poll_watch loses no edit: a file whose mtime it remembers at the end of *)
(* a round has been sent as it is, whatever was edited, moved, killed or   *)
(* unreachable while the transfers ran.                                    *)
THEOREM NoEditIsLost == Spec => []NoLostEdit
<1>1. Init => IInv
  BY InitIInv
<1>2. IInv /\ [Next]_vars => IInv'
  BY NextIInv
<1>3. IInv => NoLostEdit
  BY DEF IInv, SeenIsSent, NoLostEdit, UnderWay, Sent
<1> QED
  BY <1>1, <1>2, <1>3, PTL DEF Spec
=============================================================================
