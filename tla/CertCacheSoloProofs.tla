------------------------ MODULE CertCacheSoloProofs ------------------------
(***************************************************************************)
(* Theorems about the files: what a save and a removal leave behind when   *)
(* no other process works in the directory meanwhile, whatever crashed     *)
(* there before.                                                           *)
(***************************************************************************)
EXTENDS CertCacheProofs

\* The slots a save has renamed before it comes to slot s.
Before == [key |-> {}, pub |-> {"key"}, cert |-> {"key", "pub"},
           meta |-> {"key", "pub", "cert"}]

Storing(p) == proc[p].pc \in Saving

\* solo[p] is claimed only from p's first write or unlink on, and while nobody else is
\* inside.
Alone(p) == /\ proc[p].pc \notin {"lookup", "decide", "request", "save", "list", "open"}
            /\ proc[p].pc = "verify" => proc[p].action # "reuse"
            /\ proc[p].pc = "done" => proc[p].action # "reuse"
            /\ \A q \in Proc \ {p} : ~Touching(q)

\* How far a save has got, how far a removal, and what they have left at the end.
Progress(p) ==
  /\ Storing(p) => \A s \in Before[proc[p].slot] : disk[File(s)] = proc[p].entry
  /\ At(p, "write") => fd[p] = Tmp(proc[p].slot) /\ disk[Tmp(proc[p].slot)] = Empty
  /\ proc[p].pc \in {"chmod", "rename"} => disk[Tmp(proc[p].slot)] = proc[p].entry
  /\ At(p, "unlink") => \A x \in Path : disk[x] # Absent => x \in proc[p].todo
  /\ Stored(p) => \A s \in Slots : disk[File(s)] = proc[p].entry
  /\ At(p, "done") /\ proc[p].cmd \in Removal => ~dir /\ \A x \in Path : disk[x] = Absent

SoloInv == LocalInv /\ \A p \in Proc : solo[p] => Alone(p) /\ Progress(p)

----------------------------------------------------------------------------
(* The other processes. *)

LEMMA PathFacts ==
  /\ \A s, t \in Slots : File(s) # Tmp(t)
  /\ \A s, t \in Slots : s # t => File(s) # File(t) /\ Tmp(s) # Tmp(t)
  /\ \A s \in Slots : File(s) \in Path /\ Tmp(s) \in Path /\ Tmp(s) # Nowhere
BY DEF File, Tmp, Path, Nowhere, Slots

\* The steps that do not work in the directory lead to places outside it.
LEMMA QuietStep ==
  ASSUME SoloInv, NEW p \in Proc, Step(p),
         ~(Save(p) \/ Create(p) \/ Write(p) \/ Chmod(p) \/ ChmodFails(p) \/ Rename(p)),
         ~(RemoveAll(p) \/ Unlink(p) \/ Rmdir(p))
  PROVE  /\ proc'[p].pc \notin Saving \cup {"unlink"}
         /\ ~Request(p) => proc'[p].pc # "save"
<1>a. TypeOK /\ Idle.pc = "idle"
  BY DEF SoloInv, LocalInv, Idle
<1>t. proc \in [Proc -> ProcState]
  BY <1>a, TypeFacts
<1>1. CASE \E c \in Commands[p] : Start(p, c)
  <2>1. PICK c \in Commands[p] : Start(p, c)
    BY <1>1
  <2> DEFINE n == [Idle EXCEPT !.cmd = c, !.began = IF SshCmd(c) THEN now ELSE -1,
                     !.at = IF c = "prune" THEN now ELSE 0,
                     !.pc = CASE SshCmd(c)    -> "lookup"
                              [] c = "issue"  -> "request"
                              [] c = "remove" -> "open"
                              [] OTHER        -> "list"]
  <2>2. n.pc \in {"lookup", "request", "open", "list"}
    BY DEF Idle
  <2>3. proc'[p] = n
    BY <2>1, <1>a, BecomesFacts DEF Start
  <2> HIDE DEF n
  <2> QED
    BY <2>2, <2>3 DEF Saving
<1>2. CASE Lookup(p)
  <2>1. proc'[p].pc \in {"request", "decide"}
    <3>1. CASE Becomes(p, [proc[p] EXCEPT !.action = "issue", !.pc = "request"])
      BY <3>1, <1>t DEF Becomes, ProcState
    <3>2. CASE Becomes(p, [proc[p] EXCEPT !.entry = disk[File("meta")], !.pc = "decide"])
      BY <3>2, <1>t DEF Becomes, ProcState
    <3> QED
      BY <1>2, <3>1, <3>2 DEF Lookup
  <2> QED
    BY <2>1 DEF Saving
<1>3. CASE Decide(p)
  <2>1. proc'[p].pc \in {"request", "verify"}
    <3>1. \/ Becomes(p, [proc[p] EXCEPT !.action = "renew", !.pc = "request"])
          \/ Becomes(p, [proc[p] EXCEPT !.action = "reuse", !.pc = "verify", !.at = now])
      BY <1>3 DEF Decide
    <3>2. CASE Becomes(p, [proc[p] EXCEPT !.action = "renew", !.pc = "request"])
      BY <3>2, <1>t DEF Becomes, ProcState
    <3>3. CASE Becomes(p, [proc[p] EXCEPT !.action = "reuse", !.pc = "verify", !.at = now])
      BY <3>3, <1>t DEF Becomes, ProcState
    <3> QED
      BY <3>1, <3>2, <3>3
  <2> QED
    BY <2>1 DEF Saving
<1>4. CASE VerifyOK(p)
  <2>1. proc'[p].pc = "done"
    BY <1>4, <1>t DEF VerifyOK, Becomes, ProcState
  <2> QED
    BY <2>1 DEF Saving
<1>5. CASE VerifyFails(p)
  <2>1. proc'[p].pc \in {"request", "idle"}
    BY <1>5, <1>t DEF VerifyFails, Becomes, ProcState, Idle
  <2> QED
    BY <2>1 DEF Saving
<1>6. CASE Request(p)
  <2>1. proc'[p].pc = "save"
    BY <1>6, <1>t DEF Request, Becomes, ProcState
  <2> QED
    BY <1>6, <2>1 DEF Saving
<1>7. CASE List(p)
  <2>1. proc'[p].pc \in {"open", "done"}
    BY <1>7, <1>t DEF List, Becomes, ProcState
  <2> QED
    BY <2>1 DEF Saving
<1>8. CASE \/ MetadataCorrupt(p) \/ WriteStops(p) \/ Discard(p) \/ StoreFails(p)
           \/ Finish(p) \/ Abort(p)
  <2>1. Becomes(p, Idle)
    BY <1>8 DEF MetadataCorrupt, WriteStops, Discard, StoreFails, Finish, Abort
  <2> QED
    BY <2>1, <1>a, <1>8, BecomesFacts DEF Saving
<1> QED
  BY <1>1, <1>2, <1>3, <1>4, <1>5, <1>6, <1>7, <1>8 DEF Step

\* A process that goes on being alone sees nothing of a step of another one.
LEMMA Unseen ==
  ASSUME SoloInv, NEW p \in Proc, Step(p), NEW q \in Proc \ {p}, solo'[q]
  PROVE  solo[q] /\ UNCHANGED <<disk, dir, fd[q], proc[q]>> /\ ~Touching(p)'
<1>a. TypeOK /\ proc[p] \in ProcState /\ Idle.pc = "idle"
  BY TypeFacts DEF SoloInv, LocalInv, Idle
<1>b. solo \in [Proc -> BOOLEAN]
  BY <1>a, TypeFacts
<1>t. proc \in [Proc -> ProcState]
  BY <1>a, TypeFacts
<1>1. proc'[q] = proc[q]
  BY <1>a, StepFrame
<1>2. solo[q]
  BY <1>b DEF Step, Start, Lookup, MetadataCorrupt, Decide, VerifyOK, VerifyFails, Request,
     Save, Create, Write, WriteStops, Chmod, ChmodFails, Discard, Rename, StoreFails, List,
     RemoveAll, Unlink, Rmdir, Finish, Abort, BeginTouch, history
<1>3. ~Touching(p)
  BY <1>2 DEF SoloInv, Alone
<1>4. ~Save(p) /\ ~(At(p, "open") /\ BeginTouch(p))
  BY <1>b DEF Save, BeginTouch
<1>f. fd \in [Proc -> Path \cup {Nowhere}]
  BY <1>a, TypeFacts
<1>5. UNCHANGED <<disk, dir, fd[q]>>
  BY <1>3, <1>4, <1>f DEF Touching, At, Step, Start, Lookup, MetadataCorrupt, Decide, VerifyOK,
     VerifyFails, Request, Save, Create, Write, WriteStops, Chmod, ChmodFails, Discard,
     Rename, StoreFails, List, RemoveAll, Unlink, Rmdir, Finish, Abort, files
<1>6. ~Touching(p)'
  <2>1. CASE RemoveAll(p)
    BY <2>1, <1>4, <1>a, BecomesFacts DEF RemoveAll, Touching, ProcState
  <2>2. CASE ~RemoveAll(p)
    BY <2>2, <1>3, <1>4, QuietStep DEF Create, Write, Chmod, ChmodFails, Rename, Unlink,
       Rmdir, Touching, At, Saving
  <2> QED
    BY <2>1, <2>2
<1> QED
  BY <1>1, <1>2, <1>5, <1>6

LEMMA OthersKeepSolo ==
  ASSUME SoloInv, NEW p \in Proc, Step(p), NEW q \in Proc \ {p}, solo'[q]
  PROVE  Alone(q)' /\ Progress(q)'
<1>1. solo[q] /\ UNCHANGED <<disk, dir, fd[q], proc[q]>> /\ ~Touching(p)'
  BY Unseen
<1>2. Alone(q) /\ Progress(q)
  BY <1>1 DEF SoloInv
<1>3. \A x \in Proc \ {p} : proc'[x] = proc[x]
  BY StepFrame DEF SoloInv, LocalInv
<1>4. Alone(q)'
  <2>1. \A x \in Proc \ {q} : ~Touching(x)'
    BY <1>1, <1>2, <1>3 DEF Alone, Touching
  <2> QED
    BY <1>1, <1>2, <2>1 DEF Alone
<1>5. Progress(q)'
  BY <1>1, <1>2 DEF Progress, Storing, Saving, Stored, At, Ssh
<1> QED
  BY <1>4, <1>5

----------------------------------------------------------------------------
(* The process that is alone. *)

LEMMA OwnStep ==
  ASSUME SoloInv, LocalInv', NEW p \in Proc, Step(p), solo'[p]
  PROVE  Alone(p)' /\ Progress(p)'
<1> DEFINE r == proc[p]
<1>a. /\ TypeOK /\ r \in ProcState /\ solo \in [Proc -> BOOLEAN]
      /\ disk \in [Path -> Contents] /\ fd \in [Proc -> Path \cup {Nowhere}]
  BY TypeFacts DEF SoloInv, LocalInv
<1>b. Fits(r, now)
  BY DEF SoloInv, LocalInv, Shape
<1>c. solo[p] => Alone(p) /\ Progress(p)
  BY DEF SoloInv
<1>d. \A q \in Proc \ {p} : proc'[q] = proc[q]
  BY <1>a, StepFrame
<1>n. (\A q \in Proc \ {p} : ~Touching(q)) => \A q \in Proc \ {p} : ~Touching(q)'
  BY <1>d DEF Touching
<1>i. ASSUME proc'[p] = Idle, \A q \in Proc \ {p} : ~Touching(q)
      PROVE  Alone(p)' /\ Progress(p)'
  BY <1>i, <1>n DEF Idle, Alone, Progress, Storing, Saving, Stored, At
<1>1. CASE (\E c \in Commands[p] : Start(p, c)) \/ Lookup(p) \/ Decide(p) \/ Request(p) \/ List(p)
  BY <1>1, <1>a, <1>c DEF Start, Lookup, Decide, Request, List, history, At, Alone
<1>2. CASE VerifyOK(p)
  <2>0. PICK t \in r.at .. now :
          Becomes(p, [r EXCEPT !.seen = disk[File("cert")], !.checked = t, !.pc = "done"])
    BY <1>2 DEF VerifyOK
  <2> DEFINE n == [r EXCEPT !.seen = disk[File("cert")], !.checked = t, !.pc = "done"]
  <2>1. /\ n.pc = "done" /\ n.action = r.action /\ n.entry = r.entry /\ n.cmd = r.cmd
        /\ proc'[p] = n
    BY <2>0, <1>a, BecomesFacts DEF ProcState
  <2>2. solo[p] /\ r.pc = "verify" /\ UNCHANGED <<disk, dir>>
    BY <1>2 DEF VerifyOK, files, history, At
  <2>3. r.action # "reuse" /\ r.cmd \in {"ssh", "ssh_no_cache"}
    BY <1>b, <1>c, <2>2 DEF Alone, Fits
  <2> HIDE DEF n
  <2>4. Alone(p)'
    BY <1>c, <1>n, <2>1, <2>2, <2>3 DEF Alone
  <2>5. Progress(p)'
    BY <1>c, <2>1, <2>2, <2>3 DEF Progress, Storing, Saving, Stored, At, Ssh, Removal
  <2> QED
    BY <2>4, <2>5
<1>3. CASE VerifyFails(p)
  <2>1. solo[p] /\ r.pc = "verify"
    BY <1>3 DEF VerifyFails, history, At
  <2>2. proc'[p] = Idle
    BY <1>3, <1>a, <1>c, <2>1, BecomesFacts DEF VerifyFails, Alone
  <2> QED
    BY <1>c, <1>i, <2>1, <2>2 DEF Alone
<1>4. CASE \/ MetadataCorrupt(p) \/ WriteStops(p) \/ Discard(p) \/ StoreFails(p)
           \/ Finish(p) \/ Abort(p)
  <2>0. solo[p] /\ Becomes(p, Idle)
    BY <1>4 DEF MetadataCorrupt, WriteStops, Discard, StoreFails, Finish, Abort, history
  <2>1. solo[p] /\ proc'[p] = Idle
    BY <2>0, <1>a, BecomesFacts
  <2> QED
    BY <1>c, <1>i, <2>1 DEF Alone
<1>5. CASE Save(p)
  <2> DEFINE n == [r EXCEPT !.pc = "create", !.slot = "key"]
  <2>1. proc'[p] = n /\ n.pc = "create" /\ n.slot = "key"
    BY <1>5, <1>a, BecomesFacts DEF Save, ProcState
  <2>2. \A q \in Proc \ {p} : ~Touching(q)
    BY <1>5, <1>a DEF Save, BeginTouch
  <2> HIDE DEF n
  <2>3. Alone(p)'
    BY <1>n, <2>1, <2>2 DEF Alone
  <2>4. Progress(p)'
    BY <2>1 DEF Progress, Storing, Saving, Stored, At, Before
  <2> QED
    BY <2>3, <2>4
<1>6. CASE Create(p) \/ Write(p) \/ Chmod(p) \/ ChmodFails(p)
  <2>0. /\ r.pc \in Saving /\ r.slot \in Slots /\ solo[p]
        /\ \A s \in Before[r.slot] : s \in Slots /\ disk[File(s)] = r.entry
    BY <1>6, <1>a, <1>c DEF Create, Write, Chmod, ChmodFails, ProcState, At, Saving, history,
       Progress, Storing, Before, Slots
  <2>s. ASSUME NEW n, proc'[p] = n, n.slot = r.slot, n.entry = r.entry, n.pc \in Saving,
               \A s \in Slots : disk'[File(s)] = disk[File(s)],
               n.pc = "write" => fd'[p] = Tmp(r.slot) /\ disk'[Tmp(r.slot)] = Empty,
               n.pc \in {"chmod", "rename"} => disk'[Tmp(r.slot)] = r.entry
        PROVE  Alone(p)' /\ Progress(p)'
    <3>1. n.pc \notin {"lookup", "decide", "request", "save", "list", "open", "verify", "done",
                       "unlink"}
      BY <2>s DEF Saving
    <3>2. Alone(p)'
      BY <1>c, <1>n, <2>0, <2>s, <3>1 DEF Alone
    <3>3. Progress(p)'
      BY <2>0, <2>s, <3>1 DEF Progress, Storing, Stored, At
    <3> QED
      BY <3>2, <3>3
  <2>1. CASE Create(p)
    <3> DEFINE n == [r EXCEPT !.pc = "write"]
    <3>1. proc'[p] = n /\ n.slot = r.slot /\ n.entry = r.entry /\ n.pc = "write"
      BY <2>1, <1>a, BecomesFacts DEF Create, ProcState
    <3>2. /\ fd'[p] = Tmp(r.slot) /\ disk'[Tmp(r.slot)] = Empty
          /\ \A s \in Slots : disk'[File(s)] = disk[File(s)]
      BY <2>0, <2>1, <1>a, PathFacts DEF Create
    <3> HIDE DEF n
    <3> QED
      BY <2>s, <3>1, <3>2 DEF Saving
  <2>2. CASE Write(p)
    <3> DEFINE n == [r EXCEPT !.pc = "chmod"]
    <3>1. proc'[p] = n /\ n.slot = r.slot /\ n.entry = r.entry /\ n.pc = "chmod"
      BY <2>2, <1>a, BecomesFacts DEF Write, ProcState
    <3>2. fd[p] = Tmp(r.slot) /\ disk[Tmp(r.slot)] = Empty
      BY <2>0, <2>2, <1>c DEF Progress, Write, At
    <3>3. disk' = [disk EXCEPT ![Tmp(r.slot)] = r.entry]
      BY <2>0, <2>2, <3>2, PathFacts DEF Write
    <3>4. /\ disk'[Tmp(r.slot)] = r.entry
          /\ \A s \in Slots : disk'[File(s)] = disk[File(s)]
      BY <2>0, <3>3, <1>a, PathFacts
    <3> HIDE DEF n
    <3> QED
      BY <2>s, <3>1, <3>4 DEF Saving
  <2>3. CASE Chmod(p)
    <3> DEFINE n == [r EXCEPT !.pc = "rename"]
    <3>1. proc'[p] = n /\ n.slot = r.slot /\ n.entry = r.entry /\ n.pc = "rename"
      BY <2>3, <1>a, BecomesFacts DEF Chmod, ProcState
    <3>2. disk' = disk /\ disk[Tmp(r.slot)] = r.entry
      BY <2>0, <2>3, <1>c DEF Progress, Chmod, At, files
    <3> HIDE DEF n
    <3> QED
      BY <2>s, <3>1, <3>2 DEF Saving
  <2>4. CASE ChmodFails(p)
    <3> DEFINE n == [r EXCEPT !.pc = "discard"]
    <3>1. proc'[p] = n /\ n.slot = r.slot /\ n.entry = r.entry /\ n.pc = "discard"
      BY <2>4, <1>a, BecomesFacts DEF ChmodFails, ProcState
    <3>2. disk' = disk
      BY <2>4 DEF ChmodFails, files
    <3> HIDE DEF n
    <3> QED
      BY <2>s, <3>1, <3>2 DEF Saving
  <2> QED
    BY <1>6, <2>1, <2>2, <2>3, <2>4
<1>7. CASE Rename(p)
  <2>1. r.pc = "rename" /\ r.slot \in Slots /\ solo[p] /\ r.action # "reuse" /\ r.cmd \notin Removal
    BY <1>7, <1>a, <1>b DEF Rename, ProcState, At, history, Fits, Saving
  <2>2. /\ disk'[File(r.slot)] = r.entry
        /\ \A s \in Slots \ {r.slot} : disk'[File(s)] = disk[File(s)]
    <3>1. disk[Tmp(r.slot)] = r.entry
      BY <1>c, <2>1 DEF Progress
    <3> QED
      BY <1>7, <1>a, <2>1, <3>1, PathFacts DEF Rename
  <2>3. \A s \in Before[r.slot] \cup {r.slot} : disk'[File(s)] = r.entry
    <3>1. \A s \in Before[r.slot] : disk[File(s)] = r.entry /\ s \in Slots \ {r.slot}
      BY <1>c, <2>1 DEF Progress, Storing, Saving, Before, Slots
    <3> QED
      BY <2>2, <3>1
  <2>4. CASE After[r.slot] # "none"
    <3> DEFINE n == [r EXCEPT !.pc = "create", !.slot = After[r.slot]]
    <3>1. /\ proc'[p] = n /\ n.pc = "create" /\ n.slot = After[r.slot]
          /\ n.entry = r.entry
      BY <1>7, <1>a, <2>4, BecomesFacts DEF Rename, ProcState
    <3>2. Before[After[r.slot]] = Before[r.slot] \cup {r.slot}
      BY <2>1, <2>4 DEF Before, After, Slots
    <3> HIDE DEF n
    <3>3. Alone(p)'
      BY <1>c, <1>n, <2>1, <3>1 DEF Alone
    <3>4. Progress(p)'
      BY <2>3, <3>1, <3>2 DEF Progress, Storing, Saving, Stored, At
    <3> QED
      BY <3>3, <3>4
  <2>5. CASE After[r.slot] = "none"
    <3> DEFINE n == [r EXCEPT !.slot = "key", !.at = now,
                              !.pc = IF Ssh(p) THEN "verify" ELSE "done"]
    <3>1. /\ proc'[p] = n /\ n.pc \in {"verify", "done"} /\ n.action = r.action
          /\ n.entry = r.entry /\ n.cmd = r.cmd
      BY <1>7, <1>a, <2>5, BecomesFacts DEF Rename, ProcState
    <3>2. Before[r.slot] \cup {r.slot} = Slots
      BY <2>1, <2>5 DEF Before, After, Slots
    <3> HIDE DEF n
    <3>3. Alone(p)'
      BY <1>c, <1>n, <2>1, <3>1 DEF Alone
    <3>4. Progress(p)'
      BY <2>1, <2>3, <3>1, <3>2 DEF Progress, Storing, Saving, Stored, At
    <3> QED
      BY <3>3, <3>4
  <2> QED
    BY <2>4, <2>5
<1>8. CASE RemoveAll(p)
  <2> DEFINE n == [r EXCEPT !.pc = "unlink", !.todo = {x \in Path : disk[x] # Absent}]
  <2>1. ~(UNCHANGED history)
    BY <1>8, <1>c DEF RemoveAll, history, Alone, At
  <2>2. Becomes(p, n) /\ BeginTouch(p) /\ UNCHANGED disk
    BY <1>8, <2>1 DEF RemoveAll, files
  <2>3. proc'[p] = n /\ n.pc = "unlink" /\ n.todo = {x \in Path : disk[x] # Absent}
    BY <1>a, <2>2, BecomesFacts DEF ProcState
  <2>4. \A q \in Proc \ {p} : ~Touching(q)
    BY <1>a, <2>2 DEF BeginTouch
  <2> HIDE DEF n
  <2>5. Alone(p)'
    BY <1>n, <2>3, <2>4 DEF Alone
  <2>6. Progress(p)'
    BY <2>2, <2>3 DEF Progress, Storing, Saving, Stored, At
  <2> QED
    BY <2>5, <2>6
<1>9. CASE Unlink(p)
  <2>1. PICK x \in r.todo : /\ disk' = [disk EXCEPT ![x] = Absent]
                            /\ Becomes(p, [r EXCEPT !.todo = @ \ {x}])
    BY <1>9 DEF Unlink
  <2> DEFINE n == [r EXCEPT !.todo = @ \ {x}]
  <2>2. /\ proc'[p] = n /\ n.pc = "unlink" /\ n.todo = r.todo \ {x} /\ r.pc = "unlink"
        /\ solo[p] /\ x \in Path
    BY <1>9, <1>a, <2>1, BecomesFacts DEF Unlink, ProcState, At, history
  <2> HIDE DEF n
  <2>3. Alone(p)'
    BY <1>c, <1>n, <2>2 DEF Alone
  <2>4. \A y \in Path : disk'[y] # Absent => y \in r.todo \ {x}
    BY <1>a, <1>c, <2>1, <2>2 DEF Progress, At
  <2>5. Progress(p)'
    BY <2>2, <2>4 DEF Progress, Storing, Saving, Stored, At
  <2> QED
    BY <2>3, <2>5
<1>10. CASE Rmdir(p)
  <2>1. r.pc = "unlink" /\ solo[p] /\ r.cmd \in Removal /\ r.todo = {} /\ disk' = disk
    BY <1>10, <1>b DEF Rmdir, At, history, Fits
  <2>2. \A x \in Path : disk[x] = Absent
    BY <1>c, <2>1 DEF Progress, At
  <2> DEFINE n == [r EXCEPT !.pc = "done"]
  <2>3. dir' = FALSE /\ Becomes(p, n)
    BY <1>10, <2>2 DEF Rmdir
  <2>4. proc'[p] = n /\ n.pc = "done" /\ n.cmd = r.cmd /\ n.action = r.action
    BY <1>a, <2>3, BecomesFacts DEF ProcState
  <2>5. r.action = "none"
    BY <1>b, <2>1 DEF Fits, Removal
  <2> HIDE DEF n
  <2>6. Alone(p)'
    BY <1>c, <1>n, <2>1, <2>4, <2>5 DEF Alone
  <2>7. Progress(p)'
    <3>1. n.pc \notin Saving \cup {"unlink", "verify", "write", "chmod", "rename"}
      BY <2>4 DEF Saving
    <3>2. ~Ssh(p)' /\ n.cmd # "issue"
      BY <2>1, <2>4 DEF Ssh, SshCmd, Removal
    <3>3. ~dir' /\ \A x \in Path : disk'[x] = Absent
      BY <2>1, <2>2, <2>3
    <3> QED
      BY <2>4, <3>1, <3>2, <3>3 DEF Progress, Storing, Stored, At
  <2> QED
    BY <2>6, <2>7
<1> QED
  BY <1>1, <1>2, <1>3, <1>4, <1>5, <1>6, <1>7, <1>8, <1>9, <1>10 DEF Step

LEMMA SoloInit == Init => SoloInv
BY LocalInit DEF Init, SoloInv

LEMMA SoloNext == SoloInv /\ [Next]_vars => SoloInv'
<1> SUFFICES ASSUME SoloInv, [Next]_vars PROVE SoloInv'
  OBVIOUS
<1>1. LocalInv'
  BY LocalNext DEF SoloInv
<1>2. SUFFICES ASSUME NEW q \in Proc, solo'[q] PROVE Alone(q)' /\ Progress(q)'
  BY <1>1 DEF SoloInv
<1>3. CASE Tick \/ UNCHANGED vars
  BY <1>2, <1>3 DEF Tick, vars, files, history, SoloInv, Alone, Progress, Touching, Storing,
     Saving, Stored,
     At, Ssh
<1>4. ASSUME NEW p \in Proc, Step(p) PROVE Alone(q)' /\ Progress(q)'
  <2>1. CASE p = q
    BY <1>1, <1>2, <1>4, <2>1, OwnStep
  <2>2. CASE p # q
    BY <1>2, <1>4, <2>2, OthersKeepSolo
  <2> QED
    BY <2>1, <2>2
<1> QED
  BY <1>3, <1>4 DEF Next

\* A save that no other process's write or removal overlapped has left the key, the public
\* key, the certificate and the metadata of its own issuance, whatever was in the directory
\* before (certcache.go, Save).
THEOREM SaveIsWhole == Spec => []SoloSaveIsWhole
<1>1. SoloInv => SoloSaveIsWhole
  BY DEF SoloInv, Progress, SoloSaveIsWhole
<1> QED
  BY SoloInit, SoloNext, <1>1, PTL DEF Spec

\* A removal that no other process overlapped and that reports success has left neither
\* files nor the directory (certcache.go, Remove).
THEOREM RemovalIsClean == Spec => []SoloRemovalIsClean
<1>1. SoloInv => SoloRemovalIsClean
  BY DEF SoloInv, Progress, SoloRemovalIsClean, Removal
<1> QED
  BY SoloInit, SoloNext, <1>1, PTL DEF Spec

----------------------------------------------------------------------------
(* As long as no two processes were inside at once. *)

InFlight(p) == proc[p].pc \in {"save"} \cup Saving
Done(p) == IF Storing(p) THEN Before[proc[p].slot] ELSE {}

NoOverlapMeansSolo == ~overlapped => \A p \in Proc : Touching(p) => solo[p]

\* Nobody else saves what p was granted, and it is in no file p has not renamed yet.
EntriesDiffer ==
  \A p, q \in Proc : InFlight(p) /\ InFlight(q) /\ p # q => proc[p].entry # proc[q].entry
EntryIsNew ==
  ~overlapped => \A p \in Proc : InFlight(p) =>
                   \A s \in Slots \ Done(p) : disk[File(s)] # proc[p].entry

AgreeInv == /\ SoloInv
            /\ NoOverlapMeansSolo
            /\ EntriesDiffer
            /\ EntryIsNew
            /\ AgreementMeansWhole
            /\ PublishedIsWhole

\* Overlap is never forgotten, and who gets inside without it is alone.
LEMMA TouchStep ==
  ASSUME SoloInv, NoOverlapMeansSolo, NEW p \in Proc, Step(p)
  PROVE  (overlapped => overlapped') /\ NoOverlapMeansSolo'
<1>a. TypeOK /\ proc[p] \in ProcState /\ solo \in [Proc -> BOOLEAN] /\ overlapped \in BOOLEAN
  BY TypeFacts DEF SoloInv, LocalInv
<1>b. \A q \in Proc \ {p} : proc'[q] = proc[q]
  BY <1>a, StepFrame
<1>1. CASE BeginTouch(p)
  <2>1. overlapped => overlapped'
    BY <1>1 DEF BeginTouch
  <2>2. ASSUME ~overlapped', NEW q \in Proc, Touching(q)' PROVE solo'[q]
    <3>1. \A x \in Proc \ {p} : ~Touching(x)
      BY <1>1, <2>2 DEF BeginTouch
    <3>2. q = p
      BY <1>b, <2>2, <3>1 DEF Touching
    <3> QED
      BY <1>1, <3>1, <3>2 DEF BeginTouch
  <2> QED
    BY <2>1, <2>2 DEF NoOverlapMeansSolo
<1>2. CASE ~BeginTouch(p)
  <2>1. overlapped' = overlapped /\ \A q \in Proc \ {p} : solo'[q] = solo[q]
    BY <1>2, <1>a DEF Step, Start, Lookup, MetadataCorrupt, Decide, VerifyOK, VerifyFails,
       Request, Save, Create, Write, WriteStops, Chmod, ChmodFails, Discard, Rename,
       StoreFails, List, RemoveAll, Unlink, Rmdir, Finish, Abort, history
  <2>2. Touching(p)' => Touching(p) /\ solo' = solo
    <3>1. CASE \/ Create(p) \/ Write(p) \/ Chmod(p) \/ ChmodFails(p)
               \/ Rename(p) \/ Unlink(p) \/ Rmdir(p)
      BY <3>1 DEF Create, Write, Chmod, ChmodFails, Rename, Unlink, Rmdir, history,
         Touching, At
    <3>2. CASE RemoveAll(p)
      <4>1. proc'[p].pc = "done"
        BY <1>2, <1>a, <3>2, BecomesFacts DEF RemoveAll, ProcState
      <4> QED
        BY <4>1 DEF Touching
    <3>3. CASE ~(\/ Create(p) \/ Write(p) \/ Chmod(p) \/ ChmodFails(p)
                 \/ Rename(p) \/ Unlink(p) \/ Rmdir(p) \/ RemoveAll(p))
      BY <1>2, <3>3, QuietStep DEF Save, Touching, Saving
    <3> QED
      BY <3>1, <3>2, <3>3
  <2>3. ASSUME ~overlapped', NEW q \in Proc, Touching(q)' PROVE solo'[q]
    <3>1. Touching(q) /\ solo'[q] = solo[q]
      BY <1>b, <2>1, <2>2, <2>3 DEF Touching
    <3> QED
      BY <2>1, <2>3, <3>1 DEF NoOverlapMeansSolo
  <2> QED
    BY <2>1, <2>3 DEF NoOverlapMeansSolo
<1> QED
  BY <1>1, <1>2

\* What is on its way to the files was on its way before, or has just been granted.
LEMMA FlightStep ==
  ASSUME SoloInv, NEW p \in Proc, Step(p), InFlight(p)'
  PROVE  \/ InFlight(p) /\ proc'[p].entry = proc[p].entry /\ grants' = grants
         \/ Request(p) /\ proc'[p].entry = Len(grants) + 1 /\ ~Storing(p)'
<1>a. TypeOK /\ proc \in [Proc -> ProcState] /\ Idle.pc = "idle"
  BY TypeFacts DEF SoloInv, LocalInv, Idle
<1>1. CASE Request(p)
  BY <1>1, <1>a DEF Request, Becomes, ProcState, Storing, Saving
<1>2. CASE Save(p)
  BY <1>2, <1>a DEF Save, Becomes, ProcState, InFlight, At
<1>3. CASE Create(p) \/ Write(p) \/ Chmod(p) \/ ChmodFails(p)
  <2>1. PICK l \in Saving : Becomes(p, [proc[p] EXCEPT !.pc = l])
    BY <1>3 DEF Create, Write, Chmod, ChmodFails, Saving
  <2>2. proc'[p].entry = proc[p].entry
    BY <2>1, <1>a DEF Becomes, ProcState
  <2>3. grants' = grants /\ InFlight(p)
    BY <1>3 DEF Create, Write, Chmod, ChmodFails, InFlight, At, Saving
  <2> QED
    BY <2>2, <2>3
<1>4. CASE Rename(p)
  <2>1. \/ Becomes(p, [proc[p] EXCEPT !.pc = "create", !.slot = After[proc[p].slot]])
        \/ Becomes(p, [proc[p] EXCEPT !.slot = "key", !.at = now,
                                      !.pc = IF Ssh(p) THEN "verify" ELSE "done"])
    BY <1>4 DEF Rename
  <2>2. proc'[p].entry = proc[p].entry
    <3>1. CASE Becomes(p, [proc[p] EXCEPT !.pc = "create", !.slot = After[proc[p].slot]])
      BY <3>1, <1>a DEF Becomes, ProcState
    <3>2. CASE Becomes(p, [proc[p] EXCEPT !.slot = "key", !.at = now,
                                      !.pc = IF Ssh(p) THEN "verify" ELSE "done"])
      BY <3>2, <1>a DEF Becomes, ProcState
    <3> QED
      BY <2>1, <3>1, <3>2
  <2> QED
    BY <1>4, <2>2 DEF Rename, InFlight, At, Saving
<1>5. CASE Unlink(p)
  <2>1. proc'[p].pc = "unlink"
    BY <1>5, <1>a DEF Unlink, Becomes, ProcState, At
  <2> QED
    BY <2>1 DEF InFlight, Saving
<1>6. CASE Rmdir(p)
  <2>1. proc'[p].pc \in {"done", "idle"}
    BY <1>6, <1>a DEF Rmdir, Becomes, ProcState
  <2> QED
    BY <2>1 DEF InFlight, Saving
<1>7. CASE RemoveAll(p)
  <2>1. proc'[p].pc \in {"done", "unlink"}
    <3>1. \/ Becomes(p, [proc[p] EXCEPT !.pc = "unlink", !.todo = {x \in Path : disk[x] # Absent}])
          \/ Becomes(p, [proc[p] EXCEPT !.pc = "done"])
      BY <1>7 DEF RemoveAll
    <3>2. CASE Becomes(p, [proc[p] EXCEPT !.pc = "done"])
      BY <1>a, <3>2 DEF Becomes, ProcState
    <3>3. CASE Becomes(p, [proc[p] EXCEPT !.pc = "unlink",
                                          !.todo = {x \in Path : disk[x] # Absent}])
      BY <1>a, <3>3 DEF Becomes, ProcState
    <3> QED
      BY <3>1, <3>2, <3>3
  <2> QED
    BY <2>1 DEF InFlight, Saving
<1>8. CASE ~(\/ Request(p) \/ Save(p) \/ Create(p) \/ Write(p) \/ Chmod(p) \/ ChmodFails(p)
             \/ Rename(p) \/ Unlink(p) \/ Rmdir(p) \/ RemoveAll(p))
  BY <1>8, QuietStep DEF InFlight
<1> QED
  BY <1>1, <1>2, <1>3, <1>4, <1>5, <1>6, <1>7, <1>8

\* What becomes of the files.
LEMMA FileStep ==
  ASSUME SoloInv, NoOverlapMeansSolo, ~overlapped, NEW p \in Proc, Step(p), NEW s \in Slots
  PROVE  \/ disk'[File(s)] \in {disk[File(s)], Absent}
         \/ Rename(p) /\ s = proc[p].slot /\ disk'[File(s)] = proc[p].entry
<1>a. TypeOK /\ proc[p] \in ProcState /\ disk \in [Path -> Contents] /\ proc[p].slot \in Slots
  BY TypeFacts DEF SoloInv, LocalInv, ProcState
<1>b. Touching(p) => Progress(p)
  BY DEF SoloInv, NoOverlapMeansSolo
<1>1. CASE Create(p) \/ Discard(p)
  BY <1>1, <1>a, PathFacts DEF Create, Discard
<1>2. CASE Write(p) \/ WriteStops(p)
  <2>1. fd[p] = Tmp(proc[p].slot)
    BY <1>2, <1>b DEF Write, WriteStops, Touching, Progress, At
  <2> QED
    BY <1>2, <1>a, <2>1, PathFacts DEF Write, WriteStops
<1>3. CASE Rename(p)
  <2>1. disk[Tmp(proc[p].slot)] = proc[p].entry
    BY <1>3, <1>b DEF Rename, Touching, Progress, At
  <2> QED
    BY <1>3, <1>a, <2>1, PathFacts DEF Rename
<1>4. CASE Unlink(p)
  <2>1. PICK x \in proc[p].todo : disk' = [disk EXCEPT ![x] = Absent]
    BY <1>4 DEF Unlink
  <2> QED
    BY <1>a, <2>1, PathFacts
<1>5. CASE ~(\/ Create(p) \/ Discard(p) \/ Write(p) \/ WriteStops(p) \/ Rename(p)
             \/ Unlink(p))
  BY <1>5 DEF Step, Start, Lookup, MetadataCorrupt, Decide, VerifyOK, VerifyFails, Request, Save,
     Chmod, ChmodFails, StoreFails, List, RemoveAll, Rmdir, Finish, Abort, files
<1> QED
  BY <1>1, <1>2, <1>3, <1>4, <1>5

\* Whoever goes on with a save without overlap has come further with it.
LEMMA DoneGrows ==
  ASSUME SoloInv, NEW p \in Proc, Step(p), InFlight(p), InFlight(p)', NEW s \in Slots \ Done(p)'
  PROVE  s \notin Done(p) /\ (Rename(p) => s # proc[p].slot)
<1>a. proc \in [Proc -> ProcState] /\ Idle.pc = "idle"
  BY TypeFacts DEF SoloInv, LocalInv, Idle
<1>1. CASE Save(p)
  BY <1>1 DEF Save, Rename, Done, Storing, Saving, At
<1>2. CASE Create(p) \/ Write(p) \/ Chmod(p) \/ ChmodFails(p)
  <2>1. PICK l \in Saving : Becomes(p, [proc[p] EXCEPT !.pc = l])
    BY <1>2 DEF Create, Write, Chmod, ChmodFails, Saving
  <2>2. proc'[p].slot = proc[p].slot /\ proc'[p].pc = l
    BY <2>1, <1>a DEF Becomes, ProcState
  <2>3. Storing(p) /\ ~Rename(p)
    BY <1>2 DEF Create, Write, Chmod, ChmodFails, Rename, Storing, Saving, At
  <2> QED
    BY <2>2, <2>3 DEF Done, Storing
<1>3. CASE Rename(p)
  <2>0. At(p, "rename") /\ proc[p].slot \in Slots
    BY <1>3, <1>a DEF Rename, ProcState
  <2>1. /\ After[proc[p].slot] # "none"
        /\ Becomes(p, [proc[p] EXCEPT !.pc = "create", !.slot = After[proc[p].slot]])
    <3> SUFFICES ASSUME Becomes(p, [proc[p] EXCEPT !.slot = "key", !.at = now,
                                       !.pc = IF Ssh(p) THEN "verify" ELSE "done"])
                 PROVE  FALSE
      BY <1>3 DEF Rename
    <3>1. proc'[p].pc \in {"verify", "done"}
      BY <1>a DEF Becomes, ProcState
    <3> QED
      BY <3>1 DEF InFlight, Saving
  <2>2. Storing(p)' /\ proc'[p].slot = After[proc[p].slot]
    BY <1>a, <2>1 DEF Becomes, ProcState, Storing, Saving
  <2>3. Before[After[proc[p].slot]] = Before[proc[p].slot] \cup {proc[p].slot}
    BY <2>0, <2>1 DEF Before, After, Slots
  <2>4. Storing(p)
    BY <2>0 DEF Storing, Saving, At
  <2> QED
    BY <2>2, <2>3, <2>4 DEF Done
<1>4. CASE ~(Save(p) \/ Create(p) \/ Write(p) \/ Chmod(p) \/ ChmodFails(p) \/ Rename(p))
  <2>1. CASE Request(p)
    BY <2>1 DEF Request, At, InFlight, Saving
  <2>2. CASE RemoveAll(p) \/ Unlink(p) \/ Rmdir(p)
    BY <2>2 DEF RemoveAll, Unlink, Rmdir, At, InFlight, Saving
  <2>3. CASE ~(Request(p) \/ RemoveAll(p) \/ Unlink(p) \/ Rmdir(p))
    BY <1>4, <2>3, QuietStep DEF InFlight
  <2> QED
    BY <2>1, <2>2, <2>3
<1> QED
  BY <1>1, <1>2, <1>3, <1>4

LEMMA EntriesStep ==
  ASSUME AgreeInv, NEW p \in Proc, Step(p)
  PROVE  EntriesDiffer'
<1>a. TypeOK /\ proc \in [Proc -> ProcState] /\ Len(grants) \in Nat
  BY TypeFacts DEF AgreeInv, SoloInv, LocalInv
<1>b. \A q \in Proc \ {p} : proc'[q] = proc[q]
  BY <1>a, StepFrame
<1>1. ASSUME NEW q \in Proc \ {p}, InFlight(p)', InFlight(q)
      PROVE  proc'[p].entry # proc[q].entry
  <2>1. CASE InFlight(p) /\ proc'[p].entry = proc[p].entry
    BY <1>1, <2>1 DEF AgreeInv, EntriesDiffer
  <2>2. CASE proc'[p].entry = Len(grants) + 1
    <3>1. proc[q].entry \in 0 .. Len(grants)
      BY <1>a DEF ProcState
    <3> QED
      BY <1>a, <2>2, <3>1
  <2> QED
    BY <1>1, <2>1, <2>2, FlightStep DEF AgreeInv
<1>2. SUFFICES ASSUME NEW x \in Proc, NEW y \in Proc, InFlight(x)', InFlight(y)', x # y
               PROVE  proc'[x].entry # proc'[y].entry
  BY DEF EntriesDiffer
<1> QED
  BY <1>1, <1>2, <1>b DEF AgreeInv, EntriesDiffer, InFlight

LEMMA NewStep ==
  ASSUME AgreeInv, NEW p \in Proc, Step(p)
  PROVE  EntryIsNew'
<1>a. /\ TypeOK /\ proc \in [Proc -> ProcState] /\ Len(grants) \in Nat
      /\ disk \in [Path -> Contents]
  BY TypeFacts DEF AgreeInv, SoloInv, LocalInv
<1>b. \A q \in Proc \ {p} : proc'[q] = proc[q]
  BY <1>a, StepFrame
<1>c. overlapped => overlapped'
  BY TouchStep DEF AgreeInv
<1>1. SUFFICES ASSUME ~overlapped', NEW q \in Proc, InFlight(q)', NEW s \in Slots \ Done(q)'
               PROVE  disk'[File(s)] # proc'[q].entry
  BY DEF EntryIsNew
<1>2. ~overlapped
  BY <1>1, <1>c
<1>3. \/ disk'[File(s)] \in {disk[File(s)], Absent}
      \/ Rename(p) /\ s = proc[p].slot /\ disk'[File(s)] = proc[p].entry
  BY <1>2, FileStep DEF AgreeInv
<1>4. CASE q # p
  <2>1. proc'[q] = proc[q] /\ InFlight(q) /\ s \notin Done(q)
    BY <1>1, <1>4, <1>b DEF InFlight, Done, Storing, Saving
  <2>2. disk[File(s)] # proc[q].entry
    BY <1>2, <2>1 DEF AgreeInv, EntryIsNew
  <2>3. proc[q].entry # Absent
    BY <2>1 DEF AgreeInv, SoloInv, LocalInv, Shape, Fits, InFlight, Absent
  <2>4. Rename(p) => proc[p].entry # proc[q].entry
    BY <1>4, <2>1 DEF AgreeInv, EntriesDiffer, Rename, InFlight, At, Saving
  <2> QED
    BY <1>3, <2>1, <2>2, <2>3, <2>4
<1>5. CASE q = p /\ InFlight(p) /\ proc'[p].entry = proc[p].entry
  <2>1. s \notin Done(p) /\ (Rename(p) => s # proc[p].slot)
    BY <1>1, <1>5, DoneGrows DEF AgreeInv
  <2>2. disk[File(s)] # proc[p].entry
    BY <1>2, <1>5, <2>1 DEF AgreeInv, EntryIsNew
  <2>3. proc[p].entry # Absent
    BY <1>5 DEF AgreeInv, SoloInv, LocalInv, Shape, Fits, InFlight, Absent
  <2> QED
    BY <1>3, <1>5, <2>1, <2>2, <2>3
<1>6. CASE q = p /\ Request(p) /\ proc'[p].entry = Len(grants) + 1
  <2>1. disk' = disk
    BY <1>6 DEF Request, files
  <2>2. disk[File(s)] \in Contents
    BY <1>a, PathFacts
  <2> QED
    BY <1>6, <1>a, <2>1, <2>2 DEF Contents
<1> QED
  BY <1>1, <1>4, <1>5, <1>6, FlightStep DEF AgreeInv

LEMMA AgreeStep ==
  ASSUME AgreeInv, NEW p \in Proc, Step(p)
  PROVE  AgreementMeansWhole'
<1>a. proc[p] \in ProcState
  BY TypeFacts DEF AgreeInv, SoloInv, LocalInv
<1>c. overlapped => overlapped'
  BY TouchStep DEF AgreeInv
<1> DEFINE m == disk'[File("meta")]
<1>1. SUFFICES ASSUME ~overlapped', m # Absent, disk'[File("key")] = m, NEW s \in Slots
               PROVE  disk'[File(s)] \in {Absent, m}
  BY DEF AgreementMeansWhole
<1>2. ~overlapped
  BY <1>1, <1>c
<1>3. \A t \in Slots :
        \/ disk'[File(t)] \in {disk[File(t)], Absent}
        \/ Rename(p) /\ t = proc[p].slot /\ disk'[File(t)] = proc[p].entry
  BY <1>2, FileStep DEF AgreeInv
<1>k. "key" \in Slots /\ "meta" \in Slots
  BY DEF Slots
<1>4. CASE ~Rename(p)
  BY <1>1, <1>2, <1>3, <1>4, <1>k DEF AgreeInv, AgreementMeansWhole
<1>5. CASE Rename(p)
  <2> DEFINE e == proc[p].entry
             l == proc[p].slot
  <2>1. At(p, "rename") /\ l \in Slots
    BY <1>5, <1>a DEF Rename, ProcState
  <2>2. Progress(p)
    BY <1>2, <2>1 DEF AgreeInv, SoloInv, NoOverlapMeansSolo, Touching, At
  <2>3. /\ disk'[File(l)] = e
        /\ \A t \in Slots \ {l} : disk'[File(t)] = disk[File(t)]
    BY <1>5, <2>1, <2>2, PathFacts, TypeFacts
       DEF Rename, Progress, AgreeInv, SoloInv, LocalInv, At
  <2>4. \A t \in Before[l] : disk[File(t)] = e
    BY <2>1, <2>2 DEF Progress, Storing, Saving, At
  <2>5. \A t \in Slots \ Before[l] : disk[File(t)] # e
    BY <1>2, <2>1 DEF AgreeInv, EntryIsNew, InFlight, Done, Storing, Saving, At
  <2>6. CASE l = "meta"
    <3>1. Slots = Before[l] \cup {l} /\ l \notin Before[l]
      BY <2>6 DEF Slots, Before
    <3> QED
      BY <2>3, <2>4, <2>6, <3>1
  <2>7. CASE l # "meta"
    <3>1. m # e
      <4>1. "meta" \in Slots \ Before[l] /\ "meta" # l
        BY <2>1, <2>7 DEF Slots, Before
      <4> QED
        BY <2>3, <2>5, <4>1
    <3>2. disk'[File("key")] = e
      <4>1. l = "key" \/ ("key" \in Before[l] /\ "key" # l)
        BY <2>1, <2>7 DEF Slots, Before
      <4> QED
        BY <2>3, <2>4, <4>1, <1>k
    <3> QED
      BY <1>1, <3>1, <3>2
  <2> QED
    BY <2>6, <2>7
<1> QED
  BY <1>4, <1>5

LEMMA PublishedStep ==
  ASSUME AgreeInv, NEW p \in Proc, Step(p)
  PROVE  PublishedIsWhole'
<1>1. SUFFICES ASSUME ~overlapped', NEW s \in Slots
               PROVE  disk'[File(s)] \notin {Empty, Torn}
  BY DEF PublishedIsWhole
<1>2. ~overlapped
  BY <1>1, TouchStep DEF AgreeInv
<1>3. \/ disk'[File(s)] \in {disk[File(s)], Absent}
      \/ Rename(p) /\ disk'[File(s)] = proc[p].entry
  BY <1>2, FileStep DEF AgreeInv
<1>4. disk[File(s)] \notin {Empty, Torn} /\ Absent \notin {Empty, Torn}
  BY <1>2 DEF AgreeInv, PublishedIsWhole, Absent, Empty, Torn
<1>5. proc[p].entry \notin {Empty, Torn}
  BY TypeFacts DEF AgreeInv, SoloInv, LocalInv, ProcState, Empty, Torn
<1> QED
  BY <1>3, <1>4, <1>5

LEMMA AgreeInit == Init => AgreeInv
<1> SUFFICES ASSUME Init PROVE AgreeInv
  OBVIOUS
<1>1. \A p \in Proc : proc[p].pc = "idle"
  BY DEF Init, Idle
<1>2. \A s \in Slots : disk[File(s)] = Absent
  BY PathFacts DEF Init
<1>3. PublishedIsWhole
  BY <1>2 DEF PublishedIsWhole, Absent, Empty, Torn
<1> QED
  BY <1>1, <1>2, <1>3, SoloInit DEF AgreeInv, NoOverlapMeansSolo, EntriesDiffer, EntryIsNew,
     AgreementMeansWhole, Touching, InFlight, Saving, Slots

LEMMA AgreeNext == AgreeInv /\ [Next]_vars => AgreeInv'
<1> SUFFICES ASSUME AgreeInv, [Next]_vars PROVE AgreeInv'
  OBVIOUS
<1>1. SoloInv'
  BY SoloNext DEF AgreeInv
<1>2. ASSUME NEW p \in Proc, Step(p) PROVE AgreeInv'
  BY <1>1, <1>2, TouchStep, EntriesStep, NewStep, AgreeStep, PublishedStep
     DEF AgreeInv
<1>3. CASE Tick \/ UNCHANGED vars
  <2>1. UNCHANGED <<proc, disk, solo, overlapped>>
    BY <1>3 DEF Tick, vars, files, history
  <2> QED
    BY <1>1, <2>1 DEF AgreeInv, NoOverlapMeansSolo, EntriesDiffer, EntryIsNew,
       AgreementMeansWhole, PublishedIsWhole, Touching, InFlight, Done, Storing, Saving
<1> QED
  BY <1>2, <1>3 DEF Next

\* As long as no two processes have been inside at once, metadata and private key are of one
\* issuance only if everything is that is there, however many saves and removals crashed
\* (certcache.go, Save: key first, metadata last).
THEOREM AgreementIsEnough == Spec => []AgreementMeansWhole
<1>1. AgreeInv => AgreementMeansWhole
  BY DEF AgreeInv
<1> QED
  BY AgreeInit, AgreeNext, <1>1, PTL DEF Spec

\* "Writes are atomic": as long as no two processes have been inside at once, no crash and no
\* write that stops half-way leaves a part of a file under its own name
\* (certcache.go, writeFileAtomic).
THEOREM PublishedAreWhole == Spec => []PublishedIsWhole
<1>1. AgreeInv => PublishedIsWhole
  BY DEF AgreeInv
<1> QED
  BY AgreeInit, AgreeNext, <1>1, PTL DEF Spec
=============================================================================
