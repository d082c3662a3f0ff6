-------------------------- MODULE CertCacheProofs --------------------------
(***************************************************************************)
(* Theorems about CertCache, for any number of processes and commands, any *)
(* threshold, lifetime and clock skew.                                     *)
(***************************************************************************)
EXTENDS CertCache, TLAPS

\* The commands that take away.
Removal == {"remove", "remove_all", "prune"}

\* The steps of a file being stored.
Saving == {"create", "write", "chmod", "discard", "rename"}

\* Which commands get where, and what they carry with them: local state r at instant t.
Fits(r, t) ==
  /\ r.pc \in {"list", "open", "unlink"} => r.cmd \in Removal
  /\ r.pc \in {"lookup", "decide", "verify"} => r.cmd \in {"ssh", "ssh_no_cache"}
  /\ r.pc \in {"request", "save"} \cup Saving => r.cmd \notin Removal /\ r.action # "reuse"
  /\ r.pc \in {"decide", "verify", "save"} \cup Saving => r.entry # 0
  /\ r.at <= t /\ r.began <= t
  /\ r.pc = "idle" => r.began = -1
  /\ r.pc # "idle" /\ r.cmd \in {"ssh", "ssh_no_cache"} => r.began # -1
  /\ r.pc = "verify" => r.began <= r.at
  /\ r.cmd \notin {"ssh", "ssh_no_cache"} => r.action = "none"
  /\ r.pc = "done" /\ r.cmd \in {"ssh", "ssh_no_cache"} => r.seen # 0 /\ r.entry # 0

Shape(p) == Fits(proc[p], now)

----------------------------------------------------------------------------
(* The shape of the state. *)

\* Appending a grant keeps every number that was in use.
LEMMA GrantsGrow ==
  ASSUME TypeOK, NEW g \in [from : Int, until : Int]
  PROVE  /\ Append(grants, g) \in Seq([from : Int, until : Int])
         /\ Len(Append(grants, g)) = Len(grants) + 1
         /\ \A n \in 1 .. Len(grants) : Append(grants, g)[n] = grants[n]
         /\ Len(grants) \in Nat
<1>1. grants \in Seq([from : Int, until : Int])
  BY DEF TypeOK
<1> QED
  BY <1>1

\* What a step that is to keep the type has to know of the state.
LEMMA TypeFacts ==
  ASSUME TypeOK
  PROVE  /\ now \in Nat /\ MaxTime \in Nat /\ now \in 0 .. MaxTime
         /\ Len(grants) \in Nat /\ grants \in Seq([from : Int, until : Int])
         /\ disk \in [Path -> Contents] /\ fd \in [Proc -> Path \cup {Nowhere}]
         /\ {Absent, Empty, Torn} \subseteq Contents /\ 0 .. Len(grants) \subseteq Contents
         /\ proc \in [Proc -> ProcState]
         /\ solo \in [Proc -> BOOLEAN] /\ overlapped \in BOOLEAN /\ dir \in BOOLEAN
<1>1. Len(grants) \in Nat
  BY DEF TypeOK
<1> QED
  BY <1>1, CertCacheAssumption DEF TypeOK, Contents, Absent, Empty, Torn

LEMMA ElementType ==
  ASSUME NEW S, NEW s \in Seq(S), NEW n \in 1 .. Len(s)
  PROVE  s[n] \in S
OBVIOUS

LEMMA GrantType ==
  ASSUME TypeOK, NEW n \in 1 .. Len(grants)
  PROVE  grants[n].from \in Int /\ grants[n].until \in Int
<1>1. grants \in Seq([from : Int, until : Int])
  BY TypeFacts
<1>2. grants[n] \in [from : Int, until : Int]
  BY <1>1, ElementType
<1> QED
  BY <1>2

LEMMA IdleType ==
  ASSUME MaxTime \in Nat, Len(grants) \in Nat
  PROVE  Idle \in ProcState
BY DEF Idle, ProcState, PC, Cmd, Slots

\* A process is given another local state; the rest of the types are the caller's.
LEMMA BecomesType ==
  ASSUME TypeOK, NEW p \in Proc, NEW r \in ProcState, Becomes(p, r), grants' = grants
  PROVE  proc' \in [Proc -> ProcState]'
<1>1. ProcState' = ProcState
  BY DEF ProcState
<1> QED
  BY <1>1, TypeFacts DEF Becomes

\* Every step that grants nothing and only moves one process.
LEMMA LocalStepType ==
  ASSUME TypeOK, NEW p \in Proc, NEW r \in ProcState, Becomes(p, r),
         UNCHANGED <<now, grants>>,
         dir' \in BOOLEAN, disk' \in [Path -> Contents], fd' \in [Proc -> Path \cup {Nowhere}],
         solo' \in [Proc -> BOOLEAN], overlapped' \in BOOLEAN
  PROVE  TypeOK'
<1>1. Contents' = Contents
  BY DEF Contents
<1> QED
  BY <1>1, BecomesType DEF TypeOK

\* A step that only moves one process.
LEMMA QuietStepType ==
  ASSUME TypeOK, NEW p \in Proc, NEW r \in ProcState, Becomes(p, r),
         UNCHANGED <<now, grants, files, history>>
  PROVE  TypeOK'
BY LocalStepType, TypeFacts DEF files, history

LEMMA TouchType ==
  ASSUME TypeOK, NEW p \in Proc, BeginTouch(p)
  PROVE  solo' \in [Proc -> BOOLEAN] /\ overlapped' \in BOOLEAN
BY DEF BeginTouch, TypeOK

LEMMA PathType == \A s \in Slots : File(s) \in Path /\ Tmp(s) \in Path
BY DEF File, Tmp, Path

LEMMA TypeStep == TypeOK /\ [Next]_vars => TypeOK'
<1> USE CertCacheAssumption
<1> SUFFICES ASSUME TypeOK, [Next]_vars
             PROVE  TypeOK'
  OBVIOUS
<1>1. CASE Tick
  <2>1. ProcState' = ProcState
    BY <1>1 DEF Tick, ProcState
  <2>2. now' \in 0 .. MaxTime
    BY <1>1, TypeFacts DEF Tick
  <2> QED
    BY <1>1, <2>1, <2>2 DEF Tick, TypeOK, Contents, files, history
<1>2. ASSUME NEW p \in Proc, Step(p)
      PROVE  TypeOK'
  <2>a. proc[p] \in ProcState /\ Idle \in ProcState
    BY TypeFacts, IdleType
  <2>b. "meta" \in Slots /\ "cert" \in Slots /\ "key" \in Slots
    BY DEF Slots
  <2>1. ASSUME NEW c \in Commands[p], Start(p, c)
        PROVE  TypeOK'
    <3> DEFINE r == [Idle EXCEPT !.cmd = c, !.began = IF SshCmd(c) THEN now ELSE -1,
                       !.at = IF c = "prune" THEN now ELSE 0,
                       !.pc = CASE SshCmd(c)    -> "lookup"
                                [] c = "issue"  -> "request"
                                [] c = "remove" -> "open"
                                [] OTHER        -> "list"]
    <3>1. /\ (IF c = "prune" THEN now ELSE 0) \in 0 .. MaxTime
          /\ (IF SshCmd(c) THEN now ELSE -1) \in -1 .. MaxTime
      BY TypeFacts
    <3>2. r \in ProcState
      BY <2>a, <3>1 DEF ProcState, PC, Cmd
    <3>3. Becomes(p, r) /\ solo' \in [Proc -> BOOLEAN]
      BY <2>1, TypeFacts DEF Start
    <3> HIDE DEF r
    <3> QED
      BY <2>1, <3>2, <3>3, LocalStepType, TypeFacts DEF Start, files
  <2>2. CASE Lookup(p) \/ MetadataCorrupt(p)
    <3> DEFINE m == disk[File("meta")]
    <3>1. /\ [proc[p] EXCEPT !.action = "issue", !.pc = "request"] \in ProcState
          /\ Whole(m) => [proc[p] EXCEPT !.entry = m, !.pc = "decide"] \in ProcState
      <4>1. Whole(m) => m \in 0 .. Len(grants)
        BY <2>b, PathType, TypeFacts DEF Whole, Contents
      <4> QED
        BY <2>a, <4>1 DEF ProcState, PC
    <3> QED
      BY <2>2, <2>a, <3>1, QuietStepType DEF Lookup, MetadataCorrupt
  <2>3. CASE Decide(p)
    <3>1. /\ [proc[p] EXCEPT !.action = "renew", !.pc = "request"] \in ProcState
          /\ [proc[p] EXCEPT !.action = "reuse", !.pc = "verify", !.at = now] \in ProcState
      BY <2>a, TypeFacts DEF ProcState, PC
    <3> QED
      BY <2>3, <3>1, QuietStepType DEF Decide
  <2>4. CASE VerifyOK(p)
    <3>1. Whole(disk[File("cert")]) => disk[File("cert")] \in 0 .. Len(grants)
      BY <2>b, PathType, TypeFacts DEF Whole, Contents
    <3>2. ASSUME NEW t \in proc[p].at .. now, Verifies(p, t)
          PROVE  [proc[p] EXCEPT !.seen = disk[File("cert")], !.checked = t, !.pc = "done"]
                   \in ProcState
      <4>1. t \in 0 .. MaxTime
        BY <2>a, TypeFacts DEF ProcState, TypeOK
      <4> QED
        BY <2>a, <3>1, <3>2, <4>1 DEF ProcState, PC, Verifies
    <3> QED
      BY <2>4, <3>2, QuietStepType DEF VerifyOK
  <2>5. CASE VerifyFails(p)
    <3>1. [proc[p] EXCEPT !.action = "renew", !.pc = "request"] \in ProcState
      BY <2>a DEF ProcState, PC
    <3> QED
      BY <2>5, <2>a, <3>1, QuietStepType DEF VerifyFails
  <2>6. CASE Request(p)
    <3>1. PICK ttl \in TTLs, skew \in Skews :
            grants' = Append(grants, [from |-> now + skew, until |-> now + skew + ttl])
      BY <2>6 DEF Request
    <3>2. [from |-> now + skew, until |-> now + skew + ttl] \in [from : Int, until : Int]
      BY TypeFacts
    <3>3. /\ grants' \in Seq([from : Int, until : Int])
          /\ Len(grants') = Len(grants) + 1 /\ Len(grants) \in Nat
      BY <3>1, <3>2, GrantsGrow
    <3>4. Len(grants') <= MaxIssues
      BY <2>6, <3>3 DEF Request
    <3>5. disk \in [Path -> Contents']
      BY <3>3, TypeFacts DEF Contents
    <3>6. \A r \in ProcState : r \in ProcState'
      <4>1. 0 .. Len(grants) \subseteq 0 .. Len(grants')
        BY <3>3
      <4> QED
        BY <4>1 DEF ProcState
    <3>7. [proc[p] EXCEPT !.entry = Len(grants) + 1, !.pc = "save"] \in ProcState'
      <4>1. Len(grants) + 1 \in 0 .. Len(grants') /\ proc[p] \in ProcState'
        BY <2>a, <3>3, <3>6
      <4> QED
        BY <4>1 DEF ProcState, PC
    <3>8. proc' \in [Proc -> ProcState']
      BY <2>6, <3>6, <3>7, TypeFacts DEF Request, Becomes
    <3> QED
      BY <2>6, <3>3, <3>4, <3>5, <3>8 DEF Request, TypeOK, files, history
  <2>7. CASE Save(p)
    <3>1. [proc[p] EXCEPT !.pc = "create", !.slot = "key"] \in ProcState
      BY <2>a, <2>b DEF ProcState, PC
    <3> QED
      BY <2>7, <3>1, TouchType, LocalStepType, TypeFacts DEF Save
  <2>8. CASE Create(p)
    <3>1. Tmp(proc[p].slot) \in Path /\ [proc[p] EXCEPT !.pc = "write"] \in ProcState
      BY <2>a, PathType DEF ProcState, PC
    <3> QED
      BY <2>8, <3>1, LocalStepType, TypeFacts DEF Create, history
  <2>9. CASE Write(p)
    <3>1. [proc[p] EXCEPT !.pc = "chmod"] \in ProcState
      BY <2>a DEF ProcState, PC
    <3>2. proc[p].entry \in Contents
      BY <2>a, TypeFacts DEF ProcState
    <3>3. disk' \in [Path -> Contents] /\ fd' \in [Proc -> Path \cup {Nowhere}]
      BY <2>9, <3>2, TypeFacts DEF Write
    <3> QED
      BY <2>9, <3>1, <3>3, LocalStepType, TypeFacts DEF Write, history
  <2>10. CASE Chmod(p) \/ ChmodFails(p) \/ StoreFails(p) \/ Finish(p)
    <3>1. /\ [proc[p] EXCEPT !.pc = "rename"] \in ProcState
          /\ [proc[p] EXCEPT !.pc = "discard"] \in ProcState
      BY <2>a DEF ProcState, PC
    <3> QED
      BY <2>10, <2>a, <3>1, QuietStepType DEF Chmod, ChmodFails, StoreFails, Finish
  <2>11. CASE WriteStops(p) \/ Discard(p) \/ Abort(p)
    <3>1. Tmp(proc[p].slot) \in Path
      BY <2>a, PathType DEF ProcState
    <3>2. disk' \in [Path -> Contents]
      BY <2>11, <3>1, TypeFacts DEF WriteStops, Discard, Abort
    <3>3. fd' \in [Proc -> Path \cup {Nowhere}]
      BY <2>11, TypeFacts DEF WriteStops, Discard, Abort, Follow
    <3> QED
      BY <2>11, <2>a, <3>2, <3>3, LocalStepType, TypeFacts DEF WriteStops, Discard, Abort, history
  <2>12. CASE Rename(p)
    <3> DEFINE s == proc[p].slot
    <3>1. s \in Slots /\ (After[s] # "none" => After[s] \in Slots)
      BY <2>a DEF After, Slots, ProcState
    <3>2. disk' \in [Path -> Contents] /\ fd' \in [Proc -> Path \cup {Nowhere}]
      <4>1. Tmp(s) \in Path /\ File(s) \in Path /\ disk[Tmp(s)] \in Contents
        BY <3>1, PathType, TypeFacts
      <4>2. disk' \in [Path -> Contents]
        BY <2>12, <4>1, TypeFacts DEF Rename
      <4>3. fd' \in [Proc -> Path \cup {Nowhere}]
        BY <2>12, <4>1, TypeFacts DEF Rename
      <4> QED
        BY <4>2, <4>3
    <3>3. CASE After[s] # "none" /\ Becomes(p, [proc[p] EXCEPT !.pc = "create", !.slot = After[s]])
      <4>1. [proc[p] EXCEPT !.pc = "create", !.slot = After[s]] \in ProcState
        BY <2>a, <3>1, <3>3 DEF ProcState, PC
      <4> QED
        BY <2>12, <3>2, <3>3, <4>1, LocalStepType, TypeFacts DEF Rename, history
    <3>4. CASE Becomes(p, [proc[p] EXCEPT !.slot = "key", !.at = now,
                                          !.pc = IF Ssh(p) THEN "verify" ELSE "done"])
      <4>1. [proc[p] EXCEPT !.slot = "key", !.at = now,
                            !.pc = IF Ssh(p) THEN "verify" ELSE "done"] \in ProcState
        BY <2>a, <2>b, TypeFacts DEF ProcState, PC
      <4> QED
        BY <2>12, <3>2, <3>4, <4>1, LocalStepType, TypeFacts DEF Rename, history
    <3> QED
      BY <2>12, <3>3, <3>4 DEF Rename
  <2>13. CASE List(p)
    <3>1. [proc[p] EXCEPT !.pc = IF Selected(p) THEN "open" ELSE "done"] \in ProcState
      BY <2>a DEF ProcState, PC
    <3> QED
      BY <2>13, <3>1, QuietStepType DEF List
  <2>14. CASE RemoveAll(p)
    <3>1. /\ [proc[p] EXCEPT !.pc = "unlink", !.todo = {x \in Path : disk[x] # Absent}]
               \in ProcState
          /\ [proc[p] EXCEPT !.pc = "done"] \in ProcState
      BY <2>a DEF ProcState, PC
    <3> QED
      BY <2>14, <3>1, TouchType, LocalStepType, TypeFacts DEF RemoveAll, files, history
  <2>15. CASE Unlink(p)
    <3>1. PICK x \in proc[p].todo :
            /\ disk' = [disk EXCEPT ![x] = Absent] /\ fd' = Follow(x, Nowhere)
            /\ Becomes(p, [proc[p] EXCEPT !.todo = @ \ {x}])
      BY <2>15 DEF Unlink
    <3>2. [proc[p] EXCEPT !.todo = @ \ {x}] \in ProcState
      BY <2>a DEF ProcState
    <3>3. disk' \in [Path -> Contents] /\ fd' \in [Proc -> Path \cup {Nowhere}]
      BY <3>1, TypeFacts DEF Follow
    <3> QED
      BY <2>15, <3>1, <3>2, <3>3, LocalStepType, TypeFacts DEF Unlink, history
  <2>16. CASE Rmdir(p)
    <3>1. [proc[p] EXCEPT !.pc = "done"] \in ProcState
      BY <2>a DEF ProcState, PC
    <3> QED
      BY <2>16, <2>a, <3>1, LocalStepType, TypeFacts DEF Rmdir, history
  <2> QED
    BY <1>2, <2>1, <2>2, <2>3, <2>4, <2>5, <2>6, <2>7, <2>8, <2>9, <2>10, <2>11,
       <2>12, <2>13, <2>14, <2>15, <2>16 DEF Step
<1>3. CASE UNCHANGED vars
  <2>1. ProcState' = ProcState
    BY <1>3 DEF vars, ProcState
  <2> QED
    BY <1>3, <2>1 DEF vars, TypeOK, Contents
<1> QED
  BY <1>1, <1>2, <1>3 DEF Next

LEMMA TypeInit == Init => TypeOK
<1> SUFFICES ASSUME Init PROVE TypeOK
  OBVIOUS
<1>1. Len(grants) = 0 /\ grants \in Seq([from : Int, until : Int])
  BY DEF Init
<1>2. Idle \in ProcState
  BY <1>1, CertCacheAssumption, IdleType
<1>3. disk \in [Path -> Contents] /\ now \in 0 .. MaxTime /\ Len(grants) <= MaxIssues
  BY <1>1, CertCacheAssumption DEF Init, Contents, Absent
<1> QED
  BY <1>1, <1>2, <1>3 DEF Init, TypeOK

\* Type correctness of the cache directory and of every process.
THEOREM TypeCorrect == Spec => []TypeOK
BY TypeInit, TypeStep, PTL DEF Spec

----------------------------------------------------------------------------
(* What a process knows, whatever the others do. *)

NotDue(p) == proc[p].pc \in {"verify", "done"} /\ proc[p].action = "reuse"
               => Remaining(proc[p].entry, proc[p].at) > Threshold

LocalInv == TypeOK /\ \A p \in Proc : Shape(p) /\ NotDue(p)

LEMMA BecomesFacts ==
  ASSUME TypeOK, NEW p \in Proc, NEW r, Becomes(p, r)
  PROVE  proc'[p] = r /\ \A q \in Proc \ {p} : proc'[q] = proc[q]
BY DEF Becomes, TypeOK

\* A step of somebody else, or of the clock, leaves what q knows.
LEMMA OthersKeepLocal ==
  ASSUME TypeOK, NEW q \in Proc, Shape(q), NotDue(q), proc'[q] = proc[q],
         now' \in Nat, now <= now',
         \A n \in 1 .. Len(grants) : grants'[n] = grants[n]
  PROVE  Shape(q)' /\ NotDue(q)'
<1>1. proc[q] \in ProcState /\ Len(grants) \in Nat /\ now \in Nat
  BY TypeFacts
<1>2. /\ proc[q].at \in Nat /\ proc[q].began \in Int
      /\ proc[q].entry \in 0 .. Len(grants)
  BY <1>1, TypeFacts DEF ProcState
<1>3. Shape(q)'
  <2>1. Fits(proc[q], now')
    BY <1>1, <1>2 DEF Shape, Fits, Removal
  <2> QED
    BY <2>1 DEF Shape
<1>4. NotDue(q)'
  <2> SUFFICES ASSUME proc[q].pc \in {"verify", "done"}, proc[q].action = "reuse"
               PROVE  (Remaining(proc[q].entry, proc[q].at) > Threshold)'
    BY DEF NotDue
  <2>1. proc[q].entry # 0
    <3>1. proc[q].cmd \in {"ssh", "ssh_no_cache"}
      BY DEF Shape, Fits
    <3> QED
      BY <3>1 DEF Shape, Fits
  <2>2. proc[q].entry \in 1 .. Len(grants)
    BY <1>1, <1>2, <2>1
  <2> QED
    BY <2>2 DEF NotDue, Remaining
<1> QED
  BY <1>3, <1>4

\* What a command in local state r has been handed.
View(r) == IF r.pc = "done" /\ SshCmd(r.cmd)
             THEN [cert |-> r.seen, at |-> r.checked]
             ELSE Promise!Nothing

\* From r to n at instant t without being handed anything: on, to an end, or a beginning.
Moves(r, n, t) ==
  /\ View(n) = Promise!Nothing
  /\ \/ r.pc # "done" /\ n.began = r.began
     \/ n.began = -1
     \/ r.pc = "idle" /\ n.began = t

LEMMA LocalStep ==
  ASSUME LocalInv, NEW p \in Proc, Step(p)
  PROVE  Shape(p)' /\ NotDue(p)' /\ (VerifyOK(p) \/ Moves(proc[p], proc'[p], now))
<1> USE CertCacheAssumption
<1> DEFINE r == proc[p]
           Goal == Shape(p)' /\ NotDue(p)' /\ (VerifyOK(p) \/ Moves(proc[p], proc'[p], now))
<1>a. r \in ProcState /\ Fits(r, now) /\ NotDue(p) /\ now \in Nat /\ TypeOK
  BY TypeFacts DEF LocalInv, Shape
<1>b. r.at \in Nat /\ r.entry \in Nat
  BY <1>a, TypeFacts DEF ProcState
<1>i. Idle.pc = "idle" /\ Fits(Idle, now) /\ Moves(r, Idle, now)
  BY <1>a DEF Idle, Fits, Removal, Saving, Moves, View, SshCmd
<1>s. ASSUME NEW n, proc'[p] = n, now' = now, Fits(n, now),
             n.action # "reuse" \/ n.pc \notin {"verify", "done"},
             Moves(r, n, now)
      PROVE  Goal
  BY <1>s DEF Shape, NotDue
<1>m. ASSUME NEW n, n.began = r.began, r.pc # "done", n.pc # "done" \/ ~SshCmd(n.cmd)
      PROVE  Moves(r, n, now)
  BY <1>m DEF Moves, View
<1>1. ASSUME NEW c \in Commands[p], Start(p, c)
      PROVE  Goal
  <2> DEFINE n == [Idle EXCEPT !.cmd = c, !.began = IF SshCmd(c) THEN now ELSE -1,
                     !.at = IF c = "prune" THEN now ELSE 0,
                     !.pc = CASE SshCmd(c)    -> "lookup"
                              [] c = "issue"  -> "request"
                              [] c = "remove" -> "open"
                              [] OTHER        -> "list"]
  <2>1. n.action = "none" /\ n.pc # "done" /\ n.began \in {now, -1}
    BY DEF Idle
  <2>2. Fits(n, now)
    BY <1>a DEF Idle, Fits, Cmd, Removal, Saving, SshCmd
  <2>3. proc'[p] = n /\ r.pc = "idle" /\ now' = now
    BY <1>1, <1>a, BecomesFacts DEF Start, At
  <2> HIDE DEF n
  <2>4. Moves(r, n, now)
    BY <2>1, <2>3 DEF Moves, View
  <2> QED
    BY <1>s, <2>1, <2>2, <2>3, <2>4
<1>2. CASE Lookup(p)
  <2> DEFINE m == disk[File("meta")]
             n == [r EXCEPT !.action = "issue", !.pc = "request"]
             o == [r EXCEPT !.entry = m, !.pc = "decide"]
  <2>1. /\ n.action = "issue" /\ o.pc = "decide" /\ n.pc = "request"
        /\ n.began = r.began /\ o.began = r.began /\ r.pc # "done"
    BY <1>2, <1>a DEF ProcState, Lookup, At
  <2>2. Fits(n, now)
    BY <1>2, <1>a DEF ProcState, Fits, Removal, Saving, Lookup, At
  <2>3. Whole(m) => Fits(o, now)
    BY <1>2, <1>a DEF ProcState, Fits, Removal, Saving, Lookup, At, Whole
  <2>4. Becomes(p, n) \/ (Whole(m) /\ Becomes(p, o))
    BY <1>2 DEF Lookup
  <2>5. now' = now
    BY <1>2 DEF Lookup
  <2> HIDE DEF n, o, m
  <2>6. proc'[p] = n \/ (Whole(m) /\ proc'[p] = o)
    BY <1>a, <2>4, BecomesFacts
  <2> QED
    BY <1>s, <1>m, <2>1, <2>2, <2>3, <2>5, <2>6
<1>3. CASE Decide(p)
  <2>1. CASE Due(p, now) /\ Becomes(p, [r EXCEPT !.action = "renew", !.pc = "request"])
    <3> DEFINE n == [r EXCEPT !.action = "renew", !.pc = "request"]
    <3>1. n.action = "renew" /\ n.pc = "request" /\ n.began = r.began /\ Fits(n, now)
      BY <1>3, <1>a DEF ProcState, Fits, Removal, Saving, Decide, At
    <3>2. proc'[p] = n /\ now' = now /\ r.pc # "done"
      BY <1>3, <1>a, <2>1, BecomesFacts DEF Decide, At
    <3> HIDE DEF n
    <3> QED
      BY <1>s, <1>m, <3>1, <3>2
  <2>2. CASE ~Due(p, now) /\ Becomes(p, [r EXCEPT !.action = "reuse", !.pc = "verify", !.at = now])
    <3> DEFINE n == [r EXCEPT !.action = "reuse", !.pc = "verify", !.at = now]
    <3>1. n.entry = r.entry /\ n.at = now /\ n.began = r.began /\ n.pc = "verify"
      BY <1>a DEF ProcState
    <3>2. Remaining(r.entry, now) > Threshold
      <4>1. Remaining(r.entry, now) \in Int
        <5>1. r.entry \in 1 .. Len(grants)
          BY <1>3, <1>a DEF ProcState, Fits, Decide, At
        <5>2. grants[r.entry].until \in Int
          BY <5>1, <1>a, GrantType
        <5> QED
          BY <5>2, <1>a DEF Remaining
      <4> QED
        BY <2>2, <4>1 DEF Due
    <3>3. Fits(n, now)
      BY <1>3, <1>a DEF ProcState, Fits, Removal, Saving, Decide, At
    <3>4. proc'[p] = n /\ now' = now /\ grants' = grants /\ r.pc # "done"
      BY <1>3, <1>a, <2>2, BecomesFacts DEF Decide, At
    <3> HIDE DEF n
    <3>5. Shape(p)' /\ NotDue(p)'
      BY <3>1, <3>2, <3>3, <3>4 DEF Shape, NotDue, Remaining
    <3> QED
      BY <1>m, <3>1, <3>4, <3>5
  <2> QED
    BY <1>3, <2>1, <2>2 DEF Decide
<1>4. CASE VerifyOK(p)
  <2>0. PICK t \in r.at .. now :
          /\ Verifies(p, t)
          /\ Becomes(p, [r EXCEPT !.seen = disk[File("cert")], !.checked = t, !.pc = "done"])
    BY <1>4 DEF VerifyOK
  <2> DEFINE n == [r EXCEPT !.seen = disk[File("cert")], !.checked = t, !.pc = "done"]
  <2>1. r.pc = "verify" /\ n.action = r.action /\ n.entry = r.entry /\ n.at = r.at
    BY <1>4, <1>a DEF ProcState, VerifyOK, At
  <2>2. Fits(n, now)
    BY <1>4, <1>a, <2>0 DEF ProcState, Fits, Removal, Saving, VerifyOK, Verifies, At, Whole
  <2>3. proc'[p] = n /\ now' = now /\ grants' = grants
    BY <1>4, <1>a, <2>0, BecomesFacts DEF VerifyOK
  <2> HIDE DEF n
  <2> QED
    BY <1>4, <1>a, <2>1, <2>2, <2>3 DEF Shape, NotDue, Remaining
<1>5. CASE VerifyFails(p)
  <2> DEFINE n == [r EXCEPT !.action = "renew", !.pc = "request"]
  <2>1. n.action = "renew" /\ n.pc = "request" /\ n.began = r.began /\ r.pc # "done"
    BY <1>5, <1>a DEF ProcState, VerifyFails, At
  <2>2. r.action = "reuse" => Fits(n, now)
    BY <1>5, <1>a DEF ProcState, Fits, Removal, Saving, VerifyFails, At
  <2>3. now' = now /\ Becomes(p, IF r.action = "reuse" THEN n ELSE Idle)
    BY <1>5 DEF VerifyFails
  <2> HIDE DEF n
  <2>4. proc'[p] = IF r.action = "reuse" THEN n ELSE Idle
    BY <1>a, <2>3, BecomesFacts
  <2> QED
    BY <1>i, <1>s, <1>m, <2>1, <2>2, <2>3, <2>4
<1>6. CASE Request(p)
  <2> DEFINE n == [r EXCEPT !.entry = Len(grants) + 1, !.pc = "save"]
  <2>1. n.pc = "save" /\ n.began = r.began /\ Fits(n, now)
    BY <1>6, <1>a, TypeFacts DEF ProcState, Fits, Removal, Saving, Request, At
  <2>2. proc'[p] = n /\ now' = now /\ r.pc # "done"
    BY <1>6, <1>a, BecomesFacts DEF Request, At
  <2> HIDE DEF n
  <2> QED
    BY <1>s, <1>m, <2>1, <2>2
<1>7. CASE Save(p) \/ Create(p) \/ Write(p) \/ Chmod(p) \/ ChmodFails(p)
  <2>1. ASSUME NEW l \in Saving, NEW s
        PROVE  /\ Fits([r EXCEPT !.pc = l, !.slot = s], now) /\ Fits([r EXCEPT !.pc = l], now)
               /\ [r EXCEPT !.pc = l, !.slot = s].began = r.began
               /\ [r EXCEPT !.pc = l].began = r.began
               /\ [r EXCEPT !.pc = l, !.slot = s].pc = l /\ [r EXCEPT !.pc = l].pc = l
    <3>1. r.pc \in {"save"} \cup Saving
      BY <1>7 DEF Save, Create, Write, Chmod, ChmodFails, At, Saving
    <3> QED
      BY <1>a, <3>1 DEF ProcState, Fits, Removal, Saving
  <2>2. /\ now' = now /\ r.pc # "done"
        /\ \/ Becomes(p, [r EXCEPT !.pc = "create", !.slot = "key"])
           \/ \E l \in Saving : Becomes(p, [r EXCEPT !.pc = l])
    BY <1>7 DEF Save, Create, Write, Chmod, ChmodFails, At, Saving
  <2>3. \/ proc'[p] = [r EXCEPT !.pc = "create", !.slot = "key"]
        \/ \E l \in Saving : proc'[p] = [r EXCEPT !.pc = l]
    BY <1>a, <2>2, BecomesFacts
  <2>4. proc'[p].pc \in Saving /\ proc'[p].began = r.began /\ Fits(proc'[p], now)
    <3>1. "create" \in Saving
      BY DEF Saving
    <3>2. CASE proc'[p] = [r EXCEPT !.pc = "create", !.slot = "key"]
      <4> DEFINE n == [r EXCEPT !.pc = "create", !.slot = "key"]
      <4>1. Fits(n, now) /\ n.began = r.began /\ n.pc = "create"
        BY <2>1, <3>1
      <4> HIDE DEF n
      <4> QED
        BY <3>1, <3>2, <4>1 DEF n
    <3>3. CASE \E l \in Saving : proc'[p] = [r EXCEPT !.pc = l]
      BY <2>1, <3>3
    <3> QED
      BY <2>3, <3>2, <3>3
  <2>5. proc'[p].pc \notin {"verify", "done"}
    BY <2>4 DEF Saving
  <2> QED
    BY <1>s, <1>m, <2>2, <2>4, <2>5
<1>8. CASE Rename(p)
  <2>0. r.pc = "rename" /\ now' = now
    BY <1>8 DEF Rename, At
  <2>1. CASE Becomes(p, [r EXCEPT !.pc = "create", !.slot = After[r.slot]])
    <3> DEFINE n == [r EXCEPT !.pc = "create", !.slot = After[r.slot]]
    <3>1. n.pc = "create" /\ n.began = r.began /\ Fits(n, now)
      BY <2>0, <1>a DEF ProcState, Fits, Removal, Saving
    <3>2. proc'[p] = n
      BY <1>a, <2>1, BecomesFacts
    <3> HIDE DEF n
    <3> QED
      BY <1>s, <1>m, <2>0, <3>1, <3>2
  <2>2. CASE Becomes(p, [r EXCEPT !.slot = "key", !.at = now,
                                  !.pc = IF Ssh(p) THEN "verify" ELSE "done"])
    <3> DEFINE n == [r EXCEPT !.slot = "key", !.at = now,
                              !.pc = IF Ssh(p) THEN "verify" ELSE "done"]
    <3>1. /\ n.action # "reuse" /\ n.began = r.began
          /\ n.pc # "done" \/ ~SshCmd(n.cmd)
      BY <2>0, <1>a DEF ProcState, Fits, Saving, Ssh
    <3>2. Fits(n, now)
      BY <2>0, <1>a DEF ProcState, Fits, Removal, Saving, Ssh, SshCmd
    <3>3. proc'[p] = n
      BY <1>a, <2>2, BecomesFacts
    <3> HIDE DEF n
    <3> QED
      BY <1>s, <1>m, <2>0, <3>1, <3>2, <3>3
  <2> QED
    BY <1>8, <2>1, <2>2 DEF Rename
<1>9. CASE \/ MetadataCorrupt(p) \/ WriteStops(p) \/ Discard(p) \/ StoreFails(p)
           \/ Finish(p) \/ Abort(p)
  <2>1. now' = now /\ Becomes(p, Idle)
    BY <1>9 DEF MetadataCorrupt, WriteStops, Discard, StoreFails, Finish, Abort
  <2>2. proc'[p] = Idle
    BY <1>a, <2>1, BecomesFacts
  <2> QED
    BY <1>i, <1>s, <2>1, <2>2
<1>10. CASE List(p) \/ RemoveAll(p) \/ Unlink(p) \/ Rmdir(p)
  <2>0. r.pc \in {"list", "open", "unlink"}
    BY <1>10 DEF List, RemoveAll, Unlink, Rmdir, At
  <2>1. ASSUME NEW l \in {"open", "done", "unlink"}, NEW t \in SUBSET Path
        PROVE  /\ Fits([r EXCEPT !.pc = l], now)
               /\ Fits([r EXCEPT !.pc = l, !.todo = t], now)
               /\ Fits([r EXCEPT !.todo = t], now)
    BY <2>0, <1>a DEF ProcState, Fits, Removal, Saving
  <2>3. ~SshCmd(r.cmd) /\ r.action = "none"
    BY <2>0, <1>a DEF Fits, Removal, SshCmd
  <2>4. /\ now' = now
        /\ \E l \in {"open", "done", "unlink"}, t \in SUBSET Path :
             \/ Becomes(p, [r EXCEPT !.pc = l])
             \/ Becomes(p, [r EXCEPT !.pc = l, !.todo = t])
             \/ Becomes(p, [r EXCEPT !.todo = t])
             \/ Becomes(p, Idle)
    <3>1. {x \in Path : disk[x] # Absent} \in SUBSET Path
      OBVIOUS
    <3>2. \A x : r.todo \ {x} \in SUBSET Path
      BY <1>a DEF ProcState
    <3> QED
      BY <1>10, <3>1, <3>2 DEF List, RemoveAll, Unlink, Rmdir
  <2>5. PICK l \in {"open", "done", "unlink"}, t \in SUBSET Path :
          \/ proc'[p] \in {[r EXCEPT !.pc = l], [r EXCEPT !.pc = l, !.todo = t],
                           [r EXCEPT !.todo = t]}
          \/ proc'[p] = Idle
    BY <1>a, <2>4, BecomesFacts
  <2>6. CASE proc'[p] = Idle
    BY <1>i, <1>s, <2>4, <2>6
  <2>7. CASE proc'[p] # Idle
    <3>1. proc'[p].began = r.began /\ proc'[p].action = "none" /\ ~SshCmd(proc'[p].cmd)
      <4>1. CASE proc'[p] = [r EXCEPT !.pc = l]
        BY <1>a, <2>3, <4>1 DEF ProcState
      <4>2. CASE proc'[p] = [r EXCEPT !.pc = l, !.todo = t]
        BY <1>a, <2>3, <4>2 DEF ProcState
      <4>3. CASE proc'[p] = [r EXCEPT !.todo = t]
        BY <1>a, <2>3, <4>3 DEF ProcState
      <4> QED
        BY <2>5, <2>7, <4>1, <4>2, <4>3
    <3>2. Fits(proc'[p], now)
      BY <2>1, <2>5, <2>7
    <3> QED
      BY <1>s, <1>m, <2>0, <2>4, <3>1, <3>2
  <2> QED
    BY <2>6, <2>7
<1> HIDE DEF r
<1>11. \/ \E c \in Commands[p] : Start(p, c)
       \/ Lookup(p) \/ Decide(p) \/ VerifyOK(p) \/ VerifyFails(p) \/ Request(p)
       \/ (Save(p) \/ Create(p) \/ Write(p) \/ Chmod(p) \/ ChmodFails(p)) \/ Rename(p)
       \/ (\/ MetadataCorrupt(p) \/ WriteStops(p) \/ Discard(p) \/ StoreFails(p)
           \/ Finish(p) \/ Abort(p))
       \/ (List(p) \/ RemoveAll(p) \/ Unlink(p) \/ Rmdir(p))
  BY Zenon DEF Step
<1> QED
  BY <1>1, <1>2, <1>3, <1>4, <1>5, <1>6, <1>7, <1>8, <1>9, <1>10, <1>11, Zenon

\* What one process does to the clock, to the other processes and to the grants.
LEMMA StepFrame ==
  ASSUME TypeOK, NEW p \in Proc, Step(p)
  PROVE  /\ now' = now
         /\ \A q \in Proc \ {p} : proc'[q] = proc[q]
         /\ \A n \in 1 .. Len(grants) : grants'[n] = grants[n]
<1> USE CertCacheAssumption
<1>1. CASE Request(p)
  <2>1. PICK ttl \in TTLs, skew \in Skews :
          grants' = Append(grants, [from |-> now + skew, until |-> now + skew + ttl])
    BY <1>1 DEF Request
  <2>2. [from |-> now + skew, until |-> now + skew + ttl] \in [from : Int, until : Int]
    BY TypeFacts
  <2>3. \A n \in 1 .. Len(grants) : grants'[n] = grants[n]
    BY <2>1, <2>2, GrantsGrow
  <2> QED
    BY <1>1, <2>3, BecomesFacts DEF Request
<1>2. CASE ~Request(p)
  <2>1. UNCHANGED <<now, grants>> /\ \E r : Becomes(p, r)
    BY <1>2 DEF Step, Start, Lookup, MetadataCorrupt, Decide, VerifyOK, VerifyFails, Save,
       Create, Write, WriteStops, Chmod, ChmodFails, Discard, Rename, StoreFails, List,
       RemoveAll, Unlink, Rmdir, Finish, Abort
  <2> QED
    BY <2>1, BecomesFacts
<1> QED
  BY <1>1, <1>2

LEMMA LocalInit == Init => LocalInv
<1> SUFFICES ASSUME Init PROVE LocalInv
  OBVIOUS
<1>1. Fits(Idle, now) /\ Idle.pc = "idle"
  BY DEF Init, Idle, Fits, Removal, Saving
<1>2. \A p \in Proc : Fits(proc[p], now) /\ NotDue(p)
  BY <1>1 DEF Init, NotDue
<1> QED
  BY <1>2, TypeInit DEF LocalInv, Shape

LEMMA LocalNext == LocalInv /\ [Next]_vars => LocalInv'
<1> SUFFICES ASSUME LocalInv, [Next]_vars PROVE LocalInv'
  OBVIOUS
<1>1. TypeOK /\ TypeOK' /\ now \in Nat
  BY TypeStep, TypeFacts DEF LocalInv
<1>2. SUFFICES ASSUME NEW q \in Proc PROVE Shape(q)' /\ NotDue(q)'
  BY <1>1 DEF LocalInv
<1>3. Shape(q) /\ NotDue(q)
  BY DEF LocalInv
<1>4. CASE Tick
  BY <1>1, <1>3, <1>4, OthersKeepLocal DEF Tick
<1>5. ASSUME NEW p \in Proc, Step(p) PROVE Shape(q)' /\ NotDue(q)'
  <2>1. CASE p = q
    BY <1>5, <2>1, LocalStep
  <2>2. CASE p # q
    BY <1>1, <1>3, <1>5, <2>2, StepFrame, OthersKeepLocal
  <2> QED
    BY <2>1, <2>2
<1>6. CASE UNCHANGED vars
  BY <1>1, <1>3, <1>6, OthersKeepLocal DEF vars
<1> QED
  BY <1>4, <1>5, <1>6 DEF Next

\* A reused certificate had more than the threshold left when it was decided to reuse it,
\* whatever ran beside the command.
THEOREM ReuseIsNotDue == Spec => []ReuseLeavesThreshold
<1>1. LocalInv => ReuseLeavesThreshold
  <2> SUFFICES ASSUME LocalInv, NEW p \in Proc, At(p, "done"), proc[p].action = "reuse",
                      proc[p].seen = proc[p].entry
               PROVE  Remaining(proc[p].seen, proc[p].at) > Threshold
    BY DEF ReuseLeavesThreshold
  <2> QED
    BY DEF LocalInv, NotDue, At
<1> QED
  BY LocalInit, LocalNext, <1>1, PTL DEF Spec

----------------------------------------------------------------------------
(* The cache implements the promise of internal/certs. *)

LEMMA HandedIsView == handed = [q \in Proc |-> View(proc[q])]
BY DEF handed, View, At, Ssh, Promise!Nothing

LEMMA PromiseInit == Init => Promise!Init
<1> SUFFICES ASSUME Init PROVE Promise!Init
  OBVIOUS
<1>1. View(Idle) = Promise!Nothing /\ Idle.began = -1
  BY DEF View, Idle
<1>2. handed = [q \in Proc |-> Promise!Nothing]
  BY <1>1, HandedIsView DEF Init
<1> QED
  BY <1>1, <1>2 DEF Init, Promise!Init, Promise!NotRunning

\* The promise's view of a step of p: where it began, and what it has been handed.
LEMMA PromiseView ==
  ASSUME LocalInv, NEW p \in Proc, Step(p)
  PROVE  /\ now' = now
         /\ handed' = [handed EXCEPT ![p] = View(proc'[p])]
         /\ [q \in Proc |-> proc[q].began]'
              = [[q \in Proc |-> proc[q].began] EXCEPT ![p] = proc'[p].began]
<1>1. now' = now /\ \A q \in Proc \ {p} : proc'[q] = proc[q]
  BY StepFrame DEF LocalInv
<1>2. handed' = [q \in Proc |-> View(proc'[q])]
  BY DEF handed, View, At, Ssh, Promise!Nothing
<1> QED
  BY <1>1, <1>2, HandedIsView

LEMMA PromiseStep ==
  ASSUME LocalInv, NEW p \in Proc, Step(p)
  PROVE  [Promise!Next]_Promise!vars
<1> USE CertCacheAssumption
<1> DEFINE r == proc[p]
           began == [q \in Proc |-> proc[q].began]
<1>a. TypeOK /\ Fits(r, now) /\ r \in ProcState /\ now \in Nat /\ Len(grants) \in Nat
  BY TypeFacts DEF LocalInv, Shape
<1>1. /\ now' = now /\ handed' = [handed EXCEPT ![p] = View(proc'[p])]
      /\ began' = [began EXCEPT ![p] = proc'[p].began]
  BY PromiseView
<1>2. handed[p] = View(r) /\ began[p] = r.began /\ (r.pc # "done" => View(r) = Promise!Nothing)
  BY HandedIsView DEF View
<1>d. handed = [q \in Proc |-> handed[q]] /\ began = [q \in Proc |-> began[q]]
  BY HandedIsView
<1>3. CASE Request(p)
  <2>1. PICK ttl \in TTLs, skew \in Skews :
          grants' = Append(grants, [from |-> now + skew, until |-> now + skew + ttl])
    BY <1>3 DEF Request
  <2>2. [from |-> now + skew, until |-> now + skew + ttl] \in [from : Int, until : Int]
    BY <1>a
  <2>3. /\ grants' \in Seq([from : Int, until : Int])
        /\ Len(grants') = Len(grants) + 1
        /\ \A n \in 1 .. Len(grants) : grants'[n] = grants[n]
    BY <1>a, <2>1, <2>2, GrantsGrow
  <2>4. DOMAIN grants = 1 .. Len(grants)
    BY <1>a, TypeFacts
  <2>5. proc'[p].began = r.began /\ View(proc'[p]) = Promise!Nothing /\ r.pc # "done"
    <3> DEFINE n == [r EXCEPT !.entry = Len(grants) + 1, !.pc = "save"]
    <3>1. proc'[p] = n /\ r.pc # "done"
      BY <1>3, <1>a, BecomesFacts DEF Request, At
    <3>2. n.began = r.began /\ n.pc = "save"
      BY <1>a DEF ProcState
    <3> QED
      BY <3>1, <3>2 DEF View
  <2>6. handed' = handed /\ began' = began
    BY <1>1, <1>2, <1>d, <2>5
  <2> HIDE DEF began
  <2>7. /\ grants' \in Seq([from : Int, until : Int])
        /\ Len(grants') = Len(grants) + 1
        /\ \A n \in DOMAIN grants : grants'[n] = grants[n]
    BY <2>3, <2>4
  <2> QED
    BY <1>1, <2>6, <2>7 DEF Promise!Next, Promise!Grant, began
<1>4. CASE VerifyOK(p)
  <2> DEFINE c == disk[File("cert")]
  <2>0. PICK t \in r.at .. now :
          /\ Verifies(p, t)
          /\ Becomes(p, [r EXCEPT !.seen = c, !.checked = t, !.pc = "done"])
    BY <1>4 DEF VerifyOK
  <2>1. /\ r.pc = "verify" /\ r.began # -1 /\ r.cmd \in {"ssh", "ssh_no_cache"}
        /\ t \in r.began .. now
    BY <1>4, <1>a DEF ProcState, Fits, VerifyOK, At
  <2>2. c \in 1 .. Len(grants)
    <3>1. File("cert") \in Path
      BY PathType DEF Slots
    <3> QED
      BY <1>a, <2>0, <3>1, TypeFacts DEF Verifies, Whole, Contents
  <2>3. c \in DOMAIN grants /\ Promise!Covers(c, t)
    <3>1. DOMAIN grants = 1 .. Len(grants)
      BY <1>a, TypeFacts
    <3>2. grants[c].from \in Int
      BY <1>a, <2>2, GrantType
    <3>3. grants[c].from <= t /\ t < grants[c].until
      BY <2>0, <2>1, <1>a, <3>2 DEF Verifies, Expired, ProcState
    <3> QED
      BY <2>2, <3>1, <3>3 DEF Promise!Covers
  <2>4. proc'[p] = [r EXCEPT !.seen = c, !.checked = t, !.pc = "done"]
    BY <1>a, <2>0, BecomesFacts
  <2>5. View(proc'[p]) = [cert |-> c, at |-> t] /\ proc'[p].began = r.began
    BY <1>a, <2>1, <2>4 DEF View, ProcState, SshCmd
  <2>6. handed[p] = Promise!Nothing /\ began' = began
    BY <1>1, <1>2, <1>d, <2>1, <2>5
  <2>7. grants' = grants
    BY <1>4 DEF VerifyOK
  <2>8. /\ began[p] # Promise!NotRunning /\ t \in began[p] .. now
        /\ handed' = [handed EXCEPT ![p] = [cert |-> c, at |-> t]]
    BY <1>1, <1>2, <2>1, <2>5 DEF Promise!NotRunning
  <2> HIDE DEF c
  <2>9. Promise!Hand(p)
    BY <1>1, <2>3, <2>6, <2>7, <2>8 DEF Promise!Hand
  <2> QED
    BY <2>9 DEF Promise!Next
<1>5. CASE ~Request(p) /\ ~VerifyOK(p)
  <2>1. Moves(r, proc'[p], now)
    BY <1>5, LocalStep
  <2>2. grants' = grants
    BY <1>5 DEF Step, Start, Lookup, MetadataCorrupt, Decide, VerifyFails, Save,
       Create, Write, WriteStops, Chmod, ChmodFails, Discard, Rename, StoreFails, List,
       RemoveAll, Unlink, Rmdir, Finish, Abort
  <2>3. handed' = [handed EXCEPT ![p] = Promise!Nothing]
    BY <1>1, <2>1 DEF Moves
  <2>4. CASE r.pc # "done" /\ proc'[p].began = r.began
    <3>1. handed' = handed /\ began' = began
      BY <1>1, <1>2, <1>d, <2>3, <2>4
    <3> QED
      BY <1>1, <2>2, <3>1 DEF Promise!vars
  <2>5. CASE proc'[p].began = -1
    <3>1. Promise!End(p)
      BY <1>1, <2>2, <2>3, <2>5 DEF Promise!End, Promise!NotRunning
    <3> QED
      BY <3>1 DEF Promise!Next
  <2>6. CASE r.pc = "idle" /\ proc'[p].began = now
    <3>1. began[p] = Promise!NotRunning /\ handed' = handed
      BY <1>a, <1>2, <1>d, <2>3, <2>6 DEF Fits, Promise!NotRunning
    <3>2. Promise!Begin(p)
      BY <1>1, <2>2, <2>6, <3>1 DEF Promise!Begin
    <3> QED
      BY <3>2 DEF Promise!Next
  <2> QED
    BY <2>1, <2>4, <2>5, <2>6 DEF Moves
<1> QED
  BY <1>3, <1>4, <1>5

\* "It never hands an expired certificate to OpenSSH": with any number of commands, any
\* thresholds, lifetimes and skews, and crashes between any two system calls, what ssh is
\* handed is a granted certificate whose validity contains a reading of the clock taken
\* after that command began (certs.go, Ensure and verify).
THEOREM ImplementsPromise == Spec => NeverHandsExpired
<1>1. LocalInv /\ [Next]_vars => [Promise!Next]_Promise!vars
  <2> SUFFICES ASSUME LocalInv, [Next]_vars PROVE [Promise!Next]_Promise!vars
    OBVIOUS
  <2>1. CASE Tick
    <3>1. handed' = handed /\ [q \in Proc |-> proc[q].began]' = [q \in Proc |-> proc[q].began]
      BY <2>1 DEF Tick, handed, At, Ssh
    <3> QED
      BY <2>1, <3>1 DEF Tick, Promise!Next, Promise!Tick
  <2>2. CASE \E p \in Proc : Step(p)
    BY <2>2, PromiseStep
  <2>3. CASE UNCHANGED vars
    BY <2>3 DEF vars, Promise!vars, handed, At, Ssh
  <2> QED
    BY <2>1, <2>2, <2>3 DEF Next
<1> QED
  BY LocalInit, LocalNext, PromiseInit, <1>1, PTL DEF Spec, NeverHandsExpired, Promise!Spec
=============================================================================
