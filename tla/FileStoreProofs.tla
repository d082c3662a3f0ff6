--------------------------- MODULE FileStoreProofs ---------------------------
(***************************************************************************)
(* Theorems about FileStore, for any number of processes, keys, secrets    *)
(* and machine ids.                                                        *)
(***************************************************************************)
EXTENDS FileStore, TLAPS

NoJob == [op |-> "none", key |-> None, secret |-> None, out |-> "none"]
Busy == {"load", "open", "write", "rename"}
Idle == {"off", "draw", "write_id"}

\* What a process carries, by where it is.
Shape(p) ==
  /\ proc[p].pc \in Idle \cup {"ready"} => Job(p) = NoJob
  /\ proc[p].pc \in Busy =>
       proc[p].out = "pending" /\ proc[p].key \in Key /\ proc[p].op # "none"
  /\ Updating(p) => proc[p].op # "get"
  /\ proc[p].op = "set" =>
       /\ proc[p].key \in Key
       /\ proc[p].secret \in Secret
       /\ proc[p].secret \in offered[proc[p].key]
  /\ Identifying(p) => ~osid /\ proc[p].pass # 0

\* Contents x hold only what was set for each key.
Honest(x) == x \in Entries =>
  \A k \in Key : x[k] # None => x[k].secret \in offered[k]

AllHonest == Honest(file) /\ Honest(tmp) /\ \A p \in Proc : Honest(proc[p].entries)

\* As long as processes have not disturbed each other:
\* one updates the store, and one makes the machine id, at a time;
OneAtATime == \A p, q \in Proc : Updating(p) /\ Updating(q) => p = q
FirstAlone == \A p, q \in Proc : Identifying(p) /\ Identifying(q) => p = q
Unidentified == \A p \in Proc : Identifying(p) => id = 0

\* who updates the store holds what it is to become;
Saving(p) ==
  /\ Updating(p) => proc[p].entries = Updated(p)
  /\ At(p, "write") => proc[p].fd = "tmp" /\ tmp = Empty
  /\ At(p, "rename") => tmp = proc[p].entries

\* all encrypt alike, so that everything can be read.
SamePassphrase == \A p \in Proc :
  proc[p].pc \notin Idle => proc[p].pass = Passphrase /\ (osid \/ id # 0)
Legible == file \in Entries /\ \A k \in Key : file[k] # None => file[k].pass = Passphrase
NoneYet == ~osid /\ id = 0 => file = Empty

Calm == /\ OneAtATime
        /\ FirstAlone
        /\ Unidentified
        /\ \A p \in Proc : Saving(p)
        /\ SamePassphrase
        /\ Legible
        /\ NoneYet

IInv == /\ TypeOK
        /\ \A p \in Proc : Shape(p)
        /\ AllHonest
        /\ ~disturbed => Calm

----------------------------------------------------------------------------
(* The type of the state. *)

\* The parts of a process.
LEMMA Parts ==
  ASSUME TypeOK, NEW p \in Proc
  PROVE  /\ proc[p] \in ProcState
         /\ proc[p].pc \in PC
         /\ proc[p].pass \in Ids
         /\ proc[p].op \in {"none", "get", "set", "delete"}
         /\ proc[p].key \in Key \cup {None}
         /\ proc[p].secret \in Secret \cup {None}
         /\ proc[p].entries \in Entries
         /\ proc[p].fd \in {"none", "tmp", "file", "gone"}
         /\ proc[p].out \in Secret \cup {None, "none", "pending", "ok", "error"}
<1>1. proc[p] \in ProcState
  BY DEF TypeOK
<1> QED
  BY <1>1 DEF ProcState

\* What becomes of p concerns nobody else.
LEMMA Moves ==
  ASSUME TypeOK, NEW p \in Proc, NEW r \in ProcState, Becomes(p, r)
  PROVE  /\ proc' \in [Proc -> ProcState]
         /\ proc'[p] = r
         /\ \A q \in Proc : q # p => proc'[q] = proc[q]
BY DEF TypeOK, Becomes

LEMMA EmptyType == Empty \in Entries /\ 0 \in Ids /\ Off \in ProcState
<1>1. Empty \in Entries
  BY DEF Empty, Entries
<1>2. 0 \in Ids
  BY FileStoreAssumption DEF Ids
<1> QED
  BY <1>1, <1>2 DEF Off, ProcState, PC

\* No contents of a file are mistaken for others.
LEMMA Distinct ==
  /\ Corrupt \notin Entries /\ Absent \notin Entries /\ Corrupt # Absent
  /\ None \notin Entry /\ None \notin Key /\ None \notin Secret
  /\ Unreadable \notin Secret /\ None # Unreadable
  /\ "ok" \notin Secret /\ "error" \notin Secret
  /\ "pending" \notin Secret /\ "none" \notin Secret
  /\ None # "ok" /\ None # "error" /\ None # "pending" /\ None # "none"
BY FileStoreAssumption DEF Entries, Entry, Ids

----------------------------------------------------------------------------
(* What a step of one process leaves of the others, and of what was asked. *)

Untouched(q) ==
  /\ proc'[q].pc = proc[q].pc /\ proc'[q].pass = proc[q].pass
  /\ proc'[q].op = proc[q].op /\ proc'[q].key = proc[q].key
  /\ proc'[q].secret = proc[q].secret /\ proc'[q].out = proc[q].out
  /\ proc'[q].entries = proc[q].entries

\* The shape of the others stays what it was.
LEMMA ShapeKept ==
  ASSUME \A q \in Proc : Shape(q), osid' = osid,
         \A k \in Key : offered[k] \subseteq offered'[k],
         NEW p \in Proc, \A q \in Proc : q # p => Untouched(q), Shape(p)'
  PROVE  \A q \in Proc : Shape(q)'
<1> SUFFICES ASSUME NEW q \in Proc, q # p PROVE Shape(q)'
  OBVIOUS
<1>1. Untouched(q) /\ Shape(q)
  OBVIOUS
<1>2. Job(q)' = Job(q)
  BY <1>1 DEF Untouched, Job
<1> QED
  BY <1>1, <1>2 DEF Untouched, Shape, Updating, Identifying

LEMMA AllHonestKept ==
  ASSUME AllHonest, \A k \in Key : offered[k] \subseteq offered'[k],
         NEW p \in Proc, \A q \in Proc : q # p => Untouched(q),
         Honest(file)', Honest(tmp)', Honest(proc[p].entries)'
  PROVE  AllHonest'
<1> SUFFICES ASSUME NEW q \in Proc, q # p PROVE Honest(proc[q].entries)'
  BY DEF AllHonest
<1>1. proc'[q].entries = proc[q].entries /\ Honest(proc[q].entries)
  BY DEF AllHonest, Untouched
<1> QED
  BY <1>1 DEF Honest

\* Nothing at all changes but the local state of p, which holds no entries it did not hold,
\* and the machine.
LEMMA FilesKept ==
  ASSUME AllHonest, UNCHANGED <<file, tmp, offered>>,
         NEW p \in Proc, \A q \in Proc : q # p => Untouched(q),
         proc'[p].entries \in {proc[p].entries, Empty}
  PROVE  AllHonest'
<1>1. Honest(file)' /\ Honest(tmp)'
  BY DEF AllHonest, Honest
<1>2. Honest(proc[p].entries)'
  BY EmptyType DEF AllHonest, Honest, Empty
<1> QED
  BY <1>1, <1>2, AllHonestKept

\* A step after which p neither updates the store nor makes the machine id, and which
\* changes neither of them.
LEMMA CalmKept ==
  ASSUME Calm, NEW p \in Proc, \A q \in Proc : q # p => proc'[q] = proc[q],
         UNCHANGED <<file, osid, id>>, tmp' = tmp \/ Updating(p),
         ~Updating(p)', ~Identifying(p)',
         proc'[p].pc \notin Idle => proc'[p].pass = Passphrase /\ (osid \/ id # 0)
  PROVE  Calm'
<1>1. \A q \in Proc : (Updating(q)' => Updating(q)) /\ (Identifying(q)' => Identifying(q))
  BY DEF Updating, Identifying
<1>2. OneAtATime' /\ FirstAlone' /\ Unidentified'
  BY <1>1 DEF Calm, OneAtATime, FirstAlone, Unidentified
<1>3. ASSUME NEW q \in Proc PROVE Saving(q)'
  <2>1. CASE q = p
    BY <2>1 DEF Saving, Updating, At
  <2>2. CASE q # p
    <3>1. proc'[q] = proc[q] /\ Saving(q)
      BY <2>2 DEF Calm
    <3>2. Updated(q)' = Updated(q)
      BY <3>1 DEF Updated
    <3>3. Updating(q) => tmp' = tmp
      BY <2>2 DEF Calm, OneAtATime
    <3> QED
      BY <3>1, <3>2, <3>3 DEF Saving, Updating, At
  <2> QED
    BY <2>1, <2>2
<1>4. SamePassphrase'
  <2> SUFFICES ASSUME NEW q \in Proc, proc'[q].pc \notin Idle
               PROVE  proc'[q].pass = Passphrase /\ (osid \/ id # 0)
    BY DEF SamePassphrase, Passphrase
  <2> QED
    BY DEF Calm, SamePassphrase
<1>5. Legible' /\ NoneYet'
  BY DEF Calm, Legible, NoneYet, Passphrase
<1> QED
  BY <1>2, <1>3, <1>4, <1>5 DEF Calm

----------------------------------------------------------------------------
(* Starting. *)

\* Off, a process has nothing to hide.
LEMMA IdleShape ==
  ASSUME NEW p \in Proc, NEW l \in {"off", "ready"}, NEW i,
         proc'[p] = [Off EXCEPT !.pc = l, !.pass = i]
  PROVE  Shape(p)'
BY DEF Off, Shape, Job, NoJob, Idle, Busy, Updating, Identifying

LEMMA StartInv == ASSUME IInv, NEW p \in Proc, Start(p) PROVE IInv'
<1> DEFINE r == [Off EXCEPT !.pc = "ready", !.pass = IF osid THEN 0 ELSE id]
<1> USE DEF IInv
<1>1. r \in ProcState
  BY EmptyType DEF TypeOK, Off, ProcState, PC
<1>2. /\ proc' \in [Proc -> ProcState]
      /\ proc'[p] = r
      /\ \A q \in Proc : q # p => proc'[q] = proc[q]
  BY <1>1, Moves DEF Start
<1>3. TypeOK'
  BY <1>2 DEF TypeOK, Start, files, machine, history
<1>4. \A q \in Proc : q # p => Untouched(q)
  BY <1>2 DEF Untouched
<1>5. UNCHANGED <<file, tmp, osid, id, drawn, offered, disturbed>>
  BY DEF Start, files, machine, history
<1>6. \A q \in Proc : Shape(q)'
  BY <1>2, <1>4, <1>5, IdleShape, ShapeKept
<1>7. AllHonest'
  BY <1>2, <1>4, <1>5, FilesKept DEF Off
<1>8. ASSUME ~disturbed PROVE Calm'
  <2>1. Calm
    BY <1>8
  <2>2. ~Updating(p)' /\ ~Identifying(p)'
    BY <1>2 DEF Updating, Identifying, Off
  <2>3. proc'[p].pass = Passphrase /\ (osid \/ id # 0)
    BY <1>2 DEF Start, Off, Passphrase
  <2> QED
    BY <1>2, <1>5, <2>1, <2>2, <2>3, CalmKept
<1> QED
  BY <1>3, <1>5, <1>6, <1>7, <1>8

LEMMA DrawInv == ASSUME IInv, NEW p \in Proc, Draw(p) PROVE IInv'
<1> DEFINE r == [Off EXCEPT !.pc = "draw", !.pass = drawn + 1]
<1> USE DEF IInv
<1>1. drawn + 1 \in Ids /\ drawn + 1 # 0 /\ drawn' = drawn + 1
  BY FileStoreAssumption DEF TypeOK, Draw, Ids
<1>2. r \in ProcState
  BY <1>1, EmptyType DEF Off, ProcState, PC
<1>3. /\ proc' \in [Proc -> ProcState]
      /\ proc'[p] = r
      /\ \A q \in Proc : q # p => proc'[q] = proc[q]
  BY <1>2, Moves DEF Draw
<1>4. UNCHANGED <<file, tmp, osid, id, offered>> /\ ~osid
  BY DEF Draw, files
<1>5. TypeOK'
  BY <1>1, <1>3, <1>4 DEF TypeOK, Draw
<1>6. \A q \in Proc : q # p => Untouched(q)
  BY <1>3 DEF Untouched
<1>7. Shape(p)'
  BY <1>1, <1>3, <1>4 DEF Off, Shape, Job, NoJob, Idle, Busy, Updating, Identifying
<1>8. \A q \in Proc : Shape(q)'
  BY <1>4, <1>6, <1>7, ShapeKept
<1>9. AllHonest'
  BY <1>3, <1>4, <1>6, FilesKept DEF Off
<1>10. ASSUME ~disturbed' PROVE Calm'
  <2>1. Calm /\ id = 0 /\ \A q \in Proc : q # p => ~Identifying(q)
    BY <1>10 DEF Draw, Others
  <2>2. \A q \in Proc : (Updating(q)' => q # p /\ Updating(q)) /\ (Identifying(q)' => q = p)
    BY <1>3, <2>1 DEF Updating, Identifying, Off
  <2>3. OneAtATime' /\ FirstAlone' /\ Unidentified'
    BY <2>1, <2>2, <1>4 DEF Calm, OneAtATime, FirstAlone, Unidentified
  <2>4. ASSUME NEW q \in Proc PROVE Saving(q)'
    <3>1. CASE q = p
      BY <3>1, <1>3 DEF Saving, Updating, At, Off
    <3>2. CASE q # p
      <4>1. proc'[q] = proc[q] /\ Saving(q)
        BY <3>2, <2>1, <1>3 DEF Calm
      <4>2. Updated(q)' = Updated(q)
        BY <4>1, <1>4 DEF Updated
      <4> QED
        BY <4>1, <4>2, <1>4 DEF Saving, Updating, At
    <3> QED
      BY <3>1, <3>2
  <2>5. SamePassphrase'
    BY <2>1, <1>3, <1>4 DEF Calm, SamePassphrase, Passphrase, Off, Idle
  <2>6. Legible' /\ NoneYet'
    BY <2>1, <1>4 DEF Calm, Legible, NoneYet, Passphrase
  <2> QED
    BY <2>3, <2>4, <2>5, <2>6 DEF Calm
<1> QED
  BY <1>5, <1>8, <1>9, <1>10

\* Undisturbed, whoever makes the machine id is alone with an empty store.
LEMMA AloneAndEmpty ==
  ASSUME TypeOK, Calm, NEW p \in Proc, Shape(p), Identifying(p)
  PROVE  /\ ~osid /\ id = 0 /\ file = Empty
         /\ \A q \in Proc : q # p => proc[q].pc = "off"
<1>1. ~osid /\ id = 0 /\ file = Empty
  BY DEF Shape, Calm, Unidentified, NoneYet
<1>2. \A q \in Proc : proc[q].pc \in Idle
  BY <1>1 DEF Calm, SamePassphrase
<1>3. \A q \in Proc : q # p => ~Identifying(q)
  BY DEF Calm, FirstAlone
<1> QED
  BY <1>1, <1>2, <1>3 DEF Idle, Identifying

LEMMA TruncateIdInv == ASSUME IInv, NEW p \in Proc, TruncateId(p) PROVE IInv'
<1> DEFINE r == [proc[p] EXCEPT !.pc = "write_id"]
<1> USE DEF IInv
<1>1. r \in ProcState
  BY Parts DEF ProcState, PC
<1>2. /\ proc' \in [Proc -> ProcState]
      /\ proc'[p] = r
      /\ \A q \in Proc : q # p => proc'[q] = proc[q]
  BY <1>1, Moves DEF TruncateId
<1>3. UNCHANGED <<file, tmp, osid, drawn, offered, disturbed>> /\ id' = 0
  BY DEF TruncateId, files, history
<1>4. TypeOK'
  BY <1>2, <1>3, EmptyType DEF TypeOK
<1>5. \A q \in Proc : q # p => Untouched(q)
  BY <1>2 DEF Untouched
<1>6. proc[p].pc = "draw" /\ proc[p] \in ProcState /\ Identifying(p)
  BY Parts DEF TruncateId, At, Identifying
<1>7. r.pc = "write_id" /\ r.pass = proc[p].pass /\ r.op = proc[p].op /\ r.key = proc[p].key
      /\ r.secret = proc[p].secret /\ r.out = proc[p].out /\ r.entries = proc[p].entries
  BY <1>6 DEF ProcState
<1>8. Shape(p)'
  <2>1. Job(p)' = Job(p)
    BY <1>2, <1>7 DEF Job
  <2> QED
    BY <2>1, <1>2, <1>3, <1>6, <1>7 DEF Shape, Idle, Busy, Updating, Identifying, Job, NoJob
<1>9. \A q \in Proc : Shape(q)'
  BY <1>3, <1>5, <1>8, ShapeKept
<1>10. AllHonest'
  BY <1>2, <1>3, <1>5, <1>7, FilesKept
<1>11. ASSUME ~disturbed' PROVE Calm'
  <2>1. Calm
    BY <1>3, <1>11
  <2>2. id' = id /\ \A q \in Proc : q # p => proc[q].pc = "off"
    BY <2>1, <1>3, <1>6, AloneAndEmpty
  <2>3. \A q \in Proc : ~Updating(q)' /\ (Identifying(q)' => q = p) /\ proc'[q].pc \in Idle
    BY <2>2, <1>2, <1>7 DEF Updating, Identifying, Idle
  <2>4. OneAtATime' /\ FirstAlone' /\ Unidentified'
    BY <2>3, <1>3 DEF OneAtATime, FirstAlone, Unidentified
  <2>5. (\A q \in Proc : Saving(q)') /\ SamePassphrase'
    BY <2>3 DEF Saving, Updating, At, SamePassphrase
  <2>6. Legible' /\ NoneYet'
    BY <2>1, <2>2, <1>3 DEF Calm, Legible, NoneYet, Passphrase
  <2> QED
    BY <2>4, <2>5, <2>6 DEF Calm
<1> QED
  BY <1>3, <1>4, <1>9, <1>10, <1>11

LEMMA WriteIdInv == ASSUME IInv, NEW p \in Proc, WriteId(p) PROVE IInv'
<1> DEFINE r == [proc[p] EXCEPT !.pc = "ready"]
<1> USE DEF IInv
<1>1. r \in ProcState
  BY Parts DEF ProcState, PC
<1>2. /\ proc' \in [Proc -> ProcState]
      /\ proc'[p] = r
      /\ \A q \in Proc : q # p => proc'[q] = proc[q]
  BY <1>1, Moves DEF WriteId
<1>3. UNCHANGED <<file, tmp, osid, drawn, offered, disturbed>> /\ id' = proc[p].pass
  BY DEF WriteId, files, history
<1>4. TypeOK'
  BY <1>2, <1>3, Parts DEF TypeOK
<1>5. \A q \in Proc : q # p => Untouched(q)
  BY <1>2 DEF Untouched
<1>6. proc[p].pc = "write_id" /\ proc[p] \in ProcState /\ Identifying(p)
  BY Parts DEF WriteId, At, Identifying
<1>7. r.pc = "ready" /\ r.pass = proc[p].pass /\ r.op = proc[p].op /\ r.key = proc[p].key
      /\ r.secret = proc[p].secret /\ r.out = proc[p].out /\ r.entries = proc[p].entries
  BY <1>6 DEF ProcState
<1>8. Shape(p)'
  <2>1. Job(p)' = Job(p)
    BY <1>2, <1>7 DEF Job
  <2> QED
    BY <2>1, <1>2, <1>3, <1>6, <1>7 DEF Shape, Idle, Busy, Updating, Identifying, Job, NoJob
<1>9. \A q \in Proc : Shape(q)'
  BY <1>3, <1>5, <1>8, ShapeKept
<1>10. AllHonest'
  BY <1>2, <1>3, <1>5, <1>7, FilesKept
<1>11. ASSUME ~disturbed' PROVE Calm'
  <2>1. Calm
    BY <1>3, <1>11
  <2>2. ~osid /\ file = Empty /\ proc[p].pass # 0 /\ \A q \in Proc : q # p => proc[q].pc = "off"
    BY <2>1, <1>6, AloneAndEmpty DEF Shape
  <2>3. \A q \in Proc : ~Updating(q)' /\ ~Identifying(q)' /\ (proc'[q].pc \in Idle \/ q = p)
    BY <2>2, <1>2, <1>7 DEF Updating, Identifying, Idle
  <2>4. OneAtATime' /\ FirstAlone' /\ Unidentified'
    BY <2>3 DEF OneAtATime, FirstAlone, Unidentified
  <2>5. \A q \in Proc : Saving(q)'
    BY <2>3 DEF Saving, Updating, At
  <2>6. SamePassphrase'
    <3>1. proc'[p].pass = id' /\ ~osid' /\ id' # 0
      BY <2>2, <1>2, <1>3, <1>7
    <3> QED
      BY <3>1, <2>3 DEF SamePassphrase, Passphrase
  <2>7. Legible' /\ NoneYet'
    BY <2>2, <1>3, EmptyType DEF Legible, NoneYet, Passphrase, Empty
  <2> QED
    BY <2>4, <2>5, <2>6, <2>7 DEF Calm
<1> QED
  BY <1>3, <1>4, <1>9, <1>10, <1>11

LEMMA IdNotWrittenInv == ASSUME IInv, NEW p \in Proc, IdNotWritten(p) PROVE IInv'
<1> DEFINE r == [proc[p] EXCEPT !.pc = "ready"]
<1> USE DEF IInv
<1>1. r \in ProcState
  BY Parts DEF ProcState, PC
<1>2. /\ proc' \in [Proc -> ProcState]
      /\ proc'[p] = r
      /\ \A q \in Proc : q # p => proc'[q] = proc[q]
  BY <1>1, Moves DEF IdNotWritten
<1>3. UNCHANGED <<file, tmp, osid, id, drawn, offered>> /\ disturbed'
  BY DEF IdNotWritten, files, machine
<1>4. TypeOK'
  BY <1>2, <1>3 DEF TypeOK, IdNotWritten
<1>5. \A q \in Proc : q # p => Untouched(q)
  BY <1>2 DEF Untouched
<1>6. proc[p].pc \in Idle /\ proc[p] \in ProcState
  BY Parts DEF IdNotWritten, Identifying, Idle
<1>7. r.pc = "ready" /\ r.op = proc[p].op /\ r.key = proc[p].key
      /\ r.secret = proc[p].secret /\ r.out = proc[p].out /\ r.entries = proc[p].entries
  BY <1>6 DEF ProcState
<1>8. Shape(p)'
  <2>1. Job(p)' = Job(p)
    BY <1>2, <1>7 DEF Job
  <2> QED
    BY <2>1, <1>2, <1>3, <1>6, <1>7 DEF Shape, Idle, Busy, Updating, Identifying, Job, NoJob
<1>9. \A q \in Proc : Shape(q)'
  BY <1>3, <1>5, <1>8, ShapeKept
<1>10. AllHonest'
  BY <1>2, <1>3, <1>5, <1>7, FilesKept
<1> QED
  BY <1>3, <1>4, <1>9, <1>10

----------------------------------------------------------------------------
(* Asking, loading, answering. *)

LEMMA AskInv == ASSUME IInv, NEW p \in Proc, Ask(p) PROVE IInv'
<1> USE DEF IInv
<1>1. proc[p].pc = "ready" /\ proc[p] \in ProcState
  BY Parts DEF Ask, At
<1>2. PICK k \in Key, o \in {"get", "set", "delete"}, s \in Secret \cup {None} :
        /\ Asked(p, o, k, s)
        /\ o = "set" => s \in Secret /\ offered' = [offered EXCEPT ![k] = @ \cup {s}]
        /\ o # "set" => offered' = offered
  <2>1. PICK k \in Key :
          \/ \E o \in {"get", "delete"} : Asked(p, o, k, None) /\ UNCHANGED offered
          \/ \E s \in Secret : /\ Asked(p, "set", k, s)
                               /\ offered' = [offered EXCEPT ![k] = @ \cup {s}]
    BY DEF Ask
  <2>2. CASE \E o \in {"get", "delete"} : Asked(p, o, k, None) /\ UNCHANGED offered
    BY <2>2
  <2>3. CASE \E s \in Secret : /\ Asked(p, "set", k, s)
                               /\ offered' = [offered EXCEPT ![k] = @ \cup {s}]
    BY <2>3
  <2> QED
    BY <2>1, <2>2, <2>3
<1> DEFINE r == [proc[p] EXCEPT !.pc = "load", !.op = o, !.key = k, !.secret = s,
                                !.out = "pending"]
<1>3. r \in ProcState
  BY <1>1 DEF ProcState, PC
<1>4. /\ proc' \in [Proc -> ProcState]
      /\ proc'[p] = r
      /\ \A q \in Proc : q # p => proc'[q] = proc[q]
  BY <1>2, <1>3, Moves DEF Asked
<1>5. UNCHANGED <<file, tmp, osid, id, drawn, disturbed>>
  BY DEF Ask, files, machine
<1>6. /\ offered' \in [Key -> SUBSET Secret]
      /\ \A j \in Key : offered[j] \subseteq offered'[j]
      /\ o = "set" => s \in offered'[k]
  BY <1>2 DEF TypeOK
<1>7. TypeOK'
  BY <1>4, <1>5, <1>6 DEF TypeOK
<1>8. \A q \in Proc : q # p => Untouched(q)
  BY <1>4 DEF Untouched
<1>9. r.pc = "load" /\ r.op = o /\ r.key = k /\ r.secret = s /\ r.out = "pending"
      /\ r.entries = proc[p].entries /\ r.pass = proc[p].pass
  BY <1>1 DEF ProcState
<1>10. Shape(p)'
  BY <1>2, <1>4, <1>6, <1>9 DEF Shape, Idle, Busy, Updating, Identifying
<1>11. \A q \in Proc : Shape(q)'
  BY <1>5, <1>6, <1>8, <1>10, ShapeKept
<1>12. Honest(file)' /\ Honest(tmp)' /\ Honest(proc[p].entries)'
  BY <1>4, <1>5, <1>6, <1>9 DEF AllHonest, Honest
<1>13. AllHonest'
  BY <1>6, <1>8, <1>12, AllHonestKept
<1>14. ASSUME ~disturbed' PROVE Calm'
  <2>1. Calm
    BY <1>5, <1>14
  <2>2. proc[p].pass = Passphrase /\ (osid \/ id # 0)
    BY <2>1, <1>1 DEF Calm, SamePassphrase, Idle
  <2>3. ~Updating(p)' /\ ~Identifying(p)' /\ proc'[p].pass = proc[p].pass
    BY <1>4, <1>9 DEF Updating, Identifying
  <2> QED
    BY <2>1, <2>2, <2>3, <1>4, <1>5, CalmKept
<1> QED
  BY <1>5, <1>7, <1>11, <1>13, <1>14

LEMMA LoadOnlyInv == ASSUME IInv, NEW p \in Proc, LoadOnly(p) PROVE IInv'
<1> USE DEF IInv
<1>1. proc[p].pc = "load" /\ proc[p] \in ProcState
  BY Parts DEF LoadOnly, At
<1>2. PICK o \in Secret \cup {None, "ok", "error"} : Becomes(p, Answered(p, o))
  <2>1. CASE Becomes(p, Answered(p, "error"))
    BY <2>1
  <2>2. CASE file # Corrupt /\ proc[p].op = "get" /\ Becomes(p, Answered(p, Decrypted(p)))
    <3>1. proc[p].key \in Key /\ file \in Entries
      BY <2>2, <1>1 DEF TypeOK, Shape, Busy
    <3>2. Found(p) \in Entry \cup {None}
      BY <3>1 DEF Found, Entries
    <3>3. Decrypted(p) \in Secret \cup {None, "error"}
      BY <3>2 DEF Decrypted, Entry
    <3> QED
      BY <2>2, <3>3
  <2>3. CASE file # Corrupt /\ proc[p].op = "delete" /\ Found(p) = None
             /\ Becomes(p, Answered(p, "ok"))
    BY <2>3
  <2> QED
    BY <2>1, <2>2, <2>3 DEF LoadOnly
<1> DEFINE r == [proc[p] EXCEPT !.pc = "answered", !.out = o]
<1>3. r \in ProcState
  BY <1>1 DEF ProcState, PC
<1>4. /\ proc' \in [Proc -> ProcState]
      /\ proc'[p] = r
      /\ \A q \in Proc : q # p => proc'[q] = proc[q]
  BY <1>2, <1>3, Moves DEF Answered
<1>5. UNCHANGED <<file, tmp, osid, id, drawn, offered, disturbed>>
  BY DEF LoadOnly, files, machine, history
<1>6. TypeOK'
  BY <1>4, <1>5 DEF TypeOK
<1>7. \A q \in Proc : q # p => Untouched(q)
  BY <1>4 DEF Untouched
<1>8. r.pc = "answered" /\ r.op = proc[p].op /\ r.key = proc[p].key
      /\ r.secret = proc[p].secret /\ r.entries = proc[p].entries /\ r.pass = proc[p].pass
  BY <1>1 DEF ProcState
<1>9. Shape(p)'
  BY <1>4, <1>5, <1>8 DEF Shape, Idle, Busy, Updating, Identifying
<1>10. \A q \in Proc : Shape(q)'
  BY <1>5, <1>7, <1>9, ShapeKept
<1>11. AllHonest'
  BY <1>4, <1>5, <1>7, <1>8, FilesKept
<1>12. ASSUME ~disturbed' PROVE Calm'
  <2>1. Calm
    BY <1>5, <1>12
  <2>2. proc[p].pass = Passphrase /\ (osid \/ id # 0)
    BY <2>1, <1>1 DEF Calm, SamePassphrase, Idle
  <2>3. ~Updating(p)' /\ ~Identifying(p)' /\ proc'[p].pass = proc[p].pass
    BY <1>4, <1>8 DEF Updating, Identifying
  <2> QED
    BY <2>1, <2>2, <2>3, <1>4, <1>5, CalmKept
<1> QED
  BY <1>5, <1>6, <1>10, <1>11, <1>12

\* What p is going to save.
LEMMA UpdatedType ==
  ASSUME IInv, NEW p \in Proc, file # Corrupt, proc[p].key \in Key,
         proc[p].op \in {"set", "delete"}
  PROVE  /\ Updated(p) \in Entries
         /\ Honest(Updated(p))
         /\ \A k \in Key : k # proc[p].key => Updated(p)[k] = file[k]
         /\ proc[p].op = "set" =>
              Updated(p)[proc[p].key] = [secret |-> proc[p].secret, pass |-> proc[p].pass]
         /\ proc[p].op = "delete" => Updated(p)[proc[p].key] = None
<1> DEFINE e == IF proc[p].op = "set"
                THEN [secret |-> proc[p].secret, pass |-> proc[p].pass] ELSE None
<1>1. file \in Entries /\ Honest(file)
  BY DEF IInv, TypeOK, AllHonest
<1>2. proc[p].op = "set" => proc[p].secret \in Secret /\ proc[p].secret \in offered[proc[p].key]
  BY DEF IInv, Shape
<1>3. e \in Entry \cup {None}
  BY <1>2, Parts DEF Entry, IInv
<1>4. Updated(p) = [file EXCEPT ![proc[p].key] = e]
  BY DEF Updated
<1>5. Updated(p) \in Entries
  BY <1>1, <1>3, <1>4 DEF Entries
<1>6. /\ Updated(p)[proc[p].key] = e
      /\ \A k \in Key : k # proc[p].key => Updated(p)[k] = file[k]
  BY <1>1, <1>4 DEF Entries
<1>7. Honest(Updated(p))
  <2> SUFFICES ASSUME NEW k \in Key, Updated(p)[k] # None
               PROVE  Updated(p)[k].secret \in offered[k]
    BY DEF Honest
  <2>1. CASE k = proc[p].key
    <3>1. proc[p].op = "set" /\ Updated(p)[k] = [secret |-> proc[p].secret, pass |-> proc[p].pass]
      BY <2>1, <1>6
    <3> QED
      BY <3>1, <2>1, <1>2
  <2>2. CASE k # proc[p].key
    BY <2>2, <1>1, <1>6 DEF Honest
  <2> QED
    BY <2>1, <2>2
<1> QED
  BY <1>5, <1>6, <1>7

LEMMA LoadInv == ASSUME IInv, NEW p \in Proc, Load(p) PROVE IInv'
<1> DEFINE r == [proc[p] EXCEPT !.pc = "open", !.entries = Updated(p)]
<1>1. proc[p].pc = "load" /\ proc[p] \in ProcState /\ TypeOK
  BY Parts DEF Load, At, IInv
<1>2. Updated(p) \in Entries /\ Honest(Updated(p)) /\ proc[p].op \in {"set", "delete"}
  BY <1>1, UpdatedType DEF Load, IInv, Shape, Busy
<1> USE DEF IInv
<1>3. r \in ProcState
  BY <1>1, <1>2 DEF ProcState, PC
<1>4. /\ proc' \in [Proc -> ProcState]
      /\ proc'[p] = r
      /\ \A q \in Proc : q # p => proc'[q] = proc[q]
  BY <1>3, Moves DEF Load
<1>5. UNCHANGED <<file, tmp, osid, id, drawn, offered>>
  BY DEF Load, files, machine
<1>6. TypeOK'
  BY <1>4, <1>5 DEF TypeOK, Load
<1>7. \A q \in Proc : q # p => Untouched(q)
  BY <1>4 DEF Untouched
<1>8. r.pc = "open" /\ r.op = proc[p].op /\ r.key = proc[p].key /\ r.out = proc[p].out
      /\ r.secret = proc[p].secret /\ r.entries = Updated(p) /\ r.pass = proc[p].pass
  BY <1>1 DEF ProcState
<1>9. Shape(p)'
  BY <1>1, <1>2, <1>4, <1>5, <1>8 DEF Shape, Idle, Busy, Updating, Identifying
<1>10. \A q \in Proc : Shape(q)'
  BY <1>5, <1>7, <1>9, ShapeKept
<1>11. AllHonest'
  <2>1. Honest(file)' /\ Honest(tmp)' /\ Honest(proc[p].entries)'
    BY <1>2, <1>4, <1>5, <1>8 DEF AllHonest, Honest
  <2> QED
    BY <2>1, <1>5, <1>7, AllHonestKept
<1>12. ASSUME ~disturbed' PROVE Calm'
  <2>1. Calm /\ \A q \in Proc : q # p => ~Updating(q)
    BY <1>12 DEF Load, Others
  <2>2. \A q \in Proc : (Updating(q)' <=> q = p) /\ (Identifying(q)' => Identifying(q))
    BY <2>1, <1>4, <1>8 DEF Updating, Identifying
  <2>3. OneAtATime' /\ FirstAlone' /\ Unidentified'
    BY <2>1, <2>2, <1>5 DEF Calm, OneAtATime, FirstAlone, Unidentified
  <2>4. ASSUME NEW q \in Proc PROVE Saving(q)'
    <3>1. CASE q = p
      <4>1. Updated(p)' = Updated(p)
        BY <1>4, <1>5, <1>8 DEF Updated
      <4> QED
        BY <3>1, <4>1, <1>4, <1>8 DEF Saving, At
    <3>2. CASE q # p
      BY <3>2, <2>2 DEF Saving, Updating, At
    <3> QED
      BY <3>1, <3>2
  <2>5. proc[p].pass = Passphrase /\ (osid \/ id # 0)
    BY <2>1, <1>1 DEF Calm, SamePassphrase, Idle
  <2>6. SamePassphrase'
    BY <2>1, <2>5, <1>4, <1>5, <1>8 DEF Calm, SamePassphrase, Passphrase
  <2>7. Legible' /\ NoneYet'
    BY <2>1, <1>5 DEF Calm, Legible, NoneYet, Passphrase
  <2> QED
    BY <2>3, <2>4, <2>6, <2>7 DEF Calm
<1> QED
  BY <1>6, <1>10, <1>11, <1>12

----------------------------------------------------------------------------
(* Saving. *)

\* Undisturbed, the one who updates the store knows what it holds.
LEMMA Updater ==
  ASSUME IInv, NEW p \in Proc, Updating(p), ~disturbed
  PROVE  /\ \A q \in Proc : q # p => ~Updating(q)
         /\ file # Corrupt /\ file \in Entries
         /\ proc[p].key \in Key /\ proc[p].op \in {"set", "delete"}
         /\ proc[p].entries = Updated(p) /\ Updated(p) \in Entries
         /\ proc[p].pass = Passphrase /\ (osid \/ id # 0)
<1>1. Calm /\ TypeOK
  BY DEF IInv
<1>2. \A q \in Proc : q # p => ~Updating(q)
  BY <1>1 DEF Calm, OneAtATime
<1>3. file # Corrupt /\ file \in Entries
  BY <1>1, Distinct DEF Calm, Legible
<1>4. proc[p].key \in Key /\ proc[p].op \in {"set", "delete"}
  BY <1>1, Parts DEF IInv, Shape, Updating, Busy
<1>5. proc[p].entries = Updated(p) /\ Updated(p) \in Entries
  BY <1>1, <1>3, <1>4, UpdatedType DEF Calm, Saving
<1>6. proc[p].pass = Passphrase /\ (osid \/ id # 0)
  BY <1>1 DEF Calm, SamePassphrase, Idle, Updating
<1> QED
  BY <1>2, <1>3, <1>4, <1>5, <1>6

LEMMA OpenInv == ASSUME IInv, NEW p \in Proc, Open(p) PROVE IInv'
<1> DEFINE r == [proc[p] EXCEPT !.pc = "write", !.fd = "tmp"]
<1>1. proc[p].pc = "open" /\ proc[p] \in ProcState /\ TypeOK /\ Updating(p)
  BY Parts DEF Open, At, IInv, Updating
<1>2. r \in ProcState
  BY <1>1 DEF ProcState, PC
<1>3. /\ proc' \in [Proc -> ProcState]
      /\ proc'[p] = r
      /\ \A q \in Proc : q # p => proc'[q] = proc[q]
  BY <1>1, <1>2, Moves DEF Open
<1>4. UNCHANGED <<file, osid, id, drawn, offered, disturbed>> /\ tmp' = Empty
  BY DEF Open, history, machine
<1>5. TypeOK'
  BY <1>1, <1>3, <1>4, EmptyType DEF TypeOK
<1>6. \A q \in Proc : q # p => Untouched(q)
  BY <1>3 DEF Untouched
<1>7. r.pc = "write" /\ r.op = proc[p].op /\ r.key = proc[p].key /\ r.out = proc[p].out
      /\ r.secret = proc[p].secret /\ r.entries = proc[p].entries /\ r.pass = proc[p].pass
      /\ r.fd = "tmp"
  BY <1>1 DEF ProcState
<1> USE DEF IInv
<1>8. Shape(p)'
  BY <1>1, <1>3, <1>4, <1>7 DEF Shape, Idle, Busy, Updating, Identifying
<1>9. \A q \in Proc : Shape(q)'
  BY <1>4, <1>6, <1>8, ShapeKept
<1>10. AllHonest'
  <2>1. Honest(file)' /\ Honest(tmp)' /\ Honest(proc[p].entries)'
    BY <1>3, <1>4, <1>7 DEF AllHonest, Honest, Empty
  <2> QED
    BY <2>1, <1>4, <1>6, AllHonestKept
<1>11. ASSUME ~disturbed' PROVE Calm'
  <2>1. Calm /\ ~disturbed
    BY <1>4, <1>11
  <2>2. /\ \A q \in Proc : q # p => ~Updating(q)
        /\ proc[p].entries = Updated(p)
        /\ proc[p].pass = Passphrase /\ (osid \/ id # 0)
    BY <1>1, <2>1, Updater
  <2>3. \A q \in Proc : (Updating(q)' => q = p) /\ (Identifying(q)' => Identifying(q))
    BY <2>2, <1>3, <1>7 DEF Updating, Identifying
  <2>4. OneAtATime' /\ FirstAlone' /\ Unidentified'
    BY <2>1, <2>3, <1>4 DEF Calm, OneAtATime, FirstAlone, Unidentified
  <2>5. ASSUME NEW q \in Proc PROVE Saving(q)'
    <3>1. CASE q = p
      <4>1. Updated(p)' = Updated(p)
        BY <1>3, <1>4, <1>7 DEF Updated
      <4> QED
        BY <3>1, <4>1, <2>2, <1>3, <1>4, <1>7 DEF Saving, At
    <3>2. CASE q # p
      BY <3>2, <2>3 DEF Saving, Updating, At
    <3> QED
      BY <3>1, <3>2
  <2>6. SamePassphrase'
    BY <2>1, <2>2, <1>3, <1>4, <1>7 DEF Calm, SamePassphrase, Passphrase
  <2>7. Legible' /\ NoneYet'
    BY <2>1, <1>4 DEF Calm, Legible, NoneYet, Passphrase
  <2> QED
    BY <2>4, <2>5, <2>6, <2>7 DEF Calm
<1> QED
  BY <1>5, <1>9, <1>10, <1>11

LEMMA WriteInv == ASSUME IInv, NEW p \in Proc, Write(p) PROVE IInv'
<1> DEFINE r == [proc[p] EXCEPT !.pc = "rename", !.fd = "none"]
<1>1. proc[p].pc = "write" /\ proc[p] \in ProcState /\ TypeOK /\ Updating(p)
  BY Parts DEF Write, At, IInv, Updating
<1>2. r \in ProcState
  BY <1>1 DEF ProcState, PC
<1>3. /\ proc' \in [Proc -> ProcState]
      /\ proc'[p] = r
      /\ \A q \in Proc : q # p => proc'[q] = proc[q]
  BY <1>1, <1>2, Moves DEF Write
<1>4. PICK x \in Over(Opened(p), proc[p].entries) : Puts(p, x)
  BY DEF Write
<1>5. UNCHANGED <<osid, id, drawn, offered, disturbed>> /\ x \in {proc[p].entries, Corrupt}
      /\ proc[p].entries \in Entries
  BY <1>1, Parts DEF Write, history, machine, Over
<1>6. file' \in {file, x} /\ tmp' \in {tmp, x}
  BY <1>4 DEF Puts
<1>7. TypeOK'
  BY <1>1, <1>3, <1>5, <1>6 DEF TypeOK
<1>8. \A q \in Proc : q # p => Untouched(q)
  BY <1>3 DEF Untouched
<1>9. r.pc = "rename" /\ r.op = proc[p].op /\ r.key = proc[p].key /\ r.out = proc[p].out
      /\ r.secret = proc[p].secret /\ r.entries = proc[p].entries /\ r.pass = proc[p].pass
  BY <1>1 DEF ProcState
<1> USE DEF IInv
<1>10. Shape(p)'
  BY <1>1, <1>3, <1>5, <1>9 DEF Shape, Idle, Busy, Updating, Identifying
<1>11. \A q \in Proc : Shape(q)'
  BY <1>5, <1>8, <1>10, ShapeKept
<1>12. AllHonest'
  <2>1. Honest(x) /\ Honest(file) /\ Honest(tmp) /\ Honest(proc[p].entries)
    BY <1>5, Distinct DEF AllHonest, Honest
  <2>2. Honest(file)' /\ Honest(tmp)' /\ Honest(proc[p].entries)'
    BY <2>1, <1>3, <1>5, <1>6, <1>9 DEF Honest
  <2> QED
    BY <2>2, <1>5, <1>8, AllHonestKept
<1>13. ASSUME ~disturbed' PROVE Calm'
  <2>1. Calm /\ ~disturbed
    BY <1>5, <1>13
  <2>2. /\ \A q \in Proc : q # p => ~Updating(q)
        /\ proc[p].entries = Updated(p)
        /\ proc[p].pass = Passphrase /\ (osid \/ id # 0)
    BY <1>1, <2>1, Updater
  <2>3. file' = file /\ tmp' = proc[p].entries
    <3>1. proc[p].fd = "tmp" /\ tmp = Empty
      BY <2>1, <1>1 DEF Calm, Saving, At
    <3>2. x = proc[p].entries
      BY <3>1, <1>4 DEF Opened, Over
    <3> QED
      BY <3>1, <3>2, <1>4 DEF Puts
  <2>4. \A q \in Proc : (Updating(q)' => q = p) /\ (Identifying(q)' => Identifying(q))
    BY <2>2, <1>3, <1>9 DEF Updating, Identifying
  <2>5. OneAtATime' /\ FirstAlone' /\ Unidentified'
    BY <2>1, <2>4, <1>5 DEF Calm, OneAtATime, FirstAlone, Unidentified
  <2>6. ASSUME NEW q \in Proc PROVE Saving(q)'
    <3>1. CASE q = p
      <4>1. Updated(p)' = Updated(p)
        BY <1>3, <2>3, <1>9 DEF Updated
      <4> QED
        BY <3>1, <4>1, <2>2, <2>3, <1>3, <1>9 DEF Saving, At
    <3>2. CASE q # p
      BY <3>2, <2>4 DEF Saving, Updating, At
    <3> QED
      BY <3>1, <3>2
  <2>7. SamePassphrase'
    BY <2>1, <2>2, <1>3, <1>5, <1>9 DEF Calm, SamePassphrase, Passphrase
  <2>8. Legible' /\ NoneYet'
    BY <2>1, <2>3, <1>5 DEF Calm, Legible, NoneYet, Passphrase
  <2> QED
    BY <2>5, <2>6, <2>7, <2>8 DEF Calm
<1> QED
  BY <1>7, <1>11, <1>12, <1>13

LEMMA RenameInv == ASSUME IInv, NEW p \in Proc, Rename(p) PROVE IInv'
<1> DEFINE r == Answered(p, "ok")
<1>1. proc[p].pc = "rename" /\ proc[p] \in ProcState /\ TypeOK /\ Updating(p)
  BY Parts DEF Rename, At, IInv, Updating
<1>2. r \in ProcState
  BY <1>1 DEF Answered, ProcState, PC
<1>3. \A q \in Proc : Carried(proc[q]) \in ProcState
  <2> SUFFICES ASSUME NEW q \in Proc PROVE Carried(proc[q]) \in ProcState
    OBVIOUS
  <2>1. proc[q] \in ProcState
    BY <1>1, Parts
  <2> QED
    BY <2>1 DEF Carried, ProcState
<1>4. /\ proc' \in [Proc -> ProcState]
      /\ proc'[p] = r
      /\ \A q \in Proc : q # p => proc'[q] = Carried(proc[q])
  BY <1>2, <1>3 DEF Rename
<1>5. UNCHANGED <<osid, id, drawn, offered, disturbed>>
      /\ file' = tmp /\ tmp' = Absent /\ tmp # Absent
  BY DEF Rename, history, machine
<1>6. TypeOK'
  BY <1>1, <1>4, <1>5 DEF TypeOK
<1>7. \A q \in Proc : q # p => Untouched(q)
  <2> SUFFICES ASSUME NEW q \in Proc, q # p PROVE Untouched(q)
    OBVIOUS
  <2>1. proc[q] \in ProcState /\ proc'[q] = Carried(proc[q])
    BY <1>1, <1>4, Parts
  <2> QED
    BY <2>1 DEF Carried, Untouched, ProcState
<1>8. r.pc = "answered" /\ r.op = proc[p].op /\ r.key = proc[p].key /\ r.pass = proc[p].pass
      /\ r.secret = proc[p].secret /\ r.entries = proc[p].entries
  BY <1>1 DEF Answered, ProcState
<1> USE DEF IInv
<1>9. Shape(p)'
  BY <1>1, <1>4, <1>5, <1>8 DEF Shape, Idle, Busy, Updating, Identifying
<1>10. \A q \in Proc : Shape(q)'
  BY <1>5, <1>7, <1>9, ShapeKept
<1>11. AllHonest'
  <2>1. Honest(file)' /\ Honest(tmp)' /\ Honest(proc[p].entries)'
    BY <1>4, <1>5, <1>8, Distinct DEF AllHonest, Honest
  <2> QED
    BY <2>1, <1>5, <1>7, AllHonestKept
<1>12. ASSUME ~disturbed' PROVE Calm'
  <2>1. Calm /\ ~disturbed
    BY <1>5, <1>12
  <2>2. /\ \A q \in Proc : q # p => ~Updating(q)
        /\ proc[p].key \in Key /\ proc[p].op \in {"set", "delete"}
        /\ file # Corrupt /\ proc[p].entries = Updated(p)
        /\ proc[p].pass = Passphrase /\ (osid \/ id # 0)
    BY <1>1, <2>1, Updater
  <2>3. file' = Updated(p) /\ Updated(p) \in Entries
    BY <2>1, <2>2, <1>1, <1>5, UpdatedType DEF Calm, Saving, At
  <2>4. \A q \in Proc : ~Updating(q)' /\ (Identifying(q)' => Identifying(q))
    BY <2>2, <1>4, <1>7, <1>8 DEF Updating, Identifying, Untouched
  <2>5. OneAtATime' /\ FirstAlone' /\ Unidentified'
    BY <2>1, <2>4, <1>5 DEF Calm, OneAtATime, FirstAlone, Unidentified
  <2>6. \A q \in Proc : Saving(q)'
    BY <2>4 DEF Saving, Updating, At
  <2>7. SamePassphrase'
    BY <2>1, <2>2, <1>4, <1>5, <1>7, <1>8
       DEF Calm, SamePassphrase, Passphrase, Untouched
  <2>8. Legible'
    <3> SUFFICES ASSUME NEW k \in Key, Updated(p)[k] # None
                 PROVE  Updated(p)[k].pass = Passphrase
      BY <2>3, <1>5 DEF Legible, Passphrase
    <3>1. CASE k = proc[p].key
      <4>1. Updated(p)[k] = [secret |-> proc[p].secret, pass |-> proc[p].pass]
        BY <3>1, <2>2, UpdatedType
      <4> QED
        BY <4>1, <2>2
    <3>2. CASE k # proc[p].key
      BY <3>2, <2>1, <2>2, UpdatedType DEF Calm, Legible
    <3> QED
      BY <3>1, <3>2
  <2>9. NoneYet'
    BY <2>2, <1>5 DEF NoneYet
  <2> QED
    BY <2>5, <2>6, <2>7, <2>8, <2>9 DEF Calm
<1> QED
  BY <1>6, <1>10, <1>11, <1>12

LEMMA SaveFailsInv == ASSUME IInv, NEW p \in Proc, SaveFails(p) PROVE IInv'
<1> DEFINE r == [Answered(p, "error") EXCEPT !.fd = "none"]
<1>1. proc[p] \in ProcState /\ TypeOK /\ Updating(p)
  BY Parts DEF SaveFails, At, IInv, Updating
<1>2. r \in ProcState
  BY <1>1 DEF Answered, ProcState, PC
<1>3. /\ proc' \in [Proc -> ProcState]
      /\ proc'[p] = r
      /\ \A q \in Proc : q # p => proc'[q] = proc[q]
  BY <1>1, <1>2, Moves DEF SaveFails
<1>4. UNCHANGED <<osid, id, drawn, offered, disturbed>>
      /\ file' \in {file, Corrupt} /\ tmp' \in {tmp, Corrupt}
  <2>1. ASSUME NEW x \in {Opened(p), Corrupt}, Puts(p, x)
        PROVE  file' \in {file, Corrupt} /\ tmp' \in {tmp, Corrupt}
    BY <2>1 DEF Puts, Opened
  <2>2. file' \in {file, Corrupt} /\ tmp' \in {tmp, Corrupt}
    BY <2>1 DEF SaveFails, files
  <2> QED
    BY <2>2 DEF SaveFails, history, machine
<1>5. TypeOK'
  BY <1>1, <1>3, <1>4 DEF TypeOK
<1>6. \A q \in Proc : q # p => Untouched(q)
  BY <1>3 DEF Untouched
<1>7. r.pc = "answered" /\ r.op = proc[p].op /\ r.key = proc[p].key /\ r.pass = proc[p].pass
      /\ r.secret = proc[p].secret /\ r.entries = proc[p].entries
  BY <1>1 DEF Answered, ProcState
<1> USE DEF IInv
<1>8. Shape(p)'
  BY <1>1, <1>3, <1>4, <1>7 DEF Shape, Idle, Busy, Updating, Identifying
<1>9. \A q \in Proc : Shape(q)'
  BY <1>4, <1>6, <1>8, ShapeKept
<1>10. AllHonest'
  <2>1. Honest(file)' /\ Honest(tmp)' /\ Honest(proc[p].entries)'
    BY <1>3, <1>4, <1>7, Distinct DEF AllHonest, Honest
  <2> QED
    BY <2>1, <1>4, <1>6, AllHonestKept
<1>11. ASSUME ~disturbed' PROVE Calm'
  <2>1. Calm /\ ~disturbed
    BY <1>4, <1>11
  <2>2. proc[p].pass = Passphrase /\ (osid \/ id # 0)
    BY <1>1, <2>1, Updater
  <2>3. file' = file
    BY <2>1 DEF SaveFails, files, Puts, Calm, Saving
  <2>4. ~Updating(p)' /\ ~Identifying(p)' /\ proc'[p].pass = proc[p].pass
    BY <1>3, <1>7 DEF Updating, Identifying
  <2> QED
    BY <2>1, <2>2, <2>3, <2>4, <1>1, <1>3, <1>4, CalmKept
<1> QED
  BY <1>5, <1>9, <1>10, <1>11

----------------------------------------------------------------------------
(* Leaving. *)

LEMMA ReturnInv == ASSUME IInv, NEW p \in Proc, Return(p) PROVE IInv'
<1> DEFINE r == [Off EXCEPT !.pc = "ready", !.pass = proc[p].pass]
<1> USE DEF IInv
<1>1. proc[p].pc = "answered" /\ proc[p].pass \in Ids
  BY Parts DEF Return, At
<1>2. r \in ProcState
  BY <1>1, EmptyType DEF Off, ProcState, PC
<1>3. /\ proc' \in [Proc -> ProcState]
      /\ proc'[p] = r
      /\ \A q \in Proc : q # p => proc'[q] = proc[q]
  BY <1>2, Moves DEF Return
<1>4. UNCHANGED <<file, tmp, osid, id, drawn, offered, disturbed>>
  BY DEF Return, files, machine, history
<1>5. TypeOK'
  BY <1>3, <1>4 DEF TypeOK
<1>6. \A q \in Proc : q # p => Untouched(q)
  BY <1>3 DEF Untouched
<1>7. \A q \in Proc : Shape(q)'
  BY <1>3, <1>4, <1>6, IdleShape, ShapeKept
<1>8. AllHonest'
  BY <1>3, <1>4, <1>6, FilesKept DEF Off
<1>9. ASSUME ~disturbed PROVE Calm'
  <2>1. Calm
    BY <1>9
  <2>2. proc[p].pass = Passphrase /\ (osid \/ id # 0)
    BY <2>1, <1>1 DEF Calm, SamePassphrase, Idle
  <2>3. ~Updating(p)' /\ ~Identifying(p)' /\ proc'[p].pass = proc[p].pass
    BY <1>3 DEF Updating, Identifying, Off
  <2> QED
    BY <2>1, <2>2, <2>3, <1>3, <1>4, CalmKept
<1> QED
  BY <1>4, <1>5, <1>7, <1>8, <1>9

LEMMA ExitInv == ASSUME IInv, NEW p \in Proc, Exit(p) PROVE IInv'
<1> USE DEF IInv
<1>1. /\ proc' \in [Proc -> ProcState]
      /\ proc'[p] = Off
      /\ \A q \in Proc : q # p => proc'[q] = proc[q]
  BY EmptyType, Moves DEF Exit
<1>2. UNCHANGED <<file, tmp, osid, id, drawn, offered, disturbed>>
  BY DEF Exit, files, machine, history
<1>3. TypeOK'
  BY <1>1, <1>2 DEF TypeOK
<1>4. \A q \in Proc : q # p => Untouched(q)
  BY <1>1 DEF Untouched
<1>5. Shape(p)'
  BY <1>1 DEF Off, Shape, Job, NoJob, Idle, Busy, Updating, Identifying
<1>6. \A q \in Proc : Shape(q)'
  BY <1>2, <1>4, <1>5, ShapeKept
<1>7. AllHonest'
  BY <1>1, <1>2, <1>4, FilesKept DEF Off
<1>8. ASSUME ~disturbed PROVE Calm'
  <2>1. ~Updating(p)' /\ ~Identifying(p)' /\ proc'[p].pc \in Idle
    BY <1>1 DEF Updating, Identifying, Off, Idle
  <2> QED
    BY <2>1, <1>1, <1>2, <1>8, CalmKept
<1> QED
  BY <1>2, <1>3, <1>6, <1>7, <1>8

LEMMA InitInv == Init => IInv
<1> SUFFICES ASSUME Init PROVE IInv
  OBVIOUS
<1>1. TypeOK
  BY EmptyType DEF Init, TypeOK
<1>2. \A p \in Proc : Shape(p)
  BY DEF Init, Off, Shape, Job, NoJob, Idle, Busy, Updating, Identifying
<1>3. AllHonest
  BY Distinct DEF Init, AllHonest, Honest, Off, Empty
<1>4. \A p \in Proc : proc[p].pc = "off"
  BY DEF Init, Off
<1>5. Calm
  BY <1>4, EmptyType DEF Init, Calm, OneAtATime, FirstAlone, Unidentified, Saving, SamePassphrase,
     Legible, NoneYet, Updating, Identifying, At, Idle, Empty
<1> QED
  BY <1>1, <1>2, <1>3, <1>5 DEF IInv

LEMMA StutterInv == ASSUME IInv, UNCHANGED vars PROVE IInv'
BY DEF vars, IInv, TypeOK, Shape, Job, AllHonest, Honest, Calm, OneAtATime, FirstAlone,
       Unidentified, Saving, SamePassphrase, Legible, NoneYet, Updating, Identifying, At,
       Passphrase, Updated

LEMMA StepInv == IInv /\ [Next]_vars => IInv'
<1> SUFFICES ASSUME IInv, [Next]_vars PROVE IInv'
  OBVIOUS
<1>1. ASSUME NEW p \in Proc, Step(p) PROVE IInv'
  BY <1>1, StartInv, DrawInv, TruncateIdInv, WriteIdInv, IdNotWrittenInv, AskInv, LoadOnlyInv,
     LoadInv, OpenInv, WriteInv, RenameInv, SaveFailsInv, ReturnInv, ExitInv DEF Step
<1> QED
  BY <1>1, StutterInv DEF Next

LEMMA Invariance == Spec => []IInv
BY InitInv, StepInv, PTL DEF Spec

\* The store, the machine id and the processes are what file.go and machine.go take them for:
\* a store that can be parsed holds nothing but entries.
THEOREM TypeCorrect == Spec => []TypeOK
<1>1. IInv => TypeOK
  BY DEF IInv
<1> QED
  BY <1>1, Invariance, PTL

----------------------------------------------------------------------------
(* The store KeyStore sees. *)

Store == [k \in Key |-> Stored(k)]
Jobs == [p \in Proc |-> Job(p)]

\* Whatever happens, what is found under a key was set for it.
LEMMA StoredPossible ==
  ASSUME IInv, NEW k \in Key
  PROVE  /\ Stored(k) \in Secret \cup {None, Unreadable}
         /\ Stored(k) \in offered[k] \cup {None, Unreadable}
<1>1. CASE file = Corrupt
  BY <1>1 DEF Stored
<1>2. CASE file # Corrupt
  <2>1. file \in Entries /\ Honest(file)
    BY <1>2 DEF IInv, TypeOK, AllHonest
  <2>2. file[k] \in Entry \cup {None}
    BY <2>1 DEF Entries
  <2>3. file[k] # None => file[k].secret \in Secret /\ file[k].secret \in offered[k]
    BY <2>1, <2>2 DEF Honest, Entry
  <2> QED
    BY <1>2, <2>3 DEF Stored
<1> QED
  BY <1>1, <1>2

\* A step that changes no file changes nothing that is stored.
LEMMA StoreKept ==
  ASSUME UNCHANGED <<file, osid, id>>
  PROVE  Store' = Store
<1>1. \A k \in Key : Stored(k)' = Stored(k)
  BY DEF Stored, Passphrase
<1> QED
  BY <1>1 DEF Store

\* A step that leaves p's call as it is leaves all of them.
LEMMA JobsKept ==
  ASSUME NEW p \in Proc, \A q \in Proc : q # p => Untouched(q), Job(p)' = Job(p)
  PROVE  Jobs' = Jobs
<1>1. \A q \in Proc : Job(q)' = Job(q)
  BY DEF Untouched, Job
<1> QED
  BY <1>1 DEF Jobs

LEMMA JobChanges ==
  ASSUME NEW p \in Proc, \A q \in Proc : q # p => Untouched(q), NEW j, Job(p)' = j
  PROVE  Jobs' = [Jobs EXCEPT ![p] = j]
<1>1. \A q \in Proc : q # p => Job(q)' = Job(q)
  BY DEF Untouched, Job
<1> QED
  BY <1>1 DEF Jobs

\* An answer changes nothing else of a call.
LEMMA AnswerChanges ==
  ASSUME NEW p \in Proc, \A q \in Proc : q # p => Untouched(q), NEW o,
         proc'[p].op = proc[p].op, proc'[p].key = proc[p].key,
         proc'[p].secret = proc[p].secret, proc'[p].out = o
  PROVE  Jobs' = [Jobs EXCEPT ![p].out = o]
<1>1. Job(p)' = [Job(p) EXCEPT !.out = o]
  BY DEF Job
<1>2. Jobs' = [Jobs EXCEPT ![p] = [Job(p) EXCEPT !.out = o]]
  BY <1>1, JobChanges
<1> QED
  BY <1>2 DEF Jobs

\* Disturbed, a step may do anything that keeps keys apart.
LEMMA DisturbedStep ==
  ASSUME IInv, IInv', disturbed', offered' = offered,
         \/ Jobs' = Jobs
         \/ \E p \in Proc : /\ Jobs[p].out = "pending"
                            /\ \E o \in offered[Jobs[p].key] \cup {None, "ok", "error"} :
                                 Jobs' = [Jobs EXCEPT ![p].out = o]
  PROVE  Abstract!Interfere
<1>1. \A k \in Key : /\ Stored(k)' \in Secret \cup {None, Unreadable}
                     /\ Stored(k)' \in offered[k] \cup {None, Unreadable}
  <2> SUFFICES ASSUME NEW k \in Key
               PROVE  /\ Stored(k)' \in Secret \cup {None, Unreadable}
                      /\ Stored(k)' \in offered[k] \cup {None, Unreadable}
    OBVIOUS
  <2>1. (IInv => Stored(k) \in Secret \cup {None, Unreadable}
                 /\ Stored(k) \in offered[k] \cup {None, Unreadable})'
    BY StoredPossible, PTL
  <2> QED
    BY <2>1
<1> QED
  BY <1>1 DEF Abstract!Interfere, Abstract!Possible, Abstract!Answers, Abstract!Answered,
              Abstract!Pending, Jobs

\* A step that shows nothing, or shows that processes have disturbed each other.
LEMMA SilentStep ==
  ASSUME IInv, IInv', Jobs' = Jobs, offered' = offered,
         ~disturbed' => ~disturbed /\ Store' = Store
  PROVE  Abstract!Interfere \/ UNCHANGED <<Store, Jobs, offered, disturbed>>
<1>1. CASE disturbed'
  BY <1>1, DisturbedStep
<1>2. CASE ~disturbed'
  <2>1. disturbed' = disturbed
    BY <1>2 DEF IInv, TypeOK
  <2> QED
    BY <1>2, <2>1
<1> QED
  BY <1>1, <1>2

\* Where a step is silent, its process still has the call it had.
LEMMA SilentJobs ==
  ASSUME TypeOK, NEW p \in Proc,
         \/ (Start(p) \/ Draw(p)) /\ Shape(p)
         \/ TruncateId(p) \/ WriteId(p) \/ IdNotWritten(p) \/ Load(p) \/ Open(p) \/ Write(p)
  PROVE  Jobs' = Jobs
<1>1. proc[p] \in ProcState /\ p \in DOMAIN proc /\ proc \in [Proc -> ProcState]
  BY Parts DEF TypeOK
<1>2. ASSUME NEW r, Becomes(p, r), r.op = proc[p].op, r.key = proc[p].key,
             r.secret = proc[p].secret, r.out = proc[p].out
      PROVE  Jobs' = Jobs
  <2>1. proc'[p] = r /\ \A q \in Proc : q # p => proc'[q] = proc[q]
    BY <1>1, <1>2 DEF Becomes
  <2>2. Job(p)' = Job(p)
    BY <1>2, <2>1 DEF Job
  <2>3. \A q \in Proc : q # p => Untouched(q)
    BY <2>1 DEF Untouched
  <2> QED
    BY <2>2, <2>3, JobsKept
<1>3. CASE Start(p) /\ Shape(p)
  <2>1. Job(p) = NoJob
    BY <1>3 DEF Start, At, Shape, Idle
  <2> DEFINE r == [Off EXCEPT !.pc = "ready", !.pass = IF osid THEN 0 ELSE id]
  <2>2. r.op = proc[p].op /\ r.key = proc[p].key /\ r.secret = proc[p].secret
        /\ r.out = proc[p].out
    BY <2>1 DEF Off, Job, NoJob
  <2>3. Becomes(p, r)
    BY <1>3 DEF Start
  <2> QED
    BY <2>2, <2>3, <1>2
<1>4. CASE Draw(p) /\ Shape(p)
  <2>1. Job(p) = NoJob
    BY <1>4 DEF Draw, At, Shape, Idle
  <2> DEFINE r == [Off EXCEPT !.pc = "draw", !.pass = drawn + 1]
  <2>2. r.op = proc[p].op /\ r.key = proc[p].key /\ r.secret = proc[p].secret
        /\ r.out = proc[p].out
    BY <2>1 DEF Off, Job, NoJob
  <2>3. Becomes(p, r)
    BY <1>4 DEF Draw
  <2> QED
    BY <2>2, <2>3, <1>2
<1>5. ASSUME NEW l, Becomes(p, [proc[p] EXCEPT !.pc = l]) PROVE Jobs' = Jobs
  <2> DEFINE r == [proc[p] EXCEPT !.pc = l]
  <2>1. r.op = proc[p].op /\ r.key = proc[p].key /\ r.secret = proc[p].secret
        /\ r.out = proc[p].out
    BY <1>1 DEF ProcState
  <2> QED
    BY <2>1, <1>2, <1>5
<1>6. CASE TruncateId(p) \/ WriteId(p) \/ IdNotWritten(p)
  BY <1>5, <1>6 DEF TruncateId, WriteId, IdNotWritten
<1>7. CASE Load(p)
  <2> DEFINE r == [proc[p] EXCEPT !.pc = "open", !.entries = Updated(p)]
  <2>1. r.op = proc[p].op /\ r.key = proc[p].key /\ r.secret = proc[p].secret
        /\ r.out = proc[p].out
    BY <1>1 DEF ProcState
  <2> QED
    BY <2>1, <1>2, <1>7 DEF Load
<1>8. CASE Open(p)
  <2> DEFINE r == [proc[p] EXCEPT !.pc = "write", !.fd = "tmp"]
  <2>1. r.op = proc[p].op /\ r.key = proc[p].key /\ r.secret = proc[p].secret
        /\ r.out = proc[p].out
    BY <1>1 DEF ProcState
  <2> QED
    BY <2>1, <1>2, <1>8 DEF Open
<1>9. CASE Write(p)
  <2> DEFINE r == [proc[p] EXCEPT !.pc = "rename", !.fd = "none"]
  <2>1. r.op = proc[p].op /\ r.key = proc[p].key /\ r.secret = proc[p].secret
        /\ r.out = proc[p].out
    BY <1>1 DEF ProcState
  <2> QED
    BY <2>1, <1>2, <1>9 DEF Write
<1> QED
  BY <1>3, <1>4, <1>6, <1>7, <1>8, <1>9

\* Starting, and updating up to the rename, show nothing to a process that is alone.
LEMMA SilentSteps ==
  ASSUME IInv, IInv', NEW p \in Proc,
         \/ Start(p) \/ Draw(p) \/ TruncateId(p) \/ WriteId(p) \/ IdNotWritten(p)
         \/ Load(p) \/ Open(p) \/ Write(p)
  PROVE  Abstract!Interfere \/ UNCHANGED <<Store, Jobs, offered, disturbed>>
<1>1. Jobs' = Jobs
  BY SilentJobs DEF IInv
<1>2. offered' = offered
  BY DEF Start, Draw, TruncateId, WriteId, IdNotWritten, Load, Open, Write, history
<1>3. ASSUME ~disturbed' PROVE ~disturbed /\ Store' = Store
  <2>1. ~disturbed
    BY <1>3 DEF Start, Draw, TruncateId, WriteId, IdNotWritten, Load, Open, Write, history
  <2>2. CASE Start(p) \/ Draw(p) \/ IdNotWritten(p) \/ Load(p) \/ Open(p)
    <3>1. UNCHANGED <<file, osid, id>>
      BY <2>2 DEF Start, Draw, IdNotWritten, Load, Open, files, machine
    <3> QED
      BY <2>1, <3>1, StoreKept
  <2>3. CASE TruncateId(p) \/ WriteId(p)
    <3>1. Identifying(p)
      BY <2>3 DEF TruncateId, WriteId, At, Identifying
    <3>2. file = Empty
      BY <2>1, <3>1, AloneAndEmpty DEF IInv
    <3>3. file' = Empty
      BY <2>3, <3>2 DEF TruncateId, WriteId, files
    <3>4. \A k \in Key : Stored(k) = None /\ Stored(k)' = None
      BY <3>2, <3>3, EmptyType, Distinct DEF Stored, Empty
    <3> QED
      BY <2>1, <3>4 DEF Store
  <2>4. CASE Write(p)
    <3>1. proc[p].fd = "tmp"
      BY <2>1, <2>4 DEF IInv, Calm, Saving, Write, At
    <3>2. UNCHANGED <<file, osid, id>>
      BY <2>4, <3>1 DEF Write, Puts, machine
    <3> QED
      BY <2>1, <3>2, StoreKept
  <2> QED
    BY <2>2, <2>3, <2>4
<1> QED
  BY <1>1, <1>2, <1>3, SilentStep

LEMMA AskStep == ASSUME IInv, NEW p \in Proc, Ask(p) PROVE Abstract!Ask(p)
<1>1. proc[p].pc = "ready" /\ proc[p] \in ProcState /\ proc \in [Proc -> ProcState]
  BY Parts DEF Ask, At, IInv, TypeOK
<1>2. Jobs[p] = Abstract!NoJob
  BY <1>1 DEF Jobs, IInv, Shape, NoJob, Abstract!NoJob
<1>3. UNCHANGED <<file, osid, id, disturbed>>
  BY DEF Ask, files, machine
<1>4. Store' = Store
  BY <1>3, StoreKept
<1>5. ASSUME NEW o, NEW k, NEW s, Asked(p, o, k, s)
      PROVE  Jobs' = [Jobs EXCEPT ![p] = Abstract!Call(o, k, s)]
  <2> DEFINE r == [proc[p] EXCEPT !.pc = "load", !.op = o, !.key = k, !.secret = s,
                                  !.out = "pending"]
  <2>1. proc'[p] = r /\ \A q \in Proc : q # p => proc'[q] = proc[q]
    BY <1>1, <1>5 DEF Asked, Becomes
  <2>2. r.op = o /\ r.key = k /\ r.secret = s /\ r.out = "pending"
    BY <1>1 DEF ProcState
  <2>3. Job(p)' = Abstract!Call(o, k, s)
    BY <2>1, <2>2 DEF Job, Abstract!Call
  <2>4. \A q \in Proc : q # p => Untouched(q)
    BY <2>1 DEF Untouched
  <2> QED
    BY <2>3, <2>4, JobChanges
<1>6. PICK k \in Key :
        \/ \E o \in {"get", "delete"} : Asked(p, o, k, None) /\ UNCHANGED offered
        \/ \E s \in Secret : /\ Asked(p, "set", k, s)
                             /\ offered' = [offered EXCEPT ![k] = @ \cup {s}]
  BY DEF Ask
<1>7. CASE \E o \in {"get", "delete"} : Asked(p, o, k, None) /\ UNCHANGED offered
  <2>1. \E o \in {"get", "delete"} : Jobs' = [Jobs EXCEPT ![p] = Abstract!Call(o, k, None)]
    BY <1>5, <1>7
  <2> QED
    BY <2>1, <1>2, <1>3, <1>4, <1>7 DEF Abstract!Ask, Store, Jobs
<1>8. CASE \E s \in Secret : /\ Asked(p, "set", k, s)
                             /\ offered' = [offered EXCEPT ![k] = @ \cup {s}]
  <2>1. \E s \in Secret : /\ Jobs' = [Jobs EXCEPT ![p] = Abstract!Call("set", k, s)]
                          /\ offered' = [offered EXCEPT ![k] = @ \cup {s}]
    BY <1>5, <1>8
  <2> QED
    BY <2>1, <1>2, <1>3, <1>4 DEF Abstract!Ask, Store, Jobs
<1> QED
  BY <1>6, <1>7, <1>8

\* What a process reads or is told is what KeyStore lets it, or an error.
LEMMA AnswerStep ==
  ASSUME IInv, IInv', NEW p \in Proc, NEW o, UNCHANGED <<offered, disturbed>>,
         \A q \in Proc : q # p => Untouched(q), proc[p].pc \in Busy,
         proc'[p].op = proc[p].op, proc'[p].key = proc[p].key,
         proc'[p].secret = proc[p].secret, proc'[p].out = o,
         o \in offered[proc[p].key] \cup {None, "ok", "error"},
         ~disturbed =>
           \/ o = "error" /\ Store' = Store
           \/ proc[p].op = "get" /\ o = Stored(proc[p].key) /\ Store' = Store
           \/ /\ proc[p].op = "set" /\ o = "ok"
              /\ Store' = [Store EXCEPT ![proc[p].key] = proc[p].secret]
           \/ /\ proc[p].op = "delete" /\ o = "ok"
              /\ Store' = [Store EXCEPT ![proc[p].key] = None]
  PROVE  Abstract!Interfere \/ Abstract!Perform(p) \/ Abstract!Fail(p)
<1>1. proc[p].out = "pending" /\ proc[p].key \in Key
  BY DEF IInv, Shape
<1>2. /\ Jobs[p].out = "pending" /\ Jobs[p].key = proc[p].key
      /\ Jobs[p].op = proc[p].op /\ Jobs[p].secret = proc[p].secret
  BY <1>1 DEF Jobs, Job
<1>3. Jobs' = [Jobs EXCEPT ![p].out = o]
  BY AnswerChanges
<1>4. CASE disturbed
  BY <1>2, <1>3, <1>4, DisturbedStep
<1>5. CASE ~disturbed
  <2>1. Abstract!Pending(p) /\ Abstract!Answered(p, o)
    BY <1>2, <1>3 DEF Abstract!Pending, Abstract!Answered, Jobs
  <2>2. CASE o = "error" /\ Store' = Store
    BY <2>1, <2>2 DEF Abstract!Fail, Store
  <2>3. CASE proc[p].op = "get" /\ o = Stored(proc[p].key) /\ Store' = Store
    <3>1. o = Store[Jobs[p].key]
      BY <1>1, <1>2, <2>3 DEF Store
    <3> QED
      BY <1>2, <2>1, <2>3, <3>1 DEF Abstract!Perform, Abstract!Get, Store, Jobs
  <2>4. CASE /\ proc[p].op = "set" /\ o = "ok"
             /\ Store' = [Store EXCEPT ![proc[p].key] = proc[p].secret]
    BY <1>2, <2>1, <2>4 DEF Abstract!Perform, Abstract!Set, Store, Jobs
  <2>5. CASE /\ proc[p].op = "delete" /\ o = "ok"
             /\ Store' = [Store EXCEPT ![proc[p].key] = None]
    BY <1>2, <2>1, <2>5 DEF Abstract!Perform, Abstract!Delete, Store, Jobs
  <2> QED
    BY <1>5, <2>2, <2>3, <2>4, <2>5
<1> QED
  BY <1>4, <1>5

LEMMA LoadOnlyStep ==
  ASSUME IInv, IInv', NEW p \in Proc, LoadOnly(p)
  PROVE  Abstract!Interfere \/ Abstract!Perform(p) \/ Abstract!Fail(p)
<1>1. proc[p].pc = "load" /\ proc[p] \in ProcState /\ proc \in [Proc -> ProcState]
  BY Parts DEF LoadOnly, At, IInv, TypeOK
<1>2. UNCHANGED <<file, osid, id, offered, disturbed>> /\ proc[p].pc \in Busy
      /\ proc[p].key \in Key
  BY <1>1 DEF LoadOnly, files, machine, history, IInv, Shape, Busy
<1>3. Store' = Store
  BY <1>2, StoreKept
<1>4. ASSUME NEW o, Becomes(p, Answered(p, o))
      PROVE  /\ \A q \in Proc : q # p => Untouched(q)
             /\ proc'[p].op = proc[p].op /\ proc'[p].key = proc[p].key
             /\ proc'[p].secret = proc[p].secret /\ proc'[p].out = o
  <2>1. proc'[p] = Answered(p, o) /\ \A q \in Proc : q # p => proc'[q] = proc[q]
    BY <1>1, <1>4 DEF Becomes
  <2> QED
    BY <2>1, <1>1 DEF Untouched, Answered, ProcState
<1>5. CASE Becomes(p, Answered(p, "error"))
  BY <1>2, <1>3, <1>4, <1>5, AnswerStep
<1>6. CASE file # Corrupt /\ proc[p].op = "get" /\ Becomes(p, Answered(p, Decrypted(p)))
  <2>1. file \in Entries /\ Honest(file)
    BY <1>6 DEF IInv, TypeOK, AllHonest
  <2>2. Found(p) \in Entry \cup {None} /\ Found(p) = file[proc[p].key]
    BY <1>2, <2>1 DEF Found, Entries
  <2>3. Decrypted(p) \in offered[proc[p].key] \cup {None, "error"}
    BY <1>2, <2>1, <2>2 DEF Decrypted, Honest
  <2>4. ~disturbed => Decrypted(p) = Stored(proc[p].key)
    <3> SUFFICES ASSUME ~disturbed PROVE Decrypted(p) = Stored(proc[p].key)
      OBVIOUS
    <3>1. proc[p].pass = Passphrase
      BY <1>1 DEF IInv, Calm, SamePassphrase, Idle
    <3>2. Found(p) # None => Found(p).pass = Passphrase
      BY <1>2, <2>2 DEF IInv, Calm, Legible
    <3> QED
      BY <1>6, <2>2, <3>1, <3>2 DEF Decrypted, Stored
  <2> QED
    BY <1>2, <1>3, <1>4, <1>6, <2>3, <2>4, AnswerStep
<1>7. CASE file # Corrupt /\ proc[p].op = "delete" /\ Found(p) = None
           /\ Becomes(p, Answered(p, "ok"))
  <2>1. Stored(proc[p].key) = None
    BY <1>7 DEF Stored, Found
  <2>2. Store' = [Store EXCEPT ![proc[p].key] = None]
    BY <1>2, <1>3, <2>1 DEF Store
  <2> QED
    BY <1>2, <1>4, <1>7, <2>2, AnswerStep
<1> QED
  BY <1>5, <1>6, <1>7 DEF LoadOnly

LEMMA RenameStep ==
  ASSUME IInv, IInv', NEW p \in Proc, Rename(p)
  PROVE  Abstract!Interfere \/ Abstract!Perform(p) \/ Abstract!Fail(p)
<1>1. proc[p].pc = "rename" /\ proc[p] \in ProcState /\ TypeOK /\ Updating(p)
      /\ proc[p].pc \in Busy
  BY Parts DEF Rename, At, IInv, Updating, Busy
<1>2. UNCHANGED <<osid, id, offered, disturbed>> /\ file' = tmp
  BY DEF Rename, machine, history
<1>3. /\ proc'[p] = Answered(p, "ok")
      /\ \A q \in Proc : q # p => proc'[q] = Carried(proc[q])
  BY DEF Rename
<1>4. \A q \in Proc : q # p => Untouched(q)
  <2> SUFFICES ASSUME NEW q \in Proc, q # p PROVE Untouched(q)
    OBVIOUS
  <2>1. proc[q] \in ProcState /\ proc'[q] = Carried(proc[q])
    BY <1>1, <1>3, Parts
  <2> QED
    BY <2>1 DEF Carried, Untouched, ProcState
<1>5. proc'[p].op = proc[p].op /\ proc'[p].key = proc[p].key
      /\ proc'[p].secret = proc[p].secret /\ proc'[p].out = "ok"
  BY <1>1, <1>3 DEF Answered, ProcState
<1>6. ASSUME ~disturbed
      PROVE  \/ /\ proc[p].op = "set"
                /\ Store' = [Store EXCEPT ![proc[p].key] = proc[p].secret]
             \/ /\ proc[p].op = "delete"
                /\ Store' = [Store EXCEPT ![proc[p].key] = None]
  <2>1. /\ proc[p].key \in Key /\ proc[p].op \in {"set", "delete"}
        /\ file # Corrupt /\ proc[p].entries = Updated(p) /\ Updated(p) \in Entries
        /\ proc[p].pass = Passphrase
    BY <1>1, <1>6, Updater
  <2>2. file' = Updated(p)
    BY <1>1, <1>2, <1>6, <2>1 DEF IInv, Calm, Saving, At
  <2>3. Passphrase' = Passphrase /\ file' # Corrupt
    BY <1>2, <2>1, <2>2, Distinct DEF Passphrase
  <2>4. \A k \in Key : k # proc[p].key => Stored(k)' = Stored(k)
    BY <2>1, <2>2, <2>3, UpdatedType DEF Stored
  <2> DEFINE own == proc[p].key
             sec == proc[p].secret
  <2>5. CASE proc[p].op = "set"
    <3>1. file'[own] = [secret |-> sec, pass |-> proc[p].pass]
      BY <2>1, <2>2, <2>5, UpdatedType
    <3>2. file'[own] # None
      <4>1. sec \in Secret
        BY <2>5 DEF IInv, Shape
      <4>2. [secret |-> sec, pass |-> proc[p].pass] \in Entry
        BY <4>1, <1>1, Parts DEF Entry
      <4> QED
        BY <3>1, <4>2, Distinct
    <3>3. \A k \in Key : k = own => Stored(k)' = sec
      BY <2>1, <2>3, <3>1, <3>2 DEF Stored
    <3> QED
      BY <2>1, <2>4, <2>5, <3>3 DEF Store
  <2>6. CASE proc[p].op = "delete"
    <3>1. file'[own] = None
      BY <2>1, <2>2, <2>6, UpdatedType
    <3>2. \A k \in Key : k = own => Stored(k)' = None
      BY <2>3, <3>1 DEF Stored
    <3> QED
      BY <2>1, <2>4, <2>6, <3>2 DEF Store
  <2> QED
    BY <2>1, <2>5, <2>6
<1> QED
  BY <1>1, <1>2, <1>4, <1>5, <1>6, AnswerStep

LEMMA SaveFailsStep ==
  ASSUME IInv, IInv', NEW p \in Proc, SaveFails(p)
  PROVE  Abstract!Interfere \/ Abstract!Perform(p) \/ Abstract!Fail(p)
<1>1. proc[p] \in ProcState /\ proc \in [Proc -> ProcState] /\ proc[p].pc \in Busy
  BY Parts DEF SaveFails, At, IInv, TypeOK, Busy
<1>2. UNCHANGED <<osid, id, offered, disturbed>>
  BY DEF SaveFails, machine, history
<1>3. /\ proc'[p] = [Answered(p, "error") EXCEPT !.fd = "none"]
      /\ \A q \in Proc : q # p => proc'[q] = proc[q]
  BY <1>1 DEF SaveFails, Becomes
<1>4. \A q \in Proc : q # p => Untouched(q)
  BY <1>3 DEF Untouched
<1>5. proc'[p].op = proc[p].op /\ proc'[p].key = proc[p].key
      /\ proc'[p].secret = proc[p].secret /\ proc'[p].out = "error"
  BY <1>1, <1>3 DEF Answered, ProcState
<1>6. ~disturbed => Store' = Store
  <2> SUFFICES ASSUME ~disturbed PROVE Store' = Store
    OBVIOUS
  <2>1. file' = file
    BY DEF SaveFails, files, Puts, IInv, Calm, Saving
  <2> QED
    BY <1>2, <2>1, StoreKept
<1> QED
  BY <1>1, <1>2, <1>4, <1>5, <1>6, AnswerStep

LEMMA LeaveStep ==
  ASSUME IInv, NEW p \in Proc, Return(p) \/ Exit(p)
  PROVE  Abstract!Return(p)
<1>1. proc \in [Proc -> ProcState]
  BY DEF IInv, TypeOK
<1>2. UNCHANGED <<file, osid, id, offered, disturbed>>
  BY DEF Return, Exit, files, machine, history
<1>3. \A q \in Proc : q # p => proc'[q] = proc[q]
  BY <1>1 DEF Return, Exit, Becomes
<1>4. Job(p)' = Abstract!NoJob
  <2>1. proc'[p].op = "none" /\ proc'[p].key = None /\ proc'[p].secret = None
        /\ proc'[p].out = "none"
    <3>1. CASE Return(p)
      BY <1>1, <3>1 DEF Return, Becomes, Off
    <3>2. CASE Exit(p)
      BY <1>1, <3>2 DEF Exit, Becomes, Off
    <3> QED
      BY <3>1, <3>2
  <2> QED
    BY <2>1 DEF Job, Abstract!NoJob
<1>5. \A q \in Proc : q # p => Untouched(q)
  BY <1>3 DEF Untouched
<1>6. Jobs' = [Jobs EXCEPT ![p] = Abstract!NoJob] /\ Store' = Store
  BY <1>2, <1>4, <1>5, JobChanges, StoreKept
<1> QED
  BY <1>2, <1>6 DEF Abstract!Return, Store, Jobs

LEMMA PromiseInit == Init => Abstract!Init
<1> SUFFICES ASSUME Init PROVE Abstract!Init
  OBVIOUS
<1>1. \A k \in Key : Stored(k) = None
  BY EmptyType, Distinct DEF Init, Stored, Empty
<1>2. \A p \in Proc : Job(p) = Abstract!NoJob
  BY DEF Init, Off, Job, Abstract!NoJob
<1> QED
  BY <1>1, <1>2 DEF Init, Abstract!Init

LEMMA PromiseStep == IInv /\ IInv' /\ [Next]_vars => [Abstract!Next]_Abstract!vars
<1> SUFFICES ASSUME IInv, IInv', [Next]_vars PROVE [Abstract!Next]_Abstract!vars
  OBVIOUS
<1>1. ASSUME NEW p \in Proc, Step(p) PROVE [Abstract!Next]_Abstract!vars
  <2>1. CASE \/ Start(p) \/ Draw(p) \/ TruncateId(p) \/ WriteId(p) \/ IdNotWritten(p)
             \/ Load(p) \/ Open(p) \/ Write(p)
    BY <2>1, SilentSteps DEF Abstract!Next, Abstract!vars, Store, Jobs
  <2>2. CASE Ask(p)
    BY <2>2, AskStep DEF Abstract!Next
  <2>3. CASE LoadOnly(p) \/ Rename(p) \/ SaveFails(p)
    BY <2>3, LoadOnlyStep, RenameStep, SaveFailsStep DEF Abstract!Next
  <2>4. CASE Return(p) \/ Exit(p)
    BY <2>4, LeaveStep DEF Abstract!Next
  <2> QED
    BY <1>1, <2>1, <2>2, <2>3, <2>4 DEF Step
<1>2. CASE UNCHANGED vars
  <2>1. Store' = Store
    BY <1>2, StoreKept DEF vars
  <2>2. Jobs' = Jobs
    BY <1>2 DEF vars, Jobs, Job
  <2> QED
    BY <1>2, <2>1, <2>2 DEF vars, Abstract!vars, Store, Jobs
<1> QED
  BY <1>1, <1>2 DEF Next

\* The file store is a KeyStore: its calls are atomic and whole as long as no two updates and
\* no two first runs overlap, whoever is killed where; and never does a process get a secret
\* that was not set for the key it asked for.
THEOREM ImplementsKeyStore == Spec => KeepsPromise
BY Invariance, PromiseInit, PromiseStep, PTL DEF Spec, KeepsPromise, Abstract!Spec
==============================================================================
