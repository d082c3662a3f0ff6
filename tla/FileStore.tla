------------------------------ MODULE FileStore ------------------------------
(***************************************************************************)
(* The encrypted-file credential store (internal/credentials/file.go) and  *)
(* the machine id its default passphrase is made of (internal/machine).    *)
(*                                                                         *)
(* All credentials are one file.  Every Get reads the whole of it; every   *)
(* Set and Delete reads it, changes one entry, writes the whole to a       *)
(* temporary file whose name all processes share, and renames that.  The   *)
(* mutex of the store is of the process: nothing keeps two processes       *)
(* apart.  On a host without a machine id of its own, the first process    *)
(* that needs one draws it and writes it to another file.                  *)
(*                                                                         *)
(* A process is killed at any step.  An open file is an inode: a rename by *)
(* another process carries along the file that is still being written.     *)
(*                                                                         *)
(* The module implements KeyStore: exactly as long as no two updates, and  *)
(* no two first runs, overlap, and in its weaker form from then on.        *)
(***************************************************************************)
EXTENDS Integers

CONSTANTS Proc,        \* processes of the command line
          Key,         \* credential keys
          Secret,      \* secrets
          None,        \* no entry
          Unreadable,  \* an entry nobody can decrypt
          Corrupt,     \* file contents that are not JSON
          Absent,      \* there is no such file
          MaxIds       \* bound: machine ids drawn

ASSUME FileStoreAssumption ==
  /\ MaxIds \in Nat
  /\ {None, Unreadable, "ok", "error", "pending", "none"} \cap Secret = {}
  /\ None # Unreadable /\ None \notin {"ok", "error", "pending", "none"}
  /\ None \notin Key
  /\ None \notin [secret : Secret, pass : 0 .. MaxIds]
  /\ Corrupt # Absent
  /\ \A x \in {Corrupt, Absent} :
       x \notin [Key -> [secret : Secret, pass : 0 .. MaxIds] \cup {None}]

VARIABLES file,       \* credentials.json; a missing file counts as an empty one
          tmp,        \* credentials.json.tmp
          osid,       \* does the host have a machine id of its own?
          id,         \* the machine-id file; 0: there is none, or it is empty
          drawn,      \* ids drawn so far
          proc,       \* process-local state
          offered,    \* history: offered[k], the secrets Set was called with for k
          disturbed   \* history: have processes disturbed each other?

vars == <<file, tmp, osid, id, drawn, proc, offered, disturbed>>

----------------------------------------------------------------------------
Ids == 0 .. MaxIds

\* fileEntry: a secret, and the passphrase it is encrypted with.  The id of the host
\* itself is 0.
Entry == [secret : Secret, pass : Ids]
Entries == [Key -> Entry \cup {None}]

\* load takes an empty file for an empty store.
Empty == [k \in Key |-> None]

PC == {"off", "draw", "write_id", "ready", "load", "open", "write", "rename", "answered"}

ProcState == [pc : PC, pass : Ids, op : {"none", "get", "set", "delete"},
              key : Key \cup {None}, secret : Secret \cup {None}, entries : Entries,
              fd : {"none", "tmp", "file", "gone"},
              out : Secret \cup {None, "none", "pending", "ok", "error"}]

Off == [pc |-> "off", pass |-> 0, op |-> "none", key |-> None, secret |-> None,
        entries |-> Empty, fd |-> "none", out |-> "none"]

At(p, l) == proc[p].pc = l
Becomes(p, r) == proc' = [proc EXCEPT ![p] = r]

\* Between its load and its rename; between finding no machine id and having written one.
Updating(p) == proc[p].pc \in {"open", "write", "rename"}
Identifying(p) == proc[p].pc \in {"draw", "write_id"}

Others(p) == Proc \ {p}
files == <<file, tmp>>
machine == <<osid, id, drawn>>
history == <<offered, disturbed>>

Init == /\ file = Empty
        /\ tmp = Absent
        /\ osid \in BOOLEAN
        /\ id = 0
        /\ drawn = 0
        /\ proc = [p \in Proc |-> Off]
        /\ offered = [k \in Key |-> {}]
        /\ disturbed = FALSE

----------------------------------------------------------------------------
(* newFileStore: the passphrase. *)

\* machine.ID: the id of the host, or the one that is on file.
Start(p) ==
  /\ At(p, "off")
  /\ osid \/ id # 0
  /\ Becomes(p, [Off EXCEPT !.pc = "ready", !.pass = IF osid THEN 0 ELSE id])
  /\ UNCHANGED <<files, machine, history>>

\* persistedFallback: neither is there, or the one on file cannot be read this time, and a
\* random one is drawn.
Draw(p) ==
  /\ At(p, "off")
  /\ ~osid
  /\ drawn < MaxIds
  /\ drawn' = drawn + 1
  /\ Becomes(p, [Off EXCEPT !.pc = "draw", !.pass = drawn + 1])
  /\ disturbed' = (disturbed \/ id # 0 \/ \E q \in Others(p) : Identifying(q))
  /\ UNCHANGED <<files, osid, id, offered>>

\* os.WriteFile empties the file and writes the id.
TruncateId(p) ==
  /\ At(p, "draw")
  /\ id' = 0
  /\ Becomes(p, [proc[p] EXCEPT !.pc = "write_id"])
  /\ UNCHANGED <<files, osid, drawn, history>>

WriteId(p) ==
  /\ At(p, "write_id")
  /\ id' = proc[p].pass
  /\ Becomes(p, [proc[p] EXCEPT !.pc = "ready"])
  /\ UNCHANGED <<files, osid, drawn, history>>

\* The id cannot be written.  The error is ignored and the id used, by this process only.
IdNotWritten(p) ==
  /\ Identifying(p)
  /\ Becomes(p, [proc[p] EXCEPT !.pc = "ready"])
  /\ disturbed' = TRUE
  /\ UNCHANGED <<files, machine, offered>>

----------------------------------------------------------------------------
(* Get, Set and Delete. *)

Asked(p, o, k, s) ==
  Becomes(p, [proc[p] EXCEPT !.pc = "load", !.op = o, !.key = k, !.secret = s,
                             !.out = "pending"])

Ask(p) ==
  /\ At(p, "ready")
  /\ \E k \in Key :
       \/ \E o \in {"get", "delete"} : Asked(p, o, k, None) /\ UNCHANGED offered
       \/ \E s \in Secret : /\ Asked(p, "set", k, s)
                            /\ offered' = [offered EXCEPT ![k] = @ \cup {s}]
  /\ UNCHANGED <<files, machine, disturbed>>

Answered(p, o) == [proc[p] EXCEPT !.pc = "answered", !.out = o]

\* The entry under p's key; decrypt refuses one that was encrypted otherwise.
Found(p) == file[proc[p].key]
Decrypted(p) == IF Found(p) = None THEN None
                ELSE IF Found(p).pass = proc[p].pass THEN Found(p).secret
                ELSE "error"

\* load, for a call that changes nothing: Get, Delete of a key that is not there, and any
\* call when the store cannot be read, as when it is corrupt.
LoadOnly(p) ==
  /\ At(p, "load")
  /\ \/ Becomes(p, Answered(p, "error"))
     \/ /\ file # Corrupt /\ proc[p].op = "get"
        /\ Becomes(p, Answered(p, Decrypted(p)))
     \/ /\ file # Corrupt /\ proc[p].op = "delete" /\ Found(p) = None
        /\ Becomes(p, Answered(p, "ok"))
  /\ UNCHANGED <<files, machine, history>>

\* The entries p is going to save.
Updated(p) ==
  [file EXCEPT ![proc[p].key] =
     IF proc[p].op = "set" THEN [secret |-> proc[p].secret, pass |-> proc[p].pass] ELSE None]

\* load, for Set, and for Delete of a key that is there.
Load(p) ==
  /\ At(p, "load")
  /\ file # Corrupt
  /\ proc[p].op = "set" \/ (proc[p].op = "delete" /\ Found(p) # None)
  /\ Becomes(p, [proc[p] EXCEPT !.pc = "open", !.entries = Updated(p)])
  /\ disturbed' = (disturbed \/ \E q \in Others(p) : Updating(q))
  /\ UNCHANGED <<files, machine, offered>>

\* Mutant of Open: the store is written in place.
OpenInPlace(p) ==
  /\ At(p, "open")
  /\ file' = Empty
  /\ Becomes(p, [proc[p] EXCEPT !.pc = "write", !.fd = "file"])
  /\ UNCHANGED <<tmp, machine, history>>

\* save: os.WriteFile creates the temporary file, or empties the one that is there.
Open(p) ==
  /\ At(p, "open")
  /\ tmp' = Empty
  /\ Becomes(p, [proc[p] EXCEPT !.pc = "write", !.fd = "tmp"])
  /\ UNCHANGED <<file, machine, history>>

\* What a file holds once new has been written over it from its start: unless it was
\* empty, some of it may stick out behind.
Over(old, new) == IF old = Empty THEN {new} ELSE {new, Corrupt}

\* Content x is put in the inode p has open.
Puts(p, x) ==
  /\ file' = IF proc[p].fd = "file" THEN x ELSE file
  /\ tmp' = IF proc[p].fd = "tmp" THEN x ELSE tmp

Opened(p) == IF proc[p].fd = "file" THEN file ELSE tmp

Write(p) ==
  /\ At(p, "write")
  /\ \E x \in Over(Opened(p), proc[p].entries) : Puts(p, x)
  /\ Becomes(p, [proc[p] EXCEPT !.pc = "rename", !.fd = "none"])
  /\ UNCHANGED <<machine, history>>

\* Files that are open go where the rename takes them.
Carried(r) == [r EXCEPT !.fd = CASE @ = "tmp" -> "file" [] @ = "file" -> "gone" [] OTHER -> @]

\* Mutant of Rename: it is not noticed that there is nothing to rename.
RenameUnchecked(p) ==
  /\ At(p, "rename")
  /\ file' = tmp
  /\ tmp' = Absent
  /\ proc' = [q \in Proc |-> IF q = p THEN Answered(p, "ok") ELSE Carried(proc[q])]
  /\ UNCHANGED <<machine, history>>

Rename(p) ==
  /\ At(p, "rename")
  /\ tmp # Absent
  /\ file' = tmp
  /\ tmp' = Absent
  /\ proc' = [q \in Proc |-> IF q = p THEN Answered(p, "ok") ELSE Carried(proc[q])]
  /\ UNCHANGED <<machine, history>>

\* The temporary file cannot be opened; or nothing, or not all, be written to it; or it
\* cannot be renamed, for one because it has gone.
SaveFails(p) ==
  /\ \/ At(p, "open") /\ UNCHANGED files
     \/ At(p, "write") /\ \E x \in {Opened(p), Corrupt} : Puts(p, x)
     \/ At(p, "rename") /\ UNCHANGED files
  /\ Becomes(p, [Answered(p, "error") EXCEPT !.fd = "none"])
  /\ UNCHANGED <<machine, history>>

\* The caller has its answer.
Return(p) ==
  /\ At(p, "answered")
  /\ Becomes(p, [Off EXCEPT !.pc = "ready", !.pass = proc[p].pass])
  /\ UNCHANGED <<files, machine, history>>

\* The process ends, or is killed.
Exit(p) ==
  /\ ~At(p, "off")
  /\ Becomes(p, Off)
  /\ UNCHANGED <<files, machine, history>>

Step(p) == \/ Start(p) \/ Draw(p) \/ TruncateId(p) \/ WriteId(p) \/ IdNotWritten(p)
           \/ Ask(p) \/ LoadOnly(p) \/ Load(p)
           \/ Open(p) \/ Write(p) \/ Rename(p) \/ SaveFails(p)
           \/ Return(p) \/ Exit(p)

Next == \E p \in Proc : Step(p)

Spec == Init /\ [][Next]_vars

----------------------------------------------------------------------------
(* Properties *)

TypeOK == /\ file \in Entries \cup {Corrupt}
          /\ tmp \in Entries \cup {Corrupt, Absent}
          /\ osid \in BOOLEAN
          /\ id \in Ids
          /\ drawn \in Ids
          /\ proc \in [Proc -> ProcState]
          /\ offered \in [Key -> SUBSET Secret]
          /\ disturbed \in BOOLEAN

\* What the next process to start would get for a key.
Passphrase == IF osid THEN 0 ELSE id
Stored(k) == IF file = Corrupt THEN Unreadable
             ELSE IF file[k] = None THEN None
             ELSE IF file[k].pass = Passphrase THEN file[k].secret
             ELSE Unreadable

Job(p) == [op |-> proc[p].op, key |-> proc[p].key, secret |-> proc[p].secret,
           out |-> proc[p].out]

Abstract == INSTANCE KeyStore WITH Client    <- Proc,
                                   store     <- [k \in Key |-> Stored(k)],
                                   job       <- [p \in Proc |-> Job(p)],
                                   offered   <- offered,
                                   disturbed <- disturbed

\* The file is a store of independent keys whose calls are atomic, wherever processes are
\* killed and whatever they leave half-written, as long as no two updates and no two first
\* runs overlap; after that it may lose or bring back entries, but never hands out a secret
\* that was not set for the key (store.go, "Implementations must be safe for use by a
\* single CLI process; concurrency across processes is the backend's concern").
KeepsPromise == Abstract!Spec
=============================================================================
