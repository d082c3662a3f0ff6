----------------------------- MODULE CertCache -----------------------------
(***************************************************************************)
(* The certificate cache (internal/certcache) and the lifecycle manager    *)
(* that decides between reuse, renewal and issuance (internal/certs), as   *)
(* `mayfly ssh` and `mayfly cert issue | renew | remove | cache --prune`   *)
(* drive them.  One identity is modelled: its directory is named by a hash *)
(* of profile, provider, subject and server, and no step for one identity  *)
(* touches the directory of another.                                       *)
(*                                                                         *)
(* Several command-line processes share the directory without a lock.  A   *)
(* step is at most one system call that changes it, so that the processes  *)
(* interleave inside a save (create, write, chmod and rename of each of    *)
(* four files) and between the unlinks of a removal.  A file is abstracted *)
(* to the number of the issuance its bytes come from: the key pair         *)
(* generated for request n, the certificate the server signed for it and   *)
(* the metadata written for it are all "n".                                *)
(***************************************************************************)
EXTENDS Integers, Sequences

CONSTANTS Proc,        \* processes of the command line
          Commands,    \* Commands[p]: the commands p runs
          Threshold,   \* renew_threshold_seconds
          TTLs,        \* lifetimes the server grants
          Skews,       \* server clock minus local clock, at an issuance
          MaxTime,     \* bound: the local clock stops here
          MaxIssues    \* bound: certificates the server signs

\* ssh_no_cache: `mayfly ssh --no-cache`; remove_all: `mayfly cert remove --all`.
Cmd == {"ssh", "ssh_no_cache", "issue", "remove", "remove_all", "prune"}

ASSUME CertCacheAssumption == /\ Commands \in [Proc -> SUBSET Cmd]
                              /\ Threshold \in Int
                              /\ TTLs \subseteq Int
                              /\ Skews \subseteq Int
                              /\ MaxTime \in Nat
                              /\ MaxIssues \in Nat

VARIABLES now,         \* local wall clock
          grants,      \* grants[n]: validity period of certificate n
          dir,         \* does the identity's directory exist?
          disk,        \* disk[path]: issuance its bytes come from, or Absent, Empty, Torn
          fd,          \* fd[p]: where the file that p has open for writing is by now
          proc,        \* process-local state
          solo,        \* history: solo[p] iff nobody else wrote or unlinked since
                       \* p began to
          overlapped   \* history: two processes have been inside the directory
                       \* at once

vars == <<now, grants, dir, disk, fd, proc, solo, overlapped>>
files == <<dir, disk, fd>>
history == <<solo, overlapped>>

----------------------------------------------------------------------------
Slots == {"key", "pub", "cert", "meta"}
Path == Slots \X {"file", "tmp"}

File(s) == <<s, "file">>
Tmp(s) == <<s, "tmp">>

\* What a path holds when it does not hold the bytes of one issuance.
Absent == 0
Empty == -1   \* created or truncated, and not or only partly written yet
Torn == -2    \* the bytes of one issuance, and past their end those of another
Contents == -2 .. Len(grants)
Whole(c) == c > 0

\* No file is open, or the one that is has no name any more.
Nowhere == <<"none", "none">>

\* Mutants of After: the certificate is forgotten; the metadata goes before it.
AfterSkippingCert == [key |-> "pub", pub |-> "meta", cert |-> "meta", meta |-> "none"]
AfterMetaEarly == [key |-> "pub", pub |-> "meta", meta |-> "cert", cert |-> "none"]

\* Save writes the metadata last (key, public key, certificate, metadata).
After == [key |-> "pub", pub |-> "cert", cert |-> "meta", meta |-> "none"]

PC == {"idle", "lookup", "decide", "verify", "request", "save", "create", "write", "chmod",
       "discard", "rename", "list", "open", "unlink", "done"}

ProcState == [pc : PC, cmd : Cmd, action : {"none", "issue", "renew", "reuse"},
              began : -1 .. MaxTime, entry : 0 .. Len(grants), at : 0 .. MaxTime,
              seen : 0 .. Len(grants), checked : 0 .. MaxTime, slot : Slots,
              todo : SUBSET Path]

\* No command is running; began is the instant at which one that launches ssh did begin.
Idle == [pc |-> "idle", cmd |-> "ssh", action |-> "none", began |-> -1, entry |-> 0,
         at |-> 0, seen |-> 0, checked |-> 0, slot |-> "key", todo |-> {}]

At(p, l) == proc[p].pc = l
Becomes(p, r) == proc' = [proc EXCEPT ![p] = r]
SshCmd(c) == c \in {"ssh", "ssh_no_cache"}
Ssh(p) == SshCmd(proc[p].cmd)

\* Entry.Expired and Entry.Remaining, on the expiry the server granted.
Expired(n, t) == ~(t < grants[n].until)
Remaining(n, t) == grants[n].until - t

\* Inside the directory: between the first write or unlink and the last.
Touching(p) == proc[p].pc \in {"create", "write", "chmod", "discard", "rename", "unlink"}

BeginTouch(p) ==
  LET others == {q \in Proc \ {p} : Touching(q)}
  IN  /\ solo' = [q \in Proc |-> q = p /\ others = {}]
      /\ overlapped' = (overlapped \/ others # {})

----------------------------------------------------------------------------
Init == /\ now = 0
        /\ grants = <<>>
        /\ dir = FALSE
        /\ disk = [x \in Path |-> Absent]
        /\ fd = [p \in Proc |-> Nowhere]
        /\ proc = [p \in Proc |-> Idle]
        /\ solo = [p \in Proc |-> FALSE]
        /\ overlapped = FALSE

Tick == /\ now < MaxTime
        /\ now' = now + 1
        /\ UNCHANGED <<grants, files, proc, history>>

\* Mutant of Start: the clock reading of prune is one tick ahead.
StartAhead(p, c) ==
  /\ At(p, "idle")
  /\ Becomes(p, [Idle EXCEPT
       !.cmd = c,
       !.began = IF SshCmd(c) THEN now ELSE -1,
       !.at = now + 1,
       !.pc = IF SshCmd(c) THEN "lookup" ELSE "list"])
  /\ UNCHANGED <<now, grants, files, history>>

\* A command starts; prune passes time.Now() on, before it lists the cache.
Start(p, c) ==
  /\ At(p, "idle")
  /\ Becomes(p, [Idle EXCEPT
       !.cmd = c,
       !.began = IF SshCmd(c) THEN now ELSE -1,
       !.at = IF c = "prune" THEN now ELSE 0,
       !.pc = CASE SshCmd(c)    -> "lookup"
                [] c = "issue"  -> "request"
                [] c = "remove" -> "open"
                [] OTHER        -> "list"])
  /\ solo' = [solo EXCEPT ![p] = FALSE]
  /\ UNCHANGED <<now, grants, files, overlapped>>

\* Cache.Lookup reads meta.json and nothing else; without one a certificate is issued.
Lookup(p) ==
  /\ At(p, "lookup")
  /\ LET m == disk[File("meta")]
     IN  \/ /\ m = Absent
            /\ Becomes(p, [proc[p] EXCEPT !.action = "issue", !.pc = "request"])
         \/ /\ Whole(m)
            /\ Becomes(p, [proc[p] EXCEPT !.entry = m, !.pc = "decide"])
  /\ UNCHANGED <<now, grants, files, history>>

\* "cache metadata is corrupt": Lookup and List return the error, whatever is asked of them.
MetadataCorrupt(p) ==
  /\ At(p, "lookup") \/ At(p, "list")
  /\ disk[File("meta")] \in {Empty, Torn}
  /\ Becomes(p, Idle)
  /\ UNCHANGED <<now, grants, files, history>>

\* Mutant of Due: an entry with exactly the threshold left is not due.
DueLate(p, t) == \/ proc[p].cmd = "ssh_no_cache"
                 \/ Expired(proc[p].entry, t)
                 \/ Remaining(proc[p].entry, t) < Threshold

\* Is the entry that was looked up to be replaced without a further look?
Due(p, t) == \/ proc[p].cmd = "ssh_no_cache"
             \/ Expired(proc[p].entry, t)
             \/ Remaining(proc[p].entry, t) <= Threshold

Decide(p) ==
  /\ At(p, "decide")
  /\ \/ /\ Due(p, now)
        /\ Becomes(p, [proc[p] EXCEPT !.action = "renew", !.pc = "request"])
     \/ /\ ~Due(p, now)
        /\ Becomes(p, [proc[p] EXCEPT !.action = "reuse", !.pc = "verify", !.at = now])
  /\ UNCHANGED <<now, grants, files, history>>

\* Mutant of Verifies: the metadata alone is believed.
VerifiesEntryOnly(p, t) == ~Expired(proc[p].entry, t) /\ Whole(disk[File("cert")])

\* verify: the entry is unexpired, and the certificate file parses and is valid, at the
\* clock reading t.  The private key is not looked at.
Verifies(p, t) ==
  LET c == disk[File("cert")]
  IN  /\ ~Expired(proc[p].entry, t)
      /\ Whole(c)
      /\ ~(t < grants[c].from)
      /\ t < grants[c].until

\* The clock is read again for the verification: after the decision to reuse, or after the
\* last rename, and before the certificate file is.
VerifyOK(p) ==
  /\ At(p, "verify")
  /\ \E t \in proc[p].at .. now :
       /\ Verifies(p, t)
       /\ Becomes(p, [proc[p] EXCEPT !.seen = disk[File("cert")], !.checked = t,
                                     !.pc = "done"])
  /\ UNCHANGED <<now, grants, files, history>>

\* A cached entry that fails verification is renewed; a new one is an error.
VerifyFails(p) ==
  /\ At(p, "verify")
  /\ \E t \in proc[p].at .. now : ~Verifies(p, t)
  /\ Becomes(p, IF proc[p].action = "reuse"
                  THEN [proc[p] EXCEPT !.action = "renew", !.pc = "request"]
                  ELSE Idle)
  /\ UNCHANGED <<now, grants, files, history>>

\* A key pair is generated and the server signs a certificate for it.  Its clock need not
\* agree with the local one.
Request(p) ==
  /\ At(p, "request")
  /\ Len(grants) < MaxIssues
  /\ \E ttl \in TTLs, skew \in Skews :
       grants' = Append(grants, [from |-> now + skew, until |-> now + skew + ttl])
  /\ Becomes(p, [proc[p] EXCEPT !.entry = Len(grants) + 1, !.pc = "save"])
  /\ UNCHANGED <<now, files, history>>

----------------------------------------------------------------------------
\* Cache.Save: the directory, then four writeFileAtomic calls.
Save(p) ==
  /\ At(p, "save")
  /\ dir' = TRUE
  /\ Becomes(p, [proc[p] EXCEPT !.pc = "create", !.slot = "key"])
  /\ BeginTouch(p)
  /\ UNCHANGED <<now, grants, disk, fd>>

\* Mutant of Create: the file itself is opened, and no temporary one.
CreateInPlace(p) ==
  LET x == File(proc[p].slot)
  IN  /\ At(p, "create")
      /\ dir
      /\ disk' = [disk EXCEPT ![x] = Empty]
      /\ fd' = [fd EXCEPT ![p] = x]
      /\ Becomes(p, [proc[p] EXCEPT !.pc = "write"])
      /\ UNCHANGED <<now, grants, dir, history>>

\* os.WriteFile opens the temporary file, creating or truncating it.  Its name is shared by
\* every writer of the slot.
Create(p) ==
  LET x == Tmp(proc[p].slot)
  IN  /\ At(p, "create")
      /\ dir
      /\ disk' = [disk EXCEPT ![x] = Empty]
      /\ fd' = [fd EXCEPT ![p] = x]
      /\ Becomes(p, [proc[p] EXCEPT !.pc = "write"])
      /\ UNCHANGED <<now, grants, dir, history>>

\* The bytes go into the file that was opened, wherever somebody has renamed it to
\* meanwhile.  What another one wrote there is overwritten, but for a longer end of it.
Write(p) ==
  LET x == fd[p]
      e == proc[p].entry
  IN  /\ At(p, "write")
      /\ \/ x = Nowhere /\ UNCHANGED disk
         \/ x # Nowhere /\ disk' = [disk EXCEPT ![x] = e]
         \/ x # Nowhere /\ disk[x] # Empty /\ disk' = [disk EXCEPT ![x] = Torn]
      /\ fd' = [fd EXCEPT ![p] = Nowhere]
      /\ Becomes(p, [proc[p] EXCEPT !.pc = "chmod"])
      /\ UNCHANGED <<now, grants, dir, history>>

\* The write stops early (a full disk), and what it left stays where it is.
WriteStops(p) ==
  LET x == fd[p]
  IN  /\ At(p, "write")
      /\ x # Nowhere
      /\ disk' = [disk EXCEPT ![x] = IF @ = Empty THEN Empty ELSE Torn]
      /\ fd' = [fd EXCEPT ![p] = Nowhere]
      /\ Becomes(p, Idle)
      /\ UNCHANGED <<now, grants, dir, history>>

Chmod(p) ==
  /\ At(p, "chmod")
  /\ disk[Tmp(proc[p].slot)] # Absent
  /\ Becomes(p, [proc[p] EXCEPT !.pc = "rename"])
  /\ UNCHANGED <<now, grants, files, history>>

\* Somebody took the temporary file away, or the call failed for another reason ...
ChmodFails(p) ==
  /\ At(p, "chmod")
  /\ Becomes(p, [proc[p] EXCEPT !.pc = "discard"])
  /\ UNCHANGED <<now, grants, files, history>>

\* Whoever has the file open that path x named: where it is now.
Follow(x, y) == [q \in Proc |-> IF fd[q] = x THEN y ELSE fd[q]]

\* ... and what has the name now is unlinked before the error is returned.
Discard(p) ==
  LET x == Tmp(proc[p].slot)
  IN  /\ At(p, "discard")
      /\ disk' = [disk EXCEPT ![x] = Absent]
      /\ fd' = Follow(x, Nowhere)
      /\ Becomes(p, Idle)
      /\ UNCHANGED <<now, grants, dir, history>>

Rename(p) ==
  LET s == proc[p].slot
  IN  /\ At(p, "rename")
      /\ disk[Tmp(s)] # Absent
      /\ disk' = [disk EXCEPT ![File(s)] = disk[Tmp(s)], ![Tmp(s)] = Absent]
      /\ fd' = [q \in Proc |-> CASE fd[q] = Tmp(s)  -> File(s)
                                 [] fd[q] = File(s) -> Nowhere
                                 [] OTHER           -> fd[q]]
      /\ \/ /\ After[s] # "none"
            /\ Becomes(p, [proc[p] EXCEPT !.pc = "create", !.slot = After[s]])
         \/ /\ After[s] = "none"
            /\ Becomes(p, [proc[p] EXCEPT !.slot = "key", !.at = now,
                                          !.pc = IF Ssh(p) THEN "verify" ELSE "done"])
      /\ UNCHANGED <<now, grants, dir, history>>

\* The directory, or the temporary file, was taken away by somebody else.
StoreFails(p) ==
  /\ \/ At(p, "create") /\ ~dir
     \/ At(p, "rename") /\ disk[Tmp(proc[p].slot)] = Absent
  /\ Becomes(p, Idle)
  /\ UNCHANGED <<now, grants, files, history>>

----------------------------------------------------------------------------
\* List loads the entry of every directory; what has no metadata is not listed.
Selected(p) ==
  LET m == disk[File("meta")]
  IN  /\ m # Absent
      /\ proc[p].cmd = "prune" => Expired(m, proc[p].at)

List(p) ==
  /\ At(p, "list")
  /\ disk[File("meta")] \notin {Empty, Torn}
  /\ Becomes(p, [proc[p] EXCEPT !.pc = IF Selected(p) THEN "open" ELSE "done"])
  /\ UNCHANGED <<now, grants, files, history>>

\* os.RemoveAll reads the names in the directory once, then unlinks them in an order of
\* the file system's choosing, then removes the directory.
RemoveAll(p) ==
  /\ At(p, "open")
  /\ \/ /\ dir
        /\ Becomes(p, [proc[p] EXCEPT !.pc = "unlink",
                                      !.todo = {x \in Path : disk[x] # Absent}])
        /\ BeginTouch(p)
     \/ /\ ~dir
        /\ Becomes(p, [proc[p] EXCEPT !.pc = "done"])
        /\ UNCHANGED history
  /\ UNCHANGED <<now, grants, files>>

Unlink(p) ==
  /\ At(p, "unlink")
  /\ \E x \in proc[p].todo :
       /\ disk' = [disk EXCEPT ![x] = Absent]
       /\ fd' = Follow(x, Nowhere)
       /\ Becomes(p, [proc[p] EXCEPT !.todo = @ \ {x}])
  /\ UNCHANGED <<now, grants, dir, history>>

\* Mutant of Rmdir: the error of a removal that stopped early is swallowed.
RmdirSwallowingError(p) ==
  /\ At(p, "unlink")
  /\ Becomes(p, [proc[p] EXCEPT !.pc = "done", !.todo = {}])
  /\ UNCHANGED <<now, grants, files, history>>

\* The directory must be empty: what another process stored meanwhile makes it fail.
Rmdir(p) ==
  /\ At(p, "unlink")
  /\ proc[p].todo = {}
  /\ \/ /\ \A x \in Path : disk[x] = Absent
        /\ dir' = FALSE
        /\ Becomes(p, [proc[p] EXCEPT !.pc = "done"])
     \/ /\ \E x \in Path : disk[x] # Absent
        /\ Becomes(p, Idle)
        /\ UNCHANGED dir
  /\ UNCHANGED <<now, grants, disk, fd, history>>

----------------------------------------------------------------------------
\* The command is over: ssh has opened the files it was given, or a summary was printed.
Finish(p) ==
  /\ At(p, "done")
  /\ Becomes(p, Idle)
  /\ UNCHANGED <<now, grants, files, history>>

\* The process is killed, or a call fails (no network, refused request, full disk) and the
\* command returns the error: nothing further of it happens.
Abort(p) ==
  /\ proc[p].pc \notin {"idle", "done"}
  /\ Becomes(p, Idle)
  /\ fd' = [fd EXCEPT ![p] = Nowhere]
  /\ UNCHANGED <<now, grants, dir, disk, history>>

Step(p) == \/ \E c \in Commands[p] : Start(p, c)
           \/ Lookup(p) \/ MetadataCorrupt(p) \/ Decide(p) \/ VerifyOK(p) \/ VerifyFails(p)
           \/ Request(p) \/ Save(p) \/ Create(p) \/ Write(p) \/ WriteStops(p) \/ Chmod(p)
           \/ ChmodFails(p) \/ Discard(p) \/ Rename(p) \/ StoreFails(p)
           \/ List(p) \/ RemoveAll(p) \/ Unlink(p) \/ Rmdir(p)
           \/ Finish(p) \/ Abort(p)

Next == Tick \/ \E p \in Proc : Step(p)

Spec == Init /\ [][Next]_vars
----------------------------------------------------------------------------
(* Properties *)

TypeOK ==
  /\ now \in 0 .. MaxTime
  /\ grants \in Seq([from : Int, until : Int])
  /\ Len(grants) <= MaxIssues
  /\ dir \in BOOLEAN
  /\ disk \in [Path -> Contents]
  /\ fd \in [Proc -> Path \cup {Nowhere}]
  /\ proc \in [Proc -> ProcState]
  /\ solo \in [Proc -> BOOLEAN]
  /\ overlapped \in BOOLEAN

\* What p was asked to store has been stored.
Stored(p) == \/ proc[p].pc = "verify" /\ proc[p].action # "reuse"
             \/ /\ proc[p].pc = "done"
                /\ \/ proc[p].cmd = "issue"
                   \/ Ssh(p) /\ proc[p].action # "reuse"

\* A save that nobody else's write or removal overlapped leaves the key, the public key,
\* the certificate and the metadata of one issuance, whatever earlier commands that
\* crashed half-way had left there (certcache.go, Save).
SoloSaveIsWhole ==
  \A p \in Proc : solo[p] /\ Stored(p) => \A s \in Slots : disk[File(s)] = proc[p].entry

\* As long as no two commands have been inside the directory at once, the metadata and the
\* private key agree only if everything between them does: comparing the two would be
\* enough to recognise what an interrupted save or removal left (Save writes the key
\* first and the metadata last).
AgreementMeansWhole ==
  LET m == disk[File("meta")]
  IN  ~overlapped /\ m # Absent /\ disk[File("key")] = m =>
        \A s \in Slots : disk[File(s)] \in {Absent, m}

\* "writes are atomic (temp + rename)": as long as no two commands have been inside the
\* directory at once, no crash leaves a half-written file under its own name
\* (certcache.go, writeFileAtomic).
PublishedIsWhole ==
  ~overlapped => \A s \in Slots : disk[File(s)] \notin {Empty, Torn}

\* "Writes are atomic": when nobody is inside the directory any more, the metadata that
\* commands left there can be read (certcache.go, package comment).
MetadataReads ==
  (\A p \in Proc : ~Touching(p)) => disk[File("meta")] \notin {Empty, Torn}

\* Without such an overlap a removal that reports success leaves nothing behind, the
\* temporary files of crashed saves included (certcache.go, Remove).
SoloRemovalIsClean ==
  \A p \in Proc : solo[p] /\ At(p, "done") /\ proc[p].cmd \in {"remove", "remove_all", "prune"}
                    => ~dir /\ \A x \in Path : disk[x] = Absent

\* "reusing a cached certificate when it has more than RenewThreshold remaining": so long
\* as the certificate file is the one the metadata describes (certs.go, Ensure).
ReuseLeavesThreshold ==
  \A p \in Proc : /\ At(p, "done") /\ proc[p].action = "reuse"
                  /\ proc[p].seen = proc[p].entry
                  => Remaining(proc[p].seen, proc[p].at) > Threshold

\* What a command has been handed, as CertPromise sees it.
handed == [p \in Proc |-> IF At(p, "done") /\ Ssh(p)
                            THEN [cert |-> proc[p].seen, at |-> proc[p].checked]
                            ELSE [cert |-> 0, at |-> 0]]

\* No certificate is handed to OpenSSH but one that was valid at an instant of this very
\* command: the cache with its crashes and races implements the promise of internal/certs.
Promise == INSTANCE CertPromise WITH Proc <- Proc, now <- now, grants <- grants,
                                     began <- [p \in Proc |-> proc[p].began],
                                     handed <- handed
NeverHandsExpired == Promise!Spec

\* The key that ssh is given is the one its certificate was signed for.
LaunchPairMatches ==
  \A p \in Proc : At(p, "done") /\ Ssh(p) => disk[File("key")] = disk[File("cert")]

\* prune takes away only metadata that is expired when it goes.
PruneTakesOnlyExpired ==
  [][\A p \in Proc :
        /\ proc[p].cmd = "prune" /\ proc'[p].todo # proc[p].todo
        /\ Whole(disk[File("meta")]) /\ disk'[File("meta")] = Absent
        => Expired(disk[File("meta")], now)]_vars
=============================================================================
