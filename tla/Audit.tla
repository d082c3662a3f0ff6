------------------------------- MODULE Audit -------------------------------
(***************************************************************************)
(* The audit log seen through `mayfly audit`, `events` and `history`: one  *)
(* view, a view that is refreshed (--watch), or a live tail (--follow),    *)
(* while the log grows (cmd/ops.go).                                       *)
(*                                                                         *)
(* The server is outside this repository: an append-only log, entries      *)
(* numbered by position, read by pages.  A page of the stream is what      *)
(* matches after a position, oldest first, up to wherever the server cuts  *)
(* it; a page of the search is the newest that match; a page with entries  *)
(* names the last position in it (LastPosition, ops.go:186).  Answers may  *)
(* be late, so that the log has grown when a page is printed, or lost, so  *)
(* that the request is sent again.                                         *)
(***************************************************************************)
EXTENDS Integers, Sequences, FiniteSets

CONSTANTS Commands,   \* command lines that are given
          MaxOld,     \* bound: entries there are when the command is started
          MaxLog,     \* bound: entries the log grows to
          ServerLimit,\* entries of a search without a limit
          Retries,    \* times a request is sent again
          MaxFaults   \* bound: requests that go wrong

ASSUME AuditAssumption == /\ MaxOld \in Nat /\ MaxLog \in Nat
                          /\ MaxOld <= MaxLog /\ ServerLimit \in Nat \ {0}
                          /\ Retries \in Nat /\ MaxFaults \in Nat

\* A denied request is the one failure; results are derived from the type of an event.
EventTypes == {"certificate_issued", "certificate_denied", "ca_rotated"}
Results == [certificate_issued |-> "success", certificate_denied |-> "failure",
            ca_rotated |-> "success"]

\* The categories of `events` and the kinds of `history` with the types they stand for: a
\* prefix or one type.  "failures" is a result instead.
Preset == [none |-> EventTypes,
           certificate |-> {"certificate_issued", "certificate_denied"},
           ca |-> {"ca_rotated"},
           issuance |-> {"certificate_issued"},
           failures |-> EventTypes]

\* A command line: the preset of events or history, and the flags.  "any" is a flag not
\* given.
Command == [preset : DOMAIN Preset, type : EventTypes \cup {"any"},
            result : {"success", "failure", "any"}, limit : Nat, tail : Nat,
            follow : BOOLEAN, watch : BOOLEAN, structured : BOOLEAN]

ASSUME CommandsAssumption == Commands \subseteq Command

VARIABLES log,      \* types of the entries, by position
          cmd,      \* the command line
          run,      \* the command
          out,      \* pages on the terminal: all of a tail, the last of a view
          faults,
          old,      \* history: entries there were when the command was started,
          asked,    \*   when its last request was sent
          start     \*   and when the request that begins a tail was answered

vars == <<log, cmd, run, out, faults, old, asked, start>>
history == <<old, asked, start>>

----------------------------------------------------------------------------
Asking == {"seed", "poll", "view"}
Ended == {"done", "failed", "interrupted"}

Run == [pc : {"start", "sleep"} \cup Asking \cup Ended,
        last : 0 .. Len(log),              \* the cursor
        tries : 0 .. Retries,
        served : BOOLEAN,                  \* an answer is on its way:
        page : SUBSET (1 .. Len(log)),     \*   its entries,
        hi : 0 .. Len(log)]                \*   and the last position in it

At(l) == run.pc = l
Goes(l) == run' = [run EXCEPT !.pc = l]

\* A request is sent.
Asks(r, l) == /\ run' = [r EXCEPT !.pc = l, !.tries = 0, !.served = FALSE, !.page = {}, !.hi = 0]
              /\ asked' = Len(log)

\* Mutant of Wanted: a preset goes before the flag.
WantedPresetFirst(c) ==
  LET result == IF c.preset = "failures" THEN "failure" ELSE c.result
  IN  {t \in IF c.preset # "none" \/ c.type = "any" THEN Preset[c.preset] ELSE {c.type} :
         result \in {Results[t], "any"}}

\* The filter: a flag that is given goes before the preset.
Wanted(c) ==
  LET result == IF c.result = "any" /\ c.preset = "failures" THEN "failure" ELSE c.result
  IN  {t \in IF c.type = "any" THEN Preset[c.preset] ELSE {c.type} :
         result \in {Results[t], "any"}}

Hits(lo, hi) == {i \in lo + 1 .. hi : log[i] \in Wanted(cmd)}

Limit(c) == IF c.tail > 0 THEN c.tail ELSE IF c.limit > 0 THEN c.limit ELSE ServerLimit

Newest(n, hi) == {i \in Hits(0, hi) : Cardinality(Hits(i, hi)) < n}

----------------------------------------------------------------------------
Init == /\ log \in UNION {[1 .. n -> EventTypes] : n \in 0 .. MaxOld}
        /\ cmd \in Commands
        /\ run = [pc |-> "start", last |-> 0, tries |-> 0, served |-> FALSE, page |-> {},
                  hi |-> 0]
        /\ out = <<>>
        /\ faults = 0
        /\ old = Len(log) /\ asked = Len(log) /\ start = Len(log)

Grow == /\ Len(log) < MaxLog
        /\ \E t \in EventTypes : log' = Append(log, t)
        /\ UNCHANGED <<cmd, run, out, faults, history>>

\* The server answers.
ServeSeed ==
  /\ At("seed")
  /\ ~run.served
  /\ \/ /\ Hits(0, Len(log)) = {}
        /\ run' = [run EXCEPT !.served = TRUE]
     \/ \E n \in Hits(0, Len(log)) :
          /\ Hits(n, Len(log)) = {}
          /\ run' = [run EXCEPT !.served = TRUE, !.page = {n}, !.hi = n]
  /\ start' = Len(log)
  /\ UNCHANGED <<log, cmd, out, faults, old, asked>>

ServePoll ==
  /\ At("poll")
  /\ ~run.served
  /\ \/ /\ Hits(run.last, Len(log)) = {}
        /\ run' = [run EXCEPT !.served = TRUE]
     \/ \E n \in Hits(run.last, Len(log)) :
          run' = [run EXCEPT !.served = TRUE, !.page = Hits(run.last, n), !.hi = n]
  /\ UNCHANGED <<log, cmd, out, faults, history>>

ServeView ==
  /\ At("view")
  /\ ~run.served
  /\ run' = [run EXCEPT !.served = TRUE, !.page = Newest(Limit(cmd), Len(log))]
  /\ UNCHANGED <<log, cmd, out, faults, history>>

----------------------------------------------------------------------------
\* A tail cannot be structured: there is no end to the document.
Start ==
  /\ At("start")
  /\ \/ /\ cmd.follow /\ cmd.structured
        /\ Goes("failed")
        /\ UNCHANGED asked
     \/ cmd.follow /\ ~cmd.structured /\ Asks(run, "seed")
     \/ ~cmd.follow /\ Asks(run, "view")
  /\ UNCHANGED <<log, cmd, out, faults, old, start>>

\* Mutants of Cursor: it goes to the end of the log; it goes past the page.
CursorToEnd == Len(log)
CursorPastPage == IF run.page = {} THEN run.last ELSE run.hi + 1

\* The cursor follows the last position of a page, and stays where there is none.
Cursor == IF run.page = {} THEN run.last ELSE run.hi

\* Mutant of Seeded: the tail begins at the first entry.
SeededAtZero ==
  /\ At("seed")
  /\ run.served
  /\ Asks(run, "poll")
  /\ UNCHANGED <<log, cmd, out, faults, old, start>>

Seeded ==
  /\ At("seed")
  /\ run.served
  /\ Asks([run EXCEPT !.last = Cursor], "poll")
  /\ UNCHANGED <<log, cmd, out, faults, old, start>>

\* A page with entries is printed, an empty one is not.
Polled ==
  /\ At("poll")
  /\ run.served
  /\ out' = IF run.page = {} THEN out ELSE Append(out, run.page)
  /\ run' = [run EXCEPT !.pc = "sleep", !.last = Cursor]
  /\ UNCHANGED <<log, cmd, faults, history>>

\* A view is refreshed only as a table.
Viewed ==
  /\ At("view")
  /\ run.served
  /\ out' = <<run.page>>
  /\ Goes(IF cmd.watch /\ ~cmd.structured THEN "sleep" ELSE "done")
  /\ UNCHANGED <<log, cmd, faults, history>>

\* Mutant of Wake: the page is fetched once, and printed again and again.
WakeWithOldPage ==
  /\ At("sleep")
  /\ IF cmd.follow THEN Asks(run, "poll") ELSE Goes("view") /\ asked' = Len(log)
  /\ UNCHANGED <<log, cmd, out, faults, old, start>>

\* The interval is over.
Wake ==
  /\ At("sleep")
  /\ Asks(run, IF cmd.follow THEN "poll" ELSE "view")
  /\ UNCHANGED <<log, cmd, out, faults, old, start>>

\* The request or its answer is lost, or the server is not ready: it is sent again, as long
\* as there are tries left.  Anything else that goes wrong ends the command.
Wrong ==
  /\ run.pc \in Asking
  /\ faults < MaxFaults
  /\ faults' = faults + 1
  /\ \/ /\ run.tries < Retries
        /\ run' = [run EXCEPT !.tries = @ + 1, !.served = FALSE, !.page = {}, !.hi = 0]
     \/ Goes("failed")
  /\ UNCHANGED <<log, cmd, out, history>>

\* Ctrl-C.
Interrupt ==
  /\ run.pc \notin Ended
  /\ Goes("interrupted")
  /\ UNCHANGED <<log, cmd, out, faults, history>>

Serve == ServeSeed \/ ServePoll \/ ServeView
Proceed == Start \/ Seeded \/ Polled \/ Viewed \/ Wake

Next == Grow \/ Serve \/ Proceed \/ Wrong \/ Interrupt

\* The server answers and the command goes on; nobody has to append or to interrupt.
Spec == Init /\ [][Next]_vars /\ WF_vars(Serve) /\ WF_vars(Proceed)
----------------------------------------------------------------------------
(* Properties *)

TypeOK == /\ log \in Seq(EventTypes) /\ Len(log) <= MaxLog
          /\ cmd \in Commands
          /\ run \in Run
          /\ out \in Seq(SUBSET (1 .. Len(log)))
          /\ faults \in 0 .. MaxFaults
          /\ old \in 0 .. Len(log) /\ asked \in 0 .. Len(log) /\ start \in 0 .. Len(log)

Printed == UNION {out[k] : k \in DOMAIN out}

\* A tail prints every entry that matches, once and in the order of the log, from the end of
\* the log at its first request up to the cursor, whatever was appended, lost or asked again
\* in between (runAuditFollow).
FollowsExactly ==
  cmd.follow /\ run.pc \in {"poll", "sleep"} =>
    /\ Printed = Hits(start, run.last)
    /\ \A j, k \in DOMAIN out : j < k => \A x \in out[j], y \in out[k] : x < y

\* "It never replays history": a tail prints nothing that was there before it was started
\* (docs/audit.md, --follow).
NoReplay == cmd.follow => \A x \in Printed : x > old

\* A view is the newest entries that match, as many as --tail, or else --limit, asks for, as
\* they were at one moment since the last request was sent, not a mixture and not a view
\* from before (runAudit, runMaybeWatchOps).
ViewIsCurrent ==
  At("done") \/ (At("sleep") /\ cmd.watch /\ ~cmd.follow) =>
    \E n \in asked .. Len(log) :
      out = <<{i \in Hits(0, n) : Cardinality(Hits(i, n))
                                    < IF cmd.tail > 0 THEN cmd.tail ELSE
                                      IF cmd.limit > 0 THEN cmd.limit ELSE ServerLimit}>>

\* Preset and flags together: a flag that is given decides, and the preset of events and
\* history otherwise (runAudit, newHistoryCommand).
ShowsWhatWasAsked ==
  \A x \in Printed :
    /\ cmd.type # "any" => log[x] = cmd.type
    /\ cmd.result # "any" => Results[log[x]] = cmd.result
    /\ cmd.type = "any" /\ cmd.preset = "ca" => log[x] = "ca_rotated"
    /\ cmd.result = "any" /\ cmd.preset = "failures" => Results[log[x]] = "failure"

\* A live tail catches up: what is appended and matches is printed, unless the tail ends.
NewEntriesShown ==
  \A n \in 1 .. MaxLog :
    (cmd.follow /\ run.pc \in {"poll", "sleep"} /\ n \in Hits(start, Len(log)))
      ~> (n \in Printed \/ run.pc \in Ended)
=============================================================================
