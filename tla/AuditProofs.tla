---------------------------- MODULE AuditProofs ----------------------------
(***************************************************************************)
(* Theorems about Audit, for any command lines, any number of entries and  *)
(* any number of lost answers.                                             *)
(***************************************************************************)
EXTENDS Audit, TLAPS

\* What an answer that is on its way says, and the cursor it is an answer to.
Answered ==
  /\ ~At("view")
  /\ ~run.served => run.page = {}
  /\ run.pc \in {"start", "seed"} => run.last = 0
  /\ At("seed") /\ run.served =>
       \/ run.page = {} /\ Hits(0, start) = {}
       \/ run.page # {} /\ run.hi <= start /\ Hits(run.hi, start) = {}
  /\ At("poll") /\ run.served =>
       \/ run.page = {}
       \/ run.hi > run.last /\ run.page = Hits(run.last, run.hi)

\* Nothing that matches lies between the cursor and the place where the tail began.
NoGap == run.pc \in {"poll", "sleep"} => Hits(run.last, start) = {}

\* What a tail has printed, before it prints as well as after it has ended.
TailPrinted ==
  /\ old <= start
  /\ run.pc \in {"start", "seed"} => out = <<>>
  /\ \A x \in Printed : x > start
  /\ run.pc \in {"poll", "sleep"} => Printed = Hits(start, run.last)
  /\ \A j, k \in DOMAIN out : j < k => \A x \in out[j], y \in out[k] : x < y

TailInv == TypeOK /\ (cmd.follow => Answered /\ NoGap /\ TailPrinted)

----------------------------------------------------------------------------
(* The shape of the state. *)

\* Types used step by step.
LEMMA TypeFacts ==
  ASSUME TypeOK
  PROVE  /\ Len(log) \in Nat /\ log \in Seq(EventTypes)
         /\ run \in Run /\ out \in Seq(SUBSET (1 .. Len(log)))
         /\ MaxFaults \in Nat /\ Retries \in Nat /\ MaxLog \in Nat
BY AuditAssumption DEF TypeOK

\* A sequence over a set is one over a larger set.
LEMMA WiderSeq ==
  ASSUME NEW S, NEW T, S \subseteq T, NEW s \in Seq(S)
  PROVE  s \in Seq(T)
<1>1. Len(s) \in Nat /\ DOMAIN s = 1 .. Len(s) /\ \A n \in 1 .. Len(s) : s[n] \in S
  OBVIOUS
<1>2. s \in [1 .. Len(s) -> T]
  BY <1>1
<1> QED
  BY <1>1, <1>2

LEMMA GrowType == TypeOK /\ Grow => TypeOK'
<1> SUFFICES ASSUME TypeOK, Grow PROVE TypeOK'
  OBVIOUS
<1>1. PICK t \in EventTypes : log' = Append(log, t)
  BY DEF Grow
<1>2. log' \in Seq(EventTypes) /\ Len(log') = Len(log) + 1 /\ Len(log) \in Nat
  BY <1>1, TypeFacts
<1>3. Len(log') <= MaxLog
  BY <1>2, TypeFacts DEF Grow
<1>4. 1 .. Len(log) \subseteq 1 .. Len(log') /\ 0 .. Len(log) \subseteq 0 .. Len(log')
  BY <1>2
<1>5. run' \in Run'
  BY <1>4, TypeFacts DEF Run, Grow
<1>6. out' \in Seq(SUBSET (1 .. Len(log')))
  <2>1. SUBSET (1 .. Len(log)) \subseteq SUBSET (1 .. Len(log'))
    BY <1>4
  <2> QED
    BY <2>1, TypeFacts, WiderSeq DEF Grow
<1> QED
  BY <1>2, <1>3, <1>4, <1>5, <1>6 DEF TypeOK, Grow, history

\* Every step but Grow leaves the log alone: the types are those of the command.
LEMMA CommandType ==
  ASSUME TypeOK, log' = log, cmd' = cmd, run' \in Run,
         out' \in Seq(SUBSET (1 .. Len(log))), faults' \in 0 .. MaxFaults,
         old' = old, asked' \in {asked, Len(log)}, start' \in {start, Len(log)}
  PROVE  TypeOK'
<1>1. Run' = Run
  BY DEF Run
<1>2. Len(log) \in 0 .. Len(log)
  BY TypeFacts
<1> QED
  BY <1>1, <1>2 DEF TypeOK

LEMMA HitsType ==
  ASSUME TypeOK, NEW lo \in Nat, NEW hi \in 0 .. Len(log)
  PROVE  Hits(lo, hi) \subseteq 1 .. Len(log)
BY TypeFacts DEF Hits

LEMMA NewestType == TypeOK => Newest(Limit(cmd), Len(log)) \subseteq 1 .. Len(log)
BY HitsType, TypeFacts DEF Newest

LEMMA AsksType ==
  ASSUME TypeOK, NEW r \in Run, NEW l \in Asking, Asks(r, l)
  PROVE  run' \in Run /\ asked' = Len(log)
<1>1. 0 \in 0 .. Retries /\ 0 \in 0 .. Len(log) /\ {} \in SUBSET (1 .. Len(log))
  BY TypeFacts
<1>2. l \in {"start", "sleep"} \cup Asking \cup Ended
  OBVIOUS
<1>3. [r EXCEPT !.pc = l, !.tries = 0, !.served = FALSE, !.page = {}, !.hi = 0] \in Run
  BY <1>1, <1>2 DEF Run
<1> QED
  BY <1>3 DEF Asks

LEMMA TypeStep == TypeOK /\ [Next]_vars => TypeOK'
<1> SUFFICES ASSUME TypeOK, [Next]_vars PROVE TypeOK'
  OBVIOUS
<1>a. /\ run \in Run /\ out \in Seq(SUBSET (1 .. Len(log))) /\ Len(log) \in Nat
      /\ faults \in 0 .. MaxFaults
  BY TypeFacts DEF TypeOK
<1>b. run.hi \in 0 .. Len(log) /\ run.last \in 0 .. Len(log) /\ run.page \subseteq 1 .. Len(log)
  BY <1>a DEF Run
<1>c. Cursor \in 0 .. Len(log)
  BY <1>b DEF Cursor
<1>1. CASE Grow
  BY <1>1, GrowType
<1>2. CASE ServeSeed
  <2>1. Hits(0, Len(log)) \subseteq 1 .. Len(log)
    BY <1>a, HitsType
  <2>2. run' \in Run
    <3>1. CASE run' = [run EXCEPT !.served = TRUE]
      BY <1>a, <3>1 DEF Run
    <3>2. ASSUME NEW n \in Hits(0, Len(log)),
                 run' = [run EXCEPT !.served = TRUE, !.page = {n}, !.hi = n]
          PROVE  run' \in Run
      <4>1. n \in 0 .. Len(log) /\ {n} \in SUBSET (1 .. Len(log))
        BY <2>1
      <4> QED
        BY <1>a, <3>2, <4>1 DEF Run
    <3> QED
      BY <1>2, <3>1, <3>2 DEF ServeSeed
  <2> QED
    BY <1>2, <1>a, <2>2, CommandType DEF ServeSeed
<1>3. CASE ServePoll
  <2>1. Hits(run.last, Len(log)) \subseteq 1 .. Len(log)
    BY <1>a, <1>b, HitsType
  <2>2. \A n \in 1 .. Len(log) : Hits(run.last, n) \subseteq 1 .. Len(log)
    BY <1>a, <1>b, HitsType
  <2>3. run' \in Run
    <3>1. CASE run' = [run EXCEPT !.served = TRUE]
      BY <1>a, <3>1 DEF Run
    <3>2. ASSUME NEW n \in Hits(run.last, Len(log)),
                 run' = [run EXCEPT !.served = TRUE, !.page = Hits(run.last, n), !.hi = n]
          PROVE  run' \in Run
      <4>1. n \in 0 .. Len(log) /\ Hits(run.last, n) \in SUBSET (1 .. Len(log))
        BY <2>1, <2>2
      <4> QED
        BY <1>a, <3>2, <4>1 DEF Run
    <3> QED
      BY <1>3, <3>1, <3>2 DEF ServePoll
  <2> QED
    BY <1>3, <1>a, <2>3, CommandType DEF ServePoll, history
<1>4. CASE ServeView
  <2>1. run' \in Run
    BY <1>4, <1>a, NewestType DEF ServeView, Run
  <2> QED
    BY <1>4, <1>a, <2>1, CommandType DEF ServeView, history
<1>5. CASE Start
  <2>1. run' \in Run /\ asked' \in {asked, Len(log)}
    <3>1. CASE Goes("failed") /\ UNCHANGED asked
      BY <1>a, <3>1 DEF Goes, Run, Ended
    <3>2. CASE Asks(run, "seed") \/ Asks(run, "view")
      BY <1>a, <3>2, AsksType DEF Asking
    <3> QED
      BY <1>5, <3>1, <3>2 DEF Start
  <2> QED
    BY <1>5, <1>a, <2>1, CommandType DEF Start
<1>6. CASE Seeded
  <2>1. [run EXCEPT !.last = Cursor] \in Run
    BY <1>a, <1>c DEF Run
  <2>2. run' \in Run /\ asked' = Len(log)
    BY <1>6, <2>1, AsksType DEF Seeded, Asking
  <2> QED
    BY <1>6, <1>a, <2>2, CommandType DEF Seeded
<1>7. CASE Polled
  <2>1. run' \in Run
    BY <1>7, <1>a, <1>c DEF Polled, Run
  <2>2. out' \in Seq(SUBSET (1 .. Len(log)))
    BY <1>7, <1>a, <1>b DEF Polled
  <2> QED
    BY <1>7, <1>a, <2>1, <2>2, CommandType DEF Polled, history
<1>8. CASE Viewed
  <2>1. run' \in Run
    BY <1>8, <1>a DEF Viewed, Goes, Run, Ended
  <2>2. out' \in Seq(SUBSET (1 .. Len(log)))
    BY <1>8, <1>b DEF Viewed
  <2> QED
    BY <1>8, <1>a, <2>1, <2>2, CommandType DEF Viewed, history
<1>9. CASE Wake
  <2>1. run' \in Run /\ asked' = Len(log)
    BY <1>9, <1>a, AsksType DEF Wake, Asking
  <2> QED
    BY <1>9, <1>a, <2>1, CommandType DEF Wake
<1>10. CASE Wrong
  <2>1. run' \in Run
    <3>1. CASE Goes("failed")
      BY <1>a, <3>1 DEF Goes, Run, Ended
    <3>2. ASSUME run.tries < Retries,
                 run' = [run EXCEPT !.tries = @ + 1, !.served = FALSE, !.page = {}, !.hi = 0]
          PROVE  run' \in Run
      <4>1. run.tries + 1 \in 0 .. Retries /\ {} \in SUBSET (1 .. Len(log))
        BY <1>a, <3>2, TypeFacts DEF Run
      <4>2. 0 \in 0 .. Len(log)
        BY <1>a
      <4> QED
        BY <1>a, <3>2, <4>1, <4>2 DEF Run
    <3> QED
      BY <1>10, <3>1, <3>2 DEF Wrong
  <2>2. faults' \in 0 .. MaxFaults
    BY <1>10, <1>a, TypeFacts DEF Wrong
  <2> QED
    BY <1>10, <1>a, <2>1, <2>2, CommandType DEF Wrong, history
<1>11. CASE Interrupt
  <2>1. run' \in Run
    BY <1>11, <1>a DEF Interrupt, Goes, Run, Ended
  <2> QED
    BY <1>11, <1>a, <2>1, CommandType DEF Interrupt, history
<1>12. CASE UNCHANGED vars
  BY <1>12 DEF vars, history, TypeOK, Run
<1> QED
  BY <1>1, <1>2, <1>3, <1>4, <1>5, <1>6, <1>7, <1>8, <1>9, <1>10, <1>11, <1>12
  DEF Next, Serve, Proceed

LEMMA TypeInit == Init => TypeOK
<1> SUFFICES ASSUME Init PROVE TypeOK
  OBVIOUS
<1>1. PICK n \in 0 .. MaxOld : log \in [1 .. n -> EventTypes]
  BY DEF Init
<1>2. n \in Nat /\ n <= MaxLog
  BY <1>1, AuditAssumption
<1>3. log \in Seq(EventTypes) /\ Len(log) = n
  BY <1>1, <1>2
<1>4. run \in Run
  BY <1>2, <1>3, AuditAssumption DEF Init, Run
<1>5. out \in Seq(SUBSET (1 .. Len(log)))
  BY DEF Init
<1> QED
  BY <1>2, <1>3, <1>4, <1>5, AuditAssumption DEF Init, TypeOK

\* Types: cursor and pages stay within the log (cmd/ops.go).
THEOREM TypeCorrect == Spec => []TypeOK
BY TypeInit, TypeStep, PTL DEF Spec
----------------------------------------------------------------------------
(* What a tail prints. *)

LEMMA HitsGrow ==
  ASSUME TypeOK, Grow, NEW lo \in Nat, NEW hi \in 0 .. Len(log)
  PROVE  {i \in lo + 1 .. hi : log'[i] \in Wanted(cmd')} = Hits(lo, hi)
<1>1. PICK t \in EventTypes : log' = Append(log, t)
  BY DEF Grow
<1>2. \A i \in 1 .. Len(log) : log'[i] = log[i]
  BY <1>1, TypeFacts
<1>3. lo + 1 .. hi \subseteq 1 .. Len(log)
  BY TypeFacts
<1> QED
  BY <1>2, <1>3 DEF Hits, Grow

\* A tail that goes on where it was finds what begins at its start.
LEMMA HitsContinue ==
  ASSUME NEW lo \in Nat, NEW mid \in Nat, NEW hi \in Nat, mid <= hi, Hits(mid, lo) = {}
  PROVE  Hits(lo, hi) = Hits(lo, mid) \cup Hits(mid, hi)
<1>1. ASSUME NEW x \in Hits(mid, hi) PROVE x \in Hits(lo, hi)
  <2>1. x \in mid + 1 .. hi /\ log[x] \in Wanted(cmd) /\ x \notin mid + 1 .. lo
    BY <1>1 DEF Hits
  <2> QED
    BY <2>1 DEF Hits
<1>2. ASSUME NEW x \in Hits(lo, mid) PROVE x \in Hits(lo, hi)
  BY <1>2 DEF Hits
<1>3. ASSUME NEW x \in Hits(lo, hi) PROVE x \in Hits(lo, mid) \cup Hits(mid, hi)
  BY <1>3 DEF Hits
<1> QED
  BY <1>1, <1>2, <1>3

LEMMA HitsShrink ==
  ASSUME NEW lo \in Nat, NEW lo2 \in Nat, NEW hi \in Nat, lo <= lo2, Hits(lo, hi) = {}
  PROVE  Hits(lo2, hi) = {}
<1> SUFFICES ASSUME NEW x \in Hits(lo2, hi) PROVE FALSE
  OBVIOUS
<1>1. x \in Hits(lo, hi)
  BY DEF Hits
<1> QED
  BY <1>1

\* A step that touches neither log nor screen and keeps the cursor needs to be looked at only
\* for where it leads.
LEMMA TailStays ==
  ASSUME TypeOK, TailPrinted, NoGap,
         UNCHANGED <<log, cmd, out, old, start>>, run'.last = run.last,
         run'.pc \in {"start", "seed"} => run.pc \in {"start", "seed"},
         run'.pc \in {"poll", "sleep"} => run.pc \in {"poll", "sleep"}
  PROVE  (TailPrinted /\ NoGap)'
BY DEF TailPrinted, NoGap, Printed, Hits

LEMMA PrintedAppend ==
  ASSUME TypeOK, out' = Append(out, run.page)
  PROVE  /\ Printed' = Printed \cup run.page
         /\ DOMAIN out' = 1 .. Len(out) + 1 /\ DOMAIN out = 1 .. Len(out) /\ Len(out) \in Nat
         /\ out'[Len(out) + 1] = run.page
         /\ \A k \in 1 .. Len(out) : out'[k] = out[k]
<1>1. /\ DOMAIN out' = 1 .. Len(out) + 1 /\ DOMAIN out = 1 .. Len(out) /\ Len(out) \in Nat
      /\ out'[Len(out) + 1] = run.page
      /\ \A k \in 1 .. Len(out) : out'[k] = out[k]
  BY TypeFacts
<1>2. \A x : x \in Printed' <=> x \in Printed \/ x \in run.page
  <2>1. ASSUME NEW x, x \in Printed' PROVE x \in Printed \/ x \in run.page
    <3>1. PICK k \in 1 .. Len(out) + 1 : x \in out'[k]
      BY <1>1, <2>1 DEF Printed
    <3>2. CASE k = Len(out) + 1
      BY <1>1, <3>1, <3>2
    <3>3. CASE k \in 1 .. Len(out)
      BY <1>1, <3>1, <3>3 DEF Printed
    <3> QED
      BY <1>1, <3>2, <3>3
  <2>2. ASSUME NEW x, x \in Printed PROVE x \in Printed'
    <3>1. PICK k \in 1 .. Len(out) : x \in out[k]
      BY <1>1, <2>2 DEF Printed
    <3>2. k \in DOMAIN out' /\ x \in out'[k]
      BY <1>1, <3>1
    <3> QED
      BY <3>2 DEF Printed
  <2>3. ASSUME NEW x, x \in run.page PROVE x \in Printed'
    <3>1. Len(out) + 1 \in DOMAIN out'
      BY <1>1
    <3> QED
      BY <1>1, <2>3, <3>1 DEF Printed
  <2> QED
    BY <2>1, <2>2, <2>3
<1> QED
  BY <1>1, <1>2

LEMMA TailPolled ==
  ASSUME TypeOK, Answered, NoGap, TailPrinted, Polled
  PROVE  (Answered /\ NoGap /\ TailPrinted)'
<1>a. /\ run \in Run /\ Len(log) \in Nat /\ start \in Nat /\ old \in Nat
      /\ run.last \in Nat /\ run.hi \in Nat
  BY TypeFacts DEF TypeOK, Run
<1>b. run.pc = "poll" /\ run.served
  BY DEF Polled, At
<1>c. UNCHANGED <<log, cmd, old, start>>
  BY DEF Polled, history
<1>d. run'.pc = "sleep" /\ run'.last = Cursor /\ run'.served = run.served
  BY <1>a DEF Polled, Run
<1>e. Answered'
  BY <1>b, <1>d DEF Answered, At
<1>f. \A lo, hi : Hits(lo, hi) = {i \in lo + 1 .. hi : log'[i] \in Wanted(cmd')}
  BY <1>c DEF Hits
<1>1. CASE run.page = {}
  <2>1. Cursor = run.last /\ out' = out
    BY <1>1 DEF Cursor, Polled
  <2> QED
    BY <1>b, <1>c, <1>d, <1>e, <2>1, TailStays
<1>2. CASE run.page # {}
  <2>1. Cursor = run.hi /\ out' = Append(out, run.page)
    BY <1>2 DEF Cursor, Polled
  <2>2. run.hi > run.last /\ run.page = Hits(run.last, run.hi) /\ Hits(run.last, start) = {}
    BY <1>2, <1>b DEF Answered, NoGap, At
  <2>3. Printed = Hits(start, run.last)
    BY <1>b DEF TailPrinted
  <2>4. Hits(start, run.hi) = Printed \cup run.page
    BY <1>a, <2>2, <2>3, HitsContinue
  <2>5. Hits(run.hi, start) = {}
    BY <1>a, <2>2, HitsShrink
  <2>6. NoGap'
    BY <1>c, <1>d, <1>f, <2>1, <2>5 DEF NoGap, Hits
  <2>7. Printed' = Hits(start, run.hi)
    BY <2>1, <2>4, PrintedAppend
  <2>8. Printed' = Hits(start, run.last)'
    BY <1>c, <1>d, <2>1, <2>7 DEF Hits
  <2>9. \A x \in Printed' : x > start
    BY <1>a, <2>7 DEF Hits
  <2>10. ASSUME NEW j \in DOMAIN out', NEW k \in DOMAIN out', j < k,
                NEW x \in out'[j], NEW y \in out'[k]
         PROVE  x < y
    <3>1. j \in 1 .. Len(out)
      BY <2>1, <2>10, PrintedAppend
    <3>2. x \in out[j]
      BY <2>1, <2>10, <3>1, PrintedAppend
    <3>3. CASE k \in 1 .. Len(out)
      <4>1. y \in out[k] /\ j \in DOMAIN out /\ k \in DOMAIN out
        BY <2>1, <2>10, <3>1, <3>3, PrintedAppend
      <4> QED
        BY <2>10, <3>2, <4>1 DEF TailPrinted
    <3>4. CASE k = Len(out) + 1
      <4>1. y \in Hits(run.last, run.hi)
        BY <2>1, <2>2, <2>10, <3>4, PrintedAppend
      <4>2. x \in Hits(start, run.last)
        <5>1. j \in DOMAIN out
          BY <2>1, <3>1, PrintedAppend
        <5> QED
          BY <2>3, <3>2, <5>1 DEF Printed
      <4> QED
        BY <1>a, <4>1, <4>2 DEF Hits
    <3> QED
      BY <2>1, <3>3, <3>4, PrintedAppend
  <2>11. TailPrinted'
    BY <1>c, <1>d, <2>8, <2>9, <2>10 DEF TailPrinted
  <2> QED
    BY <1>e, <2>6, <2>11
<1> QED
  BY <1>1, <1>2

LEMMA TailSeeded ==
  ASSUME TypeOK, Answered, TailPrinted, Seeded
  PROVE  (Answered /\ NoGap /\ TailPrinted)'
<1>a. run \in Run /\ run.hi \in Nat /\ start \in Nat
  BY TypeFacts DEF TypeOK, Run
<1>b. run.pc = "seed" /\ run.served /\ run.last = 0 /\ out = <<>>
  BY DEF Seeded, At, Answered, TailPrinted
<1>c. UNCHANGED <<log, cmd, out, old, start>>
  BY DEF Seeded
<1>d. run'.pc = "poll" /\ run'.served = FALSE /\ run'.page = {} /\ run'.last = Cursor
  BY <1>a DEF Seeded, Asks, Run
<1>1. Hits(Cursor, start) = {}
  BY <1>b DEF Answered, Cursor, At
<1>2. Cursor \in Nat
  BY <1>a, <1>b DEF Cursor
<1>3. Hits(start, Cursor) = {}
  <2>1. Cursor <= start
    <3>1. CASE run.page = {}
      BY <1>a, <1>b, <3>1 DEF Cursor
    <3>2. CASE run.page # {}
      BY <1>b, <3>2 DEF Cursor, Answered, At
    <3> QED
      BY <3>1, <3>2
  <2> QED
    BY <1>a, <1>2, <2>1 DEF Hits
<1>4. Printed = {} /\ Printed' = {}
  BY <1>b, <1>c DEF Printed
<1>5. Answered'
  BY <1>d DEF Answered, At
<1>6. NoGap'
  BY <1>1, <1>c, <1>d DEF NoGap, Hits
<1>7. TailPrinted'
  BY <1>3, <1>4, <1>b, <1>c, <1>d DEF TailPrinted, Hits
<1> QED
  BY <1>5, <1>6, <1>7

LEMMA TailServed ==
  ASSUME TypeOK, Answered, NoGap, TailPrinted, Serve
  PROVE  (Answered /\ NoGap /\ TailPrinted)'
<1>a. run \in Run /\ Len(log) \in Nat /\ start \in 0 .. Len(log) /\ old \in 0 .. Len(log)
      /\ run.last \in Nat
  BY TypeFacts DEF TypeOK, Run
<1>b. UNCHANGED <<log, cmd, out, old>> /\ run'.pc = run.pc /\ run'.last = run.last
      /\ run'.served = TRUE
  BY <1>a DEF Serve, ServeSeed, ServePoll, ServeView, history, Run
<1>c. run.page = {}
  BY DEF Serve, ServeSeed, ServePoll, ServeView, Answered
<1>1. CASE ServeSeed
  <2>1. run.pc = "seed" /\ start' = Len(log) /\ run.last = 0 /\ out = <<>>
    BY <1>1 DEF ServeSeed, At, Answered, TailPrinted
  <2>2. Answered'
    <3>1. \/ run'.page = {} /\ Hits(0, Len(log)) = {}
          \/ run'.page # {} /\ run'.hi <= Len(log) /\ Hits(run'.hi, Len(log)) = {}
      <4>1. CASE Hits(0, Len(log)) = {} /\ run' = [run EXCEPT !.served = TRUE]
        <5>1. run'.page = run.page /\ run'.hi = run.hi
          BY <1>a, <4>1 DEF Run
        <5> QED
          BY <1>a, <4>1, <5>1, <1>c
      <4>2. ASSUME NEW n \in Hits(0, Len(log)), Hits(n, Len(log)) = {},
                   run' = [run EXCEPT !.served = TRUE, !.page = {n}, !.hi = n]
            PROVE  run'.page # {} /\ run'.hi <= Len(log) /\ Hits(run'.hi, Len(log)) = {}
        <5>1. run'.page = {n} /\ run'.hi = n /\ n <= Len(log)
          BY <1>a, <4>2 DEF Run, Hits
        <5> QED
          BY <4>2, <5>1
      <4> QED
        BY <1>1, <4>1, <4>2 DEF ServeSeed
    <3> QED
      BY <1>b, <2>1, <3>1 DEF Answered, At, Hits
  <2>3. NoGap'
    BY <1>b, <2>1 DEF NoGap
  <2>4. TailPrinted'
    BY <1>a, <1>b, <2>1 DEF TailPrinted, Printed
  <2> QED
    BY <2>2, <2>3, <2>4
<1>2. CASE ServePoll
  <2>1. run.pc = "poll" /\ start' = start
    BY <1>2 DEF ServePoll, At, history
  <2>2. \/ run'.page = {}
        \/ run'.hi > run.last /\ run'.page = Hits(run.last, run'.hi)
    <3>1. CASE run' = [run EXCEPT !.served = TRUE]
      <4>1. run'.page = run.page
        BY <1>a, <3>1 DEF Run
      <4> QED
        BY <1>2, <1>c, <4>1
    <3>2. ASSUME NEW n \in Hits(run.last, Len(log)),
                 run' = [run EXCEPT !.served = TRUE, !.page = Hits(run.last, n), !.hi = n]
          PROVE  run'.hi > run.last /\ run'.page = Hits(run.last, run'.hi)
      <4>1. run'.page = Hits(run.last, n) /\ run'.hi = n /\ n > run.last
        BY <1>a, <3>2 DEF Run, Hits
      <4> QED
        BY <4>1
    <3> QED
      BY <1>2, <3>1, <3>2 DEF ServePoll
  <2>3. Answered'
    BY <1>b, <2>1, <2>2 DEF Answered, At, Hits
  <2> QED
    BY <1>b, <2>1, <2>3, TailStays
<1>3. CASE ServeView
  BY <1>3 DEF ServeView, Answered
<1> QED
  BY <1>1, <1>2, <1>3 DEF Serve

LEMMA TailGrows ==
  ASSUME TypeOK, Answered, NoGap, TailPrinted, Grow
  PROVE  (Answered /\ NoGap /\ TailPrinted)'
<1>a. /\ run \in Run /\ start \in 0 .. Len(log) /\ run.last \in 0 .. Len(log)
      /\ run.hi \in 0 .. Len(log) /\ 0 \in 0 .. Len(log) /\ Len(log) \in Nat
  BY TypeFacts DEF TypeOK, Run
<1>b. UNCHANGED <<cmd, run, out, old, start>>
  BY DEF Grow, history
<1>1. \A lo \in Nat, hi \in 0 .. Len(log) :
        {i \in lo + 1 .. hi : log'[i] \in Wanted(cmd')} = Hits(lo, hi)
  BY HitsGrow
<1>2. /\ Hits(0, start)' = Hits(0, start)
      /\ Hits(run.hi, start)' = Hits(run.hi, start)
      /\ Hits(run.last, run.hi)' = Hits(run.last, run.hi)
      /\ Hits(run.last, start)' = Hits(run.last, start)
      /\ Hits(start, run.last)' = Hits(start, run.last)
  <2>1. start \in Nat /\ run.last \in Nat /\ run.hi \in Nat
    BY <1>a
  <2> QED
    BY <1>1, <1>a, <1>b, <2>1 DEF Hits
<1>3. Answered' /\ NoGap'
  BY <1>2, <1>b DEF Answered, NoGap, At
<1>4. TailPrinted'
  BY <1>2, <1>b DEF TailPrinted, Printed
<1> QED
  BY <1>3, <1>4

LEMMA TailInit == Init => TailInv
<1> SUFFICES ASSUME Init PROVE TailInv
  OBVIOUS
<1>1. TypeOK
  BY TypeInit
<1>2. Printed = {} /\ out = <<>>
  BY DEF Init, Printed
<1>3. Answered /\ NoGap /\ TailPrinted
  BY <1>1, <1>2, TypeFacts DEF Init, Answered, NoGap, TailPrinted, At
<1> QED
  BY <1>1, <1>3 DEF TailInv

LEMMA TailStep == TailInv /\ [Next]_vars => TailInv'
<1> SUFFICES ASSUME TailInv, [Next]_vars PROVE TailInv'
  OBVIOUS
<1>1. TypeOK /\ TypeOK' /\ run \in Run
  BY TypeStep, TypeFacts DEF TailInv
<1>2. cmd' = cmd
  BY DEF Next, Grow, Serve, ServeSeed, ServePoll, ServeView, Proceed, Start, Seeded, Polled,
     Viewed, Wake, Wrong, Interrupt, vars
<1>3. SUFFICES ASSUME cmd.follow PROVE (Answered /\ NoGap /\ TailPrinted)'
  BY <1>1, <1>2 DEF TailInv
<1>4. Answered /\ NoGap /\ TailPrinted
  BY <1>3 DEF TailInv
<1>5. CASE Grow \/ Serve \/ Seeded \/ Polled
  BY <1>1, <1>4, <1>5, TailGrows, TailServed, TailSeeded, TailPolled
<1>6. CASE Start
  <2>1. run.pc = "start" /\ UNCHANGED <<log, cmd, out, old, start>>
    BY <1>6 DEF Start, At
  <2>2. /\ run'.pc \in {"seed", "failed"} /\ run'.last = run.last
        /\ ~run'.served => run'.page = {}
        /\ run'.pc = "seed" => ~run'.served
    BY <1>1, <1>3, <1>4, <1>6 DEF Start, Goes, Asks, Run, Answered
  <2>3. Answered'
    BY <1>4, <2>1, <2>2 DEF Answered, At
  <2> QED
    BY <1>1, <1>4, <2>1, <2>2, <2>3, TailStays
<1>7. CASE Viewed
  BY <1>4, <1>7 DEF Viewed, Answered
<1>8. CASE Wake
  <2>1. run.pc = "sleep" /\ UNCHANGED <<log, cmd, out, old, start>>
    BY <1>8 DEF Wake, At
  <2>2. /\ run'.pc = "poll" /\ run'.last = run.last /\ run'.served = FALSE
        /\ run'.page = {}
    BY <1>1, <1>3, <1>8 DEF Wake, Asks, Run
  <2>3. Answered'
    BY <2>2 DEF Answered, At
  <2> QED
    BY <1>1, <1>4, <2>1, <2>2, <2>3, TailStays
<1>9. CASE Wrong
  <2>1. run.pc \in Asking /\ UNCHANGED <<log, cmd, out, old, start>>
    BY <1>9 DEF Wrong, history
  <2>2. /\ run'.pc \in {run.pc, "failed"} /\ run'.last = run.last
        /\ ~run'.served => run'.page = {}
        /\ run'.pc # "failed" => ~run'.served
    BY <1>1, <1>4, <1>9 DEF Wrong, Goes, Run, Answered, Asking
  <2>3. Answered'
    BY <1>4, <2>1, <2>2 DEF Answered, At, Asking
  <2> QED
    BY <1>1, <1>4, <2>1, <2>2, <2>3, TailStays
<1>10. CASE Interrupt
  <2>1. UNCHANGED <<log, cmd, out, old, start>>
    BY <1>10 DEF Interrupt, history
  <2>2. /\ run'.pc = "interrupted" /\ run'.last = run.last
        /\ run'.served = run.served /\ run'.page = run.page
    BY <1>1, <1>10 DEF Interrupt, Goes, Run
  <2>3. Answered'
    BY <1>4, <2>2 DEF Answered, At
  <2> QED
    BY <1>1, <1>4, <2>1, <2>2, <2>3, TailStays
<1>11. CASE UNCHANGED vars
  <2>1. UNCHANGED <<log, cmd, run, out, old, start>>
    BY <1>11 DEF vars, history
  <2> QED
    BY <1>4, <2>1 DEF Answered, NoGap, TailPrinted, Printed, Hits, At
<1> QED
  BY <1>5, <1>6, <1>7, <1>8, <1>9, <1>10, <1>11 DEF Next, Proceed

\* A tail prints every entry that matches, once and in order, from where it began up to its
\* cursor: however the log grows, however the server cuts its pages, however many answers
\* are lost (runAuditFollow).
THEOREM TailIsExact == Spec => []FollowsExactly
<1>1. TailInv => FollowsExactly
  BY DEF TailInv, TailPrinted, FollowsExactly
<1> QED
  BY TailInit, TailStep, <1>1, PTL DEF Spec

\* A tail prints nothing that was in the log before it was started (docs/audit.md).
THEOREM TailIsNew == Spec => []NoReplay
<1>1. TailInv => NoReplay
  <2> SUFFICES ASSUME TailInv, cmd.follow, NEW x \in Printed PROVE x > old
    BY DEF NoReplay
  <2>1. x > start /\ old <= start /\ old \in Nat /\ start \in Nat
    BY TypeFacts DEF TailInv, TailPrinted, TypeOK
  <2>2. x \in Nat
    <3>1. PICK k \in DOMAIN out : x \in out[k]
      BY DEF Printed
    <3>2. out[k] \subseteq 1 .. Len(log)
      BY <3>1, TypeFacts DEF TailInv
    <3> QED
      BY <3>1, <3>2, TypeFacts DEF TailInv
  <2> QED
    BY <2>1, <2>2
<1> QED
  BY TailInit, TailStep, <1>1, PTL DEF Spec
----------------------------------------------------------------------------
(* What a view shows, and that whatever is shown was asked for. *)

\* Pages are made of entries that match; the page of a view is the newest there were at a
\* moment since it was asked for, on its way as well as on the screen.
ViewInv ==
  /\ TypeOK
  /\ run.page \subseteq Hits(0, Len(log))
  /\ Printed \subseteq Hits(0, Len(log))
  /\ ~cmd.follow => run.pc \notin {"seed", "poll"}
  /\ At("view") /\ run.served =>
       \E n \in asked .. Len(log) : run.page = Newest(Limit(cmd), n)
  /\ At("done") \/ (At("sleep") /\ ~cmd.follow) =>
       \E n \in asked .. Len(log) : out = <<Newest(Limit(cmd), n)>>

\* The newest of a part of the log stay what they are when the log grows.
LEMMA NewestGrow ==
  ASSUME TypeOK, Grow, NEW n \in 0 .. Len(log)
  PROVE  Newest(Limit(cmd), n)' = Newest(Limit(cmd), n)
<1>1. cmd' = cmd /\ Limit(cmd)' = Limit(cmd)
  BY DEF Grow, Limit
<1>2. n \in Nat /\ 0 \in Nat
  BY TypeFacts
<1>3. \A lo \in Nat : Hits(lo, n)' = Hits(lo, n)
  BY HitsGrow DEF Hits
<1>4. \A i \in Hits(0, n) : i \in Nat
  BY <1>2 DEF Hits
<1> QED
  BY <1>1, <1>2, <1>3, <1>4 DEF Newest

LEMMA ViewGrows == ViewInv /\ Grow => ViewInv'
<1> SUFFICES ASSUME ViewInv, Grow PROVE ViewInv'
  OBVIOUS
<1>1. TypeOK /\ TypeOK'
  BY GrowType DEF ViewInv
<1>2. /\ Len(log) \in Nat /\ asked \in 0 .. Len(log) /\ UNCHANGED <<cmd, run, out, asked>>
      /\ Len(log') = Len(log) + 1
  BY <1>1, TypeFacts DEF Grow, history, TypeOK
<1>3. Hits(0, Len(log)) \subseteq Hits(0, Len(log))'
  <2>1. {i \in 0 + 1 .. Len(log) : log'[i] \in Wanted(cmd')} = Hits(0, Len(log))
    BY <1>1, <1>2, HitsGrow
  <2> QED
    BY <1>2, <2>1 DEF Hits
<1>4. Printed' = Printed
  BY <1>2 DEF Printed
<1>5. \A n \in asked .. Len(log) :
        n \in asked' .. Len(log') /\ Newest(Limit(cmd), n)' = Newest(Limit(cmd), n)
  BY <1>1, <1>2, NewestGrow
<1> QED
  BY <1>1, <1>2, <1>3, <1>4, <1>5 DEF ViewInv, At

\* An answer of the server is made of entries that match.
LEMMA ViewServed == ViewInv /\ Serve => ViewInv'
<1> SUFFICES ASSUME ViewInv, Serve PROVE ViewInv'
  OBVIOUS
<1>1. TypeOK /\ TypeOK'
  BY TypeStep DEF ViewInv, Next
<1>2. /\ run \in Run /\ Len(log) \in Nat /\ asked \in 0 .. Len(log)
      /\ run.last \in 0 .. Len(log)
  BY <1>1, TypeFacts DEF TypeOK, Run
<1>3. UNCHANGED <<log, cmd, out, asked>> /\ run'.pc = run.pc
  BY <1>2 DEF Serve, ServeSeed, ServePoll, ServeView, history, Run
<1>4. run'.page \subseteq Hits(0, Len(log))
  <2>1. CASE run' = [run EXCEPT !.served = TRUE]
    BY <1>2, <2>1 DEF ViewInv, Run
  <2>2. ASSUME NEW n \in Hits(0, Len(log)),
               run' = [run EXCEPT !.served = TRUE, !.page = {n}, !.hi = n]
        PROVE  run'.page \subseteq Hits(0, Len(log))
    BY <1>2, <2>2 DEF Run
  <2>3. ASSUME NEW n \in Hits(run.last, Len(log)),
               run' = [run EXCEPT !.served = TRUE, !.page = Hits(run.last, n), !.hi = n]
        PROVE  run'.page \subseteq Hits(0, Len(log))
    BY <1>2, <2>3 DEF Run, Hits
  <2>4. CASE run' = [run EXCEPT !.served = TRUE, !.page = Newest(Limit(cmd), Len(log))]
    BY <1>2, <2>4 DEF Run, Newest
  <2> QED
    BY <2>1, <2>2, <2>3, <2>4 DEF Serve, ServeSeed, ServePoll, ServeView
<1>5. At("view") => run'.page = Newest(Limit(cmd), Len(log))
  BY <1>2 DEF Serve, ServeSeed, ServePoll, ServeView, At, Run
<1>6. Len(log) \in asked .. Len(log)
  BY <1>2
<1>7. /\ Hits(0, Len(log))' = Hits(0, Len(log)) /\ Printed' = Printed
      /\ \A n : Newest(Limit(cmd), n)' = Newest(Limit(cmd), n)
  BY <1>3 DEF Hits, Printed, Newest, Limit
<1> QED
  BY <1>1, <1>3, <1>4, <1>5, <1>6, <1>7 DEF ViewInv, At

\* A step that leaves the log alone, and prints at most the page it has, keeps to what was
\* asked for; where it leads is looked at step by step.
LEMMA ViewStays ==
  ASSUME ViewInv, TypeOK', UNCHANGED <<log, cmd>>, run'.page \subseteq run.page,
         Printed' \subseteq Printed \cup run.page,
         ~cmd.follow => run'.pc \notin {"seed", "poll"},
         run'.pc = "view" => ~run'.served,
         run'.pc = "done" \/ (run'.pc = "sleep" /\ ~cmd.follow) =>
           \E n \in asked' .. Len(log) : out' = <<Newest(Limit(cmd), n)>>
  PROVE  ViewInv'
<1>1. /\ Hits(0, Len(log))' = Hits(0, Len(log))
      /\ \A n : Newest(Limit(cmd), n)' = Newest(Limit(cmd), n)
  BY DEF Hits, Newest, Limit
<1> QED
  BY <1>1 DEF ViewInv, At
LEMMA ViewInit == Init => ViewInv
<1> SUFFICES ASSUME Init PROVE ViewInv
  OBVIOUS
<1>1. TypeOK
  BY TypeInit
<1>2. run.page = {} /\ Printed = {} /\ run.pc = "start"
  BY DEF Init, Printed
<1> QED
  BY <1>1, <1>2 DEF ViewInv, At

LEMMA ViewStep == ViewInv /\ [Next]_vars => ViewInv'
<1> SUFFICES ASSUME ViewInv, [Next]_vars PROVE ViewInv'
  OBVIOUS
<1>a. TypeOK /\ TypeOK' /\ run \in Run
  BY TypeStep, TypeFacts DEF ViewInv
<1>1. CASE Grow
  BY <1>1, ViewGrows
<1>2. CASE Serve
  BY <1>2, ViewServed
<1>3. CASE Start
  <2>1. UNCHANGED <<log, cmd, out>> /\ Printed' = Printed
    BY <1>3 DEF Start, Printed
  <2>2. /\ run'.page \subseteq run.page
        /\ run'.pc \in {"seed", "view", "failed"} /\ (~cmd.follow => run'.pc = "view")
        /\ run'.pc = "view" => ~run'.served
    BY <1>a, <1>3 DEF Start, Goes, Asks, Run
  <2> QED
    BY <1>a, <2>1, <2>2, ViewStays
<1>4. CASE Seeded
  <2>1. UNCHANGED <<log, cmd, out>> /\ Printed' = Printed
    BY <1>4 DEF Seeded, Printed
  <2>2. run'.page \subseteq run.page /\ run'.pc = "poll" /\ cmd.follow
    BY <1>a, <1>4 DEF Seeded, Asks, Run, ViewInv, At
  <2> QED
    BY <1>a, <2>1, <2>2, ViewStays
<1>5. CASE Polled
  <2>1. UNCHANGED <<log, cmd>> /\ cmd.follow
    BY <1>5 DEF Polled, ViewInv, At
  <2>2. run'.page = run.page /\ run'.pc = "sleep"
    BY <1>a, <1>5 DEF Polled, Run
  <2>3. Printed' \subseteq Printed \cup run.page
    <3>1. CASE out' = out
      BY <3>1 DEF Printed
    <3>2. CASE out' = Append(out, run.page)
      BY <1>a, <3>2, PrintedAppend
    <3> QED
      BY <1>5, <3>1, <3>2 DEF Polled
  <2> QED
    BY <1>a, <2>1, <2>2, <2>3, ViewStays
<1>6. CASE Viewed
  <2>1. UNCHANGED <<log, cmd, asked>> /\ out' = <<run.page>>
    BY <1>6 DEF Viewed, history
  <2>2. run'.page = run.page /\ run'.pc \in {"sleep", "done"}
    BY <1>a, <1>6 DEF Viewed, Goes, Run
  <2>3. Printed' = run.page
    BY <2>1 DEF Printed
  <2>4. PICK n \in asked .. Len(log) : run.page = Newest(Limit(cmd), n)
    BY <1>6 DEF Viewed, ViewInv
  <2> QED
    BY <1>a, <2>1, <2>2, <2>3, <2>4, ViewStays
<1>7. CASE Wake
  <2>1. UNCHANGED <<log, cmd, out>> /\ Printed' = Printed
    BY <1>7 DEF Wake, Printed
  <2>2. /\ run'.page \subseteq run.page /\ run'.pc \in {"poll", "view"} /\ ~run'.served
        /\ (~cmd.follow => run'.pc = "view")
    BY <1>a, <1>7 DEF Wake, Asks, Run
  <2> QED
    BY <1>a, <2>1, <2>2, ViewStays
<1>8. CASE Wrong
  <2>1. UNCHANGED <<log, cmd, out>> /\ Printed' = Printed
    BY <1>8 DEF Wrong, Printed
  <2>2. CASE Goes("failed")
    <3>1. run'.page = run.page /\ run'.pc = "failed"
      BY <1>a, <2>2 DEF Goes, Run
    <3> QED
      BY <1>a, <2>1, <3>1, ViewStays
  <2>3. CASE run' = [run EXCEPT !.tries = @ + 1, !.served = FALSE, !.page = {}, !.hi = 0]
    <3>1. run'.page = {} /\ run'.pc = run.pc /\ ~run'.served
      BY <1>a, <2>3 DEF Run
    <3>2. run.pc \in Asking /\ (~cmd.follow => run.pc \notin {"seed", "poll"})
      BY <1>8 DEF Wrong, ViewInv
    <3> QED
      BY <1>a, <2>1, <3>1, <3>2, ViewStays DEF Asking
  <2> QED
    BY <1>8, <2>2, <2>3 DEF Wrong
<1>9. CASE Interrupt
  <2>1. UNCHANGED <<log, cmd, out>> /\ Printed' = Printed
    BY <1>9 DEF Interrupt, Printed
  <2>2. run'.page = run.page /\ run'.pc = "interrupted"
    BY <1>a, <1>9 DEF Interrupt, Goes, Run
  <2> QED
    BY <1>a, <2>1, <2>2, ViewStays
<1>10. CASE UNCHANGED vars
  <2>1. UNCHANGED <<log, cmd, run, out, asked>>
    BY <1>10 DEF vars, history
  <2>2. /\ Hits(0, Len(log))' = Hits(0, Len(log)) /\ Printed' = Printed
        /\ \A n : Newest(Limit(cmd), n)' = Newest(Limit(cmd), n)
    BY <2>1 DEF Hits, Printed, Newest, Limit
  <2> QED
    BY <1>a, <2>1, <2>2 DEF ViewInv, At
<1> QED
  BY <1>1, <1>2, <1>3, <1>4, <1>5, <1>6, <1>7, <1>8, <1>9, <1>10 DEF Next, Proceed

\* A view is the newest entries that match, as many as are asked for, as the log was at one
\* moment since the request was sent, with any number of answers late or lost (runAudit,
\* runMaybeWatchOps).
THEOREM ViewIsOneMoment == Spec => []ViewIsCurrent
<1>1. ViewInv => ViewIsCurrent
  BY DEF ViewInv, ViewIsCurrent, Newest, Limit, At
<1> QED
  BY ViewInit, ViewStep, <1>1, PTL DEF Spec

\* What a command line wants, read from its parts: a flag that is given decides, and the
\* preset otherwise.
LEMMA WantedMeans ==
  ASSUME NEW c \in Command, NEW t \in Wanted(c)
  PROVE  /\ c.type # "any" => t = c.type
         /\ c.result # "any" => Results[t] = c.result
         /\ c.type = "any" /\ c.preset = "ca" => t = "ca_rotated"
         /\ c.result = "any" /\ c.preset = "failures" => Results[t] = "failure"
<1>1. Preset["ca"] = {"ca_rotated"}
  BY DEF Preset
<1>2. t \in EventTypes
  BY DEF Wanted, Command, Preset, EventTypes
<1>3. Results[t] # "any"
  BY <1>2 DEF Results, EventTypes
<1> QED
  BY <1>1, <1>3 DEF Wanted

\* Whatever a view or a tail shows was asked for: a flag that is given decides, and the
\* preset of events and history otherwise (runAudit, newHistoryCommand).
THEOREM ShowsOnlyWanted == Spec => []ShowsWhatWasAsked
<1>1. ViewInv => ShowsWhatWasAsked
  <2> SUFFICES ASSUME ViewInv, NEW x \in Printed
               PROVE  /\ cmd.type # "any" => log[x] = cmd.type
                      /\ cmd.result # "any" => Results[log[x]] = cmd.result
                      /\ cmd.type = "any" /\ cmd.preset = "ca" => log[x] = "ca_rotated"
                      /\ cmd.result = "any" /\ cmd.preset = "failures" =>
                           Results[log[x]] = "failure"
    BY DEF ShowsWhatWasAsked
  <2>1. log[x] \in Wanted(cmd) /\ cmd \in Command
    BY CommandsAssumption DEF ViewInv, Hits, TypeOK
  <2> QED
    BY <2>1, WantedMeans
<1> QED
  BY ViewInit, ViewStep, <1>1, PTL DEF Spec
=============================================================================
