---------------------------- MODULE DeviceLogin ----------------------------
(***************************************************************************)
(* One login by the device authorization flow: the loop over codes and the *)
(* polling loop (internal/authflow), the session with its interval         *)
(* (internal/oauth), the provider that asks the server (mayflyserver) and  *)
(* the HTTP client that retries under it (internal/client).  It ends where *)
(* Sessions goes on: with a token and an identity, or without.             *)
(*                                                                         *)
(* The server is outside this repository.  It issues a code for every      *)
(* request that reaches it, lets the user approve or deny a code that was  *)
(* shown, gives one token for an approved code, and may ask at any time    *)
(* for a slower pace.  A request, or its answer, may be lost: the client   *)
(* sends it again Retries times at most, not knowing whether it was        *)
(* served.  A provider that is asked directly (github, keycloak) is not    *)
(* retried: Retries = 0.                                                   *)
(*                                                                         *)
(* Time passes in units of five seconds, the step of slow_down; the        *)
(* back-off between retries, a fraction of it, takes no time.              *)
(***************************************************************************)
EXTENDS Integers, Sequences

CONSTANTS MaxAttempts,   \* codes a login asks for, one after the other
          Retries,       \* times a request is sent again
          Interval,      \* pace a new code comes with
          Lifetime,      \* time until a code expires
          MaxInterval,   \* bound: the slowest pace the server asks for
          MaxFaults      \* bound: requests that go wrong

ASSUME DeviceLoginAssumption ==
  /\ MaxAttempts \in Nat \ {0}
  /\ Retries \in Nat
  /\ Interval \in Nat \ {0}
  /\ Lifetime \in Nat
  /\ MaxInterval \in Nat /\ Interval <= MaxInterval
  /\ MaxFaults \in Nat

VARIABLES codes,    \* codes[n]: what the server knows of the n-th code it issued
          client,   \* the login
          faults    \* requests that have gone wrong

vars == <<codes, client, faults>>

----------------------------------------------------------------------------
Code == [status : {"pending", "approved", "denied", "spent"},
         left : 0 .. Lifetime,          \* time until it expires
         since : 0 .. MaxInterval,      \* time since it was last polled for, capped
         pace : Interval .. MaxInterval]

NewCode == [status |-> "pending", left |-> Lifetime, since |-> 0, pace |-> Interval]

Ended == {"done", "failed", "cancelled"}

Client == [pc : {"start", "wait", "poll", "identify"} \cup Ended,
           attempt : 1 .. MaxAttempts,
           shown : Seq(1 .. Len(codes)),    \* codes the user was shown
           interval : 0 .. MaxInterval,
           wait : 0 .. MaxInterval,         \* until the timer fires
           tries : 0 .. Retries,            \* of the request at hand
           token : 0 .. Len(codes)]         \* the code it was given for

At(l) == client.pc = l
Goes(l) == client' = [client EXCEPT !.pc = l]

Shown == {client.shown[k] : k \in DOMAIN client.shown}

\* The session's code.
Current == client.shown[Len(client.shown)]

Init == /\ codes = <<>>
        /\ client = [pc |-> "start", attempt |-> 1, shown |-> <<>>, interval |-> 0,
                     wait |-> 0, tries |-> 0, token |-> 0]
        /\ faults = 0

----------------------------------------------------------------------------
(* The server, the user and the clock. *)

\* What the server answers to a poll for code n, and what that does to the code.
Serve(n, a) ==
  LET c == codes[n]
  IN  \/ /\ a = "pending" /\ c.status = "pending" /\ c.left > 0
         /\ codes' = [codes EXCEPT ![n].since = 0]
      \/ /\ a = "slow_down" /\ c.status \in {"pending", "approved"} /\ c.left > 0
         /\ c.pace < MaxInterval
         /\ codes' = [codes EXCEPT ![n].since = 0, ![n].pace = @ + 1]
      \/ /\ a = "approved" /\ c.status = "approved" /\ c.left > 0
         /\ codes' = [codes EXCEPT ![n].status = "spent"]
      \/ /\ a = "denied" /\ c.status = "denied" /\ c.left > 0
         /\ UNCHANGED codes
      \/ /\ a = "expired" /\ (c.left = 0 \/ c.status = "spent")
         /\ UNCHANGED codes

Answers == {"pending", "slow_down", "approved", "denied", "expired"}

User == /\ \E n \in Shown, s \in {"approved", "denied"} :
             /\ codes[n].status = "pending" /\ codes[n].left > 0
             /\ codes' = [codes EXCEPT ![n].status = s]
        /\ UNCHANGED <<client, faults>>

Tick == /\ client.pc \notin Ended
        /\ codes' = [n \in DOMAIN codes |->
                      [codes[n] EXCEPT !.left = IF @ > 0 THEN @ - 1 ELSE 0,
                                       !.since = IF @ < MaxInterval THEN @ + 1 ELSE @]]
        /\ client' = [client EXCEPT !.wait = IF @ > 0 THEN @ - 1 ELSE 0]
        /\ UNCHANGED faults

----------------------------------------------------------------------------
(* A request that goes wrong (internal/client). *)

\* Mutant of Retry: one try too many.
RetryOnceMore ==
  /\ faults < MaxFaults
  /\ faults' = faults + 1
  /\ client' = IF client.tries <= Retries THEN [client EXCEPT !.tries = @ + 1]
                                          ELSE [client EXCEPT !.pc = "failed"]

\* Not connected, the answer lost, or one of the statuses 429, 502, 503 and 504: sent
\* again, as long as there are tries left; the last failure is the request's.
Retry ==
  /\ faults < MaxFaults
  /\ faults' = faults + 1
  /\ client' = IF client.tries < Retries THEN [client EXCEPT !.tries = @ + 1]
                                         ELSE [client EXCEPT !.pc = "failed"]

\* Timed out, cut off within the body, refused, or not understood: an error at once.
GiveUp ==
  /\ faults < MaxFaults
  /\ faults' = faults + 1
  /\ Goes("failed")

Wrong == Retry \/ GiveUp

----------------------------------------------------------------------------
(* The login. *)

\* A code has come: it is shown, and its session begins.
Started ==
  /\ At("start")
  /\ codes' = Append(codes, NewCode)
  /\ client' = [client EXCEPT !.pc = "wait", !.shown = Append(@, Len(codes) + 1),
                              !.interval = Interval, !.wait = Interval]
  /\ UNCHANGED faults

\* The server may have issued a code all the same: nobody will ever see it.
StartWrong ==
  /\ At("start")
  /\ Wrong
  /\ \/ UNCHANGED codes
     \/ codes' = Append(codes, NewCode)

\* The timer has fired.
Poll ==
  /\ At("wait")
  /\ client.wait = 0
  /\ client' = [client EXCEPT !.pc = "poll", !.tries = 0]
  /\ UNCHANGED <<codes, faults>>

Waits(i) == [client EXCEPT !.pc = "wait", !.interval = i, !.wait = i]
AsksAnew == [client EXCEPT !.pc = "start", !.tries = 0, !.attempt = @ + 1]
Fails == [client EXCEPT !.pc = "failed"]

\* Mutant of SlowedDown: the pace stays.
NotSlowedDown == Waits(client.interval)

\* slow_down: five seconds more, for the rest of the session.
SlowedDown == Waits(client.interval + 1)

\* Mutants of CodeExpired: the login gives up at once, polls on, does not count its
\* attempts, or goes on without a token.
GivesUpAtOnce == Fails
PollsOn == Waits(client.interval)
AsksAnewForever == [AsksAnew EXCEPT !.attempt = client.attempt]
FallsThrough == IF client.attempt < MaxAttempts THEN AsksAnew
                                                ELSE [client EXCEPT !.pc = "identify"]

\* Only an expired code makes the login ask for another, and the last one does not.
CodeExpired == IF client.attempt < MaxAttempts THEN AsksAnew ELSE Fails

Polled(a) ==
  client' = CASE a = "pending"   -> Waits(client.interval)
              [] a = "slow_down" -> SlowedDown
              [] a = "approved"  -> [client EXCEPT !.pc = "identify", !.tries = 0,
                                                   !.token = Current]
              [] a = "denied"    -> Fails
              [] OTHER           -> CodeExpired

PollAnswered ==
  /\ At("poll")
  /\ \E a \in Answers : Serve(Current, a) /\ Polled(a)
  /\ UNCHANGED faults

PollWrong ==
  /\ At("poll")
  /\ Wrong
  /\ \/ UNCHANGED codes
     \/ \E a \in Answers : Serve(Current, a)

\* The identity came with the token, or is fetched with it.
Identified ==
  /\ At("identify")
  /\ Goes("done")
  /\ UNCHANGED <<codes, faults>>

IdentifyWrong ==
  /\ At("identify")
  /\ Wrong
  /\ UNCHANGED codes

\* Interrupted, and a request that was on its way, for a code or a poll, may have been served.
Cancel ==
  /\ client.pc \notin Ended
  /\ Goes("cancelled")
  /\ \/ UNCHANGED codes
     \/ At("start") /\ codes' = Append(codes, NewCode)
     \/ At("poll") /\ \E a \in Answers : Serve(Current, a)
  /\ UNCHANGED faults

Login == Started \/ Poll \/ PollAnswered \/ Identified

Next == \/ User \/ Tick \/ Login
        \/ StartWrong \/ PollWrong \/ IdentifyWrong \/ Cancel

\* Timers fire, requests end (they have a timeout) and time passes; nothing is assumed of
\* the user.
Spec == Init /\ [][Next]_vars /\ WF_vars(Tick) /\ WF_vars(Login)
----------------------------------------------------------------------------
(* Properties *)

TypeOK == /\ codes \in Seq(Code)
          /\ client \in Client
          /\ faults \in 0 .. MaxFaults

\* The loop keeps the pace the server asks for: it does not begin a poll before the session's
\* interval has passed since the code was last polled for, and that interval has followed
\* every slow_down, unless an answer was lost (authflow.go, poll).  The retries under a poll
\* that has begun come sooner.
PaceKept ==
  At("poll") /\ client.tries = 0 =>
    /\ codes[Current].since >= client.interval
    /\ faults = 0 => client.interval = codes[Current].pace

\* A login succeeds with the token of the last code it showed, which the user approved.
DoneMeansApproved ==
  At("done") => client.token = Current /\ codes[Current].status = "spent"

\* A login that met no fault fails for one of two reasons: the user denied the last code,
\* or every code it could ask for has expired (authflow.go, Login).
FailureExplained ==
  At("failed") /\ faults = 0 =>
    \/ codes[Current].status = "denied"
    \/ Len(client.shown) = MaxAttempts /\ \A n \in Shown : codes[n].left = 0

\* An interruption found the login waiting for a code.
CutOffStart == At("cancelled") /\ Len(client.shown) < client.attempt

\* Nothing the server gives is lost but by a request that went wrong or was cut off.  A
\* token the login does not have takes a fault or an interruption; of the codes, every
\* fault loses one at most, and an interruption none but the one being asked for
\* (authflow.go, Login; the retries of client.go).
NothingWasted ==
  /\ faults = 0 /\ ~At("cancelled") =>
       \A n \in DOMAIN codes : codes[n].status = "spent" => client.token = n
  /\ Len(codes) <= Len(client.shown) + faults + (IF CutOffStart THEN 1 ELSE 0)
  /\ Len(client.shown) <= client.attempt

\* A login ends, whatever the user does: every code expires, and there are MaxAttempts.
LoginEnds == <>(client.pc \in Ended)
=============================================================================
