----------------------------- MODULE Operations -----------------------------
(***************************************************************************)
(* The operator commands (ca, machine, rollout, health, status, metrics,   *)
(* doctor) against the server: the checks before the first request, the    *)
(* HTTP client that repeats a request when the connection breaks or a      *)
(* gateway is busy, the output, --watch, and the exit status.              *)
(*                                                                         *)
(* The server is outside this repository: it accepts a request that its    *)
(* documentation allows, or refuses it, for this reason or another.  The   *)
(* network may break before or after the server has served a request; a    *)
(* request the client has given up may still be served later.  Another     *)
(* operator, and the machines' agents, change the server's state.          *)
(*                                                                         *)
(* A behaviour is one command, from any state of the server: what earlier  *)
(* commands have left on their way is, for it, somebody else's change.     *)
(***************************************************************************)
EXTENDS Doctor

CONSTANTS Invocations,   \* what the operator may type, and where
          Starts,        \* the states the server may be in when a command begins
          MaxOthers      \* bound: changes others make while a command runs

VARIABLES server,    \* the state of every CA and machine
          run,       \* the invocation
          plan,      \* what its handler has made of it
          pc,        \* where the command is
          tries,     \* attempts made at the request at hand
          net,       \* that request on its way, or its answer on its way back
          heard,     \* what became of the requests before it
          docs,      \* JSON or YAML documents written, capped at 2
          text,      \* whether anything else was written
          exit,      \* how the command ended
          done,      \* times the server has carried out the command's change
          adrift,    \* attempts the server may have served, unknown to the client
          late,      \* those it may still serve
          others,    \* changes others have made
          calm       \* nothing has changed at the server since it last answered

vars == <<server, run, plan, pc, tries, net, heard, docs, text, exit,
          done, adrift, late, others, calm>>
command == <<run, plan>>
output == <<docs, text, exit>>
tally == <<done, adrift, late>>
peace == <<others, calm>>

----------------------------------------------------------------------------
\* An active machine is "online" with the latest bundle, "lagging" when it has an earlier
\* one, "stale" when its heartbeats are late, and "offline" when there are none.
Active == {"online", "lagging", "stale", "offline"}
States(t) == IF t \in CA THEN {"absent", "enabled", "disabled", "retired"}
             ELSE Active \cup {"absent", "pending", "disabled", "revoked"}
Servers == {s \in [Thing -> UNION {States(t) : t \in Thing}] :
              \A t \in Thing : s[t] \in States(t)}

ASSUME OperationsAssumption ==
  /\ Starts \subseteq Servers
  /\ MaxOthers \in Nat
  /\ \A r \in Invocations : r.retries \in Int /\ r.retries >= -1

\* CAs and machines are told apart, and from what is asked for as a whole.
ASSUME NamesAssumption == /\ CA \cap Machine = {}
                          /\ Thing \cap (Collections \cup {None}) = {}

\* The arguments a command takes: exactly one (cobra.ExactArgs), or one that may be left out.
OneCA == {"ca_show", "ca_create", "ca_import", "ca_enable", "ca_disable", "ca_retire",
          "ca_delete", "ca_public_key"}
OneMachine == {"machine_show", "machine_approve", "machine_disable", "machine_enable",
               "machine_revoke", "machine_delete", "machine_reenroll", "machine_rotate",
               "machine_heartbeat", "machine_sync"}

ASSUME InvocationsAssumption ==
  \A r \in Invocations :
    /\ r.cmd \in OneCA => r.id \in CA
    /\ r.cmd \in {"ca_export", "ca_fingerprint", "ca_rotate"} => r.id \in CA \cup {None}
    /\ r.cmd \in OneMachine => r.id \in Machine
    /\ r.shortcuts \subseteq Live /\ r.liveness \in Live \cup {""}
    /\ r.status \in {"", "pending", "active", "disabled", "revoked"}
    /\ r.state \in {"", "all", "current", "lagging", "stuck"}
    /\ r.generation \in Int /\ r.limit \in Int
    /\ r.drift \in Nat

\* The columns of the machines' lists.  The bundles that count are the latest (1), the one
\* before (0), and that of a machine that has never synced (-1).
Status(state) == IF state \in Active THEN "active" ELSE state
Generation(state) == IF state = "online" THEN 1 ELSE IF state = "pending" THEN -1 ELSE 0
RolloutState(state) ==
  IF state = "online" THEN "current"
  ELSE IF state \in {"offline", "disabled", "revoked"} THEN "stuck" ELSE "lagging"

Asks == plan.asks
Asked == Asks[Len(heard) + 1]        \* the request at hand
Changes(request) == request.does # "view"

\* A machine is listed when every parameter of the query agrees with it.
Selects(with, state) ==
  /\ with.status \in {"", Status(state)}
  /\ with.liveness \in {"", Liveness(state)}
  /\ with.generation \in {-1, Generation(state)}
  /\ with.state \in {"", "all", RolloutState(state)}

\* What the server tells of: one thing, the things it lists, or only of counts and events.
Subject(request, s) ==
  LET present(S) == {t \in S : s[t] # "absent"}
      rollout(states) == {m \in present(Machine) : RolloutState(s[m]) \in states}
  IN  CASE request.on \in Thing -> {request.on}
        [] request.on = "cas" -> present(CA)
        [] request.on = "bundle" -> {c \in CA : s[c] = "enabled"}
        [] request.on \in {"machines", "rollout_machines"} ->
             {m \in present(Machine) : Selects(request.with, s[m])}
        [] request.on = "stuck" -> rollout({"stuck"})
        [] request.on = "explain" -> rollout({"lagging", "stuck"})
        [] request.on = "health" -> Machine
        [] OTHER -> {}

Told(things, s) == [t \in things |-> s[t]]

\* The states of one thing from which a change is accepted, and those it leads to.
From(verb, t) ==
  CASE verb \in {"create", "rotate"} -> {"absent"}
    [] verb = "enable" -> Active \cup {"enabled", "disabled"}
    [] verb = "disable" -> Active \cup {"enabled", "disabled", "pending"}
    [] verb = "retire" -> {"disabled"}
    [] verb = "delete" -> IF t \in CA THEN {"disabled", "retired"} ELSE States(t) \ {"absent"}
    [] verb = "approve" -> {"pending"}
    [] verb \in {"revoke", "reissue"} -> States(t) \ {"absent"}
    [] OTHER -> {}

To(verb, t) ==
  CASE verb = "enable" -> IF t \in CA THEN {"enabled"} ELSE Active
    [] verb \in {"create", "rotate"} -> {"enabled"}
    [] verb = "disable" -> {"disabled"}
    [] verb = "retire" -> {"retired"}
    [] verb = "approve" -> Active
    [] verb = "revoke" -> {"revoked"}
    [] OTHER -> {"absent"}          \* delete; reissue deletes the old identity

\* The last enabled CA is not disabled.
Spares(verb, t, s) == verb = "disable" /\ t \in CA => \E c \in CA \ {t} : s[c] = "enabled"

Accepts(verb, t, s) ==
  IF s[t] \in From(verb, t) /\ Spares(verb, t, s)
  THEN {[s EXCEPT ![t] = state] : state \in To(verb, t) \cap States(t)}
  ELSE {}

\* What a change may be about: rotate without --key-id leaves it to the server.
Targets(request) == IF request.on = None THEN CA ELSE Thing \cap {request.on}

\* What a change tells of, with the state it leads to.
Effects(request, s) ==
  UNION {{[on |-> t, after |-> z] : z \in Accepts(request.does, t, s)} :
           t \in Targets(request)}

----------------------------------------------------------------------------
Quiet == [at |-> "none", told |-> <<>>]

Init == /\ server \in Starts
        /\ run \in Invocations /\ PlanOf(run, plan)
        /\ pc = "begun" /\ tries = 0 /\ net = Quiet /\ heard = <<>>
        /\ docs = 0 /\ text = FALSE /\ exit = "none"
        /\ done = 0 /\ adrift = 0 /\ late = 0 /\ others = 0 /\ calm = TRUE

\* The process is gone, and with it the request at hand.
End(status) == pc' = "ended" /\ exit' = status /\ tries' = 0

Ready == ParseFormat(run) /\ plan.valid

\* RunE returns before anything is sent.
Refuse == /\ pc = "begun" /\ ~Ready
          /\ End("error")
          /\ UNCHANGED <<server, command, net, heard, docs, text, tally, peace>>

\* api.Do
Do == /\ pc = "begun" /\ Ready /\ Len(heard) < Len(Asks)
      /\ pc' = "call" /\ tries' = 0
      /\ UNCHANGED <<server, command, net, heard, output, tally, peace>>

----------------------------------------------------------------------------
(* doWithRetry and doOnce *)

\* What api.Do returns: a command ends with its error, doctor takes note of it.
Return(outcome) ==
  IF Succeeds(outcome) \/ run.cmd = "doctor"
  THEN heard' = Append(heard, outcome) /\ pc' = "begun" /\ UNCHANGED <<exit, tries>>
  ELSE End("error") /\ UNCHANGED heard

Fails == Return(Failed)

\* /health is asked without a token.
TokenLoads == Asked.on = "info" \/ run.session = "ok"

\* Mutants of Send: one attempt too many; an attempt that is not counted.
SendOnceMore == /\ pc = "call" /\ tries <= run.retries + 1 /\ TokenLoads
                /\ pc' = "wire" /\ tries' = tries + 1
                /\ net' = [at |-> "sent", told |-> <<>>]
                /\ UNCHANGED <<server, command, heard, output, tally, peace>>

SendUncounted == /\ pc = "call" /\ tries <= run.retries /\ TokenLoads
                 /\ pc' = "wire" /\ tries' = tries
                 /\ net' = [at |-> "sent", told |-> <<>>]
                 /\ UNCHANGED <<server, command, heard, output, tally, peace>>

Send == /\ pc = "call" /\ tries <= run.retries /\ TokenLoads
        /\ pc' = "wire" /\ tries' = tries + 1
        /\ net' = [at |-> "sent", told |-> <<>>]
        /\ UNCHANGED <<server, command, heard, output, tally, peace>>

\* resolve auth token: this error is not tried again.
NoToken == /\ pc = "call" /\ tries <= run.retries /\ ~TokenLoads
           /\ Fails
           /\ UNCHANGED <<server, command, net, docs, text, tally, peace>>

\* request failed after n attempts, n = 0 when retries is -1.
Exhausted == /\ pc = "call" /\ tries > run.retries
             /\ Fails
             /\ UNCHANGED <<server, command, net, docs, text, tally, peace>>

\* The attempt at hand is given up without its answer.
GiveUp == LET unknown == net.at \in {"sent", "ok"} /\ Changes(Asked)
          IN  /\ net' = Quiet
              /\ adrift' = IF unknown THEN adrift + 1 ELSE adrift
              /\ late' = IF unknown /\ net.at = "sent" THEN late + 1 ELSE late
              /\ UNCHANGED done

\* "http request: ...": connection refused, reset or closed.
Breaks == /\ pc = "wire"
          /\ GiveUp
          /\ pc' = "call"
          /\ UNCHANGED <<server, command, tries, heard, output, peace>>

\* context deadline exceeded: not tried again.
TimesOut == /\ pc = "wire" /\ run.limited
            /\ GiveUp
            /\ Fails
            /\ UNCHANGED <<server, command, docs, text, peace>>

\* "read response: ...", or "decode response: ...": an answer that cannot be used.
Unusable == /\ pc = "wire" /\ net.at # "sent"
            /\ GiveUp
            /\ Fails
            /\ UNCHANGED <<server, command, docs, text, peace>>

\* Mutant of HearAnswer: an answer without a body is taken for a lost one.
HearAnswerTwice == /\ pc = "wire" /\ net.at = "ok"
                   /\ net' = Quiet
                   /\ \/ Return([ok |-> TRUE, told |-> net.told])
                      \/ pc' = "call" /\ UNCHANGED <<tries, heard, exit>>
                   /\ UNCHANGED <<server, command, docs, text, tally, peace>>

HearAnswer == /\ pc = "wire" /\ net.at = "ok"
              /\ net' = Quiet
              /\ Return([ok |-> TRUE, told |-> net.told])
              /\ UNCHANGED <<server, command, docs, text, tally, peace>>

HearRefusal == /\ pc = "wire" /\ net.at = "refused"
               /\ net' = Quiet
               /\ Fails
               /\ UNCHANGED <<server, command, docs, text, tally, peace>>

\* 429, 502, 503 or 504: tried again, but for the last attempt.
HearBusy == /\ pc = "wire" /\ net.at = "busy"
            /\ net' = Quiet
            /\ IF tries <= run.retries
               THEN pc' = "call" /\ UNCHANGED <<tries, heard, exit>>
               ELSE Fails
            /\ UNCHANGED <<server, command, docs, text, tally, peace>>

----------------------------------------------------------------------------
(* Output. *)

\* Every request is answered, or doctor has asked all it could.
Answered == pc = "begun" /\ Ready /\ Len(heard) = Len(Asks)

Written == /\ docs' = IF Structured(run) /\ docs < 2 THEN docs + 1 ELSE docs
           /\ text' = (text \/ ~Structured(run) \/ plan.announces)

\* The answer is rendered, and the command is over.
Render == /\ Answered /\ ~plan.watched
          /\ Written
          /\ End(IF run.cmd = "doctor" /\ OverallStatus(runDoctor(run, heard)) = "fail"
                 THEN "error" ELSE "ok")
          /\ UNCHANGED <<server, command, net, heard, tally, peace>>

\* --watch: the answer is rendered, and asked for again after the interval.
Refresh == /\ Answered /\ plan.watched
           /\ Written
           /\ pc' = "shown"
           /\ UNCHANGED <<server, command, tries, net, heard, exit, tally, peace>>

Tick == /\ pc = "shown"
        /\ pc' = "begun" /\ heard' = <<>>
        /\ UNCHANGED <<server, command, tries, net, output, tally, peace>>

\* Ctrl-C kills the process wherever it is.
Interrupt == /\ pc # "ended"
             /\ IF pc = "wire" THEN GiveUp ELSE UNCHANGED <<net, tally>>
             /\ End("killed")
             /\ UNCHANGED <<server, command, heard, docs, text, peace>>

----------------------------------------------------------------------------
(* The server, the gateway and the others. *)

\* A view, and a change the server accepts.
Serve == /\ net.at = "sent" /\ (run.authorized \/ Asked.on = "info")
         /\ IF Changes(Asked)
            THEN \E e \in Effects(Asked, server) :
                   /\ server' = e.after /\ done' = done + 1
                   /\ net' = [at |-> "ok", told |-> Told({e.on}, e.after)]
            ELSE /\ net' = [at |-> "ok", told |-> Told(Subject(Asked, server), server)]
                 /\ UNCHANGED <<server, done>>
         /\ calm' = TRUE
         /\ UNCHANGED <<command, pc, tries, heard, output, adrift, late, others>>

\* Not authorized, not known, in conflict, or an internal error.
RefuseRequest == /\ net.at = "sent"
                 /\ net' = [at |-> "refused", told |-> <<>>]
                 /\ UNCHANGED <<server, command, pc, tries, heard, output, tally, peace>>

\* A gateway answers in the server's place, whether or not the server has the request.
AnswerBusy == /\ net.at \in {"sent", "ok"}
              /\ \E reached \in BOOLEAN :
                   IF Changes(Asked) /\ (reached \/ net.at = "ok")
                   THEN /\ adrift' = adrift + 1
                        /\ late' = IF net.at = "sent" THEN late + 1 ELSE late
                   ELSE UNCHANGED <<adrift, late>>
              /\ net' = [at |-> "busy", told |-> <<>>]
              /\ UNCHANGED <<server, command, pc, tries, heard, output, done, peace>>

\* The change was the command's only request; it is served after it was given up.
ServeLate == /\ late > 0 /\ run.authorized
             /\ \E e \in Effects(Asks[1], server) : server' = e.after
             /\ done' = done + 1 /\ late' = late - 1 /\ calm' = FALSE
             /\ UNCHANGED <<command, pc, tries, net, heard, output, adrift, others>>

\* Another operator, an agent's heartbeat, a machine that enrolls.
Elsewhere == /\ others < MaxOthers /\ others' = others + 1
             /\ pc # "ended"
             /\ \E t \in Thing : \E state \in States(t) :
                  server' = [server EXCEPT ![t] = state]
             /\ calm' = FALSE
             /\ UNCHANGED <<command, pc, tries, net, heard, output, tally>>

Client == \/ Refuse \/ Do \/ Send \/ NoToken \/ Exhausted
          \/ TimesOut \/ HearAnswer \/ HearRefusal \/ HearBusy
          \/ Render \/ Refresh \/ Tick

Next == \/ Client
        \/ Breaks \/ Unusable \/ Interrupt
        \/ Serve \/ RefuseRequest \/ AnswerBusy \/ ServeLate \/ Elsewhere

\* A process that can go on does: its timer of the request, if there is one,
\* fires.  Neither the server nor the network owes it anything.
Spec == Init /\ [][Next]_vars /\ WF_vars(Client)

----------------------------------------------------------------------------
(* Properties. *)

State == UNION {States(t) : t \in Thing}
Telling == UNION {[things -> State] : things \in SUBSET Thing}
Outcome == [ok : {FALSE}] \cup [ok : {TRUE}, told : Telling]

\* Types, and what is where: a request is on its way only while the command
\* waits for it, is sent at most 1 + retries times, and a command that has
\* ended has a status.
TypeOK ==
  /\ server \in Servers
  /\ run \in Invocations /\ PlanOf(run, plan)
  /\ pc \in {"begun", "call", "wire", "shown", "ended"}
  /\ tries \in Nat /\ (tries = 0 \/ tries <= run.retries + 1)
  /\ net.at \in {"none", "sent", "ok", "refused", "busy"}
  /\ (pc = "wire") = (net.at # "none")
  /\ heard \in Seq(Outcome) /\ Len(heard) <= Len(Asks)
  /\ docs \in 0 .. 2 /\ text \in BOOLEAN
  /\ exit \in {"none", "ok", "error", "killed"} /\ (pc = "ended") = (exit # "none")
  /\ done \in Nat /\ adrift \in Nat /\ late \in Nat
  /\ others \in 0 .. MaxOthers /\ calm \in BOOLEAN

\* The documented meaning of a change: what state it leaves its object in.
Goal(cmd) ==
  CASE cmd \in {"ca_create", "ca_import", "ca_rotate", "ca_enable"} -> {"enabled"}
    [] cmd \in {"ca_disable", "machine_disable"} -> {"disabled"}
    [] cmd = "ca_retire" -> {"retired"}
    [] cmd \in {"ca_delete", "machine_delete", "machine_reenroll", "machine_rotate"} -> {"absent"}
    [] cmd \in {"machine_approve", "machine_enable"} -> Active
    [] cmd = "machine_revoke" -> {"revoked"}
    [] OTHER -> {}

\* The views that list CAs or machines, or show one.  The others count or tell events.
Lists == {"ca_list", "ca_current", "ca_export", "ca_fingerprint", "ca_show", "ca_public_key",
          "machine_list", "machine_show", "machine_heartbeat", "machine_sync",
          "rollout_machines", "rollout_stuck", "rollout_explain"}

\* Whether a machine in this state belongs on the list of machines that was asked for, by
\* what docs/machines.md and docs/rollout.md say of each flag typed.
Wanted(r, state) ==
  /\ r.cmd = "machine_list" =>
       /\ r.status # "" => state \in (IF r.status = "active" THEN Active ELSE {r.status})
       /\ r.liveness # "" => Liveness(state) = r.liveness
       /\ \A shortcut \in r.shortcuts : Liveness(state) = shortcut
  /\ r.cmd = "rollout_machines" =>
       /\ r.state = "current" => state = "online"
       /\ r.state = "lagging" => state \in {"pending", "lagging", "stale"}
       /\ r.state = "stuck" => state \in {"offline", "disabled", "revoked"}
  /\ r.cmd \in {"machine_list", "rollout_machines"} /\ r.generation >= 0 =>
       Generation(state) = r.generation
  /\ r.cmd = "rollout_stuck" => state \in {"offline", "disabled", "revoked"}
  /\ r.cmd = "rollout_explain" => state # "online"

\* The documented meaning of a list.
Meant(r) ==
  LET enabled == {c \in CA : server[c] = "enabled"}
  IN  CASE r.cmd = "ca_list" -> {c \in CA : server[c] # "absent"}
        [] r.cmd = "ca_current" -> enabled
        [] r.cmd = "ca_export" -> IF r.all \/ r.id = None THEN enabled ELSE {r.id}
        [] r.cmd = "ca_fingerprint" -> IF r.id = None THEN enabled ELSE {r.id}
        [] r.cmd \in {"machine_list", "rollout_machines", "rollout_stuck", "rollout_explain"} ->
             {m \in Machine : server[m] # "absent" /\ Wanted(r, server[m])}
        [] OTHER -> {r.id}

\* What a command that succeeds, or watches, has shown is so: the server has
\* carried out its change; everything it told of is, unless somebody has
\* changed it since, in the state it told; and a list has all of what the flags
\* typed together ask for and nothing else, however many attempts it took.
\* (What the views that count or tell events say is outside this claim.)
SuccessIsTrue ==
  ((exit = "ok" \/ pc = "shown") /\ calm /\ run.cmd # "doctor") =>
    LET told == heard[1].told
    IN  /\ \A t \in DOMAIN told : told[t] = server[t]
        /\ Goal(run.cmd) # {} => done > 0 /\ \E t \in DOMAIN told : told[t] \in Goal(run.cmd)
        /\ run.cmd \in Lists => DOMAIN told = Meant(run)

\* A change is carried out once, but for the attempts whose answer was lost on
\* the way; and when a command reports an error, it has changed nothing but by
\* such attempts.  There are at most 1 + retries of them.  (retry of changes
\* that are not idempotent: create, rotate, reenroll)
EffectsAccounted ==
  /\ done + late <= adrift + 1
  /\ exit = "error" => done + late <= adrift
  /\ adrift = 0 \/ adrift <= run.retries + 1

\* What destroys a key or an identity is carried out only if the operator said
\* --yes, or chose the output of scripts (docs/ca.md, docs/machines.md); a CA is
\* made only with a passphrase.
NothingWithoutConsent ==
  (done > 0 \/ late > 0) =>
    /\ run.cmd \in {"ca_retire", "ca_delete", "machine_delete", "machine_reenroll", "machine_rotate"}
         => run.yes \/ Structured(run)
    /\ run.cmd \in {"ca_create", "ca_import", "ca_rotate"} => run.passphrase # "none"

\* With json or yaml, stdout is one document and nothing else when the command
\* succeeds, also under --watch; and empty when it fails, but for doctor's report.
OneDocument ==
  Structured(run) /\ exit \in {"ok", "error"} =>
    /\ ~text
    /\ docs = IF exit = "ok" \/ run.cmd = "doctor" THEN 1 ELSE 0

\* doctor reports every check once, on every path; its exit status is that of the
\* report; an account that is not authorized is never told FAIL about the
\* server; and as a readiness gate (docs/diagnostics.md:79) it is passed only if
\* the server was reached, the clock is less than clockDriftFail off, and the
\* server, when it answered, called its CA configured and its audit chain
\* verified.  What makes a check FAIL is the code's word: docs/diagnostics.md
\* has another bound for the clock and asks for an active CA (see README).
DoctorAgrees ==
  run.cmd = "doctor" /\ exit \in {"ok", "error"} /\ ParseFormat(run) =>
    LET checks == runDoctor(run, heard)
        status == Heard(heard, 2)
    IN  /\ \A c \in CheckNames : \E k \in checks : \A x \in checks : x.name = c <=> x = k
        /\ \A x \in checks : x.name \in CheckNames /\ x.status \in CheckStatus
        /\ (exit = "error") = (\E x \in checks : x.status = "fail")
        /\ ~run.authorized => \A x \in checks : x.name \in ServerSide => x.status # "fail"
        /\ exit = "ok" =>
             /\ Succeeds(heard[1])
             /\ run.dated => run.drift < 60
             /\ Succeeds(status) => run.verified /\ run.configured

\* A command without --watch ends, whatever the server and the network do, if
\* its requests have a timeout.
CommandEnds ==
  (pc = "begun" /\ run.limited /\ ~plan.watched) ~> (pc = "ended")
=============================================================================
