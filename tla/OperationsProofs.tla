-------------------------- MODULE OperationsProofs --------------------------
(***************************************************************************)
(* Theorems about Operations, for any CAs and machines, any invocations    *)
(* with any number of retries, and any number of changes by others.        *)
(***************************************************************************)
EXTENDS Operations, TLAPS

Making == {"ca_create", "ca_import", "ca_rotate"}
Destroying == {"ca_retire", "ca_delete", "machine_delete", "machine_reenroll", "machine_rotate"}

----------------------------------------------------------------------------
(* What the plans of the commands have in common. *)

\* p sends request, once the checks c have passed.
Single(r, p, c, request) ==
  /\ p.valid => c
  /\ p.asks = <<request>>
  /\ Structured(r) => ~p.announces /\ ~p.watched
  /\ p.watched => request.does = "view"

\* What the operator must have given before the checks c pass.
Consent(r, c) ==
  /\ r.cmd \in Destroying /\ c => r.yes \/ Structured(r)
  /\ r.cmd \in Making /\ c => r.passphrase # "none"

LEMMA SendsSingle ==
  ASSUME NEW r, NEW c, NEW request
  PROVE  Single(r, Sends(c, request), c, request)
BY DEF Single, Sends

LEMMA AnnouncedSingle ==
  ASSUME NEW r, NEW c, NEW request
  PROVE  Single(r, Announced(r, Sends(c, request)), c, request)
BY DEF Single, Sends, Announced

LEMMA WatchedSingle ==
  ASSUME NEW r, NEW w, NEW c, NEW request, request.does = "view"
  PROVE  /\ Single(r, runMaybeWatchCA(r, w, Sends(c, request)), c, request)
         /\ Single(r, runMaybeWatch(r, w, Sends(c, request)), c, request)
         /\ Single(r, runMaybeWatchOps(r, w, Sends(c, request)), c, request)
BY DEF Single, Sends, runMaybeWatchCA, runMaybeWatch, runMaybeWatchOps

LEMMA GetViews ==
  ASSUME NEW thing, NEW with
  PROVE  Get(thing).does = "view" /\ GetWith(thing, with).does = "view"
BY DEF Get, GetWith

\* A command of `mayfly ca`, of `mayfly machine` and of `mayfly rollout` sends one request.
LEMMA PlanCA ==
  ASSUME NEW r, NEW p, newCACommand(r, p)
  PROVE  \E c, request : Single(r, p, c, request) /\ Consent(r, c)
<1>1. CASE \/ r.cmd = "ca_list" /\ p = newCAListCommand(r)
           \/ r.cmd = "ca_show" /\ p = newCAShowCommand(r)
           \/ r.cmd = "ca_stats" /\ p = newCAStatsCommand(r)
           \/ r.cmd = "ca_rollout" /\ p = newCARolloutCommand(r)
           \/ r.cmd = "ca_current" /\ p = newCACurrentCommand(r)
  BY <1>1, WatchedSingle, GetViews DEF newCAListCommand, newCAShowCommand,
    newCAStatsCommand, newCARolloutCommand, newCACurrentCommand, Consent, Making,
    Destroying
<1>2. CASE \/ r.cmd = "ca_create" /\ p = newCACreateCommand(r)
           \/ r.cmd = "ca_import" /\ p = newCAImportCommand(r)
  BY <1>2, AnnouncedSingle DEF newCACreateCommand, newCAImportCommand, caPassphrase,
    Consent, Making, Destroying
<1>3. CASE r.cmd = "ca_rotate" /\ p = newCARotateCommand(r)
  BY <1>3, SendsSingle DEF newCARotateCommand, caPassphrase, Consent, Making, Destroying
<1>4. CASE \/ r.cmd = "ca_export" /\ p = newCAExportCommand(r)
           \/ r.cmd = "ca_public_key" /\ p = newCAPublicKeyCommand(r)
           \/ r.cmd = "ca_fingerprint" /\ p = newCAFingerprintCommand(r)
  BY <1>4, SendsSingle DEF newCAExportCommand, newCAPublicKeyCommand,
    newCAFingerprintCommand, Consent, Making, Destroying
<1>5. CASE \/ r.cmd = "ca_enable" /\ p = newCALifecycleCommand("enable", r)
           \/ r.cmd = "ca_disable" /\ p = newCALifecycleCommand("disable", r)
  BY <1>5, AnnouncedSingle DEF newCALifecycleCommand, Consent, Making, Destroying
<1>6. CASE r.cmd = "ca_retire" /\ p = newCARetireCommand(r)
  BY <1>6, AnnouncedSingle DEF newCARetireCommand, Consent, Making, Destroying
<1>7. CASE r.cmd = "ca_delete" /\ p = newCADeleteCommand(r)
  BY <1>7, SendsSingle DEF newCADeleteCommand, Consent, Making, Destroying
<1> QED
  BY <1>1, <1>2, <1>3, <1>4, <1>5, <1>6, <1>7 DEF newCACommand

LEMMA PlanMachine ==
  ASSUME NEW r, NEW p, newMachineCommand(r, p)
  PROVE  \E c, request : Single(r, p, c, request) /\ Consent(r, c)
<1>1. CASE r.cmd = "machine_list" /\ p = newMachineListCommand(r)
  BY <1>1, WatchedSingle, GetViews DEF newMachineListCommand, Consent, Making,
    Destroying
<1>2. CASE \/ r.cmd = "machine_show" /\ p = newMachineShowCommand(r)
           \/ r.cmd = "machine_status" /\ p = newMachineStatusCommand(r)
           \/ r.cmd = "machine_heartbeat" /\ p = newMachineHeartbeatCommand(r)
           \/ r.cmd = "machine_sync" /\ p = newMachineSyncCommand(r)
  BY <1>2, WatchedSingle, GetViews DEF newMachineShowCommand, newMachineStatusCommand,
    newMachineHeartbeatCommand, newMachineSyncCommand, Consent, Making, Destroying
<1>3. CASE \/ r.cmd = "machine_approve" /\ p = newMachineLifecycleCommand("approve", r)
           \/ r.cmd = "machine_disable" /\ p = newMachineLifecycleCommand("disable", r)
           \/ r.cmd = "machine_enable" /\ p = newMachineLifecycleCommand("enable", r)
           \/ r.cmd = "machine_revoke" /\ p = newMachineLifecycleCommand("revoke", r)
  BY <1>3, AnnouncedSingle DEF newMachineLifecycleCommand, Consent, Making, Destroying
<1>4. CASE r.cmd = "machine_delete" /\ p = newMachineDeleteCommand(r)
  BY <1>4, SendsSingle DEF newMachineDeleteCommand, Consent, Making, Destroying
<1>5. CASE \/ r.cmd = "machine_reenroll" /\ p = newMachineReissueCommand(r)
           \/ r.cmd = "machine_rotate" /\ p = newMachineReissueCommand(r)
  BY <1>5, SendsSingle DEF newMachineReissueCommand, Consent, Making, Destroying
<1> QED
  BY <1>1, <1>2, <1>3, <1>4, <1>5 DEF newMachineCommand

LEMMA PlanRollout ==
  ASSUME NEW r, NEW p, newRolloutCommand(r, p)
  PROVE  \E c, request : Single(r, p, c, request) /\ Consent(r, c)
<1>1. CASE \/ r.cmd = "rollout_status" /\ p = newRolloutStatusCommand(r)
           \/ r.cmd = "rollout_watch" /\ p = newRolloutWatchCommand(r)
           \/ r.cmd = "rollout_summary" /\ p = newRolloutSummaryCommand(r)
  BY <1>1, WatchedSingle, GetViews DEF newRolloutStatusCommand, newRolloutWatchCommand,
    newRolloutSummaryCommand, renderStatus, Consent, Making, Destroying
<1>2. CASE \/ r.cmd = "rollout_generations" /\ p = newRolloutGenerationsCommand(r)
           \/ r.cmd = "rollout_stuck" /\ p = newRolloutStuckCommand(r)
           \/ r.cmd = "rollout_health" /\ p = newRolloutHealthCommand(r)
           \/ r.cmd = "rollout_explain" /\ p = newRolloutExplainCommand(r)
           \/ r.cmd = "rollout_history" /\ p = newRolloutHistoryCommand(r)
  BY <1>2, WatchedSingle, GetViews DEF newRolloutGenerationsCommand,
    newRolloutStuckCommand, newRolloutHealthCommand, newRolloutExplainCommand,
    newRolloutHistoryCommand, Consent, Making, Destroying
<1>3. CASE \/ r.cmd = "rollout_machines" /\ p = newRolloutMachinesCommand(r)
           \/ r.cmd = "rollout_timeline" /\ p = newRolloutTimelineCommand(r)
  <2>1. PICK on, with :
          p = runMaybeWatchOps(r, r.watch, Sends(adminClient(r), GetWith(on, with)))
    BY <1>3 DEF newRolloutMachinesCommand, newRolloutTimelineCommand
  <2> QED
    BY <1>3, <2>1, WatchedSingle, GetViews DEF Consent, Making, Destroying
<1> QED
  BY <1>1, <1>2, <1>3 DEF newRolloutCommand

\* doctor only looks.
LEMMA PlanDoctor ==
  ASSUME NEW r, NEW p, p = newDoctorCommand(r)
  PROVE  /\ p.valid /\ ~p.watched /\ ~p.announces
         /\ Len(p.asks) \in {0, 1, 3}
         /\ \A i \in 1 .. Len(p.asks) : p.asks[i].does = "view"
<1>1. \/ p.asks = <<Get("info"), Get("status"), Get("health")>>
      \/ p.asks = <<Get("info")>>
      \/ p.asks = <<>>
  BY DEF newDoctorCommand
<1>2. Get("info").does = "view" /\ Get("status").does = "view" /\ Get("health").does = "view"
  BY DEF Get
<1> QED
  BY <1>1, <1>2 DEF newDoctorCommand

\* Either way, as far as the state machine goes.
Changing == Len(Asks) = 1 /\ Changes(Asks[1])

LEMMA PlanFacts ==
  ASSUME PlanOf(run, plan)
  PROVE  /\ Len(Asks) \in Nat
         /\ Changing => ~plan.watched /\ run.cmd # "doctor"
         /\ ~Changing => \A i \in 1 .. Len(Asks) : ~Changes(Asks[i])
         /\ Structured(run) => ~plan.watched /\ ~plan.announces
         /\ run.cmd = "doctor" => plan.valid /\ ~plan.watched
         /\ plan.valid => Consent(run, TRUE)
<1>1. CASE run.cmd = "doctor" /\ plan = newDoctorCommand(run)
  BY <1>1, PlanDoctor DEF Changing, Changes, Asks, Consent, Making, Destroying
<1>2. ASSUME \E c, request : Single(run, plan, c, request) /\ Consent(run, c),
             run.cmd # "doctor"
      PROVE  /\ Len(Asks) \in Nat
             /\ Changing => ~plan.watched /\ run.cmd # "doctor"
             /\ ~Changing => \A i \in 1 .. Len(Asks) : ~Changes(Asks[i])
             /\ Structured(run) => ~plan.watched /\ ~plan.announces
             /\ plan.valid => Consent(run, TRUE)
  <2>1. PICK c, request : Single(run, plan, c, request) /\ Consent(run, c)
    BY <1>2
  <2>2. Len(Asks) = 1 /\ Asks[1] = request /\ Len(Asks) \in Nat
    BY <2>1 DEF Single, Asks
  <2>3. plan.valid => Consent(run, TRUE)
    BY <2>1 DEF Single, Consent
  <2>4. \A i \in 1 .. Len(Asks) : Asks[i] = request
    BY <2>2
  <2>5. Changing = Changes(request)
    BY <2>2 DEF Changing, Changes
  <2>6. ~Changing => \A i \in 1 .. Len(Asks) : ~Changes(Asks[i])
    BY <2>4, <2>5
  <2>7. Changing => ~plan.watched
    BY <2>1, <2>5 DEF Single, Changes
  <2>8. Structured(run) => ~plan.watched /\ ~plan.announces
    BY <2>1 DEF Single
  <2> QED
    BY <1>2, <2>2, <2>3, <2>6, <2>7, <2>8, Zenon
<1>3. CASE newCACommand(run, plan)
  <2>1. run.cmd # "doctor"
    BY <1>3 DEF newCACommand
  <2> QED
    BY <1>2, <1>3, <2>1, PlanCA
<1>4. CASE newMachineCommand(run, plan)
  <2>1. run.cmd # "doctor"
    BY <1>4 DEF newMachineCommand
  <2> QED
    BY <1>2, <1>4, <2>1, PlanMachine
<1>5. CASE newRolloutCommand(run, plan)
  <2>1. run.cmd # "doctor"
    BY <1>5 DEF newRolloutCommand
  <2> QED
    BY <1>2, <1>5, <2>1, PlanRollout
<1>6. CASE \/ run.cmd = "health" /\ plan = newHealthCommand(run)
           \/ run.cmd = "status" /\ plan = newStatusCommand(run)
           \/ run.cmd = "metrics" /\ plan = newMetricsCommand(run)
  <2>1. \E c, request : Single(run, plan, c, request) /\ Consent(run, c)
    BY <1>6, WatchedSingle, GetViews
       DEF newHealthCommand, newStatusCommand, newMetricsCommand, Consent, Making, Destroying
  <2> QED
    BY <1>2, <1>6, <2>1
<1> QED
  BY <1>1, <1>3, <1>4, <1>5, <1>6 DEF PlanOf

----------------------------------------------------------------------------
(* The server's state, and what is told of it. *)

LEMMA ToldType ==
  ASSUME NEW s \in Servers, NEW things \in SUBSET Thing
  PROVE  Told(things, s) \in Telling
<1>1. \A t \in things : s[t] \in State
  BY DEF Servers, State
<1>2. Told(things, s) \in [things -> State]
  BY <1>1 DEF Told
<1> QED
  BY <1>2 DEF Telling

LEMMA SubjectType ==
  ASSUME NEW request, NEW s
  PROVE  Subject(request, s) \subseteq Thing
BY Zenon DEF Subject, Thing

LEMMA EffectType ==
  ASSUME NEW request, NEW s \in Servers, NEW e \in Effects(request, s)
  PROVE  e.on \in Thing /\ e.after \in Servers
<1>1. PICK t \in Targets(request) :
        \E z \in Accepts(request.does, t, s) : e = [on |-> t, after |-> z]
  BY DEF Effects
<1>2. t \in Thing
  BY DEF Targets, Thing
<1>3. ASSUME NEW z \in Accepts(request.does, t, s)
      PROVE  z \in Servers
  BY <1>2, <1>3 DEF Accepts, Servers
<1> QED
  BY <1>1, <1>2, <1>3

----------------------------------------------------------------------------
(* The inductive invariant. *)

\* An answer on its way back tells of things.
NetType == net.at = "ok" => net.told \in Telling

\* A request is under way only for a plan that may be carried out, and
\* repeated only if it is watched.
Underway == /\ pc \in {"call", "wire"} => Ready /\ Len(heard) < Len(Asks)
            /\ heard # <<>> => Ready
            /\ pc = "shown" => plan.watched

\* How often the change may have been carried out.
Pending == IF net.at = "ok" THEN 1 ELSE 0
Exposed == IF net.at \in {"sent", "ok"} THEN 1 ELSE 0
Tallied ==
  /\ ~Changing => done = 0 /\ adrift = 0 /\ late = 0
  /\ heard = <<>> => done + late <= adrift + Pending
  /\ done + late <= adrift + 1
  /\ exit = "error" /\ Changing => heard = <<>>
  /\ pc = "begun" /\ heard = <<>> => adrift = 0
  /\ pc = "call" => adrift <= tries
  /\ pc = "wire" => adrift + Exposed <= tries
  /\ adrift = 0 \/ adrift <= run.retries + 1
  /\ done + late + adrift > 0 => Ready

\* What is written is written at the end.
Documented ==
  /\ Structured(run) /\ pc # "ended" => docs = 0 /\ ~text
  /\ OneDocument

IInv == TypeOK /\ NetType /\ Underway /\ Tallied /\ Documented

LEMMA InitIInv == Init => IInv
<1> SUFFICES ASSUME Init PROVE IInv
  OBVIOUS
<1> USE OperationsAssumption
<1>0. heard \in Seq(Outcome) /\ Len(heard) = 0 /\ Len(Asks) \in Nat
  BY PlanFacts DEF Init
<1>1. TypeOK
  <2>1. server \in Servers /\ others \in 0 .. MaxOthers
    BY DEF Init
  <2>2. net.at = "none" /\ (pc = "wire") = (net.at # "none") /\ (pc = "ended") = (exit # "none")
    BY DEF Init, Quiet
  <2>3. run \in Invocations /\ PlanOf(run, plan) /\ Len(heard) <= Len(Asks)
    BY <1>0 DEF Init
  <2>4. tries = 0 /\ docs = 0 /\ done = 0 /\ adrift = 0 /\ late = 0 /\ pc = "begun" /\ exit = "none"
    BY DEF Init
  <2>5. text \in BOOLEAN /\ calm \in BOOLEAN
    BY DEF Init
  <2> QED
    BY <1>0, <2>1, <2>2, <2>3, <2>4, <2>5 DEF TypeOK
<1>2. NetType /\ Underway
  BY DEF Init, NetType, Underway, Quiet
<1>3. Tallied
  BY DEF Init, Tallied, Quiet, Pending
<1>4. Documented
  BY DEF Init, Documented, OneDocument
<1> QED
  BY <1>1, <1>2, <1>3, <1>4 DEF IInv

LEMMA Fixed ==
  ASSUME [Next]_vars
  PROVE  UNCHANGED command /\ Asks' = Asks /\ (Changing' <=> Changing) /\ (Ready' <=> Ready)
<1>1. UNCHANGED command
  BY DEF Next, Client, vars, command, Refuse, Do, Send, NoToken, Exhausted,
    TimesOut, HearAnswer, HearRefusal, HearBusy, Render, Refresh, Tick, Breaks,
    Unusable, Interrupt, Serve, RefuseRequest, AnswerBusy, ServeLate, Elsewhere
<1> QED
  BY <1>1 DEF command, Asks, Changing, Changes, Ready

\* While a command waits for a change, it has heard of nothing yet.
LEMMA Waiting ==
  ASSUME IInv, pc \in {"call", "wire"}
  PROVE  Ready /\ (Changes(Asked) => Changing) /\ (Changing => heard = <<>>)
<1>1. /\ Ready /\ Len(heard) \in Nat /\ Len(Asks) \in Nat /\ Len(heard) < Len(Asks)
      /\ heard \in Seq(Outcome)
      /\ ~Changing => \A i \in 1 .. Len(Asks) : ~Changes(Asks[i])
  BY PlanFacts DEF IInv, Underway, TypeOK
<1>2. Changes(Asked) => Changing
  BY <1>1 DEF Asked
<1>3. Changing => heard = <<>>
  BY <1>1 DEF Changing
<1> QED
  BY <1>1, <1>2, <1>3

\* Giving up an attempt leaves nothing on its way.
LEMMA GivenUp ==
  ASSUME IInv, pc = "wire", GiveUp
  PROVE  /\ net'.at = "none" /\ Pending' = 0 /\ Exposed' = 0
         /\ adrift' \in Nat /\ late' \in Nat /\ done' = done
         /\ ~Changing => adrift' = 0 /\ late' = 0
         /\ done' + late' <= adrift'
         /\ adrift' <= tries
         /\ adrift' = 0 \/ adrift' <= run.retries + 1
<1>1. net'.at = "none"
  BY DEF GiveUp, Quiet
<1>2. Pending' = 0 /\ Exposed' = 0
  BY <1>1 DEF Pending, Exposed
<1>3. /\ done \in Nat /\ adrift \in Nat /\ late \in Nat /\ tries \in Nat
      /\ run.retries \in Int /\ (tries = 0 \/ tries <= run.retries + 1)
      /\ Changes(Asked) => Changing
      /\ Changing => heard = <<>>
  BY Waiting, OperationsAssumption DEF IInv, TypeOK
<1>4. CASE net.at = "sent" /\ Changes(Asked)
  <2>1. adrift' = adrift + 1 /\ late' = late + 1 /\ done' = done
    BY <1>4 DEF GiveUp
  <2>2. Pending = 0 /\ Exposed = 1
    BY <1>4 DEF Pending, Exposed
  <2> QED
    BY <1>1, <1>2, <1>3, <1>4, <2>1, <2>2 DEF IInv, Tallied
<1>5. CASE net.at = "ok" /\ Changes(Asked)
  <2>1. adrift' = adrift + 1 /\ late' = late /\ done' = done
    BY <1>5 DEF GiveUp
  <2>2. Pending = 1 /\ Exposed = 1
    BY <1>5 DEF Pending, Exposed
  <2> QED
    BY <1>1, <1>2, <1>3, <1>5, <2>1, <2>2 DEF IInv, Tallied
<1>6. CASE ~(net.at \in {"sent", "ok"} /\ Changes(Asked))
  <2>1. adrift' = adrift /\ late' = late /\ done' = done
    BY <1>6 DEF GiveUp
  <2>2. Exposed \in {0, 1} /\ (net.at = "ok" => ~Changes(Asked)) /\ (net.at # "ok" => Pending = 0)
    BY <1>6 DEF Pending, Exposed
  <2>3. CASE ~Changing
    BY <1>1, <1>2, <1>3, <2>1, <2>2, <2>3 DEF IInv, Tallied
  <2>4. CASE Changing
    <3>1. Changes(Asked)
      BY <1>3, <2>4 DEF IInv, Asked, Changing
    <3> QED
      BY <1>1, <1>2, <1>3, <2>1, <2>2, <2>4, <3>1 DEF IInv, Tallied
  <2> QED
    BY <2>3, <2>4
<1> QED
  BY <1>4, <1>5, <1>6

LEMMA Slack ==
  ASSUME NEW d \in Nat, NEW l \in Nat, NEW a \in Nat, d + l <= a
  PROVE  d + l <= a + 1 /\ d + l <= a + 0
OBVIOUS

LEMMA GivenUpTallied ==
  ASSUME IInv, [Next]_vars, GiveUp, pc = "wire", run' = run,
         \/ heard' # <<>> /\ ~Changing /\ pc' = "begun" /\ exit' = exit
         \/ heard' = heard /\ pc' = "ended" /\ exit' \in {"error", "killed"}
         \/ heard' = heard /\ pc' = "call" /\ exit' = exit /\ tries' = tries
  PROVE  Tallied'
<1>1. /\ net'.at = "none" /\ Pending' = 0 /\ Exposed' = 0
      /\ adrift' \in Nat /\ late' \in Nat /\ done' = done
      /\ ~Changing => adrift' = 0 /\ late' = 0
      /\ done' + late' <= adrift'
      /\ adrift' <= tries
      /\ adrift' = 0 \/ adrift' <= run.retries + 1
  BY GivenUp
<1>2. (Changing' <=> Changing) /\ (Ready' <=> Ready)
  BY Fixed
<1>3. /\ Ready /\ (Changing => heard = <<>>)
      /\ done \in Nat /\ exit = "none" /\ (~Changing => done = 0)
  BY Waiting DEF IInv, TypeOK, Tallied
<1>4. (~Changing => done = 0 /\ adrift = 0 /\ late = 0)' /\ (done + late + adrift > 0 => Ready)'
  BY <1>1, <1>2, <1>3
<1>5. /\ (heard = <<>> => done + late <= adrift + Pending)'
      /\ (done + late <= adrift + 1)'
  <2>1. /\ done' \in Nat /\ adrift' \in Nat /\ late' \in Nat
        /\ done' + late' <= adrift' /\ Pending' = 0
    BY <1>1, <1>3
  <2> QED
    BY <2>1, Slack
<1>6. (exit = "error" /\ Changing => heard = <<>>)'
  BY <1>2, <1>3
<1>7. (pc = "begun" /\ heard = <<>> => adrift = 0)'
  BY <1>1
<1>8. /\ (pc = "call" => adrift <= tries)' /\ (pc # "wire")'
      /\ (adrift = 0 \/ adrift <= run.retries + 1)'
  BY <1>1
<1> QED
  BY <1>4, <1>5, <1>6, <1>7, <1>8 DEF Tallied

\* Taking note of an answer.
LEMMA Noted ==
  ASSUME NEW outcome, heard \in Seq(Outcome), heard' = Append(heard, outcome)
  PROVE  heard' # <<>> /\ Len(heard') = Len(heard) + 1
OBVIOUS

LEMMA Served ==
  ASSUME Serve
  PROVE  net'.at = "ok"
<1>1. CASE Changes(Asked)
  <2>1. PICK e \in Effects(Asked, server) : net' = [at |-> "ok", told |-> Told({e.on}, e.after)]
    BY <1>1 DEF Serve
  <2> QED
    BY <2>1
<1>2. CASE ~Changes(Asked)
  BY <1>2 DEF Serve
<1> QED
  BY <1>1, <1>2

\* Underway is kept.
LEMMA StepUnderway ==
  ASSUME IInv, [Next]_vars
  PROVE  Underway'
<1> USE DEF IInv
<1>0. Len(heard) \in Nat /\ Len(heard) <= Len(Asks) /\ Len(Asks) \in Nat
  BY PlanFacts DEF TypeOK, Asks
<1>1. CASE Refuse
  BY <1>1, <1>0 DEF Refuse, Underway, Ready, Asks, command, tally, peace, End
<1>2. CASE Do
  BY <1>2, <1>0 DEF Do, Underway, Ready, Asks, command, output, tally, peace
<1>3. CASE Send
  BY <1>3, <1>0 DEF Send, Underway, Ready, Asks, command, output, tally, peace
<1>4. CASE NoToken
  BY <1>4, <1>0 DEF NoToken, Underway, Ready, Asks, command, tally, peace, Return,
     Fails, Failed, Succeeds, End
<1>5. CASE Exhausted
  BY <1>5, <1>0 DEF Exhausted, Underway, Ready, Asks, command, tally, peace, Return,
     Fails, Failed, Succeeds, End
<1>6. CASE TimesOut
  BY <1>6, <1>0 DEF TimesOut, Underway, Ready, Asks, command, peace, Return, Fails,
     Failed, Succeeds, End, GiveUp, Quiet, Asked
<1>7. CASE HearAnswer
  BY <1>7, <1>0 DEF HearAnswer, Underway, Ready, Asks, command, tally, peace, Return,
     Succeeds, End, Quiet
<1>8. CASE HearRefusal
  BY <1>8, <1>0 DEF HearRefusal, Underway, Ready, Asks, command, tally, peace, Return,
     Fails, Failed, Succeeds, End, Quiet
<1>9. CASE HearBusy
  BY <1>9, <1>0 DEF HearBusy, Underway, Ready, Asks, command, tally, peace, Return,
     Fails, Failed, Succeeds, End, Quiet
<1>10. CASE Render
  BY <1>10, <1>0 DEF Render, Underway, Ready, Asks, command, tally, peace, End,
     Written, Answered
<1>11. CASE Refresh
  BY <1>11, <1>0 DEF Refresh, Underway, Ready, Asks, command, tally, peace, Written,
     Answered
<1>12. CASE Tick
  BY <1>12, <1>0 DEF Tick, Underway, Ready, Asks, command, output, tally, peace
<1>13. CASE Breaks
  BY <1>13, <1>0 DEF Breaks, Underway, Ready, Asks, command, output, peace, GiveUp,
     Quiet, Asked
<1>14. CASE Unusable
  BY <1>14, <1>0 DEF Unusable, Underway, Ready, Asks, command, peace, Return, Fails,
     Failed, Succeeds, End, GiveUp, Quiet, Asked
<1>15. CASE Interrupt
  BY <1>15, <1>0 DEF Interrupt, Underway, Ready, Asks, command, tally, peace, End,
     GiveUp, Quiet, Asked
<1>16. CASE Serve
  BY <1>16, <1>0 DEF Serve, Underway, Ready, Asks, command, output, Asked
<1>17. CASE RefuseRequest
  BY <1>17, <1>0 DEF RefuseRequest, Underway, Ready, Asks, command, output, tally,
     peace
<1>18. CASE AnswerBusy
  BY <1>18, <1>0 DEF AnswerBusy, Underway, Ready, Asks, command, output, peace, Asked
<1>19. CASE ServeLate
  BY <1>19, <1>0 DEF ServeLate, Underway, Ready, Asks, command, output
<1>20. CASE Elsewhere
  BY <1>20, <1>0 DEF Elsewhere, Underway, Ready, Asks, command, output, tally
<1>21. CASE UNCHANGED vars
  BY <1>21, <1>0 DEF vars, Underway, Ready, Asks, command, output, tally, peace
<1> QED
  BY <1>1, <1>2, <1>3, <1>4, <1>5, <1>6, <1>7, <1>8, <1>9, <1>10, <1>11, <1>12, <1>13,
     <1>14, <1>15, <1>16, <1>17, <1>18, <1>19, <1>20, <1>21 DEF Next, Client

\* NetType is kept.
LEMMA StepNet ==
  ASSUME IInv, [Next]_vars
  PROVE  NetType'
<1> USE DEF IInv
<1>0. server \in Servers /\ (\A e \in Effects(Asked, server) : Told({e.on}, e.after) \in Telling)
      /\ Told(Subject(Asked, server), server) \in Telling
  BY ToldType, EffectType, SubjectType DEF TypeOK
<1>1. CASE Refuse
  BY <1>1, <1>0 DEF Refuse, NetType, Changes, command, tally, peace, End
<1>2. CASE Do
  BY <1>2, <1>0 DEF Do, NetType, Changes, command, output, tally, peace
<1>3. CASE Send
  BY <1>3, <1>0 DEF Send, NetType, Changes, command, output, tally, peace
<1>4. CASE NoToken
  BY <1>4, <1>0 DEF NoToken, NetType, Changes, command, tally, peace, Return, Fails,
     Failed, Succeeds, End
<1>5. CASE Exhausted
  BY <1>5, <1>0 DEF Exhausted, NetType, Changes, command, tally, peace, Return, Fails,
     Failed, Succeeds, End
<1>6. CASE TimesOut
  BY <1>6, <1>0 DEF TimesOut, NetType, Changes, command, peace, Return, Fails, Failed,
     Succeeds, End, GiveUp, Quiet, Asked
<1>7. CASE HearAnswer
  BY <1>7, <1>0 DEF HearAnswer, NetType, Changes, command, tally, peace, Return,
     Succeeds, End, Quiet
<1>8. CASE HearRefusal
  BY <1>8, <1>0 DEF HearRefusal, NetType, Changes, command, tally, peace, Return,
     Fails, Failed, Succeeds, End, Quiet
<1>9. CASE HearBusy
  BY <1>9, <1>0 DEF HearBusy, NetType, Changes, command, tally, peace, Return, Fails,
     Failed, Succeeds, End, Quiet
<1>10. CASE Render
  BY <1>10, <1>0 DEF Render, NetType, Changes, command, tally, peace, End, Written,
     Answered
<1>11. CASE Refresh
  BY <1>11, <1>0 DEF Refresh, NetType, Changes, command, tally, peace, Written,
     Answered
<1>12. CASE Tick
  BY <1>12, <1>0 DEF Tick, NetType, Changes, command, output, tally, peace
<1>13. CASE Breaks
  BY <1>13, <1>0 DEF Breaks, NetType, Changes, command, output, peace, GiveUp, Quiet,
     Asked
<1>14. CASE Unusable
  BY <1>14, <1>0 DEF Unusable, NetType, Changes, command, peace, Return, Fails,
     Failed, Succeeds, End, GiveUp, Quiet, Asked
<1>15. CASE Interrupt
  BY <1>15, <1>0 DEF Interrupt, NetType, Changes, command, tally, peace, End, GiveUp,
     Quiet, Asked
<1>16. CASE Serve
  <2>1. net'.at = "ok"
    BY <1>16, Served
  <2>2. net'.told \in Telling
    <3>1. CASE Changes(Asked)
      <4>1. PICK e \in Effects(Asked, server) : net' = [at |-> "ok", told |-> Told({e.on}, e.after)]
        BY <1>16, <3>1 DEF Serve
      <4> QED
        BY <1>0, <4>1
    <3>2. CASE ~Changes(Asked)
      BY <1>16, <3>2, <1>0 DEF Serve
    <3> QED
      BY <3>1, <3>2
  <2> QED
    BY <2>2 DEF NetType
<1>17. CASE RefuseRequest
  BY <1>17, <1>0 DEF RefuseRequest, NetType, Changes, command, output, tally, peace
<1>18. CASE AnswerBusy
  BY <1>18, <1>0 DEF AnswerBusy, NetType, Changes, command, output, peace, Asked
<1>19. CASE ServeLate
  BY <1>19, <1>0 DEF ServeLate, NetType, Changes, command, output
<1>20. CASE Elsewhere
  BY <1>20, <1>0 DEF Elsewhere, NetType, Changes, command, output, tally
<1>21. CASE UNCHANGED vars
  BY <1>21, <1>0 DEF vars, NetType, Changes, command, output, tally, peace
<1> QED
  BY <1>1, <1>2, <1>3, <1>4, <1>5, <1>6, <1>7, <1>8, <1>9, <1>10, <1>11, <1>12, <1>13,
     <1>14, <1>15, <1>16, <1>17, <1>18, <1>19, <1>20, <1>21 DEF Next, Client

\* Written is kept.
LEMMA StepWritten ==
  ASSUME IInv, [Next]_vars
  PROVE  Documented'
<1> USE DEF IInv
<1>0. docs \in 0 .. 2 /\ (Structured(run) => ~plan.announces /\ ~plan.watched /\ ParseFormat(run))
      /\ (run.cmd = "doctor" => plan.valid) /\ (pc = "ended" <=> exit # "none")
  BY PlanFacts DEF TypeOK, Structured, ParseFormat
<1>1. CASE Refuse
  BY <1>1, <1>0 DEF Refuse, Documented, OneDocument, Ready, command, tally, peace, End
<1>2. CASE Do
  BY <1>2, <1>0 DEF Do, Documented, OneDocument, Ready, command, output, tally, peace
<1>3. CASE Send
  BY <1>3, <1>0 DEF Send, Documented, OneDocument, Ready, command, output, tally,
     peace
<1>4. CASE NoToken
  BY <1>4, <1>0 DEF NoToken, Documented, OneDocument, Ready, command, tally, peace,
     Return, Fails, Failed, Succeeds, End
<1>5. CASE Exhausted
  BY <1>5, <1>0 DEF Exhausted, Documented, OneDocument, Ready, command, tally, peace,
     Return, Fails, Failed, Succeeds, End
<1>6. CASE TimesOut
  BY <1>6, <1>0 DEF TimesOut, Documented, OneDocument, Ready, command, peace, Return,
     Fails, Failed, Succeeds, End, GiveUp, Quiet, Asked
<1>7. CASE HearAnswer
  BY <1>7, <1>0 DEF HearAnswer, Documented, OneDocument, Ready, command, tally, peace,
     Return, Succeeds, End, Quiet
<1>8. CASE HearRefusal
  BY <1>8, <1>0 DEF HearRefusal, Documented, OneDocument, Ready, command, tally,
     peace, Return, Fails, Failed, Succeeds, End, Quiet
<1>9. CASE HearBusy
  BY <1>9, <1>0 DEF HearBusy, Documented, OneDocument, Ready, command, tally, peace,
     Return, Fails, Failed, Succeeds, End, Quiet
<1>10. CASE Render
  <2>1. /\ pc' = "ended" /\ exit' \in {"ok", "error"} /\ run' = run /\ plan' = plan
        /\ exit' = "error" => run.cmd = "doctor"
        /\ text' = (text \/ ~Structured(run) \/ plan.announces)
        /\ docs' = IF Structured(run) /\ docs < 2 THEN docs + 1 ELSE docs
        /\ pc # "ended"
    BY <1>10 DEF Render, Written, End, command, Answered
  <2>2. CASE Structured(run)
    <3>1. docs' = 1
      BY <2>1, <2>2 DEF Documented
    <3>2. ~text'
      BY <1>0, <2>1, <2>2 DEF Documented
    <3>3. Structured(run)' /\ run.cmd' = run.cmd
      BY <2>1, <2>2 DEF Structured
    <3> QED
      BY <2>1, <3>1, <3>2, <3>3 DEF Documented, OneDocument
  <2>3. CASE ~Structured(run)
    <3>1. ~Structured(run)'
      BY <2>1, <2>3 DEF Structured
    <3> QED
      BY <3>1 DEF Documented, OneDocument
  <2> QED
    BY <2>2, <2>3
<1>11. CASE Refresh
  BY <1>11, <1>0 DEF Refresh, Documented, OneDocument, Ready, command, tally, peace,
     Written, Answered
<1>12. CASE Tick
  BY <1>12, <1>0 DEF Tick, Documented, OneDocument, Ready, command, output, tally,
     peace
<1>13. CASE Breaks
  BY <1>13, <1>0 DEF Breaks, Documented, OneDocument, Ready, command, output, peace,
     GiveUp, Quiet, Asked
<1>14. CASE Unusable
  BY <1>14, <1>0 DEF Unusable, Documented, OneDocument, Ready, command, peace, Return,
     Fails, Failed, Succeeds, End, GiveUp, Quiet, Asked
<1>15. CASE Interrupt
  BY <1>15, <1>0 DEF Interrupt, Documented, OneDocument, Ready, command, tally, peace,
     End, GiveUp, Quiet, Asked
<1>16. CASE Serve
  BY <1>16, <1>0 DEF Serve, Documented, OneDocument, Ready, command, output, Asked
<1>17. CASE RefuseRequest
  BY <1>17, <1>0 DEF RefuseRequest, Documented, OneDocument, Ready, command, output,
     tally, peace
<1>18. CASE AnswerBusy
  BY <1>18, <1>0 DEF AnswerBusy, Documented, OneDocument, Ready, command, output,
     peace, Asked
<1>19. CASE ServeLate
  BY <1>19, <1>0 DEF ServeLate, Documented, OneDocument, Ready, command, output
<1>20. CASE Elsewhere
  BY <1>20, <1>0 DEF Elsewhere, Documented, OneDocument, Ready, command, output, tally
<1>21. CASE UNCHANGED vars
  BY <1>21, <1>0 DEF vars, Documented, OneDocument, Ready, command, output, tally, peace
<1> QED
  BY <1>1, <1>2, <1>3, <1>4, <1>5, <1>6, <1>7, <1>8, <1>9, <1>10, <1>11, <1>12, <1>13,
     <1>14, <1>15, <1>16, <1>17, <1>18, <1>19, <1>20, <1>21 DEF Next, Client

\* Tallied is kept.
LEMMA StepTallied ==
  ASSUME IInv, [Next]_vars
  PROVE  Tallied'
<1> USE DEF IInv
<1> USE OperationsAssumption
<1>a. /\ done \in Nat /\ adrift \in Nat /\ late \in Nat /\ tries \in Nat
      /\ run.retries \in Int /\ (tries = 0 \/ tries <= run.retries + 1)
      /\ (pc = "wire") = (net.at # "none") /\ heard \in Seq(Outcome)
  BY DEF TypeOK
<1>b. /\ Changing => ~plan.watched /\ run.cmd # "doctor"
      /\ pc \in {"call", "wire"} =>
           Ready /\ (Changes(Asked) => Changing) /\ (Changing => heard = <<>>)
      /\ pc = "shown" => plan.watched
      /\ ~Ready => heard = <<>>
  BY PlanFacts, Waiting DEF TypeOK, Underway
<1>c. UNCHANGED command /\ (Changing' <=> Changing) /\ (Ready' <=> Ready)
  BY Fixed
<1>d. \A outcome : heard' = Append(heard, outcome) => heard' # <<>>
  BY <1>a, Noted
<1>1. CASE Refuse
  BY <1>1, <1>a, <1>b, <1>c, <1>d DEF Refuse, Tallied, Pending, Exposed, command,
     tally, peace, End
<1>2. CASE Do
  <2>1. adrift = 0
    <3>1. Changing => heard = <<>>
      BY <1>2, <1>a DEF Do, Changing
    <3> QED
      BY <1>2, <3>1 DEF Do, Tallied
  <2> QED
    BY <1>2, <2>1, <1>a, <1>b, <1>c DEF Do, Tallied, Pending, Exposed, output, tally
<1>3. CASE Send
  BY <1>3, <1>a, <1>b, <1>c, <1>d DEF Send, Tallied, Pending, Exposed, command,
     output, tally, peace
<1>4. CASE NoToken
  BY <1>4, <1>a, <1>b, <1>c, <1>d DEF NoToken, Tallied, Pending, Exposed, command,
     tally, peace, Return, Fails, Failed, Succeeds, End
<1>5. CASE Exhausted
  BY <1>5, <1>a, <1>b, <1>c, <1>d DEF Exhausted, Tallied, Pending, Exposed, command,
     tally, peace, Return, Fails, Failed, Succeeds, End
<1>6. CASE TimesOut
  <2>1. /\ GiveUp /\ pc = "wire" /\ run' = run
        /\ \/ heard' # <<>> /\ ~Changing /\ pc' = "begun" /\ exit' = exit
           \/ heard' = heard /\ pc' = "ended" /\ exit' \in {"error", "killed"}
           \/ heard' = heard /\ pc' = "call" /\ exit' = exit /\ tries' = tries
    BY <1>6, <1>b, <1>d DEF TimesOut, command, output, Fails, Return, End, Failed, Succeeds
  <2> QED
    BY <2>1, GivenUpTallied
<1>7. CASE HearAnswer
  <2>1. /\ run' = run /\ heard' # <<>> /\ pc' = "begun" /\ exit' = exit
        /\ done' = done /\ adrift' = adrift /\ late' = late /\ pc = "wire"
    BY <1>7, <1>d DEF HearAnswer, Return, Succeeds, command, tally
  <2>2. exit = "none"
    BY <2>1 DEF TypeOK
  <2> QED
    BY <2>1, <2>2, <1>a, <1>b, <1>c DEF Tallied
<1>8. CASE HearRefusal
  BY <1>8, <1>a, <1>b, <1>c, <1>d DEF HearRefusal, Tallied, Pending, Exposed, command,
     tally, peace, Return, Fails, Failed, Succeeds, End, Quiet
<1>9. CASE HearBusy
  BY <1>9, <1>a, <1>b, <1>c, <1>d DEF HearBusy, Tallied, Pending, Exposed, command,
     tally, peace, Return, Fails, Failed, Succeeds, End, Quiet
<1>10. CASE Render
  BY <1>10, <1>a, <1>b, <1>c, <1>d DEF Render, Tallied, Pending, Exposed, command,
     tally, peace, End, Written, Answered
<1>11. CASE Refresh
  BY <1>11, <1>a, <1>b, <1>c, <1>d DEF Refresh, Tallied, Pending, Exposed, command,
     tally, peace, Written, Answered
<1>12. CASE Tick
  BY <1>12, <1>a, <1>b, <1>c, <1>d DEF Tick, Tallied, Pending, Exposed, command,
     output, tally, peace
<1>13. CASE Breaks
  <2>1. /\ GiveUp /\ pc = "wire" /\ run' = run
        /\ \/ heard' # <<>> /\ ~Changing /\ pc' = "begun" /\ exit' = exit
           \/ heard' = heard /\ pc' = "ended" /\ exit' \in {"error", "killed"}
           \/ heard' = heard /\ pc' = "call" /\ exit' = exit /\ tries' = tries
    BY <1>13, <1>b, <1>d DEF Breaks, command, output
  <2> QED
    BY <2>1, GivenUpTallied
<1>14. CASE Unusable
  <2>1. /\ GiveUp /\ pc = "wire" /\ run' = run
        /\ \/ heard' # <<>> /\ ~Changing /\ pc' = "begun" /\ exit' = exit
           \/ heard' = heard /\ pc' = "ended" /\ exit' \in {"error", "killed"}
           \/ heard' = heard /\ pc' = "call" /\ exit' = exit /\ tries' = tries
    BY <1>14, <1>b, <1>d DEF Unusable, command, output, Fails, Return, End, Failed, Succeeds
  <2> QED
    BY <2>1, GivenUpTallied
<1>15. CASE Interrupt
  <2>1. run' = run /\ heard' = heard /\ pc' = "ended" /\ exit' = "killed"
    BY <1>15 DEF Interrupt, End, command
  <2>2. CASE pc = "wire"
    <3>1. GiveUp
      BY <1>15, <2>2 DEF Interrupt
    <3> QED
      BY <2>1, <2>2, <3>1, GivenUpTallied
  <2>3. CASE pc # "wire"
    BY <1>15, <2>1, <2>3, <1>a, <1>c DEF Interrupt, Tallied, Pending, tally
  <2> QED
    BY <2>2, <2>3
<1>16. CASE Serve
  <2>1. /\ run' = run /\ heard' = heard /\ pc' = pc /\ exit' = exit /\ tries' = tries
        /\ adrift' = adrift /\ late' = late /\ net.at = "sent" /\ net'.at = "ok"
    BY <1>16, Served DEF Serve, command, output
  <2>2. Pending = 0 /\ Exposed = 1 /\ Pending' = 1 /\ Exposed' = 1 /\ pc = "wire" /\ exit = "none"
    BY <2>1, <1>a DEF Pending, Exposed, TypeOK
  <2>3. CASE Changes(Asked)
    <3>1. done' = done + 1
      BY <1>16, <2>3 DEF Serve
    <3> QED
      BY <2>1, <2>2, <2>3, <3>1, <1>a, <1>b, <1>c DEF Tallied
  <2>4. CASE ~Changes(Asked)
    <3>1. done' = done
      BY <1>16, <2>4 DEF Serve
    <3> QED
      BY <2>1, <2>2, <3>1, <1>a, <1>b, <1>c DEF Tallied
  <2> QED
    BY <2>3, <2>4
<1>17. CASE RefuseRequest
  BY <1>17, <1>a, <1>b, <1>c, <1>d DEF RefuseRequest, Tallied, Pending, Exposed,
     command, output, tally, peace
<1>18. CASE AnswerBusy
  <2>1. /\ run' = run /\ heard' = heard /\ pc' = pc /\ exit' = exit /\ tries' = tries
        /\ done' = done /\ net.at \in {"sent", "ok"} /\ net'.at = "busy"
    BY <1>18 DEF AnswerBusy, command, output
  <2>2. /\ Pending' = 0 /\ Exposed = 1 /\ Exposed' = 0 /\ pc = "wire" /\ exit = "none"
        /\ Pending = IF net.at = "ok" THEN 1 ELSE 0
    BY <2>1, <1>a DEF Pending, Exposed, TypeOK
  <2>3. CASE /\ adrift' = adrift + 1
             /\ late' = (IF net.at = "sent" THEN late + 1 ELSE late)
             /\ Changes(Asked)
    BY <2>1, <2>2, <2>3, <1>a, <1>b, <1>c DEF Tallied
  <2>4. CASE adrift' = adrift /\ late' = late /\ ~(Changes(Asked) /\ net.at = "ok")
    <3>1. CASE Changing
      <4>1. Changes(Asked)
        BY <2>2, <3>1, <1>b DEF Asked, Changing
      <4> QED
        BY <2>1, <2>2, <2>4, <3>1, <4>1, <1>a, <1>b, <1>c DEF Tallied
    <3>2. CASE ~Changing
      BY <2>1, <2>2, <2>4, <3>2, <1>a, <1>b, <1>c DEF Tallied
    <3> QED
      BY <3>1, <3>2
  <2> QED
    BY <1>18, <2>3, <2>4 DEF AnswerBusy
<1>19. CASE ServeLate
  BY <1>19, <1>a, <1>b, <1>c, <1>d DEF ServeLate, Tallied, Pending, Exposed, command,
     output
<1>20. CASE Elsewhere
  BY <1>20, <1>a, <1>b, <1>c, <1>d DEF Elsewhere, Tallied, Pending, Exposed, command,
     output, tally
<1>21. CASE UNCHANGED vars
  BY <1>21, <1>a, <1>b, <1>c, <1>d DEF vars, Tallied, Pending, Exposed, command, output,
     tally, peace
<1> QED
  BY <1>1, <1>2, <1>3, <1>4, <1>5, <1>6, <1>7, <1>8, <1>9, <1>10, <1>11, <1>12, <1>13,
     <1>14, <1>15, <1>16, <1>17, <1>18, <1>19, <1>20, <1>21 DEF Next, Client

\* TypeOK is kept.
LEMMA StepType ==
  ASSUME IInv, [Next]_vars
  PROVE  TypeOK'
<1> USE DEF IInv
<1> USE OperationsAssumption
<1>a. TypeOK
  OBVIOUS
<1>b. run.retries \in Int /\ Len(heard) \in Nat /\ Len(Asks) \in Nat /\ MaxOthers \in Nat
  BY PlanFacts DEF TypeOK
<1>c. UNCHANGED <<run, plan>> /\ Asks' = Asks
  BY Fixed DEF command
<1>d. \A outcome \in Outcome : heard' = Append(heard, outcome) =>
        heard' \in Seq(Outcome) /\ Len(heard') = Len(heard) + 1
  BY <1>a, Noted DEF TypeOK
<1>e. Failed \in Outcome /\ (net.at = "ok" => [ok |-> TRUE, told |-> net.told] \in Outcome)
  BY DEF Failed, Outcome, NetType
<1>f. pc \in {"call", "wire"} => Len(heard) < Len(Asks)
  BY DEF Underway
<1>1. CASE Refuse
  BY <1>1, <1>a, <1>b, <1>c, <1>d, <1>e, <1>f DEF Refuse, TypeOK, command, tally,
     peace, End
<1>2. CASE Do
  BY <1>2, <1>a, <1>b, <1>c, <1>d, <1>e, <1>f DEF Do, TypeOK, command, output, tally,
     peace
<1>3. CASE Send
  BY <1>3, <1>a, <1>b, <1>c, <1>d, <1>e, <1>f DEF Send, TypeOK, command, output,
     tally, peace
<1>4. CASE NoToken
  BY <1>4, <1>a, <1>b, <1>c, <1>d, <1>e, <1>f DEF NoToken, TypeOK, command, tally,
     peace, Return, Fails, Failed, Succeeds, End
<1>5. CASE Exhausted
  BY <1>5, <1>a, <1>b, <1>c, <1>d, <1>e, <1>f DEF Exhausted, TypeOK, command, tally,
     peace, Return, Fails, Failed, Succeeds, End
<1>6. CASE TimesOut
  BY <1>6, <1>a, <1>b, <1>c, <1>d, <1>e, <1>f DEF TimesOut, TypeOK, command, peace,
     Return, Fails, Failed, Succeeds, End, GiveUp, Quiet, Asked
<1>7. CASE HearAnswer
  BY <1>7, <1>a, <1>b, <1>c, <1>d, <1>e, <1>f DEF HearAnswer, TypeOK, command, tally,
     peace, Return, Succeeds, End, Quiet
<1>8. CASE HearRefusal
  BY <1>8, <1>a, <1>b, <1>c, <1>d, <1>e, <1>f DEF HearRefusal, TypeOK, command, tally,
     peace, Return, Fails, Failed, Succeeds, End, Quiet
<1>9. CASE HearBusy
  BY <1>9, <1>a, <1>b, <1>c, <1>d, <1>e, <1>f DEF HearBusy, TypeOK, command, tally,
     peace, Return, Fails, Failed, Succeeds, End, Quiet
<1>10. CASE Render
  <2>1. docs' \in 0 .. 2 /\ text' \in BOOLEAN
    BY <1>10 DEF Render, Written, TypeOK
  <2>2. UNCHANGED <<server, net, heard, tally, peace>>
    BY <1>10 DEF Render, Answered
  <2>3. tries' \in {0, tries} /\ pc \notin {"wire", "ended"} /\ pc' # "wire"
    BY <1>10 DEF Render, Answered, End
  <2>4. \/ pc' = "ended" /\ exit' \in {"ok", "error"}
        \/ pc' = "shown" /\ exit' = exit
    BY <1>10 DEF Render, End
  <2> QED
    BY <1>a, <1>b, <1>c, <2>1, <2>2, <2>3, <2>4 DEF TypeOK, tally, peace
<1>11. CASE Refresh
  <2>1. docs' \in 0 .. 2 /\ text' \in BOOLEAN
    BY <1>11 DEF Refresh, Written, TypeOK
  <2>2. UNCHANGED <<server, net, heard, tally, peace>>
    BY <1>11 DEF Refresh, Answered
  <2>3. tries' \in {0, tries} /\ pc \notin {"wire", "ended"} /\ pc' # "wire"
    BY <1>11 DEF Refresh, Answered, End
  <2>4. \/ pc' = "ended" /\ exit' \in {"ok", "error"}
        \/ pc' = "shown" /\ exit' = exit
    BY <1>11 DEF Refresh, End
  <2> QED
    BY <1>a, <1>b, <1>c, <2>1, <2>2, <2>3, <2>4 DEF TypeOK, tally, peace
<1>12. CASE Tick
  BY <1>12, <1>a, <1>b, <1>c, <1>d, <1>e, <1>f DEF Tick, TypeOK, command, output,
     tally, peace
<1>13. CASE Breaks
  BY <1>13, <1>a, <1>b, <1>c, <1>d, <1>e, <1>f DEF Breaks, TypeOK, command, output,
     peace, GiveUp, Quiet, Asked
<1>14. CASE Unusable
  BY <1>14, <1>a, <1>b, <1>c, <1>d, <1>e, <1>f DEF Unusable, TypeOK, command, peace,
     Return, Fails, Failed, Succeeds, End, GiveUp, Quiet, Asked
<1>15. CASE Interrupt
  BY <1>15, <1>a, <1>b, <1>c, <1>d, <1>e, <1>f DEF Interrupt, TypeOK, command, tally,
     peace, End, GiveUp, Quiet, Asked
<1>16. CASE Serve
  <2>1. /\ server' \in Servers /\ done' \in Nat
    <3>1. CASE Changes(Asked)
      <4>1. PICK e \in Effects(Asked, server) : server' = e.after /\ done' = done + 1
        BY <1>16, <3>1 DEF Serve
      <4> QED
        BY <4>1, <1>a, EffectType DEF TypeOK
    <3>2. CASE ~Changes(Asked)
      BY <1>16, <3>2, <1>a DEF Serve, TypeOK
    <3> QED
      BY <3>1, <3>2
  <2>2. UNCHANGED <<command, pc, tries, heard, output, adrift, late, others>> /\ calm' = TRUE
        /\ net.at = "sent" /\ net'.at = "ok"
    BY <1>16, Served DEF Serve
  <2> QED
    BY <1>a, <1>b, <1>c, <2>1, <2>2 DEF TypeOK, output
<1>17. CASE RefuseRequest
  BY <1>17, <1>a, <1>b, <1>c, <1>d, <1>e, <1>f DEF RefuseRequest, TypeOK, command,
     output, tally, peace
<1>18. CASE AnswerBusy
  BY <1>18, <1>a, <1>b, <1>c, <1>d, <1>e, <1>f DEF AnswerBusy, TypeOK, command,
     output, peace, Asked
<1>19. CASE ServeLate
  <2>1. server' \in Servers
    BY <1>19, <1>a, EffectType DEF ServeLate, TypeOK
  <2>2. done' \in Nat /\ late' \in Nat
    BY <1>19, <1>a DEF ServeLate, TypeOK
  <2>3. UNCHANGED <<command, pc, tries, net, heard, output, adrift, others>> /\ calm' = FALSE
    BY <1>19 DEF ServeLate
  <2> QED
    BY <1>a, <1>b, <1>c, <2>1, <2>2, <2>3 DEF TypeOK, output
<1>20. CASE Elsewhere
  <2>1. server' \in Servers
    <3>1. PICK t \in Thing : \E state \in States(t) : server' = [server EXCEPT ![t] = state]
      BY <1>20 DEF Elsewhere
    <3> QED
      BY <3>1, <1>a DEF TypeOK, Servers
  <2>2. others' \in 0 .. MaxOthers
    BY <1>20, <1>a, <1>b DEF Elsewhere, TypeOK
  <2>3. UNCHANGED <<command, pc, tries, net, heard, output, tally>> /\ calm' = FALSE
    BY <1>20 DEF Elsewhere
  <2> QED
    BY <1>a, <1>b, <1>c, <2>1, <2>2, <2>3 DEF TypeOK, output, tally
<1>21. CASE UNCHANGED vars
  BY <1>21, <1>a, <1>b, <1>c, <1>d, <1>e, <1>f DEF vars, TypeOK, command, output, tally, peace
<1> QED
  BY <1>1, <1>2, <1>3, <1>4, <1>5, <1>6, <1>7, <1>8, <1>9, <1>10, <1>11, <1>12, <1>13,
     <1>14, <1>15, <1>16, <1>17, <1>18, <1>19, <1>20, <1>21 DEF Next, Client

----------------------------------------------------------------------------
(* What the answer to a request says, and that it is what the command was meant to do. *)

\* The request of a command that sends one.
TheRequest == Asks[1]

\* request is the right one for the command of r: a view of what is meant, or a change that
\* leads where the command is documented to lead.
Right(r, request) ==
  IF Goal(r.cmd) = {}
  THEN /\ request.does = "view"
       /\ r.cmd \in Lists => Subject(request, server) = Meant(r)
  ELSE /\ request.does # "view"
       /\ \A t \in Targets(request) : To(request.does, t) \subseteq Goal(r.cmd)

LEMMA GetFields ==
  ASSUME NEW thing
  PROVE  /\ Get(thing).does = "view" /\ Get(thing).on = thing
         /\ \A verb : Post(verb, thing).does = verb /\ Post(verb, thing).on = thing
BY DEF Get, Post

LEMMA GetWithFields ==
  ASSUME NEW thing, NEW with
  PROVE  /\ GetWith(thing, with).does = "view"
         /\ GetWith(thing, with).on = thing
         /\ GetWith(thing, with).with = with
BY DEF GetWith

LEMMA OneRequest ==
  ASSUME NEW r, NEW c, NEW request
  PROVE  /\ Sends(c, request).asks = <<request>>
         /\ Announced(r, Sends(c, request)).asks = <<request>>
         /\ \A w : /\ runMaybeWatchCA(r, w, Sends(c, request)).asks = <<request>>
                  /\ runMaybeWatch(r, w, Sends(c, request)).asks = <<request>>
                  /\ runMaybeWatchOps(r, w, Sends(c, request)).asks = <<request>>
BY DEF Sends, Announced, runMaybeWatchCA, runMaybeWatch, runMaybeWatchOps

\* What a view selects.
LEMMA Subjects ==
  /\ \A request : request.on \in Thing => Subject(request, server) = {request.on}
  /\ \A request : request.on = "cas" =>
       Subject(request, server) = {c \in CA : server[c] # "absent"}
  /\ \A request : request.on = "bundle" =>
       Subject(request, server) = {c \in CA : server[c] = "enabled"}
  /\ \A request : request.on \in {"machines", "rollout_machines"} =>
       Subject(request, server) =
         {m \in {x \in Machine : server[x] # "absent"} : Selects(request.with, server[m])}
  /\ \A request : request.on = "stuck" => Subject(request, server) =
       {m \in {x \in Machine : server[x] # "absent"} : RolloutState(server[m]) \in {"stuck"}}
  /\ \A request : request.on = "explain" => Subject(request, server) =
       {m \in {x \in Machine : server[x] # "absent"} :
          RolloutState(server[m]) \in {"lagging", "stuck"}}
<1>1. \A x \in Collections : x \notin Thing
  BY NamesAssumption
<1> QED
  BY <1>1, Zenon DEF Subject, Collections

\* The states a change leads to.
LEMMA Tos ==
  /\ \A verb \in {"create", "rotate"} : \A t : To(verb, t) = {"enabled"}
  /\ \A t \in CA : To("enable", t) = {"enabled"}
  /\ \A t \in Machine : To("enable", t) = Active
  /\ \A t : /\ To("disable", t) = {"disabled"} /\ To("retire", t) = {"retired"}
            /\ To("approve", t) = Active /\ To("revoke", t) = {"revoked"}
            /\ To("delete", t) = {"absent"} /\ To("reissue", t) = {"absent"}
BY NamesAssumption DEF To

LEMMA RightView ==
  ASSUME NEW r, NEW p, NEW request, NEW w, NEW c, Goal(r.cmd) = {}, request.does = "view",
         r.cmd \in Lists => Subject(request, server) = Meant(r),
         \/ p = Sends(c, request)
         \/ p = runMaybeWatchCA(r, w, Sends(c, request))
         \/ p = runMaybeWatch(r, w, Sends(c, request))
         \/ p = runMaybeWatchOps(r, w, Sends(c, request))
  PROVE  \E q : p.asks = <<q>> /\ Right(r, q)
<1>1. p.asks = <<request>>
  BY DEF Sends, runMaybeWatchCA, runMaybeWatch, runMaybeWatchOps
<1> QED
  BY <1>1 DEF Right

LEMMA RightGet ==
  ASSUME NEW r, NEW p, NEW thing, NEW w, NEW c, Goal(r.cmd) = {},
         r.cmd \in Lists => Subject(Get(thing), server) = Meant(r),
         \/ p = Sends(c, Get(thing))
         \/ p = runMaybeWatchCA(r, w, Sends(c, Get(thing)))
         \/ p = runMaybeWatch(r, w, Sends(c, Get(thing)))
         \/ p = runMaybeWatchOps(r, w, Sends(c, Get(thing)))
  PROVE  \E q : p.asks = <<q>> /\ Right(r, q)
<1>1. Get(thing).does = "view"
  BY GetFields
<1> QED
  BY <1>1, RightView, Zenon

LEMMA RightChange ==
  ASSUME NEW r, NEW p, NEW verb, NEW c, Goal(r.cmd) # {}, verb # "view",
         \A t \in Targets(Post(verb, r.id)) : To(verb, t) \subseteq Goal(r.cmd),
         \/ p = Sends(c, Post(verb, r.id))
         \/ p = Announced(r, Sends(c, Post(verb, r.id)))
  PROVE  \E q : p.asks = <<q>> /\ Right(r, q)
<1>1. p.asks = <<Post(verb, r.id)>>
  BY OneRequest
<1>2. Post(verb, r.id).does = verb
  BY DEF Post
<1> QED
  BY <1>1, <1>2 DEF Right

\* A command of `mayfly ca` sends the right request.
LEMMA RightCA ==
  ASSUME NEW r \in Invocations, NEW p, newCACommand(r, p)
  PROVE  \E q : p.asks = <<q>> /\ Right(r, q)
<1>u. /\ r.cmd \in OneCA => r.id \in CA
      /\ r.cmd \in {"ca_export", "ca_fingerprint", "ca_rotate"} => r.id \in CA \cup {None}
      /\ r.cmd \in OneMachine => r.id \in Machine
  BY InvocationsAssumption
<1> USE <1>u DEF OneCA, OneMachine
<1>n. None \notin Thing
  BY NamesAssumption
<1>t. \A verb : r.id \in CA => Targets(Post(verb, r.id)) = {r.id}
  BY <1>n, GetFields DEF Targets, Thing
<1>i. \A thing \in CA : Subject(Get(thing), server) = {thing}
  BY Subjects, GetFields DEF Thing
<1>1. CASE r.cmd = "ca_list" /\ p = newCAListCommand(r)
  <2>1. Goal(r.cmd) = {} /\ Subject(Get("cas"), server) = Meant(r)
    BY <1>1, Subjects, GetFields DEF Goal, Meant
  <2> QED
    BY <1>1, RightGet, <2>1 DEF newCAListCommand
<1>2. CASE r.cmd = "ca_show" /\ p = newCAShowCommand(r)
  <2>1. Goal(r.cmd) = {} /\ Subject(Get(r.id), server) = Meant(r)
    BY <1>2, <1>i DEF Goal, Meant
  <2> QED
    BY <1>2, RightGet, <2>1 DEF newCAShowCommand
<1>3. CASE \/ r.cmd = "ca_create" /\ p = newCACreateCommand(r)
           \/ r.cmd = "ca_import" /\ p = newCAImportCommand(r)
  <2>1. Goal(r.cmd) = {"enabled"} /\ To("create", r.id) = {"enabled"} /\ r.id \in CA
    BY <1>3, Tos DEF Goal
  <2> QED
    BY <1>3, RightChange, <1>t, <2>1 DEF newCACreateCommand, newCAImportCommand
<1>4. CASE r.cmd = "ca_export" /\ p = newCAExportCommand(r)
  <2>1. CASE r.all \/ r.id = None
    <3>1. Goal(r.cmd) = {} /\ Subject(Get("bundle"), server) = Meant(r)
      BY <1>4, <2>1, Subjects, GetFields DEF Goal, Meant
    <3> QED
      BY <1>4, RightGet, <2>1, <3>1 DEF newCAExportCommand
  <2>2. CASE ~(r.all \/ r.id = None)
    <3>1. Goal(r.cmd) = {} /\ Subject(Get(r.id), server) = Meant(r)
      BY <1>4, <1>i, <2>2 DEF Goal, Meant
    <3> QED
      BY <1>4, RightGet, <2>2, <3>1 DEF newCAExportCommand
  <2> QED
    BY <2>1, <2>2
<1>5. CASE r.cmd = "ca_rotate" /\ p = newCARotateCommand(r)
  <2>1. Goal(r.cmd) = {"enabled"} /\ \A t : To("rotate", t) = {"enabled"}
    BY <1>5, Tos DEF Goal
  <2> QED
    BY <1>5, RightChange, <2>1 DEF newCARotateCommand
<1>6. CASE r.cmd = "ca_enable" /\ p = newCALifecycleCommand("enable", r)
  <2>1. Goal(r.cmd) = {"enabled"} /\ r.id \in CA /\ To("enable", r.id) = {"enabled"}
    BY <1>6, Tos DEF Goal
  <2> QED
    BY <1>6, RightChange, <1>t, <2>1 DEF newCALifecycleCommand
<1>7. CASE r.cmd = "ca_disable" /\ p = newCALifecycleCommand("disable", r)
  <2>1. Goal(r.cmd) = {"disabled"} /\ \A t : To("disable", t) = {"disabled"}
    BY <1>7, Tos DEF Goal
  <2> QED
    BY <1>7, RightChange, <2>1 DEF newCALifecycleCommand
<1>8. CASE r.cmd = "ca_retire" /\ p = newCARetireCommand(r)
  <2>1. Goal(r.cmd) = {"retired"} /\ \A t : To("retire", t) = {"retired"}
    BY <1>8, Tos DEF Goal
  <2> QED
    BY <1>8, RightChange, <2>1 DEF newCARetireCommand
<1>9. CASE r.cmd = "ca_delete" /\ p = newCADeleteCommand(r)
  <2>1. Goal(r.cmd) = {"absent"} /\ \A t : To("delete", t) = {"absent"}
    BY <1>9, Tos DEF Goal
  <2> QED
    BY <1>9, RightChange, <2>1 DEF newCADeleteCommand
<1>10. CASE r.cmd = "ca_stats" /\ p = newCAStatsCommand(r)
  <2>1. Goal(r.cmd) = {} /\ r.cmd \notin Lists
    BY <1>10 DEF Goal, Lists
  <2> QED
    BY <1>10, RightGet, <2>1 DEF newCAStatsCommand
<1>11. CASE r.cmd = "ca_rollout" /\ p = newCARolloutCommand(r)
  <2>1. Goal(r.cmd) = {} /\ r.cmd \notin Lists
    BY <1>11 DEF Goal, Lists
  <2> QED
    BY <1>11, RightGet, <2>1 DEF newCARolloutCommand
<1>12. CASE r.cmd = "ca_current" /\ p = newCACurrentCommand(r)
  <2>1. Goal(r.cmd) = {} /\ Subject(Get("bundle"), server) = Meant(r)
    BY <1>12, Subjects, GetFields DEF Goal, Meant
  <2> QED
    BY <1>12, RightGet, <2>1 DEF newCACurrentCommand
<1>13. CASE r.cmd = "ca_public_key" /\ p = newCAPublicKeyCommand(r)
  <2>1. Goal(r.cmd) = {} /\ Subject(Get(r.id), server) = Meant(r)
    BY <1>13, <1>i DEF Goal, Meant
  <2> QED
    BY <1>13, RightGet, <2>1 DEF newCAPublicKeyCommand
<1>14. CASE r.cmd = "ca_fingerprint" /\ p = newCAFingerprintCommand(r)
  <2>1. CASE r.id = None
    <3>1. Goal(r.cmd) = {} /\ Subject(Get("bundle"), server) = Meant(r)
      BY <1>14, <2>1, Subjects, GetFields DEF Goal, Meant
    <3> QED
      BY <1>14, RightGet, <2>1, <3>1 DEF newCAFingerprintCommand
  <2>2. CASE r.id # None
    <3>1. Goal(r.cmd) = {} /\ Subject(Get(r.id), server) = Meant(r)
      BY <1>14, <1>i, <2>2 DEF Goal, Meant
    <3> QED
      BY <1>14, RightGet, <2>2, <3>1 DEF newCAFingerprintCommand
  <2> QED
    BY <2>1, <2>2
<1> QED
  BY <1>1, <1>2, <1>3, <1>4, <1>5, <1>6, <1>7, <1>8, <1>9, <1>10, <1>11, <1>12, <1>13, <1>14
  DEF newCACommand

\* A generation that is asked for is never taken for one that is not.
LEMMA Unset ==
  ASSUME NEW g \in Int, g >= 0
  PROVE  g # -1
OBVIOUS

\* What query makes of the flags asks for what each of them says.
LEMMA ListSelects ==
  ASSUME NEW r \in Invocations, r.cmd = "machine_list", ~Contradictory(r),
         NEW m \in Machine, NEW state \in States(m), state # "absent"
  PROVE  Selects(query(r), state) <=> Wanted(r, state)
<1> DEFINE q == query(r)
<1>a. /\ r.shortcuts \subseteq Live /\ r.liveness \in Live \cup {""} /\ r.generation \in Int
      /\ r.status \in {"", "pending", "active", "disabled", "revoked"}
  BY InvocationsAssumption
<1>b. state \in {"pending", "online", "lagging", "stale", "offline", "disabled", "revoked"}
  BY NamesAssumption DEF States, Active
<1>1. /\ q.status = r.status /\ q.state = ""
      /\ q.generation = IF r.generation >= 0 THEN r.generation ELSE -1
      /\ q.liveness = IF "online" \in r.shortcuts THEN "online"
                      ELSE IF "offline" \in r.shortcuts THEN "offline"
                      ELSE IF "stale" \in r.shortcuts THEN "stale"
                      ELSE r.liveness
  BY DEF query, Unfiltered
<1> HIDE DEF q
<1>2. q.status \in {"", Status(state)} <=>
        (r.status # "" => state \in (IF r.status = "active" THEN Active ELSE {r.status}))
  BY <1>a, <1>b, <1>1 DEF Status, Active
<1>3. q.liveness \in {"", Liveness(state)} <=>
        /\ r.liveness # "" => Liveness(state) = r.liveness
        /\ \A shortcut \in r.shortcuts : Liveness(state) = shortcut
  <2>1. CASE r.shortcuts = {}
    BY <1>1, <2>1
  <2>2. CASE r.shortcuts # {}
    <3>1. PICK x \in r.shortcuts : TRUE
      BY <2>2
    <3>2. r.shortcuts = {x} /\ x \in Live /\ r.liveness = ""
      BY <1>a, <2>2, <3>1 DEF Contradictory
    <3>3. q.liveness = x /\ x # ""
      BY <1>1, <3>2 DEF Live
    <3> QED
      BY <3>2, <3>3
  <2> QED
    BY <2>1, <2>2
<1>4. q.generation \in {-1, Generation(state)} <=>
        (r.generation >= 0 => Generation(state) = r.generation)
  <2>1. CASE r.generation >= 0
    <3>1. r.generation # -1
      BY <1>a, <2>1, Unset
    <3> QED
      BY <1>1, <2>1, <3>1
  <2>2. CASE ~(r.generation >= 0)
    BY <1>1, <2>2
  <2> QED
    BY <2>1, <2>2
<1>5. q.state \in {"", "all", RolloutState(state)}
  BY <1>1
<1> QED
  BY <1>2, <1>3, <1>4, <1>5 DEF Selects, Wanted, q

\* Likewise for the flags of `mayfly rollout machines`.
LEMMA RolloutSelects ==
  ASSUME NEW r \in Invocations, r.cmd = "rollout_machines",
         NEW m \in Machine, NEW state \in States(m), state # "absent",
         NEW q, q.status = "", q.liveness = "", q.state = r.state,
         q.generation = IF r.generation >= 0 THEN r.generation ELSE -1
  PROVE  Selects(q, state) <=> Wanted(r, state)
<1>a. r.generation \in Int /\ r.state \in {"", "all", "current", "lagging", "stuck"}
  BY InvocationsAssumption
<1>1. q.generation \in {-1, Generation(state)} <=>
        (r.generation >= 0 => Generation(state) = r.generation)
  <2>1. CASE r.generation >= 0
    <3>1. r.generation # -1
      BY <1>a, <2>1, Unset
    <3> QED
      BY <2>1, <3>1
  <2>2. CASE ~(r.generation >= 0)
    BY <2>2
  <2> QED
    BY <2>1, <2>2
<1>2. state \in {"pending", "online", "lagging", "stale", "offline", "disabled", "revoked"}
  BY NamesAssumption DEF States, Active
<1>3. q.state \in {"", "all", RolloutState(state)} <=>
        /\ r.state = "current" => state = "online"
        /\ r.state = "lagging" => state \in {"pending", "lagging", "stale"}
        /\ r.state = "stuck" => state \in {"offline", "disabled", "revoked"}
  BY <1>a, <1>2 DEF RolloutState
<1> QED
  BY <1>1, <1>3 DEF Selects, Wanted

LEMMA RightMachine ==
  ASSUME NEW r \in Invocations, NEW p, newMachineCommand(r, p), p.valid, server \in Servers
  PROVE  \E q : p.asks = <<q>> /\ Right(r, q)
<1>m. \A m \in Machine : server[m] \in States(m)
  BY DEF Servers, Thing
<1>u. /\ r.cmd \in OneCA => r.id \in CA
      /\ r.cmd \in {"ca_export", "ca_fingerprint", "ca_rotate"} => r.id \in CA \cup {None}
      /\ r.cmd \in OneMachine => r.id \in Machine
  BY InvocationsAssumption
<1> USE <1>u DEF OneCA, OneMachine
<1>t. \A verb : r.id \in Machine => Targets(Post(verb, r.id)) = {r.id}
  BY GetFields, NamesAssumption DEF Targets, Thing
<1>i. \A thing \in Machine : Subject(Get(thing), server) = {thing}
  BY Subjects, GetFields DEF Thing
<1>1. CASE r.cmd = "machine_list" /\ p = newMachineListCommand(r)
  <2> DEFINE request == GetWith("machines", query(r))
  <2>1. p = runMaybeWatch(r, r.watch, Sends(~Contradictory(r) /\ machineClient(r), request))
    BY <1>1 DEF newMachineListCommand
  <2>2. ~Contradictory(r)
    BY <2>1 DEF runMaybeWatch, Sends
  <2>q. request.on = "machines" /\ request.with = query(r) /\ request.does = "view"
    BY GetWithFields
  <2> HIDE DEF request
  <2>3. Subject(request, server) =
          {m \in {x \in Machine : server[x] # "absent"} : Selects(query(r), server[m])}
    BY <2>q, Subjects
  <2>4. Meant(r) = {m \in Machine : server[m] # "absent" /\ Wanted(r, server[m])}
    BY <1>1 DEF Meant
  <2>5. \A m \in Machine :
          server[m] # "absent" => (Selects(query(r), server[m]) <=> Wanted(r, server[m]))
    BY <1>1, <1>m, <2>2, ListSelects
  <2>6. Subject(request, server) = Meant(r)
    BY <2>3, <2>4, <2>5
  <2>7. Goal(r.cmd) = {} /\ request.does = "view"
    BY <1>1, <2>q DEF Goal
  <2> QED
    BY <2>1, <2>6, <2>7, RightView
<1>2. CASE \/ r.cmd = "machine_show" /\ p = newMachineShowCommand(r)
           \/ r.cmd = "machine_heartbeat" /\ p = newMachineHeartbeatCommand(r)
           \/ r.cmd = "machine_sync" /\ p = newMachineSyncCommand(r)
  <2>1. Goal(r.cmd) = {} /\ Subject(Get(r.id), server) = Meant(r)
    BY <1>2, <1>i DEF Goal, Meant
  <2> QED
    BY <1>2, <2>1, RightGet
    DEF newMachineShowCommand, newMachineHeartbeatCommand, newMachineSyncCommand
<1>3. CASE r.cmd = "machine_status" /\ p = newMachineStatusCommand(r)
  <2>1. Goal(r.cmd) = {} /\ r.cmd \notin Lists
    BY <1>3 DEF Goal, Lists
  <2> QED
    BY <1>3, <2>1, RightGet DEF newMachineStatusCommand
<1>4. CASE r.cmd = "machine_approve" /\ p = newMachineLifecycleCommand("approve", r)
  <2>1. Goal(r.cmd) = Active /\ Active # {} /\ \A t : To("approve", t) = Active
    <3>1. Active # {}
      BY DEF Active
    <3> QED
      BY <1>4, <3>1, Tos DEF Goal
  <2> QED
    BY <1>4, <2>1, RightChange DEF newMachineLifecycleCommand
<1>5. CASE r.cmd = "machine_disable" /\ p = newMachineLifecycleCommand("disable", r)
  <2>1. Goal(r.cmd) = {"disabled"} /\ \A t : To("disable", t) = {"disabled"}
    BY <1>5, Tos DEF Goal
  <2> QED
    BY <1>5, <2>1, RightChange DEF newMachineLifecycleCommand
<1>6. CASE r.cmd = "machine_enable" /\ p = newMachineLifecycleCommand("enable", r)
  <2>1. /\ Goal(r.cmd) = Active /\ Active # {} /\ r.id \in Machine
        /\ To("enable", r.id) = Active
    <3>1. Active # {}
      BY DEF Active
    <3> QED
      BY <1>6, <3>1, Tos DEF Goal
  <2>2. \A t \in Targets(Post("enable", r.id)) : To("enable", t) \subseteq Goal(r.cmd)
    BY <1>t, <2>1
  <2> QED
    BY <1>6, <2>1, <2>2, RightChange DEF newMachineLifecycleCommand
<1>7. CASE r.cmd = "machine_revoke" /\ p = newMachineLifecycleCommand("revoke", r)
  <2>1. Goal(r.cmd) = {"revoked"} /\ \A t : To("revoke", t) = {"revoked"}
    BY <1>7, Tos DEF Goal
  <2> QED
    BY <1>7, <2>1, RightChange DEF newMachineLifecycleCommand
<1>8. CASE r.cmd = "machine_delete" /\ p = newMachineDeleteCommand(r)
  <2>1. Goal(r.cmd) = {"absent"} /\ \A t : To("delete", t) = {"absent"}
    BY <1>8, Tos DEF Goal
  <2> QED
    BY <1>8, <2>1, RightChange DEF newMachineDeleteCommand
<1>9. CASE \/ r.cmd = "machine_reenroll" /\ p = newMachineReissueCommand(r)
           \/ r.cmd = "machine_rotate" /\ p = newMachineReissueCommand(r)
  <2>1. Goal(r.cmd) = {"absent"} /\ \A t : To("reissue", t) = {"absent"}
    BY <1>9, Tos DEF Goal
  <2> QED
    BY <1>9, <2>1, RightChange DEF newMachineReissueCommand
<1> QED
  BY <1>1, <1>2, <1>3, <1>4, <1>5, <1>6, <1>7, <1>8, <1>9 DEF newMachineCommand

LEMMA RightRollout ==
  ASSUME NEW r \in Invocations, NEW p, newRolloutCommand(r, p), server \in Servers
  PROVE  \E q : p.asks = <<q>> /\ Right(r, q)
<1>m. \A m \in Machine : server[m] \in States(m)
  BY DEF Servers, Thing
<1>1. CASE r.cmd = "rollout_machines" /\ p = newRolloutMachinesCommand(r)
  <2> DEFINE with == [Unfiltered EXCEPT
                        !.state = r.state,
                        !.generation = IF r.generation >= 0 THEN r.generation ELSE -1]
             request == GetWith("rollout_machines", with)
  <2>1. p = runMaybeWatchOps(r, r.watch, Sends(adminClient(r), request))
    BY <1>1 DEF newRolloutMachinesCommand
  <2>2. /\ with.status = "" /\ with.liveness = "" /\ with.state = r.state
        /\ with.generation = IF r.generation >= 0 THEN r.generation ELSE -1
    BY DEF Unfiltered
  <2> HIDE DEF with
  <2>3. request.on = "rollout_machines" /\ request.with = with /\ request.does = "view"
    BY GetWithFields
  <2> HIDE DEF request
  <2>4. Subject(request, server) =
          {m \in {x \in Machine : server[x] # "absent"} : Selects(with, server[m])}
    BY <2>3, Subjects
  <2>5. Meant(r) = {m \in Machine : server[m] # "absent" /\ Wanted(r, server[m])}
    BY <1>1 DEF Meant
  <2>6. \A m \in Machine :
          server[m] # "absent" => (Selects(with, server[m]) <=> Wanted(r, server[m]))
    BY <1>1, <1>m, <2>2, RolloutSelects
  <2>7. Subject(request, server) = Meant(r)
    BY <2>4, <2>5, <2>6
  <2>8. Goal(r.cmd) = {}
    BY <1>1 DEF Goal
  <2> QED
    BY <2>1, <2>3, <2>7, <2>8, RightView
<1>2. CASE r.cmd = "rollout_stuck" /\ p = newRolloutStuckCommand(r)
  <2>1. Subject(Get("stuck"), server) =
          {m \in {x \in Machine : server[x] # "absent"} : RolloutState(server[m]) \in {"stuck"}}
    BY Subjects, GetFields
  <2>2. Meant(r) = {m \in Machine : server[m] # "absent" /\ Wanted(r, server[m])}
    BY <1>2 DEF Meant
  <2>3. \A state : RolloutState(state) \in {"stuck"} <=> Wanted(r, state)
    BY <1>2 DEF RolloutState, Wanted
  <2>4. Goal(r.cmd) = {} /\ Subject(Get("stuck"), server) = Meant(r)
    BY <1>2, <2>1, <2>2, <2>3 DEF Goal
  <2> QED
    BY <1>2, <2>4, RightGet DEF newRolloutStuckCommand
<1>3. CASE r.cmd = "rollout_explain" /\ p = newRolloutExplainCommand(r)
  <2>1. Subject(Get("explain"), server) =
          {m \in {x \in Machine : server[x] # "absent"} :
             RolloutState(server[m]) \in {"lagging", "stuck"}}
    BY Subjects, GetFields
  <2>2. Meant(r) = {m \in Machine : server[m] # "absent" /\ Wanted(r, server[m])}
    BY <1>3 DEF Meant
  <2>3. \A state : RolloutState(state) \in {"lagging", "stuck"} <=> Wanted(r, state)
    BY <1>3 DEF RolloutState, Wanted
  <2>4. Goal(r.cmd) = {} /\ Subject(Get("explain"), server) = Meant(r)
    BY <1>3, <2>1, <2>2, <2>3 DEF Goal
  <2> QED
    BY <1>3, <2>4, RightGet DEF newRolloutExplainCommand
<1>4. CASE /\ newRolloutCommand(r, p)
           /\ r.cmd \notin {"rollout_machines", "rollout_stuck", "rollout_explain"}
  <2>1. /\ r.cmd \in {"rollout_status", "rollout_watch", "rollout_summary",
                      "rollout_generations", "rollout_health", "rollout_timeline",
                      "rollout_history"}
        /\ \E w, on, with :
             \/ p = runMaybeWatchOps(r, w, Sends(adminClient(r), Get(on)))
             \/ p = runMaybeWatchOps(r, w, Sends(adminClient(r), GetWith(on, with)))
    BY <1>4 DEF newRolloutCommand, newRolloutStatusCommand, newRolloutWatchCommand,
      newRolloutSummaryCommand, renderStatus, newRolloutGenerationsCommand,
      newRolloutHealthCommand, newRolloutTimelineCommand, newRolloutHistoryCommand
  <2>2. Goal(r.cmd) = {} /\ r.cmd \notin Lists
    BY <2>1 DEF Goal, Lists
  <2>3. PICK w, request :
          /\ p = runMaybeWatchOps(r, w, Sends(adminClient(r), request))
          /\ request.does = "view"
    BY <2>1, GetFields, GetWithFields
  <2> QED
    BY <2>2, <2>3, RightView
<1> QED
  BY <1>1, <1>2, <1>3, <1>4 DEF newRolloutCommand

\* Every command but doctor sends the one request that does what the command is for.
LEMMA RightPlan ==
  ASSUME NEW r \in Invocations, NEW p, PlanOf(r, p), p.valid, r.cmd # "doctor",
         server \in Servers
  PROVE  \E q : p.asks = <<q>> /\ Right(r, q)
<1>1. CASE r.cmd = "health" /\ p = newHealthCommand(r)
  <2>1. Goal(r.cmd) = {} /\ r.cmd \notin Lists
    BY <1>1 DEF Goal, Lists
  <2> QED
    BY <1>1, <2>1, RightGet DEF newHealthCommand
<1>2. CASE r.cmd = "status" /\ p = newStatusCommand(r)
  <2>1. Goal(r.cmd) = {} /\ r.cmd \notin Lists
    BY <1>2 DEF Goal, Lists
  <2> QED
    BY <1>2, <2>1, RightGet DEF newStatusCommand
<1>3. CASE r.cmd = "metrics" /\ p = newMetricsCommand(r)
  <2>1. Goal(r.cmd) = {} /\ r.cmd \notin Lists
    BY <1>3 DEF Goal, Lists
  <2> QED
    BY <1>3, <2>1, RightGet DEF newMetricsCommand
<1> QED
  BY <1>1, <1>2, <1>3, RightCA, RightMachine, RightRollout DEF PlanOf

\* What is told bears out what was asked for, as long as nobody else changes anything.
Bears(told) ==
  /\ \A t \in DOMAIN told : told[t] = server[t]
  /\ IF Changes(TheRequest)
     THEN done > 0 /\ \E t \in DOMAIN told \cap Targets(TheRequest) :
                         told[t] \in To(TheRequest.does, t)
     ELSE DOMAIN told = Subject(TheRequest, server)

Truthful ==
  run.cmd # "doctor" =>
    /\ net.at = "ok" /\ calm => Bears(net.told)
    /\ heard # <<>> /\ calm => Bears(heard[1].told)
    /\ exit = "ok" \/ pc = "shown" => heard # <<>>

\* An answer of the server bears out what was asked for.
LEMMA ServedBears ==
  ASSUME IInv, Serve, Asked = TheRequest, Asks' = Asks
  PROVE  Bears(net.told)'
<1>1. TheRequest' = TheRequest
  BY DEF TheRequest
<1>2. (Changes(TheRequest)' <=> Changes(TheRequest)) /\ Targets(TheRequest)' = Targets(TheRequest)
  BY <1>1 DEF Changes, Targets
<1>3. CASE Changes(Asked)
  <2>1. PICK e \in Effects(Asked, server) :
          /\ server' = e.after /\ done' = done + 1
          /\ net' = [at |-> "ok", told |-> Told({e.on}, e.after)]
    BY <1>3 DEF Serve
  <2>2. PICK t \in Targets(Asked) : \E z \in Accepts(Asked.does, t, server) :
          e = [on |-> t, after |-> z]
    BY <2>1 DEF Effects
  <2>3. PICK z \in Accepts(Asked.does, t, server) : e = [on |-> t, after |-> z]
    BY <2>2
  <2>4. t \in Thing /\ server \in [Thing -> UNION {States(x) : x \in Thing}]
    BY <2>2 DEF Targets, Thing, IInv, TypeOK, Servers
  <2>5. z[t] \in To(Asked.does, t)
    BY <2>3, <2>4 DEF Accepts
  <2>6. server' = z /\ net'.told = [x \in {t} |-> z[x]] /\ done' = done + 1 /\ done \in Nat
    BY <2>1, <2>3 DEF Told, IInv, TypeOK
  <2>7. DOMAIN net'.told = {t} /\ net'.told[t] = server'[t]
    BY <2>6
  <2>8. To(TheRequest.does, t)' = To(TheRequest.does, t)
    BY <1>1 DEF To
  <2>9. done' > 0
    BY <2>6
  <2> QED
    BY <1>1, <1>2, <1>3, <2>2, <2>5, <2>6, <2>7, <2>8, <2>9 DEF Bears
<1>4. CASE ~Changes(Asked)
  <2>1. net' = [at |-> "ok", told |-> Told(Subject(Asked, server), server)] /\ server' = server
    BY <1>4 DEF Serve
  <2>2. Subject(TheRequest, server)' = Subject(TheRequest, server)
    BY <1>1, <2>1 DEF Subject, Selects, Status,
      Liveness, Generation, RolloutState
  <2> QED
    BY <1>1, <1>2, <1>4, <2>1, <2>2 DEF Bears, Told
<1> QED
  BY <1>3, <1>4

\* A step that leaves the server, the change and what was heard alone.
LEMMA TruthStays ==
  ASSUME Truthful, UNCHANGED <<run, plan, server, done, calm, heard>>,
         net'.at = "ok" => net' = net,
         exit' = "ok" \/ pc' = "shown" => heard # <<>>
  PROVE  Truthful'
<1>1. \A told : Bears(told)' <=> Bears(told)
  BY DEF Bears, TheRequest, Asks, Changes, Targets, To, Subject, Selects, Status,
      Liveness, Generation, RolloutState
<1> QED
  BY <1>1 DEF Truthful

LEMMA OneAsk ==
  ASSUME IInv, run.cmd # "doctor", Ready
  PROVE  /\ Len(Asks) = 1 /\ Right(run, TheRequest) /\ Len(heard) \in Nat
         /\ pc \in {"call", "wire"} => heard = <<>> /\ Asked = TheRequest
<1>1. /\ run \in Invocations /\ PlanOf(run, plan) /\ plan.valid /\ heard \in Seq(Outcome)
      /\ server \in Servers
  BY DEF IInv, TypeOK, Ready
<1>2. PICK q : plan.asks = <<q>> /\ Right(run, q)
  BY <1>1, RightPlan
<1>3. Len(Asks) = 1 /\ TheRequest = q
  BY <1>2 DEF Asks, TheRequest
<1>4. pc \in {"call", "wire"} => Len(heard) = 0
  BY <1>1, <1>3 DEF IInv, Underway
<1> QED
  BY <1>1, <1>2, <1>3, <1>4 DEF Asked, TheRequest

LEMMA StepTruthful ==
  ASSUME IInv, Truthful, [Next]_vars
  PROVE  Truthful'
<1>a. UNCHANGED <<run, plan>> /\ Asks' = Asks
  BY Fixed DEF command
<1> SUFFICES ASSUME run.cmd # "doctor" PROVE Truthful'
  BY <1>a DEF Truthful
<1>b. pc \in {"call", "wire"} => heard = <<>> /\ Asked = TheRequest
  BY OneAsk DEF IInv, Underway
<1>c. /\ heard \in Seq(Outcome) /\ (pc = "ended" <=> exit # "none")
      /\ (pc = "wire" <=> net.at # "none")
  BY DEF IInv, TypeOK
<1> USE <1>a, TruthStays
<1>1. CASE Refuse \/ Do \/ Send
  BY <1>1, <1>c DEF Refuse, Do, Send, End, output, tally, peace, Truthful
<1>2. CASE NoToken \/ Exhausted
  BY <1>2, <1>c DEF NoToken, Exhausted, Fails, Failed, Succeeds, Return, End, tally, peace,
    Truthful
<1>3. CASE TimesOut
  BY <1>3 DEF TimesOut, GiveUp, Quiet, Fails, Failed, Succeeds, Return, End, tally, peace
<1>4. CASE Unusable
  BY <1>4 DEF Unusable, GiveUp, Quiet, Fails, Failed, Succeeds, Return, End, tally, peace
<1>5. CASE HearAnswer
  <2>1. /\ heard' = <<[ok |-> TRUE, told |-> net.told]>> /\ net.at = "ok" /\ net'.at = "none"
        /\ UNCHANGED <<server, done, calm, exit>> /\ pc' = "begun" /\ exit = "none"
    BY <1>5, <1>b, <1>c DEF HearAnswer, Return, Succeeds, Quiet, tally, peace
  <2>2. heard' # <<>> /\ heard'[1].told = net.told
    BY <2>1
  <2>3. \A told : Bears(told)' <=> Bears(told)
    BY <2>1 DEF Bears, TheRequest, Asks, Changes, Targets, To, Subject, Selects, Status,
      Liveness, Generation, RolloutState
  <2> QED
    BY <2>1, <2>2, <2>3 DEF Truthful
<1>6. CASE HearRefusal
  BY <1>6 DEF HearRefusal, Quiet, Fails, Failed, Succeeds, Return, End, tally, peace
<1>7. CASE HearBusy
  BY <1>7, <1>c DEF HearBusy, Quiet, Fails, Failed, Succeeds, Return, End, tally, peace
<1>8. CASE Render \/ Refresh
  <2>1. heard # <<>>
    BY <1>8, <1>c, OneAsk DEF Render, Refresh, Answered
  <2> QED
    BY <1>8, <2>1 DEF Render, Refresh, tally, peace
<1>9. CASE Tick
  <2>1. /\ heard' = <<>> /\ pc' = "begun" /\ exit' = "none" /\ net' = net /\ calm' = calm
        /\ net.at = "none"
    BY <1>9, <1>c DEF Tick, output, peace
  <2> QED
    BY <2>1 DEF Truthful
<1>10. CASE Breaks
  BY <1>10, <1>c DEF Breaks, GiveUp, Quiet, output, peace
<1>11. CASE Interrupt
  BY <1>11, <1>c DEF Interrupt, GiveUp, Quiet, End, tally, peace
<1>12. CASE Serve
  <2>1. pc = "wire" /\ heard = <<>> /\ Asked = TheRequest /\ pc' = pc /\ exit' = exit
        /\ heard' = heard /\ exit = "none"
    BY <1>12, <1>b, <1>c DEF Serve, output
  <2>2. Bears(net.told)'
    BY <1>12, <2>1, ServedBears
  <2> QED
    BY <2>1, <2>2 DEF Truthful
<1>13. CASE RefuseRequest \/ AnswerBusy
  BY <1>13, <1>c DEF RefuseRequest, AnswerBusy, output, tally, peace
<1>14. CASE ServeLate
  BY <1>14 DEF ServeLate, output, Truthful
<1>15. CASE Elsewhere
  BY <1>15 DEF Elsewhere, output, Truthful
<1>16. CASE UNCHANGED vars
  BY <1>16 DEF vars, output, tally, peace, Truthful
<1> QED
  BY <1>1, <1>2, <1>3, <1>4, <1>5, <1>6, <1>7, <1>8, <1>9, <1>10, <1>11, <1>12, <1>13,
     <1>14, <1>15, <1>16 DEF Next, Client

----------------------------------------------------------------------------
(* What doctor reports. *)

\* checks holds one check of each of the names, and nothing else.
Once(checks, names) ==
  /\ \A c \in names : \E k \in checks : \A x \in checks : x.name = c <=> x = k
  /\ \A x \in checks : x.name \in names /\ x.status \in CheckStatus

LEMMA OnceAlone ==
  ASSUME NEW name, NEW status \in CheckStatus
  PROVE  Once(add(name, status), {name})
BY DEF Once, add

LEMMA OnceTogether ==
  ASSUME NEW a, NEW b, NEW M, NEW N, Once(a, M), Once(b, N), M \cap N = {}
  PROVE  Once(a \cup b, M \cup N)
<1>1. ASSUME NEW c \in M
      PROVE  \E k \in a \cup b : \A x \in a \cup b : x.name = c <=> x = k
  <2>1. PICK k \in a : \A x \in a : x.name = c <=> x = k
    BY DEF Once
  <2>2. \A x \in b : x.name # c
    BY DEF Once
  <2> QED
    BY <2>1, <2>2
<1>2. ASSUME NEW c \in N
      PROVE  \E k \in a \cup b : \A x \in a \cup b : x.name = c <=> x = k
  <2>1. PICK k \in b : \A x \in b : x.name = c <=> x = k
    BY DEF Once
  <2>2. \A x \in a : x.name # c
    BY DEF Once
  <2> QED
    BY <2>1, <2>2
<1>3. \A x \in a \cup b : x.name \in M \cup N /\ x.status \in CheckStatus
  BY DEF Once
<1> QED
  BY <1>1, <1>2, <1>3 DEF Once

LEMMA OncePair ==
  ASSUME NEW m, NEW n, NEW s \in CheckStatus, NEW u \in CheckStatus, m # n
  PROVE  Once(add(m, s) \cup add(n, u), {m, n})
<1>1. Once(add(m, s), {m}) /\ Once(add(n, u), {n}) /\ {m} \cap {n} = {}
  BY OnceAlone
<1>2. {m} \cup {n} = {m, n}
  OBVIOUS
<1> QED
  BY <1>1, <1>2, OnceTogether

\* What doctor says of the server: nothing is failed that it could not ask for.
LEMMA ServerReport ==
  ASSUME NEW r, NEW status, NEW health
  PROVE  LET checks == addServerChecks(r, status, health)
         IN  /\ Once(checks, ServerSide)
             /\ ~Succeeds(status) /\ ~Succeeds(health) => \A x \in checks : x.status = "warn"
             /\ adminClient(r) /\ Succeeds(status) =>
                  addCAChecks(r) \subseteq checks
<1> DEFINE lost == add("consistency", "warn") \cup add("generation", "warn")
           unknown == add("enrollment", "warn") \cup add("agents", "warn")
           first == IF Succeeds(status) THEN addCAChecks(r) ELSE lost
           second == IF Succeeds(health) THEN addFleetChecks(health.told) ELSE unknown
<1>0. {"pass", "warn", "fail", "skip"} = CheckStatus
  BY DEF CheckStatus
<1>1. Once(first, {"consistency", "generation"})
  <2>1. \A s, u \in CheckStatus :
          Once(add("consistency", s) \cup add("generation", u), {"consistency", "generation"})
    BY OncePair
  <2>2. \E s, u \in CheckStatus : first = add("consistency", s) \cup add("generation", u)
    <3>1. CASE Succeeds(status)
      <4> DEFINE s == IF r.configured /\ r.verified THEN "pass" ELSE "fail"
                 u == IF r.bundled THEN "pass" ELSE "warn"
      <4>1. first = add("consistency", s) \cup add("generation", u)
        BY <3>1, Zenon DEF addCAChecks
      <4>2. s \in CheckStatus /\ u \in CheckStatus
        BY <1>0
      <4> QED
        BY <4>1, <4>2, Zenon
    <3>2. CASE ~Succeeds(status)
      BY <1>0, <3>2
    <3> QED
      BY <3>1, <3>2
  <2> QED
    BY <2>1, <2>2, Zenon
<1>2. Once(second, {"enrollment", "agents"})
  <2>1. \A s, u \in CheckStatus :
          Once(add("enrollment", s) \cup add("agents", u), {"enrollment", "agents"})
    BY OncePair
  <2>2. \E s, u \in CheckStatus : second = add("enrollment", s) \cup add("agents", u)
    <3>1. CASE Succeeds(health)
      <4>1. \E s, u \in {"pass", "warn", "skip"} :
              addFleetChecks(health.told) = add("enrollment", s) \cup add("agents", u)
        BY DEF addFleetChecks
      <4> QED
        BY <1>0, <3>1, <4>1
    <3>2. CASE ~Succeeds(health)
      BY <1>0, <3>2
    <3> QED
      BY <3>1, <3>2
  <2> QED
    BY <2>1, <2>2, Zenon
<1>3. CASE ~adminClient(r)
  <2>1. addServerChecks(r, status, health) = {[name |-> c, status |-> "warn"] : c \in ServerSide}
    BY <1>3 DEF addServerChecks, add
  <2> DEFINE warned == {[name |-> c, status |-> "warn"] : c \in ServerSide}
  <2>2. Once(warned, ServerSide)
    <3>1. \A x \in warned : x.name \in ServerSide /\ x.status \in CheckStatus
      BY <1>0
    <3>2. ASSUME NEW c \in ServerSide
          PROVE  \E k \in warned : \A x \in warned : x.name = c <=> x = k
      <4>1. [name |-> c, status |-> "warn"] \in warned
        OBVIOUS
      <4>2. \A x \in warned : x.name = c <=> x = [name |-> c, status |-> "warn"]
        OBVIOUS
      <4> QED
        BY <4>1, <4>2
    <3> QED
      BY <3>1, <3>2 DEF Once
  <2>3. \A x \in warned : x.status = "warn"
    OBVIOUS
  <2>4. ~adminClient(r)
    BY <1>3
  <2> QED
    BY <2>1, <2>2, <2>3, <2>4, Zenon
<1>4. CASE adminClient(r)
  <2>1. addServerChecks(r, status, health) = first \cup second
    BY <1>4 DEF addServerChecks
  <2>2. ServerSide = {"consistency", "generation"} \cup {"enrollment", "agents"}
    BY DEF ServerSide
  <2>3. {"consistency", "generation"} \cap {"enrollment", "agents"} = {}
    OBVIOUS
  <2>4. ~Succeeds(status) => \A x \in first : x.status = "warn"
    BY DEF add
  <2>5. ~Succeeds(health) => \A x \in second : x.status = "warn"
    BY DEF add
  <2>6. Succeeds(status) => first = addCAChecks(r)
    OBVIOUS
  <2> HIDE DEF first, second
  <2>7. Once(first \cup second, ServerSide)
    BY <1>1, <1>2, <2>2, <2>3, OnceTogether
  <2> QED
    BY <2>1, <2>4, <2>5, <2>6, <2>7
<1> QED
  BY <1>3, <1>4

\* Every check is in the report, once, whatever was found.
LEMMA Report ==
  ASSUME NEW r, NEW h
  PROVE  LET checks == runDoctor(r, h)
         IN  /\ Once(checks, CheckNames)
             /\ addConnectivity(Heard(h, 1)) \subseteq checks
             /\ addClockDrift(r, Heard(h, 1)) \subseteq checks
             /\ addServerChecks(r, Heard(h, 2), Heard(h, 3)) \subseteq checks
             /\ \A x \in checks : x.name \in ServerSide =>
                  x \in addServerChecks(r, Heard(h, 2), Heard(h, 3))
<1> DEFINE info == Heard(h, 1)
           a == addConnectivity(info)
           b == addTLSChecks(r.url, Succeeds(info))
           c == addClockDrift(r, info)
           d == addSessionCheck(r)
           e == addProviders(r)
           f == addServerChecks(r, Heard(h, 2), Heard(h, 3))
           g == addHelper(r)
<1>0. {"pass", "warn", "fail", "skip"} = CheckStatus
  BY DEF CheckStatus
<1>1. runDoctor(r, h) = a \cup b \cup c \cup d \cup e \cup f \cup g
  BY DEF runDoctor, fetchServerInfo
<1>2. Once(a, {"connectivity"}) /\ Once(c, {"drift"})
  BY <1>0, OnceAlone DEF addConnectivity, addClockDrift
<1>3. Once(d, {"session"}) /\ Once(e, {"providers"}) /\ Once(g, {"helper"})
  BY <1>0, OnceAlone DEF addSessionCheck, addProviders, addHelper
<1>4. Once(b, {"tls", "chain"})
  <2>1. \E s, u \in CheckStatus : b = add("tls", s) \cup add("chain", u)
    BY <1>0 DEF addTLSChecks
  <2> QED
    BY <2>1, OncePair
<1>5. Once(f, ServerSide)
  BY ServerReport
<1> HIDE DEF a, b, c, d, e, f, g
<1>6. Once(a \cup b, {"connectivity"} \cup {"tls", "chain"})
  BY <1>2, <1>4, OnceTogether
<1>7. Once(a \cup b \cup c, {"connectivity"} \cup {"tls", "chain"} \cup {"drift"})
  BY <1>2, <1>6, OnceTogether
<1>8. Once(d \cup e, {"session"} \cup {"providers"})
  BY <1>3, OnceTogether
<1>9. Once(d \cup e \cup g, {"session"} \cup {"providers"} \cup {"helper"})
  BY <1>3, <1>8, OnceTogether
<1> DEFINE x == a \cup b \cup c
           y == d \cup e \cup g
           X == {"connectivity", "tls", "chain", "drift"}
           Y == {"session", "providers", "helper"}
<1>10. Once(x, X) /\ Once(y, Y)
  <2>1. X = {"connectivity"} \cup {"tls", "chain"} \cup {"drift"}
    OBVIOUS
  <2>2. Y = {"session"} \cup {"providers"} \cup {"helper"}
    OBVIOUS
  <2> HIDE DEF X, Y
  <2> QED
    BY <1>7, <1>9, <2>1, <2>2
<1>11. /\ runDoctor(r, h) = x \cup y \cup f
       /\ X \cap Y = {} /\ (X \cup Y) \cap ServerSide = {} /\ X \cup Y \cup ServerSide = CheckNames
  BY <1>1 DEF ServerSide, CheckNames
<1> HIDE DEF X, Y
<1>12. a \subseteq x /\ c \subseteq x
  OBVIOUS
<1> HIDE DEF x, y
<1>13. Once(x \cup y, X \cup Y)
  BY <1>10, <1>11, OnceTogether
<1>14. Once(x \cup y \cup f, CheckNames)
  BY <1>5, <1>11, <1>13, OnceTogether
<1>15. \A n \in x \cup y : n.name \notin ServerSide
  BY <1>11, <1>13 DEF Once
<1>16. /\ a \subseteq runDoctor(r, h) /\ c \subseteq runDoctor(r, h) /\ f \subseteq runDoctor(r, h)
       /\ \A n \in runDoctor(r, h) : n.name \in ServerSide => n \in f
  BY <1>11, <1>12, <1>15
<1> QED
  BY <1>11, <1>14, <1>16 DEF a, c, f

\* What doctor knows: nothing of the server's inside when its account is not authorized; and
\* its exit status is the verdict on what it knows when it has asked all it could.
Informed ==
  run.cmd = "doctor" /\ ParseFormat(run) =>
    /\ ~run.authorized => \A i \in DOMAIN heard : i > 1 => ~Succeeds(heard[i])
    /\ net.at = "ok" /\ heard # <<>> => run.authorized
    /\ exit \in {"ok", "error"} =>
         /\ Len(heard) = Len(Asks)
         /\ (exit = "error") <=> (OverallStatus(runDoctor(run, heard)) = "fail")

LEMMA InformedStays ==
  ASSUME Informed, UNCHANGED <<run, plan, heard>>, exit' \in {exit, "killed"},
         net'.at = "ok" => net.at = "ok"
  PROVE  Informed'
BY DEF Informed, ParseFormat, Asks

\* doctor takes note of a request that came to nothing.
LEMMA InformedFails ==
  ASSUME Informed, UNCHANGED <<run, plan, exit>>, exit = "none", heard \in Seq(Outcome),
         heard' = Append(heard, Failed), net'.at # "ok"
  PROVE  Informed'
<1>1. \A i \in DOMAIN heard' : heard'[i] = Failed \/ (i \in DOMAIN heard /\ heard'[i] = heard[i])
  OBVIOUS
<1>2. ~Succeeds(Failed)
  BY DEF Succeeds, Failed
<1> QED
  BY <1>1, <1>2 DEF Informed, ParseFormat

LEMMA DoctorAsks ==
  ASSUME run.cmd = "doctor", PlanOf(run, plan)
  PROVE  /\ plan.valid /\ ~plan.watched
         /\ Asks \in {<<Get("info"), Get("status"), Get("health")>>, <<Get("info")>>, <<>>}
         /\ Len(Asks) > 1 => adminClient(run)
         /\ \A i \in 1 .. Len(Asks) : i > 1 => Asks[i].on # "info"
<1>1. plan = newDoctorCommand(run)
  BY DEF PlanOf, newCACommand, newMachineCommand, newRolloutCommand
<1>2. plan.valid /\ ~plan.watched
  BY <1>1 DEF newDoctorCommand
<1>3. Asks = IF adminClient(run) THEN <<Get("info"), Get("status"), Get("health")>>
             ELSE IF apiClient(run) THEN <<Get("info")>>
             ELSE <<>>
  BY <1>1 DEF newDoctorCommand, Asks
<1>4. Get("status").on # "info" /\ Get("health").on # "info"
  BY DEF Get
<1> HIDE DEF Asks
<1>5. CASE adminClient(run)
  <2>1. Asks = <<Get("info"), Get("status"), Get("health")>>
    BY <1>3, <1>5
  <2>2. \A i \in 1 .. 3 : i > 1 => Asks[i].on # "info"
    BY <1>4, <2>1
  <2> QED
    BY <1>2, <1>5, <2>1, <2>2
<1>6. CASE ~adminClient(run)
  <2>1. Asks \in {<<Get("info")>>, <<>>}
    BY <1>3, <1>6
  <2>2. Len(Asks) \in {0, 1}
    BY <2>1
  <2>3. Len(Asks) > 1 => adminClient(run)
    <3>1. \A n \in {0, 1} : ~(n > 1)
      OBVIOUS
    <3> QED
      BY <2>2, <3>1, Zenon
  <2>4. \A i \in 1 .. Len(Asks) : i > 1 => Asks[i].on # "info"
    <3>1. \A n \in {0, 1} : \A i \in 1 .. n : ~(i > 1)
      OBVIOUS
    <3> QED
      BY <2>2, <3>1, Zenon
  <2> QED
    BY <1>2, <2>1, <2>3, <2>4, Zenon
<1> QED
  BY <1>5, <1>6

LEMMA StepInformed ==
  ASSUME IInv, Informed, [Next]_vars
  PROVE  Informed'
<1>a. UNCHANGED <<run, plan>> /\ Asks' = Asks
  BY Fixed DEF command
<1> SUFFICES ASSUME run.cmd = "doctor", ParseFormat(run) PROVE Informed'
  BY <1>a DEF Informed, ParseFormat
<1>b. /\ Ready /\ pc # "shown"
      /\ \A i \in 1 .. Len(Asks) : i > 1 => Asks[i].on # "info"
  BY DoctorAsks DEF IInv, TypeOK, Ready, Underway
<1>c. /\ heard \in Seq(Outcome) /\ (pc = "ended" <=> exit # "none")
      /\ (pc = "wire" <=> net.at # "none") /\ Len(Asks) \in Nat
      /\ pc = "wire" => Len(heard) < Len(Asks)
  BY PlanFacts DEF IInv, TypeOK, Underway
<1> USE <1>a
<1>1. CASE Refuse
  BY <1>1, <1>b DEF Refuse
<1>2. CASE Do \/ Send
  BY <1>2, InformedStays DEF Do, Send, output
<1>3. CASE NoToken \/ Exhausted
  BY <1>3, <1>c, InformedFails DEF NoToken, Exhausted, Fails, Return
<1>4. CASE TimesOut \/ Unusable
  BY <1>4, <1>c, InformedFails DEF TimesOut, Unusable, GiveUp, Quiet, Fails, Return
<1>5. CASE HearAnswer
  <2>1. /\ heard' = Append(heard, [ok |-> TRUE, told |-> net.told]) /\ net'.at = "none"
        /\ exit' = exit /\ exit = "none" /\ (heard # <<>> => run.authorized)
    BY <1>5, <1>c DEF HearAnswer, Return, Quiet, Informed
  <2>2. heard = <<>> => \A i \in DOMAIN heard' : i = 1
    BY <2>1
  <2> QED
    BY <2>1, <2>2 DEF Informed, ParseFormat
<1>6. CASE HearRefusal
  BY <1>6, <1>c, InformedFails DEF HearRefusal, Quiet, Fails, Return
<1>7. CASE HearBusy
  BY <1>7, <1>c, InformedFails, InformedStays DEF HearBusy, Quiet, Fails, Return
<1>8. CASE Render
  <2>1. /\ Len(heard) = Len(Asks) /\ heard' = heard /\ net' = net
        /\ exit' = IF OverallStatus(runDoctor(run, heard)) = "fail" THEN "error" ELSE "ok"
    BY <1>8 DEF Render, Answered, End
  <2>2. runDoctor(run, heard)' = runDoctor(run, heard)
    <3>1. run' = run /\ heard' = heard
      BY <2>1
    <3> QED
      BY <3>1 DEF runDoctor, fetchServerInfo, Heard
  <2> QED
    BY <2>1, <2>2 DEF Informed, ParseFormat
<1>9. CASE Refresh \/ Tick
  BY <1>9, <1>b, DoctorAsks DEF Refresh, Tick, IInv, TypeOK
<1>10. CASE Breaks
  BY <1>10, InformedStays DEF Breaks, GiveUp, Quiet, output
<1>11. CASE Interrupt
  BY <1>11, InformedStays DEF Interrupt, GiveUp, Quiet, End
<1>12. CASE Serve
  <2>1. UNCHANGED <<heard, exit>> /\ pc = "wire" /\ exit = "none"
    BY <1>12, <1>c DEF Serve, output
  <2>2. heard # <<>> => run.authorized
    <3>1. SUFFICES ASSUME heard # <<>> PROVE Asked.on # "info"
      BY <1>12 DEF Serve
    <3>2. Len(heard) + 1 \in 1 .. Len(Asks) /\ Len(heard) + 1 > 1
      BY <1>c, <2>1, <3>1
    <3> QED
      BY <1>b, <3>2 DEF Asked
  <2> QED
    BY <2>1, <2>2 DEF Informed, ParseFormat
<1>13. CASE RefuseRequest \/ AnswerBusy
  BY <1>13, InformedStays DEF RefuseRequest, AnswerBusy, output
<1>14. CASE ServeLate \/ Elsewhere
  BY <1>14, InformedStays DEF ServeLate, Elsewhere, output
<1>15. CASE UNCHANGED vars
  BY <1>15, InformedStays DEF vars, output
<1> QED
  BY <1>1, <1>2, <1>3, <1>4, <1>5, <1>6, <1>7, <1>8, <1>9, <1>10, <1>11, <1>12, <1>13,
     <1>14, <1>15 DEF Next, Client

----------------------------------------------------------------------------
(* The theorems. *)

LEMMA Invariance == Spec => []IInv
<1>1. IInv /\ [Next]_vars => IInv'
  BY StepType, StepNet, StepUnderway, StepTallied, StepWritten DEF IInv
<1> QED
  BY InitIInv, <1>1, PTL DEF Spec

\* Types, and what is where.
THEOREM TypeCorrect == Spec => []TypeOK
<1>1. IInv => TypeOK
  BY DEF IInv
<1> QED
  BY Invariance, <1>1, PTL

\* However the network breaks and whatever the gateway answers, a change is
\* carried out once, but for the attempts whose answer was lost; a command that
\* reports an error has changed nothing but by these; and they are never more
\* than 1 + retries.
THEOREM EffectsAlwaysAccounted == Spec => []EffectsAccounted
<1>1. IInv => EffectsAccounted
  <2> SUFFICES ASSUME IInv PROVE EffectsAccounted
    OBVIOUS
  <2>1. done \in Nat /\ adrift \in Nat /\ late \in Nat
    BY DEF IInv, TypeOK
  <2>2. ASSUME exit = "error"
        PROVE  done + late <= adrift
    <3>1. net.at # "ok"
      BY <2>2 DEF IInv, TypeOK
    <3>2. CASE Changing
      BY <2>1, <2>2, <3>1, <3>2 DEF IInv, Tallied, Pending
    <3>3. CASE ~Changing
      BY <3>3 DEF IInv, Tallied
    <3> QED
      BY <3>2, <3>3
  <2> QED
    BY <2>2 DEF IInv, Tallied, EffectsAccounted
<1> QED
  BY Invariance, <1>1, PTL

\* Of all the ways to type the forty commands, none destroys a key or an
\* identity unasked, or makes a CA without a passphrase.
THEOREM NothingEverWithoutConsent == Spec => []NothingWithoutConsent
<1>1. IInv => NothingWithoutConsent
  <2> SUFFICES ASSUME IInv, done > 0 \/ late > 0
               PROVE  Consent(run, TRUE)
    BY DEF NothingWithoutConsent, Consent, Making, Destroying
  <2>1. Ready
    BY DEF IInv, TypeOK, Tallied
  <2> QED
    BY <2>1, PlanFacts DEF Ready, IInv, TypeOK
<1> QED
  BY Invariance, <1>1, PTL

\* The output for scripts is one document, or none.
THEOREM OnlyOneDocument == Spec => []OneDocument
<1>1. IInv => OneDocument
  BY DEF IInv, Documented
<1> QED
  BY Invariance, <1>1, PTL

\* What a command that succeeds, or watches, has shown is so: none of the forty handlers asks
\* for something else than it is for, and no retry answers for another request.
THEOREM SuccessIsAlwaysTrue == Spec => []SuccessIsTrue
<1>1. Init => IInv /\ Truthful
  BY InitIInv DEF Init, Truthful, Quiet
<1>2. IInv /\ Truthful /\ [Next]_vars => (IInv /\ Truthful)'
  BY StepType, StepNet, StepUnderway, StepTallied, StepWritten, StepTruthful DEF IInv
<1>3. IInv /\ Truthful => SuccessIsTrue
  <2> SUFFICES ASSUME IInv, Truthful, exit = "ok" \/ pc = "shown", calm, run.cmd # "doctor"
               PROVE  LET told == heard[1].told
                      IN  /\ \A t \in DOMAIN told : told[t] = server[t]
                          /\ Goal(run.cmd) # {} =>
                               done > 0 /\ \E t \in DOMAIN told : told[t] \in Goal(run.cmd)
                          /\ run.cmd \in Lists => DOMAIN told = Meant(run)
    BY DEF SuccessIsTrue
  <2>1. heard # <<>> /\ Bears(heard[1].told)
    BY DEF Truthful
  <2>2. Right(run, TheRequest)
    BY <2>1, OneAsk DEF IInv, Underway
  <2>3. CASE Goal(run.cmd) = {}
    BY <2>1, <2>2, <2>3 DEF Bears, Right, Changes
  <2>4. CASE Goal(run.cmd) # {}
    <3>1. run.cmd \notin Lists
      BY <2>4 DEF Goal, Lists
    <3> QED
      BY <2>1, <2>2, <2>4, <3>1 DEF Bears, Right, Changes
  <2> QED
    BY <2>3, <2>4
<1> QED
  BY <1>1, <1>2, <1>3, PTL DEF Spec

\* doctor reports every check on every path and exits by what it reports; it never tells an
\* account that is not authorized that the server failed; and it is passed as a readiness gate
\* only if what it could ask for is in order.
THEOREM DoctorAlwaysAgrees == Spec => []DoctorAgrees
<1>1. Init => IInv /\ Informed
  BY InitIInv DEF Init, Informed, Quiet
<1>2. IInv /\ Informed /\ [Next]_vars => (IInv /\ Informed)'
  BY StepType, StepNet, StepUnderway, StepTallied, StepWritten, StepInformed DEF IInv
<1>3. IInv /\ Informed => DoctorAgrees
  <2> SUFFICES ASSUME IInv, Informed, run.cmd = "doctor", exit \in {"ok", "error"},
                      ParseFormat(run)
               PROVE  LET checks == runDoctor(run, heard)
                          status == Heard(heard, 2)
                      IN  /\ \A c \in CheckNames :
                               \E k \in checks : \A x \in checks : x.name = c <=> x = k
                          /\ \A x \in checks : x.name \in CheckNames /\ x.status \in CheckStatus
                          /\ (exit = "error") = (\E x \in checks : x.status = "fail")
                          /\ ~run.authorized =>
                               \A x \in checks : x.name \in ServerSide => x.status # "fail"
                          /\ exit = "ok" =>
                               /\ Succeeds(heard[1])
                               /\ run.dated => run.drift < 60
                               /\ Succeeds(status) =>
                                    run.verified /\ run.configured
    BY DEF DoctorAgrees
  <2> DEFINE checks == runDoctor(run, heard)
             status == Heard(heard, 2)
             health == Heard(heard, 3)
             known == addServerChecks(run, status, health)
  <2>1. /\ Once(checks, CheckNames)
        /\ addConnectivity(Heard(heard, 1)) \subseteq checks
        /\ addClockDrift(run, Heard(heard, 1)) \subseteq checks
        /\ known \subseteq checks
        /\ \A x \in checks : x.name \in ServerSide => x \in known
    BY Report
  <2>2. /\ Len(heard) = Len(Asks)
        /\ (exit = "error") <=> (OverallStatus(checks) = "fail")
        /\ ~run.authorized => \A i \in DOMAIN heard : i > 1 => ~Succeeds(heard[i])
    BY DEF Informed
  <2>a. run \in Invocations /\ PlanOf(run, plan) /\ heard \in Seq(Outcome)
    BY DEF IInv, TypeOK
  <2>b. run.drift \in Nat
    BY <2>a, InvocationsAssumption
  <2> HIDE DEF checks, known
  <2>3. (exit = "error") = (\E x \in checks : x.status = "fail")
    BY <2>2 DEF OverallStatus, Reports
  <2>4. ASSUME ~run.authorized, NEW x \in checks, x.name \in ServerSide
        PROVE  x.status # "fail"
    <3>1. ~Succeeds(status) /\ ~Succeeds(health)
      BY <2>2, <2>4 DEF Heard, Succeeds, Failed
    <3>2. x.status = "warn"
      BY <2>1, <2>4, <3>1, ServerReport DEF known
    <3> QED
      BY <3>2
  <2>5. ASSUME exit = "ok"
        PROVE  /\ Succeeds(heard[1])
               /\ run.dated => run.drift < 60
               /\ Succeeds(status) =>
                    run.verified /\ run.configured
    <3>1. \A x \in checks : x.status # "fail"
      BY <2>3, <2>5
    <3>2. Succeeds(Heard(heard, 1))
      BY <2>1, <3>1 DEF addConnectivity, add
    <3>3. Succeeds(heard[1])
      BY <3>2 DEF Heard, Succeeds, Failed
    <3>4. run.dated => run.drift < 60
      BY <2>1, <2>b, <3>1, <3>2 DEF addClockDrift, add, clockDriftFail, clockDriftWarn
    <3>5. ASSUME Succeeds(status)
          PROVE  run.verified /\ run.configured
      <4>1. 2 \in DOMAIN heard
        BY <3>5 DEF Heard, Succeeds, Failed
      <4>2. Len(Asks) > 1
        BY <2>2, <2>a, <4>1
      <4>3. adminClient(run)
        BY <2>a, <4>2, DoctorAsks
      <4>4. addCAChecks(run) \subseteq checks
        BY <2>1, <3>5, <4>3, ServerReport DEF known
      <4> QED
        BY <3>1, <4>4 DEF addCAChecks, add
    <3> QED
      BY <3>3, <3>4, <3>5
  <2> QED
    BY <2>1, <2>3, <2>4, <2>5 DEF checks, Once
<1> QED
  BY <1>1, <1>2, <1>3, PTL DEF Spec
=============================================================================
