------------------------------ MODULE Handlers ------------------------------
(***************************************************************************)
(* What each operator command does with its flags: the checks it makes     *)
(* before anything is sent, the requests it sends, whether it repeats      *)
(* them (--watch), and whether it writes a line of its own before the      *)
(* answer.  A command is a plan; Operations carries plans out.             *)
(*                                                                         *)
(* An invocation r is a record of the command and of all that is fixed     *)
(* while it runs: its flags (output, watch, yes, all, passphrase, keyFile, *)
(* id, limit and the filters shortcuts, liveness, status, generation and   *)
(* state), the effective configuration (url, retries, limited: whether     *)
(* request_timeout_seconds is above zero), the session of the active       *)
(* account, and what doctor finds around it.  Flags a command does not     *)
(* have are ignored by it.                                                 *)
(***************************************************************************)
EXTENDS Integers

CONSTANTS CA,        \* certificate authorities
          Machine,   \* enrolled machines
          None       \* no argument

Thing == CA \cup Machine

\* What can be asked for besides one thing: each is a path of the server's API.  "info" is
\* /health, which takes no account; "fleet" is /admin/bundle/status.
Collections == {"cas", "bundle", "ca_stats", "fleet", "machines", "rollout", "generations",
                "rollout_machines", "stuck", "rollout_health", "explain", "timeline",
                "history", "metrics", "info", "status", "health"}

Live == {"online", "stale", "offline"}

\* The query of a request.  A parameter is left out when it is "", below zero (generation),
\* or not above it (limit).
Unfiltered == [status |-> "", liveness |-> "", generation |-> -1, state |-> "", limit |-> 0]

Get(thing) == [does |-> "view", on |-> thing, with |-> Unfiltered]
GetWith(thing, filters) == [does |-> "view", on |-> thing, with |-> filters]
Post(verb, thing) == [does |-> verb, on |-> thing, with |-> Unfiltered]

----------------------------------------------------------------------------
(* Shared helpers of the commands. *)

ParseFormat(r) == r.output \in {"table", "wide", "json", "yaml"}
Structured(r) == r.output \in {"json", "yaml"}

\* client.New takes https, and plain http to this host.
New(r) == r.url \in {"https", "local"}

apiClient(r) == r.url # "none" /\ New(r)

requireActiveAccount(r) == r.session # "none"
provider(r) == r.session # "unknown"

adminClient(r) == requireActiveAccount(r) /\ provider(r) /\ apiClient(r)
caClient(r) == requireActiveAccount(r) /\ provider(r) /\ apiClient(r)
machineClient(r) == requireActiveAccount(r) /\ provider(r) /\ apiClient(r)

\* A command that sends one request, if its checks pass.
Sends(checked, request) ==
  [valid |-> checked, asks |-> <<request>>, watched |-> FALSE, announces |-> FALSE]

\* "Created CA ...", "disable: ... is now ...": a line before the answer.
Announced(r, plan) == [plan EXCEPT !.announces = ~Structured(r)]

\* Mutant of runMaybeWatchCA: documents one after the other.
WatchDocuments(r, watch, plan) == [plan EXCEPT !.watched = watch]
runMaybeWatchCA(r, watch, plan) == [plan EXCEPT !.watched = watch /\ ~Structured(r)]
runMaybeWatch(r, watch, plan) == [plan EXCEPT !.watched = watch /\ ~Structured(r)]
runMaybeWatchOps(r, watch, plan) == [plan EXCEPT !.watched = watch /\ ~Structured(r)]

----------------------------------------------------------------------------
(* mayfly ca *)

caPassphrase(r) == r.passphrase \in {"flag", "env"}

newCAListCommand(r) == runMaybeWatchCA(r, r.watch, Sends(caClient(r), Get("cas")))
newCAShowCommand(r) == runMaybeWatchCA(r, r.watch, Sends(caClient(r), Get(r.id)))
newCAStatsCommand(r) == runMaybeWatchCA(r, r.watch, Sends(caClient(r), Get("ca_stats")))
newCARolloutCommand(r) == runMaybeWatchCA(r, r.watch, Sends(caClient(r), Get("fleet")))
newCACurrentCommand(r) == runMaybeWatchCA(r, r.watch, Sends(caClient(r), Get("bundle")))

newCACreateCommand(r) ==
  Announced(r, Sends(caPassphrase(r) /\ caClient(r), Post("create", r.id)))

newCAImportCommand(r) ==
  LET checked == r.keyFile = "readable" /\ caPassphrase(r) /\ caClient(r)
  IN  Announced(r, Sends(checked, Post("create", r.id)))

newCAExportCommand(r) ==
  Sends(caClient(r), Get(IF r.all \/ r.id = None THEN "bundle" ELSE r.id))

\* Without --key-id the server names the new CA.
newCARotateCommand(r) == Sends(caPassphrase(r) /\ caClient(r), Post("rotate", r.id))

newCALifecycleCommand(action, r) == Announced(r, Sends(caClient(r), Post(action, r.id)))

newCARetireCommand(r) ==
  Announced(r, Sends((r.yes \/ Structured(r)) /\ caClient(r), Post("retire", r.id)))

newCADeleteCommand(r) ==
  Sends((r.yes \/ Structured(r)) /\ caClient(r), Post("delete", r.id))

newCAPublicKeyCommand(r) == Sends(caClient(r), Get(r.id))

newCAFingerprintCommand(r) ==
  Sends(caClient(r), Get(IF r.id = None THEN "bundle" ELSE r.id))

----------------------------------------------------------------------------
(* mayfly machine *)

\* Of --online, --offline, --stale and --liveness at most one may be given.
Contradictory(r) ==
  \/ \E a, b \in r.shortcuts : a # b
  \/ r.shortcuts # {} /\ r.liveness # ""

\* The filters --hostname, --os, --arch and --agent-version are passed on as --status is.
query(r) ==
  [Unfiltered EXCEPT
     !.status = r.status,
     !.liveness = IF "online" \in r.shortcuts THEN "online"
                  ELSE IF "offline" \in r.shortcuts THEN "offline"
                  ELSE IF "stale" \in r.shortcuts THEN "stale"
                  ELSE r.liveness,
     !.generation = IF r.generation >= 0 THEN r.generation ELSE -1]

\* Mutant of newMachineListCommand: the first of several filters wins.
ListByFirstFilter(r) ==
  runMaybeWatch(r, r.watch, Sends(machineClient(r), GetWith("machines", query(r))))
newMachineListCommand(r) ==
  runMaybeWatch(r, r.watch,
    Sends(~Contradictory(r) /\ machineClient(r), GetWith("machines", query(r))))
newMachineShowCommand(r) == runMaybeWatch(r, r.watch, Sends(machineClient(r), Get(r.id)))
newMachineStatusCommand(r) == runMaybeWatch(r, r.watch, Sends(machineClient(r), Get("fleet")))
newMachineHeartbeatCommand(r) == runMaybeWatch(r, r.watch, Sends(machineClient(r), Get(r.id)))
newMachineSyncCommand(r) == runMaybeWatch(r, r.watch, Sends(machineClient(r), Get(r.id)))

\* revoke, though permanent, asks for no confirmation.
newMachineLifecycleCommand(action, r) ==
  Announced(r, Sends(machineClient(r), Post(action, r.id)))

newMachineDeleteCommand(r) ==
  Sends((r.yes \/ Structured(r)) /\ machineClient(r), Post("delete", r.id))

\* Mutant of newMachineReissueCommand: no confirmation, as for revoke.
ReissueUnasked(r) == Sends(machineClient(r), Post("reissue", r.id))
newMachineReissueCommand(r) ==
  Sends((r.yes \/ Structured(r)) /\ machineClient(r), Post("reissue", r.id))

----------------------------------------------------------------------------
(* mayfly rollout: views of the fleet. *)

renderStatus(r, watch) == runMaybeWatchOps(r, watch, Sends(adminClient(r), Get("rollout")))

newRolloutStatusCommand(r) == renderStatus(r, r.watch)
newRolloutWatchCommand(r) == renderStatus(r, TRUE)
newRolloutSummaryCommand(r) == renderStatus(r, r.watch)
newRolloutGenerationsCommand(r) ==
  runMaybeWatchOps(r, r.watch, Sends(adminClient(r), Get("generations")))
\* --state is passed on as it is.
newRolloutMachinesCommand(r) ==
  LET q == [Unfiltered EXCEPT !.state = r.state,
                              !.generation = IF r.generation >= 0 THEN r.generation ELSE -1]
  IN  runMaybeWatchOps(r, r.watch, Sends(adminClient(r), GetWith("rollout_machines", q)))
newRolloutStuckCommand(r) == runMaybeWatchOps(r, r.watch, Sends(adminClient(r), Get("stuck")))
newRolloutHealthCommand(r) ==
  runMaybeWatchOps(r, r.watch, Sends(adminClient(r), Get("rollout_health")))
newRolloutExplainCommand(r) == runMaybeWatchOps(r, r.watch, Sends(adminClient(r), Get("explain")))
newRolloutTimelineCommand(r) ==
  LET q == [Unfiltered EXCEPT !.limit = IF r.limit > 0 THEN r.limit ELSE 0]
  IN  runMaybeWatchOps(r, r.watch, Sends(adminClient(r), GetWith("timeline", q)))
newRolloutHistoryCommand(r) == runMaybeWatchOps(r, r.watch, Sends(adminClient(r), Get("history")))

----------------------------------------------------------------------------
(* mayfly health, status, metrics and doctor. *)

newHealthCommand(r) == runMaybeWatchOps(r, r.watch, Sends(adminClient(r), Get("health")))
newStatusCommand(r) == runMaybeWatchOps(r, r.watch, Sends(adminClient(r), Get("status")))
newMetricsCommand(r) == runMaybeWatchOps(r, r.watch, Sends(adminClient(r), Get("metrics")))

\* doctor asks for what it can, one request after the other, and never gives up.
newDoctorCommand(r) ==
  [valid |-> TRUE,
   asks |-> IF adminClient(r) THEN <<Get("info"), Get("status"), Get("health")>>
            ELSE IF apiClient(r) THEN <<Get("info")>>
            ELSE <<>>,
   watched |-> FALSE, announces |-> FALSE]

\* p is what the command of r does.
newCACommand(r, p) ==
  \/ r.cmd = "ca_list"        /\ p = newCAListCommand(r)
  \/ r.cmd = "ca_show"        /\ p = newCAShowCommand(r)
  \/ r.cmd = "ca_create"      /\ p = newCACreateCommand(r)
  \/ r.cmd = "ca_import"      /\ p = newCAImportCommand(r)
  \/ r.cmd = "ca_export"      /\ p = newCAExportCommand(r)
  \/ r.cmd = "ca_rotate"      /\ p = newCARotateCommand(r)
  \/ r.cmd = "ca_enable"      /\ p = newCALifecycleCommand("enable", r)
  \/ r.cmd = "ca_disable"     /\ p = newCALifecycleCommand("disable", r)
  \/ r.cmd = "ca_retire"      /\ p = newCARetireCommand(r)
  \/ r.cmd = "ca_delete"      /\ p = newCADeleteCommand(r)
  \/ r.cmd = "ca_stats"       /\ p = newCAStatsCommand(r)
  \/ r.cmd = "ca_rollout"     /\ p = newCARolloutCommand(r)
  \/ r.cmd = "ca_current"     /\ p = newCACurrentCommand(r)
  \/ r.cmd = "ca_public_key"  /\ p = newCAPublicKeyCommand(r)
  \/ r.cmd = "ca_fingerprint" /\ p = newCAFingerprintCommand(r)

newMachineCommand(r, p) ==
  \/ r.cmd = "machine_list"      /\ p = newMachineListCommand(r)
  \/ r.cmd = "machine_show"      /\ p = newMachineShowCommand(r)
  \/ r.cmd = "machine_status"    /\ p = newMachineStatusCommand(r)
  \/ r.cmd = "machine_approve"   /\ p = newMachineLifecycleCommand("approve", r)
  \/ r.cmd = "machine_disable"   /\ p = newMachineLifecycleCommand("disable", r)
  \/ r.cmd = "machine_enable"    /\ p = newMachineLifecycleCommand("enable", r)
  \/ r.cmd = "machine_revoke"    /\ p = newMachineLifecycleCommand("revoke", r)
  \/ r.cmd = "machine_delete"    /\ p = newMachineDeleteCommand(r)
  \/ r.cmd = "machine_reenroll"  /\ p = newMachineReissueCommand(r)
  \/ r.cmd = "machine_rotate"    /\ p = newMachineReissueCommand(r)
  \/ r.cmd = "machine_heartbeat" /\ p = newMachineHeartbeatCommand(r)
  \/ r.cmd = "machine_sync"      /\ p = newMachineSyncCommand(r)

newRolloutCommand(r, p) ==
  \/ r.cmd = "rollout_status"      /\ p = newRolloutStatusCommand(r)
  \/ r.cmd = "rollout_watch"       /\ p = newRolloutWatchCommand(r)
  \/ r.cmd = "rollout_summary"     /\ p = newRolloutSummaryCommand(r)
  \/ r.cmd = "rollout_generations" /\ p = newRolloutGenerationsCommand(r)
  \/ r.cmd = "rollout_machines"    /\ p = newRolloutMachinesCommand(r)
  \/ r.cmd = "rollout_stuck"       /\ p = newRolloutStuckCommand(r)
  \/ r.cmd = "rollout_health"      /\ p = newRolloutHealthCommand(r)
  \/ r.cmd = "rollout_explain"     /\ p = newRolloutExplainCommand(r)
  \/ r.cmd = "rollout_timeline"    /\ p = newRolloutTimelineCommand(r)
  \/ r.cmd = "rollout_history"     /\ p = newRolloutHistoryCommand(r)

PlanOf(r, p) ==
  \/ newCACommand(r, p) \/ newMachineCommand(r, p) \/ newRolloutCommand(r, p)
  \/ r.cmd = "health"  /\ p = newHealthCommand(r)
  \/ r.cmd = "status"  /\ p = newStatusCommand(r)
  \/ r.cmd = "metrics" /\ p = newMetricsCommand(r)
  \/ r.cmd = "doctor"  /\ p = newDoctorCommand(r)
=============================================================================
