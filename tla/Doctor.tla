------------------------------- MODULE Doctor -------------------------------
(***************************************************************************)
(* The checks of `mayfly doctor` and their verdict, as a function of       *)
(* what it finds around it (the invocation r) and of what became of its    *)
(* requests.  An outcome has the field ok, and the server's answer when it *)
(* is TRUE: the machines that there are (health).  What status answers is  *)
(* a part of r: whether the server calls its CA and its bundle configured, *)
(* and its audit chain verified.                                           *)
(***************************************************************************)
EXTENDS Handlers, Sequences

CheckNames == {"connectivity", "tls", "chain", "drift", "session", "providers",
               "enrollment", "consistency", "generation", "agents", "helper"}
ServerSide == {"enrollment", "consistency", "generation", "agents"}
CheckStatus == {"pass", "warn", "fail", "skip"}

clockDriftWarn == 5     \* seconds
clockDriftFail == 60

Failed == [ok |-> FALSE]
Succeeds(outcome) == outcome.ok

\* What came of the n-th request: nothing, when it was not sent.
Heard(heard, n) == IF n \in DOMAIN heard THEN heard[n] ELSE Failed

fetchServerInfo(heard) == Heard(heard, 1)

\* A report is a set of checks.
add(name, status) == {[name |-> name, status |-> status]}

addConnectivity(info) == add("connectivity", IF Succeeds(info) THEN "pass" ELSE "fail")

addTLSChecks(url, reachable) ==
  IF url = "https"
  THEN add("tls", "pass") \cup add("chain", IF reachable THEN "pass" ELSE "warn")
  ELSE add("tls", "warn") \cup add("chain", "skip")

addClockDrift(r, info) ==
  add("drift", IF ~Succeeds(info) \/ ~r.dated THEN "skip"
               ELSE IF r.drift >= clockDriftFail THEN "fail"
               ELSE IF r.drift >= clockDriftWarn THEN "warn"
               ELSE "pass")

\* A session is "ok" when its token loads.
addSessionCheck(r) == add("session", IF r.session = "ok" THEN "pass" ELSE "warn")

\* The registry is never empty: the default provider is known, or is not.
addProviders(r) == add("providers", IF r.default THEN "pass" ELSE "warn")

\* configured is the server's own word: how many CAs are enabled is shown and not looked at.
addCAChecks(r) ==
  add("consistency", IF r.configured /\ r.verified THEN "pass" ELSE "fail")
  \cup add("generation", IF r.bundled THEN "pass" ELSE "warn")

\* Heartbeats arrive, arrive late, or do not; a machine that may not send any is offline.
Liveness(state) ==
  IF state \in {"online", "lagging"} THEN "online"
  ELSE IF state = "stale" THEN "stale" ELSE "offline"

addFleetChecks(machines) ==
  LET enrolled == {m \in Machine : machines[m] # "absent"}
      offline == {m \in enrolled : Liveness(machines[m]) = "offline"}
  IN  IF enrolled = {} THEN add("enrollment", "warn") \cup add("agents", "skip")
      ELSE add("enrollment", "pass") \cup add("agents", IF offline = {} THEN "pass" ELSE "warn")

addServerChecks(r, status, health) ==
  IF ~adminClient(r) THEN UNION {add(c, "warn") : c \in ServerSide}
  ELSE (IF Succeeds(status) THEN addCAChecks(r)
        ELSE add("consistency", "warn") \cup add("generation", "warn"))
       \cup (IF Succeeds(health) THEN addFleetChecks(health.told)
             ELSE add("enrollment", "warn") \cup add("agents", "warn"))

addHelper(r) == add("helper", IF r.helper THEN "pass" ELSE "skip")

runDoctor(r, heard) ==
  LET info == fetchServerInfo(heard)
  IN  addConnectivity(info) \cup addTLSChecks(r.url, Succeeds(info))
      \cup addClockDrift(r, info) \cup addSessionCheck(r) \cup addProviders(r)
      \cup addServerChecks(r, Heard(heard, 2), Heard(heard, 3)) \cup addHelper(r)

Reports(checks, status) == \E c \in checks : c.status = status

\* Mutant of OverallStatus: a later WARN overrides FAIL.
OverallStatusWarns(checks) ==
  IF Reports(checks, "warn") THEN "warn" ELSE IF Reports(checks, "fail") THEN "fail" ELSE "pass"

OverallStatus(checks) ==
  IF Reports(checks, "fail") THEN "fail" ELSE IF Reports(checks, "warn") THEN "warn" ELSE "pass"
=============================================================================
