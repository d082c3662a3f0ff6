---------------------------- MODULE MCOperations ----------------------------
(* A small instance of Operations: two CAs, one machine, one retry. *)
EXTENDS Operations

CONSTANTS c1, c2, m1

Plain == [cmd |-> "doctor", output |-> "table", watch |-> FALSE, yes |-> FALSE, id |-> None,
          all |-> FALSE, passphrase |-> "env", keyFile |-> "readable",
          shortcuts |-> {}, liveness |-> "", status |-> "", generation |-> -1,
          state |-> "", limit |-> 50,
          url |-> "https", session |-> "ok", authorized |-> TRUE, retries |-> 1, limited |-> TRUE,
          default |-> TRUE, helper |-> FALSE, verified |-> TRUE, configured |-> TRUE,
          bundled |-> TRUE,
          dated |-> TRUE, drift |-> 0]

Command(cmd, id) == [Plain EXCEPT !.cmd = cmd, !.id = id]

\* Every change, as text and as a document, with --yes and without.
Changing ==
  {[Command(cmd, c1) EXCEPT !.output = o, !.yes = y] :
     cmd \in {"ca_retire", "ca_delete"}, o \in {"table", "json"}, y \in BOOLEAN}
  \cup {[Command(cmd, m1) EXCEPT !.output = o, !.yes = y] :
     cmd \in {"machine_delete", "machine_reenroll"}, o \in {"table", "json"}, y \in BOOLEAN}
  \cup {[Command("machine_rotate", m1) EXCEPT !.yes = y] : y \in BOOLEAN}
  \cup {[Command(cmd, c1) EXCEPT !.passphrase = p, !.keyFile = k] :
     cmd \in {"ca_create", "ca_import"}, p \in {"none", "flag"}, k \in {"unreadable", "readable"}}
  \cup {[Command("ca_rotate", None) EXCEPT !.passphrase = p] : p \in {"none", "env"}}
  \cup {[Command(cmd, c1) EXCEPT !.output = o] :
     cmd \in {"ca_rotate", "ca_enable", "ca_disable"}, o \in {"table", "json"}}
  \cup {[Command(cmd, m1) EXCEPT !.output = o] :
     cmd \in {"machine_approve", "machine_disable", "machine_enable", "machine_revoke"},
     o \in {"table", "json"}}

\* Every view, with --watch and without.
Viewing ==
  {[Command(cmd, None) EXCEPT !.watch = w, !.output = o] :
     cmd \in {"ca_list", "ca_rollout", "machine_status", "rollout_status"},
     w \in BOOLEAN, o \in {"wide", "yaml"}}
  \cup {[Command("ca_show", c1) EXCEPT !.watch = w] : w \in BOOLEAN}
  \cup {[Command("machine_show", m1) EXCEPT !.watch = w] : w \in BOOLEAN}
  \cup {[Command("rollout_watch", None) EXCEPT !.output = o] : o \in {"table", "json"}}
  \cup {Command(cmd, None) :
     cmd \in {"ca_stats", "ca_current", "rollout_summary", "rollout_generations",
              "rollout_stuck", "rollout_health", "rollout_explain", "rollout_timeline",
              "rollout_history", "health", "status", "metrics"}}
  \cup {[Command("rollout_timeline", None) EXCEPT !.limit = 0]}
  \cup {[Command("ca_export", i) EXCEPT !.all = a] : i \in {None, c1}, a \in BOOLEAN}
  \cup {Command("ca_fingerprint", i) : i \in {None, c1}}
  \cup {Command("ca_public_key", c1), Command("machine_heartbeat", m1), Command("machine_sync", m1)}
  \cup {[Command("machine_list", None) EXCEPT !.shortcuts = s, !.liveness = l] :
     s \in SUBSET Live, l \in {"", "online"}}
  \cup {[Command("machine_list", None) EXCEPT !.status = s, !.liveness = l, !.generation = g] :
     s \in {"", "active", "disabled"}, l \in {"offline", "stale"}, g \in {-1, 0}}
  \cup {[Command("rollout_machines", None) EXCEPT !.state = s, !.generation = g] :
     s \in {"", "all", "current", "lagging", "stuck"}, g \in -2 .. 1}

\* What can be wrong around a command, each thing alone.
Wrong(r) ==
  {[r EXCEPT !.output = "xml"], [r EXCEPT !.authorized = FALSE],
   [r EXCEPT !.retries = -1], [r EXCEPT !.limited = FALSE]}
  \cup {[r EXCEPT !.session = s] : s \in {"none", "unknown", "expired"}}
  \cup {[r EXCEPT !.url = u] : u \in {"none", "plain", "local"}}

\* What doctor finds; its runs are the longest, with three requests.
Diagnosing ==
  {[Plain EXCEPT !.drift = 5, !.default = FALSE, !.bundled = FALSE, !.retries = 0],
   [Plain EXCEPT !.drift = 60, !.helper = TRUE, !.retries = 0],
   [Plain EXCEPT !.drift = 60, !.dated = FALSE, !.output = "json"],
   [Plain EXCEPT !.verified = FALSE, !.retries = 0],
   [Plain EXCEPT !.configured = FALSE, !.retries = 0],
   [Plain EXCEPT !.authorized = FALSE, !.verified = FALSE, !.retries = 0],
   [Plain EXCEPT !.retries = -1], [Plain EXCEPT !.output = "xml"]}
  \cup {[Plain EXCEPT !.session = s] : s \in {"none", "expired"}}
  \cup {[Plain EXCEPT !.url = u] : u \in {"none", "plain"}}

\* The other states come about by somebody else's change.
MCStarts == {s \in Servers : /\ s[c2] \in {"absent", "enabled"}
                            /\ s[m1] \in {"absent", "pending", "online"}}

MCInvocations ==
  Changing \cup Viewing \cup Diagnosing
  \cup Wrong(Command("machine_reenroll", m1)) \cup Wrong(Command("ca_show", c1))
=============================================================================
