------------------------------ MODULE KeyStore ------------------------------
(***************************************************************************)
(* What a credential store promises to the processes that use it           *)
(* (internal/credentials/store.go, Store): Get, Set and Delete of a key,   *)
(* each of which takes effect at one moment between its call and its       *)
(* answer, or fails and changes nothing.  This is how the platform         *)
(* keyrings behave (keyring.go) and what Sessions takes for granted.       *)
(*                                                                         *)
(* Once processes have disturbed each other a store may do worse: lose or  *)
(* bring back what was stored under any key.  Even then a key only ever    *)
(* holds a secret that was set for that key.                               *)
(***************************************************************************)
CONSTANTS Client,     \* processes that use the store
          Key,        \* credential keys
          Secret,     \* secrets
          None,       \* no secret; ErrNotFound
          Unreadable  \* a secret nobody can read any more

VARIABLES store,      \* store[k]: what is stored under k
          job,        \* job[c]: the call c has made
          offered,    \* offered[k]: the secrets c's have asked to store under k
          disturbed   \* have processes disturbed each other?

vars == <<store, job, offered, disturbed>>

\* The interface: a call, and its answer when there is one.
Ops == {"get", "set", "delete"}
NoJob == [op |-> "none", key |-> None, secret |-> None, out |-> "none"]
Call(o, k, s) == [op |-> o, key |-> k, secret |-> s, out |-> "pending"]
Answered(c, o) == job' = [job EXCEPT ![c].out = o]
Pending(c) == job[c].out = "pending"

Init == /\ store = [k \in Key |-> None]
        /\ job = [c \in Client |-> NoJob]
        /\ offered = [k \in Key |-> {}]
        /\ disturbed = FALSE

\* A client calls Get, Set or Delete.
Ask(c) ==
  /\ job[c] = NoJob
  /\ \E k \in Key :
       \/ /\ \E o \in {"get", "delete"} : job' = [job EXCEPT ![c] = Call(o, k, None)]
          /\ UNCHANGED offered
       \/ \E s \in Secret : /\ job' = [job EXCEPT ![c] = Call("set", k, s)]
                            /\ offered' = [offered EXCEPT ![k] = @ \cup {s}]
  /\ UNCHANGED <<store, disturbed>>

\* The call takes effect.  Deleting a key that is not there is no error.
Get(c) == /\ job[c].op = "get"
          /\ Answered(c, store[job[c].key])
          /\ UNCHANGED store

Set(c) == /\ job[c].op = "set"
          /\ store' = [store EXCEPT ![job[c].key] = job[c].secret]
          /\ Answered(c, "ok")

Delete(c) == /\ job[c].op = "delete"
             /\ store' = [store EXCEPT ![job[c].key] = None]
             /\ Answered(c, "ok")

Perform(c) == /\ Pending(c)
              /\ Get(c) \/ Set(c) \/ Delete(c)
              /\ UNCHANGED <<offered, disturbed>>

\* The call fails.
Fail(c) == /\ Pending(c)
           /\ Answered(c, "error")
           /\ UNCHANGED <<store, offered, disturbed>>

\* The client has its answer, or is killed while it waits for it.
Return(c) == /\ job' = [job EXCEPT ![c] = NoJob]
             /\ UNCHANGED <<store, offered, disturbed>>

\* What may be stored, and answered, when processes have disturbed each other.
Possible(k) == offered[k] \cup {None, Unreadable}
Answers(k) == offered[k] \cup {None, "ok", "error"}

Interfere ==
  /\ disturbed'
  /\ store' \in [Key -> Secret \cup {None, Unreadable}]
  /\ \A k \in Key : store'[k] \in Possible(k)
  /\ \/ UNCHANGED job
     \/ \E c \in Client : Pending(c) /\ \E o \in Answers(job[c].key) : Answered(c, o)
  /\ UNCHANGED offered

Next == Interfere \/ \E c \in Client : Ask(c) \/ Perform(c) \/ Fail(c) \/ Return(c)

Spec == Init /\ [][Next]_vars
=============================================================================
