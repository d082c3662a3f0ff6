------------------------------ MODULE Sessions ------------------------------
(***************************************************************************)
(* Who is logged in: the account index (internal/account, one JSON file),  *)
(* the tokens of the credential store (internal/credentials through        *)
(* internal/oauth/tokenstore.go) and the commands that change them: login  *)
(* (internal/authflow), logout, auth use | remove | rename, and every      *)
(* command that calls the server with the active account's token           *)
(* (cmd/helpers.go, loadToken), ssh among them.                            *)
(*                                                                         *)
(* A process reads the index once, when it starts, works on its copy and   *)
(* writes the whole copy back at every change; nothing locks the file.  A  *)
(* command is a sequence of steps on the two stores and the identity       *)
(* provider, and may be interrupted after any of them.                     *)
(*                                                                         *)
(* An account is identified by provider and subject (Id); the credential   *)
(* of an account is filed under its profile and its id.  Names, aliases    *)
(* and timestamps are left out.  A token is the number of its grant.  It   *)
(* has no expiry: mayflyserver.go sets none, and no registered provider    *)
(* can refresh one, so that the refresh in loadToken is never reached.     *)
(***************************************************************************)
EXTENDS Integers, Sequences

CONSTANTS Proc,       \* processes of the command line
          Commands,   \* the commands they run
          Profile,    \* configured profiles
          Id,         \* identities (provider:subject)
          None,       \* no profile, no account
          SignIns,    \* profile and identity pairs the user signs in with
          MaxTokens   \* bound: tokens the provider issues

Key == Profile \X Id

Logouts == {"logout", "logout_account", "logout_all"}
Cmd == {"login", "ssh", "call", "use", "rename"} \cup Logouts

ASSUME SessionsAssumption == /\ Commands \subseteq Cmd
                             /\ None \notin Profile \cup Id
                             /\ SignIns \subseteq Key
                             /\ MaxTokens \in Nat

VARIABLES index,     \* accounts.json
          tmp,       \* accounts.json.tmp, None if there is none
          tokens,    \* tokens[key]: the stored token, 0 if none
          grants,    \* grants[n]: the profile and identity token n was issued for
          proc,      \* process-local state
          solo       \* history: solo[p] iff no other command ran since p started

vars == <<index, tmp, tokens, grants, proc, solo>>

----------------------------------------------------------------------------
\* account.data: the profile of every account there is, and the active account of every
\* profile.
Index == [owner : [Id -> Profile \cup {None}], active : [Profile -> Id \cup {None}]]

EmptyIndex == [owner |-> [i \in Id |-> None], active |-> [f \in Profile |-> None]]

\* Mutant of Removed: only the profile the account belongs to loses its selection.
RemovedFromOwner(x, i) ==
  [owner |-> [x.owner EXCEPT ![i] = None],
   active |-> [f \in Profile |-> IF x.active[f] = i /\ f = x.owner[i] THEN None ELSE x.active[f]]]

\* Mutant of Upserted: an account that is known keeps the profile it was recorded with.
UpsertedKeepingProfile(x, f, i) ==
  [x EXCEPT !.owner = [@ EXCEPT ![i] = IF @ = None THEN f ELSE @]]

\* Mutant of Selected: the selection is made in every profile.
SelectedEverywhere(x, f, i) == [x EXCEPT !.active = [g \in Profile |-> i]]

\* Store.Upsert, Store.Remove and Store.SetActive, in memory.
Upserted(x, f, i) == [x EXCEPT !.owner = [@ EXCEPT ![i] = f]]
Removed(x, i) ==
  [owner |-> [x.owner EXCEPT ![i] = None],
   active |-> [f \in Profile |-> IF x.active[f] = i THEN None ELSE x.active[f]]]
Selected(x, f, i) == [x EXCEPT !.active = [@ EXCEPT ![f] = i]]

\* ListByProfile, and what Find can resolve a selector to.
AccountsOf(x, f) == {i \in Id : x.owner[i] = f}

\* Store.Active: the selection counts only if the account is there.
HasActive(x, f) == x.active[f] # None /\ x.owner[x.active[f]] # None

PC == {"idle", "sign_in", "save_token", "upsert", "activate", "touch", "relabel", "publish",
       "delete", "remove", "load", "send", "done"}

ProcState == [pc : PC, cmd : Cmd, profile : Profile \cup {None}, known : Index,
              id : Id \cup {None}, held : 0 .. Len(grants),
              targets : SUBSET Id, todo : SUBSET Id, after : PC]

Idle == [pc |-> "idle", cmd |-> "call", profile |-> None, known |-> EmptyIndex, id |-> None,
         held |-> 0, targets |-> {}, todo |-> {}, after |-> "done"]

At(p, l) == proc[p].pc = l
Becomes(p, r) == proc' = [proc EXCEPT ![p] = r]

\* Account.CredentialAccount: the profile recorded for the account, and the account.
CredentialKey(p) == <<proc[p].known.owner[proc[p].id], proc[p].id>>

----------------------------------------------------------------------------
Init == /\ index = EmptyIndex
        /\ tmp = None
        /\ tokens = [k \in Key |-> 0]
        /\ grants = <<>>
        /\ proc = [p \in Proc |-> Idle]
        /\ solo = [p \in Proc |-> FALSE]

stores == <<index, tmp, tokens>>

\* The process is on its way with command c in profile f, from the index it has just read:
\* pc l, account i, accounts ts to log out.
Begin(p, c, f, l, i, ts) ==
  /\ c \in Commands
  /\ Becomes(p, [Idle EXCEPT !.pc = l, !.cmd = c, !.profile = f, !.known = index, !.id = i,
                             !.targets = ts, !.todo = ts])
  /\ solo' = [q \in Proc |-> q = p /\ \A o \in Proc \ {p} : At(o, "idle")]
  /\ UNCHANGED <<stores, grants>>

\* ssh makes a request only if the cached certificate will not do.
Ensured == {"load", "touch"}

\* A command that finds no account to work on fails at once and changes nothing.
Start(p) ==
  /\ At(p, "idle")
  /\ \E f \in Profile :
       \/ Begin(p, "login", f, "sign_in", None, {})
       \/ ~HasActive(index, f) /\ Begin(p, "ssh", f, "sign_in", None, {})
       \/ /\ HasActive(index, f)
          /\ \/ \E l \in Ensured : Begin(p, "ssh", f, l, index.active[f], {})
             \/ Begin(p, "call", f, "load", index.active[f], {})
             \/ Begin(p, "logout", f, "delete", index.active[f], {index.active[f]})
       \/ \E i \in AccountsOf(index, f) :
            \/ Begin(p, "logout_account", f, "delete", i, {i})
            \/ Begin(p, "use", f, "activate", i, {})
            \/ Begin(p, "rename", f, "relabel", i, {})
       \/ /\ AccountsOf(index, f) # {}
          /\ Begin(p, "logout_all", f, "delete", None, AccountsOf(index, f))

----------------------------------------------------------------------------
(* The index: a change in memory, then the whole of it to a temporary file whose name *)
(* every process shares, then the rename.                                             *)

Save(p, x, next) ==
  /\ tmp' = x
  /\ Becomes(p, [proc[p] EXCEPT !.pc = "publish", !.known = x, !.after = next])
  /\ UNCHANGED <<index, tokens, grants, solo>>

\* Mutant of Publish: it is not noticed that there is nothing to rename.
PublishUnchecked(p) ==
  /\ At(p, "publish")
  /\ index' = tmp
  /\ tmp' = None
  /\ Becomes(p, [proc[p] EXCEPT !.pc = proc[p].after])
  /\ UNCHANGED <<tokens, grants, solo>>

\* Whatever temporary file is there is published.
Publish(p) ==
  /\ At(p, "publish")
  /\ tmp # None
  /\ index' = tmp
  /\ tmp' = None
  /\ Becomes(p, [proc[p] EXCEPT !.pc = proc[p].after])
  /\ UNCHANGED <<tokens, grants, solo>>

\* Touch is the last thing ssh and use do to the index, and they ignore its error.
Touched(p) == proc[p].cmd \in {"ssh", "use"} /\ proc[p].after = "done"

PublishFails(p) ==
  /\ At(p, "publish")
  /\ tmp = None
  /\ Becomes(p, IF Touched(p) THEN [proc[p] EXCEPT !.pc = "done"] ELSE Idle)
  /\ UNCHANGED <<stores, grants, solo>>

----------------------------------------------------------------------------
(* Login: the token first, then the account, then the selection. *)

\* The user approves the device code; the provider answers with a token and an identity.
SignIn(p) ==
  /\ At(p, "sign_in")
  /\ Len(grants) < MaxTokens
  /\ \E i \in Id :
       /\ <<proc[p].profile, i>> \in SignIns
       /\ grants' = Append(grants, <<proc[p].profile, i>>)
       /\ Becomes(p, [proc[p] EXCEPT !.pc = "save_token", !.id = i, !.held = Len(grants) + 1])
  /\ UNCHANGED <<stores, solo>>

SaveToken(p) ==
  /\ At(p, "save_token")
  /\ tokens' = [tokens EXCEPT ![<<proc[p].profile, proc[p].id>>] = proc[p].held]
  /\ Becomes(p, [proc[p] EXCEPT !.pc = "upsert"])
  /\ UNCHANGED <<index, tmp, grants, solo>>

Upsert(p) ==
  /\ At(p, "upsert")
  /\ Save(p, Upserted(proc[p].known, proc[p].profile, proc[p].id), "activate")

\* SetActive, of login and of auth use; ssh goes on to its certificate.
AfterActivate(c) == CASE c = "login" -> {"done"}
                      [] c = "ssh"   -> Ensured
                      [] OTHER       -> {"touch"}

SetActive(p) ==
  /\ At(p, "activate")
  /\ \E l \in AfterActivate(proc[p].cmd) :
       Save(p, Selected(proc[p].known, proc[p].profile, proc[p].id), l)

Touch(p) ==
  /\ At(p, "touch")
  /\ \/ Save(p, proc[p].known, "done")
     \/ /\ Becomes(p, [proc[p] EXCEPT !.pc = "done"])
        /\ UNCHANGED <<stores, grants, solo>>

\* auth rename: an alias, which is not modelled, in a copy that is.
Rename(p) ==
  /\ At(p, "relabel")
  /\ Save(p, proc[p].known, "done")

----------------------------------------------------------------------------
(* logout [account], logout --all and auth remove: for every target the token, then *)
(* the account.                                                                     *)

\* Mutant of DeleteToken: the credential is forgotten.
DeleteNothing(p) ==
  /\ At(p, "delete")
  /\ \E i \in proc[p].todo :
       Becomes(p, [proc[p] EXCEPT !.pc = "remove", !.id = i, !.todo = @ \ {i}])
  /\ UNCHANGED <<stores, grants, solo>>

DeleteToken(p) ==
  /\ At(p, "delete")
  /\ \E i \in proc[p].todo :
       /\ tokens' = [tokens EXCEPT ![<<proc[p].known.owner[i], i>>] = 0]
       /\ Becomes(p, [proc[p] EXCEPT !.pc = "remove", !.id = i, !.todo = @ \ {i}])
  /\ UNCHANGED <<index, tmp, grants, solo>>

Remove(p) ==
  /\ At(p, "remove")
  /\ Save(p, Removed(proc[p].known, proc[p].id),
          IF proc[p].todo = {} THEN "done" ELSE "delete")

----------------------------------------------------------------------------
(* A call to the server with the account's token. *)

\* loadToken; a missing token is an error (Abort).
Load(p) ==
  LET n == tokens[CredentialKey(p)]
  IN  /\ At(p, "load")
      /\ n # 0
      /\ Becomes(p, [proc[p] EXCEPT !.held = n, !.pc = "send"])
      /\ UNCHANGED <<stores, grants, solo>>

\* The request: answered, or to be sent again, for which the token is loaded again.
Send(p) ==
  /\ At(p, "send")
  /\ \E l \in {"load", IF proc[p].cmd = "ssh" THEN "touch" ELSE "done"} :
       Becomes(p, [proc[p] EXCEPT !.pc = l])
  /\ UNCHANGED <<stores, grants, solo>>

----------------------------------------------------------------------------
Finish(p) ==
  /\ At(p, "done")
  /\ Becomes(p, Idle)
  /\ UNCHANGED <<stores, grants, solo>>

\* The process is killed or interrupted, or a step fails and the command returns the error.
Abort(p) ==
  /\ proc[p].pc \notin {"idle", "done"}
  /\ Becomes(p, Idle)
  /\ UNCHANGED <<stores, grants, solo>>

Step(p) == \/ Start(p) \/ Publish(p) \/ PublishFails(p)
           \/ SignIn(p) \/ SaveToken(p) \/ Upsert(p) \/ SetActive(p) \/ Touch(p) \/ Rename(p)
           \/ DeleteToken(p) \/ Remove(p)
           \/ Load(p) \/ Send(p)
           \/ Finish(p) \/ Abort(p)

Next == \E p \in Proc : Step(p)

Spec == Init /\ [][Next]_vars

----------------------------------------------------------------------------
(* Properties *)

TypeOK ==
  /\ index \in Index
  /\ tmp \in Index \cup {None}
  /\ grants \in Seq(Key)
  /\ Len(grants) <= MaxTokens
  /\ tokens \in [Key -> 0 .. Len(grants)]
  /\ proc \in [Proc -> ProcState]
  /\ solo \in [Proc -> BOOLEAN]

\* A profile's active account exists, whatever processes overwrote whose index with their
\* stale copies, and wherever they were interrupted (account.go, Remove and SetActive).
IndexClosed ==
  \A f \in Profile : index.active[f] # None => index.owner[index.active[f]] # None

\* A request made in a profile carries a token that was issued in that profile to the
\* account it is made for (account.go: "the same identity in two profiles/servers does not
\* collide").
OwnTokenOnly ==
  \A p \in Proc : At(p, "send") => grants[proc[p].held] = <<proc[p].profile, proc[p].id>>

\* No identity has signed in to two profiles.
Separate ==
  \A m, n \in DOMAIN grants : grants[m][2] = grants[n][2] => grants[m] = grants[n]

\* As long as no identity has, it does: whatever stale copies of the index were published,
\* and whichever accounts were selected, removed and signed in again meanwhile.
OwnTokenWhenSeparate == Separate => OwnTokenOnly

\* After a login that no other command overlapped, the profile's active account is the one
\* that signed in, and its stored token is the one that was issued, whatever interrupted
\* commands had left behind.
SoloLoginTakes ==
  \A p \in Proc : solo[p] /\ At(p, "done") /\ proc[p].cmd = "login" =>
    LET i == proc[p].id
    IN  /\ index.active[proc[p].profile] = i
        /\ index.owner[i] = proc[p].profile
        /\ tokens[<<proc[p].profile, i>>] = proc[p].held

\* After a logout that no other command overlapped, none of its accounts is known or
\* active in any profile, and their tokens are gone from the profile it ran in
\* (logout.go: "Removes the stored token and account entry").  A plain logout takes the
\* active account, which is known to be the profile's own only while Separate holds.
SoloLogoutForgets ==
  \A p \in Proc : /\ solo[p] /\ At(p, "done") /\ proc[p].cmd \in Logouts
                  /\ proc[p].cmd = "logout" => Separate
                  => \A i \in proc[p].targets : /\ index.owner[i] = None
                                                /\ \A f \in Profile : index.active[f] # i
                                                /\ tokens[<<proc[p].profile, i>>] = 0
=============================================================================
