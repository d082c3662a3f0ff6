--------------------------- MODULE SessionsProofs ---------------------------
(***************************************************************************)
(* Theorems about Sessions, for any number of processes, profiles and      *)
(* identities, and any number of tokens.                                   *)
(***************************************************************************)
EXTENDS Sessions, TLAPS

LEMMA TypeFacts ==
  ASSUME TypeOK
  PROVE  /\ Len(grants) \in Nat /\ grants \in Seq(Key)
         /\ index \in Index /\ tmp \in Index \cup {None}
         /\ tokens \in [Key -> 0 .. Len(grants)]
         /\ proc \in [Proc -> ProcState] /\ solo \in [Proc -> BOOLEAN]
BY DEF TypeOK

\* A process's local state, component by component.
LEMMA ProcFacts ==
  ASSUME TypeOK, NEW p \in Proc
  PROVE  /\ proc[p] \in ProcState
         /\ proc[p].known \in Index /\ proc[p].id \in Id \cup {None}
         /\ proc[p].profile \in Profile \cup {None} /\ proc[p].held \in 0 .. Len(grants)
         /\ proc[p].todo \in SUBSET Id /\ proc[p].targets \in SUBSET Id
         /\ proc[p].after \in PC
BY TypeFacts DEF ProcState

LEMMA IdleType ==
  ASSUME Len(grants) \in Nat
  PROVE  Idle \in ProcState /\ EmptyIndex \in Index
<1>1. EmptyIndex \in Index
  BY DEF EmptyIndex, Index
<1> QED
  BY <1>1 DEF Idle, ProcState, PC, Cmd, Logouts

LEMMA SelectedType ==
  ASSUME NEW x \in Index, NEW f \in Profile \cup {None}, NEW i \in Id \cup {None}
  PROVE  /\ Selected(x, f, i) \in Index
         /\ Selected(x, f, i).owner = x.owner
         /\ Selected(x, f, i).active = [x.active EXCEPT ![f] = i]
BY DEF Index, Selected

LEMMA RemovedType ==
  ASSUME NEW x \in Index, NEW i \in Id \cup {None}
  PROVE  /\ Removed(x, i) \in Index
         /\ Removed(x, i).owner = [x.owner EXCEPT ![i] = None]
         /\ Removed(x, i).active = [f \in Profile |-> IF x.active[f] = i THEN None ELSE x.active[f]]
BY DEF Index, Removed

LEMMA BecomesFacts ==
  ASSUME TypeOK, NEW p \in Proc, NEW r, Becomes(p, r)
  PROVE  proc'[p] = r /\ \A q \in Proc \ {p} : proc'[q] = proc[q]
BY DEF Becomes, TypeOK

\* A step that grants nothing and gives one process another local state.
LEMMA LocalStepType ==
  ASSUME TypeOK, NEW p \in Proc, NEW r \in ProcState, Becomes(p, r), grants' = grants,
         index' \in Index, tmp' \in Index \cup {None},
         tokens' \in [Key -> 0 .. Len(grants)], solo' \in [Proc -> BOOLEAN]
  PROVE  TypeOK'
<1>1. ProcState' = ProcState
  BY DEF ProcState
<1>2. proc' \in [Proc -> ProcState']
  BY <1>1, TypeFacts DEF Becomes
<1> QED
  BY <1>2 DEF TypeOK

\* A step that issues token n + 1.
LEMMA GrantStepType ==
  ASSUME TypeOK, NEW p \in Proc, NEW k \in Key, NEW r, Becomes(p, r),
         grants' = Append(grants, k), Len(grants) < MaxTokens,
         Len(grants') = Len(grants) + 1 => r \in ProcState',
         UNCHANGED <<stores, solo>>
  PROVE  TypeOK' /\ Len(grants') = Len(grants) + 1
         /\ \A n \in 1 .. Len(grants) : grants'[n] = grants[n]
<1> USE SessionsAssumption
<1>1. grants \in Seq(Key) /\ Len(grants) \in Nat
  BY TypeFacts
<1>2. /\ grants' \in Seq(Key) /\ Len(grants') = Len(grants) + 1
      /\ \A n \in 1 .. Len(grants) : grants'[n] = grants[n]
  BY <1>1
<1>3. 0 .. Len(grants) \subseteq 0 .. Len(grants') /\ 1 .. Len(grants) \subseteq 1 .. Len(grants')
  BY <1>1, <1>2
<1>4. ProcState \subseteq ProcState'
  BY <1>3 DEF ProcState
<1>5. proc' \in [Proc -> ProcState']
  BY <1>2, <1>4, TypeFacts DEF Becomes
<1>6. tokens' \in [Key -> 0 .. Len(grants')]
  BY <1>3, TypeFacts DEF stores
<1>7. Len(grants') <= MaxTokens
  BY <1>1, <1>2
<1> QED
  BY <1>2, <1>3, <1>5, <1>6, <1>7, TypeFacts DEF TypeOK, stores

LEMMA TypeInit == Init => TypeOK
<1> SUFFICES ASSUME Init PROVE TypeOK
  OBVIOUS
<1>1. Len(grants) = 0 /\ grants \in Seq(Key)
  BY DEF Init
<1>2. Idle \in ProcState /\ EmptyIndex \in Index
  BY <1>1, IdleType
<1>3. tokens \in [Key -> 0 .. Len(grants)] /\ Len(grants) <= MaxTokens
  BY <1>1, SessionsAssumption DEF Init
<1> QED
  BY <1>1, <1>2, <1>3 DEF Init, TypeOK

\* What Start can begin, all its alternatives at once.
LEMMA StartBegins ==
  ASSUME TypeOK, NEW p \in Proc, Start(p)
  PROVE  \E c \in Cmd, f \in Profile, i \in Id \cup {None}, ts \in SUBSET Id,
            l \in {"sign_in", "load", "touch", "delete", "activate", "relabel"} :
           /\ Begin(p, c, f, l, i, ts)
           /\ l = "load" => i \in Id /\ index.active[f] = i /\ index.owner[i] # None
           /\ l = "activate" => i \in Id /\ index.owner[i] = f
<1> USE SessionsAssumption DEF Cmd, Logouts
<1>1. PICK f \in Profile :
       \/ Begin(p, "login", f, "sign_in", None, {})
       \/ Begin(p, "ssh", f, "sign_in", None, {})
       \/ /\ HasActive(index, f)
          /\ \/ \E l \in Ensured : Begin(p, "ssh", f, l, index.active[f], {})
             \/ Begin(p, "call", f, "load", index.active[f], {})
             \/ Begin(p, "logout", f, "delete", index.active[f], {index.active[f]})
       \/ \E i \in AccountsOf(index, f) :
            \/ Begin(p, "logout_account", f, "delete", i, {i})
            \/ Begin(p, "use", f, "activate", i, {})
            \/ Begin(p, "rename", f, "relabel", i, {})
       \/ Begin(p, "logout_all", f, "delete", None, AccountsOf(index, f))
  BY DEF Start
<1>2. index.active[f] \in Id \cup {None} /\ AccountsOf(index, f) \in SUBSET Id
  BY TypeFacts DEF Index, AccountsOf
<1>3. CASE Begin(p, "login", f, "sign_in", None, {}) \/ Begin(p, "ssh", f, "sign_in", None, {})
  BY <1>3
<1>4. CASE /\ HasActive(index, f)
           /\ \/ \E l \in Ensured : Begin(p, "ssh", f, l, index.active[f], {})
              \/ Begin(p, "call", f, "load", index.active[f], {})
              \/ Begin(p, "logout", f, "delete", index.active[f], {index.active[f]})
  <2>1. index.active[f] \in Id /\ index.owner[index.active[f]] # None
    BY <1>2, <1>4 DEF HasActive
  <2> QED
    BY <1>4, <2>1 DEF Ensured
<1>5. ASSUME NEW i \in AccountsOf(index, f),
             \/ Begin(p, "logout_account", f, "delete", i, {i})
             \/ Begin(p, "use", f, "activate", i, {})
             \/ Begin(p, "rename", f, "relabel", i, {})
      PROVE  \E c \in Cmd, g \in Profile, j \in Id \cup {None}, ts \in SUBSET Id,
                l \in {"sign_in", "load", "touch", "delete", "activate", "relabel"} :
               /\ Begin(p, c, g, l, j, ts)
               /\ l = "load" => j \in Id /\ index.active[g] = j /\ index.owner[j] # None
               /\ l = "activate" => j \in Id /\ index.owner[j] = g
  <2>1. i \in Id /\ index.owner[i] = f
    BY DEF AccountsOf
  <2> QED
    BY <1>5, <2>1
<1>6. CASE Begin(p, "logout_all", f, "delete", None, AccountsOf(index, f))
  BY <1>2, <1>6
<1> QED
  BY <1>1, <1>3, <1>4, <1>5, <1>6

----------------------------------------------------------------------------
(* What a process knows of the account and of the token it works with. *)

Heading(r, l) == r.pc = l \/ (r.pc = "publish" /\ r.after = l)

\* Every token is filed under the profile and the identity it was issued for.
TokenMatchesKey == \A k \in Key : tokens[k] # 0 => grants[tokens[k]] = k

FlowOf(r, g) ==
  /\ r.pc # "idle" => r.profile \in Profile
  /\ r.pc = "publish" => r.after \in {"activate", "load", "touch", "done", "delete"}
  /\ r.pc \in {"save_token", "upsert"}
       => r.id \in Id /\ r.held # 0 /\ g[r.held] = <<r.profile, r.id>>
  /\ Heading(r, "activate") => r.id \in Id /\ r.known.owner[r.id] = r.profile
  /\ Heading(r, "load") \/ r.pc = "send" => r.id \in Id /\ r.known.owner[r.id] # None
  /\ r.pc = "send" => r.held # 0 /\ g[r.held] = <<r.known.owner[r.id], r.id>>

Inv == /\ TypeOK
       /\ TokenMatchesKey
       /\ \A p \in Proc : FlowOf(proc[p], grants)

LEMMA FlowIdle == \A g : FlowOf(Idle, g)
BY DEF FlowOf, Idle, Heading

\* A grant that is appended leaves what was known of the earlier ones.
LEMMA FlowGrows ==
  ASSUME TypeOK, NEW r \in ProcState, NEW g, FlowOf(r, grants),
         \A n \in 1 .. Len(grants) : g[n] = grants[n]
  PROVE  FlowOf(r, g)
<1>1. r.held # 0 => r.held \in 1 .. Len(grants)
  BY TypeFacts DEF ProcState
<1> QED
  BY <1>1 DEF FlowOf

\* A step of p that grants nothing.
LEMMA LocalStepInv ==
  ASSUME Inv, NEW p \in Proc, NEW r \in ProcState, Becomes(p, r), grants' = grants,
         index' \in Index, tmp' \in Index \cup {None}, solo' \in [Proc -> BOOLEAN],
         tokens' \in [Key -> 0 .. Len(grants)],
         \A k \in Key : tokens'[k] # 0 => grants[tokens'[k]] = k,
         FlowOf(r, grants)
  PROVE  Inv'
<1>1. TypeOK'
  BY LocalStepType DEF Inv
<1>2. TokenMatchesKey'
  BY DEF TokenMatchesKey
<1>3. \A q \in Proc : FlowOf(proc[q], grants)'
  <2> SUFFICES ASSUME NEW q \in Proc PROVE FlowOf(proc'[q], grants)
    OBVIOUS
  <2> QED
    BY BecomesFacts DEF Inv
<1> QED
  BY <1>1, <1>2, <1>3 DEF Inv

\* A step of p that changes no store.
LEMMA QuietStepInv ==
  ASSUME Inv, NEW p \in Proc, NEW r \in ProcState, Becomes(p, r),
         UNCHANGED <<stores, grants, solo>>, FlowOf(r, grants)
  PROVE  Inv'
<1>1. /\ index' \in Index /\ tmp' \in Index \cup {None} /\ solo' \in [Proc -> BOOLEAN]
      /\ tokens' \in [Key -> 0 .. Len(grants)]
  BY TypeFacts DEF stores, Inv
<1>2. \A k \in Key : tokens'[k] # 0 => grants[tokens'[k]] = k
  BY DEF stores, Inv, TokenMatchesKey
<1> QED
  BY <1>1, <1>2, LocalStepInv

LEMMA SaveInv ==
  ASSUME Inv, NEW p \in Proc, NEW x \in Index,
         NEW l \in {"activate", "load", "touch", "done", "delete"}, Save(p, x, l),
         proc[p].profile \in Profile,
         l = "activate" => proc[p].id \in Id /\ x.owner[proc[p].id] = proc[p].profile,
         l = "load" => proc[p].id \in Id /\ x.owner[proc[p].id] # None
  PROVE  Inv'
<1> DEFINE r == [proc[p] EXCEPT !.pc = "publish", !.known = x, !.after = l]
<1>1. r \in ProcState
  BY ProcFacts DEF ProcState, PC, Inv
<1>2. /\ r.pc = "publish" /\ r.after = l /\ r.known = x /\ r.id = proc[p].id
      /\ r.profile = proc[p].profile
  BY ProcFacts DEF ProcState, Inv
<1>3. FlowOf(r, grants)
  BY <1>2 DEF FlowOf, Heading
<1>4. /\ index' \in Index /\ tmp' \in Index \cup {None} /\ solo' \in [Proc -> BOOLEAN]
      /\ tokens' \in [Key -> 0 .. Len(grants)]
      /\ \A k \in Key : tokens'[k] # 0 => grants[tokens'[k]] = k
  BY TypeFacts DEF Save, Inv, TokenMatchesKey
<1> QED
  BY <1>1, <1>3, <1>4, LocalStepInv DEF Save

LEMMA StartInv ==
  ASSUME Inv, NEW p \in Proc, Start(p)
  PROVE  Inv'
<1>1. PICK c \in Cmd, f \in Profile, i \in Id \cup {None}, ts \in SUBSET Id,
           l \in {"sign_in", "load", "touch", "delete", "activate", "relabel"} :
        /\ Begin(p, c, f, l, i, ts)
        /\ l = "load" => i \in Id /\ index.active[f] = i /\ index.owner[i] # None
        /\ l = "activate" => i \in Id /\ index.owner[i] = f
  BY StartBegins DEF Inv
<1> DEFINE r == [Idle EXCEPT !.pc = l, !.cmd = c, !.profile = f, !.known = index, !.id = i,
                   !.targets = ts, !.todo = ts]
<1>2. r \in ProcState
  BY TypeFacts, IdleType DEF ProcState, PC, Inv
<1>3. r.pc = l /\ r.profile = f /\ r.known = index /\ r.id = i
  BY DEF Idle
<1>4. FlowOf(r, grants)
  BY <1>1, <1>3 DEF FlowOf, Heading
<1>5. /\ index' \in Index /\ tmp' \in Index \cup {None}
      /\ tokens' \in [Key -> 0 .. Len(grants)]
      /\ \A k \in Key : tokens'[k] # 0 => grants[tokens'[k]] = k
  BY <1>1, TypeFacts DEF Begin, stores, Inv, TokenMatchesKey
<1>6. solo' \in [Proc -> BOOLEAN] /\ Becomes(p, r) /\ grants' = grants
  BY <1>1 DEF Begin
<1> QED
  BY <1>2, <1>4, <1>5, <1>6, LocalStepInv

\* A step of p that issues a token for k.
LEMMA GrantStepInv ==
  ASSUME Inv, NEW p \in Proc, NEW k \in Key, NEW r, Becomes(p, r),
         grants' = Append(grants, k), Len(grants) < MaxTokens,
         Len(grants') = Len(grants) + 1 => r \in ProcState',
         UNCHANGED <<stores, solo>>,
         grants'[Len(grants) + 1] = k => FlowOf(r, grants')
  PROVE  Inv'
<1> USE DEF Inv
<1>1. /\ TypeOK' /\ Len(grants') = Len(grants) + 1
      /\ \A n \in 1 .. Len(grants) : grants'[n] = grants[n]
  BY GrantStepType
<1>2. grants'[Len(grants) + 1] = k
  <2>1. grants \in Seq(Key)
    BY TypeFacts
  <2> QED
    BY <2>1
<1>3. TokenMatchesKey'
  <2> SUFFICES ASSUME NEW j \in Key, tokens[j] # 0 PROVE grants'[tokens[j]] = j
    BY DEF stores, TokenMatchesKey
  <2>1. tokens[j] \in 1 .. Len(grants)
    BY TypeFacts
  <2> QED
    BY <1>1, <2>1 DEF TokenMatchesKey
<1>4. ASSUME NEW q \in Proc PROVE FlowOf(proc'[q], grants')
  <2>1. CASE q = p
    BY <1>2, <2>1, BecomesFacts
  <2>2. CASE q # p
    <3>1. proc'[q] = proc[q] /\ proc[q] \in ProcState /\ FlowOf(proc[q], grants)
      BY <2>2, BecomesFacts, ProcFacts
    <3> QED
      BY <1>1, <3>1, FlowGrows
  <2> QED
    BY <2>1, <2>2
<1> QED
  BY <1>1, <1>3, <1>4

LEMMA StepInv ==
  ASSUME Inv, NEW p \in Proc, Step(p)
  PROVE  Inv'
<1> USE SessionsAssumption
<1> DEFINE r == proc[p]
<1>a. /\ TypeOK /\ r \in ProcState /\ FlowOf(r, grants) /\ Len(grants) \in Nat
      /\ r.known \in Index /\ r.id \in Id \cup {None} /\ r.held \in 0 .. Len(grants)
      /\ r.profile \in Profile \cup {None}
  BY TypeFacts, ProcFacts DEF Inv
<1>i. Idle \in ProcState /\ FlowOf(Idle, grants)
  BY <1>a, IdleType, FlowIdle
<1>t. /\ index \in Index /\ tmp \in Index \cup {None} /\ solo \in [Proc -> BOOLEAN]
      /\ tokens \in [Key -> 0 .. Len(grants)]
      /\ \A k \in Key : tokens[k] # 0 => grants[tokens[k]] = k
  BY TypeFacts DEF Inv, TokenMatchesKey
<1>1. CASE Start(p)
  BY <1>1, StartInv
<1>2. CASE Publish(p)
  <2> DEFINE n == [r EXCEPT !.pc = r.after]
  <2>1. r.after \in {"activate", "load", "touch", "done", "delete"}
    BY <1>2, <1>a DEF Publish, At, FlowOf
  <2>2. n \in ProcState
    BY <1>a, <2>1 DEF ProcState, PC
  <2>3. FlowOf(n, grants)
    BY <1>2, <1>a, <2>1 DEF ProcState, Publish, At, FlowOf, Heading
  <2> QED
    BY <1>2, <1>t, <2>2, <2>3, LocalStepInv DEF Publish
<1>3. CASE PublishFails(p)
  <2> DEFINE n == [r EXCEPT !.pc = "done"]
  <2>1. n \in ProcState
    BY <1>a DEF ProcState, PC
  <2>2. FlowOf(n, grants)
    BY <1>3, <1>a DEF ProcState, PublishFails, At, FlowOf, Heading
  <2> QED
    BY <1>3, <1>i, <2>1, <2>2, QuietStepInv DEF PublishFails
<1>4. CASE SignIn(p)
  <2>1. PICK i \in Id : /\ <<r.profile, i>> \in SignIns
                        /\ grants' = Append(grants, <<r.profile, i>>)
                        /\ Becomes(p, [r EXCEPT !.pc = "save_token", !.id = i,
                                               !.held = Len(grants) + 1])
    BY <1>4 DEF SignIn
  <2> DEFINE k == <<r.profile, i>>
             n == [r EXCEPT !.pc = "save_token", !.id = i, !.held = Len(grants) + 1]
  <2>2. k \in Key /\ r.profile \in Profile
    BY <2>1 DEF Key
  <2>3. Len(grants') = Len(grants) + 1 => n \in ProcState'
    <3> SUFFICES ASSUME Len(grants') = Len(grants) + 1 PROVE n \in ProcState'
      OBVIOUS
    <3>1. Len(grants) + 1 \in 0 .. Len(grants') /\ r \in ProcState'
      BY <1>a DEF ProcState
    <3> QED
      BY <3>1 DEF ProcState, PC
  <2>4. grants'[Len(grants) + 1] = k => FlowOf(n, grants')
    <3>1. /\ n.pc = "save_token" /\ n.id = i /\ n.held = Len(grants) + 1
          /\ n.profile = r.profile
      BY <1>a DEF ProcState
    <3>2. n.held # 0
      BY <1>a, <3>1
    <3> QED
      BY <2>2, <3>1, <3>2 DEF FlowOf, Heading
  <2>5. Len(grants) < MaxTokens /\ UNCHANGED <<stores, solo>>
    BY <1>4 DEF SignIn
  <2> HIDE DEF k, n
  <2> QED
    BY <2>1, <2>2, <2>3, <2>4, <2>5, GrantStepInv DEF k, n
<1>5. CASE SaveToken(p)
  <2> DEFINE k == <<r.profile, r.id>>
             n == [r EXCEPT !.pc = "upsert"]
  <2>1. k \in Key /\ r.held \in 1 .. Len(grants) /\ grants[r.held] = k
    BY <1>5, <1>a DEF SaveToken, At, FlowOf, Key
  <2>2. n \in ProcState
    BY <1>a DEF ProcState, PC
  <2>3. FlowOf(n, grants)
    BY <1>5, <1>a DEF ProcState, SaveToken, At, FlowOf, Heading
  <2>4. /\ tokens' \in [Key -> 0 .. Len(grants)]
        /\ \A j \in Key : tokens'[j] # 0 => grants[tokens'[j]] = j
    BY <1>5, <1>t, <1>a, <2>1 DEF SaveToken
  <2> QED
    BY <1>5, <1>t, <2>2, <2>3, <2>4, LocalStepInv DEF SaveToken
<1>6. CASE Upsert(p)
  <2>1. r.profile \in Profile /\ r.id \in Id
    BY <1>6, <1>a DEF Upsert, At, FlowOf
  <2>2. /\ Upserted(r.known, r.profile, r.id) \in Index
        /\ Upserted(r.known, r.profile, r.id).owner[r.id] = r.profile
    <3>1. r.known.owner \in [Id -> Profile \cup {None}]
      BY <1>a DEF Index
    <3>2. /\ Upserted(r.known, r.profile, r.id) \in Index
          /\ Upserted(r.known, r.profile, r.id).owner = [r.known.owner EXCEPT ![r.id] = r.profile]
      BY <1>a DEF Index, Upserted
    <3> QED
      BY <2>1, <3>1, <3>2
  <2> QED
    BY <1>6, <2>1, <2>2, SaveInv DEF Upsert
<1>7. CASE SetActive(p)
  <2> DEFINE x == Selected(r.known, r.profile, r.id)
  <2>1. r.profile \in Profile /\ r.id \in Id /\ r.known.owner[r.id] = r.profile
    BY <1>7, <1>a DEF SetActive, At, FlowOf, Heading
  <2>2. x \in Index /\ x.owner = r.known.owner
    BY <1>a DEF Index, Selected
  <2>3. PICK l \in {"done", "load", "touch"} : Save(p, x, l)
    BY <1>7 DEF SetActive, AfterActivate, Ensured
  <2> HIDE DEF x
  <2> QED
    BY <2>1, <2>2, <2>3, SaveInv
<1>8. CASE Touch(p)
  <2> DEFINE n == [r EXCEPT !.pc = "done"]
  <2>1. n \in ProcState
    BY <1>a DEF ProcState, PC
  <2>2. FlowOf(n, grants) /\ r.profile \in Profile
    BY <1>8, <1>a DEF ProcState, Touch, At, FlowOf, Heading
  <2> QED
    BY <1>8, <1>a, <2>1, <2>2, SaveInv, QuietStepInv DEF Touch
<1>9. CASE Rename(p)
  <2>1. r.profile \in Profile
    BY <1>9, <1>a DEF Rename, At, FlowOf
  <2> QED
    BY <1>9, <1>a, <2>1, SaveInv DEF Rename
<1>10. CASE DeleteToken(p)
  <2>1. PICK i \in r.todo :
          /\ tokens' = [tokens EXCEPT ![<<r.known.owner[i], i>>] = 0]
          /\ Becomes(p, [r EXCEPT !.pc = "remove", !.id = i, !.todo = @ \ {i}])
    BY <1>10 DEF DeleteToken
  <2> DEFINE n == [r EXCEPT !.pc = "remove", !.id = i, !.todo = @ \ {i}]
  <2>2. n \in ProcState
    BY <1>a DEF ProcState, PC
  <2>3. FlowOf(n, grants)
    BY <1>10, <1>a DEF ProcState, DeleteToken, At, FlowOf, Heading
  <2>4. /\ tokens' \in [Key -> 0 .. Len(grants)]
        /\ \A j \in Key : tokens'[j] # 0 => grants[tokens'[j]] = j
    <3>1. 0 \in 0 .. Len(grants)
      BY <1>a
    <3> QED
      BY <1>t, <2>1, <3>1
  <2> QED
    BY <1>10, <1>t, <2>1, <2>2, <2>3, <2>4, LocalStepInv DEF DeleteToken
<1>11. CASE Remove(p)
  <2> DEFINE l == IF r.todo = {} THEN "done" ELSE "delete"
             x == Removed(r.known, r.id)
  <2>1. r.profile \in Profile
    BY <1>11, <1>a DEF Remove, At, FlowOf
  <2>2. x \in Index
    BY <1>a, RemovedType
  <2>3. l \in {"done", "delete"} /\ Save(p, x, l)
    BY <1>11 DEF Remove
  <2> HIDE DEF l, x
  <2> QED
    BY <2>1, <2>2, <2>3, SaveInv
<1>12. CASE Load(p)
  <2> DEFINE t == tokens[CredentialKey(p)]
             n == [r EXCEPT !.held = t, !.pc = "send"]
  <2>1. r.id \in Id /\ r.known.owner[r.id] \in Profile /\ r.profile \in Profile
    BY <1>12, <1>a DEF Load, At, FlowOf, Heading, Index
  <2>2. CredentialKey(p) = <<r.known.owner[r.id], r.id>> /\ CredentialKey(p) \in Key
    BY <2>1 DEF CredentialKey, Key
  <2>3. t \in 0 .. Len(grants) /\ t # 0 /\ grants[t] = CredentialKey(p)
    BY <1>12, <1>t, <2>2 DEF Load
  <2>4. n \in ProcState
    BY <1>a, <2>3 DEF ProcState, PC
  <2>5. /\ n.held = t /\ n.pc = "send" /\ n.id = r.id /\ n.known = r.known
        /\ n.profile = r.profile
    BY <1>a DEF ProcState
  <2>6. FlowOf(n, grants)
    BY <2>1, <2>2, <2>3, <2>5 DEF FlowOf, Heading
  <2> QED
    BY <1>12, <2>4, <2>6, QuietStepInv DEF Load
<1>13. CASE Send(p)
  <2>1. PICK l \in {"load", "touch", "done"} : Becomes(p, [r EXCEPT !.pc = l])
    BY <1>13 DEF Send
  <2> DEFINE n == [r EXCEPT !.pc = l]
  <2>2. n \in ProcState
    BY <1>a DEF ProcState, PC
  <2>3. FlowOf(n, grants)
    BY <1>13, <1>a DEF ProcState, Send, At, FlowOf, Heading
  <2> QED
    BY <1>13, <2>1, <2>2, <2>3, QuietStepInv DEF Send
<1>14. CASE Finish(p) \/ Abort(p)
  BY <1>14, <1>i, QuietStepInv DEF Finish, Abort
<1> QED
  BY <1>1, <1>2, <1>3, <1>4, <1>5, <1>6, <1>7, <1>8, <1>9, <1>10, <1>11, <1>12, <1>13,
     <1>14 DEF Step

LEMMA InvInit == Init => Inv
<1> SUFFICES ASSUME Init PROVE Inv
  OBVIOUS
<1>1. \A p \in Proc : FlowOf(proc[p], grants)
  BY FlowIdle DEF Init
<1> QED
  BY <1>1, TypeInit DEF Init, Inv, TokenMatchesKey

LEMMA InvNext == Inv /\ [Next]_vars => Inv'
<1> SUFFICES ASSUME Inv, [Next]_vars PROVE Inv'
  OBVIOUS
<1>1. CASE UNCHANGED vars
  <2>1. ProcState' = ProcState
    BY <1>1 DEF vars, ProcState
  <2> QED
    BY <1>1, <2>1 DEF vars, Inv, TypeOK, TokenMatchesKey
<1> QED
  BY <1>1, StepInv DEF Next

\* Type correctness of the two stores and of every process.
THEOREM TypeCorrect == Spec => []TypeOK
<1>1. Inv => TypeOK
  BY DEF Inv
<1> QED
  BY InvInit, InvNext, <1>1, PTL DEF Spec

----------------------------------------------------------------------------
(* What every copy of the index has in common, stale or not. *)

Closed(x) == \A f \in Profile : x.active[f] # None => x.owner[x.active[f]] # None

\* No identity has signed in to two profiles, in the grants g.
Apart(g) == \A m, n \in DOMAIN g : g[m][2] = g[n][2] => g[m] = g[n]

\* Every account has signed in to the profile that is recorded for it.
Recorded(x, g) == \A i \in Id : x.owner[i] # None => \E n \in DOMAIN g : g[n] = <<x.owner[i], i>>

Own(x) == \A f \in Profile : x.active[f] # None => x.owner[x.active[f]] = f

Tidy(x, g) == Closed(x) /\ Recorded(x, g) /\ (Apart(g) => Own(x))

LEMMA TidyGrows ==
  ASSUME NEW x, NEW g, NEW h, DOMAIN g \subseteq DOMAIN h, \A n \in DOMAIN g : h[n] = g[n]
  PROVE  (Apart(h) => Apart(g)) /\ (Tidy(x, g) => Tidy(x, h))
<1>1. Apart(h) => Apart(g)
  BY DEF Apart
<1>2. Recorded(x, g) => Recorded(x, h)
  BY DEF Recorded
<1> QED
  BY <1>1, <1>2 DEF Tidy

LEMMA TidyEmpty == \A g : Tidy(EmptyIndex, g)
BY DEF Tidy, Closed, Recorded, Own, EmptyIndex

LEMMA TidyUpserted ==
  ASSUME NEW x \in Index, NEW f \in Profile, NEW i \in Id, NEW g, Tidy(x, g),
         NEW n \in DOMAIN g, g[n] = <<f, i>>
  PROVE  Tidy(Upserted(x, f, i), g)
<1> USE SessionsAssumption
<1> DEFINE y == Upserted(x, f, i)
<1>1. /\ x.owner \in [Id -> Profile \cup {None}] /\ x.active \in [Profile -> Id \cup {None}]
      /\ y.owner = [x.owner EXCEPT ![i] = f] /\ y.active = x.active
  BY DEF Index, Upserted
<1> HIDE DEF y
<1>2. f # None
  OBVIOUS
<1>3. Closed(y)
  BY <1>1, <1>2 DEF Tidy, Closed
<1>4. Recorded(y, g)
  BY <1>1 DEF Tidy, Recorded
<1>5. ASSUME Apart(g) PROVE Own(y)
  <2>1. x.owner[i] \in {None, f}
    <3> SUFFICES ASSUME x.owner[i] # None PROVE x.owner[i] = f
      OBVIOUS
    <3>1. PICK m \in DOMAIN g : g[m] = <<x.owner[i], i>>
      BY DEF Tidy, Recorded
    <3>2. g[m] = g[n]
      BY <1>5, <3>1 DEF Apart
    <3> QED
      BY <3>1, <3>2
  <2>2. ASSUME NEW h \in Profile, y.active[h] # None PROVE y.owner[y.active[h]] = h
    <3>1. x.owner[x.active[h]] = h /\ x.active[h] \in Id
      BY <1>1, <1>5, <2>2 DEF Tidy, Own
    <3> QED
      BY <1>1, <2>1, <3>1
  <2> QED
    BY <2>2 DEF Own
<1> QED
  BY <1>3, <1>4, <1>5 DEF Tidy, y

LEMMA TidySelected ==
  ASSUME NEW x \in Index, NEW f \in Profile, NEW i \in Id, NEW g, Tidy(x, g), x.owner[i] = f
  PROVE  Tidy(Selected(x, f, i), g)
<1> USE SessionsAssumption
<1> DEFINE y == Selected(x, f, i)
<1>1. /\ x.owner \in [Id -> Profile \cup {None}] /\ x.active \in [Profile -> Id \cup {None}]
      /\ y.owner = x.owner /\ y.active = [x.active EXCEPT ![f] = i]
  BY DEF Index, Selected
<1> HIDE DEF y
<1>2. Closed(y) /\ Recorded(y, g)
  BY <1>1 DEF Tidy, Closed, Recorded
<1>3. Apart(g) => Own(y)
  BY <1>1 DEF Tidy, Own
<1> QED
  BY <1>2, <1>3 DEF Tidy, y

LEMMA TidyRemoved ==
  ASSUME NEW x \in Index, NEW i \in Id \cup {None}, NEW g, Tidy(x, g)
  PROVE  Tidy(Removed(x, i), g)
<1> USE SessionsAssumption
<1> DEFINE y == Removed(x, i)
<1>1. /\ x.owner \in [Id -> Profile \cup {None}] /\ x.active \in [Profile -> Id \cup {None}]
      /\ y.owner = [x.owner EXCEPT ![i] = None]
      /\ y.active = [f \in Profile |-> IF x.active[f] = i THEN None ELSE x.active[f]]
  BY DEF Index, Removed
<1> HIDE DEF y
<1>2. Closed(y)
  BY <1>1 DEF Tidy, Closed
<1>3. Recorded(y, g)
  BY <1>1 DEF Tidy, Recorded
<1>4. Apart(g) => Own(y)
  BY <1>1 DEF Tidy, Own
<1> QED
  BY <1>2, <1>3, <1>4 DEF Tidy, y

\* The account a process sends requests for belongs to its profile.
OwnAccount(r) == Heading(r, "load") \/ r.pc = "send" => r.known.owner[r.id] = r.profile

TidyInv == /\ Inv
           /\ Tidy(index, grants)
           /\ tmp # None => Tidy(tmp, grants)
           /\ \A p \in Proc : Tidy(proc[p].known, grants)
           /\ Apart(grants) => \A p \in Proc : OwnAccount(proc[p])

\* A step of p that publishes, or writes to the temporary file, nothing but tidy copies.
LEMMA TidyLocalStep ==
  ASSUME TidyInv, Inv', NEW p \in Proc, NEW r, Becomes(p, r), grants' = grants,
         Tidy(index', grants), tmp' # None => Tidy(tmp', grants), Tidy(r.known, grants),
         Apart(grants) => OwnAccount(r)
  PROVE  TidyInv'
<1>1. proc'[p] = r /\ \A q \in Proc \ {p} : proc'[q] = proc[q]
  BY BecomesFacts DEF TidyInv, Inv
<1>2. \A q \in Proc : Tidy(proc'[q].known, grants) /\ (Apart(grants) => OwnAccount(proc'[q]))
  BY <1>1 DEF TidyInv
<1> QED
  BY <1>2 DEF TidyInv

LEMMA TidyQuietStep ==
  ASSUME TidyInv, Inv', NEW p \in Proc, NEW r, Becomes(p, r), UNCHANGED <<index, tmp, grants>>,
         r.known = proc[p].known, Apart(grants) => OwnAccount(r)
  PROVE  TidyInv'
<1>1. Tidy(index, grants) /\ (tmp # None => Tidy(tmp, grants)) /\ Tidy(r.known, grants)
  BY DEF TidyInv
<1> QED
  BY <1>1, TidyLocalStep

LEMMA TidySaveStep ==
  ASSUME TidyInv, Inv', NEW p \in Proc, NEW x \in Index, NEW l, Save(p, x, l), Tidy(x, grants),
         l = "load" /\ Apart(grants) => x.owner[proc[p].id] = proc[p].profile
  PROVE  TidyInv'
<1> DEFINE r == [proc[p] EXCEPT !.pc = "publish", !.known = x, !.after = l]
<1>1. /\ r.pc = "publish" /\ r.after = l /\ r.known = x /\ r.id = proc[p].id
      /\ r.profile = proc[p].profile
  BY ProcFacts DEF ProcState, TidyInv, Inv
<1>2. Tidy(r.known, grants) /\ (Apart(grants) => OwnAccount(r))
  BY <1>1 DEF OwnAccount, Heading
<1>3. index' = index /\ tmp' = x /\ grants' = grants /\ Becomes(p, r)
  BY DEF Save
<1>4. Tidy(index', grants) /\ Tidy(tmp', grants)
  BY <1>3 DEF TidyInv
<1> HIDE DEF r
<1> QED
  BY <1>2, <1>3, <1>4, TidyLocalStep

LEMMA TidyGrantStep ==
  ASSUME TidyInv, Inv', NEW p \in Proc, NEW k \in Key, NEW r, Becomes(p, r),
         grants' = Append(grants, k), UNCHANGED stores,
         r.known = proc[p].known, Apart(grants) => OwnAccount(r)
  PROVE  TidyInv'
<1>1. proc'[p] = r /\ \A q \in Proc \ {p} : proc'[q] = proc[q]
  BY BecomesFacts DEF TidyInv, Inv
<1>2. \A q \in Proc : /\ Tidy(proc'[q].known, grants)
                      /\ Apart(grants) => OwnAccount(proc'[q])
  BY <1>1 DEF TidyInv
<1>3. /\ DOMAIN grants \subseteq DOMAIN grants'
      /\ \A n \in DOMAIN grants : grants'[n] = grants[n]
  <2>1. grants \in Seq(Key)
    BY TypeFacts DEF TidyInv, Inv
  <2> QED
    BY <2>1
<1>4. Apart(grants') => Apart(grants)
  BY <1>3, TidyGrows
<1>5. Tidy(index', grants') /\ (tmp' # None => Tidy(tmp', grants'))
  BY <1>3, TidyGrows DEF TidyInv, stores
<1>6. ASSUME NEW q \in Proc PROVE Tidy(proc'[q].known, grants')
  <2> DEFINE x == proc'[q].known
  <2>1. Tidy(x, grants)
    BY <1>2
  <2> HIDE DEF x
  <2>2. Tidy(x, grants')
    BY <1>3, <2>1, TidyGrows
  <2> QED
    BY <2>2 DEF x
<1>7. ASSUME Apart(grants'), NEW q \in Proc PROVE OwnAccount(proc'[q])
  BY <1>2, <1>4, <1>7
<1> QED
  BY <1>5, <1>6, <1>7 DEF TidyInv

LEMMA TidyStep ==
  ASSUME TidyInv, NEW p \in Proc, Step(p)
  PROVE  TidyInv'
<1> USE SessionsAssumption
<1> DEFINE r == proc[p]
<1>a. /\ TypeOK /\ r \in ProcState /\ FlowOf(r, grants) /\ r.known \in Index
      /\ r.id \in Id \cup {None} /\ Tidy(r.known, grants) /\ (Apart(grants) => OwnAccount(r))
  BY TypeFacts, ProcFacts DEF TidyInv, Inv
<1>b. Inv'
  BY StepInv DEF TidyInv
<1>c. Tidy(index, grants) /\ (tmp # None => Tidy(tmp, grants)) /\ index \in Index
  BY <1>a, TypeFacts DEF TidyInv
<1>i. OwnAccount(Idle) /\ Tidy(Idle.known, grants)
  BY TidyEmpty DEF Idle, OwnAccount, Heading
<1>1. CASE Start(p)
  <2>1. PICK c \in Cmd, f \in Profile, i \in Id \cup {None}, ts \in SUBSET Id,
             l \in {"sign_in", "load", "touch", "delete", "activate", "relabel"} :
          /\ Begin(p, c, f, l, i, ts)
          /\ l = "load" => i \in Id /\ index.active[f] = i /\ index.owner[i] # None
          /\ l = "activate" => i \in Id /\ index.owner[i] = f
    BY <1>1, <1>a, StartBegins
  <2> DEFINE n == [Idle EXCEPT !.pc = l, !.cmd = c, !.profile = f, !.known = index, !.id = i,
                     !.targets = ts, !.todo = ts]
  <2>2. n.pc = l /\ n.profile = f /\ n.known = index /\ n.id = i /\ n.after = "done"
    BY DEF Idle
  <2>3. Apart(grants) => OwnAccount(n)
    <3> SUFFICES ASSUME Apart(grants), l = "load" PROVE index.owner[i] = f
      BY <2>2 DEF OwnAccount, Heading
    <3>1. i # None
      BY <2>1
    <3> QED
      BY <1>c, <2>1, <3>1 DEF Tidy, Own
  <2>4. Becomes(p, n) /\ UNCHANGED <<index, tmp, grants>>
    BY <2>1 DEF Begin, stores
  <2> HIDE DEF n
  <2> QED
    BY <1>b, <1>c, <2>2, <2>3, <2>4, TidyLocalStep
<1>2. CASE Publish(p)
  <2> DEFINE n == [r EXCEPT !.pc = r.after]
  <2>1. n.known = r.known /\ (Apart(grants) => OwnAccount(n))
    BY <1>2, <1>a DEF ProcState, Publish, At, FlowOf, OwnAccount, Heading
  <2>2. Becomes(p, n) /\ grants' = grants /\ Tidy(index', grants) /\ tmp' = None
    BY <1>2, <1>c DEF Publish
  <2> HIDE DEF n
  <2> QED
    BY <1>a, <1>b, <2>1, <2>2, TidyLocalStep
<1>3. CASE PublishFails(p)
  <2> DEFINE n == [r EXCEPT !.pc = "done"]
  <2>1. n.known = r.known /\ OwnAccount(n)
    BY <1>a DEF ProcState, OwnAccount, Heading
  <2>2. UNCHANGED <<index, tmp, grants>> /\ (Becomes(p, n) \/ Becomes(p, Idle))
    BY <1>3 DEF PublishFails, stores
  <2> HIDE DEF n
  <2> QED
    BY <1>a, <1>b, <1>c, <1>i, <2>1, <2>2, TidyLocalStep
<1>4. CASE SignIn(p)
  <2>1. PICK i \in Id : /\ <<r.profile, i>> \in SignIns
                        /\ grants' = Append(grants, <<r.profile, i>>)
                        /\ Becomes(p, [r EXCEPT !.pc = "save_token", !.id = i,
                                               !.held = Len(grants) + 1])
    BY <1>4 DEF SignIn
  <2> DEFINE n == [r EXCEPT !.pc = "save_token", !.id = i, !.held = Len(grants) + 1]
  <2>2. n.known = r.known /\ OwnAccount(n)
    BY <1>a DEF ProcState, OwnAccount, Heading
  <2>3. UNCHANGED stores
    BY <1>4 DEF SignIn
  <2> HIDE DEF n
  <2> QED
    BY <1>b, <2>1, <2>2, <2>3, TidyGrantStep DEF n
<1>5. CASE SaveToken(p)
  <2> DEFINE n == [r EXCEPT !.pc = "upsert"]
  <2>1. n.known = r.known /\ OwnAccount(n)
    BY <1>a DEF ProcState, OwnAccount, Heading
  <2>2. Becomes(p, n) /\ UNCHANGED <<index, tmp, grants>>
    BY <1>5 DEF SaveToken
  <2> HIDE DEF n
  <2> QED
    BY <1>b, <2>1, <2>2, TidyQuietStep
<1>6. CASE Upsert(p)
  <2> DEFINE x == Upserted(r.known, r.profile, r.id)
  <2>1. /\ r.profile \in Profile /\ r.id \in Id
        /\ r.held \in DOMAIN grants /\ grants[r.held] = <<r.profile, r.id>>
    BY <1>6, <1>a, ProcFacts, TypeFacts DEF Upsert, At, FlowOf
  <2>2. x \in Index
    BY <1>a, <2>1 DEF Index, Upserted
  <2>3. Tidy(x, grants)
    BY <1>a, <2>1, TidyUpserted
  <2>4. Save(p, x, "activate")
    BY <1>6 DEF Upsert
  <2> HIDE DEF x
  <2> QED
    BY <1>b, <2>2, <2>3, <2>4, TidySaveStep
<1>7. CASE SetActive(p)
  <2> DEFINE x == Selected(r.known, r.profile, r.id)
  <2>1. r.profile \in Profile /\ r.id \in Id /\ r.known.owner[r.id] = r.profile
    BY <1>7, <1>a DEF SetActive, At, FlowOf, Heading
  <2>2. x \in Index /\ x.owner = r.known.owner
    BY <1>a DEF Index, Selected
  <2>3. Tidy(x, grants)
    BY <1>a, <2>1, TidySelected
  <2>4. PICK l : Save(p, x, l)
    BY <1>7 DEF SetActive
  <2> HIDE DEF x
  <2> QED
    BY <1>b, <2>1, <2>2, <2>3, <2>4, TidySaveStep
<1>8. CASE Touch(p)
  <2> DEFINE n == [r EXCEPT !.pc = "done"]
  <2>1. n.known = r.known /\ OwnAccount(n)
    BY <1>a DEF ProcState, OwnAccount, Heading
  <2>2. CASE Save(p, r.known, "done")
    BY <1>a, <1>b, <2>2, TidySaveStep
  <2>3. CASE Becomes(p, n) /\ UNCHANGED <<stores, grants, solo>>
    <3>1. UNCHANGED <<index, tmp, grants>>
      BY <2>3 DEF stores
    <3> HIDE DEF n
    <3> QED
      BY <1>b, <2>1, <2>3, <3>1, TidyQuietStep
  <2> QED
    BY <1>8, <2>2, <2>3 DEF Touch
<1>9. CASE Rename(p)
  BY <1>9, <1>a, <1>b, TidySaveStep DEF Rename
<1>10. CASE DeleteToken(p)
  <2>1. PICK i \in r.todo : Becomes(p, [r EXCEPT !.pc = "remove", !.id = i, !.todo = @ \ {i}])
    BY <1>10 DEF DeleteToken
  <2> DEFINE n == [r EXCEPT !.pc = "remove", !.id = i, !.todo = @ \ {i}]
  <2>2. n.known = r.known /\ OwnAccount(n)
    BY <1>a DEF ProcState, OwnAccount, Heading
  <2>3. UNCHANGED <<index, tmp, grants>>
    BY <1>10 DEF DeleteToken
  <2> HIDE DEF n
  <2> QED
    BY <1>b, <2>1, <2>2, <2>3, TidyQuietStep DEF n
<1>11. CASE Remove(p)
  <2> DEFINE l == IF r.todo = {} THEN "done" ELSE "delete"
             x == Removed(r.known, r.id)
  <2>1. x \in Index
    BY <1>a, RemovedType
  <2>2. Tidy(x, grants)
    BY <1>a, TidyRemoved
  <2>3. l # "load" /\ Save(p, x, l)
    BY <1>11 DEF Remove
  <2> HIDE DEF x, l
  <2> QED
    BY <1>b, <2>1, <2>2, <2>3, TidySaveStep
<1>12. CASE Load(p)
  <2> DEFINE t == tokens[CredentialKey(p)]
             n == [r EXCEPT !.held = t, !.pc = "send"]
  <2>1. n.known = r.known /\ n.profile = r.profile /\ n.id = r.id
    BY <1>a DEF ProcState
  <2>2. Apart(grants) => OwnAccount(n)
    BY <1>12, <1>a, <2>1 DEF Load, At, OwnAccount, Heading
  <2>3. Becomes(p, n) /\ UNCHANGED <<index, tmp, grants>>
    BY <1>12 DEF Load, stores
  <2> HIDE DEF n
  <2> QED
    BY <1>b, <2>1, <2>2, <2>3, TidyQuietStep
<1>13. CASE Send(p)
  <2>1. PICK l \in {"load", "touch", "done"} : Becomes(p, [r EXCEPT !.pc = l])
    BY <1>13 DEF Send
  <2> DEFINE n == [r EXCEPT !.pc = l]
  <2>2. n.known = r.known /\ n.profile = r.profile /\ n.id = r.id
    BY <1>a DEF ProcState
  <2>3. Apart(grants) => OwnAccount(n)
    BY <1>13, <1>a, <2>2 DEF Send, At, OwnAccount
  <2>4. UNCHANGED <<index, tmp, grants>>
    BY <1>13 DEF Send, stores
  <2> HIDE DEF n
  <2> QED
    BY <1>b, <2>1, <2>2, <2>3, <2>4, TidyQuietStep DEF n
<1>14. CASE Finish(p) \/ Abort(p)
  <2>1. UNCHANGED <<index, tmp, grants>> /\ Becomes(p, Idle)
    BY <1>14 DEF Finish, Abort, stores
  <2> QED
    BY <1>b, <1>c, <1>i, <2>1, TidyLocalStep
<1> QED
  BY <1>1, <1>2, <1>3, <1>4, <1>5, <1>6, <1>7, <1>8, <1>9, <1>10, <1>11, <1>12, <1>13,
     <1>14 DEF Step

LEMMA TidyInit == Init => TidyInv
<1> SUFFICES ASSUME Init PROVE TidyInv
  OBVIOUS
<1>1. Idle.known = EmptyIndex /\ OwnAccount(Idle)
  BY DEF Idle, OwnAccount, Heading
<1>2. Len(grants) = 0
  BY DEF Init
<1> QED
  BY <1>1, <1>2, InvInit, TidyEmpty DEF Init, TidyInv

LEMMA TidyNext == TidyInv /\ [Next]_vars => TidyInv'
<1> SUFFICES ASSUME TidyInv, [Next]_vars PROVE TidyInv'
  OBVIOUS
<1>1. CASE UNCHANGED vars
  <2>1. UNCHANGED <<index, tmp, grants, proc>>
    BY <1>1 DEF vars, stores
  <2>2. Inv'
    BY InvNext DEF TidyInv
  <2> QED
    BY <2>1, <2>2 DEF TidyInv
<1> QED
  BY <1>1, TidyStep DEF Next

\* The active account of a profile always exists, although every process writes back a copy
\* of the index it read when it started.
THEOREM ActiveAccountsExist == Spec => []IndexClosed
<1>1. TidyInv => IndexClosed
  BY DEF TidyInv, Tidy, Closed, IndexClosed
<1> QED
  BY TidyInit, TidyNext, <1>1, PTL DEF Spec

\* As long as no identity has signed in to two profiles, no request is made with another
\* profile's token.  The hypothesis is needed: SessionsSharedToken.cfg refutes the
\* conclusion for an identity that has.
THEOREM OwnTokens == Spec => []OwnTokenWhenSeparate
<1>1. TidyInv => OwnTokenWhenSeparate
  <2> SUFFICES ASSUME TidyInv, Separate, NEW p \in Proc, proc[p].pc = "send"
               PROVE  grants[proc[p].held] = <<proc[p].profile, proc[p].id>>
    BY DEF OwnTokenWhenSeparate, OwnTokenOnly, At
  <2>1. FlowOf(proc[p], grants) /\ OwnAccount(proc[p])
    BY DEF TidyInv, Inv, Separate, Apart
  <2> QED
    BY <2>1 DEF FlowOf, OwnAccount
<1> QED
  BY TidyInit, TidyNext, <1>1, PTL DEF Spec
----------------------------------------------------------------------------
(* The commands that no other command overlaps, whatever interrupted commands have left in *)
(* the stores.                                                                             *)

\* A process that has been alone since it started: nobody else is inside.
Alone == \A p, q \in Proc : solo[p] /\ q # p => At(q, "idle")

\* "logout" works on the active account, the others on accounts of their profile: once an
\* identity has signed in to two profiles, the active account may be another profile's.
OwnTargets(c, g) == c = "logout" => Apart(g)

\* What a solitary process r knows of the index x, the temporary file m, the tokens k and
\* the grants g.

\* Its copy is the index, or what it is about to publish.
Copy(r, x, m) == r.cmd \in {"login"} \cup Logouts =>
  /\ r.pc \notin {"idle", "publish"} => x = r.known
  /\ r.pc = "publish" => m = r.known

LoginTold(r, k) == r.cmd = "login" /\ r.pc # "idle" =>
  /\ r.pc \in {"sign_in", "save_token", "upsert", "publish", "activate", "done"}
  /\ r.pc = "publish" => r.after \in {"activate", "done"}
  /\ r.pc \in {"upsert", "publish", "activate", "done"} =>
       r.id \in Id /\ k[<<r.profile, r.id>>] = r.held
  /\ Heading(r, "activate") \/ Heading(r, "done") => r.known.owner[r.id] = r.profile
  /\ Heading(r, "done") => r.known.active[r.profile] = r.id

Gone(r, k, i) == /\ r.known.owner[i] = None
                 /\ \A f \in Profile : r.known.active[f] # i
                 /\ k[<<r.profile, i>>] = 0

LogoutTold(r, k) == r.cmd \in Logouts /\ r.pc # "idle" =>
  /\ r.pc \in {"delete", "remove", "publish", "done"}
  /\ r.pc = "publish" => r.after \in {"delete", "done"}
  /\ r.todo \subseteq r.targets
  /\ Heading(r, "done") => r.todo = {}
  /\ \A i \in r.todo : r.known.owner[i] = r.profile
  /\ r.pc = "remove" => r.id \in Id \ r.todo /\ k[<<r.profile, r.id>>] = 0
  /\ \A i \in r.targets \ r.todo : Gone(r, k, i) \/ (r.pc = "remove" /\ i = r.id)

Told(r, x, m, k, g) == /\ Copy(r, x, m)
                       /\ LoginTold(r, k)
                       /\ OwnTargets(r.cmd, g) => LogoutTold(r, k)

SoloInv == /\ TidyInv
           /\ Alone
           /\ \A p \in Proc : solo[p] => Told(proc[p], index, tmp, tokens, grants)

----------------------------------------------------------------------------
LEMMA ToldIdle == ASSUME NEW x, NEW m, NEW k, NEW g PROVE Told(Idle, x, m, k, g)
BY DEF Told, Copy, LoginTold, LogoutTold, Idle, Logouts

\* What is known of a process in a state that satisfies the invariant.
LEMMA Known ==
  ASSUME SoloInv, NEW p \in Proc
  PROVE  /\ TypeOK /\ proc[p] \in ProcState /\ FlowOf(proc[p], grants)
         /\ proc[p].known \in Index /\ proc[p].id \in Id \cup {None}
         /\ proc[p].profile \in Profile \cup {None} /\ proc[p].held \in 0 .. Len(grants)
         /\ proc[p].todo \in SUBSET Id /\ proc[p].targets \in SUBSET Id
         /\ tokens \in [Key -> 0 .. Len(grants)]
         /\ Len(grants) \in Nat /\ index \in Index
         /\ solo[p] => Told(proc[p], index, tmp, tokens, grants)
BY ProcFacts, TypeFacts DEF SoloInv, TidyInv, Inv

\* A step of a process on its way.  Nobody else is alone then.
LEMMA SoloLocalStep ==
  ASSUME SoloInv, TidyInv', NEW p \in Proc, NEW n, Becomes(p, n), ~At(p, "idle"),
         solo' = solo, solo[p] => Told(n, index', tmp', tokens', grants')
  PROVE  SoloInv'
<1>1. proc'[p] = n /\ \A q \in Proc \ {p} : proc'[q] = proc[q]
  BY BecomesFacts DEF SoloInv, TidyInv, Inv
<1>2. \A q \in Proc \ {p} : ~solo[q]
  BY DEF SoloInv, Alone
<1>3. Alone'
  BY <1>1, <1>2 DEF SoloInv, Alone, At
<1>4. \A q \in Proc : solo'[q] => Told(proc'[q], index', tmp', tokens', grants')
  BY <1>1, <1>2
<1> QED
  BY <1>3, <1>4 DEF SoloInv

\* A change of the index, written to the temporary file.
LEMMA SoloSaveStep ==
  ASSUME SoloInv, TidyInv', NEW p \in Proc, NEW x, NEW l, Save(p, x, l), ~At(p, "idle"),
         solo[p] => LET n == [proc[p] EXCEPT !.pc = "publish", !.known = x, !.after = l]
                    IN  /\ LoginTold(n, tokens)
                        /\ OwnTargets(proc[p].cmd, grants) => LogoutTold(n, tokens)
  PROVE  SoloInv'
<1> DEFINE n == [proc[p] EXCEPT !.pc = "publish", !.known = x, !.after = l]
<1>1. n.pc = "publish" /\ n.known = x /\ n.cmd = proc[p].cmd
  BY Known DEF ProcState
<1>2. /\ Becomes(p, n) /\ tmp' = x
      /\ UNCHANGED <<index, tokens, solo, grants>>
  BY DEF Save
<1>3. solo[p] => LoginTold(n, tokens) /\ (OwnTargets(proc[p].cmd, grants) => LogoutTold(n, tokens))
  OBVIOUS
<1> HIDE DEF n
<1>4. solo[p] => Told(n, index', tmp', tokens', grants')
  BY <1>1, <1>2, <1>3 DEF Told, Copy
<1> QED
  BY <1>1, <1>2, <1>4, SoloLocalStep

----------------------------------------------------------------------------
(* The commands start. *)

LEMMA BeginTold ==
  ASSUME TypeOK, NEW p \in Proc, NEW c, NEW f, NEW l, NEW i, NEW ts,
         Begin(p, c, f, l, i, ts), l \notin {"idle", "publish"},
         c = "login" => l = "sign_in",
         c \in Logouts => l = "delete",
         c \in Logouts /\ OwnTargets(c, grants) => \A j \in ts : index.owner[j] = f
  PROVE  /\ Told(proc'[p], index', tmp', tokens', grants')
         /\ \A q \in Proc \ {p} : proc'[q] = proc[q]
         /\ solo' = [q \in Proc |-> q = p /\ \A o \in Proc \ {p} : At(o, "idle")]
<1> DEFINE n == [Idle EXCEPT !.pc = l, !.cmd = c, !.profile = f, !.known = index, !.id = i,
                             !.targets = ts, !.todo = ts]
<1>1. /\ n.pc = l /\ n.cmd = c /\ n.profile = f /\ n.known = index /\ n.id = i
      /\ n.targets = ts /\ n.todo = ts
  BY DEF Idle
<1>2. Becomes(p, n) /\ UNCHANGED <<stores, grants>>
  BY DEF Begin
<1> HIDE DEF n
<1>3. proc'[p] = n /\ \A q \in Proc \ {p} : proc'[q] = proc[q]
  BY <1>2, BecomesFacts
<1>4. Copy(n, index, tmp) /\ LoginTold(n, tokens)
  BY <1>1 DEF Copy, LoginTold, Heading, Logouts
<1>5. OwnTargets(n.cmd, grants) => LogoutTold(n, tokens)
  BY <1>1 DEF LogoutTold, Heading
<1> QED
  BY <1>1, <1>2, <1>3, <1>4, <1>5 DEF Told, Begin, stores

LEMMA SoloStart ==
  ASSUME SoloInv, TidyInv', NEW p \in Proc, Start(p)
  PROVE  SoloInv'
<1> DEFINE Begun == /\ Told(proc'[p], index', tmp', tokens', grants')
                    /\ \A q \in Proc \ {p} : proc'[q] = proc[q]
                    /\ solo' = [q \in Proc |-> q = p /\ \A o \in Proc \ {p} : At(o, "idle")]
<1> USE DEF Logouts
<1>1. TypeOK /\ Tidy(index, grants)
  BY DEF SoloInv, TidyInv, Inv
<1>2. PICK f \in Profile :
       \/ Begin(p, "login", f, "sign_in", None, {})
       \/ Begin(p, "ssh", f, "sign_in", None, {})
       \/ /\ HasActive(index, f)
          /\ \/ \E l \in Ensured : Begin(p, "ssh", f, l, index.active[f], {})
             \/ Begin(p, "call", f, "load", index.active[f], {})
             \/ Begin(p, "logout", f, "delete", index.active[f], {index.active[f]})
       \/ \E i \in AccountsOf(index, f) :
            \/ Begin(p, "logout_account", f, "delete", i, {i})
            \/ Begin(p, "use", f, "activate", i, {})
            \/ Begin(p, "rename", f, "relabel", i, {})
       \/ Begin(p, "logout_all", f, "delete", None, AccountsOf(index, f))
  BY DEF Start
<1>3. ASSUME \/ Begin(p, "login", f, "sign_in", None, {})
             \/ Begin(p, "ssh", f, "sign_in", None, {})
      PROVE  Begun
  BY <1>1, <1>3, BeginTold
<1>4. ASSUME \/ \E l \in Ensured : Begin(p, "ssh", f, l, index.active[f], {})
             \/ Begin(p, "call", f, "load", index.active[f], {})
      PROVE  Begun
  BY <1>1, <1>4, BeginTold DEF Ensured
<1>5. ASSUME HasActive(index, f),
             Begin(p, "logout", f, "delete", index.active[f], {index.active[f]})
      PROVE  Begun
  <2>1. OwnTargets("logout", grants) => index.owner[index.active[f]] = f
    BY <1>1, <1>5 DEF OwnTargets, Tidy, Own, HasActive
  <2> QED
    BY <1>1, <1>5, <2>1, BeginTold
<1>6. ASSUME NEW i \in AccountsOf(index, f),
             \/ Begin(p, "logout_account", f, "delete", i, {i})
             \/ Begin(p, "use", f, "activate", i, {})
             \/ Begin(p, "rename", f, "relabel", i, {})
      PROVE  Begun
  <2>1. index.owner[i] = f
    BY DEF AccountsOf
  <2> QED
    BY <1>1, <1>6, <2>1, BeginTold
<1>7. ASSUME Begin(p, "logout_all", f, "delete", None, AccountsOf(index, f))
      PROVE  Begun
  <2>1. \A i \in AccountsOf(index, f) : index.owner[i] = f
    BY DEF AccountsOf
  <2> QED
    BY <1>1, <1>7, <2>1, BeginTold
<1>8. Begun
  BY <1>2, <1>3, <1>4, <1>5, <1>6, <1>7
<1>9. Alone'
  BY <1>8 DEF Alone, At
<1> QED
  BY <1>8, <1>9 DEF SoloInv

----------------------------------------------------------------------------
(* The other steps, of a process on its way. *)

LEMMA SoloPublish ==
  ASSUME SoloInv, TidyInv', NEW p \in Proc, Publish(p)
  PROVE  SoloInv'
<1> DEFINE r == proc[p]
           n == [r EXCEPT !.pc = r.after]
<1>1. /\ n.pc = r.after /\ n.cmd = r.cmd /\ n.profile = r.profile /\ n.known = r.known
      /\ n.id = r.id /\ n.held = r.held /\ n.targets = r.targets /\ n.todo = r.todo
  BY Known DEF ProcState
<1>2. r.pc = "publish" /\ r.after \in {"activate", "load", "touch", "done", "delete"}
  BY Known DEF Publish, At, FlowOf
<1>3. /\ Becomes(p, n) /\ index' = tmp
      /\ UNCHANGED <<tokens, solo, grants>>
  BY DEF Publish
<1> HIDE DEF n
<1>4. ASSUME solo[p] PROVE Told(n, index', tmp', tokens', grants')
  <2>1. Told(r, index, tmp, tokens, grants)
    BY <1>4, Known
  <2>2. Copy(n, index', tmp')
    BY <1>1, <1>2, <1>3, <2>1 DEF Told, Copy
  <2>3. LoginTold(n, tokens')
    BY <1>1, <1>2, <1>3, <2>1 DEF Told, LoginTold, Heading
  <2>4. OwnTargets(r.cmd, grants) => LogoutTold(n, tokens')
    BY <1>1, <1>2, <1>3, <2>1 DEF Told, LogoutTold, Heading, Gone
  <2> QED
    BY <1>1, <1>3, <2>2, <2>3, <2>4 DEF Told
<1> QED
  BY <1>1, <1>2, <1>3, <1>4, SoloLocalStep DEF At

\* A command ends, well or not, or is interrupted.
LEMMA SoloEnds ==
  ASSUME SoloInv, TidyInv', NEW p \in Proc, PublishFails(p) \/ Finish(p) \/ Abort(p)
  PROVE  SoloInv'
<1> DEFINE r == proc[p]
           n == [r EXCEPT !.pc = "done"]
<1>1. /\ ~At(p, "idle") /\ UNCHANGED <<index, tmp, tokens, solo, grants>>
  BY DEF PublishFails, Finish, Abort, At, stores
<1>2. CASE Becomes(p, Idle)
  <2>1. Told(Idle, index', tmp', tokens', grants')
    BY ToldIdle
  <2> QED
    BY <1>1, <1>2, <2>1, SoloLocalStep
<1>3. CASE Touched(p) /\ Becomes(p, n)
  <2>1. n.pc = "done" /\ n.cmd = r.cmd /\ r.cmd \in {"ssh", "use"}
    BY <1>3, Known DEF ProcState, Touched
  <2> HIDE DEF n
  <2>2. Told(n, index', tmp', tokens', grants')
    BY <2>1 DEF Told, Copy, LoginTold, LogoutTold, Logouts
  <2> QED
    BY <1>1, <1>3, <2>1, <2>2, SoloLocalStep
<1> QED
  BY <1>2, <1>3 DEF PublishFails, Finish, Abort

LEMMA SoloSignIn ==
  ASSUME SoloInv, TidyInv', NEW p \in Proc, SignIn(p)
  PROVE  SoloInv'
<1> DEFINE r == proc[p]
<1>1. PICK i \in Id : Becomes(p, [r EXCEPT !.pc = "save_token", !.id = i,
                                           !.held = Len(grants) + 1])
  BY DEF SignIn
<1> DEFINE n == [r EXCEPT !.pc = "save_token", !.id = i, !.held = Len(grants) + 1]
<1>2. n.pc = "save_token" /\ n.cmd = r.cmd /\ n.known = r.known /\ r.pc = "sign_in"
  BY Known DEF ProcState, SignIn, At
<1>3. UNCHANGED <<index, tmp, tokens, solo>>
  BY DEF SignIn, stores
<1>4. Becomes(p, n)
  BY <1>1
<1>5. OwnTargets(r.cmd, grants') => OwnTargets(r.cmd, grants)
  <2>1. grants \in Seq(Key) /\ \E k \in Key : grants' = Append(grants, k)
    BY Known, TypeFacts, SessionsAssumption DEF SignIn
  <2>2. /\ DOMAIN grants \subseteq DOMAIN grants'
        /\ \A m \in DOMAIN grants : grants'[m] = grants[m]
    BY <2>1
  <2> QED
    BY <2>2, TidyGrows DEF OwnTargets
<1> HIDE DEF n
<1>6. solo[p] => Told(n, index', tmp', tokens', grants')
  BY <1>2, <1>3, <1>5, Known DEF Told, Copy, LoginTold, LogoutTold, Heading, Logouts
<1> QED
  BY <1>2, <1>3, <1>4, <1>6, SoloLocalStep DEF At

LEMMA SoloSaveToken ==
  ASSUME SoloInv, TidyInv', NEW p \in Proc, SaveToken(p)
  PROVE  SoloInv'
<1> DEFINE r == proc[p]
           n == [r EXCEPT !.pc = "upsert"]
<1>1. /\ n.pc = "upsert" /\ n.cmd = r.cmd /\ n.profile = r.profile /\ n.known = r.known
      /\ n.id = r.id /\ n.held = r.held /\ r.pc = "save_token"
  BY Known DEF ProcState, SaveToken, At
<1>2. r.id \in Id /\ r.profile \in Profile
  BY <1>1, Known DEF FlowOf
<1>3. tokens' = [tokens EXCEPT ![<<r.profile, r.id>>] = r.held] /\ <<r.profile, r.id>> \in Key
  BY <1>2 DEF SaveToken, Key
<1>4. tokens'[<<r.profile, r.id>>] = r.held
  BY <1>3, Known
<1>5. /\ Becomes(p, n) /\ UNCHANGED <<index, tmp, solo, grants>>
  BY DEF SaveToken
<1> HIDE DEF n
<1>6. solo[p] => Told(n, index', tmp', tokens', grants')
  BY <1>1, <1>2, <1>4, <1>5, Known
  DEF Told, Copy, LoginTold, LogoutTold, Heading, Logouts
<1> QED
  BY <1>1, <1>5, <1>6, SoloLocalStep DEF At

LEMMA SoloUpsert ==
  ASSUME SoloInv, TidyInv', NEW p \in Proc, Upsert(p)
  PROVE  SoloInv'
<1> DEFINE r == proc[p]
           x == Upserted(r.known, r.profile, r.id)
           n == [r EXCEPT !.pc = "publish", !.known = x, !.after = "activate"]
<1>1. r.pc = "upsert" /\ r.id \in Id /\ r.profile \in Profile /\ Save(p, x, "activate")
  BY Known DEF Upsert, At, FlowOf
<1>2. x.owner[r.id] = r.profile
  <2>1. r.known.owner \in [Id -> Profile \cup {None}]
    BY Known DEF Index
  <2>2. x.owner = [r.known.owner EXCEPT ![r.id] = r.profile]
    BY Known DEF Upserted, Index
  <2> QED
    BY <1>1, <2>1, <2>2
<1>3. /\ n.pc = "publish" /\ n.after = "activate" /\ n.known = x /\ n.cmd = r.cmd
      /\ n.profile = r.profile /\ n.id = r.id /\ n.held = r.held
  BY Known DEF ProcState
<1> HIDE DEF x
<1>4. solo[p] => Told(r, index, tmp, tokens, grants)
  BY Known
<1>5. solo[p] => LoginTold(n, tokens) /\ (OwnTargets(r.cmd, grants) => LogoutTold(n, tokens))
  BY <1>1, <1>2, <1>3, <1>4 DEF Told, LoginTold, LogoutTold, Heading, Logouts
<1> QED
  BY <1>1, <1>5, SoloSaveStep DEF At

LEMMA SoloSetActive ==
  ASSUME SoloInv, TidyInv', NEW p \in Proc, SetActive(p)
  PROVE  SoloInv'
<1> DEFINE r == proc[p]
           x == Selected(r.known, r.profile, r.id)
<1>1. /\ r.pc = "activate" /\ r.id \in Id /\ r.profile \in Profile
      /\ r.known.owner[r.id] = r.profile
  BY Known DEF SetActive, At, FlowOf, Heading
<1>2. PICK l \in AfterActivate(r.cmd) : Save(p, x, l)
  BY DEF SetActive
<1>3. x.owner[r.id] = r.profile /\ x.active[r.profile] = r.id
  <2>1. r.known.active \in [Profile -> Id \cup {None}]
    BY Known DEF Index
  <2>2. x.owner = r.known.owner /\ x.active = [r.known.active EXCEPT ![r.profile] = r.id]
    BY <1>1, SelectedType, Known
  <2> QED
    BY <1>1, <2>1, <2>2
<1> DEFINE n == [r EXCEPT !.pc = "publish", !.known = x, !.after = l]
<1>4. /\ n.pc = "publish" /\ n.after = l /\ n.known = x /\ n.cmd = r.cmd
      /\ n.profile = r.profile /\ n.id = r.id /\ n.held = r.held
  BY Known DEF ProcState
<1>5. r.cmd = "login" => l = "done"
  BY <1>2 DEF AfterActivate
<1> HIDE DEF x
<1>6. solo[p] => Told(r, index, tmp, tokens, grants)
  BY Known
<1>7. solo[p] => LoginTold(n, tokens) /\ (OwnTargets(r.cmd, grants) => LogoutTold(n, tokens))
  BY <1>1, <1>3, <1>4, <1>5, <1>6 DEF Told, LoginTold, LogoutTold, Heading, Logouts
<1> QED
  BY <1>1, <1>2, <1>7, SoloSaveStep DEF At

\* Touch and rename write the index as it is.
LEMMA SoloTouch ==
  ASSUME SoloInv, TidyInv', NEW p \in Proc, Touch(p) \/ Rename(p)
  PROVE  SoloInv'
<1> DEFINE r == proc[p]
           n == [r EXCEPT !.pc = "done"]
<1>1. r.pc \in {"touch", "relabel"}
  BY DEF Touch, Rename, At
<1>2. solo[p] => r.cmd # "login" /\ (OwnTargets(r.cmd, grants) => r.cmd \notin Logouts)
  BY <1>1, Known DEF Told, LoginTold, LogoutTold, Logouts
<1>3. CASE Save(p, r.known, "done")
  <2> DEFINE m == [r EXCEPT !.pc = "publish", !.known = r.known, !.after = "done"]
  <2>1. m.cmd = r.cmd
    BY Known DEF ProcState
  <2>2. solo[p] => LoginTold(m, tokens) /\ (OwnTargets(r.cmd, grants) => LogoutTold(m, tokens))
    BY <1>2, <2>1 DEF LoginTold, LogoutTold
  <2> QED
    BY <1>1, <1>2, <1>3, <2>2, SoloSaveStep DEF At
<1>4. CASE Becomes(p, n) /\ UNCHANGED <<stores, grants, solo>>
  <2>1. n.pc = "done" /\ n.cmd = r.cmd /\ n.known = r.known
    BY Known DEF ProcState
  <2>2. /\ UNCHANGED <<index, tmp, tokens, solo, grants>>
    BY <1>4 DEF stores
  <2> HIDE DEF n
  <2>3. solo[p] => Told(n, index', tmp', tokens', grants')
    BY <1>1, <1>2, <2>1, <2>2, Known DEF Told, Copy, LoginTold, LogoutTold
  <2> QED
    BY <1>1, <1>4, <2>1, <2>2, <2>3, SoloLocalStep DEF At
<1> QED
  BY <1>3, <1>4 DEF Touch, Rename

LEMMA SoloDeleteToken ==
  ASSUME SoloInv, TidyInv', NEW p \in Proc, DeleteToken(p)
  PROVE  SoloInv'
<1> DEFINE r == proc[p]
<1>1. PICK i \in r.todo :
        /\ tokens' = [tokens EXCEPT ![<<r.known.owner[i], i>>] = 0]
        /\ Becomes(p, [r EXCEPT !.pc = "remove", !.id = i, !.todo = @ \ {i}])
  BY DEF DeleteToken
<1> DEFINE n == [r EXCEPT !.pc = "remove", !.id = i, !.todo = @ \ {i}]
<1>2. /\ n.pc = "remove" /\ n.cmd = r.cmd /\ n.profile = r.profile /\ n.known = r.known
      /\ n.id = i /\ n.targets = r.targets /\ n.todo = r.todo \ {i}
      /\ r.pc = "delete" /\ r.profile \in Profile /\ i \in Id
  BY Known DEF ProcState, DeleteToken, At, FlowOf
<1>3. /\ Becomes(p, n) /\ UNCHANGED <<index, tmp, solo, grants>>
  BY <1>1 DEF DeleteToken
<1> HIDE DEF n
<1>4. \A k \in Key : tokens'[k] \in {tokens[k], 0}
  BY <1>1, Known
<1>5. ASSUME solo[p], OwnTargets(r.cmd, grants) PROVE LogoutTold(n, tokens')
  <2> SUFFICES ASSUME r.cmd \in Logouts PROVE LogoutTold(n, tokens')
    BY <1>2 DEF LogoutTold
  <2>1. LogoutTold(r, tokens)
    BY <1>5, Known DEF Told
  <2>2. r.known.owner[i] = r.profile /\ r.todo \subseteq r.targets /\ r.targets \subseteq Id
    BY <1>2, <2>1, Known DEF LogoutTold
  <2>3. tokens'[<<r.profile, i>>] = 0
    BY <1>1, <1>2, <2>2, Known DEF Key
  <2>4. ASSUME NEW j \in r.targets \ r.todo PROVE Gone(n, tokens', j)
    <3>1. Gone(r, tokens, j)
      BY <1>2, <2>1, <2>4 DEF LogoutTold
    <3>2. <<r.profile, j>> \in Key
      BY <1>2, <2>2 DEF Key
    <3> QED
      BY <1>2, <1>4, <3>1, <3>2 DEF Gone
  <2> QED
    BY <1>2, <2>1, <2>2, <2>3, <2>4 DEF LogoutTold, Heading
<1>6. solo[p] => Told(n, index', tmp', tokens', grants')
  BY <1>2, <1>3, <1>5, Known DEF Told, Copy, LoginTold, Logouts
<1> QED
  BY <1>2, <1>3, <1>6, SoloLocalStep DEF At

LEMMA SoloRemove ==
  ASSUME SoloInv, TidyInv', NEW p \in Proc, Remove(p)
  PROVE  SoloInv'
<1> USE SessionsAssumption
<1> DEFINE r == proc[p]
           x == Removed(r.known, r.id)
           l == IF r.todo = {} THEN "done" ELSE "delete"
           n == [r EXCEPT !.pc = "publish", !.known = x, !.after = l]
<1>1. r.pc = "remove" /\ Save(p, x, l)
  BY DEF Remove, At
<1>2. /\ r.known.owner \in [Id -> Profile \cup {None}]
      /\ r.known.active \in [Profile -> Id \cup {None}]
      /\ x.owner = [r.known.owner EXCEPT ![r.id] = None]
      /\ x.active = [f \in Profile |-> IF r.known.active[f] = r.id THEN None ELSE r.known.active[f]]
  <2>1. r.known \in Index /\ r.id \in Id \cup {None}
    BY Known
  <2> QED
    BY <2>1, RemovedType DEF Index
<1>3. /\ n.pc = "publish" /\ n.after = l /\ n.known = x /\ n.cmd = r.cmd
      /\ n.profile = r.profile /\ n.targets = r.targets /\ n.todo = r.todo
  BY Known DEF ProcState
<1> HIDE DEF x, n
<1>4. ASSUME solo[p], OwnTargets(r.cmd, grants) PROVE LogoutTold(n, tokens)
  <2> SUFFICES ASSUME r.cmd \in Logouts PROVE LogoutTold(n, tokens)
    BY <1>3 DEF LogoutTold
  <2>1. LogoutTold(r, tokens) /\ r.targets \subseteq Id /\ r.profile \in Profile
    BY <1>1, <1>4, Known DEF Told, FlowOf
  <2>2. /\ r.id \in Id \ r.todo /\ tokens[<<r.profile, r.id>>] = 0 /\ r.todo \subseteq r.targets
        /\ \A i \in r.todo : r.known.owner[i] = r.profile
        /\ \A i \in r.targets \ r.todo : Gone(r, tokens, i) \/ i = r.id
    BY <1>1, <2>1 DEF LogoutTold
  <2>3. ASSUME NEW j \in r.targets \ r.todo PROVE Gone(n, tokens, j)
    <3>1. CASE j = r.id
      BY <1>2, <1>3, <2>1, <2>2, <3>1 DEF Gone
    <3>2. CASE Gone(r, tokens, j)
      BY <1>2, <1>3, <2>1, <2>2, <3>2 DEF Gone
    <3> QED
      BY <2>2, <3>1, <3>2
  <2>4. ASSUME NEW j \in r.todo PROVE x.owner[j] = r.profile
    BY <1>2, <2>2, <2>1
  <2> QED
    BY <1>3, <2>2, <2>3, <2>4 DEF LogoutTold, Heading
<1>5. r.cmd # "login" \/ ~solo[p]
  BY <1>1, Known DEF Told, LoginTold
<1>6. solo[p] => LoginTold(n, tokens) /\ (OwnTargets(r.cmd, grants) => LogoutTold(n, tokens))
  BY <1>3, <1>4, <1>5 DEF LoginTold
<1>7. solo[p] => LET m == [proc[p] EXCEPT !.pc = "publish", !.known = x, !.after = l]
                 IN  LoginTold(m, tokens) /\ (OwnTargets(r.cmd, grants) => LogoutTold(m, tokens))
  BY <1>6 DEF n
<1> HIDE DEF l
<1> QED
  BY <1>1, <1>5, <1>7, SoloSaveStep DEF At

LEMMA SoloLoad ==
  ASSUME SoloInv, TidyInv', NEW p \in Proc, Load(p)
  PROVE  SoloInv'
<1> DEFINE r == proc[p]
           t == tokens[CredentialKey(p)]
           n == [r EXCEPT !.held = t, !.pc = "send"]
<1>1. /\ n.cmd = r.cmd /\ n.profile = r.profile /\ n.known = r.known /\ n.id = r.id
      /\ n.held = t /\ n.pc = "send" /\ r.pc = "load"
  BY Known DEF ProcState, Load, At
<1>2. /\ Becomes(p, n) /\ UNCHANGED <<index, tmp, tokens, solo, grants>>
  BY DEF Load, stores
<1>3. t = tokens[<<r.known.owner[r.id], r.id>>]
  BY DEF CredentialKey
<1> HIDE DEF n, t
<1>4. solo[p] => Told(n, index', tmp', tokens', grants')
  BY <1>1, <1>2, <1>3, Known DEF Told, Copy, LoginTold, LogoutTold, Heading
<1> QED
  BY <1>1, <1>2, <1>4, SoloLocalStep DEF At

LEMMA SoloSend ==
  ASSUME SoloInv, TidyInv', NEW p \in Proc, Send(p)
  PROVE  SoloInv'
<1> DEFINE r == proc[p]
<1>1. PICK l \in {"load", IF r.cmd = "ssh" THEN "touch" ELSE "done"} :
        Becomes(p, [r EXCEPT !.pc = l])
  BY DEF Send
<1> DEFINE n == [r EXCEPT !.pc = l]
<1>2. /\ n.cmd = r.cmd /\ n.profile = r.profile /\ n.known = r.known /\ n.id = r.id
      /\ n.held = r.held /\ n.pc = l /\ r.pc = "send"
  BY Known DEF ProcState, Send, At
<1>3. /\ Becomes(p, n) /\ UNCHANGED <<index, tmp, tokens, solo, grants>>
  BY <1>1 DEF Send, stores
<1> HIDE DEF n
<1>4. solo[p] => Told(n, index', tmp', tokens', grants')
  BY <1>1, <1>2, <1>3, Known DEF Told, Copy, LoginTold, LogoutTold, Heading
<1> QED
  BY <1>1, <1>2, <1>3, <1>4, SoloLocalStep DEF At

----------------------------------------------------------------------------
LEMMA SoloInit == Init => SoloInv
<1> SUFFICES ASSUME Init PROVE SoloInv
  OBVIOUS
<1>1. Alone
  BY DEF Init, Alone, At, Idle
<1>2. \A p \in Proc : ~solo[p]
  BY DEF Init
<1> QED
  BY <1>1, <1>2, TidyInit DEF SoloInv

LEMMA SoloNext == SoloInv /\ [Next]_vars => SoloInv'
<1> SUFFICES ASSUME SoloInv, [Next]_vars PROVE SoloInv'
  OBVIOUS
<1>1. TidyInv'
  BY TidyNext DEF SoloInv
<1>2. CASE UNCHANGED vars
  <2>1. UNCHANGED <<index, tmp, tokens, grants, proc, solo>>
    BY <1>2 DEF vars
  <2> QED
    BY <1>1, <2>1 DEF SoloInv, Alone, At
<1>3. ASSUME NEW p \in Proc, Step(p) PROVE SoloInv'
  <2>1. CASE Start(p)
    BY <1>1, <2>1, SoloStart
  <2>2. CASE Publish(p) \/ PublishFails(p) \/ Finish(p) \/ Abort(p)
    BY <1>1, <2>2, SoloPublish, SoloEnds
  <2>3. CASE SignIn(p) \/ SaveToken(p) \/ Upsert(p) \/ SetActive(p)
    BY <1>1, <2>3, SoloSignIn, SoloSaveToken, SoloUpsert, SoloSetActive
  <2>4. CASE Touch(p) \/ Rename(p) \/ DeleteToken(p) \/ Remove(p)
    BY <1>1, <2>4, SoloTouch, SoloDeleteToken, SoloRemove
  <2>5. CASE Load(p) \/ Send(p)
    BY <1>1, <2>5, SoloLoad, SoloSend
  <2> QED
    BY <1>3, <2>1, <2>2, <2>3, <2>4, <2>5 DEF Step
<1> QED
  BY <1>2, <1>3 DEF Next

\* A login that no other command overlapped takes effect: its account is the active one of
\* its profile and its token is stored, although the index may have been left half changed
\* by commands that were interrupted.
THEOREM LoginTakes == Spec => []SoloLoginTakes
<1>1. SoloInv => SoloLoginTakes
  <2> SUFFICES ASSUME SoloInv, NEW p \in Proc, solo[p], proc[p].pc = "done",
                      proc[p].cmd = "login"
               PROVE  /\ index.active[proc[p].profile] = proc[p].id
                      /\ index.owner[proc[p].id] = proc[p].profile
                      /\ tokens[<<proc[p].profile, proc[p].id>>] = proc[p].held
    BY DEF SoloLoginTakes, At
  <2> QED
    BY Known DEF Told, Copy, LoginTold, Heading
<1> QED
  BY SoloInit, SoloNext, <1>1, PTL DEF Spec

\* A logout that no other command overlapped leaves nothing of its accounts, neither in the
\* index nor among the profile's tokens.  Of a plain logout this is claimed only while no
\* identity has signed in to two profiles: it works on the active account, and may find
\* another profile's token filed under it.
THEOREM LogoutForgets == Spec => []SoloLogoutForgets
<1>1. SoloInv => SoloLogoutForgets
  <2> SUFFICES ASSUME SoloInv, NEW p \in Proc, solo[p], proc[p].pc = "done",
                      proc[p].cmd \in Logouts, proc[p].cmd = "logout" => Separate,
                      NEW i \in proc[p].targets
               PROVE  /\ index.owner[i] = None
                      /\ \A f \in Profile : index.active[f] # i
                      /\ tokens[<<proc[p].profile, i>>] = 0
    BY DEF SoloLogoutForgets, At
  <2>1. Copy(proc[p], index, tmp) /\ LogoutTold(proc[p], tokens)
    BY Known DEF Told, OwnTargets, Separate, Apart
  <2>2. index = proc[p].known /\ Gone(proc[p], tokens, i)
    BY <2>1 DEF Copy, LogoutTold, Heading
  <2> QED
    BY <2>2 DEF Gone
<1> QED
  BY SoloInit, SoloNext, <1>1, PTL DEF Spec

=============================================================================
