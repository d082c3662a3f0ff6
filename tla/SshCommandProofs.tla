-------------------------- MODULE SshCommandProofs --------------------------
(***************************************************************************)
(* Theorems about SshCommand, for any command line, configuration and set  *)
(* of OpenSSH letters.                                                     *)
(***************************************************************************)
EXTENDS SshCommand, TLAPS, WellFoundedInduction, SequenceTheorems

Origins == {"default", "system-config", "user-config", "environment", "profile", "flag"}

\* What ParseArgs has made of a line.
Results == [own : [Flags -> Text], options : Seq(Range(line)), target : Range(line) \cup {Nothing},
            command : Seq(Range(line)), error : BOOLEAN]

\* A setting and its origin.
Settings == [value : Text, from : Origins]

Steps == {"parse", "run", "account", "certificate", "launch", "launched", "printed",
          "helped", "failed"}

\* What App starts from, and what BuildApp makes of it.
Unbuilt == [profile |-> "", config |-> Defaults]
Name == ProfileName(parsed.own, settings)
Built == [profile |-> Name,
          config |-> Merge(Merge(Load(settings), Resolve(Name, settings), "profile"),
                           Overlay(parsed.own["server"], ""), "flag")]

Typed == /\ input \in Inputs /\ pc \in Steps
         /\ at \in 1 .. Len(line) + 1
         /\ parsed \in Results
         /\ app \in {Unbuilt, Built}
         /\ pc = "parse" => app = Unbuilt
         /\ pc \notin {"parse", "failed"} => app = Built

----------------------------------------------------------------------------
(* Types *)

LEMMA LineFacts ==
  ASSUME input \in Inputs
  PROVE  /\ line \in Seq(Tokens) /\ Len(line) \in Nat /\ DOMAIN line = 1 .. Len(line)
         /\ \A k \in 1 .. Len(line) : line[k] \in Tokens /\ line[k] \in Range(line)
         /\ line \in Seq(Range(line))
<1>1. line \in Seq(Tokens) /\ Len(line) \in Nat /\ DOMAIN line = 1 .. Len(line)
  BY InputsAssumption, LenProperties DEF line
<1>2. \A k \in 1 .. Len(line) : line[k] \in Tokens /\ line[k] \in Range(line)
  BY <1>1, ElementOfSeq DEF Range
<1>3. line \in Seq(Range(line))
  BY <1>1, <1>2
<1> QED
  BY <1>1, <1>2, <1>3

LEMMA TokenFacts ==
  ASSUME NEW t \in Tokens
  PROVE  /\ t.text \in Text
         /\ t.is = "word" => t.user \in Text /\ t.host \in Text
         /\ t.is = "dash" => t.letters \in Seq(Text)
         /\ t.is = "long" => t.flag \in Text /\ t.value \in Text \cup {"none"}
         /\ t.is \in {"word", "dash", "long", "end"}
         /\ t # Nothing
BY DEF Tokens, Nothing

LEMMA TextFacts ==
  /\ "" \in Text /\ "yes" \in Text /\ "github" \in Text /\ "0" \in Text
  /\ "none" \notin Text /\ Unset \notin Text
BY TextAssumption

LEMMA ResultsFacts ==
  ASSUME NEW p \in Results
  PROVE  /\ p.own \in [Flags -> Text] /\ p.options \in Seq(Range(line))
         /\ p.target \in Range(line) \cup {Nothing} /\ p.command \in Seq(Range(line))
         /\ p.error \in BOOLEAN
         /\ \A f \in Flags, x \in Text : [p EXCEPT !.own[f] = x] \in Results
         /\ \A o \in Seq(Range(line)) : [p EXCEPT !.options = o] \in Results
         /\ \A t \in Range(line) : [p EXCEPT !.target = t] \in Results
         /\ \A c \in Seq(Range(line)) : [p EXCEPT !.command = c] \in Results
         /\ [p EXCEPT !.error = TRUE] \in Results
BY DEF Results

LEMMA FreshTyped == Fresh \in Results
<1>1. <<>> \in Seq(Range(line))
  OBVIOUS
<1> QED
  BY <1>1, TextFacts DEF Fresh, Results

LEMMA TypedInit == ASSUME Init PROVE Typed
<1>1. input \in Inputs /\ pc = "parse" /\ at = 1 /\ parsed = Fresh /\ app = Unbuilt
  BY DEF Init, Unbuilt
<1>2. Len(line) \in Nat
  BY <1>1, LineFacts
<1>3. at \in 1 .. Len(line) + 1
  BY <1>1, <1>2
<1> QED
  BY <1>1, <1>3, FreshTyped DEF Typed, Steps

\* Sequences grow by one element or by two.
LEMMA Seqs ==
  ASSUME NEW S, NEW s \in Seq(S), NEW x \in S, NEW y \in S
  PROVE  /\ Append(s, x) \in Seq(S) /\ s \o <<x, y>> \in Seq(S)
         /\ s \o <<x, y>> = Append(Append(s, x), y)
<1>1. <<x, y>> \in Seq(S) /\ Append(s, x) \in Seq(S)
  OBVIOUS
<1>2. s \o <<x, y>> \in Seq(S)
  BY <1>1, ConcatProperties
<1>3. s \o <<x, y>> = Append(Append(s, x), y)
  BY <1>1
<1> QED
  BY <1>1, <1>2, <1>3

\* One token, or two.
LEMMA ParseTyped ==
  ASSUME Typed, ParseArgs
  PROVE  /\ parsed' \in Results /\ at' \in 1 .. Len(line) + 1
         /\ UNCHANGED <<input, pc, app, asked, launch>> /\ pc = "parse"
<1> USE DEF Parses
<1>0. /\ input \in Inputs /\ parsed \in Results /\ at \in 1 .. Len(line) + 1
      /\ Len(line) \in Nat /\ line \in Seq(Range(line))
      /\ \A k \in 1 .. Len(line) : line[k] \in Tokens /\ line[k] \in Range(line)
  BY LineFacts DEF Typed
<1>1. Malformed => /\ parsed' \in Results /\ at' \in 1 .. Len(line) + 1
                   /\ UNCHANGED <<input, pc, app, asked, launch>>
  <2>1. [Fresh EXCEPT !.error = TRUE] \in Results
    BY FreshTyped, ResultsFacts
  <2> QED
    BY <1>0, <2>1 DEF Malformed
<1>2. ASSUME NEW f \in Flags, NEW x \in Text, NEW next \in 1 .. Len(line) + 1,
             Parses([parsed EXCEPT !.own[f] = x], next)
      PROVE  /\ parsed' \in Results /\ at' \in 1 .. Len(line) + 1
             /\ UNCHANGED <<input, pc, app, asked, launch>>
  BY <1>0, <1>2, ResultsFacts
<1>3. CASE Switch
  <2>1. at \in 1 .. Len(line) /\ pc = "parse" /\ Token.flag \in Flags
    BY <1>0, <1>3 DEF Switch, Reading, Flags
  <2>2. at + 1 \in 1 .. Len(line) + 1
    BY <1>0, <2>1
  <2>4. "yes" \in Text
    BY TextFacts
  <2>3. Parses([parsed EXCEPT !.own[Token.flag] = "yes"], at + 1)
    BY <1>3 DEF Switch
  <2> QED
    BY <1>2, <2>1, <2>2, <2>3, <2>4
<1>4. CASE ValueFlag
  <2>1. at \in 1 .. Len(line) /\ pc = "parse" /\ Token.flag \in Flags
    BY <1>0, <1>4 DEF ValueFlag, Reading, Flags
  <2>2. Token.value \in Text \cup {"none"}
    BY <1>0, <1>4, <2>1, TokenFacts DEF ValueFlag, Token
  <2>3. ASSUME NEW x \in Text, NEW next \in 1 .. Len(line) + 1, Sets(x, next)
        PROVE  /\ parsed' \in Results /\ at' \in 1 .. Len(line) + 1
               /\ UNCHANGED <<input, pc, app, asked, launch>>
    BY <1>1, <1>2, <2>1, <2>3 DEF Sets
  <2>4. CASE Token.value # "none" /\ Sets(Token.value, at + 1)
    BY <2>1, <2>2, <2>3, <2>4
  <2>5. CASE at < Len(line) /\ Sets(line[at + 1].text, at + 2)
    <3>1. line[at + 1].text \in Text /\ at + 2 \in 1 .. Len(line) + 1
      BY <1>0, <2>1, <2>5, TokenFacts
    <3> QED
      BY <2>1, <2>3, <2>5, <3>1
  <2>6. CASE Malformed
    BY <1>1, <2>1, <2>6
  <2> QED
    BY <1>4, <2>4, <2>5, <2>6 DEF ValueFlag
<1>5. CASE Option
  <2>1. at \in 1 .. Len(line) /\ pc = "parse"
    BY <1>0, <1>5 DEF Option, Reading
  <2>2. ASSUME NEW o \in Seq(Range(line)), NEW next \in 1 .. Len(line) + 1,
               Parses([parsed EXCEPT !.options = o], next)
        PROVE  /\ parsed' \in Results /\ at' \in 1 .. Len(line) + 1
               /\ UNCHANGED <<input, pc, app, asked, launch>>
    BY <1>0, <2>2, ResultsFacts
  <2>3. CASE Parses([parsed EXCEPT !.options = Append(@, Token)], at + 1)
    <3>1. at + 1 \in 1 .. Len(line) + 1 /\ Token \in Range(line)
      BY <1>0, <2>1 DEF Token
    <3>2. Append(parsed.options, Token) \in Seq(Range(line))
      BY <1>0, <3>1, ResultsFacts, Seqs
    <3> QED
      BY <2>1, <2>2, <2>3, <3>1, <3>2
  <2>4. CASE /\ at < Len(line)
             /\ Parses([parsed EXCEPT !.options = @ \o <<Token, line[at + 1]>>], at + 2)
    <3>1. Token \in Range(line) /\ line[at + 1] \in Range(line) /\ at + 2 \in 1 .. Len(line) + 1
      BY <1>0, <2>1, <2>4 DEF Token
    <3>2. parsed.options \o <<Token, line[at + 1]>> \in Seq(Range(line))
      BY <1>0, <3>1, ResultsFacts, Seqs
    <3> QED
      BY <2>1, <2>2, <2>4, <3>1, <3>2
  <2>5. CASE Malformed
    BY <1>1, <2>1, <2>5
  <2> QED
    BY <1>5, <2>3, <2>4, <2>5 DEF Option
<1>6. CASE Target
  <2>1. at \in 1 .. Len(line) /\ pc = "parse" /\ Token \in Range(line)
    BY <1>0, <1>6 DEF Target, Reading, Token
  <2>2. [parsed EXCEPT !.target = Token] \in Results
    BY <1>0, <2>1, ResultsFacts
  <2> QED
    BY <1>0, <1>6, <2>1, <2>2 DEF Target
<1>7. CASE Command
  <2>1. at \in 1 .. Len(line) /\ pc = "parse"
    BY <1>0, <1>7 DEF Command
  <2>2. SubSeq(line, at, Len(line)) \in Seq(Range(line))
    BY <1>0, <2>1
  <2>3. [parsed EXCEPT !.command = SubSeq(line, at, Len(line))] \in Results
    BY <1>0, <2>2, ResultsFacts
  <2> QED
    BY <1>0, <1>7, <2>1, <2>3 DEF Command
<1> QED
  BY <1>3, <1>4, <1>5, <1>6, <1>7 DEF ParseArgs

\* What App is built from depends on the line and the settings alone.
LEMMA SameBuilt == ASSUME UNCHANGED <<input, parsed>> PROVE Built' = Built /\ Name' = Name
BY DEF Built, Name, ProfileName, settings

\* The steps after the line was read.
Later == Run \/ EnsureAccount \/ EnsureAccountFails \/ NoServer \/ Ensure \/ Launch \/ NoBinary

LEMMA TypedNext == ASSUME Typed, [Next]_vars PROVE Typed'
<1>1. CASE ParseArgs
  <2>1. /\ parsed' \in Results /\ at' \in 1 .. Len(line) + 1
        /\ UNCHANGED <<input, pc, app, asked, launch>> /\ pc = "parse"
    BY <1>1, ParseTyped
  <2>2. Results' = Results /\ Len(line)' = Len(line)
    BY <2>1 DEF Results, line
  <2> QED
    BY <2>1, <2>2 DEF Typed
<1>2. CASE BuildApp
  <2>1. UNCHANGED <<input, at, parsed>> /\ pc' = "run" /\ app' = Built
    BY <1>2 DEF BuildApp, Built, Name
  <2>2. Results' = Results /\ line' = line /\ Built' = Built
    BY <2>1, SameBuilt DEF Results, line
  <2> QED
    BY <2>1, <2>2 DEF Typed, Steps
<1>3. CASE BuildAppFails
  <2>1. UNCHANGED <<input, at, parsed, app>> /\ pc' = "failed"
    BY <1>3 DEF BuildAppFails, Fails
  <2>2. Results' = Results /\ line' = line /\ Built' = Built
    BY <2>1, SameBuilt DEF Results, line
  <2> QED
    BY <2>1, <2>2 DEF Typed, Steps
<1>4. CASE Later
  <2>1. UNCHANGED <<input, at, parsed, app>> /\ pc # "parse" /\ pc # "failed"
    BY <1>4 DEF Later, Run, EnsureAccount, EnsureAccountFails, NoServer, Ensure, Launch, NoBinary,
               Fails
  <2>2. pc' \in Steps \ {"parse"}
    BY <1>4 DEF Later, Run, EnsureAccount, EnsureAccountFails, NoServer, Ensure, Launch, NoBinary,
               Fails, Steps
  <2>3. Results' = Results /\ line' = line /\ Built' = Built
    BY <2>1, SameBuilt DEF Results, line
  <2> QED
    BY <2>1, <2>2, <2>3 DEF Typed
<1>5. CASE UNCHANGED vars
  <2>1. UNCHANGED <<input, at, parsed, app, pc>>
    BY <1>5 DEF vars
  <2>2. Results' = Results /\ line' = line /\ Built' = Built
    BY <2>1, SameBuilt DEF Results, line
  <2> QED
    BY <2>1, <2>2 DEF Typed
<1> QED
  BY <1>1, <1>2, <1>3, <1>4, <1>5 DEF Next, Later

----------------------------------------------------------------------------
(* The configuration *)

LEMMA SettingsFacts ==
  ASSUME input \in Inputs
  PROVE  /\ settings.system \in [Fields -> Text \cup {Unset}]
         /\ settings.user \in [Fields -> Text \cup {Unset}]
         /\ settings.env \in [Fields -> Text]
         /\ \A p \in DOMAIN settings.profiles :
              settings.profiles[p] \in [server : Text, provider : Text]
BY InputsAssumption DEF settings

LEMMA Merged ==
  ASSUME NEW c \in [Fields -> Settings], NEW layer \in [Fields -> Text \cup {Unset}],
         NEW source \in Origins
  PROVE  Merge(c, layer, source) \in [Fields -> Settings]
BY DEF Merge, Settings

LEMMA Layers ==
  ASSUME Typed
  PROVE  /\ Defaults \in [Fields -> Settings]
         /\ Environment(settings.env) \in [Fields -> Text \cup {Unset}]
         /\ Resolve(Name, settings) \in [Fields -> Text \cup {Unset}]
         /\ Overlay(parsed.own["server"], "") \in [Fields -> Text \cup {Unset}]
<1>0. input \in Inputs /\ parsed.own["server"] \in Text
  BY ResultsFacts DEF Typed, Flags, ValueFlags
<1>1. Defaults \in [Fields -> Settings]
  BY TextFacts DEF Defaults, Settings, Origins
<1>2. Environment(settings.env) \in [Fields -> Text \cup {Unset}]
  BY <1>0, SettingsFacts DEF Environment
<1>3. \A x, y \in Text : Overlay(x, y) \in [Fields -> Text \cup {Unset}]
  BY DEF Overlay
<1>4. Resolve(Name, settings) \in [Fields -> Text \cup {Unset}]
  BY <1>0, <1>3, SettingsFacts, TextFacts DEF Resolve
<1> QED
  BY <1>0, <1>1, <1>2, <1>3, <1>4, TextFacts

LEMMA Configuration == ASSUME Typed PROVE app.config \in [Fields -> Settings]
<1>1. Defaults \in [Fields -> Settings] /\ input \in Inputs /\ app \in {Unbuilt, Built}
  BY Layers DEF Typed
<1>2. Load(settings) \in [Fields -> Settings]
  BY <1>1, Layers, Merged, SettingsFacts DEF Load, Origins
<1>3. Built.config \in [Fields -> Settings]
  BY <1>2, Layers, Merged DEF Built, Origins
<1>4. Unbuilt.config = Defaults
  BY DEF Unbuilt
<1> QED
  BY <1>1, <1>3, <1>4, Zenon

LEMMA TypeImplied == ASSUME Typed PROVE TypeOK
<1>1. app.config \in [Fields -> Settings]
  BY Configuration
<1>2. DOMAIN parsed = DOMAIN Fresh
  BY DEF Typed, Results, Fresh
<1> QED
  BY <1>1, <1>2, ResultsFacts DEF Typed, TypeOK, Steps, Settings, Origins

\* Types: ParseArgs stays on the line, its result is made of tokens of the line, and each
\* setting has an origin.
THEOREM TypeCorrect == Spec => []TypeOK
<1>1. Typed => TypeOK
  BY TypeImplied
<1> QED
  BY TypedInit, TypedNext, <1>1, PTL DEF Spec

\* The settings of the layers, lowest first.
Value(f) == <<Defaults[f].value, settings.system[f], settings.user[f],
              Environment(settings.env)[f], Resolve(Name, settings)[f],
              Overlay(parsed.own["server"], "")[f]>>
From == <<"default", "system-config", "user-config", "environment", "profile", "flag">>

\* A setting is the one of the highest layer that has it.
LEMMA TopLayer ==
  ASSUME Typed, NEW f \in Fields, NEW v, v = Value(f)
  PROVE  \E k \in 1 .. 6 :
           /\ v[k] # Unset /\ \A j \in 1 .. 6 : j > k => v[j] = Unset
           /\ Built.config[f].value = v[k] /\ Built.config[f].from = From[k]
<1>1. v[1] # Unset
  BY Layers, TextFacts DEF Value, Settings
<1>2. Defaults[f] = [value |-> v[1], from |-> From[1]]
  BY DEF Defaults, Value, From
<1>3. Built.config[f] = IF v[6] # Unset THEN [value |-> v[6], from |-> From[6]]
                        ELSE IF v[5] # Unset THEN [value |-> v[5], from |-> From[5]]
                        ELSE IF v[4] # Unset THEN [value |-> v[4], from |-> From[4]]
                        ELSE IF v[3] # Unset THEN [value |-> v[3], from |-> From[3]]
                        ELSE IF v[2] # Unset THEN [value |-> v[2], from |-> From[2]]
                        ELSE [value |-> v[1], from |-> From[1]]
  BY <1>2 DEF Built, Load, Merge, Value, From
<1>4. CASE v[6] # Unset
  BY <1>3, <1>4
<1>5. CASE v[6] = Unset /\ v[5] # Unset
  BY <1>3, <1>5
<1>6. CASE v[6] = Unset /\ v[5] = Unset /\ v[4] # Unset
  BY <1>3, <1>6
<1>7. CASE v[6] = Unset /\ v[5] = Unset /\ v[4] = Unset /\ v[3] # Unset
  BY <1>3, <1>7
<1>8. CASE v[6] = Unset /\ v[5] = Unset /\ v[4] = Unset /\ v[3] = Unset
  BY <1>1, <1>3, <1>8
<1> QED
  BY <1>4, <1>5, <1>6, <1>7, <1>8

LEMMA Greatest ==
  ASSUME NEW S \in SUBSET Int, NEW m \in S, \A x \in S : x <= m
  PROVE  Max(S) = m
<1>1. \A x \in S : x >= x /\ m >= x
  OBVIOUS
<1>2. \A x \in S : (\A y \in S : x >= y) => x = m
  OBVIOUS
<1> QED
  BY <1>1, <1>2, Zenon DEF Max

LEMMA UpToSix == \A k \in 1 .. 6 : k = 1 \/ k = 2 \/ k = 3 \/ k = 4 \/ k = 5 \/ k = 6
OBVIOUS

LEMMA Highest ==
  ASSUME NEW v, NEW k \in 1 .. 6, v[k] # Unset, \A j \in 1 .. 6 : j > k => v[j] = Unset
  PROVE  Max({j \in 1 .. 6 : v[j] # Unset}) = k
<1> DEFINE S == {j \in 1 .. 6 : v[j] # Unset}
<1>1. S \in SUBSET Int /\ k \in S
  OBVIOUS
<1>2. \A j \in S : j <= k
  OBVIOUS
<1> HIDE DEF S
<1>3. Max(S) = k
  BY <1>1, <1>2, Greatest
<1> QED
  BY <1>3 DEF S

\* The layers of HighestLayerWins are these.
LEMMA HighestWins == ASSUME Typed PROVE HighestLayerWins
<1> DEFINE profile == IF app.profile \in DOMAIN settings.profiles
                        THEN settings.profiles[app.profile] ELSE [server |-> "", provider |-> ""]
           Only(x) == {x} \ {"", Unset}
           layers(f) ==
             <<[from |-> "default", has |-> {Defaults[f].value}],
               [from |-> "system-config", has |-> {settings.system[f]} \ {Unset}],
               [from |-> "user-config", has |-> {settings.user[f]} \ {Unset}],
               [from |-> "environment", has |-> IF f = "cert_lifetime_seconds"
                                                  THEN Only(settings.env[f]) \cap Numbers
                                                  ELSE Only(settings.env[f])],
               [from |-> "profile", has |-> CASE f = "server_url" -> Only(profile.server)
                                              [] f = "provider" -> Only(profile.provider)
                                              [] OTHER -> {}],
               [from |-> "flag", has |-> IF f = "server_url" THEN Only(parsed.own["server"])
                                         ELSE {}]>>
<1> SUFFICES ASSUME app.profile # "", NEW f \in Fields
             PROVE  LET top == layers(f)[Max({k \in 1 .. 6 : layers(f)[k].has # {}})]
                    IN  app.config[f].value \in top.has /\ app.config[f].from = top.from
  BY DEF HighestLayerWins
<1> HIDE DEF layers
<1>0. app = Built /\ app.profile = Name /\ input \in Inputs
  <2>1. Unbuilt.profile = "" /\ Built.profile = Name
    BY DEF Unbuilt, Built
  <2> QED
    BY <2>1 DEF Typed
<1>1. \A k \in 1 .. 6 : layers(f)[k].from = From[k]
  <2>1. /\ layers(f)[1].from = From[1] /\ layers(f)[2].from = From[2]
        /\ layers(f)[3].from = From[3] /\ layers(f)[4].from = From[4]
        /\ layers(f)[5].from = From[5] /\ layers(f)[6].from = From[6]
    BY DEF From, layers
  <2> QED
    BY <2>1, UpToSix
<1>2. \A k \in 1 .. 6 : layers(f)[k].has = {Value(f)[k]} \ {Unset}
  <2>1. layers(f)[1].has = {Value(f)[1]} \ {Unset}
    <3>1. Defaults[f].value # Unset
      BY Layers, TextFacts DEF Settings
    <3> QED
      BY <3>1 DEF Value, layers
  <2>2. layers(f)[2].has = {Value(f)[2]} \ {Unset} /\ layers(f)[3].has = {Value(f)[3]} \ {Unset}
    BY DEF Value, layers
  <2>3. layers(f)[4].has = {Value(f)[4]} \ {Unset}
    BY DEF Value, Environment, layers
  <2>4. layers(f)[5].has = {Value(f)[5]} \ {Unset}
    <3>1. Resolve(Name, settings) = Overlay(profile.server, profile.provider)
      BY <1>0 DEF Resolve
    <3> QED
      BY <3>1 DEF Value, Overlay, layers
  <2>5. layers(f)[6].has = {Value(f)[6]} \ {Unset}
    BY DEF Value, Overlay, layers
  <2> QED
    BY <2>1, <2>2, <2>3, <2>4, <2>5, UpToSix
<1> DEFINE v == Value(f)
<1>a. \A j \in 1 .. 6 : layers(f)[j].has = {v[j]} \ {Unset}
  BY <1>2
<1>b. v = Value(f)
  OBVIOUS
<1> HIDE DEF v
<1>3. PICK k \in 1 .. 6 : /\ v[k] # Unset /\ \A j \in 1 .. 6 : j > k => v[j] = Unset
                          /\ app.config[f].value = v[k] /\ app.config[f].from = From[k]
  BY <1>0, <1>b, TopLayer
<1> DEFINE top == layers(f)[k]
<1>4. Max({j \in 1 .. 6 : layers(f)[j].has # {}}) = k
  <2>1. {j \in 1 .. 6 : layers(f)[j].has # {}} = {j \in 1 .. 6 : v[j] # Unset}
    BY <1>a
  <2>2. v[k] # Unset /\ \A j \in 1 .. 6 : j > k => v[j] = Unset
    BY <1>3, Zenon
  <2> QED
    BY <2>1, <2>2, Highest, Zenon
<1>5. top.from = From[k] /\ top.has = {v[k]} \ {Unset}
  BY <1>1, <1>a
<1>6. app.config[f].value \in top.has /\ app.config[f].from = top.from
  BY <1>3, <1>5
<1> HIDE DEF top
<1> QED
  BY <1>4, <1>6, Zenon DEF top

\* Each setting of App is the one of the highest layer that has it and names that layer,
\* whatever the files, the variables, the profile and the flags hold (Load, Resolve,
\* ApplyFlags).
THEOREM HighestLayerAlwaysWins == Spec => []HighestLayerWins
<1>1. Typed => HighestLayerWins
  BY HighestWins
<1> QED
  BY TypedInit, TypedNext, <1>1, PTL DEF Spec

----------------------------------------------------------------------------
(* Reading a line *)

LEMMA LeastNumber ==
  ASSUME NEW S \in SUBSET Nat, S # {}
  PROVE  \E m \in S : \A k \in S : m <= k
<1>1. PICK m \in S : \A k \in S : <<k, m>> \notin OpToRel(<, Nat)
  BY NatLessThanWellFounded, WFMin
<1>2. \A k \in S : ~(k < m)
  BY <1>1 DEF OpToRel
<1> QED
  BY <1>2

\* What holds of the empty sequence, and of a longer one if of the one before, holds of all.
LEMMA SequenceInduction ==
  ASSUME NEW T, NEW P \in SUBSET Seq(T), <<>> \in P, \A s \in P, t \in T : Append(s, t) \in P
  PROVE  P = Seq(T)
<1> SUFFICES ASSUME P # Seq(T) PROVE FALSE
  OBVIOUS
<1> DEFINE lengths == {Len(s) : s \in Seq(T) \ P}
<1>0. \A s \in Seq(T) : Len(s) \in Nat
  BY LenProperties
<1>1. lengths \in SUBSET Nat /\ lengths # {}
  BY <1>0
<1>2. PICK m \in lengths : \A k \in lengths : m <= k
  BY <1>1, LeastNumber
<1>3. PICK s \in Seq(T) : s \notin P /\ Len(s) = m
  BY <1>2
<1>4. PICK q \in Seq(T), t \in T : s = Append(q, t)
  BY <1>3, SequenceEmptyOrAppend
<1>5. Len(q) \in Nat /\ Len(s) = Len(q) + 1
  BY <1>4, LenProperties, AppendProperties
<1>6. q \in P
  <2>1. q \notin P => Len(q) \in lengths
    BY <1>4
  <2> HIDE DEF lengths
  <2>2. q \notin P => m <= Len(q)
    BY <1>2, <2>1
  <2> QED
    BY <1>3, <1>5, <2>2
<1> QED
  BY <1>3, <1>4, <1>6

\* g says what is made of each beginning of l, from r on.
Follows(g, own, r, l) ==
  g = [k \in 0 .. Len(l) |-> IF k = 0 THEN r ELSE ReadsToken(own, g[k - 1], l[k])]

LEMMA ReadsOnFollows ==
  ASSUME NEW own, NEW r, NEW l \in Seq(Tokens)
  PROVE  \E g : Follows(g, own, r, l) /\ ReadsOn(own, r, l) = g[Len(l)]
<1> DEFINE To(g, n) == g = [k \in 0 .. n |-> IF k = 0 THEN r ELSE ReadsToken(own, g[k - 1], l[k])]
           S == {n \in Nat : n <= Len(l) /\ \A g : ~To(g, n)}
<1>0. Len(l) \in Nat
  BY LenProperties
<1>1. S = {}
  <2> SUFFICES ASSUME S # {} PROVE FALSE
    OBVIOUS
  <2>1. PICK m \in S : \A k \in S : m <= k
    BY LeastNumber
  <2>2. m # 0
    <3>1. To([k \in 0 .. 0 |-> r], 0)
      OBVIOUS
    <3> QED
      BY <2>1, <3>1
  <2>3. m \in Nat /\ m - 1 \in Nat /\ m - 1 \notin S /\ m <= Len(l)
    BY <2>1, <2>2
  <2>4. PICK g : To(g, m - 1)
    BY <1>0, <2>3
  <2> DEFINE h == [k \in 0 .. m |-> IF k = m THEN ReadsToken(own, g[m - 1], l[m]) ELSE g[k]]
  <2>5. \A k \in 0 .. m - 1 : g[k] = IF k = 0 THEN r ELSE ReadsToken(own, g[k - 1], l[k])
    BY <2>4
  <2>6. \A k \in 0 .. m : h[k] = IF k = 0 THEN r ELSE ReadsToken(own, h[k - 1], l[k])
    <3>1. \A k \in 0 .. m : k # m => k \in 0 .. m - 1 /\ h[k] = g[k]
      BY <2>3
    <3>2. \A k \in 1 .. m : k - 1 \in 0 .. m - 1 /\ h[k - 1] = g[k - 1]
      BY <2>3
    <3>3. h[m] = ReadsToken(own, g[m - 1], l[m])
      BY <2>3
    <3> HIDE DEF h
    <3>4. TAKE k \in 0 .. m
    <3>5. CASE k = 0
      BY <2>2, <2>3, <2>5, <3>1, <3>5
    <3>6. CASE k # 0 /\ k # m
      BY <2>3, <2>5, <3>1, <3>2, <3>6
    <3>7. CASE k = m
      BY <2>2, <2>3, <3>2, <3>3, <3>7
    <3> QED
      BY <3>5, <3>6, <3>7
  <2>7. To(h, m)
    <3>1. DOMAIN h = 0 .. m /\ h = [k \in 0 .. m |-> h[k]]
      OBVIOUS
    <3> HIDE DEF h
    <3> QED
      BY <2>6, <3>1
  <2> QED
    BY <2>1, <2>7
<1>2. \E g : To(g, Len(l))
  BY <1>0, <1>1
<1> QED
  BY <1>2, Zenon DEF ReadsOn, Follows

LEMMA FollowsStep ==
  ASSUME NEW own, NEW r, NEW l, NEW g, Follows(g, own, r, l), Len(l) \in Nat
  PROVE  /\ g[0] = r
         /\ \A k \in 1 .. Len(l) : g[k] = ReadsToken(own, g[k - 1], l[k])
BY DEF Follows

LEMMA ReadsOnNothing ==
  ASSUME NEW own, NEW r
  PROVE  ReadsOn(own, r, <<>>) = r
<1>1. <<>> \in Seq(Tokens) /\ Len(<<>>) = 0 /\ Len(<<>>) \in Nat
  OBVIOUS
<1>2. PICK g : Follows(g, own, r, <<>>) /\ ReadsOn(own, r, <<>>) = g[Len(<<>>)]
  BY <1>1, ReadsOnFollows
<1>3. g[0] = r
  BY <1>1, <1>2, FollowsStep
<1> QED
  BY <1>1, <1>2, <1>3

LEMMA ReadsOnGrows ==
  ASSUME NEW own, NEW r, NEW l \in Seq(Tokens), NEW t \in Tokens
  PROVE  ReadsOn(own, r, Append(l, t)) = ReadsToken(own, ReadsOn(own, r, l), t)
<1> DEFINE m == Append(l, t)
<1>1. /\ m \in Seq(Tokens) /\ Len(l) \in Nat /\ Len(m) = Len(l) + 1
      /\ \A k \in 1 .. Len(l) : m[k] = l[k]
      /\ m[Len(l) + 1] = t
  BY AppendProperties, LenProperties
<1> HIDE DEF m
<1>2. PICK g : Follows(g, own, r, l) /\ ReadsOn(own, r, l) = g[Len(l)]
  BY ReadsOnFollows
<1>3. PICK h : Follows(h, own, r, m) /\ ReadsOn(own, r, m) = h[Len(m)]
  BY <1>1, ReadsOnFollows
<1>4. g[0] = r /\ h[0] = r
  BY <1>1, <1>2, <1>3, FollowsStep
<1>5. \A k \in 1 .. Len(l) : /\ g[k] = ReadsToken(own, g[k - 1], l[k])
                             /\ h[k] = ReadsToken(own, h[k - 1], l[k])
  <2>1. \A k \in 1 .. Len(l) : g[k] = ReadsToken(own, g[k - 1], l[k])
    BY <1>1, <1>2, FollowsStep
  <2>2. \A k \in 1 .. Len(m) : h[k] = ReadsToken(own, h[k - 1], m[k])
    BY <1>1, <1>3, FollowsStep
  <2> QED
    BY <1>1, <2>1, <2>2
<1>6. h[Len(l) + 1] = ReadsToken(own, h[Len(l)], t)
  <2>1. \A k \in 1 .. Len(m) : h[k] = ReadsToken(own, h[k - 1], m[k])
    BY <1>1, <1>3, FollowsStep
  <2>2. Len(l) + 1 \in 1 .. Len(m) /\ (Len(l) + 1) - 1 = Len(l)
    BY <1>1
  <2> QED
    BY <1>1, <2>1, <2>2
<1>7. h[Len(l)] = g[Len(l)]
  <2> DEFINE S == {k \in 0 .. Len(l) : h[k] # g[k]}
  <2> SUFFICES ASSUME S # {} PROVE FALSE
    BY <1>1
  <2>1. S \in SUBSET Nat
    BY <1>1
  <2>2. PICK k \in S : \A j \in S : k <= j
    BY <2>1, LeastNumber
  <2>3. k # 0
    BY <1>4, <2>2
  <2>4. k \in 1 .. Len(l) /\ k - 1 \in 0 .. Len(l) /\ k - 1 \notin S
    BY <1>1, <2>2, <2>3
  <2>5. h[k - 1] = g[k - 1]
    BY <2>4
  <2> QED
    BY <1>5, <2>2, <2>4, <2>5
<1>8. ReadsOn(own, r, m) = h[Len(l) + 1]
  BY <1>1, <1>3
<1> QED
  BY <1>2, <1>6, <1>7, <1>8 DEF m

LEMMA Listed ==
  ASSUME NEW S, NEW n \in Nat, NEW f \in [1 .. n -> S]
  PROVE  f \in Seq(S)
OBVIOUS

\* An option and its value, "" if it has none.
Read == Seq(Text \X Text)

Readings == [own : [Flags -> Text], options : Read, target : Tokens \cup {Nothing},
             command : Seq(Tokens), wants : {"none"} \cup Flags \cup TakesValue,
             phase : {"options", "more", "ended", "command"}, bad : BOOLEAN]

LEMMA ReadingsFacts ==
  ASSUME NEW r \in Readings
  PROVE  /\ r.own \in [Flags -> Text] /\ r.options \in Read
         /\ r.target \in Tokens \cup {Nothing} /\ r.command \in Seq(Tokens)
         /\ r.wants \in {"none"} \cup Flags \cup TakesValue
         /\ r.phase \in {"options", "more", "ended", "command"} /\ r.bad \in BOOLEAN
BY DEF Readings

LEMMA UnreadTyped == Unread \in Readings
<1>1. <<>> \in Read /\ <<>> \in Seq(Tokens)
  BY DEF Read
<1> QED
  BY <1>1, TextFacts DEF Unread, Readings

\* q is r with the options x read, and w the letter whose value is to come.
Adds(q, r, x, w) ==
  /\ q \in Readings /\ q.options = r.options \o x /\ q.wants = w
  /\ q.own = r.own /\ q.target = r.target /\ q.command = r.command
  /\ q.phase = r.phase /\ q.bad = r.bad

LEMMA AddsOf ==
  ASSUME NEW r \in Readings, NEW x \in Read, NEW w \in {"none"} \cup Flags \cup TakesValue
  PROVE  /\ Adds([r EXCEPT !.options = @ \o x, !.wants = w], r, x, w)
         /\ r.wants = w => Adds([r EXCEPT !.options = @ \o x], r, x, w)
<1>1. r.options \o x \in Read
  BY ReadingsFacts, ConcatProperties DEF Read
<1> QED
  BY <1>1 DEF Adds, Readings

\* A group of letters adds to what was read before, and to nothing else.
LEMMA GroupAdds ==
  ASSUME NEW letters \in Seq(Text)
  PROVE  \E x \in Read, w \in {"none"} \cup TakesValue :
           \A r \in Readings : r.wants = "none" => Adds(ReadsGroup(r, letters), r, x, w)
<1> DEFINE taking == {k \in DOMAIN letters : letters[k] \in TakesValue}
           first == IF taking = {} THEN Len(letters) + 1 ELSE Min(taking)
           alone == [k \in 1 .. first - 1 |-> <<letters[k], "">>]
<1>1. /\ Len(letters) \in Nat /\ DOMAIN letters = 1 .. Len(letters)
      /\ \A k \in 1 .. Len(letters) : letters[k] \in Text
  BY LenProperties, ElementOfSeq
<1>2. first \in 1 .. Len(letters) + 1 /\ (taking # {} => first \in taking)
  <2>1. CASE taking = {}
    BY <1>1, <2>1
  <2>2. CASE taking # {}
    <3>1. taking \in SUBSET Nat
      BY <1>1
    <3>2. PICK m \in taking : \A k \in taking : m <= k
      BY <2>2, <3>1, LeastNumber
    <3>3. Min(taking) \in taking
      BY <3>2 DEF Min
    <3> QED
      BY <1>1, <2>2, <3>3
  <2> QED
    BY <2>1, <2>2
<1>3. taking # {} => first \in 1 .. Len(letters) /\ letters[first] \in TakesValue
  BY <1>1, <1>2
<1> HIDE DEF first, taking
<1>4. alone \in Read
  <2>1. first - 1 \in Nat /\ \A k \in 1 .. first - 1 : letters[k] \in Text
    BY <1>1, <1>2
  <2>2. alone \in [1 .. first - 1 -> Text \X Text]
    BY <2>1, TextFacts
  <2> QED
    BY <2>1, <2>2, Listed DEF Read
<1> HIDE DEF alone
<1>5. \A r : ReadsGroup(r, letters) =
               IF first >= Len(letters)
                 THEN [r EXCEPT !.options = @ \o alone,
                                !.wants = IF taking = {} THEN "none" ELSE letters[first]]
                 ELSE [r EXCEPT !.options =
                         @ \o Append(alone, <<letters[first], letters[first + 1]>>)]
  BY DEF ReadsGroup, first, taking, alone
<1>6. CASE first >= Len(letters)
  <2> DEFINE w == IF taking = {} THEN "none" ELSE letters[first]
  <2>1. w \in {"none"} \cup TakesValue
    BY <1>3
  <2>2. \A r : ReadsGroup(r, letters) = [r EXCEPT !.options = @ \o alone, !.wants = w]
    BY <1>5, <1>6
  <2> HIDE DEF w
  <2>3. \A r \in Readings : Adds(ReadsGroup(r, letters), r, alone, w)
    BY <1>4, <2>1, <2>2, AddsOf
  <2> QED
    BY <1>4, <2>1, <2>3
<1>7. CASE ~(first >= Len(letters))
  <2> DEFINE x == Append(alone, <<letters[first], letters[first + 1]>>)
  <2>1. letters[first] \in Text /\ letters[first + 1] \in Text
    BY <1>1, <1>2, <1>7
  <2>2. x \in Read
    BY <1>4, <2>1, AppendProperties DEF Read
  <2>3. \A r : ReadsGroup(r, letters) = [r EXCEPT !.options = @ \o x]
    BY <1>5, <1>7
  <2> HIDE DEF x
  <2>4. \A r \in Readings : r.wants = "none" => Adds(ReadsGroup(r, letters), r, x, "none")
    BY <2>2, <2>3, AddsOf
  <2> QED
    BY <2>2, <2>4
<1> QED
  BY <1>6, <1>7

\* One letter that takes a value waits for it.
LEMMA LetterWants ==
  ASSUME NEW c \in TakesValue, NEW r \in Readings
  PROVE  Adds(ReadsGroup(r, <<c>>), r, <<>>, c)
<1> DEFINE taking == {k \in DOMAIN <<c>> : <<c>>[k] \in TakesValue}
           first == IF taking = {} THEN Len(<<c>>) + 1 ELSE Min(taking)
           alone == [k \in 1 .. first - 1 |-> <<<<c>>[k], "">>]
<1>1. taking = {1}
  OBVIOUS
<1>2. Min({1}) = 1
  BY DEF Min
<1>3. Len(<<c>>) = 1 /\ <<c>>[1] = c
  OBVIOUS
<1>4. first = 1
  BY <1>1, <1>2
<1> HIDE DEF taking, first
<1>5. alone = <<>>
  BY <1>4
<1> HIDE DEF alone
<1>6. ReadsGroup(r, <<c>>) =
        IF first >= Len(<<c>>)
          THEN [r EXCEPT !.options = @ \o alone,
                         !.wants = IF taking = {} THEN "none" ELSE <<c>>[first]]
          ELSE [r EXCEPT !.options = @ \o Append(alone, <<<<c>>[first], <<c>>[first + 1]>>)]
  BY DEF ReadsGroup, first, taking, alone
<1>7. ReadsGroup(r, <<c>>) = [r EXCEPT !.options = @ \o alone, !.wants = c]
  <2>1. first >= Len(<<c>>) /\ taking # {} /\ <<c>>[first] = c
    BY <1>1, <1>3, <1>4
  <2> QED
    BY <1>6, <2>1, Zenon
<1>8. <<>> \in Read
  BY DEF Read
<1> QED
  BY <1>5, <1>7, <1>8, AddsOf

\* The cases of ReadsToken, one by one.
LEMMA BadToken ==
  ASSUME NEW own, NEW r \in Readings, NEW t \in Tokens, r.bad
  PROVE  ReadsToken(own, r, t) = r
BY DEF ReadsToken

LEMMA ValueToken ==
  ASSUME NEW own, NEW r \in Readings, NEW t \in Tokens, ~r.bad, r.wants # "none"
  PROVE  ReadsToken(own, r, t) = ReadsValue(r, t.text)
BY DEF ReadsToken

LEMMA EndToken ==
  ASSUME NEW own, NEW r \in Readings, NEW t \in Tokens, ~r.bad, r.wants = "none",
         r.phase \in {"options", "more"}, t.is = "end"
  PROVE  ReadsToken(own, r, t) =
           [r EXCEPT !.phase = IF r.phase = "more" THEN "command" ELSE "ended"]
BY DEF ReadsToken

LEMMA DashToken ==
  ASSUME NEW own, NEW r \in Readings, NEW t \in Tokens, ~r.bad, r.wants = "none",
         r.phase \in {"options", "more"}, t.is = "dash"
  PROVE  ReadsToken(own, r, t) = ReadsGroup(r, t.letters)
BY DEF ReadsToken

\* A value goes to the flag or the letter that waits for it.
LEMMA FlagValue ==
  ASSUME NEW r \in Readings, NEW x \in Text, r.wants \in Flags
  PROVE  /\ ReadsValue(r, x) = [r EXCEPT !.own[r.wants] = x, !.wants = "none"]
         /\ ReadsValue(r, x) \in Readings
<1>1. ReadsValue(r, x) = [r EXCEPT !.own[r.wants] = x, !.wants = "none"]
  BY DEF ReadsValue
<1>2. [r EXCEPT !.own[r.wants] = x, !.wants = "none"] \in Readings
  BY DEF Readings
<1> QED
  BY <1>1, <1>2

LEMMA LetterValue ==
  ASSUME NEW r \in Readings, NEW x \in Text, r.wants \in TakesValue
  PROVE  Adds(ReadsValue(r, x), r, <<<<r.wants, x>>>>, "none")
<1> DEFINE o == <<<<r.wants, x>>>>
<1>1. r.wants \notin Flags /\ <<r.wants, x>> \in Text \X Text
  BY LettersAssumption
<1>2. ReadsValue(r, x) = [r EXCEPT !.options = Append(@, <<r.wants, x>>), !.wants = "none"]
  BY <1>1 DEF ReadsValue
<1>3. o \in Read /\ Append(r.options, <<r.wants, x>>) = r.options \o o
  <2>1. r.options \in Seq(Text \X Text)
    BY ReadingsFacts DEF Read
  <2>2. \A e \in Text \X Text : /\ <<e>> \in Seq(Text \X Text)
                                /\ Append(r.options, e) = r.options \o <<e>>
    BY <2>1, AppendIsConcat
  <2> QED
    BY <1>1, <2>2, Zenon DEF Read
<1>4. ReadsValue(r, x) = [r EXCEPT !.options = @ \o o, !.wants = "none"]
  BY <1>2, <1>3
<1> HIDE DEF o
<1>5. Adds([r EXCEPT !.options = @ \o o, !.wants = "none"], r, o, "none")
  BY <1>3, AddsOf
<1>6. Adds(ReadsValue(r, x), r, o, "none")
  BY <1>4, <1>5
<1> QED
  BY <1>6 DEF o

LEMMA FlagTyped ==
  ASSUME NEW r \in Readings, NEW t \in Tokens, t.is = "long", t.flag \in Flags
  PROVE  ReadsFlag(r, t) \in Readings
<1>1. t.value \in Text \cup {"none"} /\ "yes" \in Text
  BY TokenFacts, TextFacts
<1>2. CASE t.flag \in Switches \/ t.value # "none"
  <2> DEFINE x == IF t.flag \in Switches THEN "yes" ELSE t.value
  <2>1. x \in Text
    BY <1>1, <1>2
  <2>2. ReadsFlag(r, t) = [r EXCEPT !.own[t.flag] = x]
    BY <1>2 DEF ReadsFlag
  <2> HIDE DEF x
  <2>3. [r EXCEPT !.own[t.flag] = x] \in Readings
    BY <2>1 DEF Readings
  <2> QED
    BY <2>2, <2>3
<1>3. CASE ~(t.flag \in Switches \/ t.value # "none")
  <2>1. ReadsFlag(r, t) = [r EXCEPT !.wants = t.flag]
    BY <1>3 DEF ReadsFlag
  <2>2. [r EXCEPT !.wants = t.flag] \in Readings
    BY DEF Readings
  <2> QED
    BY <2>1, <2>2
<1> QED
  BY <1>2, <1>3

LEMMA TokenTyped ==
  ASSUME NEW own \in SUBSET Flags, NEW r \in Readings, NEW t \in Tokens
  PROVE  ReadsToken(own, r, t) \in Readings
<1>0. /\ r.phase \in {"options", "more", "ended", "command"} /\ r.command \in Seq(Tokens)
      /\ r.bad \in BOOLEAN /\ r.wants \in {"none"} \cup Flags \cup TakesValue
      /\ t.text \in Text /\ t.is \in {"word", "dash", "long", "end"}
  BY ReadingsFacts, TokenFacts
<1>1. CASE r.bad
  BY <1>1, BadToken
<1>2. CASE ~r.bad /\ r.wants # "none"
  <2>1. ReadsToken(own, r, t) = ReadsValue(r, t.text)
    BY <1>2, ValueToken
  <2>2. CASE r.wants \in Flags
    BY <1>0, <2>1, <2>2, FlagValue
  <2>3. CASE r.wants \in TakesValue
    BY <1>0, <2>1, <2>3, LetterValue DEF Adds
  <2> QED
    BY <1>0, <1>2, <2>2, <2>3
<1>3. CASE ~r.bad /\ r.wants = "none" /\ r.phase = "command"
  <2>1. Append(r.command, t) \in Seq(Tokens)
    BY <1>0
  <2>2. [r EXCEPT !.command = Append(@, t)] \in Readings
    BY <2>1 DEF Readings
  <2>3. ReadsToken(own, r, t) = [r EXCEPT !.command = Append(@, t)]
    BY <1>3 DEF ReadsToken
  <2> QED
    BY <2>2, <2>3
<1>4. CASE ~r.bad /\ r.wants = "none" /\ r.phase = "ended"
  <2>1. [r EXCEPT !.target = t, !.phase = "command"] \in Readings
    BY DEF Readings
  <2>2. ReadsToken(own, r, t) = [r EXCEPT !.target = t, !.phase = "command"]
    BY <1>4 DEF ReadsToken
  <2> QED
    BY <2>1, <2>2
<1>5. CASE ~r.bad /\ r.wants = "none" /\ r.phase \in {"options", "more"}
  <2>1. CASE t.is = "word"
    <3>1. <<t>> \in Seq(Tokens)
      OBVIOUS
    <3>2. /\ [r EXCEPT !.target = t, !.phase = "more"] \in Readings
          /\ [r EXCEPT !.command = <<t>>, !.phase = "command"] \in Readings
      BY <3>1 DEF Readings
    <3>3. /\ r.phase = "options" =>
                ReadsToken(own, r, t) = [r EXCEPT !.target = t, !.phase = "more"]
          /\ r.phase = "more" =>
                ReadsToken(own, r, t) = [r EXCEPT !.command = <<t>>, !.phase = "command"]
      BY <1>5, <2>1 DEF ReadsToken
    <3> QED
      BY <1>5, <3>2, <3>3
  <2>2. CASE t.is = "end"
    <3>1. [r EXCEPT !.phase = IF r.phase = "more" THEN "command" ELSE "ended"] \in Readings
      BY DEF Readings
    <3> QED
      BY <1>5, <2>2, <3>1, EndToken
  <2>3. CASE t.is = "dash"
    <3>1. t.letters \in Seq(Text)
      BY <2>3, TokenFacts
    <3>2. ReadsGroup(r, t.letters) \in Readings
      BY <1>5, <3>1, GroupAdds DEF Adds
    <3> QED
      BY <1>5, <2>3, <3>2, DashToken
  <2>4. CASE t.is = "long"
    <3>1. [r EXCEPT !.bad = TRUE] \in Readings
      BY DEF Readings
    <3>2. t.flag \in own => ReadsFlag(r, t) \in Readings
      BY <2>4, FlagTyped
    <3>3. ReadsToken(own, r, t) = IF r.phase = "options" /\ t.flag \in own
                                    THEN ReadsFlag(r, t) ELSE [r EXCEPT !.bad = TRUE]
      BY <1>5, <2>4 DEF ReadsToken
    <3> QED
      BY <3>1, <3>2, <3>3
  <2> QED
    BY <1>0, <2>1, <2>2, <2>3, <2>4
<1> QED
  BY <1>0, <1>1, <1>2, <1>3, <1>4, <1>5

LEMMA ReadsTyped ==
  ASSUME NEW own \in SUBSET Flags, NEW r \in Readings, NEW l \in Seq(Tokens)
  PROVE  ReadsOn(own, r, l) \in Readings
<1> DEFINE P == {s \in Seq(Tokens) : ReadsOn(own, r, s) \in Readings}
<1>1. <<>> \in P
  BY ReadsOnNothing
<1>2. \A s \in P, t \in Tokens : Append(s, t) \in P
  BY ReadsOnGrows, TokenTyped, AppendProperties
<1>3. P = Seq(Tokens)
  <2>1. P \in SUBSET Seq(Tokens)
    OBVIOUS
  <2> HIDE DEF P
  <2> QED
    BY <1>1, <1>2, <2>1, SequenceInduction
<1> QED
  BY <1>3

\* What is read of one part after the other is what is read of the whole.
LEMMA ReadsConcat ==
  ASSUME NEW own, NEW r, NEW l \in Seq(Tokens), NEW m \in Seq(Tokens)
  PROVE  ReadsOn(own, r, l \o m) = ReadsOn(own, ReadsOn(own, r, l), m)
<1> DEFINE P == {s \in Seq(Tokens) : ReadsOn(own, r, l \o s) = ReadsOn(own, ReadsOn(own, r, l), s)}
<1>1. <<>> \in P
  <2>1. l \o <<>> = l
    BY ConcatEmptySeq
  <2> QED
    BY <2>1, ReadsOnNothing
<1>2. ASSUME NEW s \in P, NEW t \in Tokens PROVE Append(s, t) \in P
  <2>1. s \in Seq(Tokens) /\ Append(s, t) \in Seq(Tokens) /\ l \o s \in Seq(Tokens)
    BY ConcatProperties
  <2>2. l \o Append(s, t) = Append(l \o s, t)
    BY <2>1
  <2>3. ReadsOn(own, r, l \o s) = ReadsOn(own, ReadsOn(own, r, l), s)
    OBVIOUS
  <2>4. ReadsOn(own, r, Append(l \o s, t)) = ReadsToken(own, ReadsOn(own, r, l \o s), t)
    BY <2>1, ReadsOnGrows, Zenon
  <2>5. ReadsOn(own, ReadsOn(own, r, l), Append(s, t))
          = ReadsToken(own, ReadsOn(own, ReadsOn(own, r, l), s), t)
    BY <2>1, ReadsOnGrows, Zenon
  <2> QED
    BY <2>1, <2>2, <2>3, <2>4, <2>5
<1>3. P = Seq(Tokens)
  <2>1. P \in SUBSET Seq(Tokens)
    OBVIOUS
  <2> HIDE DEF P
  <2> QED
    BY <1>1, <1>2, <2>1, SequenceInduction
<1> QED
  BY <1>3

\* Who has met a bad option reads no further.
LEMMA BadReads ==
  ASSUME NEW own, NEW r \in Readings, r.bad, NEW l \in Seq(Tokens)
  PROVE  ReadsOn(own, r, l) = r
<1> DEFINE P == {s \in Seq(Tokens) : ReadsOn(own, r, s) = r}
<1>1. <<>> \in P
  BY ReadsOnNothing
<1>2. \A s \in P, t \in Tokens : Append(s, t) \in P
  BY ReadsOnGrows, BadToken, AppendProperties
<1>3. P = Seq(Tokens)
  <2>1. P \in SUBSET Seq(Tokens)
    OBVIOUS
  <2> HIDE DEF P
  <2> QED
    BY <1>1, <1>2, <2>1, SequenceInduction
<1> QED
  BY <1>3

\* Past the host, own flags are read no more and the host does not change.
Settled(r) == /\ r \in Readings /\ r.phase \in {"more", "command"}
              /\ r.wants \in {"none"} \cup TakesValue

LEMMA SettledToken ==
  ASSUME NEW own \in SUBSET Flags, NEW r, Settled(r), NEW t \in Tokens
  PROVE  /\ ReadsToken(own, r, t) = ReadsToken({}, r, t)
         /\ Settled(ReadsToken({}, r, t))
         /\ ReadsToken({}, r, t).own = r.own /\ ReadsToken({}, r, t).target = r.target
<1> DEFINE q == ReadsToken({}, r, t)
<1>0. r \in Readings /\ r.bad \in BOOLEAN /\ t.is \in {"word", "dash", "long", "end"}
  BY ReadingsFacts, TokenFacts DEF Settled
<1>1. ReadsToken(own, r, t) = ReadsToken({}, r, t)
  BY DEF Settled, ReadsToken
<1>2. q \in Readings
  BY <1>0, TokenTyped
<1>3. CASE r.bad
  BY <1>0, <1>1, <1>3, BadToken
<1>4. CASE ~r.bad /\ r.wants # "none"
  <2>1. q = ReadsValue(r, t.text)
    BY <1>0, <1>4, ValueToken
  <2>2. t.text \in Text /\ r.wants \in TakesValue
    BY <1>4, TokenFacts DEF Settled
  <2>3. Adds(q, r, <<<<r.wants, t.text>>>>, "none")
    BY <1>0, <2>1, <2>2, LetterValue
  <2> HIDE DEF q
  <2>4. q.own = r.own /\ q.target = r.target /\ q.phase = r.phase /\ q.wants = "none"
    BY <2>3 DEF Adds
  <2>5. Settled(q) /\ q.own = r.own /\ q.target = r.target
    BY <1>2, <2>4 DEF Settled
  <2> QED
    BY <1>1, <2>5 DEF q
<1>5. CASE ~r.bad /\ r.wants = "none" /\ r.phase = "command"
  <2>1. q = [r EXCEPT !.command = Append(@, t)]
    BY <1>5 DEF ReadsToken
  <2>2. q.own = r.own /\ q.target = r.target /\ q.phase = r.phase /\ q.wants = "none"
    BY <1>0, <1>5, <2>1 DEF Readings
  <2> HIDE DEF q
  <2>3. Settled(q)
    BY <1>2, <2>2 DEF Settled
  <2> QED
    BY <1>1, <2>2, <2>3 DEF q
<1>6. CASE ~r.bad /\ r.wants = "none" /\ r.phase = "more"
  <2>1. CASE t.is = "dash"
    <3>1. PICK x \in Read, w \in {"none"} \cup TakesValue :
            \A s \in Readings : s.wants = "none" => Adds(ReadsGroup(s, t.letters), s, x, w)
      BY <2>1, TokenFacts, GroupAdds
    <3>2. q = ReadsGroup(r, t.letters)
      BY <1>6, <2>1 DEF ReadsToken
    <3>3. Adds(q, r, x, w)
      BY <1>0, <1>6, <3>1, <3>2
    <3> HIDE DEF q
    <3>4. q.own = r.own /\ q.target = r.target /\ q.phase = r.phase /\ q.wants = w
      BY <3>3 DEF Adds
    <3>5. Settled(q)
      BY <1>2, <3>4 DEF Settled
    <3> QED
      BY <1>1, <3>4, <3>5 DEF q
  <2>2. CASE t.is # "dash"
    <3>1. q \in {[r EXCEPT !.command = <<t>>, !.phase = "command"],
                 [r EXCEPT !.phase = "command"], [r EXCEPT !.bad = TRUE]}
      BY <1>0, <1>6, <2>2 DEF ReadsToken
    <3>2. /\ q.own = r.own /\ q.target = r.target /\ q.phase \in {"more", "command"}
          /\ q.wants = "none"
      BY <1>0, <1>6, <3>1 DEF Readings
    <3> HIDE DEF q
    <3>3. Settled(q)
      BY <1>2, <3>2 DEF Settled
    <3> QED
      BY <1>1, <3>2, <3>3 DEF q
  <2> QED
    BY <2>1, <2>2
<1> QED
  BY <1>0, <1>3, <1>4, <1>5, <1>6 DEF Settled

LEMMA SettledReads ==
  ASSUME NEW own \in SUBSET Flags, NEW r, Settled(r), NEW l \in Seq(Tokens)
  PROVE  /\ ReadsOn(own, r, l) = ReadsOn({}, r, l)
         /\ Settled(ReadsOn({}, r, l))
         /\ ReadsOn({}, r, l).own = r.own /\ ReadsOn({}, r, l).target = r.target
<1> DEFINE P == {s \in Seq(Tokens) :
                  /\ ReadsOn(own, r, s) = ReadsOn({}, r, s)
                  /\ Settled(ReadsOn({}, r, s))
                  /\ ReadsOn({}, r, s).own = r.own /\ ReadsOn({}, r, s).target = r.target}
<1>1. <<>> \in P
  BY ReadsOnNothing
<1>2. ASSUME NEW s \in P, NEW t \in Tokens PROVE Append(s, t) \in P
  <2>1. s \in Seq(Tokens) /\ Append(s, t) \in Seq(Tokens)
    OBVIOUS
  <2> DEFINE q == ReadsOn({}, r, s)
  <2>2. ReadsOn(own, r, s) = q /\ Settled(q) /\ q.own = r.own /\ q.target = r.target
    OBVIOUS
  <2>3. /\ ReadsOn(own, r, Append(s, t)) = ReadsToken(own, ReadsOn(own, r, s), t)
        /\ ReadsOn({}, r, Append(s, t)) = ReadsToken({}, q, t)
    BY <2>1, ReadsOnGrows
  <2> HIDE DEF q
  <2>4. /\ ReadsToken(own, q, t) = ReadsToken({}, q, t) /\ Settled(ReadsToken({}, q, t))
        /\ ReadsToken({}, q, t).own = q.own /\ ReadsToken({}, q, t).target = q.target
    BY <2>2, SettledToken
  <2> QED
    BY <2>1, <2>2, <2>3, <2>4
<1>3. P = Seq(Tokens)
  <2>1. P \in SUBSET Seq(Tokens)
    OBVIOUS
  <2> HIDE DEF P
  <2> QED
    BY <1>1, <1>2, <2>1, SequenceInduction
<1> QED
  BY <1>3

\* r and s differ in what was read before, c or d, and in their own flags.
Like(c, d, r, s) ==
  /\ r \in Readings /\ s \in Readings
  /\ r.target = s.target /\ r.command = s.command /\ r.wants = s.wants
  /\ r.phase = s.phase /\ r.bad = s.bad
  /\ r.wants \in {"none"} \cup TakesValue
  /\ \E x \in Read : r.options = c \o x /\ s.options = d \o x

LEMMA LikeAdds ==
  ASSUME NEW c \in Read, NEW d \in Read, NEW r, NEW s, Like(c, d, r, s),
         NEW x \in Read, NEW w \in {"none"} \cup TakesValue, NEW q, NEW p,
         Adds(q, r, x, w), Adds(p, s, x, w)
  PROVE  Like(c, d, q, p)
<1>1. PICK y \in Read : r.options = c \o y /\ s.options = d \o y
  BY DEF Like
<1>2. y \o x \in Read /\ (c \o y) \o x = c \o (y \o x) /\ (d \o y) \o x = d \o (y \o x)
  <2> DEFINE T == Text \X Text
  <2>1. x \in Seq(T) /\ y \in Seq(T) /\ c \in Seq(T) /\ d \in Seq(T)
    BY DEF Read
  <2> HIDE DEF T
  <2>2. y \o x \in Seq(T)
    BY <2>1, ConcatProperties
  <2>3. (c \o y) \o x = c \o (y \o x)
    BY <2>1
  <2>4. (d \o y) \o x = d \o (y \o x)
    BY <2>1
  <2> QED
    BY <2>2, <2>3, <2>4 DEF Read, T
<1>3. q.options = c \o (y \o x) /\ p.options = d \o (y \o x)
  BY <1>1, <1>2 DEF Adds
<1>4. \E z \in Read : q.options = c \o z /\ p.options = d \o z
  BY <1>2, <1>3
<1> QED
  BY <1>4 DEF Like, Adds

LEMMA LikeSame ==
  ASSUME NEW c, NEW d, NEW r, NEW s, Like(c, d, r, s), NEW q \in Readings, NEW p \in Readings,
         q.options = r.options, p.options = s.options,
         q.target = p.target, q.command = p.command, q.wants = "none", p.wants = "none",
         q.phase = p.phase, q.bad = p.bad
  PROVE  Like(c, d, q, p)
BY DEF Like

LEMMA LikeToken ==
  ASSUME NEW c \in Read, NEW d \in Read, NEW r, NEW s, Like(c, d, r, s), NEW t \in Tokens
  PROVE  Like(c, d, ReadsToken({}, r, t), ReadsToken({}, s, t))
<1> DEFINE q == ReadsToken({}, r, t)
           p == ReadsToken({}, s, t)
<1>0. /\ r \in Readings /\ s \in Readings /\ r.bad \in BOOLEAN /\ {} \in SUBSET Flags
      /\ r.phase \in {"options", "more", "ended", "command"}
      /\ t.is \in {"word", "dash", "long", "end"}
      /\ r.target = s.target /\ r.command = s.command /\ r.wants = s.wants
      /\ r.phase = s.phase /\ r.bad = s.bad
  BY ReadingsFacts, TokenFacts DEF Like
<1>1. q \in Readings /\ p \in Readings
  BY <1>0, TokenTyped
<1>2. CASE r.bad
  BY <1>0, <1>2, BadToken
<1>3. CASE ~r.bad /\ r.wants # "none"
  <2> DEFINE x == <<<<r.wants, t.text>>>>
  <2>1. q = ReadsValue(r, t.text) /\ p = ReadsValue(s, t.text)
    BY <1>0, <1>3, ValueToken
  <2>2. t.text \in Text /\ r.wants \in TakesValue /\ s.wants \in TakesValue
    BY <1>0, <1>3, TokenFacts DEF Like
  <2>3. Adds(q, r, x, "none") /\ Adds(p, s, x, "none")
    <3>1. Adds(ReadsValue(r, t.text), r, <<<<r.wants, t.text>>>>, "none")
      BY <1>0, <2>2, LetterValue
    <3>2. Adds(ReadsValue(s, t.text), s, <<<<s.wants, t.text>>>>, "none")
      BY <1>0, <2>2, LetterValue
    <3> QED
      BY <1>0, <2>1, <3>1, <3>2
  <2>4. x \in Read
    <3>1. <<r.wants, t.text>> \in Text \X Text
      BY <2>2, LettersAssumption
    <3> QED
      BY <3>1 DEF Read
  <2> HIDE DEF q, p, x
  <2>5. Like(c, d, q, p)
    BY <2>3, <2>4, LikeAdds
  <2> QED
    BY <2>5 DEF q, p
<1>4. CASE ~r.bad /\ r.wants = "none" /\ r.phase = "command"
  <2> DEFINE x == Append(r.command, t)
  <2>1. q = [r EXCEPT !.command = x] /\ p = [s EXCEPT !.command = x]
    BY <1>0, <1>4 DEF ReadsToken
  <2> HIDE DEF x
  <2>2. /\ q.options = r.options /\ p.options = s.options
        /\ q.target = p.target /\ q.command = p.command /\ q.wants = "none" /\ p.wants = "none"
        /\ q.phase = p.phase /\ q.bad = p.bad
    BY <1>0, <1>4, <2>1 DEF Readings
  <2> HIDE DEF q, p
  <2>3. Like(c, d, q, p)
    BY <1>1, <2>2, LikeSame
  <2> QED
    BY <2>3 DEF q, p
<1>5. CASE ~r.bad /\ r.wants = "none" /\ r.phase = "ended"
  <2>1. /\ q = [r EXCEPT !.target = t, !.phase = "command"]
        /\ p = [s EXCEPT !.target = t, !.phase = "command"]
    BY <1>0, <1>5 DEF ReadsToken
  <2>2. /\ q.options = r.options /\ p.options = s.options
        /\ q.target = p.target /\ q.command = p.command /\ q.wants = "none" /\ p.wants = "none"
        /\ q.phase = p.phase /\ q.bad = p.bad
    BY <1>0, <1>5, <2>1 DEF Readings
  <2> HIDE DEF q, p
  <2>3. Like(c, d, q, p)
    BY <1>1, <2>2, LikeSame
  <2> QED
    BY <2>3 DEF q, p
<1>6. CASE ~r.bad /\ r.wants = "none" /\ r.phase \in {"options", "more"} /\ t.is = "dash"
  <2>1. PICK x \in Read, w \in {"none"} \cup TakesValue :
          \A u \in Readings : u.wants = "none" => Adds(ReadsGroup(u, t.letters), u, x, w)
    BY <1>6, TokenFacts, GroupAdds
  <2>2. q = ReadsGroup(r, t.letters) /\ p = ReadsGroup(s, t.letters)
    BY <1>0, <1>6 DEF ReadsToken
  <2>3. Adds(q, r, x, w) /\ Adds(p, s, x, w)
    BY <1>0, <1>6, <2>1, <2>2
  <2> HIDE DEF q, p
  <2>4. Like(c, d, q, p)
    BY <2>3, LikeAdds
  <2> QED
    BY <2>4 DEF q, p
<1>7. CASE ~r.bad /\ r.wants = "none" /\ r.phase \in {"options", "more"} /\ t.is # "dash"
  <2>1. \/ /\ q = [r EXCEPT !.target = t, !.phase = "more"]
           /\ p = [s EXCEPT !.target = t, !.phase = "more"]
        \/ /\ q = [r EXCEPT !.command = <<t>>, !.phase = "command"]
           /\ p = [s EXCEPT !.command = <<t>>, !.phase = "command"]
        \/ q = [r EXCEPT !.phase = "command"] /\ p = [s EXCEPT !.phase = "command"]
        \/ q = [r EXCEPT !.phase = "ended"] /\ p = [s EXCEPT !.phase = "ended"]
        \/ q = [r EXCEPT !.bad = TRUE] /\ p = [s EXCEPT !.bad = TRUE]
    BY <1>0, <1>7 DEF ReadsToken
  <2>2. /\ q.options = r.options /\ p.options = s.options
        /\ q.target = p.target /\ q.command = p.command /\ q.wants = "none" /\ p.wants = "none"
        /\ q.phase = p.phase /\ q.bad = p.bad
    <3>1. CASE /\ q = [r EXCEPT !.target = t, !.phase = "more"]
               /\ p = [s EXCEPT !.target = t, !.phase = "more"]
      BY <1>0, <1>7, <3>1 DEF Readings
    <3>2. CASE /\ q = [r EXCEPT !.command = <<t>>, !.phase = "command"]
               /\ p = [s EXCEPT !.command = <<t>>, !.phase = "command"]
      BY <1>0, <1>7, <3>2 DEF Readings
    <3>3. CASE q = [r EXCEPT !.phase = "command"] /\ p = [s EXCEPT !.phase = "command"]
      BY <1>0, <1>7, <3>3 DEF Readings
    <3>4. CASE q = [r EXCEPT !.phase = "ended"] /\ p = [s EXCEPT !.phase = "ended"]
      BY <1>0, <1>7, <3>4 DEF Readings
    <3>5. CASE q = [r EXCEPT !.bad = TRUE] /\ p = [s EXCEPT !.bad = TRUE]
      BY <1>0, <1>7, <3>5 DEF Readings
    <3> QED
      BY <2>1, <3>1, <3>2, <3>3, <3>4, <3>5
  <2> HIDE DEF q, p
  <2>3. Like(c, d, q, p)
    BY <1>1, <2>2, LikeSame
  <2> QED
    BY <2>3 DEF q, p
<1> QED
  BY <1>0, <1>2, <1>3, <1>4, <1>5, <1>6, <1>7

LEMMA LikeReads ==
  ASSUME NEW c \in Read, NEW d \in Read, NEW r, NEW s, Like(c, d, r, s), NEW l \in Seq(Tokens)
  PROVE  Like(c, d, ReadsOn({}, r, l), ReadsOn({}, s, l))
<1> DEFINE P == {m \in Seq(Tokens) : Like(c, d, ReadsOn({}, r, m), ReadsOn({}, s, m))}
<1>1. <<>> \in P
  BY ReadsOnNothing
<1>2. ASSUME NEW m \in P, NEW t \in Tokens PROVE Append(m, t) \in P
  <2>1. m \in Seq(Tokens) /\ Append(m, t) \in Seq(Tokens)
    OBVIOUS
  <2>2. /\ ReadsOn({}, r, Append(m, t)) = ReadsToken({}, ReadsOn({}, r, m), t)
        /\ ReadsOn({}, s, Append(m, t)) = ReadsToken({}, ReadsOn({}, s, m), t)
    BY <2>1, ReadsOnGrows
  <2>3. Like(c, d, ReadsToken({}, ReadsOn({}, r, m), t), ReadsToken({}, ReadsOn({}, s, m), t))
    BY LikeToken
  <2> QED
    BY <2>1, <2>2, <2>3
<1>3. P = Seq(Tokens)
  <2>1. P \in SUBSET Seq(Tokens)
    OBVIOUS
  <2> HIDE DEF P
  <2> QED
    BY <1>1, <1>2, <2>1, SequenceInduction
<1> QED
  BY <1>3

----------------------------------------------------------------------------
(* ParseArgs keeps the meaning of a plain line *)

\* m is what the user means by the line so far, s what OpenSSH would make of the options kept.
Before(m, s, own) ==
  /\ m.bad = s.bad
  /\ ~m.bad => /\ m.own = own /\ m.options = s.options
               /\ m.wants = "none" /\ m.phase = "options" /\ m.target = Nothing
               /\ m.command = <<>>
               /\ s.wants = "none" /\ s.phase = "options" /\ s.target = Nothing
               /\ s.command = <<>>

LEMMA BeforeBad ==
  ASSUME NEW m \in Readings, NEW s \in Readings, NEW own, Before(m, s, own), m.bad,
         NEW t \in Tokens, NEW u \in Tokens, NEW e
  PROVE  /\ Before(ReadsToken(Flags, m, t), s, e)
         /\ Before(ReadsToken(Flags, m, t), ReadsToken({}, s, t), e)
         /\ Before(ReadsToken(Flags, ReadsToken(Flags, m, t), u), s, e)
         /\ Before(ReadsToken(Flags, ReadsToken(Flags, m, t), u),
                   ReadsToken({}, ReadsToken({}, s, t), u), e)
<1>1. s.bad
  BY DEF Before
<1>2. ReadsToken(Flags, m, t) = m /\ ReadsToken(Flags, m, u) = m
  BY BadToken
<1>3. ReadsToken({}, s, t) = s /\ ReadsToken({}, s, u) = s
  BY <1>1, BadToken
<1> QED
  BY <1>1, <1>2, <1>3 DEF Before

\* Own flags, with their values, are read and nothing is passed on.
LEMMA BeforeSwitch ==
  ASSUME NEW m \in Readings, NEW s \in Readings, NEW own, Before(m, s, own), NEW t \in Tokens,
         t.is = "long", t.flag \in Flags, t.flag \in Switches \/ t.value # "none"
  PROVE  Before(ReadsToken(Flags, m, t), s,
                [own EXCEPT ![t.flag] = IF t.flag \in Switches THEN "yes" ELSE t.value])
<1>1. CASE m.bad
  BY <1>1, BeforeBad
<1>2. CASE ~m.bad
  <2> DEFINE x == IF t.flag \in Switches THEN "yes" ELSE t.value
             q == ReadsToken(Flags, m, t)
  <2>1. q = ReadsFlag(m, t)
    BY <1>2 DEF Before, ReadsToken
  <2>2. q = [m EXCEPT !.own[t.flag] = x]
    BY <2>1 DEF ReadsFlag
  <2> HIDE DEF x
  <2>3. /\ q.own = [m.own EXCEPT ![t.flag] = x] /\ q.options = m.options /\ q.bad = m.bad
        /\ q.wants = m.wants /\ q.phase = m.phase /\ q.target = m.target
        /\ q.command = m.command
    BY <2>2 DEF Readings
  <2> HIDE DEF q
  <2>4. Before(q, s, [own EXCEPT ![t.flag] = x])
    BY <1>2, <2>3 DEF Before
  <2> QED
    BY <2>4 DEF q, x
<1> QED
  BY <1>1, <1>2

LEMMA BeforeValue ==
  ASSUME NEW m \in Readings, NEW s \in Readings, NEW own, Before(m, s, own), NEW t \in Tokens,
         t.is = "long", t.flag \in ValueFlags, t.value = "none", NEW u \in Tokens
  PROVE  Before(ReadsToken(Flags, ReadsToken(Flags, m, t), u), s, [own EXCEPT ![t.flag] = u.text])
<1>1. CASE m.bad
  BY <1>1, BeforeBad
<1>2. CASE ~m.bad
  <2> DEFINE q == ReadsToken(Flags, m, t)
             p == ReadsToken(Flags, q, u)
             x == u.text
  <2>0. t.flag \in Flags /\ t.flag \notin Switches /\ t.flag # "none"
    BY DEF Flags, ValueFlags, Switches
  <2>1. q = ReadsFlag(m, t)
    BY <1>2, <2>0 DEF Before, ReadsToken
  <2>2. q = [m EXCEPT !.wants = t.flag]
    BY <2>0, <2>1 DEF ReadsFlag
  <2>3. /\ q.own = m.own /\ q.options = m.options /\ q.bad = m.bad
        /\ q.wants = t.flag /\ q.phase = m.phase /\ q.target = m.target
        /\ q.command = m.command
    BY <2>2 DEF Readings
  <2>4. q \in Readings
    BY TokenTyped
  <2> HIDE DEF q
  <2>5. p = ReadsValue(q, x)
    BY <1>2, <2>0, <2>3, <2>4, ValueToken
  <2>6. p = [q EXCEPT !.own[t.flag] = x, !.wants = "none"]
    BY <2>0, <2>3, <2>5 DEF ReadsValue
  <2> HIDE DEF p, x
  <2>7. /\ p.own = [m.own EXCEPT ![t.flag] = x] /\ p.options = m.options /\ p.bad = m.bad
        /\ p.wants = "none" /\ p.phase = m.phase /\ p.target = m.target
        /\ p.command = m.command
    BY <2>3, <2>4, <2>6 DEF Readings
  <2>8. Before(p, s, [own EXCEPT ![t.flag] = x])
    BY <1>2, <2>7 DEF Before
  <2> QED
    BY <2>8 DEF q, p, x
<1> QED
  BY <1>1, <1>2

\* What adds the same to both leaves them alike.
LEMMA BeforeAdds ==
  ASSUME NEW m, NEW s, NEW own, Before(m, s, own), ~m.bad, NEW x, NEW q, NEW p,
         Adds(q, m, x, "none"), Adds(p, s, x, "none")
  PROVE  Before(q, p, own)
BY DEF Before, Adds

\* An option of OpenSSH without a value that is to come.
LEMMA BeforeOption ==
  ASSUME NEW m \in Readings, NEW s \in Readings, NEW own, Before(m, s, own), NEW t \in Tokens,
         \/ t.is = "long" /\ t.flag \notin Flags
         \/ t.is = "dash" /\ ReadsGroup(Unread, t.letters).wants = "none"
  PROVE  Before(ReadsToken(Flags, m, t), ReadsToken({}, s, t), own)
<1>1. CASE m.bad
  BY <1>1, BeforeBad
<1>2. CASE ~m.bad /\ t.is = "long" /\ t.flag \notin Flags
  <2> DEFINE q == ReadsToken(Flags, m, t)
             p == ReadsToken({}, s, t)
  <2>1. q = [m EXCEPT !.bad = TRUE] /\ p = [s EXCEPT !.bad = TRUE]
    BY <1>2 DEF Before, ReadsToken
  <2>2. q.bad = TRUE /\ p.bad = TRUE
    BY <2>1 DEF Readings
  <2> HIDE DEF q, p
  <2>3. Before(q, p, own)
    BY <2>2 DEF Before
  <2> QED
    BY <2>3 DEF q, p
<1>3. CASE ~m.bad /\ t.is = "dash" /\ ReadsGroup(Unread, t.letters).wants = "none"
  <2>1. PICK x \in Read, w \in {"none"} \cup TakesValue :
          \A r \in Readings : r.wants = "none" => Adds(ReadsGroup(r, t.letters), r, x, w)
    BY <1>3, TokenFacts, GroupAdds
  <2>2. w = "none"
    <3>1. Unread.wants = "none"
      BY DEF Unread
    <3>2. Adds(ReadsGroup(Unread, t.letters), Unread, x, w)
      BY <2>1, <3>1, UnreadTyped
    <3> QED
      BY <1>3, <3>2 DEF Adds
  <2>3. /\ ReadsToken(Flags, m, t) = ReadsGroup(m, t.letters)
        /\ ReadsToken({}, s, t) = ReadsGroup(s, t.letters)
    BY <1>3 DEF Before, ReadsToken
  <2>4. m.wants = "none" /\ s.wants = "none"
    BY <1>3 DEF Before
  <2>5. Adds(ReadsToken(Flags, m, t), m, x, "none") /\ Adds(ReadsToken({}, s, t), s, x, "none")
    BY <2>1, <2>2, <2>3, <2>4
  <2> QED
    BY <1>3, <2>5, BeforeAdds
<1> QED
  BY <1>1, <1>2, <1>3

\* A letter of ValueOpts and its value.
LEMMA BeforeTakes ==
  ASSUME NEW m \in Readings, NEW s \in Readings, NEW own, Before(m, s, own), NEW t \in Tokens,
         Takes(t), NEW u \in Tokens
  PROVE  Before(ReadsToken(Flags, ReadsToken(Flags, m, t), u),
                ReadsToken({}, ReadsToken({}, s, t), u), own)
<1>1. CASE m.bad
  BY <1>1, BeforeBad
<1>2. CASE ~m.bad
  <2> DEFINE c == t.letters[1]
  <2>1. t.letters = <<c>> /\ c \in TakesValue /\ t.is = "dash" /\ u.text \in Text
    <3>1. t.is = "dash" /\ Len(t.letters) = 1 /\ c \in ValueOpts
      BY DEF Takes
    <3>2. t.letters \in Seq(Text)
      BY <3>1, TokenFacts
    <3>3. t.letters = <<t.letters[1]>>
      BY <3>1, <3>2
    <3> HIDE DEF c
    <3>4. c \in TakesValue
      BY <3>1, LettersAssumption
    <3>5. u.text \in Text
      BY TokenFacts
    <3> QED
      BY <3>1, <3>3, <3>4, <3>5 DEF c
  <2>2. c \in Text /\ c # "none" /\ c \notin Flags
    BY <2>1, LettersAssumption, TextFacts
  <2> HIDE DEF c
  <2>3. ASSUME NEW o, NEW r \in Readings, ~r.bad, r.wants = "none", r.phase = "options"
        PROVE  /\ Adds(ReadsToken(o, r, t), r, <<>>, c)
               /\ Adds(ReadsToken(o, ReadsToken(o, r, t), u), ReadsToken(o, r, t),
                       <<<<c, u.text>>>>, "none")
    <3> DEFINE q == ReadsToken(o, r, t)
    <3>1. q = ReadsGroup(r, <<c>>)
      BY <2>1, <2>3 DEF ReadsToken
    <3>2. Adds(q, r, <<>>, c)
      BY <2>1, <3>1, LetterWants
    <3> HIDE DEF q
    <3>3. q \in Readings /\ ~q.bad /\ q.wants = c
      BY <2>3, <3>2 DEF Adds
    <3>4. ReadsToken(o, q, u) = ReadsValue(q, u.text)
      BY <2>2, <3>3, ValueToken
    <3>5. Adds(ReadsValue(q, u.text), q, <<<<q.wants, u.text>>>>, "none")
      BY <2>1, <3>3, LetterValue
    <3> QED
      BY <3>2, <3>3, <3>4, <3>5 DEF q
  <2> DEFINE m1 == ReadsToken(Flags, m, t)
             m2 == ReadsToken(Flags, m1, u)
             s1 == ReadsToken({}, s, t)
             s2 == ReadsToken({}, s1, u)
             x == <<<<c, u.text>>>>
  <2>4. Adds(m1, m, <<>>, c) /\ Adds(m2, m1, x, "none")
    BY <1>2, <2>3 DEF Before
  <2>5. Adds(s1, s, <<>>, c) /\ Adds(s2, s1, x, "none")
    BY <1>2, <2>3 DEF Before
  <2> HIDE DEF m1, m2, s1, s2, x
  <2>6. m1.options = s1.options /\ m1.bad = m.bad /\ s1.bad = s.bad
    BY <1>2, <2>4, <2>5 DEF Before, Adds
  <2>7. /\ m2.options = s2.options /\ m2.bad = m.bad /\ s2.bad = s.bad
        /\ m2.wants = "none" /\ s2.wants = "none"
    BY <2>4, <2>5, <2>6 DEF Adds
  <2>8. /\ m2.own = m.own /\ m2.phase = m.phase /\ m2.target = m.target
        /\ m2.command = m.command
    BY <2>4 DEF Adds
  <2>9. s2.phase = s.phase /\ s2.target = s.target /\ s2.command = s.command
    BY <2>5 DEF Adds
  <2>10. Before(m2, s2, own)
    BY <1>2, <2>7, <2>8, <2>9 DEF Before
  <2> QED
    BY <2>10 DEF m1, m2, s1, s2
<1> QED
  BY <1>1, <1>2

\* What the user means by the first k tokens, and what OpenSSH makes of the options kept.
MeantBy(k) == ReadsOn(Flags, Unread, SubSeq(line, 1, k))
Passed == ReadsOn({}, Unread, parsed.options)

\* The host is token k.
HostAt(k) == /\ line[k] = parsed.target /\ parsed.target.is = "word"
             /\ Before(MeantBy(k - 1), Passed, parsed.own)
             /\ \/ at = k + 1 /\ parsed.command = <<>>
                \/ at = Len(line) + 1 /\ parsed.command = SubSeq(line, k + 1, Len(line))

Kept == Plain /\ ~parsed.error =>
  \/ /\ parsed.target = Nothing /\ parsed.command = <<>>
     /\ Before(MeantBy(at - 1), Passed, parsed.own)
  \/ parsed.target # Nothing /\ \E k \in 1 .. Len(line) : HostAt(k)

LEMMA MeantSteps ==
  ASSUME input \in Inputs
  PROVE  /\ MeantBy(0) = Unread
         /\ \A k \in 0 .. Len(line) : MeantBy(k) \in Readings
         /\ \A k \in 1 .. Len(line) : MeantBy(k) = ReadsToken(Flags, MeantBy(k - 1), line[k])
<1>0. line \in Seq(Tokens) /\ Len(line) \in Nat /\ \A k \in 1 .. Len(line) : line[k] \in Tokens
  BY LineFacts
<1>1. MeantBy(0) = Unread
  <2>1. SubSeq(line, 1, 0) = <<>>
    BY <1>0
  <2> QED
    BY <2>1, ReadsOnNothing DEF MeantBy
<1>2. \A k \in 0 .. Len(line) : SubSeq(line, 1, k) \in Seq(Tokens)
  BY <1>0
<1>3. \A k \in 0 .. Len(line) : MeantBy(k) \in Readings
  BY <1>2, UnreadTyped, ReadsTyped DEF MeantBy
<1>4. ASSUME NEW k \in 1 .. Len(line)
      PROVE  MeantBy(k) = ReadsToken(Flags, MeantBy(k - 1), line[k])
  <2>1. SubSeq(line, 1, k) = Append(SubSeq(line, 1, k - 1), line[k])
    BY <1>0
  <2>2. SubSeq(line, 1, k - 1) \in Seq(Tokens)
    BY <1>0, <1>2
  <2>3. line[k] \in Tokens
    BY <1>0
  <2>4. ReadsOn(Flags, Unread, Append(SubSeq(line, 1, k - 1), line[k]))
          = ReadsToken(Flags, ReadsOn(Flags, Unread, SubSeq(line, 1, k - 1)), line[k])
    BY <2>2, <2>3, ReadsOnGrows
  <2> QED
    BY <2>1, <2>4 DEF MeantBy
<1> QED
  BY <1>1, <1>3, <1>4

LEMMA PassedFacts ==
  ASSUME Typed
  PROVE  /\ parsed.options \in Seq(Tokens) /\ Passed \in Readings
         /\ parsed.command \in Seq(Tokens) /\ parsed.target \in Tokens \cup {Nothing}
<1>1. Range(line) \subseteq Tokens
  BY LineFacts DEF Typed, Range
<1>2. /\ parsed.options \in Seq(Tokens) /\ parsed.command \in Seq(Tokens)
      /\ parsed.target \in Tokens \cup {Nothing}
  BY <1>1, ResultsFacts, SeqMonotonic DEF Typed
<1> QED
  BY <1>2, UnreadTyped, ReadsTyped DEF Passed

LEMMA KeptInit == ASSUME Init PROVE Kept
<1>1. parsed = Fresh /\ at = 1 /\ input \in Inputs
  BY DEF Init
<1>2. MeantBy(at - 1) = Unread
  BY <1>1, MeantSteps
<1>3. Passed = Unread /\ parsed.target = Nothing /\ parsed.command = <<>>
      /\ parsed.own = Unread.own
  BY <1>1, ReadsOnNothing DEF Passed, Fresh, Unread
<1>4. Before(Unread, Unread, Unread.own)
  BY DEF Before, Unread
<1> QED
  BY <1>2, <1>3, <1>4 DEF Kept

LEMMA KeptParse ==
  ASSUME Typed, Kept, ParseArgs
  PROVE  Kept'
<1>0. /\ input \in Inputs /\ parsed \in Results /\ at \in 1 .. Len(line) + 1
      /\ Len(line) \in Nat /\ line \in Seq(Tokens)
      /\ \A k \in 1 .. Len(line) : line[k] \in Tokens
      /\ parsed.options \in Seq(Tokens) /\ Passed \in Readings /\ {} \in SUBSET Flags
  BY LineFacts, PassedFacts DEF Typed
<1>1. UNCHANGED input /\ line' = line /\ parsed' \in Results
  BY ParseTyped DEF line
<1>2. Plain' = Plain /\ \A k : MeantBy(k)' = MeantBy(k)
  BY <1>1 DEF Plain, MeantBy
<1> SUFFICES ASSUME Plain, ~parsed'.error PROVE Kept'
  BY <1>2 DEF Kept
<1>3. ~Malformed
  <2>1. [Fresh EXCEPT !.error = TRUE].error = TRUE
    BY DEF Fresh
  <2> QED
    BY <2>1 DEF Malformed, Parses
<1>4. ~parsed.error
  <2>1. parsed.error = parsed'.error
    BY <1>0, <1>3 DEF ParseArgs, Switch, ValueFlag, Sets, Option, Target, Command, Parses, Results
  <2> QED
    BY <2>1
<1>5. ASSUME Reading
      PROVE  /\ at \in 1 .. Len(line) /\ Token \in Tokens /\ Token = line[at]
             /\ parsed.target = Nothing /\ parsed.command = <<>>
             /\ Before(MeantBy(at - 1), Passed, parsed.own)
             /\ MeantBy(at - 1) \in Readings
             /\ MeantBy(at) = ReadsToken(Flags, MeantBy(at - 1), Token)
             /\ at < Len(line) => /\ line[at + 1] \in Tokens
                                  /\ MeantBy(at + 1) = ReadsToken(Flags, MeantBy(at), line[at + 1])
  <2>1. at \in 1 .. Len(line) /\ parsed.target = Nothing /\ Token = line[at]
    BY <1>0, <1>5 DEF Reading, Token
  <2>2. /\ at - 1 \in 0 .. Len(line)
        /\ (at < Len(line) => at + 1 \in 1 .. Len(line) /\ (at + 1) - 1 = at)
    BY <1>0, <2>1
  <2> QED
    BY <1>0, <1>4, <2>1, <2>2, MeantSteps DEF Kept
<1> DEFINE m == MeantBy(at - 1)
\* Nothing but own flags was changed.
<1>6. ASSUME Reading, NEW own, parsed' = [parsed EXCEPT !.own = own],
             Before(MeantBy(at' - 1), Passed, own)
      PROVE  Kept'
  <2>1. /\ parsed'.own = own /\ parsed'.target = Nothing /\ parsed'.command = <<>>
        /\ parsed'.options = parsed.options
    BY <1>0, <1>5, <1>6 DEF Results
  <2>2. Passed' = Passed
    BY <2>1 DEF Passed
  <2> QED
    BY <1>2, <1>6, <2>1, <2>2 DEF Kept
\* Options were passed on.
<1>7. ASSUME Reading, NEW o \in Seq(Tokens), parsed' = [parsed EXCEPT !.options = o],
             Before(MeantBy(at' - 1), ReadsOn({}, Unread, o), parsed.own)
      PROVE  Kept'
  <2>1. /\ parsed'.own = parsed.own /\ parsed'.target = Nothing /\ parsed'.command = <<>>
        /\ parsed'.options = o
    BY <1>0, <1>5, <1>7 DEF Results
  <2>2. Passed' = ReadsOn({}, Unread, o)
    BY <2>1 DEF Passed
  <2> QED
    BY <1>2, <1>7, <2>1, <2>2 DEF Kept
<1>8. CASE Switch
  <2>1. Reading /\ Token.is = "long" /\ Token.flag \in Switches /\ at' = at + 1
    BY <1>8 DEF Switch, Parses
  <2> DEFINE own == [parsed.own EXCEPT ![Token.flag] = "yes"]
  <2>2. parsed' = [parsed EXCEPT !.own = own]
    BY <1>0, <1>8 DEF Switch, Parses, Results
  <2>3. Before(ReadsToken(Flags, m, Token), Passed, own)
    <3>1. Token.flag \in Flags
      BY <2>1 DEF Flags
    <3>2. Before(ReadsToken(Flags, m, Token), Passed,
                 [parsed.own EXCEPT ![Token.flag] =
                    IF Token.flag \in Switches THEN "yes" ELSE Token.value])
      BY <1>0, <1>5, <2>1, <3>1, BeforeSwitch
    <3> QED
      BY <2>1, <3>2
  <2> HIDE DEF own
  <2>4. Before(MeantBy(at' - 1), Passed, own)
    BY <1>0, <1>5, <2>1, <2>3
  <2> QED
    BY <1>6, <2>1, <2>2, <2>4
<1>9. CASE ValueFlag
  <2>1. Reading /\ Token.is = "long" /\ Token.flag \in ValueFlags
    BY <1>9 DEF ValueFlag
  <2>2. ASSUME NEW x, NEW next, Sets(x, next)
        PROVE  parsed' = [parsed EXCEPT !.own = [parsed.own EXCEPT ![Token.flag] = x]] /\ at' = next
    BY <1>0, <1>3, <2>2 DEF Sets, Parses, Results
  <2>3. CASE Token.value # "none" /\ Sets(Token.value, at + 1)
    <3> DEFINE own == [parsed.own EXCEPT ![Token.flag] = Token.value]
    <3>1. parsed' = [parsed EXCEPT !.own = own] /\ at' = at + 1
      BY <2>2, <2>3
    <3>2. Before(ReadsToken(Flags, m, Token), Passed, own)
      <4>1. Token.flag \in Flags /\ Token.flag \notin Switches
        BY <2>1 DEF Flags, ValueFlags, Switches
      <4>2. Before(ReadsToken(Flags, m, Token), Passed,
                   [parsed.own EXCEPT ![Token.flag] =
                      IF Token.flag \in Switches THEN "yes" ELSE Token.value])
        BY <1>0, <1>5, <2>1, <2>3, <4>1, BeforeSwitch
      <4> QED
        BY <4>1, <4>2
    <3> HIDE DEF own
    <3>3. Before(MeantBy(at' - 1), Passed, own)
      BY <1>0, <1>5, <2>1, <3>1, <3>2
    <3> QED
      BY <1>6, <2>1, <3>1, <3>3
  <2>4. CASE Token.value = "none" /\ at < Len(line) /\ Sets(line[at + 1].text, at + 2)
    <3> DEFINE own == [parsed.own EXCEPT ![Token.flag] = line[at + 1].text]
    <3>1. parsed' = [parsed EXCEPT !.own = own] /\ at' = at + 2
      BY <2>2, <2>4
    <3>2. Before(ReadsToken(Flags, ReadsToken(Flags, m, Token), line[at + 1]), Passed, own)
      BY <1>0, <1>5, <2>1, <2>4, BeforeValue
    <3> HIDE DEF own
    <3>3. Before(MeantBy(at' - 1), Passed, own)
      <4>1. at' - 1 = at + 1
        BY <1>0, <3>1
      <4> QED
        BY <1>5, <2>1, <2>4, <3>2, <4>1
    <3> QED
      BY <1>6, <2>1, <3>1, <3>3
  <2> QED
    BY <1>3, <1>9, <2>3, <2>4 DEF ValueFlag
<1>10. CASE Option
  <2>1. Reading /\ (Token.is \in {"dash", "end"} \/ (Token.is = "long" /\ Token.flag \notin Flags))
    BY <1>10 DEF Option
  <2>2. CASE ~Takes(Token) /\ Parses([parsed EXCEPT !.options = Append(@, Token)], at + 1)
    <3> DEFINE o == Append(parsed.options, Token)
    <3>1. parsed' = [parsed EXCEPT !.options = o] /\ at' = at + 1
      BY <2>2 DEF Parses
    <3>2. o \in Seq(Tokens) /\ ReadsOn({}, Unread, o) = ReadsToken({}, Passed, Token)
      BY <1>0, <1>5, <2>1, ReadsOnGrows DEF Passed
    <3> HIDE DEF o
    <3>3. Before(ReadsToken(Flags, m, Token), ReadsToken({}, Passed, Token), parsed.own)
      <4>1. CASE Token.is = "long" /\ Token.flag \notin Flags
        BY <1>0, <1>5, <2>1, <4>1, BeforeOption
      <4>2. CASE Token.is = "dash"
        <5> DEFINE w == ReadsGroup(Unread, Token.letters).wants
        <5>1. w = "none" \/ (w \in ValueOpts /\ Token.letters = <<w>>)
          BY <1>0, <1>5, <2>1, <4>2 DEF Plain
        <5>2. ~(w \in ValueOpts /\ Token.letters = <<w>>)
          <6> SUFFICES ASSUME w \in ValueOpts, Token.letters = <<w>> PROVE FALSE
            OBVIOUS
          <6> HIDE DEF w
          <6>1. Len(Token.letters) = 1 /\ Token.letters[1] = w
            OBVIOUS
          <6> QED
            BY <2>2, <4>2, <6>1 DEF Takes
        <5>3. w = "none"
          BY <5>1, <5>2
        <5> QED
          BY <1>0, <1>5, <2>1, <4>2, <5>3, BeforeOption
      <4>3. CASE Token.is = "end"
        <5>1. m.bad
          <6> SUFFICES ASSUME ~m.bad PROVE FALSE
            OBVIOUS
          <6>1. Reads(Flags, SubSeq(line, 1, at)).phase # "ended"
            BY <1>0, <1>5, <2>1, <4>3 DEF Plain
          <6>2. m.wants = "none" /\ m.phase = "options" /\ m \in Readings
            BY <1>5, <2>1 DEF Before
          <6> DEFINE q == ReadsToken(Flags, m, Token)
          <6>3. q = [m EXCEPT !.phase = "ended"]
            BY <4>3, <6>2 DEF ReadsToken
          <6>4. q.phase = "ended"
            BY <6>2, <6>3 DEF Readings
          <6>5. MeantBy(at) = q /\ q \in Readings
            BY <1>5, <2>1, <6>2, TokenTyped
          <6> HIDE DEF q
          <6>6. Reads(Flags, SubSeq(line, 1, at)) = [q EXCEPT !.bad = q.bad \/ q.wants # "none"]
            BY <6>5 DEF Reads, MeantBy
          <6>7. [q EXCEPT !.bad = q.bad \/ q.wants # "none"].phase = q.phase
            BY <6>5 DEF Readings
          <6> QED
            BY <6>1, <6>4, <6>6, <6>7
        <5> QED
          BY <1>0, <1>5, <2>1, <5>1, BeforeBad
      <4> QED
        BY <2>1, <4>1, <4>2, <4>3
    <3>4. Before(MeantBy(at' - 1), ReadsOn({}, Unread, o), parsed.own)
      BY <1>0, <1>5, <2>1, <3>1, <3>2, <3>3
    <3> QED
      BY <1>7, <2>1, <3>1, <3>2, <3>4
  <2>3. CASE /\ Takes(Token) /\ at < Len(line)
             /\ Parses([parsed EXCEPT !.options = @ \o <<Token, line[at + 1]>>], at + 2)
    <3> DEFINE u == line[at + 1]
               o == parsed.options \o <<Token, u>>
    <3>1. parsed' = [parsed EXCEPT !.options = o] /\ at' = at + 2
      BY <2>3 DEF Parses
    <3>2. u \in Tokens /\ MeantBy(at + 1) = ReadsToken(Flags, MeantBy(at), u)
      BY <1>5, <2>1, <2>3
    <3> HIDE DEF u
    <3>3. o \in Seq(Tokens) /\ o = Append(Append(parsed.options, Token), u)
      BY <1>0, <1>5, <2>1, <3>2, Seqs
    <3>4. ReadsOn({}, Unread, o) = ReadsToken({}, ReadsToken({}, Passed, Token), u)
      <4>1. Append(parsed.options, Token) \in Seq(Tokens)
        BY <1>0, <1>5, <2>1
      <4>2. ReadsOn({}, Unread, Append(parsed.options, Token)) = ReadsToken({}, Passed, Token)
        BY <1>0, <1>5, <2>1, ReadsOnGrows DEF Passed
      <4>3. ReadsOn({}, Unread, Append(Append(parsed.options, Token), u))
              = ReadsToken({}, ReadsOn({}, Unread, Append(parsed.options, Token)), u)
        BY <3>2, <4>1, ReadsOnGrows
      <4> QED
        BY <3>3, <4>2, <4>3
    <3> HIDE DEF o
    <3>5. Before(ReadsToken(Flags, ReadsToken(Flags, m, Token), u),
                 ReadsToken({}, ReadsToken({}, Passed, Token), u), parsed.own)
      BY <1>0, <1>5, <2>1, <2>3, <3>2, BeforeTakes
    <3>6. Before(MeantBy(at' - 1), ReadsOn({}, Unread, o), parsed.own)
      <4>1. at' - 1 = at + 1
        BY <1>0, <3>1
      <4> QED
        BY <1>5, <2>1, <3>2, <3>4, <3>5, <4>1
    <3> QED
      BY <1>7, <2>1, <3>1, <3>3, <3>6
  <2> QED
    BY <1>3, <1>10, <2>2, <2>3 DEF Option
<1>11. CASE Target
  <2>1. Reading /\ Token.is = "word" /\ at' = at + 1 /\ parsed' = [parsed EXCEPT !.target = Token]
    BY <1>11 DEF Target, Parses
  <2>2. /\ parsed'.own = parsed.own /\ parsed'.target = Token /\ parsed'.command = <<>>
        /\ parsed'.options = parsed.options
    BY <1>0, <1>5, <2>1 DEF Results
  <2>3. Passed' = Passed /\ Token # Nothing
    BY <1>5, <2>1, <2>2, TokenFacts DEF Passed
  <2>4. PICK k \in 1 .. Len(line) : k = at
    BY <1>5, <2>1
  <2>5. HostAt(k)'
    BY <1>1, <1>2, <1>5, <2>1, <2>2, <2>3, <2>4 DEF HostAt
  <2> QED
    BY <1>1, <2>2, <2>3, <2>5 DEF Kept
<1>12. CASE Command
  <2>1. /\ at <= Len(line) /\ parsed.target # Nothing /\ at' = Len(line) + 1
        /\ parsed' = [parsed EXCEPT !.command = SubSeq(line, at, Len(line))]
    BY <1>12 DEF Command, Parses
  <2>2. /\ parsed'.own = parsed.own /\ parsed'.target = parsed.target
        /\ parsed'.command = SubSeq(line, at, Len(line)) /\ parsed'.options = parsed.options
    BY <1>0, <2>1 DEF Results
  <2>3. Passed' = Passed
    BY <2>2 DEF Passed
  <2>4. PICK k \in 1 .. Len(line) : HostAt(k)
    BY <1>4, <2>1 DEF Kept
  <2>5. at = k + 1
    BY <1>0, <2>1, <2>4 DEF HostAt
  <2> QED
    BY <1>1, <1>2, <2>1, <2>2, <2>3, <2>4, <2>5 DEF Kept, HostAt
<1> QED
  BY <1>8, <1>9, <1>10, <1>11, <1>12 DEF ParseArgs

LEMMA KeptNext == ASSUME Typed, Kept, [Next]_vars PROVE Kept'
<1>1. CASE ParseArgs
  BY <1>1, KeptParse
<1>2. CASE ~ParseArgs
  <2>1. UNCHANGED <<input, at, parsed>>
    BY <1>2 DEF Next, BuildApp, BuildAppFails, Run, EnsureAccount, EnsureAccountFails, NoServer,
               Ensure, Launch, NoBinary, Fails, vars
  <2>2. line' = line /\ Plain' = Plain /\ Passed' = Passed
    BY <2>1 DEF line, Plain, Passed
  <2>3. \A k : MeantBy(k)' = MeantBy(k) /\ (HostAt(k)' <=> HostAt(k))
    BY <2>1, <2>2 DEF MeantBy, HostAt
  <2> QED
    BY <2>1, <2>2, <2>3 DEF Kept
<1> QED
  BY <1>1, <1>2

----------------------------------------------------------------------------
(* What is asked for and launched *)

\* The line is right: it names a host and asks for no help.
Ready == ~parsed.error /\ parsed.own["help"] = "" /\ parsed.target # Nothing

Sent ==
  /\ pc # "parse" => at = Len(line) + 1
  /\ pc \in {"account", "certificate", "launch", "launched", "printed"} => Ready
  /\ pc = "launched" => parsed.own["dry_run"] = ""
  /\ asked # Nothing =>
       /\ pc # "parse" /\ Ready /\ app = Built
       /\ asked.ttl = IF parsed.own["ttl"] # "" THEN parsed.own["ttl"]
                      ELSE app.config["cert_lifetime_seconds"].value
       /\ asked.host = parsed.target.host
       /\ asked.renew = (parsed.own["no_cache"] # "")
  /\ launch # <<>> =>
       pc \in {"launched", "printed"} /\ app = Built /\ launch = BuildSSHArgs

LEMMA SentInit == ASSUME Init PROVE Sent
BY DEF Init, Sent

LEMMA SentNext == ASSUME Typed, Sent, [Next]_vars PROVE Sent'
<1>0. at \in 1 .. Len(line) + 1 /\ Len(line) \in Nat
  BY LineFacts DEF Typed
<1>1. CASE ParseArgs
  <2>1. pc = "parse" /\ UNCHANGED <<pc, asked, launch>>
    BY <1>1, ParseTyped
  <2>2. asked = Nothing /\ launch = <<>>
    BY <2>1 DEF Sent
  <2> QED
    BY <2>1, <2>2 DEF Sent
<1>2. CASE BuildApp \/ BuildAppFails
  <2>1. /\ pc = "parse" /\ at > Len(line) /\ pc' \in {"run", "failed"}
        /\ UNCHANGED <<input, at, asked, launch>>
    BY <1>2 DEF BuildApp, BuildAppFails, Fails
  <2>2. asked = Nothing /\ launch = <<>> /\ at = Len(line) + 1 /\ line' = line
    BY <1>0, <2>1 DEF Sent, line
  <2> QED
    BY <2>1, <2>2 DEF Sent
<1>3. CASE Later \/ UNCHANGED vars
  <2>1. UNCHANGED <<input, at, parsed, app>>
    BY <1>3 DEF Later, Run, EnsureAccount, EnsureAccountFails, NoServer, Ensure, Launch, NoBinary,
               Fails, vars
  <2>2. /\ line' = line /\ Ready' = Ready /\ Built' = Built /\ BuildSSHArgs' = BuildSSHArgs
    BY <2>1, SameBuilt DEF line, Ready, BuildSSHArgs, Configured, Preferred
  <2>3. CASE Run
    <3>1. /\ pc = "run" /\ UNCHANGED <<asked, launch>>
          /\ pc' \in {"failed", "helped", "account"} /\ (pc' = "account" => Ready)
      BY <2>3 DEF Run, Ready
    <3> QED
      BY <2>1, <2>2, <3>1 DEF Sent
  <2>4. CASE Ensure
    <3>1. /\ pc = "certificate" /\ pc' \in {"launch", "failed"} /\ UNCHANGED launch
          /\ asked'.ttl = IF parsed.own["ttl"] # "" THEN parsed.own["ttl"]
                          ELSE app.config["cert_lifetime_seconds"].value
          /\ asked'.host = parsed.target.host
          /\ asked'.renew = (parsed.own["no_cache"] # "")
      BY <2>4 DEF Ensure
    <3>2. Ready /\ app = Built
      BY <3>1 DEF Sent, Typed
    <3>3. launch = <<>>
      BY <3>1 DEF Sent
    <3> QED
      BY <2>1, <2>2, <3>1, <3>2, <3>3 DEF Sent
  <2>5. CASE Launch
    <3>1. /\ pc = "launch" /\ UNCHANGED asked /\ launch' = BuildSSHArgs
          /\ pc' = IF parsed.own["dry_run"] # "" THEN "printed" ELSE "launched"
      BY <2>5 DEF Launch
    <3>2. Ready /\ app = Built
      BY <3>1 DEF Sent, Typed
    <3> QED
      BY <2>1, <2>2, <3>1, <3>2 DEF Sent
  <2>6. CASE EnsureAccount \/ EnsureAccountFails \/ NoServer \/ NoBinary
    <3>1. /\ pc \in {"account", "certificate", "launch"} /\ UNCHANGED <<asked, launch>>
          /\ pc' \in {"certificate", "failed"}
      BY <2>6 DEF EnsureAccount, EnsureAccountFails, NoServer, NoBinary, Fails
    <3>2. Ready /\ launch = <<>>
      BY <3>1 DEF Sent
    <3> QED
      BY <2>1, <2>2, <3>1, <3>2 DEF Sent
  <2>7. CASE UNCHANGED vars
    BY <2>1, <2>2, <2>7 DEF Sent, vars
  <2> QED
    BY <1>3, <2>3, <2>4, <2>5, <2>6, <2>7 DEF Later
<1> QED
  BY <1>1, <1>2, <1>3 DEF Next, Later

\* What the user means by the whole line is settled at the host.
LEMMA MeantWhole ==
  ASSUME Typed, Kept, Plain, Ready, at = Len(line) + 1
  PROVE  \E m \in Readings :
           /\ Before(m, Passed, parsed.own)
           /\ parsed.target \in Tokens /\ parsed.target.is = "word"
           /\ m.bad => Meant.bad
           /\ ~m.bad => LET q == [m EXCEPT !.target = parsed.target, !.phase = "more"]
                            r == ReadsOn({}, q, parsed.command)
                        IN  /\ Settled(q) /\ Settled(r)
                            /\ r.own = parsed.own /\ r.target = parsed.target
                            /\ Meant = [r EXCEPT !.bad = r.bad \/ r.wants # "none"]
<1>0. input \in Inputs /\ line \in Seq(Tokens) /\ Len(line) \in Nat
  BY LineFacts DEF Typed
<1>1. PICK k \in 1 .. Len(line) : HostAt(k)
  BY DEF Kept, Ready
<1>2. parsed.command = SubSeq(line, k + 1, Len(line)) /\ parsed.command \in Seq(Tokens)
  <2>1. at = k + 1 => SubSeq(line, k + 1, Len(line)) = <<>>
    BY <1>0
  <2> QED
    BY <1>1, <2>1, PassedFacts DEF HostAt
<1>3. SubSeq(line, 1, k) \in Seq(Tokens) /\ line = SubSeq(line, 1, k) \o parsed.command
  <2>1. SubSeq(line, 1, k) \o SubSeq(line, k + 1, Len(line)) = line
    BY <1>0
  <2> QED
    BY <1>0, <1>2, <2>1
<1>4. ReadsOn(Flags, Unread, line) = ReadsOn(Flags, MeantBy(k), parsed.command)
  <2> DEFINE a == SubSeq(line, 1, k)
             c == parsed.command
             l == line
  <2>1. a \in Seq(Tokens) /\ c \in Seq(Tokens) /\ l = a \o c
    BY <1>2, <1>3
  <2> HIDE DEF a, c, l
  <2>2. ReadsOn(Flags, Unread, a \o c) = ReadsOn(Flags, ReadsOn(Flags, Unread, a), c)
    BY <2>1, ReadsConcat
  <2>3. ReadsOn(Flags, Unread, l) = ReadsOn(Flags, ReadsOn(Flags, Unread, a), c)
    BY <2>1, <2>2
  <2> QED
    BY <2>3 DEF a, c, l, MeantBy
<1> DEFINE m == MeantBy(k - 1)
           t == parsed.target
           r == ReadsOn(Flags, MeantBy(k), parsed.command)
<1>5. /\ m \in Readings /\ Before(m, Passed, parsed.own)
      /\ MeantBy(k) = ReadsToken(Flags, m, t)
      /\ t \in Tokens /\ t.is = "word"
  BY <1>0, <1>1, LineFacts, MeantSteps DEF HostAt
<1>6. Meant = [r EXCEPT !.bad = r.bad \/ r.wants # "none"]
  BY <1>4 DEF Meant, Reads
<1>7. ASSUME m.bad PROVE Meant.bad
  <2>1. MeantBy(k) = m
    BY <1>5, <1>7, BadToken
  <2>2. r = m
    BY <1>2, <1>5, <1>7, <2>1, BadReads
  <2> QED
    BY <1>5, <1>6, <1>7, <2>2 DEF Readings
<1>8. ASSUME ~m.bad
      PROVE  LET q == [m EXCEPT !.target = parsed.target, !.phase = "more"]
                 s == ReadsOn({}, q, parsed.command)
             IN  /\ Settled(q) /\ Settled(s)
                 /\ s.own = parsed.own /\ s.target = parsed.target
                 /\ Meant = [s EXCEPT !.bad = s.bad \/ s.wants # "none"]
  <2> DEFINE q == [m EXCEPT !.target = t, !.phase = "more"]
  <2>1. MeantBy(k) = q
    BY <1>5, <1>8 DEF Before, ReadsToken
  <2>2. Settled(q) /\ q.own = parsed.own /\ q.target = t
    BY <1>5, <1>8 DEF Settled, Before, Readings
  <2> HIDE DEF q
  <2>3. /\ ReadsOn(Flags, q, parsed.command) = ReadsOn({}, q, parsed.command)
        /\ Settled(ReadsOn({}, q, parsed.command))
        /\ ReadsOn({}, q, parsed.command).own = q.own
        /\ ReadsOn({}, q, parsed.command).target = q.target
    BY <1>2, <2>2, SettledReads
  <2>4. r = ReadsOn({}, q, parsed.command)
    BY <2>1, <2>3
  <2> HIDE DEF r
  <2> QED
    BY <1>6, <2>2, <2>3, <2>4, Zenon DEF q
<1> HIDE DEF m
<1> QED
  BY <1>5, <1>7, <1>8

LEMMA MeantFlags ==
  ASSUME Typed, Kept, Plain, Ready, at = Len(line) + 1, ~Meant.bad
  PROVE  Meant.own = parsed.own /\ Meant.target = parsed.target
<1>1. PICK m \in Readings :
           /\ Before(m, Passed, parsed.own)
           /\ parsed.target \in Tokens /\ parsed.target.is = "word"
           /\ m.bad => Meant.bad
           /\ ~m.bad => LET q == [m EXCEPT !.target = parsed.target, !.phase = "more"]
                            r == ReadsOn({}, q, parsed.command)
                        IN  /\ Settled(q) /\ Settled(r)
                            /\ r.own = parsed.own /\ r.target = parsed.target
                            /\ Meant = [r EXCEPT !.bad = r.bad \/ r.wants # "none"]
  BY MeantWhole
<1> DEFINE q == [m EXCEPT !.target = parsed.target, !.phase = "more"]
           r == ReadsOn({}, q, parsed.command)
<1>2. /\ Settled(r) /\ r.own = parsed.own /\ r.target = parsed.target
      /\ Meant = [r EXCEPT !.bad = r.bad \/ r.wants # "none"]
  BY <1>1
<1> HIDE DEF r
<1> QED
  BY <1>2 DEF Settled, Readings

LEMMA AskedRight == ASSUME Typed, Kept, Sent PROVE AskedAsMeant
<1> SUFFICES ASSUME asked # Nothing, Plain, ~Meant.bad PROVE AskedAsMeant
  BY DEF AskedAsMeant
<1>1. /\ Ready /\ app = Built /\ at = Len(line) + 1
      /\ asked.ttl = IF parsed.own["ttl"] # "" THEN parsed.own["ttl"]
                     ELSE app.config["cert_lifetime_seconds"].value
      /\ asked.host = parsed.target.host
      /\ asked.renew = (parsed.own["no_cache"] # "")
      /\ pc = "launched" => parsed.own["dry_run"] = ""
  BY DEF Sent
<1>2. Meant.own = parsed.own /\ Meant.target = parsed.target
  BY <1>1, MeantFlags
<1>3. parsed.own["profile"] \in {app.profile, ""}
  <2>1. app.profile = ProfileName(parsed.own, settings)
    BY <1>1 DEF Built, Name
  <2> QED
    BY <2>1 DEF ProfileName
<1>4. parsed.own["server"] \in {app.config["server_url"].value, ""}
  <2> SUFFICES ASSUME parsed.own["server"] # ""
               PROVE  app.config["server_url"].value = parsed.own["server"]
    OBVIOUS
  <2>1. parsed.own["server"] \in Text /\ parsed.own["server"] # Unset
    <3>1. "server" \in Flags /\ parsed.own \in [Flags -> Text]
      BY ResultsFacts DEF Typed, Flags, ValueFlags
    <3>2. parsed.own["server"] \in Text
      BY <3>1
    <3> QED
      BY <3>2, TextFacts
  <2>2. Overlay(parsed.own["server"], "")["server_url"] = parsed.own["server"]
    BY DEF Overlay, Fields
  <2>3. \A c, l : l["server_url"] # Unset =>
                    Merge(c, l, "flag")["server_url"].value = l["server_url"]
    BY DEF Merge, Fields
  <2>4. \E c : app.config = Merge(c, Overlay(parsed.own["server"], ""), "flag")
    BY <1>1 DEF Built
  <2> QED
    BY <2>1, <2>2, <2>3, <2>4
<1> QED
  BY <1>1, <1>2, <1>3, <1>4 DEF AskedAsMeant, Ready

\* Wherever on a plain line the flags of the two programs stand, a certificate is asked for,
\* and OpenSSH launched, only for the host, the lifetime, the server and the profile that the
\* user means, and never if the line names no host or asks for help (ParseArgs, cmd/ssh.go).
THEOREM AlwaysAskedAsMeant == Spec => []AskedAsMeant
<1>1. Init => Typed /\ Kept /\ Sent
  BY TypedInit, KeptInit, SentInit
<1>2. Typed /\ Kept /\ Sent /\ [Next]_vars => Typed' /\ Kept' /\ Sent'
  BY TypedNext, KeptNext, SentNext
<1>3. Typed /\ Kept /\ Sent => AskedAsMeant
  BY AskedRight
<1> QED
  BY <1>1, <1>2, <1>3, PTL DEF Spec

----------------------------------------------------------------------------
(* What OpenSSH is launched with *)

LEMMA AddsMore ==
  ASSUME NEW r \in Readings, NEW x \in Read, NEW y \in Read, NEW q, NEW p, NEW v, NEW w,
         Adds(q, r, x, v), Adds(p, q, y, w)
  PROVE  Adds(p, r, x \o y, w)
<1> DEFINE T == Text \X Text
           o == r.options
<1>1. o \in Seq(T) /\ x \in Seq(T) /\ y \in Seq(T)
  BY ReadingsFacts DEF Read
<1> HIDE DEF T, o
<1>2. (o \o x) \o y = o \o (x \o y)
  BY <1>1
<1>3. p.options = q.options \o y /\ q.options = o \o x
  BY DEF Adds, o
<1>4. p.options = o \o (x \o y)
  BY <1>2, <1>3
<1> QED
  BY <1>4 DEF Adds, o

LEMMA ReadsOne ==
  ASSUME NEW own, NEW r, NEW t \in Tokens
  PROVE  ReadsOn(own, r, <<t>>) = ReadsToken(own, r, t)
<1>1. <<>> \in Seq(Tokens) /\ <<t>> = Append(<<>>, t)
  OBVIOUS
<1>2. ReadsOn(own, r, Append(<<>>, t)) = ReadsToken(own, ReadsOn(own, r, <<>>), t)
  BY <1>1, ReadsOnGrows
<1>3. ReadsOn(own, r, Append(<<>>, t)) = ReadsToken(own, r, t)
  BY <1>2, ReadsOnNothing
<1> QED
  BY <1>1, <1>3

LEMMA ReadsTwo ==
  ASSUME NEW own, NEW r, NEW t \in Tokens, NEW u \in Tokens
  PROVE  ReadsOn(own, r, <<t, u>>) = ReadsToken(own, ReadsToken(own, r, t), u)
<1>1. <<t>> \in Seq(Tokens) /\ <<t, u>> = Append(<<t>>, u)
  OBVIOUS
<1>2. ReadsOn(own, r, Append(<<t>>, u)) = ReadsToken(own, ReadsOn(own, r, <<t>>), u)
  BY <1>1, ReadsOnGrows
<1>3. ReadsOn(own, r, <<t>>) = ReadsToken(own, r, t)
  BY ReadsOne
<1>4. ReadsOn(own, r, Append(<<t>>, u)) = ReadsToken(own, ReadsToken(own, r, t), u)
  BY <1>2, <1>3
<1> QED
  BY <1>1, <1>4

\* BuildSSHArgs, read part by part.
LEMMA ReadsParts ==
  ASSUME NEW own, NEW r, NEW a \in Seq(Tokens), NEW b \in Seq(Tokens), NEW c \in Seq(Tokens),
         NEW d \in Seq(Tokens), NEW t \in Tokens, NEW e \in Seq(Tokens)
  PROVE  ReadsOn(own, r, a \o b \o c \o d \o <<t>> \o e)
           = LET u == ReadsOn(own, ReadsOn(own, ReadsOn(own, ReadsOn(own, r, a), b), c), d)
             IN  ReadsOn(own, ReadsToken(own, u, t), e)
<1> DEFINE ab == a \o b
           abc == ab \o c
           abcd == abc \o d
           abcdt == abcd \o <<t>>
<1>1. ab \in Seq(Tokens)
  BY ConcatProperties
<1>2. ReadsOn(own, r, ab) = ReadsOn(own, ReadsOn(own, r, a), b)
  BY ReadsConcat
<1> HIDE DEF ab
<1>3. abc \in Seq(Tokens)
  BY <1>1, ConcatProperties
<1>4. ReadsOn(own, r, abc) = ReadsOn(own, ReadsOn(own, r, ab), c)
  BY <1>1, ReadsConcat
<1> HIDE DEF abc
<1>5. abcd \in Seq(Tokens)
  BY <1>3, ConcatProperties
<1>6. ReadsOn(own, r, abcd) = ReadsOn(own, ReadsOn(own, r, abc), d)
  BY <1>3, ReadsConcat
<1> HIDE DEF abcd
<1>7. <<t>> \in Seq(Tokens)
  OBVIOUS
<1>8. abcdt \in Seq(Tokens)
  BY <1>5, <1>7, ConcatProperties
<1>9. ReadsOn(own, r, abcdt) = ReadsToken(own, ReadsOn(own, r, abcd), t)
  <2>1. ReadsOn(own, r, abcdt) = ReadsOn(own, ReadsOn(own, r, abcd), <<t>>)
    <3> DEFINE w == <<t>>
    <3>1. w \in Seq(Tokens)
      BY <1>7
    <3> HIDE DEF w
    <3>2. ReadsOn(own, r, abcd \o w) = ReadsOn(own, ReadsOn(own, r, abcd), w)
      BY <1>5, <3>1, ReadsConcat
    <3> QED
      BY <3>2 DEF w
  <2>2. ReadsOn(own, ReadsOn(own, r, abcd), <<t>>) = ReadsToken(own, ReadsOn(own, r, abcd), t)
    BY ReadsOne
  <2> QED
    BY <2>1, <2>2
<1> HIDE DEF abcdt
<1>10. ReadsOn(own, r, abcdt \o e) = ReadsOn(own, ReadsOn(own, r, abcdt), e)
  BY <1>8, ReadsConcat
<1> QED
  BY <1>2, <1>4, <1>6, <1>9, <1>10 DEF ab, abc, abcd, abcdt

\* Before the host, nothing is wrong and nothing waits for its value.
Open(r) == r \in Readings /\ ~r.bad /\ r.wants = "none" /\ r.phase = "options"

LEMMA OpenAdds ==
  ASSUME NEW r, Open(r), NEW q, NEW x, Adds(q, r, x, "none")
  PROVE  Open(q)
BY DEF Open, Adds

\* A letter and its value, as this program writes them.
LEMMA PairAdds ==
  ASSUME NEW r, Open(r), NEW y \in Text, NEW c \in ValueOpts, NEW x \in Text
  PROVE  /\ <<Dash(y, <<c>>), Word(x)>> \in Seq(Tokens)
         /\ <<<<c, x>>>> \in Read
         /\ Adds(ReadsOn({}, r, <<Dash(y, <<c>>), Word(x)>>), r, <<<<c, x>>>>, "none")
<1> DEFINE t == Dash(y, <<c>>)
           u == Word(x)
<1>1. c \in TakesValue /\ c \in Text /\ c # "none"
  BY LettersAssumption, TextFacts
<1>2. t \in Tokens /\ t.is = "dash" /\ t.letters = <<c>>
  <2>1. <<c>> \in Seq(Text)
    BY <1>1
  <2> QED
    BY <2>1 DEF Dash, Tokens
<1>3. u \in Tokens /\ u.text = x
  BY TextFacts DEF Word, Tokens
<1> HIDE DEF t, u
<1> DEFINE q == ReadsToken({}, r, t)
           p == ReadsToken({}, q, u)
<1>4. q = ReadsGroup(r, <<c>>)
  BY <1>2 DEF Open, ReadsToken
<1>5. Adds(q, r, <<>>, c)
  BY <1>1, <1>4, LetterWants DEF Open
<1> HIDE DEF q
<1>6. q \in Readings /\ ~q.bad /\ q.wants = c
  BY <1>5 DEF Adds, Open
<1>7. p = ReadsValue(q, x)
  BY <1>1, <1>3, <1>6, ValueToken
<1>8. Adds(p, q, <<<<c, x>>>>, "none")
  BY <1>1, <1>6, <1>7, LetterValue
<1> HIDE DEF p
<1>9. <<>> \in Read /\ <<<<c, x>>>> \in Read
  BY <1>1 DEF Read
<1>10. <<>> \o <<<<c, x>>>> = <<<<c, x>>>>
  OBVIOUS
<1>11. Adds(p, r, <<>> \o <<<<c, x>>>>, "none")
  BY <1>5, <1>8, <1>9, AddsMore DEF Open
<1>12. Adds(p, r, <<<<c, x>>>>, "none")
  BY <1>10, <1>11
<1>13. ReadsOn({}, r, <<t, u>>) = p
  BY <1>2, <1>3, ReadsTwo DEF p, q
<1>14. <<t, u>> \in Seq(Tokens)
  BY <1>2, <1>3
<1> QED
  BY <1>9, <1>12, <1>13, <1>14 DEF t, u

\* Two parts that add do so one after the other.
LEMMA PartsAdd ==
  ASSUME NEW r, Open(r), NEW a \in Seq(Tokens), NEW b \in Seq(Tokens),
         NEW x \in Read, NEW y \in Read, NEW q,
         Adds(ReadsOn({}, r, a), r, x, "none"), q = ReadsOn({}, r, a),
         Adds(ReadsOn({}, q, b), q, y, "none")
  PROVE  /\ a \o b \in Seq(Tokens) /\ x \o y \in Read
         /\ Adds(ReadsOn({}, r, a \o b), r, x \o y, "none")
<1>1. a \o b \in Seq(Tokens) /\ x \o y \in Read
  BY ConcatProperties DEF Read
<1>2. ReadsOn({}, r, a \o b) = ReadsOn({}, q, b)
  BY ReadsConcat
<1>3. Adds(ReadsOn({}, q, b), r, x \o y, "none")
  BY AddsMore DEF Open
<1> QED
  BY <1>1, <1>2, <1>3

\* The option x of a letter, if there is one.
One(letter, x) == IF x = "" THEN <<>> ELSE <<<<letter, x>>>>

Key == <<<<"i", "key">>, <<"o", "CertificateFile">>, <<"o", "IdentitiesOnly">>>>

LEMMA ConfiguredAdds ==
  ASSUME Typed, NEW r, Open(r)
  PROVE  LET x == One("o", app.config["default_ssh_options"].value)
         IN  Configured \in Seq(Tokens) /\ x \in Read
             /\ Adds(ReadsOn({}, r, Configured), r, x, "none")
<1> DEFINE x == app.config["default_ssh_options"].value
<1>1. x \in Text /\ "-o" \in Text /\ "o" \in ValueOpts
  BY Configuration, TextAssumption DEF Settings, Fields, ValueOpts
<1>2. CASE x = ""
  <2>1. Configured = <<>> /\ One("o", x) = <<>>
    BY <1>2 DEF Configured, One
  <2>2. <<>> \in Seq(Tokens) /\ <<>> \in Read
    BY DEF Read
  <2>3. ReadsOn({}, r, <<>>) = r
    BY ReadsOnNothing
  <2>4. r.options \o <<>> = r.options
    BY ReadingsFacts DEF Read, Open
  <2>5. Adds(r, r, <<>>, "none")
    BY <2>4 DEF Adds, Open
  <2> QED
    BY <2>1, <2>2, <2>3, <2>5
<1>3. CASE x # ""
  <2>1. Configured = <<Dash("-o", <<"o">>), Word(x)>> /\ One("o", x) = <<<<"o", x>>>>
    BY <1>3 DEF Configured, One, O
  <2> HIDE DEF x
  <2> QED
    BY <1>1, <2>1, PairAdds DEF x
<1> QED
  BY <1>2, <1>3

LEMMA PreferredAdds ==
  ASSUME Typed, NEW r, Open(r)
  PROVE  LET x == app.config["preferred_username"].value
             y == One("l", IF parsed.target.user = "" THEN x ELSE "")
         IN  Preferred \in Seq(Tokens) /\ y \in Read
             /\ Adds(ReadsOn({}, r, Preferred), r, y, "none")
<1> DEFINE x == app.config["preferred_username"].value
           y == One("l", IF parsed.target.user = "" THEN x ELSE "")
<1>1. x \in Text /\ "-l" \in Text /\ "l" \in ValueOpts
  BY Configuration, TextAssumption DEF Settings, Fields, ValueOpts
<1>2. CASE ~(parsed.target.user = "" /\ x # "")
  <2>1. Preferred = <<>> /\ y = <<>>
    BY <1>2 DEF Preferred, One
  <2>2. <<>> \in Seq(Tokens) /\ <<>> \in Read
    BY DEF Read
  <2>3. ReadsOn({}, r, <<>>) = r
    BY ReadsOnNothing
  <2>4. r.options \o <<>> = r.options
    BY ReadingsFacts DEF Read, Open
  <2>5. Adds(r, r, <<>>, "none")
    BY <2>4 DEF Adds, Open
  <2> QED
    BY <2>1, <2>2, <2>3, <2>5
<1>3. CASE parsed.target.user = "" /\ x # ""
  <2>1. Preferred = <<Dash("-l", <<"l">>), Word(x)>> /\ y = <<<<"l", x>>>>
    BY <1>3 DEF Preferred, One, L
  <2> HIDE DEF x, y
  <2>2. /\ Preferred \in Seq(Tokens) /\ y \in Read
        /\ Adds(ReadsOn({}, r, Preferred), r, y, "none")
    BY <1>1, <2>1, PairAdds
  <2> QED
    BY <2>2 DEF x, y
<1> QED
  BY <1>2, <1>3

LEMMA Joined ==
  ASSUME NEW S, NEW e \in S, NEW f \in S, NEW g \in S
  PROVE  /\ <<e>> \in Seq(S) /\ <<e, f>> = Append(<<e>>, f)
         /\ <<e, f>> \in Seq(S) /\ <<e, f, g>> = Append(<<e, f>>, g)
<1>1. <<e>> \in Seq(S) /\ <<e, f>> = Append(<<e>>, f)
  OBVIOUS
<1>2. <<e, f>> \in Seq(S) /\ <<e, f, g>> = Append(<<e, f>>, g)
  OBVIOUS
<1> QED
  BY <1>1, <1>2

LEMMA IdentityAdds ==
  ASSUME NEW r, Open(r)
  PROVE  /\ Identity \in Seq(Tokens) /\ Key \in Read
         /\ Adds(ReadsOn({}, r, Identity), r, Key, "none")
<1> DEFINE a == <<Dash("-i", <<"i">>), Word("key")>>
           b == O("CertificateFile")
           c == O("IdentitiesOnly")
           x == <<<<"i", "key">>>>
           y == <<<<"o", "CertificateFile">>>>
           z == <<<<"o", "IdentitiesOnly">>>>
           q == ReadsOn({}, r, a)
           p == ReadsOn({}, q, b)
<1>1. /\ {"-i", "-o", "key", "CertificateFile", "IdentitiesOnly"} \subseteq Text
      /\ "i" \in ValueOpts /\ "o" \in ValueOpts
  BY TextAssumption DEF ValueOpts
<1>2. a \in Seq(Tokens) /\ x \in Read /\ Adds(q, r, x, "none")
  BY <1>1, PairAdds
<1>3. Open(q)
  BY <1>2, OpenAdds
<1> HIDE DEF q
<1>4. b \in Seq(Tokens) /\ y \in Read /\ Adds(p, q, y, "none")
  BY <1>1, <1>3, PairAdds DEF O
<1>5. Open(p)
  BY <1>3, <1>4, OpenAdds
<1>6. c \in Seq(Tokens) /\ z \in Read /\ Adds(ReadsOn({}, p, c), p, z, "none")
  BY <1>1, <1>5, PairAdds DEF O
<1>7. Identity = (a \o b) \o c
  BY DEF Identity
<1>8. (x \o y) \o z = Key
  <2> DEFINE e == <<"i", "key">>
             f == <<"o", "CertificateFile">>
             g == <<"o", "IdentitiesOnly">>
             S == {e, f, g}
  <2>1. Key = <<e, f, g>>
    BY DEF Key
  <2>2. e \in S /\ f \in S /\ g \in S
    OBVIOUS
  <2> HIDE DEF e, f, g, S
  <2>3. <<e>> \o <<f>> = <<e, f>>
    <3>1. <<e>> \in Seq(S) /\ <<e, f>> = Append(<<e>>, f)
      BY <2>2, Joined
    <3> QED
      BY <2>2, <3>1, AppendIsConcat
  <2>4. <<e, f>> \o <<g>> = <<e, f, g>>
    <3>1. <<e, f>> \in Seq(S) /\ <<e, f, g>> = Append(<<e, f>>, g)
      BY <2>2, Joined
    <3> QED
      BY <2>2, <3>1, AppendIsConcat
  <2> QED
    BY <2>1, <2>3, <2>4 DEF e, f, g
<1> HIDE DEF a, b, c, x, y, z
<1>9. a \o b \in Seq(Tokens) /\ x \o y \in Read /\ Adds(ReadsOn({}, r, a \o b), r, x \o y, "none")
  BY <1>2, <1>4, PartsAdd DEF q
<1>10. ReadsOn({}, r, a \o b) = p
  BY <1>2, <1>4, ReadsConcat DEF q
<1>11. /\ (a \o b) \o c \in Seq(Tokens) /\ (x \o y) \o z \in Read
       /\ Adds(ReadsOn({}, r, (a \o b) \o c), r, (x \o y) \o z, "none")
  BY <1>6, <1>9, <1>10, PartsAdd
<1> QED
  BY <1>7, <1>8, <1>11

\* Up to the host: what was read of the options kept, with this program's own around them.
LEMMA BeforeHost ==
  ASSUME Typed, NEW m \in Readings, Before(m, Passed, parsed.own)
  PROVE  LET u == ReadsOn({}, ReadsOn({}, ReadsOn({}, ReadsOn({}, Unread, Configured),
                                                 parsed.options), Identity), Preferred)
             first == One("o", app.config["default_ssh_options"].value)
             later == Key \o One("l", IF parsed.target.user = ""
                                        THEN app.config["preferred_username"].value ELSE "")
         IN  /\ Configured \in Seq(Tokens) /\ Identity \in Seq(Tokens)
             /\ Preferred \in Seq(Tokens) /\ first \in Read /\ later \in Read
             /\ u \in Readings /\ u.bad = m.bad
             /\ ~m.bad => /\ Open(u) /\ u.target = Nothing /\ u.command = <<>>
                          /\ u.options = (first \o m.options) \o later
<1> DEFINE first == One("o", app.config["default_ssh_options"].value)
           pref == One("l", IF parsed.target.user = ""
                              THEN app.config["preferred_username"].value ELSE "")
           u1 == ReadsOn({}, Unread, Configured)
           u2 == ReadsOn({}, u1, parsed.options)
           u3 == ReadsOn({}, u2, Identity)
           u4 == ReadsOn({}, u3, Preferred)
<1>1. Open(Unread) /\ Passed \in Readings /\ parsed.options \in Seq(Tokens) /\ Key \in Read
  <2>1. Open(Unread)
    BY UnreadTyped DEF Open, Unread
  <2> QED
    BY <2>1, PassedFacts, IdentityAdds
<1>2. Configured \in Seq(Tokens) /\ first \in Read /\ Adds(u1, Unread, first, "none")
  BY <1>1, ConfiguredAdds
<1>3. Identity \in Seq(Tokens) /\ Preferred \in Seq(Tokens) /\ pref \in Read
  BY <1>1, IdentityAdds, PreferredAdds
<1>4. Key \o pref \in Read
  BY <1>1, <1>3, ConcatProperties DEF Read
<1> HIDE DEF first, pref, u1
<1>5. Like(<<>>, first, Unread, u1)
  <2>1. Unread.options = <<>> \o <<>> /\ <<>> \in Read
    BY DEF Unread, Read
  <2>2. u1.options = <<>> \o first
    BY <1>2 DEF Adds, Unread
  <2>3. <<>> \o first = first \o <<>>
    BY <1>2, ConcatEmptySeq DEF Read
  <2>4. \E x \in Read : Unread.options = <<>> \o x /\ u1.options = first \o x
    BY <2>1, <2>2, <2>3
  <2>5. /\ u1 \in Readings /\ Unread \in Readings
        /\ u1.target = Unread.target /\ u1.command = Unread.command
        /\ u1.wants = "none" /\ u1.phase = Unread.phase /\ u1.bad = Unread.bad
    BY <1>2, UnreadTyped DEF Adds
  <2>6. Unread.wants = "none"
    BY DEF Unread
  <2> QED
    BY <2>4, <2>5, <2>6 DEF Like
<1>6. Like(<<>>, first, Passed, u2)
  <2>1. <<>> \in Read
    BY DEF Read
  <2> QED
    BY <1>1, <1>2, <1>5, <2>1, LikeReads DEF Passed
<1> HIDE DEF u2
<1>7. u2 \in Readings /\ u2.bad = m.bad
  BY <1>6 DEF Like, Before
<1>8. CASE m.bad
  <2>1. u3 = u2
    BY <1>3, <1>7, <1>8, BadReads
  <2>2. u4 = u2
    BY <1>3, <1>7, <1>8, <2>1, BadReads
  <2>3. u4 \in Readings /\ u4.bad = m.bad
    BY <1>7, <2>2
  <2> QED
    BY <1>2, <1>3, <1>4, <1>8, <2>3 DEF first, pref, u2, u1
<1>9. CASE ~m.bad
  <2>1. u2.options = first \o m.options /\ m.options \in Read
    <3>1. PICK x \in Read : Passed.options = <<>> \o x /\ u2.options = first \o x
      BY <1>6 DEF Like
    <3>2. <<>> \o x = x
      BY ConcatEmptySeq DEF Read
    <3>3. m.options = Passed.options
      BY <1>9 DEF Before
    <3> QED
      BY <3>1, <3>2, <3>3
  <2>2. Open(u2) /\ u2.target = Nothing /\ u2.command = <<>>
    BY <1>6, <1>7, <1>9 DEF Like, Before, Open
  <2>3. Adds(u3, u2, Key, "none")
    BY <2>2, IdentityAdds
  <2>4. Open(u3)
    BY <2>2, <2>3, OpenAdds
  <2> HIDE DEF u3
  <2>5. Adds(u4, u3, pref, "none")
    BY <2>4, PreferredAdds DEF pref
  <2>6. Open(u4)
    BY <2>4, <2>5, OpenAdds
  <2> HIDE DEF u4
  <2>7. Adds(u4, u2, Key \o pref, "none")
    BY <1>1, <1>3, <1>7, <2>3, <2>5, AddsMore
  <2>8. /\ u4 \in Readings /\ u4.bad = m.bad /\ Open(u4) /\ u4.target = Nothing
        /\ u4.command = <<>> /\ u4.options = (first \o m.options) \o (Key \o pref)
    BY <1>7, <2>1, <2>2, <2>6, <2>7 DEF Adds
  <2> QED
    BY <1>2, <1>3, <1>4, <2>8 DEF first, pref, u4, u3, u2, u1
<1> QED
  BY <1>8, <1>9

\* In two pieces, the options the user means.
LEMMA Pieces ==
  ASSUME NEW x \in Read, NEW y \in Read
  PROVE  LET o == x \o y
         IN  /\ Len(x) \in 0 .. Len(o)
             /\ SubSeq(o, 1, Len(x)) = x /\ SubSeq(o, Len(x) + 1, Len(o)) = y
<1> DEFINE T == Text \X Text
<1>1. x \in Seq(T) /\ y \in Seq(T)
  BY DEF Read
<1> HIDE DEF T
<1>2. Len(x) \in Nat /\ Len(x \o y) \in Nat /\ Len(x) <= Len(x \o y)
  BY <1>1
<1>3. SubSeq(x \o y, 1, Len(x)) = x
  BY <1>1
<1>4. SubSeq(x \o y, Len(x) + 1, Len(x \o y)) = y
  BY <1>1
<1> QED
  BY <1>2, <1>3, <1>4

\* Past the host, OpenSSH reads what the user means.
LEMMA PastHost ==
  ASSUME Typed, NEW m \in Readings, Before(m, Passed, parsed.own), ~m.bad,
         NEW u \in Readings, Open(u), u.target = Nothing, u.command = <<>>,
         NEW t \in Tokens, t.is = "word", NEW l \in Seq(Tokens)
  PROVE  LET q == [m EXCEPT !.target = t, !.phase = "more"]
         IN  Like(m.options, u.options, ReadsOn({}, q, l),
                  ReadsOn({}, ReadsToken({}, u, t), l))
<1> DEFINE q == [m EXCEPT !.target = t, !.phase = "more"]
           v == ReadsToken({}, u, t)
<1>1. v = [u EXCEPT !.target = t, !.phase = "more"]
  BY DEF Open, ReadsToken
<1>2. /\ q \in Readings /\ q.target = t /\ q.command = <<>> /\ q.wants = "none"
      /\ q.phase = "more" /\ ~q.bad /\ q.options = m.options
  BY DEF Before, Readings
<1>3. /\ v \in Readings /\ v.target = t /\ v.command = <<>> /\ v.wants = "none"
      /\ v.phase = "more" /\ ~v.bad /\ v.options = u.options
  BY <1>1 DEF Open, Readings
<1> HIDE DEF q, v
<1>4. m.options \in Read /\ u.options \in Read
  BY ReadingsFacts
<1>5. m.options = m.options \o <<>> /\ u.options = u.options \o <<>> /\ <<>> \in Read
  BY <1>4, ConcatEmptySeq DEF Read
<1>6. \E x \in Read : q.options = m.options \o x /\ v.options = u.options \o x
  BY <1>2, <1>3, <1>5
<1>7. q.bad = v.bad
  BY <1>2, <1>3, ReadingsFacts
<1>8. Like(m.options, u.options, q, v)
  BY <1>2, <1>3, <1>6, <1>7 DEF Like
<1> QED
  BY <1>4, <1>8, LikeReads DEF q, v

LEMMA LaunchRight == ASSUME Typed, Kept, Sent PROVE PlainPassedThrough
<1> SUFFICES ASSUME launch # <<>>, Plain PROVE SameReading
  BY DEF PlainPassedThrough
<1>1. Ready /\ at = Len(line) + 1 /\ launch = BuildSSHArgs
  BY DEF Sent
<1>2. PICK m \in Readings :
           /\ Before(m, Passed, parsed.own)
           /\ parsed.target \in Tokens /\ parsed.target.is = "word"
           /\ m.bad => Meant.bad
           /\ ~m.bad => LET q == [m EXCEPT !.target = parsed.target, !.phase = "more"]
                            r == ReadsOn({}, q, parsed.command)
                        IN  /\ Settled(q) /\ Settled(r)
                            /\ r.own = parsed.own /\ r.target = parsed.target
                            /\ Meant = [r EXCEPT !.bad = r.bad \/ r.wants # "none"]
  BY <1>1, MeantWhole
<1>3. parsed.options \in Seq(Tokens) /\ parsed.command \in Seq(Tokens)
  BY PassedFacts
<1> DEFINE u == ReadsOn({}, ReadsOn({}, ReadsOn({}, ReadsOn({}, Unread, Configured),
                                               parsed.options), Identity), Preferred)
           s == ReadsOn({}, ReadsToken({}, u, parsed.target), parsed.command)
           first == One("o", app.config["default_ssh_options"].value)
           later == Key \o One("l", IF parsed.target.user = ""
                                      THEN app.config["preferred_username"].value ELSE "")
           ssh == Reads({}, launch)
<1>4. /\ Configured \in Seq(Tokens) /\ Identity \in Seq(Tokens)
      /\ Preferred \in Seq(Tokens) /\ first \in Read /\ later \in Read
      /\ u \in Readings /\ u.bad = m.bad
      /\ ~m.bad => /\ Open(u) /\ u.target = Nothing /\ u.command = <<>>
                   /\ u.options = (first \o m.options) \o later
  BY <1>2, BeforeHost
<1>5. ReadsOn({}, Unread, launch) = s
  <2>1. parsed.target \in Tokens
    BY <1>2
  <2> DEFINE a == Configured
             b == parsed.options
             c == Identity
             d == Preferred
             t == parsed.target
             e == parsed.command
  <2>2. BuildSSHArgs = a \o b \o c \o d \o <<t>> \o e
    BY DEF BuildSSHArgs
  <2>3. /\ a \in Seq(Tokens) /\ b \in Seq(Tokens) /\ c \in Seq(Tokens) /\ d \in Seq(Tokens)
        /\ t \in Tokens /\ e \in Seq(Tokens)
    BY <1>3, <1>4, <2>1
  <2>4. s = ReadsOn({}, ReadsToken({}, ReadsOn({}, ReadsOn({}, ReadsOn({}, ReadsOn({}, Unread, a),
                                       b), c), d), t), e)
    OBVIOUS
  <2> HIDE DEF a, b, c, d, t, e, s
  <2>5. ReadsOn({}, Unread, a \o b \o c \o d \o <<t>> \o e) = s
    BY <2>3, <2>4, ReadsParts
  <2> QED
    BY <1>1, <2>2, <2>5
<1>6. ssh = [s EXCEPT !.bad = s.bad \/ s.wants # "none"]
  BY <1>5 DEF Reads
<1> HIDE DEF u
<1>7. CASE m.bad
  <2>1. ReadsToken({}, u, parsed.target) = u
    <3>1. parsed.target \in Tokens /\ u \in Readings /\ u.bad
      BY <1>2, <1>4, <1>7
    <3> QED
      BY <3>1, BadToken
  <2>2. s = u
    BY <1>3, <1>4, <1>7, <2>1, BadReads
  <2>3. ssh.bad = TRUE
    BY <1>4, <1>6, <1>7, <2>2 DEF Readings
  <2> HIDE DEF ssh
  <2>4. Meant.bad
    BY <1>2, <1>7
  <2>5. Meant.bad = TRUE
    BY <1>7, <2>4
  <2> QED
    BY <2>3, <2>5 DEF SameReading, ssh
<1>8. CASE ~m.bad
  <2> DEFINE t == parsed.target
             q == [m EXCEPT !.target = t, !.phase = "more"]
             r == ReadsOn({}, q, parsed.command)
  <2>1. /\ Settled(r) /\ r.target = t
        /\ Meant = [r EXCEPT !.bad = r.bad \/ r.wants # "none"]
    BY <1>2, <1>8
  <2>2. /\ Open(u) /\ u.target = Nothing /\ u.command = <<>>
        /\ u.options = (first \o m.options) \o later
    BY <1>4, <1>8
  <2>3. t \in Tokens /\ t.is = "word" /\ Before(m, Passed, parsed.own)
    BY <1>2
  <2> HIDE DEF first, later
  <2>4. Like(m.options, u.options, r, s)
    BY <1>3, <1>4, <1>8, <2>2, <2>3, PastHost
  <2> HIDE DEF q, r, s, ssh
  <2>5. PICK x \in Read : r.options = m.options \o x /\ s.options = u.options \o x
    BY <2>4 DEF Like
  <2>6. /\ r \in Readings /\ s \in Readings /\ r.bad = s.bad /\ r.wants = s.wants
        /\ r.target = s.target /\ r.command = s.command
    BY <2>4 DEF Like
  <2>7. /\ Meant.bad = (r.bad \/ r.wants # "none") /\ Meant.target = t
        /\ Meant.command = r.command /\ Meant.options = m.options \o x
    BY <2>1, <2>5, <2>6 DEF Readings
  <2>8. /\ ssh.bad = (s.bad \/ s.wants # "none") /\ ssh.target = s.target
        /\ ssh.command = s.command /\ ssh.options = s.options
    BY <1>6, <2>6 DEF Readings
  <2>9. ssh.bad = Meant.bad /\ ssh.target = Meant.target /\ ssh.command = Meant.command
    BY <2>1, <2>6, <2>7, <2>8
  <2> DEFINE k == Len(m.options)
             o == Meant.options
  <2>10. /\ k \in 0 .. Len(o) /\ SubSeq(o, 1, k) = m.options
         /\ SubSeq(o, k + 1, Len(o)) = x
    <3>1. m.options \in Read
      BY ReadingsFacts
    <3>2. LET p == m.options \o x
          IN  /\ k \in 0 .. Len(p) /\ SubSeq(p, 1, k) = m.options
              /\ SubSeq(p, k + 1, Len(p)) = x
      BY <3>1, Pieces
    <3> HIDE DEF k
    <3> QED
      BY <2>7, <3>2
  <2>11. ssh.options = first \o m.options \o later \o x
    BY <2>2, <2>5, <2>8
  <2> HIDE DEF k, o
  <2>12. ssh.options = first \o SubSeq(o, 1, k) \o later \o SubSeq(o, k + 1, Len(o))
    BY <2>10, <2>11
  <2>13. \E j \in 0 .. Len(o) :
           ssh.options = first \o SubSeq(o, 1, j) \o later \o SubSeq(o, j + 1, Len(o))
    BY <2>10, <2>12
  <2>14. t = Meant.target
    BY <2>7
  <2> QED
    BY <2>9, <2>13, <2>14, Zenon DEF SameReading, ssh, o, t, first, later, One, Key
<1> QED
  BY <1>7, <1>8

\* However the flags of the two programs stand on a plain line, and whatever the layers of the
\* configuration add, OpenSSH reads from its arguments the host, the options and the remote
\* command that the user means, or refuses what the user means to be wrong (ParseArgs,
\* buildSSHArgs).
THEOREM PlainAlwaysPassedThrough == Spec => []PlainPassedThrough
<1>1. Init => Typed /\ Kept /\ Sent
  BY TypedInit, KeptInit, SentInit
<1>2. Typed /\ Kept /\ Sent /\ [Next]_vars => Typed' /\ Kept' /\ Sent'
  BY TypedNext, KeptNext, SentNext
<1>3. Typed /\ Kept /\ Sent => PlainPassedThrough
  BY LaunchRight
<1> QED
  BY <1>1, <1>2, <1>3, PTL DEF Spec
=============================================================================
