----------------------------- MODULE SshCommand -----------------------------
(***************************************************************************)
(* `mayfly ssh` from its command line to the launch of OpenSSH: the split  *)
(* of the line between the two programs (internal/ssh/args.go), the layers *)
(* of the configuration (internal/config, internal/profile, cmd/root.go),  *)
(* the certificate asked for and the arguments OpenSSH is launched with    *)
(* (cmd/ssh.go).                                                           *)
(*                                                                         *)
(* A line is a sequence of tokens.  A token keeps its text, for when it is *)
(* taken as a value, and what its spelling amounts to: a word; a long flag *)
(* with the value after its "=", if it has one; a group of single letters, *)
(* the last of them perhaps a value that is attached; or "--".             *)
(*                                                                         *)
(* Reads is how OpenSSH's getopt, outside this repository, reads a line.   *)
(***************************************************************************)
EXTENDS Integers, Sequences, SequencesExt, FiniteSetsExt

CONSTANTS Text,      \* words, letters, names and values
          Inputs,    \* command lines with the settings they meet
          Numbers,   \* texts that are integers
          TakesValue \* letters OpenSSH takes a value after

VARIABLES input,   \* the command line, and the settings
          pc,
          at,      \* the token ParseArgs comes to next
          parsed,  \* what it has made of the ones before
          app,     \* what App is built from: profile and configuration
          asked,   \* the certificate asked for
          launch   \* arguments of OpenSSH

vars == <<input, pc, at, parsed, app, asked, launch>>

line == input.line
settings == input.settings

\* A layer without the setting.
Unset == "unset"

Tokens == [is : {"word"}, text : Text, user : Text, host : Text]
            \cup [is : {"dash"}, text : Text, letters : Seq(Text)]
            \cup [is : {"long"}, text : Text, flag : Text, value : Text \cup {"none"}]
            \cup [is : {"end"}, text : Text]
----------------------------------------------------------------------------
(* The command line *)

Word(x) == [is |-> "word", text |-> x, user |-> "", host |-> x]
Dash(x, letters) == [is |-> "dash", text |-> x, letters |-> letters]
Nothing == [is |-> "nothing"]

Switches == {"dev", "dry_run", "no_cache", "help"}
ValueFlags == {"profile", "server", "ttl"}
Flags == Switches \cup ValueFlags

\* valueOpts: the letters this program knows to take a value.
ValueOpts == {"B", "b", "c", "D", "E", "e", "F", "I", "i", "J", "L", "l", "m", "O", "o",
              "p", "Q", "R", "S", "W", "w"}

\* Parsed.
Fresh == [own |-> [f \in Flags |-> ""], options |-> <<>>, target |-> Nothing,
          command |-> <<>>, error |-> FALSE]

\* The token before the target that it is the turn of.
Token == line[at]
Reading == pc = "parse" /\ at <= Len(line) /\ parsed.target = Nothing

Parses(p, next) == parsed' = p /\ at' = next /\ UNCHANGED <<input, pc, app, asked, launch>>

\* Mutant of Malformed: what was read so far is kept, and the token and its value passed over.
MalformedSkips == Parses([parsed EXCEPT !.error = TRUE], at + 2)

\* An error takes the place of the result.
Malformed == Parses([Fresh EXCEPT !.error = TRUE], Len(line) + 1)

Switch == /\ Reading
          /\ Token.is = "long" /\ Token.flag \in Switches
          /\ Parses([parsed EXCEPT !.own[Token.flag] = "yes"], at + 1)

\* --ttl must be an integer.
Sets(value, next) ==
  \/ Token.flag = "ttl" /\ value \notin Numbers /\ Malformed
  \/ /\ Token.flag = "ttl" => value \in Numbers
     /\ Parses([parsed EXCEPT !.own[Token.flag] = value], next)

\* The value follows "=" or is the next token, whatever that looks like.
ValueFlag ==
  /\ Reading
  /\ Token.is = "long" /\ Token.flag \in ValueFlags
  /\ \/ Token.value # "none" /\ Sets(Token.value, at + 1)
     \/ Token.value = "none" /\ at < Len(line) /\ Sets(line[at + 1].text, at + 2)
     \/ Token.value = "none" /\ at = Len(line) /\ Malformed

\* Mutant of Takes: -l stands alone.
TakesButNotL(t) == t.is = "dash" /\ Len(t.letters) = 1 /\ t.letters[1] \in ValueOpts \ {"l"}

\* Is the next token the value of this one?
Takes(t) == t.is = "dash" /\ Len(t.letters) = 1 /\ t.letters[1] \in ValueOpts

\* Everything else that begins with a dash is for OpenSSH.
Option ==
  /\ Reading
  /\ Token.is \in {"dash", "end"} \/ (Token.is = "long" /\ Token.flag \notin Flags)
  /\ \/ ~Takes(Token) /\ Parses([parsed EXCEPT !.options = Append(@, Token)], at + 1)
     \/ /\ Takes(Token) /\ at < Len(line)
        /\ Parses([parsed EXCEPT !.options = @ \o <<Token, line[at + 1]>>], at + 2)
     \/ Takes(Token) /\ at = Len(line) /\ Malformed

\* The first word is the target.
Target == /\ Reading
          /\ Token.is = "word"
          /\ Parses([parsed EXCEPT !.target = Token], at + 1)

\* What comes after the target is the remote command, untouched.
Command == /\ pc = "parse" /\ at <= Len(line) /\ parsed.target # Nothing
           /\ Parses([parsed EXCEPT !.command = SubSeq(line, at, Len(line))], Len(line) + 1)

ParseArgs == Switch \/ ValueFlag \/ Option \/ Target \/ Command

----------------------------------------------------------------------------
(* The configuration *)

Fields == {"server_url", "provider", "cert_lifetime_seconds", "default_ssh_options",
           "preferred_username"}

Defaults == [f \in Fields |->
               [value |-> CASE f = "provider" -> "github"
                            [] f = "cert_lifetime_seconds" -> "0"
                            [] OTHER -> "",
                from |-> "default"]]

Merge(c, layer, source) ==
  [f \in Fields |-> IF layer[f] = Unset THEN c[f] ELSE [value |-> layer[f], from |-> source]]

\* An empty variable is not set, and one that should be a number and is not is ignored.
Environment(env) ==
  [f \in Fields |-> IF env[f] = "" \/ (f = "cert_lifetime_seconds" /\ env[f] \notin Numbers)
                      THEN Unset ELSE env[f]]

\* Mutant of Load: the environment is read before the user's file.
LoadEnvironmentEarly(s) ==
  Merge(Merge(Merge(Defaults, s.system, "system-config"),
              Environment(s.env), "environment"), s.user, "user-config")

Load(s) == Merge(Merge(Merge(Defaults, s.system, "system-config"),
                       s.user, "user-config"), Environment(s.env), "environment")

\* --profile, MAYFLY_PROFILE, or else the default profile.
ProfileName(own, s) == CASE own["profile"] # "" -> own["profile"]
                         [] own["profile"] = "" /\ s.profile # "" -> s.profile
                         [] OTHER -> s.default

\* What a profile and the flags of ssh can set.
Overlay(server, provider) ==
  [f \in Fields |-> CASE f = "server_url" /\ server # "" -> server
                      [] f = "provider" /\ provider # "" -> provider
                      [] OTHER -> Unset]

\* Resolve: the profile may be unknown, and its fields empty.
Resolve(name, s) == IF name \in DOMAIN s.profiles
                      THEN Overlay(s.profiles[name].server, s.profiles[name].provider)
                      ELSE Overlay("", "")

\* What this program writes itself are texts; the two marks of a value that is not there are
\* none.
ASSUME TextAssumption ==
  /\ {"", "yes", "github", "0", "-o", "-i", "-l", "key", "CertificateFile", "IdentitiesOnly"}
       \subseteq Text
  /\ "none" \notin Text /\ Unset \notin Text

\* A line of the shell, without empty words; the layers and the stores it meets.
ASSUME InputsAssumption ==
  \A i \in Inputs :
    /\ i.line \in Seq(Tokens)
    /\ \A k \in DOMAIN i.line : i.line[k].text # ""
    /\ i.settings.system \in [Fields -> Text \cup {Unset}]
    /\ i.settings.user \in [Fields -> Text \cup {Unset}]
    /\ i.settings.env \in [Fields -> Text]
    /\ \A p \in DOMAIN i.settings.profiles :
         i.settings.profiles[p] \in [server : Text, provider : Text]

\* OpenSSH takes a value after every letter this program knows to take one, and a letter is
\* no name of a flag.  Numbers are texts that can be read.
ASSUME LettersAssumption ==
  /\ ValueOpts \subseteq TakesValue /\ TakesValue \subseteq Text /\ TakesValue \cap Flags = {}
  /\ Numbers \subseteq Text /\ "" \notin Numbers

----------------------------------------------------------------------------
(* The command *)

Init == /\ input \in Inputs
        /\ pc = "parse" /\ at = 1 /\ parsed = Fresh
        /\ app = [profile |-> "", config |-> Defaults]
        /\ asked = Nothing
        /\ launch = <<>>

Fails == pc' = "failed" /\ UNCHANGED <<input, at, parsed, app, asked, launch>>

\* preparseSSHGlobals and buildApp: a line that is malformed counts for nothing here.  Of the
\* flags that override the configuration, ssh knows --server alone.
BuildApp ==
  /\ pc = "parse" /\ at > Len(line)
  /\ LET name == ProfileName(parsed.own, settings)
     IN  app' = [profile |-> name,
                 config |-> Merge(Merge(Load(settings), Resolve(name, settings), "profile"),
                                  Overlay(parsed.own["server"], ""), "flag")]
  /\ pc' = "run"
  /\ UNCHANGED <<input, at, parsed, asked, launch>>

\* A configuration file, the profiles, the credential store or the accounts cannot be read.
BuildAppFails == pc = "parse" /\ at > Len(line) /\ Fails

\* Mutant of Run: a line without a target, or that asks for help, is not told apart.
RunAnyway ==
  /\ pc = "run"
  /\ pc' = IF parsed.error \/ parsed.target = Nothing THEN "failed" ELSE "account"
  /\ UNCHANGED <<input, at, parsed, app, asked, launch>>

\* The line is parsed once more, to the same effect; now errors count.
Run ==
  /\ pc = "run"
  /\ \/ parsed.error /\ pc' = "failed"
     \/ ~parsed.error /\ parsed.own["help"] # "" /\ pc' = "helped"
     \/ ~parsed.error /\ parsed.own["help"] = "" /\ parsed.target = Nothing /\ pc' = "failed"
     \/ ~parsed.error /\ parsed.own["help"] = "" /\ parsed.target # Nothing /\ pc' = "account"
  /\ UNCHANGED <<input, at, parsed, app, asked, launch>>

\* The account of the profile, or a sign-in if there is a terminal.
EnsureAccount ==
  /\ pc = "account"
  /\ app.profile \in settings.signed_in \/ settings.interactive
  /\ pc' = "certificate"
  /\ UNCHANGED <<input, at, parsed, app, asked, launch>>

\* There is none of the two, the sign-in fails or the account's provider is not known.
EnsureAccountFails == pc = "account" /\ Fails

\* apiClient: there is no server, or its address is malformed.
NoServer == pc = "certificate" /\ Fails

\* What the lifecycle manager is asked for; it may fail.
Ensure ==
  /\ pc = "certificate"
  /\ app.config["server_url"].value # ""
  /\ asked' = [is |-> "certificate",
               ttl |-> IF parsed.own["ttl"] # "" THEN parsed.own["ttl"]
                       ELSE app.config["cert_lifetime_seconds"].value,
               host |-> parsed.target.host,
               renew |-> parsed.own["no_cache"] # ""]
  /\ pc' \in {"launch", "failed"}
  /\ UNCHANGED <<input, at, parsed, app, launch>>

O(x) == <<Dash("-o", <<"o">>), Word(x)>>
L(x) == <<Dash("-l", <<"l">>), Word(x)>>
Identity == <<Dash("-i", <<"i">>), Word("key")>> \o O("CertificateFile") \o O("IdentitiesOnly")

\* default_ssh_options: none or one.
Configured == LET x == app.config["default_ssh_options"].value
              IN  IF x = "" THEN <<>> ELSE O(x)

Preferred == LET x == app.config["preferred_username"].value
             IN  IF parsed.target.user = "" /\ x # "" THEN L(x) ELSE <<>>

BuildSSHArgs == Configured \o parsed.options \o Identity \o Preferred
                  \o <<parsed.target>> \o parsed.command

\* OpenSSH is launched, or what it would be launched with is printed (--dry-run).
Launch ==
  /\ pc = "launch"
  /\ launch' = BuildSSHArgs
  /\ pc' = IF parsed.own["dry_run"] # "" THEN "printed" ELSE "launched"
  /\ UNCHANGED <<input, at, parsed, app, asked>>

\* There is no OpenSSH on this machine.
NoBinary == pc = "launch" /\ Fails

Next == \/ ParseArgs \/ BuildApp \/ BuildAppFails \/ Run
        \/ EnsureAccount \/ EnsureAccountFails \/ NoServer \/ Ensure
        \/ Launch \/ NoBinary

Spec == Init /\ [][Next]_vars
----------------------------------------------------------------------------
(* OpenSSH's reading of a line, with some long flags `own` beside its letters: options     *)
(* before the destination and after it, up to a word or "--", and then the command.        *)

Unread == [own |-> [f \in Flags |-> ""], options |-> <<>>, target |-> Nothing,
           command |-> <<>>, wants |-> "none", phase |-> "options", bad |-> FALSE]

\* The letters of a group up to the first that takes a value, attached or to come.
ReadsGroup(r, letters) ==
  LET taking == {k \in DOMAIN letters : letters[k] \in TakesValue}
      first == IF taking = {} THEN Len(letters) + 1 ELSE Min(taking)
      alone == [k \in 1 .. first - 1 |-> <<letters[k], "">>]
  IN  IF first >= Len(letters)
        THEN [r EXCEPT !.options = @ \o alone,
                       !.wants = IF taking = {} THEN "none" ELSE letters[first]]
        ELSE [r EXCEPT !.options = @ \o Append(alone, <<letters[first], letters[first + 1]>>)]

ReadsValue(r, x) ==
  IF r.wants \in Flags
    THEN [r EXCEPT !.own[r.wants] = x, !.wants = "none"]
    ELSE [r EXCEPT !.options = Append(@, <<r.wants, x>>), !.wants = "none"]

ReadsFlag(r, t) ==
  IF t.flag \in Switches \/ t.value # "none"
    THEN [r EXCEPT !.own[t.flag] = IF t.flag \in Switches THEN "yes" ELSE t.value]
    ELSE [r EXCEPT !.wants = t.flag]

ReadsToken(own, r, t) ==
  CASE r.bad -> r
    [] ~r.bad /\ r.wants # "none" -> ReadsValue(r, t.text)
    [] ~r.bad /\ r.wants = "none" /\ r.phase = "command" -> [r EXCEPT !.command = Append(@, t)]
    [] ~r.bad /\ r.wants = "none" /\ r.phase = "ended" ->
         [r EXCEPT !.target = t, !.phase = "command"]
    [] OTHER ->
         CASE t.is = "word" /\ r.phase = "options" -> [r EXCEPT !.target = t, !.phase = "more"]
           [] t.is = "word" /\ r.phase = "more" -> [r EXCEPT !.command = <<t>>, !.phase = "command"]
           [] t.is = "end" -> [r EXCEPT !.phase = IF @ = "more" THEN "command" ELSE "ended"]
           [] t.is = "dash" -> ReadsGroup(r, t.letters)
           [] OTHER -> IF r.phase = "options" /\ t.flag \in own
                         THEN ReadsFlag(r, t) ELSE [r EXCEPT !.bad = TRUE]

\* What is made of l by who has come to r.
ReadsOn(own, r, l) ==
  LET after[k \in 0 .. Len(l)] == IF k = 0 THEN r ELSE ReadsToken(own, after[k - 1], l[k])
  IN  after[Len(l)]

Reads(own, l) == LET r == ReadsOn(own, Unread, l)
                 IN  [r EXCEPT !.bad = @ \/ r.wants # "none"]

\* What the user means: this program's flags and OpenSSH's letters.
Meant == Reads(Flags, line)
----------------------------------------------------------------------------
(* Properties *)

TypeOK ==
  /\ input \in Inputs
  /\ pc \in {"parse", "run", "account", "certificate", "launch", "launched", "printed",
             "helped", "failed"}
  /\ at \in 1 .. Len(line) + 1
  /\ DOMAIN parsed = DOMAIN Fresh /\ parsed.error \in BOOLEAN /\ DOMAIN parsed.own = Flags
  /\ parsed.options \in Seq(Range(line)) /\ parsed.command \in Seq(Range(line))
  /\ parsed.target \in Range(line) \cup {Nothing}
  /\ DOMAIN app.config = Fields
  /\ \A f \in Fields : app.config[f].from \in
       {"default", "system-config", "user-config", "environment", "profile", "flag"}

\* What OpenSSH makes of its arguments is what it would make of the line without this
\* program's flags: the same options in the same order, host and command.  What is added is
\* the configured option before them, and after those that precede the host the key, the
\* certificate and the preferred user.
SameReading ==
  LET ssh == Reads({}, launch)
      one(letter, x) == IF x = "" THEN <<>> ELSE <<<<letter, x>>>>
      user == app.config["preferred_username"].value
      first == one("o", app.config["default_ssh_options"].value)
      later == <<<<"i", "key">>, <<"o", "CertificateFile">>, <<"o", "IdentitiesOnly">>>>
                 \o one("l", IF Meant.target.user = "" THEN user ELSE "")
  IN  /\ ssh.bad = Meant.bad
      /\ ~ssh.bad =>
           /\ ssh.target = Meant.target /\ ssh.command = Meant.command
           /\ \E k \in 0 .. Len(Meant.options) :
                ssh.options = first \o SubSeq(Meant.options, 1, k) \o later
                                \o SubSeq(Meant.options, k + 1, Len(Meant.options))

\* In a plain line each letter that wants the next token stands alone and is one of
\* ValueOpts, and no "--" stands before the host.
Plain ==
  /\ \A k \in DOMAIN line : line[k].is = "dash" =>
       LET w == ReadsGroup(Unread, line[k].letters).wants
       IN  w = "none" \/ (w \in ValueOpts /\ line[k].letters = <<w>>)
  /\ \A k \in DOMAIN line : line[k].is = "end" =>
       Reads(Flags, SubSeq(line, 1, k)).phase # "ended"

\* "All OpenSSH options ... are passed through unchanged" (cmd/ssh.go, docs/ssh.md).
PassedThrough == launch # <<>> => SameReading

\* They are if the line is plain, wherever in it the options, flags and values of the two
\* programs stand and whatever a value looks like (ParseArgs, buildSSHArgs).
PlainPassedThrough == launch # <<>> /\ Plain => SameReading

\* Each setting comes from the highest layer that has it, and says so: flags, profile,
\* environment, user's file, system's file, defaults (docs/configuration.md, Load, Resolve,
\* ApplyFlags).
HighestLayerWins ==
  LET profile == IF app.profile \in DOMAIN settings.profiles
                   THEN settings.profiles[app.profile] ELSE [server |-> "", provider |-> ""]
      Only(x) == {x} \ {"", Unset}
      layers(f) ==
        <<[from |-> "default", has |-> {Defaults[f].value}],
          [from |-> "system-config", has |-> {settings.system[f]} \ {Unset}],
          [from |-> "user-config", has |-> {settings.user[f]} \ {Unset}],
          [from |-> "environment", has |-> IF f = "cert_lifetime_seconds"
                                             THEN Only(settings.env[f]) \cap Numbers
                                             ELSE Only(settings.env[f])],
          [from |-> "profile", has |-> CASE f = "server_url" -> Only(profile.server)
                                         [] f = "provider" -> Only(profile.provider)
                                         [] OTHER -> {}],
          [from |-> "flag", has |-> IF f = "server_url" THEN Only(parsed.own["server"]) ELSE {}]>>
  IN  app.profile # "" =>
        \A f \in Fields :
          LET top == layers(f)[Max({k \in 1 .. 6 : layers(f)[k].has # {}})]
          IN  app.config[f].value \in top.has /\ app.config[f].from = top.from

\* A certificate is asked for, and OpenSSH launched, only on a line that names a host, does
\* not ask for help and is no dry run; it is for that host, for the lifetime --ttl or else
\* the configuration gives, and from the server and for the profile the line names, though
\* these were settled before the line was known to be right (preparseSSHGlobals, ssh.go).
AskedAsMeant ==
  asked # Nothing /\ Plain /\ ~Meant.bad =>
    /\ Meant.own["help"] = "" /\ Meant.target # Nothing
    /\ asked.host = Meant.target.host
    /\ asked.renew = (Meant.own["no_cache"] # "")
    /\ asked.ttl = IF Meant.own["ttl"] # "" THEN Meant.own["ttl"]
                   ELSE app.config["cert_lifetime_seconds"].value
    /\ Meant.own["profile"] \in {app.profile, ""}
    /\ Meant.own["server"] \in {app.config["server_url"].value, ""}
    /\ pc = "launched" => Meant.own["dry_run"] = ""
=============================================================================
