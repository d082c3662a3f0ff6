---------------------------- MODULE MCSshCommand ----------------------------
(* Instances of SshCommand for model checking. *)
EXTENDS SshCommand

Long(f, v) == [is |-> "long", text |-> f, flag |-> f, value |-> v]
End == [is |-> "end", text |-> "--"]
Web == Word("web")
Root == [is |-> "word", text |-> "root@db", user |-> "root", host |-> "db"]
Nine == Word("900")
Lab == Word("lab")

\* -v, -p, -l, -p22; -NL and -P tag, whose spelling ParseArgs does not know; --.
SshTokens == {Dash("-v", <<"v">>), Dash("-p", <<"p">>), Dash("-l", <<"l">>), Dash("-p22", <<"p", "22">>),
              Dash("-NL", <<"N", "L">>), Dash("-P", <<"P">>), End}
OwnTokens == {Long("dry_run", "none"), Long("help", "none"), Long("ttl", "none"),
              Long("profile", "lab"), Long("ttl", "900"), Long("retries", "none")}
Words == {Web, Root, Nine}

Layer == [f \in Fields |-> Unset]
NoEnv == [f \in Fields |-> ""]
Bare == [system |-> [Layer EXCEPT !["server_url"] = "system.example"],
         user |-> Layer, env |-> NoEnv, profile |-> "", default |-> "default",
         profiles |-> [lab |-> [server |-> "lab.example", provider |-> ""]],
         signed_in |-> {"default", "lab"}, interactive |-> FALSE]
Rich == [Bare EXCEPT !.user = [Layer EXCEPT !["preferred_username"] = "deploy",
                                            !["default_ssh_options"] = "Compression"],
                     !.signed_in = {}, !.interactive = TRUE]

UpTo(n, S) == UNION {[1 .. k -> S] : k \in 0 .. n}

\* Every line of up to three tokens, and of four that end in a host.
Lines == LET T == SshTokens \cup OwnTokens \cup Words
         IN  UpTo(3, T) \cup {Append(l, Web) : l \in [1 .. 3 -> T \ {Root}]}

\* Two fields, in every combination of layers.
Combinations ==
  {[Bare EXCEPT !.system = [Layer EXCEPT !["server_url"] = a, !["cert_lifetime_seconds"] = d],
                !.user = [Layer EXCEPT !["server_url"] = b, !["cert_lifetime_seconds"] = d],
                !.env = [NoEnv EXCEPT !["server_url"] = c, !["cert_lifetime_seconds"] = e],
                !.profile = p, !.default = q,
                !.profiles = [lab |-> [server |-> "lab.example", provider |-> ""],
                              old |-> [server |-> "", provider |-> "keycloak"]]] :
     a \in {Unset, "system.example"}, b \in {Unset, "", "user.example"},
     c \in {"", "env.example"}, d \in {Unset, "300"}, e \in {"", "600", "soon"},
     p \in {"", "lab", "old"}, q \in {"default", "lab"}}

MCInputs ==
  [line : Lines, settings : {Bare, Rich}]
    \cup [line : {<<Web>>, <<Long("profile", "old"), Long("ttl", "none"), Nine, Web>>,
                  <<Long("server", "none"), Word("other.example"), Web>>,
                  <<Long("server", "other.example"), Long("ttl", "none"), Web, Web>>},
           settings : Combinations]

\* A forwarding alone, its two letters in one group or in two (ssh -N -L 8080:db:80 web).
Forwarding == Word("8080:db:80")
MCGroupedInputs ==
  [line : {<<Dash("-NL", <<"N", "L">>), Forwarding, Web>>,
           <<Dash("-N", <<"N">>), Dash("-L", <<"L">>), Forwarding, Web>>},
   settings : {Bare}]

MCText == STRING \ {"none", Unset}

MCNumbers == {"300", "600", "900"}

\* getopt of OpenSSH 9.
MCTakesValue == ValueOpts \cup {"P"}
=============================================================================
