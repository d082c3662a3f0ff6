------------------------------ MODULE MCAudit ------------------------------
(* Instances of Audit for model checking.  --limit is 50 unless given, more than there are
   entries. *)
EXTENDS Audit

Plain == [preset |-> "none", type |-> "any", result |-> "any", limit |-> 50, tail |-> 0,
          follow |-> FALSE, watch |-> FALSE, structured |-> FALSE]

\* mayfly events certificate -f; history failures -f; history failures --result success -f
\* --tail 1; events ca --event-type certificate.issued -w; audit -w --limit 3 --tail 1;
\* audit -f -o json; events certificate -w -o json --limit 0.
MCCommands ==
  {[Plain EXCEPT !.preset = "certificate", !.follow = TRUE],
   [Plain EXCEPT !.preset = "failures", !.follow = TRUE],
   [Plain EXCEPT !.preset = "failures", !.result = "success", !.follow = TRUE, !.tail = 1],
   [Plain EXCEPT !.preset = "ca", !.type = "certificate_issued", !.watch = TRUE],
   [Plain EXCEPT !.watch = TRUE, !.limit = 3, !.tail = 1],
   [Plain EXCEPT !.follow = TRUE, !.structured = TRUE],
   [Plain EXCEPT !.preset = "certificate", !.watch = TRUE, !.structured = TRUE,
                   !.limit = 0]}
=============================================================================
