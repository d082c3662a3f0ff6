---------------------------- MODULE MCCertCache ----------------------------
(* Small instances of CertCache. *)
EXTENDS CertCache, TLC

CONSTANTS p1, p2

\* One process has its certificate reused, renewed and expired; another saves and prunes.
MCSshBesideSaves == (p1 :> {"ssh"}) @@ (p2 :> {"ssh_no_cache", "issue", "prune"})
\* One after the other; and one against another.
MCSshAndIssue == (p1 :> {"ssh", "issue"})
MCSshBesidePrune == (p1 :> {"ssh"}) @@ (p2 :> {"prune"})
MCTwoSaves == (p1 :> {"issue"}) @@ (p2 :> {"issue"})

\* Granted at 0: not valid yet, then due, and expired at the last tick.
MCShort == {1}
MCAhead == {1}

MCTTLs == {2}
MCSkews == {-1, 1}
=============================================================================
