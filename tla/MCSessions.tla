----------------------------- MODULE MCSessions -----------------------------
(* Small instances of Sessions. *)
EXTENDS Sessions, TLC

CONSTANTS work, home, ann, bob

\* One identity signs in to both profiles, another to one of them.
MCSignIns == {<<work, ann>>, <<home, ann>>, <<home, bob>>}
\* One identity signs in to both.
MCSharedSignIns == {<<work, ann>>, <<home, ann>>}

MCEvery == Cmd

Symmetry == Permutations(Proc)
=============================================================================
