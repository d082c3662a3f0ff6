---------------------------- MODULE MCFileStore ----------------------------
(* A small instance of FileStore: processes, keys and secrets are interchangeable. *)
EXTENDS FileStore, TLC

Symmetry == Permutations(Proc) \cup Permutations(Key)
=============================================================================
