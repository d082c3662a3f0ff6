---------------------------- MODULE CertPromise ----------------------------
(***************************************************************************)
(* What internal/certs promises to the commands built on it, whatever the  *)
(* state of the cache directory: "It never hands an expired certificate to *)
(* OpenSSH" (package comment of certs.go).  A command is handed a          *)
(* certificate the server has granted, and only one whose validity period  *)
(* contains a reading of the local clock taken after that command began.   *)
(* Nothing is said of files, of the cached metadata, of renewal or of who  *)
(* else is writing: CertCache refines this module in spite of them.        *)
(***************************************************************************)
EXTENDS Integers, Sequences

CONSTANTS Proc   \* command-line processes

VARIABLES now,      \* the local clock
          grants,   \* every certificate the server has signed, oldest first
          began,    \* began[p]: when the ssh command of p began, NotRunning without one
          handed    \* handed[p]: what that command was handed, Nothing before that

vars == <<now, grants, began, handed>>

NotRunning == -1

Nothing == [cert |-> 0, at |-> 0]

\* Certificate n was granted and covers instant t.
Covers(n, t) == /\ n \in DOMAIN grants
                /\ grants[n].from <= t
                /\ t < grants[n].until

Init == /\ now = 0
        /\ grants = <<>>
        /\ began = [p \in Proc |-> NotRunning]
        /\ handed = [p \in Proc |-> Nothing]

Tick == /\ now' = now + 1
        /\ UNCHANGED <<grants, began, handed>>

Grant == /\ grants' \in Seq([from : Int, until : Int])
         /\ Len(grants') = Len(grants) + 1
         /\ \A n \in DOMAIN grants : grants'[n] = grants[n]
         /\ UNCHANGED <<now, began, handed>>

Begin(p) == /\ began[p] = NotRunning
            /\ began' = [began EXCEPT ![p] = now]
            /\ UNCHANGED <<now, grants, handed>>

Hand(p) == /\ began[p] # NotRunning
           /\ handed[p] = Nothing
           /\ \E n \in DOMAIN grants, t \in began[p] .. now :
                /\ Covers(n, t)
                /\ handed' = [handed EXCEPT ![p] = [cert |-> n, at |-> t]]
           /\ UNCHANGED <<now, grants, began>>

\* The command ends, or dies: what it was handed is gone with it.
End(p) == /\ began' = [began EXCEPT ![p] = NotRunning]
          /\ handed' = [handed EXCEPT ![p] = Nothing]
          /\ UNCHANGED <<now, grants>>

Next == \/ Tick
        \/ Grant
        \/ \E p \in Proc : Begin(p) \/ Hand(p) \/ End(p)

Spec == Init /\ [][Next]_vars
=============================================================================
