------------------------------- MODULE MCShare -------------------------------
(***************************************************************************)
(* What the processes and threads of one machine share: the collected       *)
(* object store, FSZero's view of it, an owned child process and the        *)
(* speculation runtime.  A behaviour exercises one of them, chosen at the   *)
(* start, and the state spaces add up.                                      *)
(***************************************************************************)
EXTENDS Gc, BlobStore, ProcessTree, Speculation, TLC

VARIABLE machine

\* Object 1 embeds the digest of object 2.
mcChildren == (1 :> {2}) @@ (2 :> {})

\* The second permit is conditional and therefore never admitted.
mcPermits == {[node |-> n, unconditional |-> n = 1, pure |-> TRUE, cancellable |-> TRUE,
               budget |-> 1] : n \in 1..2}

mcSize == [b \in Blobs |-> IF b = "b3" THEN 2 ELSE 1]

ShareInit ==
    /\ machine \in {"gc", "blob", "tree", "speculation"}
    /\ GcInit /\ BlobInit /\ TreeInit /\ SpeculationInit
    /\ machine # "tree" => grouped

Exercised(m) == machine = m /\ UNCHANGED machine

ShareNext ==
    \/ Exercised("gc") /\ GcNext /\ UNCHANGED <<blobVars, treeVars, specVars>>
    \/ Exercised("blob") /\ BlobNext /\ UNCHANGED <<gcVars, treeVars, specVars>>
    \/ Exercised("tree") /\ TreeNext /\ UNCHANGED <<gcVars, blobVars, specVars>>
    \/ Exercised("speculation") /\ SpeculationNext /\ UNCHANGED <<gcVars, blobVars, treeVars>>

ShareSpec == ShareInit /\ [][ShareNext]_<<machine, gcVars, blobVars, treeVars, specVars>>
=============================================================================
