----------------------------- MODULE MCXv6Pipe ------------------------------
(* The processes of the model-checked instance of Xv6Pipe.                 *)
EXTENDS Xv6Pipe, TLC

CONSTANTS p1, p2, p3

\* All but the first process are alike.
Heirs == Permutations({p2, p3})
=============================================================================
