------------------------------ MODULE MCRuntime -----------------------------
(***************************************************************************)
(* Instances of Runtime for TLC.                                           *)
(***************************************************************************)
EXTENDS RuntimeInvariant, TLC

\* Every task has its own context; Contexts is then the set of tasks.
OwnContext == [t \in Tasks |-> t]

Symmetry == Permutations(Tasks)
=============================================================================
