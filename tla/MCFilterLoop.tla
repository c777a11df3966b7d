---------------------------- MODULE MCFilterLoop ----------------------------
(* Instances of FilterLoop for TLC.                                         *)
EXTENDS FilterLoop, TLC

\* Module names are interchangeable.
NameSymmetry == Permutations(Modules)
=============================================================================
