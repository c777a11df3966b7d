----------------------------- MODULE MCGreylist -----------------------------
(* Instances of Greylist for TLC.                                           *)
EXTENDS Greylist, TLC

\* Messages are interchangeable; no liveness is checked under it.
MessageSymmetry == Permutations(Messages)
=============================================================================
