---------------------------- MODULE MCQuarantine ----------------------------
(* Instances of Quarantine for TLC.                                         *)
EXTENDS Quarantine, TLC

\* Messages are interchangeable, and so are inodes.
QuarantineSymmetry == Permutations(Messages) \cup Permutations(Inodes)
=============================================================================
