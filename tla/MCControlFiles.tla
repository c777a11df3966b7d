--------------------------- MODULE MCControlFiles ---------------------------
(* Instances of ControlFiles for TLC.                                       *)
EXTENDS ControlFiles

\* Success and failure notices, or none.
MCDsns == {{}, {"S", "F"}}

\* Addresses are interchangeable; no liveness is checked under it.
AddressSymmetry == Permutations(Addresses)
=============================================================================
