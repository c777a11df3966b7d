--------------------------- MODULE MCPythonfilter ---------------------------
(* Instances of Pythonfilter for TLC; the .cfg files choose the faults.     *)
EXTENDS Pythonfilter, TLC

\* Connections are interchangeable; used where only invariants are checked.
ConnSymmetry == Permutations(Conns)
=============================================================================
