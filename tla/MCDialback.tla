------------------------------ MODULE MCDialback ------------------------------
(* Instances of Dialback for TLC.  Hosts are interchangeable, and symmetry   *)
(* sets do not go with liveness: one message comes to a host fixed here.     *)
EXTENDS Dialback

FixedMessage == CHOOSE m \in Messages : TRUE
FixedHost    == CHOOSE h \in Hosts : TRUE

MCInit == Init /\ host[FixedMessage] = FixedHost

MCFairSpec == MCInit /\ [][Next]_vars /\ Fairness
=============================================================================
