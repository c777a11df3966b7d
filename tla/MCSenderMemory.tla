--------------------------- MODULE MCSenderMemory ---------------------------
(* Instances of SenderMemory for TLC: a user u of this server, correspondents *)
(* a and b elsewhere, three addresses of hosts in two networks.               *)
EXTENDS SenderMemory, TLC

Mail(auth, from, to, ip) == [auth |-> auth, from |-> from, to |-> to, ip |-> ip]

MCMails == {
  Mail(TRUE, "u", {"u", "a"}, <<"n1", 1>>),
  Mail(FALSE, "a", {"u"}, <<"n1", 2>>),
  Mail(FALSE, "a", {"u", "b"}, <<"n2", 1>>),
  Mail(FALSE, "u", {"u"}, <<"n2", 1>>),
  Mail(FALSE, Null, {"u"}, <<"n2", 1>>)}

\* Messages are interchangeable; no liveness is checked under it.
MessageSymmetry == Permutations(Messages)
=============================================================================
