------------------------------ MODULE MCSpool ------------------------------
(* Instances of Spool for TLC: two users, one of them with a signature, and   *)
(* messages that claim in a second Received header to be from either.         *)
EXTENDS Spool

\* Packaged order without whitelist_auth, with it where it is packaged, and
\* one in which it comes too late.
MCOrders == {
  <<"sentfolder", "spamassassin", "add_signature", "noreceivedheaders">>,
  <<"sentfolder", "whitelist_auth", "noreceivedheaders">>,
  <<"add_signature", "noreceivedheaders", "whitelist_auth">>}

Mail(user, line, claims, ip, sender, rcpts, large) ==
  [user |-> user, received |-> <<Received(user, line)>> \o claims, ip |-> ip,
   sender |-> sender, rcpts |-> rcpts, large |-> large, of |-> None]

MCMails == {
  Mail("u", "short", <<Received("v", "short")>>, "i", "u", <<"r">>, FALSE),
  Mail("v", "long", <<Received("u", "short")>>, "j", NullSender, <<>>, FALSE),
  Mail(None, "short", <<Received("u", "short")>>, "i", NullSender, <<"u">>, TRUE)}

MCSigned == {"v"}

MCDir == (1 :> 1) @@ (2 :> 2) @@ (3 :> 1)

MCCriteria == {
  [auth |-> {"v"}, ip |-> {"i"}, sender |-> {}],
  [auth |-> {}, ip |-> {"i"}, sender |-> {"u", "daemon"}]}
=============================================================================
