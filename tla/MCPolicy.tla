------------------------------ MODULE MCPolicy ------------------------------
(* Instances of Policy for TLC: three configurations, four kinds of account,  *)
(* and messages between a local, a hosted and a foreign domain.               *)
EXTENDS Policy

Line(kind, name) == [kind |-> kind, name |-> name]

Local  == <<"mail", "org">>
Hosted == <<"lists", "mail", "org">>
Far    == <<"else", "com">>

MCHostname == Local

\* With a file locals that gives one subdomain back; without one; with a line
\* of white space in it, and a domain that is local and hosted too.
MCConfigs == {
  [me |-> Local, hosted |-> {[dot |-> TRUE, name |-> Local]}, lower |-> TRUE,
   locals |-> <<Line("not", Hosted), Line("suffix", Local), Line("exact", Local)>>,
   aliases |-> (<<"all", Local>> :> <<<<"u", Local>>>>),
   access |-> (<<1>> :> <<<<"allow">>, <<"RELAYCLIENT">>>>)
           @@ (<<1, 2>> :> <<<<"BLOCK", "no">>, <<"BLOCK">>>>)
           @@ (<<1, 2, 3>> :> <<<<"allow">>, <<"BLOCK">>>>)],
  [me |-> None, locals |-> None, hosted |-> None, lower |-> FALSE,
   aliases |-> None, access |-> None],
  [me |-> <<>>, locals |-> <<Line("exact", Far), Line("exact", Hosted), Line("blank", <<>>)>>,
   hosted |-> {[dot |-> FALSE, name |-> Hosted]}, lower |-> FALSE, aliases |-> None,
   access |-> (<<1, 2>> :> <<<<"BLOCK", "no">>, <<"RELAYCLIENT">>>>)]}

Rcpt(addr, orig, caps) == [addr |-> addr, orig |-> orig, caps |-> caps]

MCMails == {
  [ip |-> <<1, 2, 3>>, from |-> <<"u", Local>>, auth |-> TRUE, loop |-> None,
   to |-> <<Rcpt(<<"u", Far>>, None, FALSE)>>],
  [ip |-> <<1, 2, 4>>, from |-> <<"u", Hosted>>, auth |-> FALSE, loop |-> None,
   to |-> <<Rcpt(<<"u", Local>>, None, FALSE), Rcpt(<<"u", Hosted>>, None, FALSE)>>],
  [ip |-> <<1, 3, 3>>, from |-> <<"u", Local>>, auth |-> TRUE, loop |-> None,
   to |-> <<Rcpt(<<"u", Far>>, None, FALSE)>>],
  [ip |-> None, from |-> <<"u", Local>>, auth |-> TRUE, loop |-> None,
   to |-> <<Rcpt(<<"u", Hosted>>, <<"all", Local>>, FALSE), Rcpt(<<"u", Far>>, None, FALSE)>>],
  [ip |-> <<2, 2, 2>>, from |-> None, auth |-> FALSE, loop |-> Far,
   to |-> <<Rcpt(<<"u", Hosted>>, <<"all", Local>>, TRUE)>>]}

Size(s, c) == [S |-> s, C |-> c]

MCAccounts == {
  [fields |-> {}, maildirsize |-> None],
  [fields |-> {"ADDRESS"}, maildirsize |-> None],
  [fields |-> {"ADDRESS", "HOME"},
   maildirsize |-> [quota |-> Size(0, 2), lines |-> <<Size(9, 3), Size(-4, -1)>>]],
  [fields |-> {"HOME", "MAILDIR"},
   maildirsize |-> [quota |-> Size(6, 0), lines |-> <<Size(9, 3), Size(-4, -1)>>]]}

MCPrivate == (<<"all", Local>> :> {<<"u", Local>>})

MCConfs == <<"localsenders.py" :> [requireAuth |-> FALSE],
             "localsenders.py" :> [requireAuth |-> TRUE]>>

-----------------------------------------------------------------------------
\* Version numbers are ordered as numbers are while they have the same number
\* of digits; "0.9" is taken for newer than "0.10".
ASSUME VersionOrder ==
  LET Pieces == [1..1 -> 0..2]
      Number(v) == 3 * v[1][1] + v[2][1]
  IN  /\ \A v, w \in [1..2 -> Pieces] : IsMinVersion(v, w) <=> Number(v) >= Number(w)
      /\ IsMinVersion(<<<<0>>, <<9>>>>, <<<<0>>, <<1, 0>>>>)

\* An alias of a local domain is found under any local name of it, if at all.
ASSUME AliasesAreLocal ==
  \A conf \in MCConfigs : \A d \in {Local, Hosted, Far} :
    IsLocal(conf, d, Local) = "yes" =>
      GetAlias(conf, <<"all", d>>, Local) = GetAlias(conf, <<"all">>, Local)
=============================================================================
