------------------------------- MODULE Policy -------------------------------
(***************************************************************************)
(* The filters that decide by Courier's configuration and user accounts,   *)
(* in the order of pythonfilter.conf: whitelist_relayclients,              *)
(* whitelist_block, deliveredto, privateaddr, localsenders, quota.  They   *)
(* share no state, so one message shows what they do; meanwhile Courier's  *)
(* files may be edited, and authdaemond, which is asked about accounts,    *)
(* may fail.  A name ending in _M is what follows it with a mistake, for   *)
(* mutation checks.                                                        *)
(***************************************************************************)
EXTENDS Config, AuthDaemon

CONSTANTS
  Configs,   \* what sysconfdir may hold
  Mails,     \* what a message may be: [ip, from, auth, loop, to]
  Accounts,  \* what there may be behind a name: [fields, maildirsize]
  Private,   \* private_rcpts: address -> the senders it accepts
  Confs,     \* the files of module configuration
  MaxEdits   \* bound: how often the configuration is edited

VARIABLES
  files,     \* what sysconfdir holds
  me,        \* the value that me() keeps
  accounts,  \* what authdaemond knows of each name
  mail,      \* the message
  filter,    \* the filter that is run, or "done"
  rcpt,      \* the recipient that it looks at next
  look,      \* the file it opens next for a domain: "locals" or "hosted"
  verdict,   \* what is answered; "Nothing" is to go on
  inForce,   \* history: the configurations since the message came, in turn
  raised     \* history: the filters that ended in an exception

msgVars   == <<filter, rcpt, look, verdict, raised>>
fixedVars == <<me, accounts, mail>>
editVars  == <<files, inForce>>
vars == <<authVars, msgVars, fixedVars, editVars>>

Filters == <<"relayclients", "block", "deliveredto", "privateaddr",
             "localsenders", "quota">>

requireAuth ==
  ApplyModuleConfig(Confs, "localsenders.py", [requireAuth |-> FALSE]).requireAuth

Addresses ==
  (UNION {{m.from} \cup {r.addr : r \in ToSet(m.to)} : m \in Mails}) \ {None}

\* An account goes by the user in a local domain, by the address in a hosted one.
Names == Addresses \cup {<<a[1]>> : a \in Addresses}

IsSeq(s) == s \in Seq(ToSet(s))

\* An entry of smtpaccess is a list of items <<key>> and <<key, value>>.
ASSUME PolicyAssumption ==
  /\ MaxEdits \in Nat /\ Configs # {} /\ Mails # {} /\ NoName \notin Names
  /\ None # EmptyVal
  /\ \A m \in Mails :
       /\ m.ip # None => IsSeq(m.ip)
       /\ IsSeq(m.to) /\ \A r \in ToSet(m.to) : r.addr # None
  /\ \A conf \in Configs : conf.access # None =>
       \A net \in DOMAIN conf.access :
         /\ IsSeq(net) /\ net # <<>>
         /\ IsSeq(conf.access[net]) /\ conf.access[net] # None
         /\ \A item \in ToSet(conf.access[net]) :
              IsSeq(item) /\ Len(item) \in {1, 2} /\ (Len(item) = 2 => item[2] # None)
  /\ \A a \in Accounts : /\ IsFiniteSet(a.fields) /\ a.fields # None
                         /\ a.fields \cap {"FAIL", NL, "."} = {}

\* me() may have been called first under any earlier configuration.
Init ==
  /\ Idle
  /\ files \in Configs /\ inForce = <<files>> /\ me \in {Me(conf) : conf \in Configs}
  /\ accounts \in [Names -> Accounts] /\ mail \in Mails
  /\ filter = Filters[1] /\ rcpt = 1 /\ look = "locals" /\ verdict = "Nothing" /\ raised = {}

-----------------------------------------------------------------------------
\* What a filter may do at its end: say nothing, say something that ends the
\* filtering, or raise an exception, which counts as saying nothing.
Passes ==
  LET i == CHOOSE j \in DOMAIN Filters : Filters[j] = filter
  IN  /\ filter' = IF i < Len(Filters) THEN Filters[i + 1] ELSE "done"
      /\ rcpt' = 1 /\ look' = "locals"

Nothing == Passes /\ UNCHANGED <<verdict, raised>>
Raise   == Passes /\ raised' = raised \cup {filter} /\ UNCHANGED verdict

Reply(status) ==
  /\ filter' = "done" /\ verdict' = status /\ look' = "locals"
  /\ UNCHANGED <<rcpt, raised>>

NextRcpt ==
  /\ rcpt' = rcpt + 1 /\ look' = "locals"
  /\ UNCHANGED <<filter, verdict, raised>>

\* The control files or the body cannot be read; privateaddr opens one again
\* for each private recipient.
Unreadable ==
  /\ filter # "done" /\ call = "none" /\ look = "locals"
  /\ rcpt = 1 \/ filter = "privateaddr"
  /\ IF filter \in {"privateaddr", "quota"} THEN Raise ELSE Reply("451")
  /\ UNCHANGED <<authVars, fixedVars, editVars>>

WhitelistRelayclients ==
  /\ filter = "relayclients"
  /\ IF mail.ip # None /\ IsRelayed(files, mail.ip) THEN Reply("200") ELSE Nothing
  /\ UNCHANGED <<authVars, fixedVars, editVars>>

WhitelistBlock ==
  /\ filter = "block"
  /\ IF mail.ip # None /\ IsWhiteblocked(files, mail.ip) THEN Reply("200") ELSE Nothing
  /\ UNCHANGED <<authVars, fixedVars, editVars>>

\* What of a domain?  The two files are opened one after the other: locals
\* says "local", raises, or leaves it to hosteddomains ("ask"), which says
\* "hosted" or "foreign".
Domain(domain) ==
  CASE look = "hosted" -> IF IsHosteddomain(files, domain) THEN "hosted" ELSE "foreign"
    [] look = "locals" /\ IsLocal(files, domain, me) = "yes"    -> "local"
    [] look = "locals" /\ IsLocal(files, domain, me) = "raises" -> "raises"
    [] OTHER -> "ask"

\* isLocal() says no.
AskHosted == look' = "hosted" /\ UNCHANGED <<filter, rcpt, verdict, raised>>

DeliveredTo ==
  /\ filter = "deliveredto"
  /\ LET kind == IF mail.loop = None THEN "foreign" ELSE Domain(mail.loop)
     IN  \/ kind = "foreign" /\ Nothing
         \/ kind = "raises" /\ Raise
         \/ kind = "ask" /\ AskHosted
         \/ kind \in {"local", "hosted"} /\ Reply("501")
  /\ UNCHANGED <<authVars, fixedVars, editVars>>

\* The address a recipient was first given, compared as it is written unless
\* the file locallowercase is there.
IsPrivate(r, conf) ==
  LET addr == IF r.orig = None THEN r.addr ELSE r.orig
  IN  /\ ~r.caps \/ conf.lower
      /\ addr \in DOMAIN Private /\ mail.from \notin Private[addr]

\* locallowercase is looked for again for each recipient.
PrivateAddr ==
  /\ filter = "privateaddr"
  /\ IF rcpt > Len(mail.to) THEN Nothing
     ELSE IF IsPrivate(mail.to[rcpt], files) THEN Reply("517Private") ELSE NextRcpt
  /\ UNCHANGED <<authVars, fixedVars, editVars>>

-----------------------------------------------------------------------------
\* getUserInfo for an address of that kind of domain.
GetUserInfo(addr, kind) ==
  LET name == IF kind = "local" THEN <<addr[1]>> ELSE addr
  IN  /\ Ask(name, accounts[name].fields)
      /\ look' = "locals" /\ UNCHANGED <<filter, rcpt, verdict, raised>>

LocalSenders ==
  /\ filter = "localsenders" /\ call = "none"
  /\ LET kind == IF mail.from = None THEN "foreign" ELSE Domain(mail.from[2])
     IN  \/ kind = "foreign" /\ Nothing /\ UNCHANGED authVars
         \/ kind = "raises" /\ Raise /\ UNCHANGED authVars
         \/ kind = "ask" /\ AskHosted /\ UNCHANGED authVars
         \/ kind \in {"local", "hosted"} /\ GetUserInfo(mail.from, kind)
  /\ UNCHANGED <<fixedVars, editVars>>

SenderInfo ==
  /\ filter = "localsenders" /\ call = "answered" /\ HangUp
  /\ CASE UserInfo(None) = None    -> Reply("517Unknown")
       [] UserInfo(None) # None /\ requireAuth /\ ~mail.auth -> Reply("517Auth")
       [] OTHER                    -> Nothing
  /\ UNCHANGED <<fixedVars, editVars>>

\* getAuthUser cannot read the control files or the body.
AuthUnreadable ==
  /\ filter = "localsenders" /\ call = "answered" /\ HangUp
  /\ UserInfo(None) # None /\ requireAuth /\ Raise
  /\ UNCHANGED <<fixedVars, editVars>>

\* The sum of a column of maildirsize against each quota that is set.
OverQuota(maildirsize) ==
  \E k \in {"S", "C"} :
    /\ maildirsize.quota[k] # 0
    /\ MapThenSumSet(LAMBDA i : maildirsize.lines[i][k], DOMAIN maildirsize.lines)
         >= maildirsize.quota[k]

Quota ==
  /\ filter = "quota" /\ call = "none"
  /\ IF rcpt > Len(mail.to) THEN Nothing /\ UNCHANGED authVars
     ELSE LET addr == mail.to[rcpt].addr
              kind == Domain(addr[2])
          IN  \/ kind = "foreign" /\ NextRcpt /\ UNCHANGED authVars
              \/ kind = "raises" /\ Raise /\ UNCHANGED authVars
              \/ kind = "ask" /\ AskHosted /\ UNCHANGED authVars
              \/ kind \in {"local", "hosted"} /\ GetUserInfo(addr, kind)
  /\ UNCHANGED <<fixedVars, editVars>>

\* No account, or a maildirsize that cannot be read, is no objection; an
\* account without a directory raises KeyError.
CheckQuota ==
  /\ filter = "quota" /\ call = "answered" /\ HangUp
  /\ LET info == UserInfo(None)
         maildirsize == accounts[uid].maildirsize
     IN  \/ info = None /\ NextRcpt
         \/ info # None /\ {"MAILDIR", "HOME"} \cap info = {} /\ Raise
         \/ /\ info # None /\ {"MAILDIR", "HOME"} \cap info # {}
            /\ IF maildirsize # None /\ OverQuota(maildirsize)
               THEN Reply("421") ELSE NextRcpt
  /\ UNCHANGED <<fixedVars, editVars>>

\* The call is not given up.
AuthLostOpen_M == call = "lost" /\ Raise /\ UNCHANGED <<authVars, fixedVars, editVars>>

\* No answer is taken for a refusal.
AuthLost_M ==
  /\ call = "lost" /\ HangUp
  /\ IF filter = "localsenders" THEN Reply("517Unknown") ELSE Raise
  /\ UNCHANGED <<fixedVars, editVars>>

\* The exception leaves the filter: what it had still to check is not checked.
AuthLost ==
  /\ call = "lost" /\ HangUp /\ Raise
  /\ UNCHANGED <<fixedVars, editVars>>

-----------------------------------------------------------------------------
Edit ==
  /\ filter # "done" /\ Len(inForce) <= MaxEdits
  /\ files' \in Configs \ {files} /\ inForce' = Append(inForce, files')
  /\ UNCHANGED <<authVars, msgVars, fixedVars>>

FilterStep ==
  \/ WhitelistRelayclients \/ WhitelistBlock \/ DeliveredTo \/ PrivateAddr
  \/ LocalSenders \/ SenderInfo \/ Quota \/ CheckQuota \/ AuthLost

TimeOut == TimesOut /\ UNCHANGED <<msgVars, fixedVars, editVars>>

AuthStep ==
  /\ Connect \/ WriteAuth \/ ReadAuth \/ Lost
  /\ UNCHANGED <<msgVars, fixedVars, editVars>>

Next == FilterStep \/ TimeOut \/ AuthStep \/ Unreadable \/ AuthUnreadable \/ Edit

\* Nothing is expected of authdaemond: select() has a limit.
Fairness == WF_vars(FilterStep) /\ WF_vars(TimeOut)

Spec == Init /\ [][Next]_vars /\ Fairness

-----------------------------------------------------------------------------
TypeOK ==
  /\ call \in {"none", "connect", "write", "read", "answered", "lost"}
  /\ call = "none" <=> uid = NoName
  /\ uid \in Names \cup {NoName} /\ cmd \in 0..CmdLen /\ got \in 0..Len(answer)
  /\ call # "none" => filter \in {"localsenders", "quota"}
  /\ filter \in ToSet(Filters) \cup {"done"} /\ rcpt \in 1..(Len(mail.to) + 1)
  /\ look \in {"locals", "hosted"}
  /\ look = "hosted" => filter \in {"deliveredto", "localsenders", "quota"} /\ call = "none"
  /\ inForce \in Seq(Configs) /\ inForce # <<>> /\ files = Last(inForce)
  /\ raised \subseteq ToSet(Filters)

\* A network of the client is listed, no smaller one of it is, and the entry
\* says that it may relay, or the first it says of blocking is nothing.
Exempt(conf) ==
  /\ mail.ip # None /\ conf.access # None
  /\ \E net \in DOMAIN conf.access :
       /\ IsPrefix(net, mail.ip)
       /\ \A n \in DOMAIN conf.access :
            IsPrefix(n, mail.ip) => Len(n) <= Len(net)
       /\ \E i \in DOMAIN conf.access[net] :
            \/ conf.access[net][i][1] = "RELAYCLIENT"
            \/ /\ conf.access[net][i] \in {<<"BLOCK">>, <<"BLOCK", EmptyVal>>}
               /\ \A j \in 1..(i - 1) : conf.access[net][j][1] # "BLOCK"

\* The names by which Courier may have the account of an address: locals is
\* as in one configuration, hosteddomains as in that or a later one.
NamesOf(conf, later, addr) ==
  IF IsLocal(conf, addr[2], me) = "yes" THEN {<<addr[1]>>}
  ELSE IF IsHosteddomain(later, addr[2]) THEN {addr} ELSE {}

\* The verdicts that a configuration, with such a later one, and the accounts
\* have a reason for.
Deserved(conf, later) ==
  LET names(addr) == NamesOf(conf, later, addr)
      sender == IF mail.from = None THEN {} ELSE names(mail.from)
  IN  {v \in {"200", "501", "517Private", "517Unknown", "517Auth", "421"} :
        \/ v = "200" /\ Exempt(conf)
        \/ v = "501" /\ mail.loop # None /\ names(<<None, mail.loop>>) # {}
        \/ v = "517Private" /\ \E r \in ToSet(mail.to) : IsPrivate(r, conf)
        \/ v = "517Unknown" /\ \E n \in sender : accounts[n].fields = {}
        \/ v = "517Auth" /\ requireAuth /\ ~mail.auth /\ sender # {}
        \/ v = "421" /\ \E r \in ToSet(mail.to) : \E n \in names(r.addr) :
                          /\ accounts[n].fields # {} /\ accounts[n].maildirsize # None
                          /\ OverQuota(accounts[n].maildirsize)}

\* A message is exempted or refused for a reason that a configuration in force
\* and the accounts give, never because authdaemond is slow, silent or gone;
\* of a domain locals may have been read before an edit and hosteddomains after.
\* While nobody edits the configuration an exempt one is not refused, and one
\* goes on unexempted only if there was no reason against it, or a filter
\* could not say.
VerdictIsRight ==
  filter = "done" /\ verdict # "451" =>
    /\ verdict # "Nothing" =>
         \E j \in DOMAIN inForce : \E i \in 1..j : verdict \in Deserved(inForce[i], inForce[j])
    /\ Len(inForce) = 1 =>
         /\ "200" \in Deserved(files, files) => verdict = "200"
         /\ verdict = "Nothing" => raised # {} \/ Deserved(files, files) = {}

\* The filters come to an end, whatever becomes of authdaemond.
FilteringEnds == <>(filter = "done")
=============================================================================
