------------------------------- MODULE Config -------------------------------
(***************************************************************************)
(* The lookups of courier.config in Courier's configuration files.  files  *)
(* is what sysconfdir holds; None is a file that is not there, or no       *)
(* value.  Domains and addresses of hosts are sequences of their labels    *)
(* and parts.                                                              *)
(***************************************************************************)
EXTENDS Integers, Sequences, SequencesExt, FiniteSetsExt

CONSTANTS
  None,      \* no file, no value
  Hostname   \* socket.gethostname()

\* The first call decides; the value is kept until the process ends.
Me(files) == IF files.me \in {None, <<>>} THEN Hostname ELSE files.me

\* What a line of the file locals says of a domain.
Says(line, domain) ==
  CASE line.kind = "blank"   -> "raises"
    [] line.kind = "not" /\ line.name = domain -> "no"
    [] line.kind = "suffix"  /\ line.name # domain /\ IsSuffix(line.name, domain) -> "yes"
    [] line.kind = "exact"   /\ line.name = domain -> "yes"
    [] OTHER -> "nothing"

\* The first line that says something decides; a line of white space has no
\* first character to look at.
IsLocal(files, domain, me) ==
  IF files.locals = None THEN IF domain = me THEN "yes" ELSE "no"
  ELSE LET hits == {i \in DOMAIN files.locals : Says(files.locals[i], domain) # "nothing"}
       IN  IF hits = {} THEN "no" ELSE Says(files.locals[Min(hits)], domain)

\* The domain itself, or what follows one of its dots.
IsHosteddomain(files, domain) ==
  /\ files.hosted # None
  /\ \/ [dot |-> FALSE, name |-> domain] \in files.hosted
     \/ \E n \in 2..Len(domain) :
          [dot |-> TRUE, name |-> SubSeq(domain, n, Len(domain))] \in files.hosted

\* An address is <<user, domain>>, or <<user>>.
GetAlias(files, address, me) ==
  LET local == Len(address) = 1 \/ IsLocal(files, address[2], me) = "yes"
      key   == IF local THEN <<address[1], me>> ELSE address
  IN  IF files.aliases = None \/ key \notin DOMAIN files.aliases THEN None
      ELSE files.aliases[key]

-----------------------------------------------------------------------------
\* The entries of an address and its networks, by their length.
Entries(files, ip) ==
  {n \in 1..Len(ip) : SubSeq(ip, 1, n) \in DOMAIN files.access}

Smtpaccess(files, ip) ==
  IF files.access = None \/ Entries(files, ip) = {} THEN None
  ELSE files.access[SubSeq(ip, 1, Max(Entries(files, ip)))]

EmptyVal == ""

\* The first value with the key in <<key, value>>, <<key>> counting as empty.
GetSmtpaccessVal(files, key, ip) ==
  LET vals == Smtpaccess(files, ip)
      hits == IF vals = None THEN {} ELSE {i \in DOMAIN vals : vals[i][1] = key}
  IN  IF hits = {} THEN None
      ELSE IF Len(vals[Min(hits)]) = 1 THEN EmptyVal ELSE vals[Min(hits)][2]

IsRelayed(files, ip) == GetSmtpaccessVal(files, "RELAYCLIENT", ip) # None

IsWhiteblocked(files, ip) == GetSmtpaccessVal(files, "BLOCK", ip) = EmptyVal

-----------------------------------------------------------------------------
\* Python's order of strings: sequences of characters, given by numbers.
StringLess(s, t) ==
  \E n \in 0..Len(s) :
    /\ n < Len(t) /\ SubSeq(s, 1, n) = SubSeq(t, 1, n)
    /\ n = Len(s) \/ s[n + 1] < t[n + 1]

\* The order of lists of strings.
ListLess(a, b) ==
  \E n \in 0..Len(a) :
    /\ n < Len(b) /\ SubSeq(a, 1, n) = SubSeq(b, 1, n)
    /\ n = Len(a) \/ StringLess(a[n + 1], b[n + 1])

\* A version is a list of strings of digits.
IsMinVersion(version, minVersion) ==
  version # None /\ ~ListLess(version, minVersion)

\* The options that the files of module configuration, the later one first
\* asked, hold for a module; one that cannot be parsed makes it none at all.
GetModuleConfig(confs, module) ==
  IF \E i \in DOMAIN confs : confs[i] = None THEN <<>>
  ELSE FoldLeft(LAMBDA sofar, conf : conf @@ sofar, <<>>,
               [i \in DOMAIN confs |->
                  IF module \in DOMAIN confs[i] THEN confs[i][module] ELSE <<>>])

ApplyModuleConfig(confs, module, namespace) ==
  GetModuleConfig(confs, module) @@ namespace
=============================================================================
