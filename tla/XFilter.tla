------------------------------- MODULE XFilter -------------------------------
(***************************************************************************)
(* The data file of a message, as courier.control.getAuthUser and          *)
(* courier.xfilter read it and the filters that use them change it.  Of    *)
(* its headers only the Received ones matter, of its text only what was    *)
(* done to it.  A name ending in _M is what follows it with a mistake, for *)
(* mutation checks.                                                        *)
(***************************************************************************)
EXTENDS Integers, Sequences, FiniteSets, SequencesExt

CONSTANTS
  None,      \* no such value
  AuthUsers  \* the users a Received header may name

ASSUME XFilterAssumption == None \notin AuthUsers

Lines  == {"short", "long", "folded"}
Header == [user : AuthUsers \cup {None}, line : Lines]

\* A Received header: the user it says was authenticated by this host, and
\* whether that is said on a line that email.generator would break ("long")
\* or has broken ("folded").
Received(user, line) == [user |-> user, line |-> line]

\* A data file: its Received headers, the rewrites it went through, and
\* whether its end is there.
Body(received, rewrites, whole) ==
  [received |-> received, rewrites |-> rewrites, whole |-> whole]

\* A Received header that _auth_regex does not match names nobody.
CheckHeader(header) == IF header.line = "folded" THEN None ELSE header.user

\* The first Received header decides.
GetAuthUser(body) ==
  IF body.received = <<>> THEN None ELSE CheckHeader(body.received[1])

\* What email.generator writes of a message: long header lines are broken,
\* after a comma where there is one, and _auth_regex wants a blank there.
Generated(body) ==
  [body EXCEPT !.received =
     [i \in DOMAIN @ |-> IF @[i].line = "long" THEN Received(@[i].user, "folded") ELSE @[i]]]

\* The message as the filter f submits it, its Received headers as given.
Rewritten(body, f, received) ==
  Generated([body EXCEPT !.rewrites = Append(@, f), !.received = received])

\* The headers are put before the ones that were moved already.
WithSignature_M(body) == Rewritten(body, "add_signature", Reverse(body.received))

\* The headers move to a new message, one by one.
WithSignature(body) == Rewritten(body, "add_signature", body.received)

\* What spamc prints is taken to be the message with headers before its own;
\* neither a wrapper around it nor an error message is.
Scanned(body) == Rewritten(body, "spamassassin", body.received)

\* Only the first Received header is removed.
WithoutReceived_M(body) == Rewritten(body, "noreceivedheaders", Tail(body.received))

WithoutReceived(body) == Rewritten(body, "noreceivedheaders", <<>>)

\* What there may be of a message in a file whose writing ended early.
Pieces(body) ==
  {Body(SubSeq(body.received, 1, n), body.rewrites, FALSE) : n \in 0..Len(body.received)}

\* open(), truncate(0).
Truncated(body) == Body(<<>>, <<>>, FALSE)
=============================================================================
