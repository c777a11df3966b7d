-------------------------------- MODULE Spool --------------------------------
(***************************************************************************)
(* Messages from their submission to the queue: the filters sentfolder,    *)
(* whitelist_auth, spamassassin, add_signature and noreceivedheaders,      *)
(* which all go by, or change, what the data file says, the copy that      *)
(* sentfolder submits and that is filtered like any message, and dropmsg,  *)
(* which finds out in the queue who sent what.  A name ending in _M is     *)
(* what follows it with a mistake, for mutation checks.                    *)
(***************************************************************************)
EXTENDS DropMsg

CONSTANTS
  Orders,     \* the lines of pythonfilter.conf, as sequences of filters
  Mails,      \* the messages that may be submitted
  Signed,     \* the users for whose domain there is a signature
  MaxFaults   \* bound: the accesses that raise

Filters == {"sentfolder", "whitelist_auth", "spamassassin", "add_signature", "noreceivedheaders"}

\* Courier puts a Received header of its own on every message submitted, which
\* names the user it authenticated on a line that _auth_regex matches.
ASSUME SpoolAssumption ==
  /\ MaxFaults \in Nat
  /\ \A list \in Orders : list \in Seq(Filters) \ {<<>>}
  /\ \A new \in Mails :
       /\ new.received \in Seq(Header) \ {<<>>} /\ new.received[1].user = new.user
       /\ new.received[1].line # "folded"
       /\ new.of = None

VARIABLES
  order,    \* filters
  at,       \* where a message is: "none", "filter", "copy", "write", "flatten", "over"
  nth,      \* the filter it is at
  message,  \* the message that an XFilter holds
  verdict,  \* what was answered
  raised,   \* history: messages of which a filter ended in an exception
  failed    \* history: messages that could not be written whole

filterVars == <<order, at, nth, message, verdict, raised, failed>>
vars == <<filterVars, mail, body, dropVars>>

Empty == Body(<<>>, <<>>, TRUE)

NoMail == [user |-> None, received |-> <<>>, ip |-> None, sender |-> None,
           rcpts |-> <<>>, large |-> FALSE, of |-> None]

Init ==
  /\ WalkInit /\ blamed = {}
  /\ order \in Orders
  /\ mail = [m \in Messages |-> NoMail] /\ body = [m \in Messages |-> Empty]
  /\ control = [m \in Messages |-> "none"] /\ data = control
  /\ at = control /\ nth = [m \in Messages |-> 1]
  /\ message = body /\ verdict = [m \in Messages |-> "unanswered"]
  /\ raised = {} /\ failed = {}

\* A message comes to be filtered, under a Received header of Courier.
Fresh(m) == at[m] = "none" /\ \A n \in Messages : n < m => at[n] # "none"

Arrives(m, new) ==
  /\ mail'    = [mail    EXCEPT ![m] = new]
  /\ body'    = [body    EXCEPT ![m] = Body(new.received, <<>>, TRUE)]
  /\ control' = [control EXCEPT ![m] = "spool"]
  /\ data'    = [data    EXCEPT ![m] = "spool"]

\* Bound: none is submitted while another is filtered, as each has files of its
\* own; only the copy of a message is filtered together with it.  None is once
\* the walk is over.
Submit(m) ==
  /\ Fresh(m) /\ step \notin {"ended", "raised", "killed"}
  /\ \A n \in Messages : at[n] \in {"none", "over"}
  /\ \E new \in Mails : Arrives(m, new)
  /\ at' = [at EXCEPT ![m] = "filter"]
  /\ UNCHANGED <<order, nth, message, verdict, raised, failed, walkVars, blamed>>

-----------------------------------------------------------------------------
\* An access of a filter may raise still.
Faulty == Cardinality(raised) + Cardinality(failed) < MaxFaults

At(m, f) == at[m] = "filter" /\ order[nth[m]] = f

Ends(m, answer, place) ==
  /\ at'      = [at      EXCEPT ![m] = "over"]
  /\ verdict' = [verdict EXCEPT ![m] = answer]
  /\ control' = [control EXCEPT ![m] = place]
  /\ data'    = [data    EXCEPT ![m] = place]
  /\ nth'     = [nth     EXCEPT ![m] = 1]

\* Courier queues the message, or drops it.
Accept(m) == Ends(m, "200", "queue")
Refuse(m) == Ends(m, "refused", "gone")

\* The next filter is looked for behind the last one too.
Passes_M(m) ==
  /\ nth' = [nth EXCEPT ![m] = @ + 1]
  /\ at'  = [at EXCEPT ![m] = "filter"]
  /\ UNCHANGED <<verdict, fileVars>>

\* The filter says nothing: the next one is run.
Passes(m) ==
  IF nth[m] = Len(order) THEN Accept(m)
  ELSE /\ nth' = [nth EXCEPT ![m] = @ + 1]
       /\ at'  = [at EXCEPT ![m] = "filter"]
       /\ UNCHANGED <<verdict, fileVars>>

Alone == UNCHANGED <<order, raised, failed, mail, body, walkVars>>

\* The filter acts on what getAuthUser says.
Blames(m) == blamed' = blamed \cup Wrong(m, GetAuthUser(body[m]))

Authenticated(m) == GetAuthUser(body[m]) # None

\* A filter that does nothing to a message whose sender is not known.
PassStranger(m) ==
  /\ \E f \in {"sentfolder", "whitelist_auth", "add_signature", "noreceivedheaders"} : At(m, f)
  /\ ~Authenticated(m) /\ Passes(m)
  /\ Alone /\ UNCHANGED <<message, blamed>>

\* The copy for user, sent by pythonfilter's own user on this host.
CopyOf(m, user) ==
  [user |-> None, received |-> <<Received(None, "short")>> \o body[m].received,
   ip |-> None, sender |-> "daemon", rcpts |-> <<user>>, large |-> mail[m].large, of |-> m]

\* sendmail is started and is given the copy.
SentFolder(m) ==
  /\ At(m, "sentfolder") /\ Authenticated(m) /\ Blames(m)
  /\ \E c \in Messages :
       /\ Fresh(c) /\ Arrives(c, CopyOf(m, GetAuthUser(body[m])))
       /\ at' = [at EXCEPT ![m] = "copy", ![c] = "filter"]
  /\ UNCHANGED <<order, nth, message, verdict, raised, failed, walkVars>>

\* wait() returns when the copy is queued or refused.
CopyDone(m) ==
  /\ at[m] = "copy"
  /\ \E c \in Messages : mail[c].of = m /\ at[c] = "over"
  /\ Passes(m)
  /\ Alone /\ UNCHANGED <<message, blamed>>

WhitelistAuth(m) ==
  /\ At(m, "whitelist_auth") /\ Authenticated(m) /\ Blames(m) /\ Accept(m)
  /\ Alone /\ UNCHANGED message

\* XFilter() has loaded the message and it was changed; now submit() runs.
Holds(m, new) ==
  /\ message' = [message EXCEPT ![m] = new]
  /\ at' = [at EXCEPT ![m] = "write"]
  /\ UNCHANGED <<nth, verdict, fileVars>>

\* A large message is not scanned; another is refused, because spamc says that
\* it is spam (554) or cannot be run (454), or is returned marked.
SpamAssassin(m) ==
  /\ At(m, "spamassassin")
  /\ IF mail[m].large THEN Passes(m) /\ UNCHANGED message
     ELSE \/ Refuse(m) /\ UNCHANGED message
          \/ Holds(m, Scanned(body[m]))
  /\ Alone /\ UNCHANGED blamed

AddSignature(m) ==
  /\ At(m, "add_signature") /\ Authenticated(m)
  /\ IF GetAuthUser(body[m]) \in Signed
     THEN Holds(m, WithSignature(body[m])) /\ Blames(m)
     ELSE Passes(m) /\ UNCHANGED <<message, blamed>>
  /\ Alone

NoReceivedHeaders(m) ==
  /\ At(m, "noreceivedheaders") /\ Authenticated(m) /\ Blames(m)
  /\ Holds(m, WithoutReceived(body[m]))
  /\ Alone

\* submit() opens the data file and empties it.
Truncate(m) ==
  /\ at[m] = "write"
  /\ at' = [at EXCEPT ![m] = "flatten"]
  /\ body' = [body EXCEPT ![m] = Truncated(@)]
  /\ UNCHANGED <<order, nth, message, verdict, raised, failed, mail, dropVars>>

\* It writes the message to it, with a newline at its end, and returns ''.
Flatten(m) ==
  /\ at[m] = "flatten"
  /\ body' = [body EXCEPT ![m] = message[m]]
  /\ message' = [message EXCEPT ![m] = Empty]
  /\ Passes(m)
  /\ UNCHANGED <<order, raised, failed, mail, walkVars, blamed>>

\* An exception while it writes: what there is in the file stays, and the
\* next filter is run.
FlattenFails(m) ==
  /\ Faulty /\ at[m] = "flatten"
  /\ \E piece \in Pieces(message[m]) : body' = [body EXCEPT ![m] = piece]
  /\ message' = [message EXCEPT ![m] = Empty] /\ failed' = failed \cup {m}
  /\ Passes(m)
  /\ UNCHANGED <<order, raised, mail, walkVars, blamed>>

\* sendmail cannot be run or read, a file cannot be opened or parsed: an
\* exception before anything is changed.  getAuthUser finds nobody then.
Raise(m) ==
  /\ Faulty
  /\ at[m] \in {"filter", "copy", "write"}
  /\ raised' = raised \cup {m} /\ message' = [message EXCEPT ![m] = Empty]
  /\ Passes(m)
  /\ UNCHANGED <<order, failed, mail, body, walkVars, blamed>>

\* pythonfilter dies: no message it had is queued.
Kill ==
  LET had == {m \in Messages : at[m] \notin {"none", "over"}}
  IN  /\ had # {}
      /\ at' = [m \in Messages |-> IF m \in had THEN "over" ELSE at[m]]
      /\ verdict' = [m \in Messages |-> IF m \in had THEN "none" ELSE verdict[m]]
      /\ control' = [m \in Messages |-> IF m \in had THEN "gone" ELSE control[m]]
      /\ data'    = [m \in Messages |-> IF m \in had THEN "gone" ELSE data[m]]
      /\ body'    = [m \in Messages |-> IF m \in had THEN Empty ELSE body[m]]
      /\ message' = [m \in Messages |-> Empty] /\ nth' = [m \in Messages |-> 1]
      /\ UNCHANGED <<order, raised, failed, mail, walkVars, blamed>>

FilterStep(m) ==
  \/ PassStranger(m) \/ SentFolder(m) \/ CopyDone(m) \/ WhitelistAuth(m)
  \/ SpamAssassin(m) \/ AddSignature(m) \/ NoReceivedHeaders(m)
  \/ Truncate(m) \/ Flatten(m) \/ FlattenFails(m) \/ Raise(m)

QueueStep == Walk \/ \E m \in Messages : Delivered(m)

Next ==
  \/ \E m \in Messages : Submit(m) \/ FilterStep(m)
  \/ Kill
  \/ QueueStep /\ UNCHANGED <<filterVars, mail, body>>

Spec == Init /\ [][Next]_vars

-----------------------------------------------------------------------------
Places == {"none", "spool", "queue", "quarantine", "gone"}

TypeOK ==
  /\ order \in Orders
  /\ at \in [Messages -> {"none", "filter", "copy", "write", "flatten", "over"}]
  /\ nth \in [Messages -> 1..Len(order)]
  /\ verdict \in [Messages -> {"unanswered", "200", "refused", "none"}]
  /\ control \in [Messages -> Places] /\ data \in [Messages -> Places]
  /\ \A m \in Messages :
       /\ verdict[m] # "unanswered" <=> at[m] = "over"
       /\ at[m] \in {"filter", "copy", "write", "flatten"} <=> control[m] = "spool"
       /\ message[m] # Empty => at[m] \in {"write", "flatten"}
       /\ mail[m].of # None => mail[m].of < m
  /\ listed \subseteq Messages /\ cur \in Messages \cup {0} /\ due \subseteq Messages
  /\ raised \cup failed \subseteq Messages

Users(received) == [i \in DOMAIN received |-> received[i].user]

Copies(m) == {c \in Messages : mail[c].of = m}

\* Whatever was done to a data file, and whatever Received headers a client
\* wrote into it, nobody is taken for the sender of a message but the user
\* who was authenticated when it was submitted: no message is exempted,
\* signed or moved to the quarantine on his account, and he is sent one copy
\* of each of his own, never a copy of a copy (control.py:304-371).
AuthTrusted ==
  /\ blamed = {}
  /\ \A m \in Messages : Cardinality(Copies(m)) <= IF mail[m].user = None THEN 0 ELSE 1

\* The rewrites that the filters of list owe a message, by who sent it and how
\* large it is.  A filter knows the sender unless one before it removed the
\* Received headers, or broke the line that names him; whitelist_auth ends them
\* all.
Signs(new, f) == f = "add_signature" /\ new.user \in Signed
Scans(new, f) == f = "spamassassin" /\ ~new.large
Hides(new, f) ==
  \/ f = "noreceivedheaders"
  \/ new.received[1].line = "long" /\ (Signs(new, f) \/ Scans(new, f))

Knows(new, list, i) == new.user # None /\ \A j \in 1..(i - 1) : ~Hides(new, list[j])

Owes(new, list, i) ==
  /\ \A j \in 1..i : ~(list[j] = "whitelist_auth" /\ Knows(new, list, j))
  /\ \/ Scans(new, list[i])
     \/ Knows(new, list, i) /\ (Signs(new, list[i]) \/ list[i] = "noreceivedheaders")

Owed(new, list) ==
  FlattenSeq([i \in DOMAIN list |-> IF Owes(new, list, i) THEN <<list[i]>> ELSE <<>>])

\* A queued message has its whole text, unless writing it failed.  Where no
\* filter raised it was given the rewrites it is owed, each once and in the
\* order of pythonfilter.conf, and it says who relayed it just as it did when
\* it came, or not at all if its sender is to be kept private.
BodyIsRight ==
  \A m \in Messages : verdict[m] = "200" /\ m \notin failed =>
    /\ body[m].whole
    /\ m \notin raised =>
         LET owed == Owed(mail[m], order)
         IN  /\ body[m].rewrites = owed
             /\ Users(body[m].received) =
                  IF Contains(owed, "noreceivedheaders") THEN <<>> ELSE Users(mail[m].received)
=============================================================================
