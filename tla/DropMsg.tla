------------------------------- MODULE DropMsg -------------------------------
(***************************************************************************)
(* The command dropmsg: it walks the directories of Courier's queue and    *)
(* moves every message that meets a criterion to the quarantine, control   *)
(* file first, while Courier delivers and queues messages.  A name ending  *)
(* in _M is what follows it with a mistake, for mutation checks.           *)
(***************************************************************************)
EXTENDS XFilter

CONSTANTS
  Messages,  \* bound: the messages there may be, as numbers
  Dir,       \* the directory of the queue that each belongs in
  Criteria   \* what dropmsg may be asked for: [auth, ip, sender], sets

ASSUME DropMsgAssumption ==
  /\ Messages \subseteq Nat /\ Messages \subseteq DOMAIN Dir /\ None \notin Messages
  /\ \A crit \in Criteria :
       crit.auth \cup crit.ip \cup crit.sender # {} /\ None \notin crit.auth \cup crit.ip

VARIABLES
  mail,    \* what each message is: [user, received, ip, sender, rcpts, large, of]
  body,    \* its data file
  control, \* where its control file is: "none", "spool", "queue", "quarantine", "gone"
  data,    \* where its data file is
  step,    \* what dropmsg does next: "none" before it runs
  after,   \* what it does once a message is moved
  ahead,   \* the directories it has not listed
  listed,  \* the control files it has listed and not looked at
  cur,     \* the message it looks at
  crit,    \* what it was asked for
  due,     \* history: the messages that met a criterion when it started
  blamed   \* history: <<message, user>> if something was done to the message
           \* because that user sent it, who did not

walkVars  == <<step, after, ahead, listed, cur, crit, due>>
fileVars  == <<control, data>>
dropVars  == <<walkVars, fileVars, blamed>>

Wrong(m, user) == {<<m, user>>} \ {<<m, mail[m].user>>}

Queued(m) == control[m] = "queue" /\ data[m] = "queue"

\* The sender of a message that is a bounce, "" in the code.
NullSender == "null"

\* What search() asks of a message, of a bounce by its first recipient.
Meets(m, c) ==
  \/ GetAuthUser(body[m]) \in c.auth
  \/ mail[m].ip \in c.ip
  \/ mail[m].sender \in c.sender
  \/ mail[m].sender = NullSender /\ mail[m].rcpts # <<>> /\ mail[m].rcpts[1] \in c.sender

Nothing == [auth |-> {}, ip |-> {}, sender |-> {}]

WalkInit ==
  /\ step = "none" /\ after = "none" /\ ahead = {} /\ listed = {}
  /\ cur = 0 /\ crit = Nothing /\ due = {}

\* A walk of a queue that is empty when it starts is left out.
StartWalk ==
  /\ step = "none" /\ step' = "next"
  /\ \E m \in Messages : control[m] = "queue"
  /\ crit' \in Criteria
  /\ ahead' = {Dir[m] : m \in Messages}
  /\ due' = {m \in Messages : Queued(m) /\ Meets(m, crit')}
  /\ UNCHANGED <<after, listed, cur, fileVars, blamed>>

\* os.walk lists a directory when it comes to it.
ListDir ==
  /\ step = "next" /\ listed = {}
  /\ \E dir \in ahead :
       /\ ahead' = ahead \ {dir}
       /\ listed' = {m \in Messages : control[m] = "queue" /\ Dir[m] = dir}
  /\ UNCHANGED <<step, after, cur, crit, due, fileVars, blamed>>

NextFile ==
  /\ step = "next"
  /\ \E m \in listed : cur' = m /\ listed' = listed \ {m}
  /\ step' = "auth"
  /\ UNCHANGED <<after, ahead, crit, due, fileVars, blamed>>

EndWalk ==
  /\ step = "next" /\ ahead = {} /\ listed = {} /\ step' = "ended"
  /\ UNCHANGED <<after, ahead, listed, cur, crit, due, fileVars, blamed>>

\* A criterion decides: the message is moved, or the next one is looked at.
\* An exception ends dropmsg.
Go(next)   == step' = next /\ after' = "none"
Drop(next) == step' = "cf" /\ after' = next
Raises     == Go("raised")

Walks == UNCHANGED <<ahead, listed, cur, crit, due, fileVars>>

\* A data file that cannot be opened names nobody.
SearchAuth ==
  LET user == IF data[cur] = "queue" THEN GetAuthUser(body[cur]) ELSE None
  IN  /\ step = "auth" /\ Walks
      /\ IF user \in crit.auth
         THEN Drop("ip") /\ blamed' = blamed \cup Wrong(cur, user)
         ELSE Go("ip") /\ UNCHANGED blamed

\* The address is asked for only if no user is.
SearchIP_M ==
  /\ step = "ip" /\ Walks /\ UNCHANGED blamed
  /\ CASE crit.ip = {} \/ crit.auth # {} -> Go("sender")
       [] crit.ip # {} /\ crit.auth = {} /\ control[cur] # "queue" -> Raises
       [] OTHER -> IF mail[cur].ip \in crit.ip THEN Drop("sender") ELSE Go("sender")

SearchIP ==
  /\ step = "ip" /\ Walks /\ UNCHANGED blamed
  /\ CASE crit.ip = {}                               -> Go("sender")
       [] crit.ip # {} /\ control[cur] # "queue"     -> Raises
       [] OTHER -> IF mail[cur].ip \in crit.ip THEN Drop("sender") ELSE Go("sender")

SearchSender ==
  LET next == IF mail[cur].sender = NullSender THEN "rcpt" ELSE "next"
  IN  /\ step = "sender" /\ Walks /\ UNCHANGED blamed
      /\ CASE crit.sender = {}                           -> Go("next")
           [] crit.sender # {} /\ control[cur] # "queue" -> Raises
           [] OTHER -> IF mail[cur].sender \in crit.sender THEN Drop(next) ELSE Go(next)

\* crecipient[0] raises if nobody is to receive it any more.
SearchRcpt ==
  /\ step = "rcpt" /\ Walks /\ UNCHANGED blamed
  /\ IF control[cur] # "queue" \/ mail[cur].rcpts = <<>> THEN Raises
     ELSE IF mail[cur].rcpts[1] \in crit.sender THEN Drop("next") ELSE Go("next")

DropControl ==
  /\ step = "cf"
  /\ IF control[cur] = "queue"
     THEN control' = [control EXCEPT ![cur] = "quarantine"] /\ step' = "df" /\ UNCHANGED after
     ELSE Raises /\ UNCHANGED control
  /\ UNCHANGED <<ahead, listed, cur, crit, due, data, blamed>>

DropData ==
  /\ step = "df"
  /\ IF data[cur] = "queue"
     THEN data' = [data EXCEPT ![cur] = "quarantine"] /\ Go(after)
     ELSE Raises /\ UNCHANGED data
  /\ UNCHANGED <<ahead, listed, cur, crit, due, control, blamed>>

Walking == step \notin {"none", "ended", "raised", "killed"}

\* The process is killed.
KillWalk ==
  /\ Walking /\ Go("killed")
  /\ UNCHANGED <<ahead, listed, cur, crit, due, fileVars, blamed>>

\* Courier is done with a message.  Bound: it is never done with one before the
\* walk or after it, which is as if that message were not there.
Delivered(m) ==
  /\ Walking /\ "queue" \in {control[m], data[m]}
  /\ control' = [control EXCEPT ![m] = IF @ = "queue" THEN "gone" ELSE @]
  /\ data'    = [data    EXCEPT ![m] = IF @ = "queue" THEN "gone" ELSE @]
  /\ UNCHANGED <<walkVars, blamed>>

Walk ==
  \/ StartWalk \/ ListDir \/ NextFile \/ EndWalk
  \/ SearchAuth \/ SearchIP \/ SearchSender \/ SearchRcpt
  \/ DropControl \/ DropData \/ KillWalk

\* A walk that comes to its end has moved every message that met a criterion
\* when it started and that Courier has not delivered since, and where a walk
\* was not stopped in the middle of a message its two files are together.
WalkComplete ==
  /\ step = "ended" =>
       \A m \in due : "queue" \notin {control[m], data[m]}
  /\ \A m \in Messages :
       control[m] # data[m] => m = cur /\ step \in {"df", "raised", "killed"}
=============================================================================
