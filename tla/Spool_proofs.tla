---------------------------- MODULE Spool_proofs ----------------------------
(***************************************************************************)
(* Proofs about modules Spool and DropMsg, for every set of messages, of   *)
(* orders of filters and of criteria, any number of users, directories and *)
(* Received headers, and however many accesses raise.                      *)
(***************************************************************************)
EXTENDS Spool, FiniteSetTheorems, TLAPS

Bodies == [received : Seq(Header), rewrites : Seq(Filters), whole : BOOLEAN]

\* At most one line of pythonfilter.conf names sentfolder.
SentFolderOnce ==
  \A list \in Orders : \A i, j \in DOMAIN list :
    list[i] = "sentfolder" /\ list[j] = "sentfolder" => i = j

-----------------------------------------------------------------------------
(* What a data file says of who sent it.                                   *)
\* The first Received header, if there is any, names the user.
Names(b, user) == b.received # <<>> => b.received[1].user = user

\* What is in a data file, or is about to be, names the message's own user.
\* A message that was not cut off when it was written is whole.
DataInv ==
  /\ body \in [Messages -> Bodies] /\ message \in [Messages -> Bodies]
  /\ DOMAIN mail = Messages
  /\ crit \in Criteria \cup {Nothing}
  /\ \A m \in Messages :
       /\ Names(body[m], mail[m].user) /\ Names(message[m], mail[m].user)
       /\ m \notin failed =>
            /\ at[m] # "flatten" => body[m].whole
            /\ at[m] \in {"write", "flatten"} => message[m].whole

-----------------------------------------------------------------------------
(* Copies.                                                                 *)
\* Messages come in order, a copy after what it is a copy of.
OrderInv ==
  \A m, n \in Messages : m < n /\ at[n] # "none" => at[m] # "none"

\* A message has come to sentfolder when there is a copy of it.
Copied(m) ==
  \/ at[m] = "over"
  \/ at[m] = "copy"
  \/ at[m] # "none" /\ \E j \in 1..(nth[m] - 1) : order[j] = "sentfolder"

CopiesInv ==
  /\ \A m \in Messages : at[m] = "copy" => order[nth[m]] = "sentfolder"
  /\ \A c \in Messages : mail[c].of # None =>
       /\ mail[c].of \in Messages /\ mail[mail[c].of].user # None
       /\ Copied(mail[c].of)
  /\ \A c, d \in Messages : mail[c].of # None /\ mail[c].of = mail[d].of => c = d

-----------------------------------------------------------------------------
(* The walk.                                                               *)
Looking == {"auth", "ip", "sender", "rcpt", "cf"}

SenderMeets(m) ==
  \/ mail[m].sender \in crit.sender
  \/ mail[m].sender = NullSender /\ mail[m].rcpts # <<>> /\ mail[m].rcpts[1] \in crit.sender

\* A message of interest in the queue is ahead of the walk, or the criteria
\* that are left to ask of it will tell.
Pending(m) ==
  \/ Dir[m] \in ahead
  \/ m \in listed
  \/ /\ m = cur /\ step \in Looking
     /\ step = "ip" => mail[m].ip \in crit.ip \/ SenderMeets(m)
     /\ step = "sender" => SenderMeets(m)
     /\ step = "rcpt" => /\ mail[m].rcpts # <<>>
                         /\ mail[m].rcpts[1] \in crit.sender

WalkInv ==
  /\ step \in Looking \cup {"none", "next", "df", "ended", "raised", "killed"}
  /\ after \in {"none", "ip", "sender", "rcpt", "next"}
  /\ step \in {"cf", "df"} => after # "none"
  /\ step \in Looking \cup {"df"} => cur \in Messages /\ at[cur] = "over"
  /\ \A m \in listed : at[m] = "over"
  /\ step = "none" => due = {}
  /\ step = "ended" => ahead = {} /\ listed = {}
  /\ step = "df" => control[cur] = "quarantine"
  /\ \A m \in Messages :
       /\ at[m] # "over" => control[m] = data[m] /\ control[m] \in {"none", "spool"}
       /\ control[m] # data[m] => m = cur /\ step \in {"df", "raised", "killed"}
  /\ \A m \in due :
       /\ at[m] = "over" /\ Meets(m, crit)
       /\ control[m] = "queue" /\ step \notin {"raised", "killed"} => Pending(m)

-----------------------------------------------------------------------------
(* Data files.                                                             *)
LEMMA Constants ==
  /\ None \notin AuthUsers /\ Messages \subseteq Nat /\ None \notin Messages
  /\ \A list \in Orders : list \in Seq(Filters) /\ list # <<>>
  /\ \A new \in Mails : /\ new.received \in Seq(Header) /\ new.received # <<>>
                        /\ new.received[1].user = new.user /\ new.of = None
  /\ \A c \in Criteria \cup {Nothing} : None \notin c.auth
BY XFilterAssumption, DropMsgAssumption, SpoolAssumption DEF Nothing

\* Breaking its lines leaves the Received headers of a message, and their
\* users, as they are.
LEMMA GeneratedBody ==
  ASSUME NEW b \in Bodies, NEW u, Names(b, u)
  PROVE  Generated(b) \in Bodies /\ Names(Generated(b), u) /\ Generated(b).whole = b.whole
<1> DEFINE r == [i \in DOMAIN b.received |->
                   IF b.received[i].line = "long" THEN Received(b.received[i].user, "folded")
                   ELSE b.received[i]]
<1>1. b.received \in Seq(Header)
  BY DEF Bodies
<1>2. PICK n \in Nat : n = Len(b.received) /\ DOMAIN b.received = 1..n
  BY <1>1
<1>3. \A i \in 1..n : r[i] \in Header /\ r[i].user = b.received[i].user
  <2> TAKE i \in 1..n
  <2>1. b.received[i] \in Header
    BY <1>1, <1>2
  <2>2. b.received[i].user \in AuthUsers \cup {None}
    BY <2>1 DEF Header
  <2>3. Received(b.received[i].user, "folded") \in Header
    BY <2>2 DEF Header, Received, Lines
  <2> QED BY <1>2, <2>1, <2>3 DEF Received
<1>4. r \in [1..n -> Header]
  BY <1>2, <1>3
<1>5. r \in Seq(Header) /\ Len(r) = n
  BY <1>4
<1>6. Names([b EXCEPT !.received = r], u)
  <2>1. CASE n = 0
    BY <1>5, <2>1 DEF Names, Bodies
  <2>2. CASE n # 0
    <3>1. b.received # <<>> /\ 1 \in 1..n
      BY <1>1, <1>2, <2>2
    <3>2. r[1].user = u
      BY <1>3, <3>1 DEF Names
    <3> QED BY <3>2 DEF Names, Bodies
  <2> QED BY <2>1, <2>2
<1>7. Generated(b) = [b EXCEPT !.received = r]
  BY DEF Generated, Bodies
<1> QED BY <1>5, <1>6, <1>7 DEF Bodies

\* What a filter submits of a message names whom the message named, or nobody,
\* and is whole if the message was.
LEMMA RewrittenBody ==
  ASSUME NEW b \in Bodies, NEW u, Names(b, u)
  PROVE  \A new \in {WithSignature(b), Scanned(b), WithoutReceived(b)} :
           new \in Bodies /\ Names(new, u) /\ new.whole = b.whole
<1>1. ASSUME NEW f \in Filters, NEW r \in {b.received, <<>>}
      PROVE  /\ Rewritten(b, f, r) \in Bodies /\ Names(Rewritten(b, f, r), u)
             /\ Rewritten(b, f, r).whole = b.whole
  <2> DEFINE new == [b EXCEPT !.rewrites = Append(b.rewrites, f), !.received = r]
  <2>1. Append(b.rewrites, f) \in Seq(Filters) /\ r \in Seq(Header)
    <3>1. b.rewrites \in Seq(Filters) /\ b.received \in Seq(Header)
      BY DEF Bodies
    <3>2. Append(b.rewrites, f) \in Seq(Filters)
      BY <3>1
    <3>3. <<>> \in Seq(Header)
      OBVIOUS
    <3> QED BY <3>1, <3>2, <3>3
  <2>2. new \in Bodies /\ new.received = r /\ new.whole = b.whole
    BY <2>1 DEF Bodies
  <2>3. Names(new, u)
    BY <2>2 DEF Names
  <2>4. Rewritten(b, f, r) = Generated(new)
    BY DEF Rewritten, Bodies
  <2> HIDE DEF new
  <2> QED BY <2>2, <2>3, <2>4, GeneratedBody
<1> QED
  BY <1>1 DEF WithSignature, Scanned, WithoutReceived, Filters

\* A piece of a message names whom the message named, or nobody.
LEMMA PieceOfBody ==
  ASSUME NEW b \in Bodies, NEW u, Names(b, u)
  PROVE  \A piece \in Pieces(b) : piece \in Bodies /\ Names(piece, u)
<1> SUFFICES ASSUME NEW n \in 0..Len(b.received)
             PROVE  LET piece == Body(SubSeq(b.received, 1, n), b.rewrites, FALSE)
                    IN  piece \in Bodies /\ Names(piece, u)
  BY DEF Pieces
<1> DEFINE r == SubSeq(b.received, 1, n)
<1>1. b.received \in Seq(Header) /\ b.rewrites \in Seq(Filters)
  BY DEF Bodies
<1>2. PICK k \in Nat : k = Len(b.received)
  BY <1>1
<1>3. n \in Nat /\ n <= k
  BY <1>2
<1>4. r \in Seq(Header) /\ Len(r) = n /\ \A i \in 1..n : r[i] = b.received[i]
  BY <1>1, <1>2, <1>3
<1>5. r # <<>> => b.received # <<>> /\ r[1] = b.received[1]
  BY <1>1, <1>2, <1>3, <1>4
<1> HIDE DEF r
<1> QED BY <1>1, <1>4, <1>5 DEF Body, Bodies, Names

\* What getAuthUser finds is the message's own user, or nobody.
LEMMA FindsUser ==
  ASSUME NEW b \in Bodies, NEW u, Names(b, u)
  PROVE  GetAuthUser(b) \in {u, None}
BY DEF GetAuthUser, CheckHeader, Names

-----------------------------------------------------------------------------
(* Types.                                                                  *)
Filtered == {"filter", "copy", "write", "flatten"}

\* The parts of TypeOK about where messages are.
PlacesOK ==
  /\ at \in [Messages -> Filtered \cup {"none", "over"}]
  /\ nth \in [Messages -> 1..Len(order)]
  /\ verdict \in [Messages -> {"unanswered", "200", "refused", "none"}]
  /\ control \in [Messages -> Places] /\ data \in [Messages -> Places]
  /\ \A m \in Messages :
       /\ verdict[m] # "unanswered" <=> at[m] = "over"
       /\ at[m] \in Filtered <=> control[m] = "spool"

\* The parts about what they are.
KindsOK ==
  \A m \in Messages :
    /\ message[m] # Empty => at[m] \in {"write", "flatten"}
    /\ mail[m].of # None => mail[m].of < m

LEMMA TypeParts ==
  TypeOK <=> /\ order \in Orders /\ PlacesOK /\ KindsOK
             /\ listed \subseteq Messages /\ cur \in Messages \cup {0}
             /\ due \subseteq Messages /\ raised \cup failed \subseteq Messages
BY DEF TypeOK, PlacesOK, KindsOK, Filtered

LEMMA OrderLen ==
  ASSUME order \in Orders
  PROVE  Len(order) \in Nat \ {0} /\ 1 \in 1..Len(order)
<1>1. order \in Seq(Filters) /\ order # <<>>
  BY Constants
<1> QED BY <1>1

\* Whichever way a filter goes on, each message stays somewhere.
LEMMA GoesOn ==
  ASSUME order \in Orders, PlacesOK, NEW m \in Messages, at[m] \in Filtered,
         order' = order,
         \/ Passes(m) \/ Accept(m) \/ Refuse(m)
         \/ /\ \E p \in Filtered : at' = [at EXCEPT ![m] = p]
            /\ UNCHANGED <<nth, verdict, fileVars>>
  PROVE  /\ PlacesOK'
         /\ at'[m] \in Filtered \cup {"over"}
         /\ \A n \in Messages \ {m} : at'[n] = at[n]
<1> USE DEF PlacesOK, Filtered, fileVars, Places
<1>1. PICK k \in Nat : k = Len(order) /\ 1 \in 1..k
  BY OrderLen
<1>2. ASSUME NEW v \in {"200", "refused"}, NEW p \in {"queue", "gone"}, Ends(m, v, p)
      PROVE  PlacesOK' /\ at'[m] = "over" /\ \A n \in Messages \ {m} : at'[n] = at[n]
  BY <1>1, <1>2 DEF Ends
<1>3. CASE Accept(m) \/ Refuse(m)
  BY <1>2, <1>3 DEF Accept, Refuse
<1>4. CASE Passes(m) /\ nth[m] # Len(order)
  <2>1. nth[m] + 1 \in 1..k /\ nth' = [nth EXCEPT ![m] = nth[m] + 1]
    BY <1>1, <1>4 DEF Passes
  <2>2. nth' \in [Messages -> 1..Len(order)]
    BY <1>1, <2>1
  <2> QED BY <1>4, <2>2 DEF Passes
<1>5. CASE /\ \E p \in Filtered : at' = [at EXCEPT ![m] = p]
           /\ UNCHANGED <<nth, verdict, fileVars>>
  BY <1>5
<1> QED BY <1>3, <1>4, <1>5 DEF Passes

\* What a step that submits message c does, whatever else it does.
LEMMA ArrivesType ==
  ASSUME order \in Orders, PlacesOK, NEW c \in Messages, at[c] = "none", order' = order,
         NEW new, Arrives(c, new), NEW m \in Messages,
         \/ at' = [at EXCEPT ![c] = "filter"]
         \/ at[m] \in Filtered /\ at' = [at EXCEPT ![m] = "copy", ![c] = "filter"],
         UNCHANGED <<nth, verdict>>
  PROVE  PlacesOK'
BY DEF PlacesOK, Filtered, Places, Arrives

LEMMA InitTypeOK == Init => TypeOK
<1> SUFFICES ASSUME Init PROVE TypeOK
  OBVIOUS
<1> USE DEF Init, WalkInit
<1>1. PlacesOK
  BY OrderLen DEF PlacesOK, Filtered, Places
<1>2. KindsOK
  BY DEF KindsOK, NoMail, Empty, Body
<1> QED BY <1>1, <1>2, TypeParts

\* What dropmsg and Courier do in the queue.
LEMMA QueueType ==
  ASSUME PlacesOK, listed \subseteq Messages, cur \in Messages \cup {0},
         due \subseteq Messages, QueueStep, UNCHANGED <<filterVars, mail, body>>
  PROVE  /\ PlacesOK' /\ listed' \subseteq Messages
         /\ cur' \in Messages \cup {0} /\ due' \subseteq Messages
<1> USE DEF PlacesOK, Filtered, Places, filterVars, walkVars, fileVars
<1>1. CASE StartWalk BY <1>1 DEF StartWalk
<1>2. CASE ListDir BY <1>2 DEF ListDir
<1>3. CASE NextFile BY <1>3 DEF NextFile
<1>4. CASE EndWalk \/ KillWalk BY <1>4 DEF EndWalk, KillWalk, Go
<1>5. CASE SearchAuth \/ SearchIP \/ SearchSender \/ SearchRcpt
  BY <1>5 DEF SearchAuth, SearchIP, SearchSender, SearchRcpt, Walks
<1>6. CASE DropControl BY <1>6 DEF DropControl
<1>7. CASE DropData BY <1>7 DEF DropData
<1>8. ASSUME NEW m \in Messages, Delivered(m)
      PROVE  /\ PlacesOK' /\ listed' \subseteq Messages
             /\ cur' \in Messages \cup {0} /\ due' \subseteq Messages
  BY <1>8 DEF Delivered
<1> QED BY <1>1, <1>2, <1>3, <1>4, <1>5, <1>6, <1>7, <1>8 DEF QueueStep, Walk

\* What every step of a filter but the one of sentfolder does to its message.
LEMMA FilterMoves ==
  ASSUME TypeOK, NEW m \in Messages, FilterStep(m), ~SentFolder(m)
  PROVE  /\ at[m] \in Filtered /\ UNCHANGED <<order, mail, walkVars>>
         /\ PlacesOK' /\ at'[m] \in Filtered \cup {"over"}
         /\ \A n \in Messages \ {m} : at'[n] = at[n]
<1> DEFINE Way == \/ Passes(m) \/ Accept(m) \/ Refuse(m)
                  \/ /\ \E p \in Filtered : at' = [at EXCEPT ![m] = p]
                     /\ UNCHANGED <<nth, verdict, fileVars>>
<1> USE DEF Alone
<1>1. at[m] \in Filtered /\ UNCHANGED <<order, mail, walkVars>> /\ Way
  <2>1. CASE PassStranger(m) BY <2>1 DEF PassStranger, At, Filtered
  <2>2. CASE CopyDone(m) BY <2>2 DEF CopyDone, Filtered
  <2>3. CASE WhitelistAuth(m) BY <2>3 DEF WhitelistAuth, At, Filtered
  <2>4. CASE SpamAssassin(m) BY <2>4 DEF SpamAssassin, At, Filtered, Holds
  <2>5. CASE AddSignature(m) BY <2>5 DEF AddSignature, At, Filtered, Holds
  <2>6. CASE NoReceivedHeaders(m) BY <2>6 DEF NoReceivedHeaders, At, Filtered, Holds
  <2>7. CASE Truncate(m) BY <2>7 DEF Truncate, Filtered, dropVars
  <2>8. CASE Flatten(m) BY <2>8 DEF Flatten, Filtered
  <2>9. CASE FlattenFails(m) BY <2>9 DEF FlattenFails, Filtered
  <2>10. CASE Raise(m) BY <2>10 DEF Raise, Filtered
  <2> QED BY <2>1, <2>2, <2>3, <2>4, <2>5, <2>6, <2>7, <2>8, <2>9, <2>10 DEF FilterStep
<1> HIDE DEF Way
<1>2. order \in Orders /\ PlacesOK
  BY TypeParts
<1> QED BY <1>1, <1>2, GoesOn DEF Way

LEMMA KillMoves ==
  ASSUME TypeOK, Kill
  PROVE  PlacesOK' /\ \A n \in Messages :
           /\ at[n] \in Filtered => at'[n] = "over" /\ body'[n] = Empty
           /\ at[n] \notin Filtered => at'[n] = at[n] /\ body'[n] = body[n]
<1>1. PlacesOK /\ order \in Orders
  BY TypeParts
<1>2. nth' \in [Messages -> 1..Len(order')]
  BY <1>1, OrderLen DEF Kill
<1> QED BY <1>1, <1>2 DEF Kill, PlacesOK, Filtered, Places

\* Messages come one by one.
LEMMA OrderStep ==
  ASSUME TypeOK, OrderInv, [Next]_vars
  PROVE  OrderInv'
<1> USE DEF TypeOK, OrderInv
<1>1. ASSUME \A n \in Messages : at'[n] = "none" <=> at[n] = "none"
      PROVE  OrderInv'
  BY <1>1
<1>2. ASSUME NEW c \in Messages, Fresh(c), at'[c] # "none",
             \A n \in Messages \ {c} : at'[n] = "none" <=> at[n] = "none"
      PROVE  OrderInv'
  <2> SUFFICES ASSUME NEW m \in Messages, NEW n \in Messages, m < n, at'[n] # "none",
                      at'[m] = "none"
               PROVE  FALSE
    OBVIOUS
  <2>1. m # c /\ at[m] = "none" BY <1>2
  <2>2. CASE n = c BY <1>2, <2>1, <2>2 DEF Fresh
  <2>3. CASE n # c BY <1>2, <2>1, <2>3
  <2> QED BY <2>2, <2>3
<1>3. ASSUME NEW m \in Messages, Submit(m) PROVE OrderInv'
  BY <1>2, <1>3 DEF Submit
<1>4. ASSUME NEW m \in Messages, SentFolder(m) PROVE OrderInv'
  BY <1>2, <1>4 DEF SentFolder, At, Fresh
<1>5. ASSUME NEW m \in Messages, FilterStep(m), ~SentFolder(m) PROVE OrderInv'
  <2>1. at[m] # "none" /\ at'[m] # "none" /\ \A n \in Messages \ {m} : at'[n] = at[n]
    BY <1>5, FilterMoves DEF Filtered
  <2> QED BY <1>1, <2>1
<1>6. CASE Kill
  <2>1. \A n \in Messages : at'[n] = "none" <=> at[n] = "none"
    BY <1>6, KillMoves DEF Filtered
  <2> QED BY <1>1, <2>1
<1>7. CASE QueueStep /\ UNCHANGED <<filterVars, mail, body>>
  BY <1>1, <1>7 DEF filterVars
<1>8. CASE UNCHANGED vars BY <1>1, <1>8 DEF vars, filterVars
<1> QED BY <1>3, <1>4, <1>5, <1>6, <1>7, <1>8 DEF Next

LEMMA TypeStep ==
  ASSUME TypeOK, OrderInv, DOMAIN mail = Messages, DOMAIN message = Messages, [Next]_vars
  PROVE  TypeOK'
<1> USE DEF filterVars, walkVars, dropVars
<1>1. order \in Orders /\ PlacesOK /\ KindsOK
  BY TypeParts
<1> DEFINE Rest == /\ listed \subseteq Messages /\ cur \in Messages \cup {0}
                   /\ due \subseteq Messages /\ raised \cup failed \subseteq Messages
<1>2. order' \in Orders /\ PlacesOK' /\ KindsOK' /\ Rest' => TypeOK'
  BY DEF TypeOK, PlacesOK, KindsOK, Filtered
<1>3. Rest
  BY TypeParts
<1>4. ASSUME NEW m \in Messages, Submit(m) PROVE TypeOK'
  <2>1. PICK new \in Mails : Arrives(m, new)
    BY <1>4 DEF Submit
  <2>2. at[m] = "none"
    BY <1>4 DEF Submit, Fresh
  <2>3. PlacesOK'
    BY <1>1, <1>4, <2>1, <2>2, ArrivesType DEF Submit
  <2>4. KindsOK'
    BY <1>1, <1>4, <2>1, <2>2, Constants DEF Submit, Arrives, KindsOK, PlacesOK
  <2> QED BY <1>1, <1>4, <1>2, <1>3, <2>3, <2>4 DEF Submit
<1>5. ASSUME NEW m \in Messages, SentFolder(m) PROVE TypeOK'
  <2>1. PICK c \in Messages :
          /\ Fresh(c) /\ Arrives(c, CopyOf(m, GetAuthUser(body[m])))
          /\ at' = [at EXCEPT ![m] = "copy", ![c] = "filter"]
    BY <1>5 DEF SentFolder
  <2>2. at[c] = "none" /\ at[m] = "filter" /\ order' = order /\ UNCHANGED <<nth, verdict>>
    BY <1>5, <2>1 DEF SentFolder, Fresh, At
  <2>3. PlacesOK'
    BY <1>1, <2>1, <2>2, ArrivesType DEF Filtered
  <2>4. m < c
    BY <2>2, Constants DEF OrderInv
  <2>5. mail' = [mail EXCEPT ![c] = CopyOf(m, GetAuthUser(body[m]))]
        /\ CopyOf(m, GetAuthUser(body[m])).of = m
    BY <2>1 DEF Arrives, CopyOf
  <2>6. KindsOK'
    BY <1>1, <1>5, <2>1, <2>2, <2>4, <2>5 DEF SentFolder, KindsOK, PlacesOK
  <2> QED BY <1>1, <1>5, <1>2, <1>3, <2>3, <2>6 DEF SentFolder
<1>6. ASSUME NEW m \in Messages, FilterStep(m), ~SentFolder(m) PROVE TypeOK'
  <2>1. /\ at[m] \in Filtered /\ UNCHANGED <<order, mail, walkVars>>
        /\ PlacesOK' /\ at'[m] \in Filtered \cup {"over"}
        /\ \A n \in Messages \ {m} : at'[n] = at[n]
    BY <1>6, FilterMoves
  <2>2. raised' \cup failed' \subseteq Messages
    BY <1>6 DEF FilterStep, PassStranger, CopyDone, WhitelistAuth, SpamAssassin, AddSignature,
                NoReceivedHeaders, Truncate, Flatten, FlattenFails, Raise, Alone, TypeOK
  <2>3. /\ \A n \in Messages \ {m} : message'[n] = message[n]
        /\ message'[m] # Empty => at'[m] \in {"write", "flatten"}
    <3> USE DEF Alone, KindsOK, PlacesOK
    <3>1. CASE message' = message /\ at[m] \notin {"write", "flatten"}
      BY <1>1, <3>1
    <3>2. CASE message' = [message EXCEPT ![m] = Empty]
      BY <3>2
    <3>3. ASSUME NEW new, Holds(m, new)
          PROVE  /\ \A n \in Messages \ {m} : message'[n] = message[n]
                 /\ message'[m] # Empty => at'[m] \in {"write", "flatten"}
      BY <1>1, <3>3 DEF Holds
    <3>4. CASE PassStranger(m) \/ CopyDone(m) \/ WhitelistAuth(m)
      BY <3>1, <3>4 DEF PassStranger, CopyDone, WhitelistAuth, At
    <3>5. CASE SpamAssassin(m) BY <3>1, <3>3, <3>5 DEF SpamAssassin, At
    <3>6. CASE AddSignature(m) BY <3>1, <3>3, <3>6 DEF AddSignature, At
    <3>7. CASE NoReceivedHeaders(m) BY <3>3, <3>7 DEF NoReceivedHeaders
    <3>8. CASE Truncate(m) BY <1>1, <3>8 DEF Truncate
    <3>9. CASE Flatten(m) \/ FlattenFails(m) \/ Raise(m)
      BY <3>2, <3>9 DEF Flatten, FlattenFails, Raise
    <3> QED BY <1>6, <3>4, <3>5, <3>6, <3>7, <3>8, <3>9 DEF FilterStep
  <2>4. KindsOK'
    BY <1>1, <2>1, <2>3 DEF KindsOK
  <2> QED BY <1>1, <1>2, <1>3, <2>1, <2>2, <2>4
<1>7. CASE Kill
  <2>1. PlacesOK' BY <1>7, KillMoves
  <2>2. KindsOK' BY <1>1, <1>7 DEF Kill, KindsOK
  <2> QED BY <1>1, <1>7, <1>2, <1>3, <2>1, <2>2 DEF Kill
<1>8. CASE QueueStep /\ UNCHANGED <<filterVars, mail, body>>
  <2>1. KindsOK' BY <1>1, <1>8 DEF KindsOK
  <2>2. /\ PlacesOK' /\ listed' \subseteq Messages
        /\ cur' \in Messages \cup {0} /\ due' \subseteq Messages
    BY <1>1, <1>8, TypeParts, QueueType
  <2>3. order' \in Orders /\ raised' \cup failed' \subseteq Messages
    BY <1>8, TypeParts
  <2> QED BY <1>2, <2>1, <2>2, <2>3
<1>9. CASE UNCHANGED vars
  BY <1>9 DEF vars, TypeOK, Places, fileVars
<1> QED BY <1>4, <1>5, <1>6, <1>7, <1>8, <1>9 DEF Next

-----------------------------------------------------------------------------
(* Data files in the spool.                                                *)
FileOK(m) ==
  /\ Names(body[m], mail[m].user) /\ Names(message[m], mail[m].user)
  /\ m \notin failed =>
       /\ at[m] # "flatten" => body[m].whole
       /\ at[m] \in {"write", "flatten"} => message[m].whole

LEMMA EmptyBody ==
  Empty \in Bodies /\ Empty.whole /\ \A u : Names(Empty, u)
BY DEF Empty, Body, Bodies, Names

LEMMA DataStep ==
  ASSUME TypeOK, DataInv, [Next]_vars
  PROVE  DataInv'
<1> USE DEF filterVars, walkVars, dropVars
<1>1. /\ body \in [Messages -> Bodies] /\ message \in [Messages -> Bodies]
      /\ DOMAIN mail = Messages /\ crit \in Criteria \cup {Nothing}
      /\ \A m \in Messages : FileOK(m)
  BY DEF DataInv, FileOK
<1>2. ASSUME body' \in [Messages -> Bodies], message' \in [Messages -> Bodies],
             DOMAIN mail' = Messages, crit' \in Criteria \cup {Nothing},
             \A m \in Messages : FileOK(m)'
      PROVE  DataInv'
  BY <1>2 DEF DataInv, FileOK
<1>3. ASSUME NEW n \in Messages, body'[n] = body[n], message'[n] = message[n],
             mail'[n] = mail[n], failed' = failed,
             at'[n] = at[n] \/ (at[n] # "flatten" /\ at'[n] \notin {"write", "flatten"})
      PROVE  FileOK(n)'
  BY <1>1, <1>3 DEF FileOK
<1>4. \A n \in Messages : at[n] \notin {"write", "flatten"} => message[n] = Empty
  BY DEF TypeOK
<1>5. ASSUME NEW c \in Messages, at[c] = "none", at'[c] = "filter", NEW new, Arrives(c, new),
             new.received \in Seq(Header), Names(new, new.user),
             UNCHANGED <<message, failed, crit>>,
             \A n \in Messages \ {c} :
               at'[n] = at[n] \/ (at[n] # "flatten" /\ at'[n] \notin {"write", "flatten"})
      PROVE  DataInv'
  <2>1. mail'[c] = new /\ body'[c] = Body(new.received, <<>>, TRUE) /\ DOMAIN mail' = Messages
        /\ \A n \in Messages \ {c} : mail'[n] = mail[n] /\ body'[n] = body[n]
    BY <1>1, <1>5 DEF Arrives
  <2>2. Body(new.received, <<>>, TRUE) \in Bodies
    BY <1>5 DEF Body, Bodies
  <2>3. body' \in [Messages -> Bodies]
    BY <1>1, <1>5, <2>2 DEF Arrives
  <2>4. FileOK(c)'
    <3>1. message'[c] = Empty BY <1>4, <1>5
    <3>2. Names(body'[c], new.user) /\ body'[c].whole
      BY <1>5, <2>1 DEF Names, Body
    <3> QED BY <1>5, <2>1, <3>1, <3>2, EmptyBody DEF FileOK
  <2>5. \A n \in Messages \ {c} : FileOK(n)'
    BY <1>3, <1>5, <2>1
  <2> QED BY <1>1, <1>2, <1>5, <2>1, <2>3, <2>4, <2>5
<1>6. ASSUME NEW m \in Messages, Submit(m) PROVE DataInv'
  <2>1. PICK new \in Mails : Arrives(m, new)
    BY <1>6 DEF Submit
  <2> QED BY <1>5, <1>6, <2>1, Constants DEF Submit, Fresh, Names, TypeOK
<1>7. ASSUME NEW m \in Messages, SentFolder(m) PROVE DataInv'
  <2> DEFINE new == CopyOf(m, GetAuthUser(body[m]))
  <2>1. PICK c \in Messages : /\ Fresh(c) /\ Arrives(c, new)
                              /\ at' = [at EXCEPT ![m] = "copy", ![c] = "filter"]
    BY <1>7 DEF SentFolder
  <2>2. <<Received(None, "short")>> \in Seq(Header) /\ body[m].received \in Seq(Header)
    <3>1. Received(None, "short") \in Header
      BY DEF Received, Header, Lines
    <3>2. body[m] \in Bodies
      BY <1>1
    <3> QED BY <3>1, <3>2 DEF Bodies
  <2>3. new.received \in Seq(Header) /\ new.received[1].user = new.user
    BY <2>2 DEF CopyOf, Received
  <2>4. at[c] = "none" /\ at[m] = "filter" /\ c # m
    BY <1>7, <2>1 DEF SentFolder, At, Fresh
  <2>5. /\ at'[c] = "filter"
        /\ \A n \in Messages \ {c} :
             at'[n] = at[n] \/ (at[n] # "flatten" /\ at'[n] \notin {"write", "flatten"})
    BY <2>1, <2>4 DEF TypeOK
  <2>6. UNCHANGED <<message, failed, crit>>
    BY <1>7 DEF SentFolder
  <2> HIDE DEF new
  <2> QED BY <1>5, <2>1, <2>3, <2>4, <2>5, <2>6 DEF Names
<1>8. ASSUME NEW m \in Messages, FilterStep(m), ~SentFolder(m) PROVE DataInv'
  <2>1. /\ UNCHANGED <<mail, crit>> /\ at'[m] \in Filtered \cup {"over"}
        /\ \A n \in Messages \ {m} : at'[n] = at[n]
    BY <1>8, FilterMoves
  <2>2. ASSUME NEW b \in Bodies, NEW x \in Bodies, body' = [body EXCEPT ![m] = b],
               message' = [message EXCEPT ![m] = x], \A n \in Messages \ {m} : n \in failed' <=> n \in failed,
               Names(b, mail[m].user), Names(x, mail[m].user),
               m \notin failed' => /\ at'[m] # "flatten" => b.whole
                                   /\ at'[m] \in {"write", "flatten"} => x.whole
        PROVE  DataInv'
    <3>1. FileOK(m)'
      BY <1>1, <2>1, <2>2 DEF FileOK
    <3>2. ASSUME NEW n \in Messages \ {m} PROVE FileOK(n)'
      BY <1>1, <2>1, <2>2 DEF FileOK
    <3> QED BY <1>1, <1>2, <2>1, <2>2, <3>1, <3>2
  <2>3. CASE PassStranger(m) \/ CopyDone(m) \/ WhitelistAuth(m) \/ Raise(m)
    <3>1. at[m] # "flatten" /\ at'[m] \in {"filter", "over"} /\ body' = body /\ failed' = failed
      BY <2>3 DEF PassStranger, CopyDone, WhitelistAuth, Raise, At, Passes, Accept, Ends, Alone,
                  TypeOK
    <3>2. message' = message \/ message' = [message EXCEPT ![m] = Empty]
      BY <2>3 DEF PassStranger, CopyDone, WhitelistAuth, Raise
    <3>3. body' = [body EXCEPT ![m] = body[m]] /\ body[m] \in Bodies
      BY <1>1, <3>1
    <3>4. \E x \in {message[m], Empty} : message' = [message EXCEPT ![m] = x]
      BY <1>1, <3>2
    <3> QED BY <1>1, <2>2, <3>1, <3>3, <3>4, EmptyBody DEF FileOK
  <2>4. ASSUME NEW new \in {WithSignature(body[m]), Scanned(body[m]), WithoutReceived(body[m])},
               at[m] = "filter", Holds(m, new), body' = body, failed' = failed
        PROVE  DataInv'
    <3>1. new \in Bodies /\ Names(new, mail[m].user) /\ new.whole = body[m].whole
      BY <1>1, RewrittenBody DEF FileOK
    <3>2. body' = [body EXCEPT ![m] = body[m]] /\ body[m] \in Bodies
      BY <1>1, <2>4
    <3> QED BY <1>1, <2>2, <2>4, <3>1, <3>2 DEF Holds, FileOK
  <2>5. ASSUME at[m] = "filter", Passes(m) \/ Accept(m) \/ Refuse(m),
               UNCHANGED <<body, message, failed>>
        PROVE  DataInv'
    <3>1. at'[m] \in {"filter", "over"}
      BY <2>5 DEF Passes, Accept, Refuse, Ends, TypeOK
    <3>2. \A n \in Messages : FileOK(n)'
      BY <1>3, <2>1, <2>5, <3>1
    <3> QED BY <1>1, <1>2, <2>1, <2>5, <3>2
  <2>6. CASE SpamAssassin(m) BY <2>4, <2>5, <2>6 DEF SpamAssassin, At, Alone
  <2>7. CASE AddSignature(m) BY <2>4, <2>5, <2>7 DEF AddSignature, At, Alone
  <2>8. CASE NoReceivedHeaders(m) BY <2>4, <2>8 DEF NoReceivedHeaders, At, Alone
  <2>9. CASE Truncate(m)
    <3>1. Truncated(body[m]) \in Bodies /\ Names(Truncated(body[m]), mail[m].user)
      BY DEF Truncated, Body, Bodies, Names
    <3>2. message' = [message EXCEPT ![m] = message[m]] /\ message[m] \in Bodies
      BY <1>1, <2>9 DEF Truncate
    <3>3. at[m] = "write" /\ at'[m] = "flatten" /\ failed' = failed
          /\ body' = [body EXCEPT ![m] = Truncated(body[m])]
      BY <2>9 DEF Truncate, TypeOK
    <3> QED BY <1>1, <2>2, <3>1, <3>2, <3>3 DEF FileOK
  <2>10. CASE Flatten(m)
    <3>1. at[m] = "flatten" /\ at'[m] # "flatten" /\ at'[m] # "write" /\ failed' = failed
      BY <2>10 DEF Flatten, Passes, Accept, Ends, TypeOK
    <3> QED BY <1>1, <2>2, <2>10, <3>1, EmptyBody DEF Flatten, FileOK
  <2>11. CASE FlattenFails(m)
    <3>1. PICK piece \in Pieces(message[m]) : body' = [body EXCEPT ![m] = piece]
      BY <2>11 DEF FlattenFails
    <3>2. piece \in Bodies /\ Names(piece, mail[m].user)
      BY <1>1, PieceOfBody DEF FileOK
    <3> QED BY <1>1, <2>2, <2>11, <3>1, <3>2, EmptyBody DEF FlattenFails
  <2> QED BY <1>8, <2>3, <2>6, <2>7, <2>8, <2>9, <2>10, <2>11 DEF FilterStep
<1>9. CASE Kill
  <2>1. /\ body' = [n \in Messages |-> IF at[n] \in Filtered THEN Empty ELSE body[n]]
        /\ message' = [n \in Messages |-> Empty]
    BY <1>9 DEF Kill, TypeOK, Filtered
  <2>2. ASSUME NEW n \in Messages PROVE FileOK(n)'
    <3>1. at'[n] \notin {"write", "flatten"} /\ mail' = mail /\ failed' = failed
      BY <1>9 DEF Kill, TypeOK
    <3>2. body'[n] = Empty \/ (body'[n] = body[n] /\ at[n] # "flatten")
      BY <2>1 DEF Filtered
    <3> QED BY <1>1, <2>1, <3>1, <3>2, EmptyBody DEF FileOK
  <2> QED BY <1>1, <1>2, <1>9, <2>1, <2>2, EmptyBody DEF Kill
<1>10. CASE QueueStep /\ UNCHANGED <<filterVars, mail, body>>
  <2>1. crit' \in Criteria \cup {Nothing}
    BY <1>1, <1>10 DEF QueueStep, Walk, StartWalk, ListDir, NextFile, EndWalk, SearchAuth,
                SearchIP, SearchSender, SearchRcpt, DropControl, DropData, KillWalk, Delivered,
                Walks, Go, Drop, Raises
  <2> QED BY <1>1, <1>2, <1>3, <1>10, <2>1
<1>11. CASE UNCHANGED vars BY <1>1, <1>2, <1>3, <1>11 DEF vars
<1> QED BY <1>6, <1>7, <1>8, <1>9, <1>10, <1>11 DEF Next

LEMMA InitDataInv == Init => DataInv /\ OrderInv
<1> SUFFICES ASSUME Init PROVE DataInv /\ OrderInv
  OBVIOUS
<1>1. body = [m \in Messages |-> Empty] /\ message = body /\ DOMAIN mail = Messages
      /\ at = [m \in Messages |-> "none"] /\ crit = Nothing
  BY DEF Init, WalkInit
<1> QED BY <1>1, EmptyBody DEF DataInv, OrderInv

\* Every variable keeps its type, a message has a verdict when it is over and
\* files in the spool until then, and a copy comes after its original.
THEOREM TypeCorrect == Spec => [](TypeOK /\ OrderInv /\ DataInv)
<1>1. TypeOK /\ OrderInv /\ DataInv /\ [Next]_vars => (TypeOK /\ OrderInv /\ DataInv)'
  <2> SUFFICES ASSUME TypeOK, OrderInv, DataInv, [Next]_vars
               PROVE  TypeOK' /\ OrderInv' /\ DataInv'
    OBVIOUS
  <2>1. DOMAIN mail = Messages /\ DOMAIN message = Messages
    BY DEF DataInv
  <2> QED BY <2>1, TypeStep, OrderStep, DataStep
<1> QED BY <1>1, InitTypeOK, InitDataInv, PTL DEF Spec

-----------------------------------------------------------------------------
(* The walk of dropmsg.                                                    *)
LEMMA InitWalk == Init => WalkInv
BY DEF Init, WalkInit, WalkInv, Looking

\* What goes on in the spool does not concern the walk: a message that is in
\* the queue, or was, is over.
LEMMA SpoolWalk ==
  ASSUME TypeOK, WalkInv, UNCHANGED walkVars,
         \A m \in Messages :
           IF at[m] = "over"
           THEN /\ at'[m] = "over" /\ control'[m] = control[m] /\ data'[m] = data[m]
                /\ body'[m] = body[m] /\ mail'[m] = mail[m]
           ELSE /\ control'[m] = data'[m]
                /\ at'[m] # "over" => control'[m] \in {"none", "spool"}
  PROVE  WalkInv'
<1> USE DEF walkVars, TypeOK
<1>1. /\ step' \in Looking \cup {"none", "next", "df", "ended", "raised", "killed"}
      /\ after' \in {"none", "ip", "sender", "rcpt", "next"}
      /\ step' \in {"cf", "df"} => after' # "none"
      /\ step' = "none" => due' = {}
      /\ step' = "ended" => ahead' = {} /\ listed' = {}
      /\ step' \in Looking \cup {"df"} => cur' \in Messages /\ at'[cur'] = "over"
      /\ step' = "df" => control'[cur'] = "quarantine"
      /\ \A m \in listed' : at'[m] = "over"
  BY DEF WalkInv
<1>2. ASSUME NEW m \in Messages
      PROVE  /\ at'[m] # "over" => control'[m] = data'[m] /\ control'[m] \in {"none", "spool"}
             /\ control'[m] # data'[m] => m = cur' /\ step' \in {"df", "raised", "killed"}
  BY DEF WalkInv
<1>3. ASSUME NEW m \in due
      PROVE  /\ at'[m] = "over" /\ Meets(m, crit)'
             /\ (control'[m] = "queue" /\ step' \notin {"raised", "killed"}) => Pending(m)'
  <2>1. /\ at[m] = "over" /\ Meets(m, crit) /\ m \in Messages
        /\ (control[m] = "queue" /\ step \notin {"raised", "killed"}) => Pending(m)
    BY DEF WalkInv
  <2>2. /\ at'[m] = "over" /\ control'[m] = control[m]
        /\ body'[m] = body[m] /\ mail'[m] = mail[m]
    BY <2>1
  <2>3. Meets(m, crit)'
    BY <2>1, <2>2 DEF Meets
  <2>4. Pending(m)' <=> Pending(m)
    BY <2>2 DEF Pending, SenderMeets
  <2> QED BY <2>1, <2>2, <2>3, <2>4
<1> QED BY <1>1, <1>2, <1>3 DEF WalkInv

LEMMA SpoolStep ==
  ASSUME TypeOK, DataInv, WalkInv,
         (\E m \in Messages : Submit(m) \/ FilterStep(m)) \/ Kill
  PROVE  WalkInv'
<1> DEFINE Same(n) == /\ at'[n] = at[n] /\ control'[n] = control[n] /\ data'[n] = data[n]
                      /\ body'[n] = body[n] /\ mail'[n] = mail[n]
<1> DEFINE Apart(n) == /\ at[n] # "over" /\ control'[n] = data'[n]
                       /\ at'[n] # "over" => control'[n] \in {"none", "spool"}
<1>1. ASSUME UNCHANGED walkVars, \A n \in Messages : Same(n) \/ Apart(n)
      PROVE  WalkInv'
  <2>1. ASSUME NEW n \in Messages
        PROVE  at[n] # "over" => control[n] = data[n] /\ control[n] \in {"none", "spool"}
    BY DEF WalkInv
  <2> QED BY <1>1, <2>1, SpoolWalk
<1> USE DEF dropVars
<1>2. ASSUME NEW m \in Messages, Submit(m) PROVE WalkInv'
  <2>1. PICK new \in Mails : Arrives(m, new)
    BY <1>2 DEF Submit
  <2>2. at[m] = "none" /\ at' = [at EXCEPT ![m] = "filter"]
    BY <1>2 DEF Submit, Fresh
  <2>3. Apart(m)
    BY <2>1, <2>2 DEF Arrives, TypeOK
  <2>4. \A n \in Messages \ {m} : Same(n)
    BY <2>1, <2>2 DEF Arrives, TypeOK, DataInv
  <2> QED BY <1>1, <1>2, <2>3, <2>4 DEF Submit
<1>3. ASSUME NEW m \in Messages, SentFolder(m) PROVE WalkInv'
  <2>1. PICK c \in Messages : /\ Fresh(c) /\ Arrives(c, CopyOf(m, GetAuthUser(body[m])))
                              /\ at' = [at EXCEPT ![m] = "copy", ![c] = "filter"]
    BY <1>3 DEF SentFolder
  <2>2. at[m] = "filter" /\ at[c] = "none"
    BY <1>3, <2>1 DEF SentFolder, At, Fresh
  <2>3. ASSUME NEW n \in Messages PROVE Same(n) \/ Apart(n)
    <3>1. CASE n = c BY <2>1, <2>2, <3>1 DEF Arrives, TypeOK, DataInv
    <3>2. CASE n = m
      <4>1. control[m] = data[m] /\ control[m] \in {"none", "spool"}
        BY <2>2 DEF WalkInv
      <4> QED BY <2>1, <2>2, <3>2, <4>1 DEF Arrives, TypeOK, DataInv
    <3>3. CASE n # c /\ n # m BY <2>1, <3>3 DEF Arrives, TypeOK, DataInv
    <3> QED BY <3>1, <3>2, <3>3
  <2> QED BY <1>1, <1>3, <2>3 DEF SentFolder
<1>4. ASSUME NEW m \in Messages, FilterStep(m), ~SentFolder(m) PROVE WalkInv'
  <2>1. /\ at[m] \in Filtered /\ UNCHANGED <<order, mail, walkVars>>
        /\ \A n \in Messages \ {m} : at'[n] = at[n]
    BY <1>4, FilterMoves
  <2>2. UNCHANGED fileVars \/ (at'[m] = "over" /\ \E p \in {"queue", "gone"} :
          control' = [control EXCEPT ![m] = p] /\ data' = [data EXCEPT ![m] = p])
    BY <1>4, <2>1
       DEF FilterStep, PassStranger, CopyDone, WhitelistAuth, SpamAssassin, AddSignature,
           NoReceivedHeaders, Truncate, Flatten, FlattenFails, Raise, Passes, Accept, Refuse,
           Ends, Holds, TypeOK
  <2>3. \A n \in Messages \ {m} : body'[n] = body[n]
    BY <1>4, <2>1
       DEF FilterStep, PassStranger, CopyDone, WhitelistAuth, SpamAssassin, AddSignature,
           NoReceivedHeaders, Truncate, Flatten, FlattenFails, Raise, Alone, DataInv
  <2>4. control[m] = data[m] /\ control[m] \in {"none", "spool"}
    BY <2>1 DEF WalkInv, Filtered
  <2>5. \A n \in Messages \ {m} : Same(n)
    BY <2>1, <2>2, <2>3 DEF fileVars, TypeOK
  <2>6. Apart(m)
    BY <2>1, <2>2, <2>4 DEF fileVars, TypeOK, Filtered
  <2> QED BY <1>1, <2>1, <2>5, <2>6
<1>5. CASE Kill
  <2>1. ASSUME NEW n \in Messages PROVE Same(n) \/ Apart(n)
    BY <1>5 DEF Kill, TypeOK, WalkInv
  <2> QED BY <1>1, <1>5, <2>1 DEF Kill
<1> QED BY <1>2, <1>3, <1>4, <1>5

\* The walk, and Courier, leave a message of interest that is still queued where
\* the walk comes to it.
LEMMA QueueWalk ==
  ASSUME TypeOK, DataInv, WalkInv, QueueStep, UNCHANGED <<filterVars, mail, body>>
  PROVE  WalkInv'
<1> USE DEF filterVars, fileVars, Looking, TypeOK
<1> DEFINE Apart(m) ==
      /\ at[m] # "over" => control[m] = data[m] /\ control[m] \in {"none", "spool"}
      /\ control[m] # data[m] => m = cur /\ step \in {"df", "raised", "killed"}
<1> DEFINE Due(m) ==
      /\ at[m] = "over" /\ Meets(m, crit)
      /\ control[m] = "queue" /\ step \notin {"raised", "killed"} => Pending(m)
<1> DEFINE Place ==
      /\ step \in Looking \cup {"none", "next", "df", "ended", "raised", "killed"}
      /\ after \in {"none", "ip", "sender", "rcpt", "next"}
      /\ step \in {"cf", "df"} => after # "none"
      /\ step \in Looking \cup {"df"} => cur \in Messages /\ at[cur] = "over"
      /\ \A m \in listed : at[m] = "over"
      /\ step = "none" => due = {}
      /\ step = "ended" => ahead = {} /\ listed = {}
      /\ step = "df" => control[cur] = "quarantine"
<1>1. Place /\ (\A m \in Messages : Apart(m)) /\ (\A m \in due : Due(m))
  BY DEF WalkInv
<1>2. ASSUME Place', \A m \in Messages : Apart(m)', \A m \in due' : Due(m)'
      PROVE  WalkInv'
  BY <1>2 DEF WalkInv
<1>3. ASSUME UNCHANGED <<crit, due>>, NEW m \in due,
             control'[m] = "queue" /\ step' \notin {"raised", "killed"} => Pending(m)'
      PROVE  Due(m)'
  BY <1>1, <1>3 DEF Meets
<1>4. CASE StartWalk
  <2>1. \A m \in Messages : Apart(m)'
    BY <1>1, <1>4 DEF StartWalk
  <2>2. Place'
    BY <1>1, <1>4 DEF StartWalk
  <2>3. ASSUME NEW m \in due' PROVE Due(m)'
    <3>1. m \in Messages /\ Queued(m) /\ Meets(m, crit')
      BY <1>4 DEF StartWalk
    <3>2. Meets(m, crit)'
      BY <3>1 DEF Meets
    <3>3. Dir[m] \in ahead'
      BY <1>4, <3>1 DEF StartWalk
    <3>4. at'[m] = "over"
      BY <1>1, <3>1 DEF Queued
    <3> QED BY <3>2, <3>3, <3>4 DEF Pending
  <2> QED BY <1>2, <2>1, <2>2, <2>3
<1>5. CASE ListDir
  <2>1. Place' /\ \A m \in Messages : Apart(m)'
    BY <1>1, <1>5 DEF ListDir
  <2>2. ASSUME NEW m \in due PROVE Due(m)'
    <3>1. control[m] = "queue" => Dir[m] \in ahead
      BY <1>1, <1>5 DEF ListDir, Pending
    <3>2. control'[m] = "queue" => Dir[m] \in ahead' \/ m \in listed'
      BY <1>5, <3>1 DEF ListDir
    <3> QED BY <1>3, <1>5, <3>2 DEF ListDir, Pending
  <2> QED BY <1>2, <1>5, <2>1, <2>2 DEF ListDir
<1>6. CASE NextFile
  <2>1. Place' /\ \A m \in Messages : Apart(m)'
    BY <1>1, <1>6 DEF NextFile
  <2>2. ASSUME NEW m \in due PROVE Due(m)'
    <3>1. control[m] = "queue" => Dir[m] \in ahead \/ m \in listed
      BY <1>1, <1>6 DEF NextFile, Pending
    <3> QED BY <1>3, <1>6, <3>1 DEF NextFile, Pending
  <2> QED BY <1>2, <1>6, <2>1, <2>2 DEF NextFile
<1>7. CASE EndWalk \/ KillWalk
  <2>1. Place' /\ \A m \in Messages : Apart(m)'
    BY <1>1, <1>7 DEF EndWalk, KillWalk, Go, Walking
  <2>2. ASSUME NEW m \in due PROVE Due(m)'
    <3>1. CASE EndWalk
      BY <1>1, <1>3, <3>1 DEF EndWalk, Pending
    <3>2. CASE KillWalk
      BY <1>3, <3>2 DEF KillWalk, Go
    <3> QED BY <1>7, <3>1, <3>2
  <2> QED BY <1>2, <1>7, <2>1, <2>2 DEF EndWalk, KillWalk
<1>8. ASSUME Walks, step \in {"auth", "ip", "sender", "rcpt"},
             step' \in Looking \cup {"next", "raised"},
             after' \in {"none", "ip", "sender", "rcpt", "next"},
             step' = "cf" => after' # "none",
             cur \in due /\ control[cur] = "queue" /\ step' # "raised" =>
               Dir[cur] \in ahead \/ cur \in listed \/ (step' \in Looking /\ Pending(cur)')
      PROVE  WalkInv'
  <2>1. Place' /\ \A m \in Messages : Apart(m)'
    BY <1>1, <1>8 DEF Walks
  <2>2. ASSUME NEW m \in due PROVE Due(m)'
    <3>1. CASE m = cur
      BY <1>3, <1>8, <3>1 DEF Walks, Pending
    <3>2. CASE m # cur
      <4>1. control[m] = "queue" => Dir[m] \in ahead \/ m \in listed
        BY <1>1, <1>8, <3>2 DEF Pending
      <4> QED BY <1>3, <1>8, <4>1 DEF Walks, Pending
    <3> QED BY <3>1, <3>2
  <2> QED BY <1>2, <1>8, <2>1, <2>2 DEF Walks
<1>9. CASE SearchAuth
  <2>1. cur \in Messages /\ cur \in due => Meets(cur, crit)
    BY <1>1, <1>9 DEF SearchAuth
  <2>2. control[cur] = "queue" => data[cur] = "queue"
    BY <1>1, <1>9 DEF SearchAuth
  <2>3. cur \in due /\ control[cur] = "queue" => Pending(cur)'
    BY <1>9, <2>1, <2>2 DEF SearchAuth, Drop, Go, Walks, Pending, Meets, SenderMeets
  <2> QED BY <1>8, <1>9, <2>3 DEF SearchAuth, Drop, Go
<1>10. CASE SearchIP
  <2>1. cur \in due /\ control[cur] = "queue" =>
          \/ Dir[cur] \in ahead \/ cur \in listed
          \/ mail[cur].ip \in crit.ip \/ SenderMeets(cur)
    BY <1>1, <1>10 DEF SearchIP, Pending
  <2>2. /\ step = "ip" /\ Walks
        /\ \/ step' = "sender" /\ after' = "none" /\ crit.ip = {}
           \/ step' = "raised" /\ after' = "none"
           \/ step' = "cf" /\ after' = "sender"
           \/ step' = "sender" /\ after' = "none" /\ mail[cur].ip \notin crit.ip
    BY <1>10 DEF SearchIP, Drop, Go, Raises
  <2>3. cur \in due /\ control[cur] = "queue" /\ step' # "raised" =>
          Dir[cur] \in ahead \/ cur \in listed \/ (step' \in Looking /\ Pending(cur)')
    BY <2>1, <2>2 DEF Walks, Pending, SenderMeets
  <2> QED BY <1>8, <2>2, <2>3
<1>11. CASE SearchSender
  <2>1. cur \in due /\ control[cur] = "queue" =>
          Dir[cur] \in ahead \/ cur \in listed \/ SenderMeets(cur)
    BY <1>1, <1>11 DEF SearchSender, Pending
  <2>2. /\ step = "sender" /\ Walks
        /\ \/ step' = "next" /\ after' = "none" /\ crit.sender = {}
           \/ step' = "raised" /\ after' = "none"
           \/ step' = "cf" /\ after' \in {"rcpt", "next"}
           \/ step' = "rcpt" /\ after' = "none" /\ mail[cur].sender \notin crit.sender
           \/ /\ step' = "next" /\ after' = "none"
              /\ mail[cur].sender # NullSender /\ mail[cur].sender \notin crit.sender
    BY <1>11 DEF SearchSender, Drop, Go, Raises
  <2>3. cur \in due /\ control[cur] = "queue" /\ step' # "raised" =>
          Dir[cur] \in ahead \/ cur \in listed \/ (step' \in Looking /\ Pending(cur)')
    BY <2>1, <2>2 DEF Walks, Pending, SenderMeets
  <2> QED BY <1>8, <2>2, <2>3
<1>12. CASE SearchRcpt
  <2>1. cur \in due /\ control[cur] = "queue" =>
          \/ Dir[cur] \in ahead \/ cur \in listed
          \/ mail[cur].rcpts # <<>> /\ mail[cur].rcpts[1] \in crit.sender
    BY <1>1, <1>12 DEF SearchRcpt, Pending
  <2>2. /\ step = "rcpt" /\ Walks
        /\ \/ step' = "raised" /\ after' = "none"
           \/ step' = "cf" /\ after' = "next"
           \/ step' = "next" /\ after' = "none" /\ mail[cur].rcpts[1] \notin crit.sender
    BY <1>12 DEF SearchRcpt, Drop, Go, Raises
  <2>3. cur \in due /\ control[cur] = "queue" /\ step' # "raised" =>
          Dir[cur] \in ahead \/ cur \in listed \/ (step' \in Looking /\ Pending(cur)')
    BY <2>1, <2>2 DEF Walks, Pending
  <2> QED BY <1>8, <2>2, <2>3
<1>13. CASE DropControl
  <2>1. cur \in Messages
    BY <1>1, <1>13 DEF DropControl
  <2>2. Place' /\ \A m \in Messages : Apart(m)'
    BY <1>1, <1>13, <2>1 DEF DropControl, Raises, Go
  <2>3. ASSUME NEW m \in due PROVE Due(m)'
    <3>1. control[m] = "queue" /\ m # cur => Dir[m] \in ahead \/ m \in listed
      BY <1>1, <1>13 DEF DropControl, Pending
    <3>2. control'[m] = "queue" /\ step' # "raised" => control[m] = "queue" /\ m # cur
      BY <1>13, <2>1 DEF DropControl, Raises, Go
    <3> QED BY <1>3, <1>13, <3>1, <3>2 DEF DropControl, Pending
  <2> QED BY <1>2, <1>13, <2>2, <2>3 DEF DropControl
<1>14. CASE DropData
  <2>1. cur \in Messages /\ control[cur] = "quarantine"
    BY <1>1, <1>14 DEF DropData
  <2>2. Place'
    BY <1>1, <1>14, <2>1 DEF DropData, Raises, Go
  <2>3. ASSUME NEW m \in Messages PROVE Apart(m)'
    BY <1>1, <1>14, <2>1 DEF DropData, Raises, Go
  <2>4. ASSUME NEW m \in due PROVE Due(m)'
    <3>1. control[m] = "queue" => Dir[m] \in ahead \/ m \in listed
      BY <1>1, <1>14, <2>1 DEF DropData, Pending
    <3> QED BY <1>3, <1>14, <3>1 DEF DropData, Pending
  <2> QED BY <1>2, <1>14, <2>2, <2>3, <2>4 DEF DropData
<1>15. ASSUME NEW n \in Messages, Delivered(n) PROVE WalkInv'
  <2> USE DEF walkVars
  <2>1. Place' /\ \A m \in Messages : Apart(m)'
    BY <1>1, <1>15 DEF Delivered
  <2>2. ASSUME NEW m \in due PROVE Due(m)'
    <3>1. control'[m] = "queue" => control[m] = "queue"
      BY <1>15 DEF Delivered
    <3>2. Pending(m) => Pending(m)'
      BY <1>15 DEF Delivered, Pending, SenderMeets
    <3> QED BY <1>1, <1>3, <1>15, <3>1, <3>2 DEF Delivered
  <2> QED BY <1>2, <1>15, <2>1, <2>2 DEF Delivered
<1> QED
  BY <1>4, <1>5, <1>6, <1>7, <1>9, <1>10, <1>11, <1>12, <1>13, <1>14, <1>15 DEF QueueStep, Walk

LEMMA WalkStep ==
  ASSUME TypeOK, DataInv, WalkInv, [Next]_vars
  PROVE  WalkInv'
<1>1. CASE UNCHANGED vars
  BY <1>1 DEF vars, filterVars, dropVars, walkVars, fileVars, WalkInv, Looking, Meets,
              Pending, SenderMeets
<1> QED BY <1>1, SpoolStep, QueueWalk DEF Next

\* A walk that ends has moved all there was to move when it began, and where
\* none was stopped in the middle of a message its two files are together.
THEOREM TheWalkIsComplete == Spec => []WalkComplete
<1>1. TypeOK /\ WalkInv => WalkComplete
  BY DEF TypeOK, WalkInv, WalkComplete, Pending, Looking
<1>2. TypeOK /\ DataInv /\ WalkInv /\ [Next]_vars => WalkInv'
  BY WalkStep
<1>3. Spec => [](TypeOK /\ DataInv)
  BY TypeCorrect, PTL
<1>4. Spec => []WalkInv
  BY <1>2, <1>3, InitWalk, PTL DEF Spec
<1> QED BY <1>1, <1>3, <1>4, PTL

-----------------------------------------------------------------------------
(* Who is taken for the sender.                                            *)
\* Whoever is named is the one who was authenticated.
LEMMA NobodyBlamed ==
  ASSUME TypeOK, DataInv, WalkInv, blamed = {}, [Next]_vars
  PROVE  blamed' = {}
<1> DEFINE user(m) == GetAuthUser(body[m])
<1>1. ASSUME NEW m \in Messages, user(m) # None
      PROVE  user(m) = mail[m].user
  BY <1>1, FindsUser DEF DataInv
<1>2. ASSUME NEW m \in Messages, user(m) # None PROVE Wrong(m, user(m)) = {}
  BY <1>1, <1>2 DEF Wrong
<1>3. ASSUME NEW m \in Messages, Blames(m), Authenticated(m) PROVE blamed' = {}
  BY <1>2, <1>3 DEF Blames, Authenticated
<1> USE DEF dropVars
<1>4. ASSUME NEW m \in Messages, FilterStep(m) PROVE blamed' = {}
  BY <1>3, <1>4
     DEF FilterStep, PassStranger, SentFolder, CopyDone, WhitelistAuth, SpamAssassin,
         AddSignature, NoReceivedHeaders, Truncate, Flatten, FlattenFails, Raise
<1>5. CASE SearchAuth
  <2>1. cur \in Messages
    BY <1>5 DEF WalkInv, SearchAuth, Looking
  <2>2. None \notin crit.auth
    BY Constants DEF DataInv
  <2>3. CASE blamed' = blamed
    BY <2>3
  <2>4. CASE blamed' # blamed
    <3>1. user(cur) \in crit.auth /\ blamed' = blamed \cup Wrong(cur, user(cur))
      BY <1>5, <2>2, <2>4 DEF SearchAuth
    <3> QED BY <1>2, <2>1, <2>2, <3>1
  <2> QED BY <2>3, <2>4
<1>6. CASE Walk /\ ~SearchAuth
  BY <1>6 DEF Walk, StartWalk, ListDir, NextFile, EndWalk, SearchIP, SearchSender,
              SearchRcpt, DropControl, DropData, KillWalk
<1>7. CASE (\E m \in Messages : Submit(m) \/ Delivered(m)) \/ Kill
  BY <1>7 DEF Submit, Delivered, Kill
<1>8. CASE UNCHANGED vars
  BY <1>8 DEF vars
<1> QED BY <1>4, <1>5, <1>6, <1>7, <1>8 DEF Next, QueueStep

LEMMA InitCopies == Init => CopiesInv
<1> SUFFICES ASSUME Init PROVE CopiesInv
  OBVIOUS
<1>1. \A m \in Messages : mail[m].of = None /\ at[m] = "none"
  BY DEF Init, NoMail
<1> QED BY <1>1 DEF CopiesInv

\* What comes, comes where there was nothing: what it is a copy of is another
\* message, and nothing is a copy of it.
LEMMA CopiesArrive ==
  ASSUME TypeOK, CopiesInv, order' = order, nth' = nth,
         NEW c \in Messages, at[c] = "none", NEW new, mail' = [mail EXCEPT ![c] = new],
         DOMAIN mail = Messages, at'[c] = "filter",
         \A n \in Messages \ {c} : at'[n] = at[n] \/ (at[n] = "filter" /\ at'[n] = "copy"
                                                      /\ order[nth[n]] = "sentfolder"),
         new.of # None => /\ new.of \in Messages \ {c} /\ mail[new.of].user # None
                          /\ at'[new.of] = "copy"
                          /\ \A d \in Messages : mail[d].of # new.of
  PROVE  CopiesInv'
<1>1. ASSUME NEW m \in Messages, at'[m] = "copy"
      PROVE  order'[nth'[m]] = "sentfolder"
  BY <1>1 DEF CopiesInv
<1>2. ASSUME NEW m \in Messages, Copied(m)
      PROVE  m # c /\ Copied(m)'
  BY <1>2 DEF Copied
<1>3. ASSUME NEW d \in Messages, mail'[d].of # None
      PROVE  /\ mail'[d].of \in Messages /\ mail'[mail'[d].of].user # None
             /\ Copied(mail[d].of)'
  <2>1. CASE d = c
    BY <1>3, <2>1 DEF Copied
  <2>2. CASE d # c
    <3>1. /\ mail'[d] = mail[d] /\ mail[d].of \in Messages
          /\ mail[mail[d].of].user # None /\ Copied(mail[d].of)
      BY <1>3, <2>2 DEF CopiesInv
    <3> QED BY <1>2, <3>1
  <2> QED BY <2>1, <2>2
<1>4. ASSUME NEW d \in Messages, NEW e \in Messages,
             mail'[d].of # None, mail'[d].of = mail'[e].of
      PROVE  d = e
  BY <1>4 DEF CopiesInv
<1> QED BY <1>1, <1>3, <1>4 DEF CopiesInv

\* A message goes on: once it has come to sentfolder, it has.
LEMMA CopiesMove ==
  ASSUME TypeOK, CopiesInv, UNCHANGED <<order, mail>>, NEW m \in Messages, at[m] \in Filtered,
         \/ at'[m] \in {"filter", "write", "flatten", "over"}
         \/ nth'[m] = nth[m] /\ at'[m] = at[m],
         \/ nth'[m] = nth[m] /\ at[m] # "copy"
         \/ nth'[m] = nth[m] + 1
         \/ at'[m] = "over",
         \A n \in Messages \ {m} : at'[n] = at[n] /\ nth'[n] = nth[n]
  PROVE  CopiesInv'
<1>1. ASSUME NEW n \in Messages, at'[n] = "copy" PROVE order'[nth'[n]] = "sentfolder"
  BY <1>1 DEF CopiesInv
<1>2. nth[m] \in Nat
  <2>1. nth[m] \in 1..Len(order)
    BY DEF TypeOK
  <2> QED BY <2>1
<1>3. ASSUME Copied(m) PROVE Copied(m)'
  <2>1. CASE at'[m] = "over" BY <2>1 DEF Copied
  <2>2. CASE nth'[m] = nth[m] /\ at[m] # "copy"
    BY <1>3, <2>2 DEF Copied, Filtered
  <2>3. CASE nth'[m] = nth[m] + 1 /\ at'[m] # "over"
    <3>1. PICK j \in 1..nth[m] : order[j] = "sentfolder"
      <4>1. CASE at[m] = "copy"
        BY <1>2, <4>1 DEF CopiesInv, TypeOK
      <4>2. CASE at[m] # "copy"
        <5>1. PICK j \in 1..(nth[m] - 1) : order[j] = "sentfolder"
          BY <1>3, <4>2 DEF Copied, Filtered
        <5> QED BY <1>2, <5>1
      <4> QED BY <4>1, <4>2
    <3>2. j \in 1..(nth'[m] - 1) /\ at'[m] # "none"
      BY <1>2, <2>3, <3>1 DEF Filtered
    <3> QED BY <3>1, <3>2 DEF Copied
  <2> QED BY <2>1, <2>2, <2>3
<1>4. \A n \in Messages : Copied(n) => Copied(n)'
  BY <1>3 DEF Copied
<1> QED BY <1>1, <1>4 DEF CopiesInv

\* sentfolder, which is in no order twice, submits one copy of a message.
LEMMA CopiesStep ==
  ASSUME SentFolderOnce, TypeOK, DataInv, CopiesInv, [Next]_vars
  PROVE  CopiesInv'
<1> USE DEF filterVars
<1>1. ASSUME NEW m \in Messages, Submit(m) PROVE CopiesInv'
  <2>1. PICK new \in Mails : Arrives(m, new)
    BY <1>1 DEF Submit
  <2>2. new.of = None
    BY Constants
  <2>3. at[m] = "none" /\ at' = [at EXCEPT ![m] = "filter"] /\ order' = order /\ nth' = nth
    BY <1>1 DEF Submit, Fresh
  <2>4. /\ at'[m] = "filter" /\ DOMAIN mail = Messages /\ mail' = [mail EXCEPT ![m] = new]
        /\ \A n \in Messages \ {m} : at'[n] = at[n]
    BY <2>1, <2>3 DEF TypeOK, DataInv, Arrives
  <2> QED BY <2>2, <2>3, <2>4, CopiesArrive
<1>2. ASSUME NEW m \in Messages, SentFolder(m) PROVE CopiesInv'
  <2> DEFINE new == CopyOf(m, GetAuthUser(body[m]))
  <2>1. PICK c \in Messages : Fresh(c) /\ Arrives(c, new)
                              /\ at' = [at EXCEPT ![m] = "copy", ![c] = "filter"]
    BY <1>2 DEF SentFolder
  <2>2. /\ at[m] = "filter" /\ order[nth[m]] = "sentfolder" /\ at[c] = "none"
        /\ order' = order /\ nth' = nth
    BY <1>2, <2>1 DEF SentFolder, At, Fresh
  <2>3. new.of = m /\ mail[m].user # None
    BY <1>2, FindsUser DEF SentFolder, Authenticated, CopyOf, DataInv
  <2>4. ASSUME NEW d \in Messages, mail[d].of = m PROVE FALSE
    <3>1. Copied(m)
      BY <2>4, Constants DEF CopiesInv
    <3>2. PICK j \in 1..(nth[m] - 1) : order[j] = "sentfolder"
      BY <2>2, <3>1 DEF Copied
    <3>3. order \in Orders /\ nth[m] \in 1..Len(order) /\ order \in Seq(Filters)
      BY Constants DEF TypeOK
    <3>4. PICK k \in Nat : k = Len(order) /\ DOMAIN order = 1..k
      BY <3>3
    <3>5. j \in DOMAIN order /\ nth[m] \in DOMAIN order /\ j # nth[m]
      BY <3>2, <3>3, <3>4
    <3> QED BY <2>2, <3>2, <3>3, <3>5 DEF SentFolderOnce
  <2>5. /\ at'[c] = "filter" /\ at'[m] = "copy" /\ m # c
        /\ DOMAIN mail = Messages /\ mail' = [mail EXCEPT ![c] = new]
        /\ \A n \in Messages \ {c, m} : at'[n] = at[n]
    BY <2>1, <2>2 DEF TypeOK, DataInv, Arrives
  <2> HIDE DEF new
  <2> QED BY <2>2, <2>3, <2>4, <2>5, CopiesArrive
<1>3. ASSUME NEW m \in Messages, FilterStep(m), ~SentFolder(m) PROVE CopiesInv'
  <2>1. /\ at[m] \in Filtered /\ UNCHANGED <<order, mail>>
        /\ \A n \in Messages \ {m} : at'[n] = at[n]
    BY <1>3, FilterMoves
  <2>2. /\ \/ at'[m] \in {"filter", "write", "flatten", "over"}
           \/ nth'[m] = nth[m] /\ at'[m] = at[m]
        /\ \/ nth'[m] = nth[m] /\ at[m] # "copy"
           \/ nth'[m] = nth[m] + 1
           \/ at'[m] = "over"
        /\ \A n \in Messages \ {m} : nth'[n] = nth[n]
    BY <1>3
       DEF FilterStep, PassStranger, CopyDone, WhitelistAuth, SpamAssassin, AddSignature,
           NoReceivedHeaders, Truncate, Flatten, FlattenFails, Raise, Passes, Accept, Refuse,
           Ends, Holds, TypeOK, At
  <2> QED BY <2>1, <2>2, CopiesMove
<1>4. CASE Kill
  <2>1. \A n \in Messages : at'[n] = (IF at[n] \in Filtered THEN "over" ELSE at[n])
    BY <1>4, KillMoves DEF Filtered
  <2>2. mail' = mail
    BY <1>4 DEF Kill
  <2>3. \A n \in Messages : at'[n] # "copy" /\ (Copied(n) => Copied(n)')
    BY <2>1 DEF Copied, Filtered, TypeOK
  <2> QED BY <2>2, <2>3 DEF CopiesInv
<1>5. CASE UNCHANGED <<filterVars, mail>>
  BY <1>5 DEF CopiesInv, Copied
<1> QED BY <1>1, <1>2, <1>3, <1>4, <1>5 DEF Next, vars

\* Nobody is taken for the sender of a message but its own user, who is sent one
\* copy of it at most.  It rests on SentFolderOnce: each line of pythonfilter.conf
\* that names sentfolder sends a copy.
THEOREM TheSenderIsTheUser ==
  ASSUME SentFolderOnce
  PROVE  Spec => []AuthTrusted
<1>1. ASSUME CopiesInv, blamed = {} PROVE AuthTrusted
  <2> SUFFICES ASSUME NEW m \in Messages
               PROVE  Cardinality(Copies(m)) <= IF mail[m].user = None THEN 0 ELSE 1
    BY <1>1 DEF AuthTrusted
  <2>1. CASE Copies(m) = {}
    BY <2>1, FS_EmptySet
  <2>2. CASE Copies(m) # {}
    <3>1. PICK c \in Messages : mail[c].of = m
      BY <2>2 DEF Copies
    <3>2. m # None
      BY Constants
    <3>3. mail[m].user # None /\ Copies(m) = {c}
      BY <1>1, <3>1, <3>2 DEF CopiesInv, Copies
    <3>4. Cardinality({c}) = 1
      BY FS_Singleton
    <3> QED BY <3>3, <3>4
  <2> QED BY <2>1, <2>2
<1>2. Init => blamed = {}
  BY DEF Init
<1>3. TypeOK /\ DataInv /\ WalkInv /\ [Next]_vars => WalkInv'
  BY WalkStep
<1>4. TypeOK /\ DataInv /\ CopiesInv /\ [Next]_vars => CopiesInv'
  BY CopiesStep
<1>5. TypeOK /\ DataInv /\ WalkInv /\ blamed = {} /\ [Next]_vars => (blamed = {})'
  BY NobodyBlamed
<1>6. Spec => [](TypeOK /\ DataInv)
  BY TypeCorrect, PTL
<1> QED BY <1>1, <1>2, <1>3, <1>4, <1>5, <1>6, InitWalk, InitCopies, PTL DEF Spec

-----------------------------------------------------------------------------
(* What the filters of a list owe a message.                               *)
\* Induction.  A set of numbers that has 0, and n + 1 whenever it has n, has them
\* all: otherwise one of the sets 1..n of the other numbers n would be minimal.
LEMMA NatSets ==
  ASSUME NEW Good, 0 \in Good, \A n \in Nat : n \in Good => n + 1 \in Good
  PROVE  \A n \in Nat : n \in Good
<1> DEFINE Bad == {1..n : n \in Nat \ Good}
<1> SUFFICES ASSUME Nat \ Good # {} PROVE FALSE
  OBVIOUS
<1>1. Bad # {} /\ Bad \subseteq FiniteSubsetsOf(Nat)
  <2>1. \A n \in Nat : IsFiniteSet(1..n) /\ 1..n \subseteq Nat
    BY FS_Interval
  <2> QED BY <2>1 DEF FiniteSubsetsOf
<1>2. IsWellFoundedOn(StrictSubsetOrdering(Nat), FiniteSubsetsOf(Nat))
  BY FS_StrictSubsetOrderingWellFounded
<1>3. PICK T \in Bad : \A U \in Bad : <<U, T>> \notin StrictSubsetOrdering(Nat)
  <2> HIDE DEF Bad
  <2> QED BY <1>1, <1>2, WFMin
<1>4. PICK n \in Nat \ Good : T = 1..n
  OBVIOUS
<1>5. n - 1 \in Nat \ Good
  BY <1>4
<1>6. 1..(n - 1) \in Bad
  BY <1>5
<1>7. <<1..(n - 1), T>> \in StrictSubsetOrdering(Nat)
  <2>1. 1..(n - 1) \subseteq 1..n /\ n \in 1..n /\ n \notin 1..(n-1) /\ 1..n \subseteq Nat
    BY <1>5
  <2> QED BY <1>4, <2>1 DEF StrictSubsetOrdering
<1> QED BY <1>3, <1>6, <1>7

\* The recursive definition of FlattenSeq, as far as n.
Steps(h, parts, n) ==
  h = [i \in 1..n |-> IF i = 1 THEN parts[i] ELSE h[i - 1] \o parts[i]]

\* What the parts up to each come to, and all of them.
Flattens(g, parts) ==
  /\ g[0] = <<>>
  /\ \A i \in 1..Len(parts) : g[i] = g[i - 1] \o parts[i]
  /\ FlattenSeq(parts) = g[Len(parts)]

LEMMA Stepwise ==
  ASSUME NEW R, NEW parts \in Seq(Seq(R))
  PROVE  \E h : Steps(h, parts, Len(parts))
<1> DEFINE Good == {n \in Nat : \E h : Steps(h, parts, n)}
<1>1. 0 \in Good
  <2>1. Steps(<<>>, parts, 0)
    BY DEF Steps
  <2> QED BY <2>1
<1>2. ASSUME NEW n \in Nat, n \in Good PROVE n + 1 \in Good
  <2>1. PICK h : Steps(h, parts, n)
    BY <1>2
  <2> DEFINE k == [i \in 1..(n + 1) |-> IF i = 1 THEN parts[i] ELSE h[i - 1] \o parts[i]]
  <2>2. \A i \in 1..n : k[i] = h[i]
    <3>1. \A i \in 1..n : h[i] = IF i = 1 THEN parts[i] ELSE h[i - 1] \o parts[i]
      BY <2>1 DEF Steps
    <3> QED BY <3>1
  <2>3. k = [i \in 1..(n + 1) |-> IF i = 1 THEN parts[i] ELSE k[i - 1] \o parts[i]]
    <3>1. \A i \in 1..(n + 1) : i = 1 \/ i - 1 \in 1..n
      OBVIOUS
    <3> QED BY <2>2, <3>1
  <2>4. Steps(k, parts, n + 1)
    <3> HIDE DEF k
    <3> QED BY <2>3 DEF Steps
  <2> QED BY <2>4
<1>3. Len(parts) \in Good
  <2> HIDE DEF Good
  <2> QED BY <1>1, <1>2, NatSets
<1> QED BY <1>3

LEMMA Flattening ==
  ASSUME NEW R, NEW parts \in Seq(Seq(R))
  PROVE  \E g \in [0..Len(parts) -> Seq(R)] : Flattens(g, parts)
<1> DEFINE N == Len(parts)
<1>0. N \in Nat /\ \A i \in 1..N : parts[i] \in Seq(R)
  OBVIOUS
<1>1. CASE N = 0
  <2> DEFINE g == [i \in 0..0 |-> <<>>]
  <2>1. FlattenSeq(parts) = <<>>
    BY <1>1 DEF FlattenSeq
  <2>2. g \in [0..N -> Seq(R)] /\ Flattens(g, parts)
    BY <1>1, <2>1 DEF Flattens
  <2> QED BY <2>2
<1>2. CASE N # 0
  <2>1. PICK h : Steps(h, parts, N) /\ FlattenSeq(parts) = h[N]
    <3> DEFINE f == CHOOSE h : Steps(h, parts, N)
    <3>1. Steps(f, parts, N)
      BY Stepwise
    <3>2. FlattenSeq(parts) = f[N]
      BY <1>2 DEF FlattenSeq, Steps
    <3> QED BY <3>1, <3>2
  <2> DEFINE g == [i \in 0..N |-> IF i = 0 THEN <<>> ELSE h[i]]
  <2>2. \A i \in 1..N : g[i] = g[i - 1] \o parts[i]
    <3>1. \A i \in 1..N : h[i] = IF i = 1 THEN parts[i] ELSE h[i - 1] \o parts[i]
      BY <2>1 DEF Steps
    <3>2. parts[1] = <<>> \o parts[1]
      BY <1>0, <1>2
    <3> SUFFICES ASSUME NEW i \in 1..N PROVE g[i] = g[i - 1] \o parts[i]
      OBVIOUS
    <3>3. CASE i = 1
      <4>1. g[1] = h[1] /\ g[0] = <<>> /\ 1 - 1 = 0
        BY <1>0, <1>2
      <4> QED BY <3>1, <3>2, <3>3, <4>1
    <3>4. CASE i # 1
      <4>1. i \in 0..N /\ i - 1 \in 0..N /\ i # 0 /\ i - 1 # 0
        BY <1>0, <3>4
      <4>2. g[i] = h[i] /\ g[i - 1] = h[i - 1]
        BY <4>1
      <4> QED BY <3>1, <3>4, <4>2
    <3> QED BY <3>3, <3>4
  <2>3. g[0] = <<>> /\ g[N] = h[N]
    BY <1>0, <1>2
  <2> DEFINE Good == {n \in Nat : n \in 0..N => g[n] \in Seq(R)}
  <2>4. 0 \in Good
    BY <2>3
  <2>5. ASSUME NEW n \in Nat, n \in Good PROVE n + 1 \in Good
    <3> HIDE DEF g
    <3> SUFFICES ASSUME n + 1 \in 0..N PROVE g[n + 1] \in Seq(R)
      OBVIOUS
    <3>1. g[n] \in Seq(R) /\ parts[n + 1] \in Seq(R) /\ g[n + 1] = g[n] \o parts[n + 1]
      <4>1. n \in 0..N /\ n + 1 \in 1..N /\ (n + 1) - 1 = n
        BY <1>0
      <4> QED BY <1>0, <2>2, <2>5, <4>1
    <3> QED BY <3>1
  <2>6. \A n \in 0..N : g[n] \in Seq(R)
    <3> HIDE DEF Good
    <3>1. \A n \in Nat : n \in Good
      BY <2>4, <2>5, NatSets
    <3> SUFFICES ASSUME NEW n \in 0..N PROVE g[n] \in Seq(R)
      OBVIOUS
    <3>2. n \in Nat /\ n \in Good
      BY <1>0, <3>1
    <3> HIDE DEF g
    <3> QED BY <3>2 DEF Good
  <2>7. g \in [0..N -> Seq(R)]
    BY <2>6
  <2> HIDE DEF g
  <2> QED BY <2>1, <2>2, <2>3, <2>7 DEF Flattens
<1> QED BY <1>1, <1>2

\* The rewrites owed by each of the first lines of the list.
OwedBy(new, list) ==
  CHOOSE g \in [0..Len(list) -> Seq(Filters)] :
    Flattens(g, [i \in DOMAIN list |-> IF Owes(new, list, i) THEN <<list[i]>> ELSE <<>>])

LEMMA OwedSteps ==
  ASSUME NEW list \in Seq(Filters), NEW new
  PROVE  /\ OwedBy(new, list)[0] = <<>>
         /\ OwedBy(new, list)[Len(list)] = Owed(new, list)
         /\ \A i \in 0..Len(list) : OwedBy(new, list)[i] \in Seq(Filters)
         /\ \A i \in 1..Len(list) : OwedBy(new, list)[i] =
              IF Owes(new, list, i) THEN Append(OwedBy(new, list)[i - 1], list[i])
              ELSE OwedBy(new, list)[i - 1]
<1> DEFINE parts == [i \in DOMAIN list |-> IF Owes(new, list, i) THEN <<list[i]>> ELSE <<>>]
           g == OwedBy(new, list)
<1>1. PICK k \in Nat : k = Len(list) /\ DOMAIN list = 1..k
  OBVIOUS
<1>2. \A i \in 1..k : list[i] \in Filters
  BY <1>1
<1>3. parts \in Seq(Seq(Filters)) /\ Len(parts) = k
  <2>1. \A i \in 1..k : parts[i] \in Seq(Filters)
    <3> SUFFICES ASSUME NEW i \in 1..k PROVE parts[i] \in Seq(Filters)
      OBVIOUS
    <3>1. list[i] \in Filters
      BY <1>2
    <3>2. <<list[i]>> \in Seq(Filters) /\ <<>> \in Seq(Filters)
      BY <3>1
    <3> QED BY <1>1, <3>2
  <2>2. parts \in [1..k -> Seq(Filters)]
    BY <1>1, <2>1
  <2> QED BY <2>2
<1>4. g \in [0..k -> Seq(Filters)] /\ Flattens(g, parts)
  <2>1. \E h \in [0..k -> Seq(Filters)] : Flattens(h, parts)
    <3> HIDE DEF parts
    <3> QED BY <1>3, Flattening
  <2> QED BY <1>1, <2>1 DEF OwedBy
<1>5. FlattenSeq(parts) = Owed(new, list)
  BY DEF Owed
<1> HIDE DEF g
<1>6. g[0] = <<>> /\ g[k] = Owed(new, list) /\ \A i \in 1..k : g[i] = g[i - 1] \o parts[i]
  <2> HIDE DEF parts
  <2> QED BY <1>3, <1>4, <1>5 DEF Flattens
<1>7. \A i \in 0..k : g[i] \in Seq(Filters)
  BY <1>4
<1>8. ASSUME NEW i \in 1..k
      PROVE  g[i] = IF Owes(new, list, i) THEN Append(g[i - 1], list[i]) ELSE g[i - 1]
  <2>1. i - 1 \in 0..k
    BY <1>1
  <2>2. PICK s \in Seq(Filters) : s = g[i - 1]
    BY <1>7, <2>1
  <2>3. PICK f \in Filters : f = list[i]
    BY <1>2
  <2>4. s \o <<f>> = Append(s, f) /\ s \o <<>> = s
    OBVIOUS
  <2>5. g[i] = g[i - 1] \o parts[i] /\ parts[i] = IF Owes(new, list, i) THEN <<list[i]>> ELSE <<>>
    BY <1>1, <1>6
  <2> HIDE DEF parts
  <2> QED BY <2>2, <2>3, <2>4, <2>5
<1> QED BY <1>1, <1>6, <1>7, <1>8 DEF g

\* A message as it may come.
MailOK(new) ==
  /\ new.received \in Seq(Header) /\ new.received # <<>>
  /\ new.received[1].user = new.user /\ new.received[1].line # "folded"

\* None of the first n filters has ended the others' run.
Clear(new, list, n) ==
  \A j \in 1..n : ~(list[j] = "whitelist_auth" /\ Knows(new, list, j))

SameUsers(r, s) == DOMAIN r = DOMAIN s /\ \A i \in DOMAIN r : r[i].user = s[i].user

\* A message as the first n filters leave it.
Text(b, new, list, n) ==
  /\ b.rewrites = OwedBy(new, list)[n]
  /\ GetAuthUser(b) = IF Knows(new, list, n + 1) THEN new.user ELSE None
  /\ Contains(OwedBy(new, list)[n], "noreceivedheaders") => b.received = <<>>
  /\ ~Contains(OwedBy(new, list)[n], "noreceivedheaders") =>
       /\ SameUsers(b.received, new.received)
       /\ b.received[1].line \in {new.received[1].line, "folded"}

\* A message as it is to be queued.
Right(b, new, list) ==
  /\ b.rewrites = Owed(new, list)
  /\ Users(b.received) = IF Contains(Owed(new, list), "noreceivedheaders") THEN <<>>
                         ELSE Users(new.received)

LEMMA FreshText ==
  ASSUME NEW list \in Seq(Filters), NEW new, MailOK(new)
  PROVE  Text(Body(new.received, <<>>, TRUE), new, list, 0)
<1> DEFINE b == Body(new.received, <<>>, TRUE)
<1>1. b.received = new.received /\ b.rewrites = <<>>
  BY DEF Body
<1>2. OwedBy(new, list)[0] = <<>>
  BY OwedSteps
<1>3. ~Contains(<<>>, "noreceivedheaders")
  BY DEF Contains
<1>4. Knows(new, list, 0 + 1) <=> new.user # None
  BY DEF Knows
<1> HIDE DEF b
<1>5. GetAuthUser(b) = new.user
  BY <1>1 DEF GetAuthUser, CheckHeader, MailOK
<1>6. SameUsers(b.received, new.received)
      /\ b.received[1].line \in {new.received[1].line, "folded"}
  BY <1>1 DEF SameUsers
<1>7. Text(b, new, list, 0)
  BY <1>1, <1>2, <1>3, <1>4, <1>5, <1>6 DEF Text
<1> QED BY <1>7 DEF b

LEMMA KnowsNext ==
  ASSUME NEW list, NEW new, NEW n \in Nat
  PROVE  Knows(new, list, (n + 1) + 1) <=> Knows(new, list, n + 1) /\ ~Hides(new, list[n + 1])
<1>1. 1..((n + 1) + 1 - 1) = 1..(n + 1 - 1) \cup {n + 1}
  OBVIOUS
<1> QED BY <1>1 DEF Knows

LEMMA ClearNext ==
  ASSUME NEW list, NEW new, NEW n \in Nat, Clear(new, list, n),
         ~(list[n + 1] = "whitelist_auth" /\ Knows(new, list, n + 1))
  PROVE  Clear(new, list, n + 1)
<1>1. 1..(n + 1) = 1..n \cup {n + 1}
  OBVIOUS
<1> QED BY <1>1 DEF Clear

\* A filter that owes a message nothing and leaves it as it is.
LEMMA SkipText ==
  ASSUME NEW list \in Seq(Filters), NEW new, NEW b, NEW n \in Nat, n + 1 \in 1..Len(list),
         Text(b, new, list, n), ~Owes(new, list, n + 1),
         ~(Knows(new, list, n + 1) /\ Hides(new, list[n + 1]))
  PROVE  Text(b, new, list, n + 1)
<1>1. OwedBy(new, list)[n + 1] = OwedBy(new, list)[n]
  <2>1. (n + 1) - 1 = n
    OBVIOUS
  <2> QED BY <2>1, OwedSteps
<1>2. Knows(new, list, (n + 1) + 1) <=> Knows(new, list, n + 1)
  BY KnowsNext
<1> QED BY <1>1, <1>2 DEF Text

\* A filter that gives it the rewrite it is owed.
LEMMA RewriteText ==
  ASSUME NEW list \in Seq(Filters), NEW new, MailOK(new), NEW b \in Bodies,
         NEW n \in Nat, n + 1 \in 1..Len(list), Text(b, new, list, n), Owes(new, list, n + 1),
         NEW r, r = IF list[n + 1] = "noreceivedheaders" THEN <<>> ELSE b.received
  PROVE  Text(Rewritten(b, list[n + 1], r), new, list, n + 1)
<1> DEFINE f == list[n + 1]
           rest == OwedBy(new, list)[n]
           d == Rewritten(b, f, r)
<1>1. /\ OwedBy(new, list)[n + 1] = Append(rest, f) /\ rest \in Seq(Filters) /\ f \in Filters
  <2>1. (n + 1) - 1 = n /\ n \in 0..Len(list)
    OBVIOUS
  <2>2. f \in Filters
    OBVIOUS
  <2>3. rest \in Seq(Filters)
    BY <2>1, OwedSteps
  <2>4. OwedBy(new, list)[n + 1] = Append(OwedBy(new, list)[(n + 1) - 1], list[n + 1])
    BY OwedSteps
  <2> QED BY <2>1, <2>2, <2>3, <2>4
<1>2. /\ d.rewrites = Append(b.rewrites, f) /\ DOMAIN d.received = DOMAIN r
      /\ \A i \in DOMAIN r : d.received[i] =
           IF r[i].line = "long" THEN Received(r[i].user, "folded") ELSE r[i]
  BY DEF Rewritten, Generated, Bodies
<1>3. b.received \in Seq(Header) /\ b.rewrites = rest
  BY DEF Bodies, Text
<1>4. Contains(Append(rest, f), "noreceivedheaders")
        <=> Contains(rest, "noreceivedheaders") \/ f = "noreceivedheaders"
  <2> HIDE DEF rest, f
  <2>1. PICK k \in Nat : /\ k = Len(rest) /\ Len(Append(rest, f)) = k + 1
                         /\ \A i \in 1..k : Append(rest, f)[i] = rest[i]
                         /\ Append(rest, f)[k + 1] = f
    BY <1>1
  <2>2. 1..(k + 1) = 1..k \cup {k + 1}
    OBVIOUS
  <2> QED BY <2>1, <2>2 DEF Contains
<1>5. Knows(new, list, (n + 1) + 1) <=> Knows(new, list, n + 1) /\ ~Hides(new, f)
  BY KnowsNext
<1>6. Signs(new, f) \/ Scans(new, f) \/ f = "noreceivedheaders"
  BY DEF Owes
<1>7. GetAuthUser(b) = IF Knows(new, list, n + 1) THEN new.user ELSE None
  BY DEF Text
<1>8. Knows(new, list, n + 1) => new.user # None
  BY DEF Knows
<1> HIDE DEF rest, d, f
<1>9. CASE r = <<>>
  <2>1. d.received = <<>>
    <3>1. DOMAIN d.received = {}
      BY <1>2, <1>9
    <3> QED BY <1>2, <1>9 DEF d, Rewritten, Generated, Bodies
  <2>2. ~Knows(new, list, (n + 1) + 1)
    <3>1. CASE f = "noreceivedheaders"
      BY <1>5, <3>1 DEF Hides
    <3>2. CASE f # "noreceivedheaders"
      <4>1. GetAuthUser(b) = None
        BY <1>9, <3>2 DEF GetAuthUser, f
      <4> QED BY <1>5, <1>7, <1>8, <4>1
    <3> QED BY <3>1, <3>2
  <2>3. Contains(Append(rest, f), "noreceivedheaders")
    <3>1. CASE f = "noreceivedheaders"
      BY <1>4, <3>1
    <3>2. CASE f # "noreceivedheaders"
      <4>1. b.received = <<>>
        BY <1>9, <3>2 DEF f
      <4>2. ~SameUsers(<<>>, new.received)
        <5>1. new.received # <<>> /\ new.received \in Seq(Header)
          BY DEF MailOK
        <5>2. DOMAIN new.received # {}
          <6>1. \A s \in Seq(Header) : s # <<>> => 1 \in DOMAIN s
            OBVIOUS
          <6> QED BY <5>1, <6>1
        <5> QED BY <5>2 DEF SameUsers
      <4>3. Contains(rest, "noreceivedheaders")
        BY <4>1, <4>2 DEF Text, rest
      <4> QED BY <1>4, <4>3
    <3> QED BY <3>1, <3>2
  <2>4. GetAuthUser(d) = None
    BY <2>1 DEF GetAuthUser
  <2> QED BY <1>1, <1>2, <1>3, <2>1, <2>2, <2>3, <2>4 DEF Text, d, f
<1>10. CASE r # <<>>
  <2>1. f # "noreceivedheaders" /\ r = b.received /\ r # <<>> /\ r \in Seq(Header)
    BY <1>3, <1>10 DEF f
  <2>2. 1 \in DOMAIN r
    BY <2>1
  <2>3. ~Contains(rest, "noreceivedheaders")
    BY <2>1 DEF Text, rest
  <2>4. SameUsers(r, new.received) /\ r[1].line \in {new.received[1].line, "folded"}
    BY <2>1, <2>3 DEF Text, rest
  <2>5. d.received # <<>>
    <3>1. DOMAIN d.received # {}
      BY <1>2, <2>2
    <3> QED BY <3>1
  <2>0. \A h : Received(h.user, "folded").user = h.user /\ Received(h.user, "folded").line = "folded"
    BY DEF Received
  <2>6. \A i \in DOMAIN r : d.received[i].user = r[i].user
    <3>1. ASSUME NEW i \in DOMAIN r PROVE d.received[i].user = r[i].user
      <4>1. d.received[i] = Received(r[i].user, "folded") \/ d.received[i] = r[i]
        BY <1>2
      <4> QED BY <2>0, <4>1
    <3> QED BY <3>1
  <2>7. SameUsers(d.received, new.received)
    BY <1>2, <2>4, <2>6 DEF SameUsers
  <2>8. d.received[1].line = IF r[1].line = "long" THEN "folded" ELSE r[1].line
    <3>1. d.received[1] = IF r[1].line = "long" THEN Received(r[1].user, "folded") ELSE r[1]
      BY <1>2, <2>2
    <3> QED BY <2>0, <3>1
  <2>9. GetAuthUser(d) = IF r[1].line \in {"long", "folded"} THEN None ELSE r[1].user
    BY <2>2, <2>5, <2>6, <2>8 DEF GetAuthUser, CheckHeader
  <2>10. GetAuthUser(b) = IF r[1].line = "folded" THEN None ELSE r[1].user
    BY <2>1 DEF GetAuthUser, CheckHeader
  <2>11. Hides(new, f) <=> new.received[1].line = "long"
    BY <1>6, <2>1 DEF Hides
  <2>12. new.received[1].line # "folded" /\ r[1].user = new.user
    BY <2>2, <2>4 DEF SameUsers, MailOK
  <2>13. GetAuthUser(d) = IF Knows(new, list, (n + 1) + 1) THEN new.user ELSE None
    BY <1>5, <1>7, <1>8, <2>4, <2>9, <2>10, <2>11, <2>12
  <2>14. d.received[1].line \in {new.received[1].line, "folded"}
    BY <2>4, <2>8
  <2>15. ~Contains(Append(rest, f), "noreceivedheaders")
    BY <1>4, <2>1, <2>3
  <2> QED BY <1>1, <1>2, <1>3, <2>7, <2>13, <2>14, <2>15 DEF Text, d, f
<1> QED BY <1>9, <1>10

\* A message that all filters have seen.
LEMMA UsersSame ==
  ASSUME NEW r, NEW s, SameUsers(r, s)
  PROVE  Users(r) = Users(s)
BY DEF Users, SameUsers

LEMMA LastText ==
  ASSUME NEW list \in Seq(Filters), NEW new, NEW b, NEW n, Text(b, new, list, n),
         OwedBy(new, list)[n] = Owed(new, list)
  PROVE  Right(b, new, list)
<1>1. Users(<<>>) = <<>>
  BY DEF Users
<1> QED BY <1>1, UsersSame DEF Text, Right

\* whitelist_auth ends the filtering: nothing more is owed.
LEMMA EndText ==
  ASSUME NEW list \in Seq(Filters), NEW new, NEW n \in Nat, n + 1 \in 1..Len(list),
         list[n + 1] = "whitelist_auth", Knows(new, list, n + 1)
  PROVE  OwedBy(new, list)[n] = Owed(new, list)
<1> DEFINE g == OwedBy(new, list)
           Good == {i \in Nat : n + i \in 0..Len(list) => g[n + i] = g[n]}
<1>1. 0 \in Good
  OBVIOUS
<1>2. ASSUME NEW i \in Nat, i \in Good PROVE i + 1 \in Good
  <2> SUFFICES ASSUME n + (i + 1) \in 0..Len(list) PROVE g[n + (i + 1)] = g[n]
    OBVIOUS
  <2>1. /\ n + i \in 0..Len(list) /\ n + (i + 1) \in 1..Len(list)
        /\ (n + (i + 1)) - 1 = n + i /\ n + 1 \in 1..(n + (i + 1))
    OBVIOUS
  <2>2. ~Owes(new, list, n + (i + 1))
    BY <2>1 DEF Owes
  <2>3. g[n + (i + 1)] = g[n + i]
    BY <2>1, <2>2, OwedSteps
  <2> QED BY <1>2, <2>1, <2>3
<1>3. \A i \in Nat : i \in Good
  <2> HIDE DEF Good
  <2> QED BY <1>1, <1>2, NatSets
<1>4. PICK k \in Nat : k = Len(list)
  OBVIOUS
<1>5. k - n \in Nat /\ n + (k - n) = k /\ k \in 0..k
  BY <1>4
<1>6. g[k] = g[n]
  BY <1>3, <1>4, <1>5
<1> QED BY <1>4, <1>6, OwedSteps

-----------------------------------------------------------------------------
(* What becomes of the text.                                               *)
TextOK(m) ==
  /\ at[m] = "none" => nth[m] = 1
  /\ at[m] # "none" => MailOK(mail[m])
  /\ m \notin raised /\ m \notin failed =>
       /\ at[m] \in {"filter", "copy"} =>
            Clear(mail[m], order, nth[m] - 1) /\ Text(body[m], mail[m], order, nth[m] - 1)
       /\ at[m] \in {"write", "flatten"} =>
            Clear(mail[m], order, nth[m]) /\ Text(message[m], mail[m], order, nth[m])
       /\ at[m] = "copy" => order[nth[m]] = "sentfolder"
       /\ verdict[m] = "200" => Right(body[m], mail[m], order)

TextInv == \A m \in Messages : TextOK(m)

\* A message that nothing happens to.
LEMMA SameText ==
  ASSUME NEW m \in Messages, TextOK(m), order' = order, mail'[m] = mail[m], at'[m] = at[m],
         nth'[m] = nth[m], body'[m] = body[m], message'[m] = message[m],
         verdict'[m] = verdict[m], m \in raised => m \in raised', m \in failed => m \in failed'
  PROVE  TextOK(m)'
BY DEF TextOK

\* The filters go on with what the one at hand has made of the message.
LEMMA PassesText ==
  ASSUME TypeOK, NEW m \in Messages, at[m] \in Filtered, MailOK(mail[m]), Passes(m),
         order' = order, mail' = mail,
         Text(body'[m], mail[m], order, nth[m]), Clear(mail[m], order, nth[m])
  PROVE  TextOK(m)'
<1>1. order \in Seq(Filters) /\ nth[m] \in 1..Len(order)
  BY Constants DEF TypeOK
<1>2. PICK k \in Nat, i \in Nat : k = Len(order) /\ i = nth[m] /\ i \in 1..k
  BY <1>1
<1>3. CASE i = k
  <2>1. at'[m] = "over" /\ verdict'[m] = "200"
    BY <1>2, <1>3 DEF Passes, Accept, Ends, TypeOK
  <2>2. OwedBy(mail[m], order)[k] = Owed(mail[m], order)
    BY <1>1, <1>2, OwedSteps
  <2>3. Right(body'[m], mail[m], order)
    BY <1>1, <1>2, <1>3, <2>2, LastText
  <2> QED BY <2>1, <2>3 DEF TextOK
<1>4. CASE i # k
  <2>1. at'[m] = "filter" /\ nth'[m] = i + 1 /\ verdict'[m] = verdict[m]
    BY <1>2, <1>4 DEF Passes, TypeOK
  <2>2. verdict[m] = "unanswered"
    BY DEF TypeOK, Filtered
  <2>3. (i + 1) - 1 = i
    BY <1>2
  <2>4. Clear(mail'[m], order', nth'[m] - 1) /\ Text(body'[m], mail'[m], order', nth'[m] - 1)
    BY <1>2, <2>1, <2>3
  <2> QED BY <2>1, <2>2, <2>4 DEF TextOK
<1> QED BY <1>3, <1>4

\* A message that comes.
LEMMA ArrivesText ==
  ASSUME TypeOK, NEW c \in Messages, TextOK(c), at[c] = "none", NEW new, MailOK(new),
         mail'[c] = new, body'[c] = Body(new.received, <<>>, TRUE), at'[c] = "filter",
         UNCHANGED <<nth, order, verdict>>
  PROVE  TextOK(c)'
<1>1. nth[c] = 1 /\ order \in Seq(Filters)
  BY Constants DEF TextOK, TypeOK
<1>2. verdict'[c] = "unanswered"
  BY DEF TypeOK
<1>3. Text(body'[c], new, order, 0)
  BY <1>1, FreshText
<1>4. Clear(new, order, 0)
  BY DEF Clear
<1>5. nth'[c] - 1 = 0
  BY <1>1
<1>6. Clear(mail'[c], order', nth'[c] - 1) /\ Text(body'[c], mail'[c], order', nth'[c] - 1)
  BY <1>3, <1>4, <1>5
<1> QED BY <1>2, <1>6 DEF TextOK

\* What a filter finds when it comes to a message.
LEMMA TextBefore ==
  ASSUME TypeOK, NEW m \in Messages, TextOK(m), at[m] \in {"filter", "copy"},
         m \notin raised, m \notin failed
  PROVE  \E n \in Nat :
           /\ n + 1 = nth[m] /\ n + 1 \in 1..Len(order) /\ order \in Seq(Filters)
           /\ Clear(mail[m], order, n) /\ Text(body[m], mail[m], order, n)
           /\ Authenticated(m) <=> Knows(mail[m], order, n + 1)
<1>1. order \in Seq(Filters) /\ nth[m] \in 1..Len(order)
  BY Constants DEF TypeOK
<1>2. PICK k \in Nat, i \in Nat : k = Len(order) /\ i = nth[m] /\ i \in 1..k
  BY <1>1
<1>3. PICK n \in Nat : n + 1 = i /\ n = i - 1
  BY <1>2
<1>4. Clear(mail[m], order, n) /\ Text(body[m], mail[m], order, n)
  BY <1>2, <1>3 DEF TextOK
<1>5. Authenticated(m) <=> Knows(mail[m], order, n + 1)
  BY <1>4 DEF Authenticated, Text, Knows
<1> QED BY <1>1, <1>2, <1>3, <1>4, <1>5

\* A filter that leaves the message as it is, and owes it nothing.
LEMMA LeavesText ==
  ASSUME TypeOK, NEW m \in Messages, TextOK(m), at[m] \in {"filter", "copy"}, Passes(m),
         order' = order, mail' = mail, body' = body, raised' = raised, failed' = failed,
         order[nth[m]] # "whitelist_auth" \/ ~Authenticated(m),
         \/ order[nth[m]] = "sentfolder"
         \/ order[nth[m]] # "spamassassin" /\ ~Authenticated(m)
         \/ order[nth[m]] = "spamassassin" /\ mail[m].large
         \/ order[nth[m]] = "add_signature" /\ mail[m].user \notin Signed
  PROVE  TextOK(m)'
<1>1. MailOK(mail[m]) /\ at[m] \in Filtered
  BY DEF TextOK, Filtered
<1>2. CASE m \in raised \/ m \in failed
  <2>1. at'[m] \in {"filter", "over"}
    BY DEF Passes, Accept, Ends, TypeOK
  <2> QED BY <1>1, <1>2, <2>1 DEF TextOK
<1>3. CASE m \notin raised /\ m \notin failed
  <2>1. PICK n \in Nat :
          /\ n + 1 = nth[m] /\ n + 1 \in 1..Len(order) /\ order \in Seq(Filters)
          /\ Clear(mail[m], order, n) /\ Text(body[m], mail[m], order, n)
          /\ Authenticated(m) <=> Knows(mail[m], order, n + 1)
    BY <1>3, TextBefore
  <2>2. ~Owes(mail[m], order, n + 1)
        /\ ~(Knows(mail[m], order, n + 1) /\ Hides(mail[m], order[n + 1]))
    BY <2>1 DEF Owes, Hides, Signs, Scans
  <2>3. Text(body[m], mail[m], order, n + 1)
    BY <2>1, <2>2, SkipText
  <2>4. Clear(mail[m], order, n + 1)
    BY <2>1, ClearNext
  <2>5. Text(body'[m], mail[m], order, nth[m]) /\ Clear(mail[m], order, nth[m])
    BY <2>1, <2>3, <2>4
  <2> QED BY <1>1, <2>5, PassesText
<1> QED BY <1>2, <1>3

\* A filter that rewrites it.
LEMMA HoldsText ==
  ASSUME TypeOK, DataInv, NEW m \in Messages, TextOK(m), at[m] = "filter",
         NEW new, Holds(m, new), UNCHANGED <<order, mail, body, raised, failed>>,
         NEW f, order[nth[m]] = f,
         \/ f = "spamassassin" /\ ~mail[m].large /\ new = Scanned(body[m])
         \/ /\ f = "add_signature" /\ Authenticated(m) /\ mail[m].user \in Signed
            /\ new = WithSignature(body[m])
         \/ /\ f = "noreceivedheaders" /\ Authenticated(m) /\ new = WithoutReceived(body[m])
  PROVE  TextOK(m)'
<1>1. MailOK(mail[m]) /\ body[m] \in Bodies
  BY DEF TextOK, DataInv
<1>2. at'[m] = "write" /\ message'[m] = new /\ nth' = nth /\ verdict'[m] = "unanswered"
  BY DEF Holds, TypeOK, DataInv
<1>3. CASE m \in raised \/ m \in failed
  BY <1>1, <1>2, <1>3 DEF TextOK
<1>4. CASE m \notin raised /\ m \notin failed
  <2>1. PICK n \in Nat :
          /\ n + 1 = nth[m] /\ n + 1 \in 1..Len(order) /\ order \in Seq(Filters)
          /\ Clear(mail[m], order, n) /\ Text(body[m], mail[m], order, n)
          /\ Authenticated(m) <=> Knows(mail[m], order, n + 1)
    BY <1>4, TextBefore
  <2>2. Clear(mail[m], order, n + 1)
    BY <2>1, ClearNext
  <2>3. Owes(mail[m], order, n + 1)
    BY <2>1, <2>2 DEF Owes, Signs, Scans, Clear
  <2> DEFINE r == IF f = "noreceivedheaders" THEN <<>> ELSE body[m].received
  <2>4. new = Rewritten(body[m], order[n + 1], r)
    BY <2>1 DEF Scanned, WithSignature, WithoutReceived
  <2>5. Text(new, mail[m], order, n + 1)
    <3>1. r = IF order[n + 1] = "noreceivedheaders" THEN <<>> ELSE body[m].received
      BY <2>1
    <3> HIDE DEF r
    <3> QED BY <1>1, <2>1, <2>3, <2>4, <3>1, RewriteText
  <2>6. Text(message'[m], mail'[m], order', nth'[m]) /\ Clear(mail'[m], order', nth'[m])
    BY <1>2, <2>1, <2>2, <2>5
  <2> QED BY <1>1, <1>2, <2>6 DEF TextOK
<1> QED BY <1>3, <1>4

LEMMA TextStep ==
  ASSUME TypeOK, DataInv, TextInv, [Next]_vars
  PROVE  TextInv'
<1> USE DEF filterVars, walkVars, dropVars
<1>1. \A n \in Messages : TextOK(n)
  BY DEF TextInv
<1>2. ASSUME NEW c \in Messages, at[c] = "none", NEW new, MailOK(new), Arrives(c, new),
             at'[c] = "filter", UNCHANGED <<nth, order, verdict>>
      PROVE  TextOK(c)'
  <2>1. mail'[c] = new /\ body'[c] = Body(new.received, <<>>, TRUE)
    BY <1>2 DEF Arrives, DataInv
  <2> QED BY <1>1, <1>2, <2>1, ArrivesText
<1>3. ASSUME NEW m \in Messages, Submit(m) PROVE TextInv'
  <2>1. PICK new \in Mails : Arrives(m, new)
    BY <1>3 DEF Submit
  <2>2. MailOK(new)
    BY SpoolAssumption DEF MailOK
  <2>3. at[m] = "none" /\ at'[m] = "filter" /\ UNCHANGED <<nth, order, verdict, message, raised, failed>>
    BY <1>3 DEF Submit, Fresh, TypeOK
  <2>4. \A n \in Messages \ {m} : at'[n] = at[n] /\ mail'[n] = mail[n] /\ body'[n] = body[n]
    BY <1>3, <2>1 DEF Submit, Arrives, TypeOK, DataInv
  <2>5. TextOK(m)'
    BY <1>2, <2>1, <2>2, <2>3
  <2>6. \A n \in Messages \ {m} : TextOK(n)'
    BY <1>1, <2>3, <2>4, SameText
  <2> QED BY <2>5, <2>6 DEF TextInv
<1>4. ASSUME NEW m \in Messages, SentFolder(m) PROVE TextInv'
  <2> DEFINE new == CopyOf(m, GetAuthUser(body[m]))
  <2>1. PICK c \in Messages : Fresh(c) /\ Arrives(c, new)
                              /\ at' = [at EXCEPT ![m] = "copy", ![c] = "filter"]
    BY <1>4 DEF SentFolder
  <2>2. /\ at[c] = "none" /\ at[m] = "filter" /\ order[nth[m]] = "sentfolder"
        /\ UNCHANGED <<nth, order, verdict, message, raised, failed>>
    BY <1>4, <2>1 DEF SentFolder, Fresh, At
  <2>3. MailOK(new)
    <3>1. body[m].received \in Seq(Header)
      BY DEF DataInv, Bodies
    <3>2. Received(None, "short") \in Header
      BY DEF Received, Header, Lines
    <3>3. /\ <<Received(None, "short")>> \o body[m].received \in Seq(Header) \ {<<>>}
          /\ (<<Received(None, "short")>> \o body[m].received)[1] = Received(None, "short")
      BY <3>1, <3>2
    <3>4. new.received = <<Received(None, "short")>> \o body[m].received /\ new.user = None
      BY DEF CopyOf
    <3> HIDE DEF new
    <3> QED BY <3>3, <3>4 DEF MailOK, Received
  <2> HIDE DEF new
  <2>4. m # c /\ at'[c] = "filter" /\ at'[m] = "copy"
        /\ \A n \in Messages \ {m, c} : at'[n] = at[n]
    BY <2>1, <2>2 DEF TypeOK
  <2>5. \A n \in Messages \ {c} : mail'[n] = mail[n] /\ body'[n] = body[n]
    BY <2>1 DEF Arrives, DataInv
  <2>6. TextOK(c)'
    BY <1>2, <2>1, <2>2, <2>3, <2>4
  <2>7. TextOK(m)'
    <3>1. verdict[m] = "unanswered"
      BY <2>2 DEF TypeOK
    <3> QED BY <1>1, <2>2, <2>4, <2>5, <3>1 DEF TextOK
  <2>8. \A n \in Messages \ {m, c} : TextOK(n)'
    BY <1>1, <2>2, <2>4, <2>5, SameText
  <2> QED BY <2>6, <2>7, <2>8 DEF TextInv
<1>5. ASSUME NEW m \in Messages, FilterStep(m), ~SentFolder(m) PROVE TextInv'
  <2>1. /\ order' = order /\ mail' = mail /\ at[m] \in Filtered /\ at'[m] \in Filtered \cup {"over"}
        /\ \A n \in Messages \ {m} : at'[n] = at[n]
    BY <1>5, FilterMoves
  <2>2. ASSUME NEW n \in Messages \ {m}
        PROVE  /\ nth'[n] = nth[n] /\ body'[n] = body[n] /\ message'[n] = message[n]
               /\ verdict'[n] = verdict[n]
               /\ n \in raised => n \in raised'
               /\ n \in failed => n \in failed'
    BY <1>5 DEF FilterStep, PassStranger, CopyDone, WhitelistAuth, SpamAssassin, AddSignature,
         NoReceivedHeaders, Truncate, Flatten, FlattenFails, Raise, Passes, Accept, Refuse, Ends,
         Holds, Alone, TypeOK, DataInv
  <2>3. ASSUME NEW n \in Messages \ {m} PROVE TextOK(n)'
    <3>1. n \in Messages /\ TextOK(n) /\ at'[n] = at[n] /\ mail'[n] = mail[n]
      BY <1>1, <2>1
    <3> QED BY <2>1, <2>2, <3>1, SameText
  <2>4. MailOK(mail[m]) /\ TextOK(m) /\ mail'[m] = mail[m]
    BY <1>1, <2>1 DEF TextOK, Filtered
  <2>5. Authenticated(m) => GetAuthUser(body[m]) = mail[m].user
    BY FindsUser DEF Authenticated, DataInv
  <2>6. ASSUME PassStranger(m) PROVE TextOK(m)'
    <3>1. /\ at[m] = "filter" /\ ~Authenticated(m) /\ order[nth[m]] # "spamassassin"
          /\ Passes(m) /\ UNCHANGED <<body, raised, failed>>
      BY <2>6 DEF PassStranger, At, Alone
    <3> QED BY <2>1, <2>4, <3>1, LeavesText
  <2>7. ASSUME CopyDone(m) PROVE TextOK(m)'
    <3>1. at[m] = "copy" /\ Passes(m) /\ UNCHANGED <<body, raised, failed>>
      BY <2>7 DEF CopyDone, Alone
    <3>2. CASE m \in raised \/ m \in failed
      <4>1. at'[m] \in {"filter", "over"}
        BY <3>1 DEF Passes, Accept, Ends, TypeOK
      <4> QED BY <2>4, <3>1, <3>2, <4>1 DEF TextOK
    <3>3. CASE m \notin raised /\ m \notin failed
      <4>1. order[nth[m]] = "sentfolder"
        BY <2>4, <3>1, <3>3 DEF TextOK
      <4> QED BY <2>1, <2>4, <3>1, <4>1, LeavesText
    <3> QED BY <3>2, <3>3
  <2>8. ASSUME WhitelistAuth(m) PROVE TextOK(m)'
    <3>1. /\ at[m] = "filter" /\ order[nth[m]] = "whitelist_auth" /\ Authenticated(m)
          /\ at'[m] = "over" /\ UNCHANGED <<body, raised, failed>>
      BY <2>8 DEF WhitelistAuth, At, Alone, Accept, Ends, TypeOK
    <3>2. CASE m \in raised \/ m \in failed
      BY <2>4, <3>1, <3>2 DEF TextOK
    <3>3. CASE m \notin raised /\ m \notin failed
      <4>1. PICK n \in Nat :
              /\ n + 1 = nth[m] /\ n + 1 \in 1..Len(order) /\ order \in Seq(Filters)
              /\ Clear(mail[m], order, n) /\ Text(body[m], mail[m], order, n)
              /\ Authenticated(m) <=> Knows(mail[m], order, n + 1)
        BY <2>4, <3>1, <3>3, TextBefore
      <4>2. OwedBy(mail[m], order)[n] = Owed(mail[m], order)
        BY <3>1, <4>1, EndText
      <4>3. Right(body[m], mail[m], order)
        BY <4>1, <4>2, LastText
      <4> QED BY <2>1, <2>4, <3>1, <4>3 DEF TextOK
    <3> QED BY <3>2, <3>3
  <2>9. ASSUME SpamAssassin(m) PROVE TextOK(m)'
    <3>1. at[m] = "filter" /\ order[nth[m]] = "spamassassin" /\ UNCHANGED <<body, raised, failed>>
      BY <2>9 DEF SpamAssassin, At, Alone
    <3>2. CASE mail[m].large
      <4>1. Passes(m)
        BY <2>9, <3>2 DEF SpamAssassin
      <4> QED BY <2>1, <2>4, <3>1, <3>2, <4>1, LeavesText
    <3>3. CASE ~mail[m].large /\ Holds(m, Scanned(body[m]))
      BY <2>1, <2>4, <3>1, <3>3, HoldsText
    <3>4. CASE Refuse(m)
      <4>1. at'[m] = "over" /\ verdict'[m] = "refused"
        BY <3>4 DEF Refuse, Ends, TypeOK
      <4> QED BY <2>4, <4>1 DEF TextOK
    <3> QED BY <2>9, <3>2, <3>3, <3>4 DEF SpamAssassin
  <2>10. ASSUME AddSignature(m) PROVE TextOK(m)'
    <3>1. /\ at[m] = "filter" /\ order[nth[m]] = "add_signature" /\ Authenticated(m)
          /\ UNCHANGED <<body, raised, failed>>
      BY <2>10 DEF AddSignature, At, Alone
    <3>2. CASE mail[m].user \in Signed
      <4>1. Holds(m, WithSignature(body[m]))
        BY <2>5, <2>10, <3>1, <3>2 DEF AddSignature
      <4> QED BY <2>1, <2>4, <3>1, <3>2, <4>1, HoldsText
    <3>3. CASE mail[m].user \notin Signed
      <4>1. Passes(m)
        BY <2>5, <2>10, <3>1, <3>3 DEF AddSignature
      <4> QED BY <2>1, <2>4, <3>1, <3>3, <4>1, LeavesText
    <3> QED BY <3>2, <3>3
  <2>11. ASSUME NoReceivedHeaders(m) PROVE TextOK(m)'
    <3>1. /\ at[m] = "filter" /\ order[nth[m]] = "noreceivedheaders" /\ Authenticated(m)
          /\ Holds(m, WithoutReceived(body[m])) /\ UNCHANGED <<body, raised, failed>>
      BY <2>11 DEF NoReceivedHeaders, At, Alone
    <3> QED BY <2>1, <2>4, <3>1, HoldsText
  <2>12. ASSUME Truncate(m) PROVE TextOK(m)'
    <3>1. /\ at[m] = "write" /\ at'[m] = "flatten"
          /\ UNCHANGED <<nth, message, verdict, raised, failed>>
      BY <2>12 DEF Truncate, TypeOK
    <3>2. verdict[m] = "unanswered"
      BY <3>1 DEF TypeOK
    <3> QED BY <2>1, <2>4, <3>1, <3>2 DEF TextOK
  <2>13. ASSUME Flatten(m) PROVE TextOK(m)'
    <3>1. /\ at[m] = "flatten" /\ body'[m] = message[m] /\ Passes(m)
          /\ UNCHANGED <<raised, failed>>
      BY <2>13 DEF Flatten, DataInv
    <3>2. CASE m \in raised \/ m \in failed
      <4>1. at'[m] \in {"filter", "over"}
        BY <3>1 DEF Passes, Accept, Ends, TypeOK
      <4> QED BY <2>4, <3>1, <3>2, <4>1 DEF TextOK
    <3>3. CASE m \notin raised /\ m \notin failed
      <4>1. Clear(mail[m], order, nth[m]) /\ Text(message[m], mail[m], order, nth[m])
        BY <2>4, <3>1, <3>3 DEF TextOK
      <4> QED BY <2>1, <2>4, <3>1, <4>1, PassesText
    <3> QED BY <3>2, <3>3
  <2>14. ASSUME FlattenFails(m) \/ Raise(m) PROVE TextOK(m)'
    <3>1. m \in raised' \/ m \in failed'
      BY <2>14 DEF FlattenFails, Raise
    <3> QED BY <2>1, <2>4, <3>1 DEF TextOK, Filtered
  <2>15. TextOK(m)'
    BY <1>5, <2>6, <2>7, <2>8, <2>9, <2>10, <2>11, <2>12, <2>13, <2>14 DEF FilterStep
  <2> QED BY <2>3, <2>15 DEF TextInv
<1>6. CASE Kill
  <2>1. UNCHANGED <<order, mail, raised, failed>>
    BY <1>6 DEF Kill
  <2>2. ASSUME NEW n \in Messages, at[n] \in {"none", "over"} PROVE TextOK(n)'
    <3>1. at'[n] = at[n] /\ verdict'[n] = verdict[n] /\ body'[n] = body[n] /\ nth'[n] = 1
      BY <1>6, <2>2 DEF Kill
    <3> QED BY <1>1, <2>1, <2>2, <3>1 DEF TextOK
  <2>3. ASSUME NEW n \in Messages, at[n] \notin {"none", "over"} PROVE TextOK(n)'
    <3>1. at'[n] = "over" /\ verdict'[n] = "none"
      BY <1>6, <2>3 DEF Kill
    <3> QED BY <1>1, <2>1, <2>3, <3>1 DEF TextOK
  <2> QED BY <2>2, <2>3 DEF TextInv
<1>7. CASE UNCHANGED <<filterVars, mail, body>>
  BY <1>1, <1>7, SameText DEF TextInv
<1> QED BY <1>3, <1>4, <1>5, <1>6, <1>7 DEF Next, vars

LEMMA InitText == Init => TextInv
<1> SUFFICES ASSUME Init PROVE TextInv
  OBVIOUS
<1>1. \A m \in Messages : at[m] = "none" /\ nth[m] = 1 /\ verdict[m] = "unanswered"
  BY DEF Init
<1> QED BY <1>1 DEF TextInv, TextOK

\* A message that pythonfilter took has its whole text, unless writing it failed,
\* and where no filter raised the rewrites that the filters owe it, in their
\* order, and the Received headers it came with or, if it is to have none, none.
THEOREM TheBodyIsRight == Spec => []BodyIsRight
<1>1. TypeOK /\ DataInv /\ TextInv => BodyIsRight
  <2> SUFFICES ASSUME TypeOK, DataInv, TextInv, NEW m \in Messages,
                      verdict[m] = "200", m \notin failed
               PROVE  body[m].whole /\ (m \notin raised => Right(body[m], mail[m], order))
    BY DEF BodyIsRight, Right
  <2>1. at[m] = "over"
    BY DEF TypeOK
  <2> QED BY <2>1 DEF DataInv, TextInv, TextOK
<1>2. TypeOK /\ DataInv /\ TextInv /\ [Next]_vars => TextInv'
  BY TextStep
<1>3. Spec => [](TypeOK /\ DataInv)
  BY TypeCorrect, PTL
<1> QED BY <1>1, <1>2, <1>3, InitText, PTL DEF Spec
=============================================================================
