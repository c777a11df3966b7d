---------------------------- MODULE ControlFiles ----------------------------
(***************************************************************************)
(* The recipients of one message, kept in its control files, and the       *)
(* filters that change them through courier.control: noduplicates,         *)
(* nosuccessdsn and the loop that ends quarantine().  Filters run one      *)
(* after the other, but each works through a list it read when it started, *)
(* and any access to the files or to sendmail may raise, which ends the    *)
(* filter where it stands while the message goes on to the next one.       *)
(* A name ending in _M is what follows it with a mistake, for mutation     *)
(* checks.                                                                 *)
(***************************************************************************)
EXTENDS Integers, FiniteSets, FiniteSetsExt, SequencesExt

CONSTANTS
  Addresses,   \* canonical addresses
  Originals,   \* original addresses, as in RFC 1891; "" is none
  Dsns,        \* the sets of DSN flags that occur
  MaxFiles,    \* bound: control files of a message
  MaxRecords,  \* bound: recipients the message starts with
  MaxFilters,  \* bound: filters that run on it
  Faults       \* "io": an access raises

ASSUME ControlFilesAssumption ==
  /\ {MaxFiles, MaxRecords, MaxFilters} \subseteq Nat
  /\ \A dsn \in Dsns : dsn \subseteq {"S", "F", "D", "N"}
  /\ {} \in Dsns /\ "" \in Originals
  /\ Faults \subseteq {"io"}

\* What the r, R and N lines of a recipient say.
Recipient == [addr : Addresses, orig : Originals, dsn : Dsns]

VARIABLES
  files,   \* the control files
  pc,      \* "idle" between two filters, or what the running one does next
  rcpts,   \* the recipients it has not come to yet, as it read them
  seen,    \* rdups of noduplicates
  ran,     \* how many filters have run
  atStart, \* history: the recipients when the last filter started
  ended    \* history: the last filter, if it returned, or "raised"

filterVars == <<pc, rcpts, seen>>
history    == <<ran, atStart, ended>>
vars == <<files, filterVars, history>>

-----------------------------------------------------------------------------
(* courier.control.  A file holds records and marks, in the order they     *)
(* were appended; S and F lines mark a record as complete by its number.   *)
Marked(file) == ToSet(file.marks)

Due(file) == DOMAIN file.rcpts \ Marked(file)

DueIn(file) ==
  FlattenSeq([i \in DOMAIN file.rcpts |->
                IF i \in Due(file) THEN <<file.rcpts[i]>> ELSE <<>>])

GetRecipientsData(fs) == FlattenSeq([f \in DOMAIN fs |-> DueIn(fs[f])])

\* The record goes to the first file.
AddRecipientData_M(fs, r) ==
  [fs EXCEPT ![1].rcpts = Append(@, r)]

AddRecipientData(fs, r) ==
  [fs EXCEPT ![Len(fs)].rcpts = Append(@, r)]

MarkComplete(fs, f, i) == [fs EXCEPT ![f].marks = Append(@, i)]

\* Records that are complete already match too.
Matching_M(file, R) == {i \in DOMAIN file.rcpts : file.rcpts[i] \in R}

\* The records of the set R that are to be delivered still.
Matching(file, R) == {i \in Due(file) : file.rcpts[i] \in R}

\* The first match in the first file that has one is marked, if any has.
DelFirst(fs, R) ==
  LET holding == {f \in DOMAIN fs : Matching(fs[f], R) # {}}
  IN IF holding = {} THEN fs
     ELSE LET f == Min(holding)
          IN MarkComplete(fs, f, Min(Matching(fs[f], R)))

DelRecipientData(fs, r) == DelFirst(fs, {r})

DelRecipient(fs, a) == DelFirst(fs, {r \in Recipient : r.addr = a})

-----------------------------------------------------------------------------
\* The numbers up to n that are in S.
InOrder(S, n) == FlattenSeq([i \in 1..n |-> IF i \in S THEN <<i>> ELSE <<>>])

\* The recipients of list, number i in file of[i], those in done complete.
Submitted(list, of, done) ==
  [f \in Range(of) |->
     LET mine == InOrder({i \in DOMAIN list : of[i] = f}, Len(list))
     IN [rcpts |-> [k \in DOMAIN mine |-> list[mine[k]]],
         marks |-> InOrder({k \in DOMAIN mine : mine[k] \in done}, Len(mine))]]

\* Courier begins another file when one is full, and marks as complete what
\* it delivered to an alias itself.
Init ==
  /\ \E n \in 1..MaxRecords :
     \E list \in [1..n -> Recipient], of \in [1..n -> 1..MaxFiles], done \in SUBSET (1..n) :
       /\ of[1] = 1 /\ \A i \in 2..n : of[i] - of[i - 1] \in {0, 1}
       /\ files = Submitted(list, of, done)
  /\ pc = "idle" /\ rcpts = <<>> /\ seen = {}
  /\ ran = 0 /\ atStart = <<>> /\ ended = "none"

Start(step) ==
  /\ pc = "idle" /\ ran < MaxFilters
  /\ pc' = step
  /\ rcpts' = GetRecipientsData(files) /\ atStart' = rcpts' /\ seen' = {}
  /\ ran' = ran + 1 /\ ended' = "none"
  /\ UNCHANGED files

\* The running filter goes on to its next recipient.
NextRecipient(step) == pc' = step /\ rcpts' = Tail(rcpts) /\ UNCHANGED history

At(step) == pc = step /\ rcpts # <<>>

StartNoDuplicates == Start("dup")

KeepFirst ==
  /\ At("dup") /\ Head(rcpts).addr \notin seen
  /\ NextRecipient("dup")
  /\ seen' = seen \cup {Head(rcpts).addr}
  /\ UNCHANGED files

\* Some record of the address goes, not the very one the list holds.
DropDuplicate_M ==
  /\ At("dup") /\ Head(rcpts).addr \in seen
  /\ NextRecipient("dup")
  /\ files' = DelRecipient(files, Head(rcpts).addr)
  /\ UNCHANGED seen

DropDuplicate ==
  /\ At("dup") /\ Head(rcpts).addr \in seen
  /\ NextRecipient("dup")
  /\ files' = DelRecipientData(files, Head(rcpts))
  /\ UNCHANGED seen

StartNoSuccessDsn == Start("dsn")

KeepDsn ==
  /\ At("dsn") /\ "S" \notin Head(rcpts).dsn
  /\ NextRecipient("dsn")
  /\ UNCHANGED <<files, seen>>

\* The record with the flag is removed before its replacement is added.
AddWithoutDsn_M ==
  /\ At("dsn") /\ "S" \in Head(rcpts).dsn
  /\ files' = DelRecipientData(files, Head(rcpts))
  /\ pc' = "dsnDel"
  /\ UNCHANGED <<rcpts, seen, history>>

AddWithoutDsn ==
  /\ At("dsn") /\ "S" \in Head(rcpts).dsn
  /\ files' = AddRecipientData(files, [Head(rcpts) EXCEPT !.dsn = {}])
  /\ pc' = "dsnDel"
  /\ UNCHANGED <<rcpts, seen, history>>

DelWithDsn ==
  /\ At("dsnDel")
  /\ files' = DelRecipientData(files, Head(rcpts))
  /\ NextRecipient("dsn")
  /\ UNCHANGED seen

StartQuarantine == Start("quar")

QuarantineDel ==
  /\ At("quar")
  /\ files' = DelRecipientData(files, Head(rcpts))
  /\ pc' = "notice"
  /\ UNCHANGED <<rcpts, seen, history>>

SendNotice ==
  /\ At("notice")
  /\ NextRecipient("quar")
  /\ UNCHANGED <<files, seen>>

Filters == {"dup", "dsn", "quar"}

Return ==
  /\ pc \in Filters /\ rcpts = <<>>
  /\ pc' = "idle" /\ ended' = pc /\ seen' = {}
  /\ UNCHANGED <<files, rcpts, ran, atStart>>

\* The filter ends at the access that failed, which changed nothing: a record
\* whose lines were cut short is read as none, and the next takes its number.
\* A delivery line (S) that was cut in the middle is left out.
Raise ==
  /\ "io" \in Faults
  /\ pc # "idle" /\ rcpts # <<>>
  /\ pc' = "idle" /\ ended' = "raised" /\ seen' = {} /\ rcpts' = <<>>
  /\ UNCHANGED <<files, ran, atStart>>

\* Some other filter uses the two functions that take an address only.
AddRecipient(a) ==
  /\ pc = "idle" /\ ran < MaxFilters
  /\ files' = AddRecipientData(files, [addr |-> a, orig |-> "", dsn |-> {}])
  /\ ran' = ran + 1 /\ atStart' = GetRecipientsData(files) /\ ended' = "add"
  /\ UNCHANGED filterVars

RemoveRecipient(a) ==
  /\ pc = "idle" /\ ran < MaxFilters
  /\ files' = DelRecipient(files, a)
  /\ ran' = ran + 1 /\ atStart' = GetRecipientsData(files) /\ ended' = "del"
  /\ UNCHANGED filterVars

Next ==
  \/ StartNoDuplicates \/ KeepFirst \/ DropDuplicate
  \/ StartNoSuccessDsn \/ KeepDsn \/ AddWithoutDsn \/ DelWithDsn
  \/ StartQuarantine \/ QuarantineDel \/ SendNotice
  \/ Return \/ Raise
  \/ \E a \in Addresses : AddRecipient(a) \/ RemoveRecipient(a)

Spec == Init /\ [][Next]_vars

-----------------------------------------------------------------------------
FileOf(marks) == [rcpts : Seq(Recipient), marks : marks]

\* courier/control.py:153-157: a mark refers to a record that is there and
\* that was not complete yet, or every reader of the file fails or counts
\* wrong.
MarksMatch ==
  \A f \in DOMAIN files :
    /\ Marked(files[f]) \subseteq DOMAIN files[f].rcpts
    /\ IsInjective(files[f].marks)

TypeOK ==
  /\ files \in Seq(FileOf(Seq(Nat)))
  /\ pc \in Filters \cup {"idle", "dsnDel", "notice"}
  /\ rcpts \in Seq(Recipient) /\ atStart \in Seq(Recipient)
  /\ seen \subseteq Addresses
  /\ ran \in 0..MaxFilters
  /\ ended \in Filters \cup {"none", "raised", "add", "del"}
  /\ MarksMatch

Addrs(list) == {list[i].addr : i \in DOMAIN list}

\* How many of the recipients in list have address a.
Times(list, a) == Cardinality({i \in DOMAIN list : list[i].addr = a})

Now == GetRecipientsData(files)

\* At no step of noduplicates or nosuccessdsn, and so at whatever access one
\* of them raises, is an address without a copy of the message that is to be
\* delivered (noduplicates.py:36-42, nosuccessdsn.py:40-46).
NobodyLost ==
  pc \in {"dup", "dsn", "dsnDel"} \/ ended \in {"dup", "dsn"}
    => Addrs(Now) = Addrs(atStart)

\* noduplicates.py:30: it leaves each address once and keeps the first record.
DuplicatesRemoved ==
  ended = "dup" =>
    /\ \A a \in Addrs(Now) : Times(Now, a) = 1
    /\ \A i \in DOMAIN atStart :
         (\A j \in 1..(i - 1) : atStart[j].addr # atStart[i].addr)
           => Contains(Now, atStart[i])

\* nosuccessdsn.py:30: it leaves no request for success DSNs, and as many
\* copies for each address as there were, although it adds one and removes
\* another.
SuccessDsnRemoved ==
  ended = "dsn" =>
    /\ \A i \in DOMAIN Now : "S" \notin Now[i].dsn
    /\ \A a \in Addresses : Times(Now, a) = Times(atStart, a)

\* quarantine.py:179-183: once quarantine() has returned nobody receives the
\* message, however many equal recipients it has.
QuarantineWithholds == ended = "quar" => Now = <<>>

\* A filter that returns has done what it is there for.
FiltersKeepPromises == DuplicatesRemoved /\ SuccessDsnRemoved /\ QuarantineWithholds

\* control.py:212-301: whatever files hold them, the recipients are edited
\* like one list: a record is added at its end, or the first of its equals
\* is taken out, and no other record is disturbed.
EditedAsList ==
  [][\/ Now' = Now
     \/ \E r \in Recipient : Now' = Append(Now, r)
     \/ \E i \in DOMAIN Now :
          Now' = RemoveAt(Now, i) /\ \A j \in 1..(i - 1) : Now[j] # Now[i]]_vars
=============================================================================
