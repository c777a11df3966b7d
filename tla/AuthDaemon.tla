----------------------------- MODULE AuthDaemon -----------------------------
(***************************************************************************)
(* courier.authdaemon: one request to authdaemond over a socket that may   *)
(* take and give it in pieces, stay silent, or be closed.  An answer is    *)
(* lines, given as what is in them and NL; of an account only which fields *)
(* it has matters, no value of one ends in FAIL, and FAIL comes alone.  A  *)
(* name ending in _M is what follows it with a mistake, for mutation       *)
(* checks.                                                                 *)
(***************************************************************************)
EXTENDS Integers, Sequences, FiniteSets, SequencesExt

CONSTANTS
  CmdLen,  \* bound: the pieces of a request
  NoName   \* no request

ASSUME AuthDaemonAssumption == CmdLen \in Nat \ {0}

VARIABLES
  call,    \* where the call of getUserInfo is
  uid,     \* the name that is asked about
  cmd,     \* how much of the request is still to be sent
  answer,  \* what authdaemond says to it
  got      \* how much of that was received

authVars == <<call, uid, cmd, answer, got>>

NL == "\n"

Idle == call = "none" /\ uid = NoName /\ cmd = 0 /\ answer = <<>> /\ got = 0

\* No such account, or its fields, each on a line.
Answer(fields) ==
  IF fields = {} THEN <<"FAIL", NL>>
  ELSE LET lines == SetToSeq(fields)
       IN  [i \in 1..(2 * Cardinality(fields)) |->
              IF i % 2 = 1 THEN lines[(i + 1) \div 2] ELSE NL] \o <<".", NL>>

\* The call starts; authdaemond knows those fields of the name.
Ask(name, fields) ==
  /\ call = "none" /\ call' = "connect" /\ uid' = name
  /\ cmd' = CmdLen /\ answer' = Answer(fields) /\ got' = 0

\* With a limit: if _timeoutSock is set to 0, connect() waits for ever, which
\* is left out.
Connect == call = "connect" /\ call' = "write" /\ UNCHANGED <<uid, cmd, answer, got>>

\* send() takes some of the rest.
WriteAuth ==
  /\ call = "write"
  /\ \E n \in 1..cmd :
       /\ cmd' = cmd - n
       /\ call' = IF n = cmd THEN "read" ELSE "write"
  /\ UNCHANGED <<uid, answer, got>>

\* data is what was received, buf the last of it.  The mark is looked for in
\* what one recv() returned.
Ended_M(data, buf) == IsSuffix(<<NL, ".", NL>>, buf) \/ IsSuffix(<<"FAIL", NL>>, buf)

Ended(data, buf) == IsSuffix(<<NL, ".", NL>>, data) \/ IsSuffix(<<"FAIL", NL>>, data)

\* recv() returns some of what is still to come.
ReadAuth ==
  /\ call = "read"
  /\ \E n \in (got + 1)..Len(answer) :
       /\ got' = n
       /\ call' = IF Ended(SubSeq(answer, 1, n), SubSeq(answer, got + 1, n))
                  THEN "answered" ELSE "read"
  /\ UNCHANGED <<uid, cmd, answer>>

\* IOError leaves getUserInfo.
Breaks == call' = "lost" /\ UNCHANGED <<uid, cmd, answer, got>>

\* Only connecting and writing are given a limit.
TimesOut_M == call \in {"connect", "write"} /\ Breaks

\* select() returns with nothing in each of the three.
TimesOut == call \in {"connect", "write", "read"} /\ Breaks

\* The socket cannot be made, is refused, or is closed by authdaemond.
Lost == call \in {"connect", "write", "read"} /\ Breaks

\* The keys of the dictionary, or None.
UserInfo(none) ==
  LET data == {answer[i] : i \in 1..got}
  IN  IF "FAIL" \in data THEN none ELSE data \ {NL, "."}

HangUp == call' = "none" /\ uid' = NoName /\ cmd' = 0 /\ answer' = <<>> /\ got' = 0

\* An answer ends when all of it is there, and then no more is waited for:
\* neither does a piece that happens to end like an answer cut it short, nor
\* is the end missed because it came in two pieces.
AnswerIsWhole ==
  /\ call = "read" => got < Len(answer)
  /\ call = "answered" => got = Len(answer)
=============================================================================
