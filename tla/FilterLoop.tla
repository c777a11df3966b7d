----------------------------- MODULE FilterLoop -----------------------------
(***************************************************************************)
(* The list of filters: how pythonfilter.conf becomes the list, and how    *)
(* processMessage runs one message through it.  A line "module for a b"    *)
(* makes a 2xx reply of module bypass filters a and b instead of ending    *)
(* the loop.  The list is never changed after start-up and everything      *)
(* else is local to a thread, so one message at a time is enough here.     *)
(* Init, Next and the like have names of their own, so that the module can *)
(* be extended together with Policy.  An action whose name ends in _M is   *)
(* the one after it with a mistake in it, for the mutation checks.         *)
(***************************************************************************)
EXTENDS Integers, Sequences

CONSTANTS
  Modules,   \* names of filter modules
  MaxLines   \* the longest configuration considered

ASSUME MaxLinesAssumption == MaxLines \in Nat

\* The replies of a filter that matter: the empty string, or a class of codes.
NoReply  == "nothing"
Replies  == {NoReply, "0xx", "2xx", "4xx", "5xx"}
Outcomes == Replies \cup {"raises", "nonString"}
NotRun   == "notRun"
Unsent   == "unsent"

\* A configuration line; "module" alone and "module for" bypass nothing.
Lines == [name : Modules, bypass : SUBSET Modules]
Configurations == UNION {[1..n -> Lines] : n \in 0..MaxLines}

VARIABLES
  phase,      \* "loading", "exited", "waiting", "filtering", "replying"
  config,     \* the lines of pythonfilter.conf
  line,       \* the next line to load
  filters,    \* the list of loaded filters
  pos,        \* the next filter to consider
  bypass,     \* names of filters not to run for this message
  replyCode,  \* the reply so far
  ran,        \* history: what each filter did for this message
  sent        \* the reply sent for the last message

loadVars == <<config, line, filters>>
loopVars == <<phase, loadVars, pos, bypass, replyCode, ran, sent>>

LoopInit ==
  /\ phase = "loading" /\ config \in Configurations /\ line = 1 /\ filters = <<>>
  /\ pos = 1 /\ bypass = {} /\ replyCode = NoReply /\ ran = <<>> /\ sent = Unsent

-----------------------------------------------------------------------------
(* Start-up.                                                               *)
Loading == phase = "loading" /\ line <= Len(config)

\* An AttributeError in initFilter is logged and the filter used all the same.
LoadLine ==
  /\ Loading
  /\ filters' = Append(filters, config[line])
  /\ line' = line + 1
  /\ UNCHANGED <<phase, config, pos, bypass, replyCode, ran, sent>>

\* A module without a doFilter function is logged and left out.
OmitLine ==
  /\ Loading
  /\ line' = line + 1
  /\ UNCHANGED <<phase, config, filters, pos, bypass, replyCode, ran, sent>>

\* ImportError, or any other exception of initFilter, ends the program.
AbortLoad ==
  /\ Loading
  /\ phase' = "exited"
  /\ UNCHANGED <<loadVars, pos, bypass, replyCode, ran, sent>>

OpenSocket ==
  /\ phase = "loading" /\ line > Len(config)
  /\ phase' = "waiting"
  /\ UNCHANGED <<loadVars, pos, bypass, replyCode, ran, sent>>

-----------------------------------------------------------------------------
(* One message.                                                            *)
\* What the last message bypassed stays bypassed.
StartMessage_M ==
  /\ phase = "waiting" /\ phase' = "filtering"
  /\ pos' = 1 /\ replyCode' = NoReply /\ sent' = Unsent
  /\ ran' = [i \in 1..Len(filters) |-> NotRun]
  /\ UNCHANGED <<loadVars, bypass>>

StartMessage ==
  /\ phase = "waiting" /\ phase' = "filtering"
  /\ pos' = 1 /\ bypass' = {} /\ replyCode' = NoReply /\ sent' = Unsent
  /\ ran' = [i \in 1..Len(filters) |-> NotRun]
  /\ UNCHANGED loadVars

AtFilter == phase = "filtering" /\ pos <= Len(filters)

SkipFilter ==
  /\ AtFilter
  /\ filters[pos].name \in bypass
  /\ pos' = pos + 1
  /\ UNCHANGED <<phase, loadVars, bypass, replyCode, ran, sent>>

\* An exception leaves something that is no reply.
AsReply_M(outcome) == outcome

\* What a filter that raises, or returns no string, counts for.
AsReply(outcome) == IF outcome \in Replies THEN outcome ELSE NoReply

\* The reply makes the loop go on with more filters bypassed.
Bypassing(f, reply) == reply = "2xx" /\ f.bypass # {}

\* Any reply of a filter that lists others lets the loop go on.
RunFilter_M(outcome) ==
  LET f == filters[pos]
      reply == AsReply(outcome)
      stops == reply # NoReply /\ f.bypass = {}
  IN /\ AtFilter
     /\ f.name \notin bypass
     /\ ran' = [ran EXCEPT ![pos] = outcome]
     /\ replyCode' = reply
     /\ bypass' = IF Bypassing(f, reply) THEN bypass \cup f.bypass ELSE bypass
     /\ pos' = IF stops THEN pos ELSE pos + 1
     /\ phase' = IF stops THEN "replying" ELSE phase
     /\ UNCHANGED <<loadVars, sent>>

RunFilter(outcome) ==
  LET f == filters[pos]
      reply == AsReply(outcome)
      stops == reply # NoReply /\ ~Bypassing(f, reply)
  IN /\ AtFilter
     /\ f.name \notin bypass
     /\ ran' = [ran EXCEPT ![pos] = outcome]
     /\ replyCode' = reply
     /\ bypass' = IF Bypassing(f, reply) THEN bypass \cup f.bypass ELSE bypass
     /\ pos' = IF stops THEN pos ELSE pos + 1
     /\ phase' = IF stops THEN "replying" ELSE phase
     /\ UNCHANGED <<loadVars, sent>>

EndOfFilters ==
  /\ phase = "filtering" /\ pos > Len(filters)
  /\ phase' = "replying"
  /\ UNCHANGED <<loadVars, pos, bypass, replyCode, ran, sent>>

SendReply ==
  /\ phase = "replying" /\ phase' = "waiting"
  /\ sent' = IF replyCode = NoReply THEN "200Ok" ELSE replyCode
  /\ UNCHANGED <<loadVars, pos, bypass, replyCode, ran>>

LoopNext ==
  \/ LoadLine \/ OmitLine \/ AbortLoad \/ OpenSocket
  \/ StartMessage \/ SkipFilter \/ EndOfFilters \/ SendReply
  \/ \E outcome \in Outcomes : RunFilter(outcome)

LoopSpec == LoopInit /\ [][LoopNext]_loopVars

-----------------------------------------------------------------------------
LoopTypeOK ==
  /\ phase \in {"loading", "exited", "waiting", "filtering", "replying"}
  /\ config \in Seq(Lines) /\ filters \in Seq(Lines)
  /\ line \in 1..Len(config) + 1 /\ pos \in 1..Len(filters) + 1
  /\ bypass \subseteq Modules /\ replyCode \in Replies
  /\ ran \in Seq(Outcomes \cup {NotRun})
  /\ sent \in {Unsent, "200Ok", "0xx", "2xx", "4xx", "5xx"}

\* The verdict of filter i, which has run, ends the loop.
Decides(i) ==
  LET reply == AsReply(ran[i])
  IN ran[i] # NotRun /\ reply # NoReply /\ ~Bypassing(filters[i], reply)

\* Filter j of this message took filter i, further down, out of the loop.
Exempts(j, i) ==
  /\ j < i /\ Bypassing(filters[j], ran[j])
  /\ filters[i].name \in filters[j].bypass

Answered == phase = "waiting" /\ sent # Unsent

\* Lines 206-229: a filter is left out for a message only because an earlier
\* filter gave the final word or replied 2xx and names it, and a filter that
\* is named never runs: no reply reaches across messages or back up the list.
SkippedForAReason ==
  Answered => \A i \in 1..Len(filters) :
    ran[i] = NotRun <=> \E j \in 1..(i - 1) : Decides(j) \/ Exempts(j, i)

\* Lines 230-236: the client is told what the one deciding filter said, or
\* is given a positive reply if every filter that ran let the message pass.
VerdictSent ==
  Answered =>
    IF \E i \in 1..Len(filters) : Decides(i)
    THEN \A i \in 1..Len(filters) : Decides(i) => sent = ran[i]
    ELSE sent \in {"200Ok", "2xx"}
=============================================================================
