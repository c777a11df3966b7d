-------------------------- MODULE Filtering_proofs --------------------------
(***************************************************************************)
(* Proofs about the filtering of a message.  First the loop that loads the *)
(* filters and runs them (FilterLoop), for every list of filters and       *)
(* whatever they return; then the six filters that decide by configuration *)
(* and accounts (Policy, with AuthDaemon and Config), for every            *)
(* configuration, message and account.                                     *)
(***************************************************************************)
EXTENDS FilterLoop, Policy, FiniteSetTheorems, SequenceTheorems, TLAPS

LEMMA ConfigIsList == Configurations \subseteq Seq(Lines)
BY SeqDef, MaxLinesAssumption DEF Configurations

LEMMA LoopInitTypeOK == LoopInit => LoopTypeOK
<1> SUFFICES ASSUME LoopInit PROVE LoopTypeOK
  OBVIOUS
<1>1. config \in Seq(Lines)
  BY ConfigIsList DEF LoopInit
<1>2. line \in 1..Len(config) + 1
  <2>1. Len(config) \in Nat
    BY <1>1, LenProperties
  <2> QED BY <2>1 DEF LoopInit
<1>3. /\ filters \in Seq(Lines) /\ Len(filters) = 0
      /\ ran \in Seq(Outcomes \cup {NotRun})
  BY EmptySeq DEF LoopInit
<1> QED BY <1>1, <1>2, <1>3 DEF LoopInit, LoopTypeOK, Replies

LEMMA LoopTypeStep == LoopTypeOK /\ [LoopNext]_loopVars => LoopTypeOK'
<1> SUFFICES ASSUME LoopTypeOK, [LoopNext]_loopVars PROVE LoopTypeOK'
  OBVIOUS
<1> USE DEF LoopTypeOK, loadVars
<1>1. CASE LoadLine
  <2>1. config[line] \in Lines
    BY <1>1 DEF LoadLine, Loading
  <2>2. filters' \in Seq(Lines) /\ Len(filters') = Len(filters) + 1
    BY <1>1, <2>1, AppendProperties DEF LoadLine
  <2> QED BY <1>1, <2>2 DEF LoadLine, Loading
<1>2. CASE OmitLine BY <1>2 DEF OmitLine, Loading
<1>3. CASE AbortLoad BY <1>3 DEF AbortLoad
<1>4. CASE OpenSocket BY <1>4 DEF OpenSocket
<1>5. CASE StartMessage
  <2>1. ran' \in Seq(Outcomes \cup {NotRun})
    BY <1>5, IsASeq DEF StartMessage
  <2> QED BY <1>5, <2>1 DEF StartMessage, Replies
<1>6. CASE SkipFilter BY <1>6 DEF SkipFilter, AtFilter
<1>7. ASSUME NEW outcome \in Outcomes, RunFilter(outcome) PROVE LoopTypeOK'
  <2>1. filters[pos] \in Lines
    BY <1>7 DEF RunFilter, AtFilter
  <2>2. ran' \in Seq(Outcomes \cup {NotRun})
    <3>1. CASE pos \in 1..Len(ran)
      BY <1>7, <3>1, ExceptSeq DEF RunFilter
    <3>2. CASE pos \notin 1..Len(ran)
      <4>1. ran \in [1..Len(ran) -> Outcomes \cup {NotRun}]
        BY LenProperties
      <4> QED BY <1>7, <3>2, <4>1, Zenon DEF RunFilter
    <3> QED BY <3>1, <3>2
  <2>3. bypass' \subseteq Modules
    BY <1>7, <2>1 DEF RunFilter, Lines
  <2>4. replyCode' \in Replies
    BY <1>7 DEF RunFilter, AsReply, Replies
  <2> QED BY <1>7, <2>2, <2>3, <2>4 DEF RunFilter, AtFilter
<1>8. CASE EndOfFilters BY <1>8 DEF EndOfFilters
<1>9. CASE SendReply BY <1>9 DEF SendReply, Replies
<1>10. CASE UNCHANGED loopVars BY <1>10 DEF loopVars
<1> QED
  BY <1>1, <1>2, <1>3, <1>4, <1>5, <1>6, <1>7, <1>8, <1>9, <1>10 DEF LoopNext

\* Every variable keeps its type: the list only grows by lines of the
\* configuration, and what a filter returns becomes a reply or nothing.
THEOREM LoopTypeCorrect == LoopSpec => []LoopTypeOK
BY LoopInitTypeOK, LoopTypeStep, PTL DEF LoopSpec

-----------------------------------------------------------------------------
(* One message.                                                            *)
\* A message is on its way through the list, or has just been answered.
InMessage == phase \in {"filtering", "replying"} \/ Answered

\* Only filters up to pos have run, and none before pos had the final word.
Prefix ==
  /\ Len(ran) = Len(filters)
  /\ \A i \in 1..Len(filters) : i > pos => ran[i] = NotRun
  /\ \A i \in 1..(pos - 1) : ~Decides(i)

\* The names to bypass are those that a filter before pos asked for.
BypassAsked ==
  bypass = UNION {filters[j].bypass :
                    j \in {k \in 1..(pos - 1) : Bypassing(filters[k], ran[k])}}

\* A filter before pos was left out if an earlier one exempts it, only then.
SkipsJustified ==
  \A i \in 1..(pos - 1) :
    ran[i] = NotRun <=> \E j \in 1..(i - 1) : Exempts(j, i)

\* At pos, the loop has yet to look, or has just had the final word.
Stopped ==
  pos <= Len(filters) =>
    IF phase = "filtering" THEN ran[pos] = NotRun
    ELSE /\ Decides(pos) /\ replyCode = ran[pos]
         /\ \A j \in 1..(pos - 1) : ~Exempts(j, pos)

\* A reply that did not stop the loop is none or a positive one.
ReplyInv ==
  /\ phase = "filtering" \/ pos > Len(filters) => replyCode \in {NoReply, "2xx"}
  /\ Answered => sent = IF replyCode = NoReply THEN "200Ok" ELSE replyCode

MessageInv ==
  /\ InMessage => Prefix /\ BypassAsked /\ SkipsJustified /\ Stopped /\ ReplyInv
  /\ phase = "loading" => sent = Unsent

LoopInv == LoopTypeOK /\ MessageInv

LEMMA StartStep ==
  ASSUME LoopTypeOK, StartMessage
  PROVE  MessageInv'
<1> USE DEF LoopTypeOK, StartMessage, loadVars
<1>1. Len(filters) \in Nat /\ filters' = filters
  BY LenProperties
<1>2. Len(ran') = Len(filters) /\ \A i \in 1..Len(filters) : ran'[i] = NotRun
  BY <1>1
<1>3. Prefix' BY <1>1, <1>2 DEF Prefix
<1>4. BypassAsked' /\ SkipsJustified' BY DEF BypassAsked, SkipsJustified
<1>5. Stopped' /\ ReplyInv'
  BY <1>1, <1>2 DEF Stopped, ReplyInv, Answered
<1> QED BY <1>3, <1>4, <1>5 DEF MessageInv

\* What the loop leaves alone when it moves on from pos.
LEMMA Unchanged ==
  ASSUME UNCHANGED <<filters, ran>>
  PROVE  /\ \A i : Decides(i)' <=> Decides(i)
         /\ \A i, j : Exempts(j, i)' <=> Exempts(j, i)
BY DEF Decides, Exempts, Bypassing

LEMMA SkipStep ==
  ASSUME LoopTypeOK, MessageInv, SkipFilter
  PROVE  MessageInv'
<1> USE DEF LoopTypeOK, SkipFilter, AtFilter, loadVars
<1>1. Prefix /\ BypassAsked /\ SkipsJustified /\ Stopped /\ ReplyInv
  BY DEF MessageInv, InMessage
<1>2. pos \in 1..Len(filters) /\ Len(filters) \in Nat /\ pos' = pos + 1
  BY LenProperties
<1>3. ran[pos] = NotRun
  BY <1>1, <1>2 DEF Stopped
<1>4. ~Decides(pos) /\ ~Bypassing(filters[pos], ran[pos])
  BY <1>3 DEF Decides, Bypassing, NotRun
<1>5. PICK k \in 1..(pos - 1) :
        Bypassing(filters[k], ran[k]) /\ filters[pos].name \in filters[k].bypass
  BY <1>1 DEF BypassAsked
<1>6. Exempts(k, pos)
  BY <1>2, <1>5 DEF Exempts
<1>7. Prefix'
  BY <1>1, <1>2, <1>4, Unchanged DEF Prefix
<1>8. BypassAsked'
  <2>1. \A l \in 1..(pos' - 1) : l \in 1..(pos - 1) \/ l = pos
    BY <1>2
  <2>2. {l \in 1..(pos - 1) : Bypassing(filters[l], ran[l])}
          = {l \in 1..(pos' - 1) : Bypassing(filters[l], ran[l])}
    BY <1>2, <1>4, <2>1
  <2> QED BY <1>1, <2>2 DEF BypassAsked, Bypassing
<1>9. SkipsJustified'
  BY <1>1, <1>2, <1>3, <1>6, Unchanged DEF SkipsJustified
<1>10. Stopped' /\ ReplyInv'
  BY <1>1, <1>2 DEF Stopped, ReplyInv, Answered, Prefix
<1> QED BY <1>7, <1>8, <1>9, <1>10 DEF MessageInv

LEMMA RunStep ==
  ASSUME LoopTypeOK, MessageInv, NEW outcome \in Outcomes, RunFilter(outcome)
  PROVE  MessageInv'
<1> DEFINE f == filters[pos]
           reply == AsReply(outcome)
           stops == reply # NoReply /\ ~Bypassing(f, reply)
<1> PICK p : p = pos OBVIOUS
<1> USE DEF LoopTypeOK, RunFilter, AtFilter, loadVars
<1>1. Prefix /\ BypassAsked /\ SkipsJustified /\ Stopped /\ ReplyInv
  BY DEF MessageInv, InMessage
<1>2. pos \in 1..Len(filters) /\ Len(filters) \in Nat
  BY LenProperties
<1>3. /\ Len(ran') = Len(filters)
      /\ \A i \in 1..Len(filters) :
           ran'[i] = IF i = pos THEN outcome ELSE ran[i]
  BY <1>1, <1>2, ExceptSeq DEF Prefix
<1>4. \A i \in 1..Len(filters) :
        i # pos => (Decides(i)' <=> Decides(i))
                   /\ (Bypassing(filters[i], ran'[i]) <=> Bypassing(filters[i], ran[i]))
  BY <1>3 DEF Decides, Bypassing
<1>5. \A i \in 1..Len(filters) : \A j \in 1..(i - 1) :
        j # pos => (Exempts(j, i)' <=> Exempts(j, i))
  BY <1>2, <1>4 DEF Exempts
<1>6. ran'[pos] = outcome /\ outcome # NotRun
  BY <1>2, <1>3 DEF Outcomes, Replies, NotRun, NoReply
<1>7. Bypassing(f, ran'[p]) <=> Bypassing(f, reply)
  BY <1>6 DEF Bypassing, AsReply, NoReply, Replies
<1>8. Decides(p)' <=> stops
  BY <1>6, <1>7 DEF Decides, Bypassing, AsReply, NoReply, Replies
<1>9. \A j \in 1..(pos - 1) : ~Exempts(j, pos)
  BY <1>1, <1>2 DEF BypassAsked, Exempts
<1>10. Prefix'
  BY <1>1, <1>2, <1>3, <1>4, <1>8 DEF Prefix
<1>11. BypassAsked'
  <2> DEFINE Askers == {k \in 1..(pos - 1) : Bypassing(filters[k], ran[k])}
  <2>1. \A k \in 1..(pos - 1) :
          Bypassing(filters[k], ran'[k]) <=> Bypassing(filters[k], ran[k])
    BY <1>2, <1>4
  <2>2. CASE stops
    <3>1. {k \in 1..(pos' - 1) : Bypassing(filters[k], ran'[k])} = Askers
      BY <2>1, <2>2
    <3> QED BY <1>1, <2>2, <3>1 DEF BypassAsked, Bypassing
  <2>3. CASE ~stops /\ ~Bypassing(f, reply)
    <3>1. {k \in 1..(pos' - 1) : Bypassing(filters[k], ran'[k])} = Askers
      BY <1>2, <1>7, <2>1, <2>3
    <3>2. bypass' = UNION {filters[j].bypass : j \in Askers}
      BY <1>1, <2>3 DEF BypassAsked
    <3> QED BY <3>1, <3>2 DEF BypassAsked
  <2>4. CASE ~stops /\ Bypassing(f, reply)
    <3>1. {k \in 1..(pos' - 1) : Bypassing(filters[k], ran'[k])}
            = Askers \cup {pos}
      BY <1>2, <1>7, <2>1, <2>4
    <3>2. bypass' = UNION {filters[j].bypass : j \in Askers \cup {pos}}
      BY <1>1, <2>4 DEF BypassAsked
    <3> QED BY <3>1, <3>2 DEF BypassAsked
  <2> QED BY <2>2, <2>3, <2>4
<1>12. SkipsJustified'
  BY <1>1, <1>2, <1>3, <1>5, <1>6, <1>9 DEF SkipsJustified
<1>13. Stopped'
  <2>1. CASE stops
    <3>1. Decides(p)' /\ replyCode' = ran'[p]
      BY <1>6, <1>8, <2>1 DEF AsReply
    <3>2. \A j \in 1..(p - 1) : ~Exempts(j, p)'
      BY <1>2, <1>5, <1>9
    <3> QED BY <2>1, <3>1, <3>2 DEF Stopped
  <2>2. CASE ~stops
    BY <1>1, <1>2, <1>3, <2>2 DEF Stopped, Prefix
  <2> QED BY <2>1, <2>2
<1>14. ReplyInv'
  BY <1>1, <1>2 DEF ReplyInv, Answered, AsReply, Bypassing, NoReply, Replies
<1> QED BY <1>10, <1>11, <1>12, <1>13, <1>14 DEF MessageInv

LEMMA MessageStep == LoopInv /\ [LoopNext]_loopVars => MessageInv'
<1> SUFFICES ASSUME LoopTypeOK, MessageInv, [LoopNext]_loopVars PROVE MessageInv'
  BY DEF LoopInv
<1> USE DEF LoopTypeOK, MessageInv, loadVars
<1>1. CASE LoadLine \/ OmitLine
  BY <1>1 DEF LoadLine, OmitLine, Loading, InMessage, Answered
<1>2. CASE AbortLoad BY <1>2 DEF AbortLoad, InMessage, Answered
<1>3. CASE OpenSocket BY <1>3 DEF OpenSocket, InMessage, Answered
<1>4. CASE StartMessage BY <1>4, StartStep
<1>5. CASE SkipFilter BY <1>5, SkipStep
<1>6. ASSUME NEW outcome \in Outcomes, RunFilter(outcome) PROVE MessageInv'
  BY <1>6, RunStep
<1>7. CASE EndOfFilters \/ SendReply
  <2>1. Prefix /\ BypassAsked /\ SkipsJustified /\ Stopped /\ ReplyInv
    BY <1>7 DEF InMessage, EndOfFilters, SendReply
  <2>2. Len(filters) \in Nat
    BY LenProperties
  <2>3. UNCHANGED <<filters, ran, pos, bypass, replyCode>> /\ phase' # "loading"
    BY <1>7 DEF EndOfFilters, SendReply
  <2>4. Prefix' /\ SkipsJustified'
    BY <2>1, <2>3, Unchanged DEF Prefix, SkipsJustified
  <2>5. BypassAsked'
    BY <2>1, <2>3 DEF BypassAsked, Bypassing
  <2>6. Stopped'
    BY <1>7, <2>1, <2>2, <2>3, Unchanged DEF Stopped, EndOfFilters, SendReply
  <2>7. ReplyInv'
    BY <1>7, <2>1, <2>2, <2>3 DEF ReplyInv, Answered, EndOfFilters, SendReply
  <2> QED BY <2>3, <2>4, <2>5, <2>6, <2>7
<1>8. CASE UNCHANGED loopVars
  <2>1. /\ UNCHANGED <<phase, filters, pos, bypass, replyCode, ran, sent>>
        /\ (InMessage' <=> InMessage) /\ (Answered' <=> Answered)
    BY <1>8 DEF loopVars, InMessage, Answered
  <2>2. /\ Prefix' <=> Prefix
        /\ SkipsJustified' <=> SkipsJustified
        /\ Stopped' <=> Stopped
    BY <2>1, Unchanged DEF Prefix, SkipsJustified, Stopped
  <2>3. (BypassAsked' <=> BypassAsked) /\ (ReplyInv' <=> ReplyInv)
    BY <2>1 DEF BypassAsked, Bypassing, ReplyInv, Answered
  <2> QED BY <2>1, <2>2, <2>3
<1> QED
  BY <1>1, <1>2, <1>3, <1>4, <1>5, <1>6, <1>7, <1>8 DEF LoopNext

\* What holds of the loop between any two steps: which filters have run so
\* far and why the others have not, what they asked to bypass, and where the
\* reply comes from.
THEOREM LoopInvariant == LoopSpec => []LoopInv
<1>1. LoopInit => LoopInv
  BY LoopInitTypeOK DEF LoopInit, LoopInv, MessageInv, InMessage, Answered, Unsent
<1>2. LoopInv /\ [LoopNext]_loopVars => LoopInv'
  BY LoopTypeStep, MessageStep DEF LoopInv
<1> QED BY <1>1, <1>2, PTL DEF LoopSpec

LEMMA AnsweredInv ==
  ASSUME LoopInv, Answered
  PROVE  /\ Prefix /\ SkipsJustified /\ Stopped /\ ReplyInv
         /\ pos \in 1..Len(filters) + 1 /\ Len(filters) \in Nat
         /\ phase # "filtering"
<1>1. Len(filters) \in Nat
  BY LenProperties DEF LoopInv, LoopTypeOK
<1> QED BY <1>1 DEF LoopInv, LoopTypeOK, MessageInv, InMessage, Answered

\* A filter does not run for a message exactly when an earlier one gave the
\* final word or took it out (pythonfilter:206-229), whatever the list.
THEOREM FiltersSkippedForAReason == LoopSpec => []SkippedForAReason
<1>1. LoopInv => SkippedForAReason
  <2> SUFFICES ASSUME LoopInv, Answered, NEW i \in 1..Len(filters)
               PROVE  ran[i] = NotRun <=>
                        \E j \in 1..(i - 1) : Decides(j) \/ Exempts(j, i)
    BY DEF SkippedForAReason
  <2> USE AnsweredInv
  <2>1. CASE i < pos
    BY <2>1 DEF SkipsJustified, Prefix
  <2>2. CASE i = pos
    BY <2>2 DEF Stopped, Prefix, Decides
  <2>3. CASE i > pos
    BY <2>3 DEF Stopped, Prefix
  <2> QED BY <2>1, <2>2, <2>3
<1> QED BY <1>1, LoopInvariant, PTL

\* The client gets the reply of the one filter that had the final word, or a
\* positive one (pythonfilter:230-236), whatever the list.
THEOREM TheVerdictIsSent == LoopSpec => []VerdictSent
<1>1. LoopInv => VerdictSent
  <2> SUFFICES ASSUME LoopInv, Answered
               PROVE  IF \E i \in 1..Len(filters) : Decides(i)
                      THEN \A i \in 1..Len(filters) : Decides(i) => sent = ran[i]
                      ELSE sent \in {"200Ok", "2xx"}
    BY DEF VerdictSent
  <2> USE AnsweredInv
  <2>1. CASE pos <= Len(filters)
    <3>1. \A i \in 1..Len(filters) : Decides(i) => i = pos
      BY DEF Prefix, Decides
    <3>2. Decides(pos) /\ sent = ran[pos]
      BY <2>1 DEF Stopped, ReplyInv, Decides, AsReply
    <3> QED BY <2>1, <3>1, <3>2
  <2>2. CASE pos = Len(filters) + 1
    <3>1. \A i \in 1..Len(filters) : ~Decides(i)
      BY <2>2 DEF Prefix
    <3> QED BY <2>2, <3>1 DEF ReplyInv, NoReply
  <2> QED BY <2>1, <2>2
<1> QED BY <1>1, LoopInvariant, PTL
-----------------------------------------------------------------------------
(* The filters that decide by configuration and accounts.                  *)

(* Induction.  A set of numbers that has 0, and n + 1 whenever it has n,   *)
(* has them all: otherwise one of the sets 1..n of the other numbers n     *)
(* would be minimal.                                                       *)
LEMMA NatSets ==
  ASSUME NEW Good, 0 \in Good, \A n \in Nat : n \in Good => n + 1 \in Good
  PROVE  \A n \in Nat : n \in Good
<1> DEFINE Bad == {1..n : n \in Nat \ Good}
<1> SUFFICES ASSUME Nat \ Good # {} PROVE FALSE
  OBVIOUS
<1>1. Bad # {} /\ Bad \subseteq FiniteSubsetsOf(Nat)
  <2>1. \A n \in Nat : IsFiniteSet(1..n) /\ 1..n \subseteq Nat
    BY FS_Interval
  <2> QED BY <2>1 DEF FiniteSubsetsOf
<1>2. IsWellFoundedOn(StrictSubsetOrdering(Nat), FiniteSubsetsOf(Nat))
  BY FS_StrictSubsetOrderingWellFounded
<1>3. PICK T \in Bad : \A U \in Bad : <<U, T>> \notin StrictSubsetOrdering(Nat)
  <2> HIDE DEF Bad
  <2> QED BY <1>1, <1>2, WFMin
<1>4. PICK n \in Nat \ Good : T = 1..n
  OBVIOUS
<1>5. n - 1 \in Nat \ Good
  BY <1>4
<1>6. 1..(n - 1) \in Bad
  BY <1>5
<1>7. <<1..(n - 1), T>> \in StrictSubsetOrdering(Nat)
  <2>1. 1..(n - 1) \subseteq 1..n /\ n \in 1..n /\ n \notin 1..(n-1) /\ 1..n \subseteq Nat
    BY <1>5
  <2> QED BY <1>4, <2>1 DEF StrictSubsetOrdering
<1> QED BY <1>3, <1>6, <1>7

\* A number in a set of them that nothing in the set is below.
LEMMA Least ==
  ASSUME NEW S, S \subseteq Nat, S # {}
  PROVE  Min(S) \in S /\ \A x \in S : Min(S) <= x
<1> DEFINE Good == {n \in Nat : (\E x \in S : x <= n) => \E x \in S : \A y \in S : x <= y}
<1>1. 0 \in Good
  OBVIOUS
<1>2. ASSUME NEW n \in Nat, n \in Good PROVE n + 1 \in Good
  <2> SUFFICES ASSUME NEW x \in S, x <= n + 1, ~\E z \in S : z <= n
               PROVE  \A y \in S : x <= y
    BY <1>2
  <2> QED OBVIOUS
<1>3. \A n \in Nat : n \in Good
  <2> HIDE DEF Good
  <2> QED BY <1>1, <1>2, NatSets
<1>4. \E x \in S : \A y \in S : x <= y
  <2>1. PICK n \in S : TRUE
    OBVIOUS
  <2>2. n \in Nat /\ n \in Good
    BY <1>3
  <2> QED BY <2>2
<1> QED BY <1>4 DEF Min

\* A number in a set of them up to n that nothing in the set is above.
LEMMA Greatest ==
  ASSUME NEW n \in Nat, NEW S, S \subseteq 0..n, S # {}
  PROVE  Max(S) \in S /\ \A x \in S : Max(S) >= x
<1> DEFINE Below == {n - x : x \in S}
<1>1. Below \subseteq Nat /\ Below # {}
  <2>1. \A x \in S : x \in Int /\ 0 <= x /\ x <= n
    OBVIOUS
  <2>2. \A x \in S : n - x \in Nat
    BY <2>1
  <2> QED BY <2>2
<1>2. Min(Below) \in Below /\ \A y \in Below : Min(Below) <= y
  <2> HIDE DEF Below
  <2> QED BY <1>1, Least
<1>3. PICK x \in S : Min(Below) = n - x
  BY <1>2
<1>4. \A y \in S : x >= y
  BY <1>2, <1>3
<1> QED BY <1>4 DEF Max


-----------------------------------------------------------------------------
(* What authdaemond says.                                                  *)
LEMMA NLIs == NL # "." /\ NL # "FAIL"
BY DEF NL

\* The two marks at the end of what is a list.
LEMMA Marks ==
  ASSUME NEW T, NEW s \in Seq(T)
  PROVE  /\ IsSuffix(<<"FAIL", NL>>, s) <=>
              Len(s) >= 2 /\ s[Len(s)] = NL /\ s[Len(s) - 1] = "FAIL"
         /\ IsSuffix(<<NL, ".", NL>>, s) <=>
              Len(s) >= 3 /\ s[Len(s)] = NL /\ s[Len(s) - 1] = "." /\ s[Len(s) - 2] = NL
<1>1. Len(s) \in Nat
  OBVIOUS
<1>2. IsSuffix(<<"FAIL", NL>>, s) <=>
        Len(s) >= 2 /\ s[Len(s)] = NL /\ s[Len(s) - 1] = "FAIL"
  BY <1>1 DEF IsSuffix, IsPrefix, Reverse
<1>3. IsSuffix(<<NL, ".", NL>>, s) <=>
        Len(s) >= 3 /\ s[Len(s)] = NL /\ s[Len(s) - 1] = "." /\ s[Len(s) - 2] = NL
  BY <1>1 DEF IsSuffix, IsPrefix, Reverse
<1> QED BY <1>2, <1>3

\* A finite set as a list has each member at a place.
LEMMA SetAsSeq ==
  ASSUME NEW S, IsFiniteSet(S)
  PROVE  /\ Cardinality(S) \in Nat
         /\ SetToSeq(S) \in [1..Cardinality(S) -> S]
         /\ \A x \in S : \E i \in 1..Cardinality(S) : SetToSeq(S)[i] = x
<1> DEFINE n == Cardinality(S)
<1>1. n \in Nat /\ ExistsBijection(1..n, S)
  BY FS_CardinalityType
<1>2. \E f \in [1..n -> S] : IsInjective(f)
  BY <1>1 DEF ExistsBijection, Bijection, Injection, IsInjective
<1>3. SetToSeq(S) \in [1..n -> S] /\ IsInjective(SetToSeq(S))
  BY <1>2 DEF SetToSeq
<1>4. SetToSeq(S) \in Injection(1..n, S)
  BY <1>3 DEF Injection, IsInjective
<1>5. Cardinality(1..n) = n
  BY <1>1, FS_Interval
<1>6. SetToSeq(S) \in Surjection(1..n, S)
  BY <1>4, <1>5, FS_Injection
<1> QED BY <1>1, <1>3, <1>6 DEF Surjection

\* A list with two more elements.
LEMMA TwoMore ==
  ASSUME NEW T, NEW k \in Nat, NEW s \in Seq(T), Len(s) = k, NEW e \in Seq(T), Len(e) = 2
  PROVE  /\ s \o e \in Seq(T) /\ Len(s \o e) = k + 2
         /\ \A i \in 1..(k + 2) : (s \o e)[i] = IF i <= k THEN s[i] ELSE e[i - k]
<1>1. s \o e \in Seq(T) /\ Len(s \o e) = Len(s) + Len(e)
  BY ConcatProperties, Zenon
<1>2. \A i \in 1..(Len(s) + Len(e)) :
        (s \o e)[i] = IF i <= Len(s) THEN s[i] ELSE e[i - Len(s)]
  BY ConcatProperties, Zenon
<1> QED BY <1>1, <1>2

\* The fields that there may be of an account.
AreFields(fields) == IsFiniteSet(fields) /\ fields \cap {"FAIL", NL, "."} = {}

\* Authdaemond's answer: each field and its NL, then the mark.
LEMMA AnswerOf ==
  ASSUME NEW fields, AreFields(fields), fields # {}
  PROVE  \E n \in Nat \ {0} :
           /\ Answer(fields) \in Seq(fields \cup {NL, "."}) /\ Len(Answer(fields)) = 2 * n + 2
           /\ \A i \in 1..n : /\ Answer(fields)[2 * i] = NL
                              /\ Answer(fields)[2 * i - 1] \in fields
           /\ Answer(fields)[2 * n + 1] = "." /\ Answer(fields)[2 * n + 2] = NL
           /\ \A x \in fields : \E i \in 1..n : Answer(fields)[2 * i - 1] = x
<1> DEFINE n == Cardinality(fields)
           l == SetToSeq(fields)
           h == [i \in 1..(2 * n) |-> IF i % 2 = 1 THEN l[(i + 1) \div 2] ELSE NL]
<1>1. n \in Nat /\ l \in [1..n -> fields] /\ \A x \in fields : \E i \in 1..n : l[i] = x
  BY SetAsSeq DEF AreFields
<1>2. n # 0
  BY <1>1
<1>3. Answer(fields) = h \o <<".", NL>>
  BY DEF Answer
<1> HIDE DEF n, l
<1>4. \A i \in 1..n : /\ 2 * i \in 1..(2 * n) /\ 2 * i - 1 \in 1..(2 * n)
                      /\ (2 * i) % 2 = 0 /\ (2 * i - 1) % 2 = 1 /\ ((2 * i - 1) + 1) \div 2 = i
  BY <1>1
<1>5. \A i \in 1..n : h[2 * i] = NL /\ h[2 * i - 1] = l[i]
  BY <1>4
<1>6. h \in Seq(fields \cup {NL, "."}) /\ Len(h) = 2 * n
  <2>1. \A i \in 1..(2 * n) : i % 2 = 1 => (i + 1) \div 2 \in 1..n
    BY <1>1
  <2>2. \A i \in 1..(2 * n) : h[i] \in fields \cup {NL, "."}
    BY <1>1, <2>1
  <2>3. 2 * n \in Nat
    BY <1>1
  <2> QED BY <2>2, <2>3
<1> HIDE DEF h
<1>7. /\ Answer(fields) \in Seq(fields \cup {NL, "."}) /\ Len(Answer(fields)) = 2 * n + 2
      /\ \A i \in 1..(2 * n) : Answer(fields)[i] = h[i]
      /\ Answer(fields)[2 * n + 1] = "." /\ Answer(fields)[2 * n + 2] = NL
  <2>1. PICK k \in Nat : k = 2 * n
    BY <1>1
  <2>2. <<".", NL>> \in Seq(fields \cup {NL, "."}) /\ Len(<<".", NL>>) = 2
    OBVIOUS
  <2> DEFINE e == <<".", NL>>
  <2>3. e[1] = "." /\ e[2] = NL
    OBVIOUS
  <2> HIDE DEF e
  <2>4. e \in Seq(fields \cup {NL, "."}) /\ Len(e) = 2 /\ Answer(fields) = h \o e
    BY <1>3, <2>2 DEF e
  <2>5. /\ Answer(fields) \in Seq(fields \cup {NL, "."}) /\ Len(Answer(fields)) = k + 2
        /\ \A i \in 1..(k + 2) : Answer(fields)[i] = IF i <= k THEN h[i] ELSE e[i - k]
    BY <1>6, <2>1, <2>4, TwoMore
  <2> QED BY <2>1, <2>3, <2>5
<1>8. \A i \in 1..n : /\ Answer(fields)[2 * i] = NL /\ Answer(fields)[2 * i - 1] = l[i]
  BY <1>4, <1>5, <1>7
<1>9. n \in Nat \ {0} /\ \A i \in 1..n : Answer(fields)[2 * i - 1] \in fields
  BY <1>1, <1>2, <1>8
<1>10. \A x \in fields : \E i \in 1..n : Answer(fields)[2 * i - 1] = x
  BY <1>1, <1>8
<1> QED BY <1>7, <1>8, <1>9, <1>10

\* Of any account, with any fields: what has been received of an answer ends
\* like one just if all of it is there (authdaemon.py:103-107), however it was
\* cut into pieces.
THEOREM EndOfAnswer ==
  ASSUME NEW fields, AreFields(fields)
  PROVE  /\ Len(Answer(fields)) \in Nat \ {0}
         /\ \A n \in 1..Len(Answer(fields)) : \A buf :
              Ended(SubSeq(Answer(fields), 1, n), buf) <=> n = Len(Answer(fields))
<1>1. CASE fields = {}
  <2>1. Answer(fields) = <<"FAIL", NL>>
    BY <1>1 DEF Answer
  <2> DEFINE a == Answer(fields)
  <2>2. a \in Seq({"FAIL", NL}) /\ Len(a) = 2 /\ a[1] = "FAIL" /\ a[2] = NL
    BY <2>1
  <2> HIDE DEF a
  <2>3. \A n \in 1..2 : LET s == SubSeq(a, 1, n) IN
          s \in Seq({"FAIL", NL}) /\ Len(s) = n /\ \A i \in 1..n : s[i] = a[i]
    BY <2>2
  <2>4. ASSUME NEW n \in 1..2, NEW buf PROVE Ended(SubSeq(a, 1, n), buf) <=> n = 2
    <3> DEFINE s == SubSeq(a, 1, n)
    <3>1. s \in Seq({"FAIL", NL}) /\ Len(s) = n /\ \A i \in 1..n : s[i] = a[i]
      BY <2>3
    <3> HIDE DEF s
    <3>2. Ended(s, buf) <=> n = 2
      BY <3>1, <2>2, Marks DEF Ended
    <3> QED BY <3>2 DEF s
  <2> QED BY <2>2, <2>4 DEF a
<1>2. CASE fields # {}
  <2> DEFINE a == Answer(fields)
             T == fields \cup {NL, "."}
  <2>1. PICK k \in Nat \ {0} :
           /\ a \in Seq(T) /\ Len(a) = 2 * k + 2
           /\ \A i \in 1..k : a[2 * i] = NL /\ a[2 * i - 1] \in fields
           /\ a[2 * k + 1] = "." /\ a[2 * k + 2] = NL
    BY <1>2, AnswerOf
  <2> HIDE DEF a, T
  <2>2. "FAIL" \notin fields /\ NL \notin fields /\ "." \notin fields
    BY DEF AreFields
  <2>3. \A i \in 1..Len(a) : \/ \E j \in 1..k : i = 2 * j /\ a[i] = NL
                             \/ \E j \in 1..k : i = 2 * j - 1 /\ a[i] \in fields
                             \/ i = 2 * k + 1 \/ i = 2 * k + 2
    <3> TAKE i \in 1..Len(a)
    <3> DEFINE j == (i + 1) \div 2
    <3>1. i <= 2 * k => j \in 1..k /\ (i = 2 * j \/ i = 2 * j - 1)
      BY <2>1
    <3> HIDE DEF j
    <3> QED BY <3>1, <2>1
  <2>4. ASSUME NEW n \in 1..Len(a), NEW buf
        PROVE  Ended(SubSeq(a, 1, n), buf) <=> n = Len(a)
    <3> DEFINE s == SubSeq(a, 1, n)
    <3>1. s \in Seq(T) /\ Len(s) = n /\ \A i \in 1..n : s[i] = a[i]
      BY <2>1
    <3> HIDE DEF s
    <3>2. n = Len(a) => Ended(s, buf)
      <4>1. a[2 * k] = NL /\ Len(a) - 1 = 2 * k + 1 /\ Len(a) - 2 = 2 * k /\ Len(a) >= 3
        BY <2>1
      <4>2. n = Len(a) => /\ Len(s) >= 3 /\ s[Len(s)] = NL /\ s[Len(s) - 1] = "."
                          /\ s[Len(s) - 2] = NL
        BY <3>1, <4>1, <2>1
      <4> QED BY <4>2, <3>1, Marks DEF Ended
    <3>3. ASSUME n # Len(a), Len(s) >= 2, s[Len(s)] = NL PROVE s[Len(s) - 1] \in fields
      <4>1. n <= 2 * k + 1 /\ n >= 2 /\ s[n] = a[n] /\ s[n - 1] = a[n - 1]
        BY <3>1, <3>3, <2>1
      <4>2. PICK j \in 1..k : n = 2 * j
        BY <4>1, <2>1, <2>2, <2>3, <3>1, <3>3, NLIs
      <4> QED BY <4>1, <4>2, <2>1, <3>1
    <3>4. Ended(s, buf) => n = Len(a)
      <4>1. s[Len(s) - 1] \in fields => s[Len(s) - 1] # "." /\ s[Len(s) - 1] # "FAIL"
        BY <2>2
      <4> QED BY <3>1, <3>3, <4>1, Marks DEF Ended
    <3> QED BY <3>2, <3>4 DEF s
  <2>5. Len(a) \in Nat \ {0}
    BY <2>1
  <2> QED BY <2>4, <2>5 DEF a
<1> QED BY <1>1, <1>2

\* The dictionary of a whole answer has its fields; of no account there is none.
LEMMA FieldsOfAnswer ==
  ASSUME NEW fields, AreFields(fields), NEW none, answer = Answer(fields), got = Len(answer)
  PROVE  UserInfo(none) = IF fields = {} THEN none ELSE fields
<1>1. CASE fields = {}
  <2>1. answer = <<"FAIL", NL>>
    BY <1>1 DEF Answer
  <2>2. Len(answer) = 2 /\ answer[1] = "FAIL"
    BY <2>1
  <2>3. 1 \in 1..got
    BY <2>2
  <2>4. "FAIL" \in {answer[i] : i \in 1..got}
    BY <2>2, <2>3
  <2> QED BY <1>1, <2>4 DEF UserInfo
<1>2. CASE fields # {}
  <2>1. PICK k \in Nat \ {0} :
           /\ answer \in Seq(fields \cup {NL, "."}) /\ Len(answer) = 2 * k + 2
           /\ \A x \in fields : \E i \in 1..k : answer[2 * i - 1] = x
    BY <1>2, AnswerOf
  <2>2. \A i \in 1..got : answer[i] \in fields \cup {NL, "."}
    BY <2>1
  <2>3. \A i \in 1..k : 2 * i - 1 \in 1..got
    BY <2>1
  <2>4. "FAIL" \notin fields /\ NL \notin fields /\ "." \notin fields
    BY DEF AreFields
  <2> DEFINE data == {answer[i] : i \in 1..got}
  <2>5. fields \subseteq data /\ data \subseteq fields \cup {NL, "."}
    BY <2>1, <2>2, <2>3
  <2>6. "FAIL" \notin data /\ data \ {NL, "."} = fields
    BY <2>4, <2>5, NLIs
  <2> QED BY <1>2, <2>6 DEF UserInfo
<1> QED BY <1>1, <1>2

-----------------------------------------------------------------------------
(* What smtpaccess says.                                                   *)
IsItem(item) == IsSeq(item) /\ Len(item) \in {1, 2} /\ (Len(item) = 2 => item[2] # None)

\* An item with that key that has no value, or an empty one.
LEMMA ItemIs ==
  ASSUME NEW item, IsItem(item), NEW k
  PROVE  item \in {<<k>>, <<k, EmptyVal>>}
           <=> item[1] = k /\ (Len(item) = 1 \/ item[2] = EmptyVal)
<1>1. CASE Len(item) = 1 BY <1>1 DEF IsItem, IsSeq
<1>2. CASE Len(item) = 2 BY <1>2 DEF IsItem, IsSeq
<1> QED BY <1>1, <1>2 DEF IsItem

\* The value of the first of the items with a key.
ValueOf(vals, key) ==
  LET hits == {i \in DOMAIN vals : vals[i][1] = key}
  IN  IF hits = {} THEN None
      ELSE IF Len(vals[Min(hits)]) = 1 THEN EmptyVal ELSE vals[Min(hits)][2]

\* It is there if the key is, and empty if the first item with the key is.
LEMMA ValueIs ==
  ASSUME None # EmptyVal, NEW vals, IsSeq(vals), \A item \in ToSet(vals) : IsItem(item), NEW k
  PROVE  /\ ValueOf(vals, k) # None <=> \E i \in DOMAIN vals : vals[i][1] = k
         /\ ValueOf(vals, k) = EmptyVal <=>
              \E i \in DOMAIN vals : /\ vals[i] \in {<<k>>, <<k, EmptyVal>>}
                                     /\ \A j \in 1..(i - 1) : vals[j][1] # k
<1> DEFINE hits == {i \in DOMAIN vals : vals[i][1] = k}
<1>1. DOMAIN vals = 1..Len(vals) /\ Len(vals) \in Nat
  BY DEF IsSeq
<1>2. \A i \in DOMAIN vals : IsItem(vals[i])
  BY DEF ToSet
<1>3. CASE hits = {}
  <2>1. ValueOf(vals, k) = None
    BY <1>3 DEF ValueOf
  <2>2. \A i \in DOMAIN vals : vals[i] \notin {<<k>>, <<k, EmptyVal>>}
    BY <1>2, <1>3, ItemIs
  <2> QED BY <1>3, <2>1, <2>2
<1>4. CASE hits # {}
  <2>1. hits \subseteq Nat
    BY <1>1
  <2>2. Min(hits) \in hits /\ \A x \in hits : Min(hits) <= x
    <3> HIDE DEF hits
    <3> QED BY <1>4, <2>1, Least
  <2>3. PICK m \in hits : m = Min(hits)
    BY <2>2
  <2>4. ValueOf(vals, k) = IF Len(vals[m]) = 1 THEN EmptyVal ELSE vals[m][2]
    BY <1>4, <2>3 DEF ValueOf
  <2>5. /\ m \in DOMAIN vals /\ m \in Nat /\ vals[m][1] = k /\ IsItem(vals[m])
        /\ \A j \in 1..(m - 1) : vals[j][1] # k
    <3>1. \A j \in 1..(m - 1) : j \in DOMAIN vals /\ ~(m <= j)
      BY <1>1, <2>3
    <3> QED BY <1>1, <1>2, <2>2, <2>3, <3>1
  <2>6. ASSUME NEW i \in DOMAIN vals, vals[i][1] = k, \A j \in 1..(i - 1) : vals[j][1] # k
        PROVE  i = m
    <3>1. i \in hits /\ m <= i
      BY <2>2, <2>3, <2>6
    <3>2. i \in Nat /\ m \in 1..Len(vals)
      BY <1>1, <2>5
    <3> QED BY <2>5, <2>6, <3>1, <3>2
  <2>7. ValueOf(vals, k) # None
    BY <2>4, <2>5 DEF IsItem
  <2>8. ValueOf(vals, k) = EmptyVal <=> vals[m] \in {<<k>>, <<k, EmptyVal>>}
    <3>1. vals[m] \in {<<k>>, <<k, EmptyVal>>} <=> Len(vals[m]) = 1 \/ vals[m][2] = EmptyVal
      BY <2>5, ItemIs
    <3> QED BY <2>4, <3>1
  <2>9. \A i \in DOMAIN vals : vals[i] \in {<<k>>, <<k, EmptyVal>>} => vals[i][1] = k
    BY <1>2, ItemIs
  <2> QED BY <2>5, <2>6, <2>7, <2>8, <2>9
<1> QED BY <1>3, <1>4

\* The entry of the smallest network, if any, that an address is in.
LEMMA EntryIs ==
  ASSUME NEW conf, conf.access # None, NEW ip, IsSeq(ip),
         \A net \in DOMAIN conf.access : IsSeq(net) /\ net # <<>>,
         NEW net,
         net \in DOMAIN conf.access /\ IsPrefix(net, ip),
         \A n \in DOMAIN conf.access : IsPrefix(n, ip) => Len(n) <= Len(net)
  PROVE  Smtpaccess(conf, ip) = conf.access[net]
<1> DEFINE E == Entries(conf, ip)
<1>1. \A n \in DOMAIN conf.access :
        IsPrefix(n, ip) => Len(n) \in 1..Len(ip) /\ n = SubSeq(ip, 1, Len(n))
  BY DEF IsPrefix, IsSeq
<1>2. Len(ip) \in Nat
  BY DEF IsSeq
<1>3. \A n \in 1..Len(ip) : Len(SubSeq(ip, 1, n)) = n /\ IsPrefix(SubSeq(ip, 1, n), ip)
  BY DEF IsPrefix, IsSeq
<1>4. Len(net) \in E
  BY <1>1 DEF Entries
<1>5. \A n \in E : n <= Len(net)
  BY <1>3 DEF Entries
<1>6. Max(E) \in E /\ \A n \in E : Max(E) >= n
  <2>1. E \subseteq 0..Len(ip) /\ E # {}
    BY <1>2, <1>4 DEF Entries
  <2> HIDE DEF E
  <2> QED BY <1>2, <2>1, Greatest
<1>7. Max(E) = Len(net)
  <2>1. \A x \in E : x \in Nat
    BY <1>2 DEF Entries
  <2> HIDE DEF E
  <2> QED BY <1>4, <1>5, <1>6, <2>1
<1>8. E # {}
  BY <1>4
<1> QED BY <1>1, <1>7, <1>8 DEF Smtpaccess

\* If an address is in any network, one of them is the smallest.
LEMMA SmallestNetwork ==
  ASSUME NEW conf, conf.access # None, NEW ip, IsSeq(ip),
         \A net \in DOMAIN conf.access : IsSeq(net) /\ net # <<>>,
         Entries(conf, ip) # {}
  PROVE  \E net \in DOMAIN conf.access :
            IsPrefix(net, ip) /\ \A n \in DOMAIN conf.access : IsPrefix(n, ip) => Len(n) <= Len(net)
<1> DEFINE E == Entries(conf, ip)
<1>1. \A n \in DOMAIN conf.access :
        IsPrefix(n, ip) => Len(n) \in 1..Len(ip) /\ n = SubSeq(ip, 1, Len(n))
  BY DEF IsPrefix, IsSeq
<1>2. Len(ip) \in Nat
  BY DEF IsSeq
<1>3. \A n \in 1..Len(ip) : Len(SubSeq(ip, 1, n)) = n /\ IsPrefix(SubSeq(ip, 1, n), ip)
  BY DEF IsPrefix, IsSeq
<1>4. Max(E) \in E /\ \A n \in E : Max(E) >= n
  <2>1. E \subseteq 0..Len(ip) /\ E # {}
    BY <1>2 DEF Entries
  <2> HIDE DEF E
  <2> QED BY <1>2, <2>1, Greatest
<1>5. PICK m \in E : m = Max(E)
  BY <1>4
<1>6. m \in 1..Len(ip) /\ SubSeq(ip, 1, m) \in DOMAIN conf.access
  BY <1>5 DEF Entries
<1>7. \A n \in DOMAIN conf.access : IsPrefix(n, ip) => Len(n) \in E
  BY <1>1 DEF Entries
<1>8. \A n \in DOMAIN conf.access : IsPrefix(n, ip) => Len(n) <= m
  <2> HIDE DEF E
  <2>1. \A n \in DOMAIN conf.access : IsPrefix(n, ip) => Len(n) \in Nat
    BY <1>1
  <2> QED BY <1>4, <1>5, <1>7, <2>1, <1>6
<1> QED BY <1>3, <1>6, <1>8

\* What the assumption on the configurations says of one.
LEMMA AccessOf ==
  ASSUME NEW conf \in Configs, conf.access # None
  PROVE  \A net \in DOMAIN conf.access :
            /\ IsSeq(net) /\ net # <<>> /\ IsSeq(conf.access[net]) /\ conf.access[net] # None
            /\ \A item \in ToSet(conf.access[net]) : IsItem(item)
BY PolicyAssumption DEF IsItem

\* What the two whitelists look up (whitelist_relayclients.py:30-48,
\* whitelist_block.py:30-49, config.py:276-360) comes to what Exempt says of
\* networks and items: for every smtpaccess one of them exempts a client just
\* if the entry of its smallest network has RELAYCLIENT, or BLOCK with nothing.
THEOREM ExemptIs ==
  ASSUME NEW conf \in Configs, mail \in Mails, mail.ip # None
  PROVE  Exempt(conf) <=> IsRelayed(conf, mail.ip) \/ IsWhiteblocked(conf, mail.ip)
<1> DEFINE ip == mail.ip
<1>1. IsSeq(ip) /\ None # EmptyVal
  BY PolicyAssumption
<1>2. ASSUME Smtpaccess(conf, ip) = None
      PROVE  ~IsRelayed(conf, ip) /\ ~IsWhiteblocked(conf, ip)
  BY <1>1, <1>2 DEF IsRelayed, IsWhiteblocked, GetSmtpaccessVal
<1>3. CASE conf.access = None
  BY <1>2, <1>3 DEF Smtpaccess, Exempt
<1>4. CASE conf.access # None /\ Entries(conf, ip) = {}
  <2>1. ~IsRelayed(conf, ip) /\ ~IsWhiteblocked(conf, ip)
    BY <1>2, <1>4 DEF Smtpaccess
  <2>2. ASSUME NEW net \in DOMAIN conf.access, IsPrefix(net, ip) PROVE FALSE
    <3>1. IsSeq(net) /\ net # <<>>
      BY <1>4, AccessOf
    <3>2. Len(net) \in 1..Len(ip) /\ net = SubSeq(ip, 1, Len(net))
      BY <1>1, <2>2, <3>1 DEF IsPrefix, IsSeq
    <3> QED BY <1>4, <3>2 DEF Entries
  <2> QED BY <2>1, <2>2 DEF Exempt
<1>5. CASE conf.access # None /\ Entries(conf, ip) # {}
  <2> DEFINE Smallest(net) ==
               /\ IsPrefix(net, ip)
               /\ \A n \in DOMAIN conf.access : IsPrefix(n, ip) => Len(n) <= Len(net)
  <2>1. \A net \in DOMAIN conf.access : IsSeq(net) /\ net # <<>>
    BY <1>5, AccessOf
  <2>2. PICK net \in DOMAIN conf.access : Smallest(net)
    BY <1>1, <1>5, <2>1, SmallestNetwork
  <2>3. \A n \in DOMAIN conf.access : Smallest(n) => n = net
    <3>1. \A n \in DOMAIN conf.access : IsPrefix(n, ip) =>
             Len(n) \in Nat /\ n = SubSeq(ip, 1, Len(n))
      BY <1>1, <2>1 DEF IsPrefix, IsSeq
    <3>2. \A n \in DOMAIN conf.access : Smallest(n) => Len(n) <= Len(net) /\ Len(net) <= Len(n)
      BY <2>2
    <3>3. \A n \in DOMAIN conf.access : Smallest(n) => Len(n) = Len(net)
      BY <2>2, <3>1, <3>2
    <3> QED BY <2>2, <3>1, <3>3
  <2> DEFINE vals == conf.access[net]
  <2>4. Smtpaccess(conf, ip) = vals
    BY <1>1, <1>5, <2>1, <2>2, EntryIs
  <2>5. /\ IsSeq(vals) /\ vals # None /\ \A item \in ToSet(vals) : IsItem(item)
    BY <1>5, AccessOf
  <2>6. Exempt(conf) <=>
          \E i \in DOMAIN vals :
             \/ vals[i][1] = "RELAYCLIENT"
             \/ /\ vals[i] \in {<<"BLOCK">>, <<"BLOCK", EmptyVal>>}
                /\ \A j \in 1..(i - 1) : vals[j][1] # "BLOCK"
    BY <1>5, <2>2, <2>3 DEF Exempt
  <2> HIDE DEF vals
  <2>7. \A k : GetSmtpaccessVal(conf, k, ip) = ValueOf(vals, k)
    BY <2>4, <2>5 DEF GetSmtpaccessVal, ValueOf
  <2>8. IsRelayed(conf, ip) <=> \E i \in DOMAIN vals : vals[i][1] = "RELAYCLIENT"
    BY <1>1, <2>5, <2>7, ValueIs DEF IsRelayed
  <2>9. IsWhiteblocked(conf, ip) <=>
          \E i \in DOMAIN vals : /\ vals[i] \in {<<"BLOCK">>, <<"BLOCK", EmptyVal>>}
                                 /\ \A j \in 1..(i - 1) : vals[j][1] # "BLOCK"
    BY <1>1, <2>5, <2>7, ValueIs DEF IsWhiteblocked
  <2> QED BY <2>6, <2>8, <2>9
<1> QED BY <1>3, <1>4, <1>5

-----------------------------------------------------------------------------
(* The invariant.                                                          *)
Verdicts == {"Nothing", "451", "200", "501", "517Private", "517Unknown", "517Auth", "421"}

(* The reasons there are, by the files there are now, at the filters that  *)
(* look for them; that of quota for one recipient.                         *)
Now(addr) == NamesOf(files, files, addr)
LoopReason == mail.loop # None /\ Now(<<None, mail.loop>>) # {}
PrivateReason == \E r \in ToSet(mail.to) : IsPrivate(r, files)
Sender == IF mail.from = None THEN {} ELSE Now(mail.from)
SenderReason ==
  \E n \in Sender : accounts[n].fields = {} \/ (requireAuth /\ ~mail.auth)
Full(n) ==
  /\ accounts[n].fields # {} /\ accounts[n].maildirsize # None
  /\ OverQuota(accounts[n].maildirsize)
RcptReason(i) == \E n \in Now(mail.to[i].addr) : Full(n)

\* A reason, or a name, by two configurations in force, one not after the other.
HasReason(v) ==
  \E j \in DOMAIN inForce : \E i \in 1..j : v \in Deserved(inForce[i], inForce[j])
HasName(n, addr) ==
  \E j \in DOMAIN inForce : \E i \in 1..j : n \in NamesOf(inForce[i], inForce[j], addr)

\* Some configuration in force has the domain not local.
NotLocal(domain) ==
  \E i \in DOMAIN inForce : IsLocal(inForce[i], domain, me) \notin {"yes", "raises"}

\* hosteddomains is asked about a domain that was not local.
LookRight ==
  look = "hosted" =>
    /\ filter = "deliveredto" => mail.loop # None /\ NotLocal(mail.loop)
    /\ filter = "localsenders" => mail.from # None /\ NotLocal(mail.from[2])
    /\ filter = "quota" => rcpt \in 1..Len(mail.to) /\ NotLocal(mail.to[rcpt].addr[2])

\* The call is about the account that the configurations have for the address.
AskedRight ==
  /\ call # "none" /\ filter = "localsenders" =>
       mail.from # None /\ HasName(uid, mail.from)
  /\ call # "none" /\ filter = "quota" =>
       rcpt \in 1..Len(mail.to) /\ HasName(uid, mail.to[rcpt].addr)

\* What the filters behind have found, as long as no file was edited.
NotExempted ==
  verdict \notin {"200", "451"} =>
    /\ filter # "relayclients" /\ mail.ip # None => ~IsRelayed(files, mail.ip)
    /\ filter \notin {"relayclients", "block"} /\ mail.ip # None =>
         ~IsWhiteblocked(files, mail.ip)

NothingFound ==
  verdict = "Nothing" /\ raised = {} =>
    /\ filter \in {"privateaddr", "localsenders", "quota", "done"} => ~LoopReason
    /\ filter = "privateaddr" => \A i \in 1..(rcpt - 1) : ~IsPrivate(mail.to[i], files)
    /\ filter \in {"localsenders", "quota", "done"} => ~PrivateReason
    /\ filter \in {"quota", "done"} => ~SenderReason
    /\ filter = "quota" => \A i \in 1..(rcpt - 1) : ~RcptReason(i)
    /\ filter = "done" => \A i \in 1..Len(mail.to) : ~RcptReason(i)

Unedited == Len(inForce) = 1

VInv ==
  /\ verdict \in Verdicts /\ (verdict # "Nothing" => filter = "done")
  /\ verdict \notin {"Nothing", "451"} => HasReason(verdict)
  /\ filter \notin {"privateaddr", "quota", "done"} => rcpt = 1
  /\ LookRight /\ AskedRight
  /\ Unedited => NotExempted /\ NothingFound

\* What authdaemond says is all that it has to say of the account.
AInv ==
  /\ call # "none" => answer = Answer(accounts[uid].fields)
  /\ call \in {"connect", "write"} => got = 0 /\ cmd \in 1..CmdLen
  /\ call = "read" => got < Len(answer)
  /\ call = "answered" => got = Len(answer)

Fixed == mail \in Mails /\ accounts \in [Names -> Accounts]

\* Where each filter passes a message on to.
After(f) == CASE f = "relayclients" -> "block"       [] f = "block"        -> "deliveredto"
              [] f = "deliveredto"  -> "privateaddr" [] f = "privateaddr"  -> "localsenders"
              [] f = "localsenders" -> "quota"       [] OTHER              -> "done"

FilterSet == {"relayclients", "block", "deliveredto", "privateaddr", "localsenders", "quota"}

LEMMA FiltersAre == ToSet(Filters) = FilterSet
<1>1. /\ DOMAIN Filters = 1..6
      /\ Filters[1] = "relayclients" /\ Filters[2] = "block" /\ Filters[3] = "deliveredto"
      /\ Filters[4] = "privateaddr" /\ Filters[5] = "localsenders" /\ Filters[6] = "quota"
  BY DEF Filters
<1> QED BY <1>1 DEF ToSet, FilterSet

LEMMA PassesTo ==
  ASSUME filter \in FilterSet, Passes
  PROVE  filter' = After(filter) /\ rcpt' = 1 /\ look' = "locals"
<1>1. /\ DOMAIN Filters = 1..6 /\ Len(Filters) = 6
      /\ Filters[1] = "relayclients" /\ Filters[2] = "block" /\ Filters[3] = "deliveredto"
      /\ Filters[4] = "privateaddr" /\ Filters[5] = "localsenders" /\ Filters[6] = "quota"
  BY DEF Filters
<1>2. PICK i \in 1..6 : i = CHOOSE j \in DOMAIN Filters : Filters[j] = filter
  <2>1. \E j \in DOMAIN Filters : Filters[j] = filter
    BY <1>1 DEF FilterSet
  <2> QED BY <1>1, <2>1
<1>3. Filters[i] = filter
  <2>1. \E j \in DOMAIN Filters : Filters[j] = filter
    BY <1>1 DEF FilterSet
  <2> QED BY <1>2, <2>1
<1>4. filter' = IF i < 6 THEN Filters[i + 1] ELSE "done"
  BY <1>1, <1>2 DEF Passes
<1>5. i \in {1, 2, 3, 4, 5, 6}
  BY <1>2
<1>6. filter' = After(filter)
  BY <1>1, <1>3, <1>4, <1>5 DEF After
<1> QED BY <1>6 DEF Passes

\* The inductive invariant.
PolicyInv == TypeOK /\ Fixed /\ AInv /\ VInv

\* Every name that may be asked about has an account, or none, behind it.
LEMMA NamesAreKnown ==
  ASSUME mail \in Mails
  PROVE  /\ Len(mail.to) \in Nat
         /\ mail.from # None => mail.from \in Names /\ <<mail.from[1]>> \in Names
         /\ \A i \in 1..Len(mail.to) :
              /\ mail.to[i] \in ToSet(mail.to) /\ mail.to[i].addr \in Names
              /\ <<mail.to[i].addr[1]>> \in Names
         /\ \A r \in ToSet(mail.to) : \E i \in 1..Len(mail.to) : r = mail.to[i]
<1>1. IsSeq(mail.to) /\ \A r \in ToSet(mail.to) : r.addr # None
  BY PolicyAssumption
<1>2. /\ Len(mail.to) \in Nat /\ \A i \in 1..Len(mail.to) : mail.to[i] \in ToSet(mail.to)
      /\ \A r \in ToSet(mail.to) : \E i \in 1..Len(mail.to) : r = mail.to[i]
  BY <1>1 DEF IsSeq, ToSet
<1>3. mail.from # None => mail.from \in Addresses
  BY DEF Addresses
<1>4. \A i \in 1..Len(mail.to) : mail.to[i].addr \in Addresses
  BY <1>1, <1>2 DEF Addresses
<1> QED BY <1>2, <1>3, <1>4 DEF Names

LEMMA FieldsAre ==
  ASSUME Fixed, NEW n \in Names
  PROVE  AreFields(accounts[n].fields) /\ accounts[n].fields # None
BY PolicyAssumption DEF Fixed, AreFields

LEMMA AnswersLen == ASSUME Fixed, NEW n \in Names PROVE Len(Answer(accounts[n].fields)) \in Nat
BY FieldsAre, EndOfAnswer

LEMMA AfterIs == ASSUME NEW f \in FilterSet PROVE After(f) \in FilterSet \cup {"done"}
BY DEF After, FilterSet

\* A call of getUserInfo about an address.
LEMMA Asks ==
  ASSUME Fixed, CmdLen \in Nat, NEW addr, NEW kind, addr \in Names, <<addr[1]>> \in Names,
         GetUserInfo(addr, kind)
  PROVE  /\ uid' \in Names /\ uid' = (IF kind = "local" THEN <<addr[1]>> ELSE addr)
         /\ call = "none" /\ call' = "connect" /\ cmd' = CmdLen /\ got' = 0
         /\ answer' = Answer(accounts[uid'].fields) /\ Len(answer') \in Nat
         /\ look' = "locals" /\ UNCHANGED <<filter, rcpt, verdict, raised>>
<1>1. uid' \in Names /\ uid' = (IF kind = "local" THEN <<addr[1]>> ELSE addr)
  BY DEF GetUserInfo, Ask
<1>2. answer' = Answer(accounts[uid'].fields)
  BY DEF GetUserInfo, Ask
<1> QED BY <1>1, <1>2, AnswersLen DEF GetUserInfo, Ask

\* Each step keeps the types.
LEMMA TypeStep == PolicyInv /\ [Next]_vars => TypeOK' /\ Fixed'
<1> SUFFICES ASSUME PolicyInv, [Next]_vars PROVE TypeOK' /\ Fixed'
  OBVIOUS
<1> USE DEF PolicyInv
<1>0. /\ CmdLen \in Nat \ {0} /\ NoName \notin Names /\ ToSet(Filters) = FilterSet
  BY AuthDaemonAssumption, PolicyAssumption, FiltersAre
<1>1. Len(mail.to) \in Nat
  BY NamesAreKnown DEF Fixed
<1> DEFINE Msg == /\ filter' \in FilterSet \cup {"done"} /\ rcpt' \in 1..(Len(mail.to) + 1)
                  /\ raised' \subseteq FilterSet /\ look' = "locals"
           Closed == call' = "none" /\ uid' = NoName /\ cmd' = 0 /\ answer' = <<>> /\ got' = 0
           NoEdit == UNCHANGED fixedVars /\ UNCHANGED editVars
<1>2. filter \in FilterSet \cup {"done"} /\ rcpt \in 1..(Len(mail.to) + 1) /\ raised \subseteq FilterSet
  BY <1>0 DEF TypeOK
<1>2a. ASSUME AskHosted, UNCHANGED authVars, call = "none", NoEdit,
              filter \in {"deliveredto", "localsenders", "quota"}
       PROVE  TypeOK' /\ Fixed'
  BY <1>0, <1>2a DEF AskHosted, TypeOK, Fixed, fixedVars, editVars, authVars
<1>3. ASSUME filter \in FilterSet, Nothing \/ Raise \/ (\E v : Reply(v)) PROVE Msg
  <2>1. CASE Nothing BY <1>1, <1>2, <1>3, <2>1, PassesTo, AfterIs DEF Nothing
  <2>2. CASE Raise BY <1>1, <1>2, <1>3, <2>2, PassesTo, AfterIs DEF Raise
  <2>3. CASE \E v : Reply(v) BY <1>2, <2>3 DEF Reply
  <2> QED BY <1>3, <2>1, <2>2, <2>3
<1>4. ASSUME Msg, NoEdit, Closed PROVE TypeOK' /\ Fixed'
  BY <1>0, <1>4 DEF TypeOK, Fixed, fixedVars, editVars
<1>5. ASSUME Msg, NoEdit, UNCHANGED authVars, call = "none" PROVE TypeOK' /\ Fixed'
  BY <1>0, <1>5 DEF TypeOK, Fixed, fixedVars, editVars, authVars
<1>6. ASSUME filter \in {"relayclients", "block", "deliveredto", "privateaddr"} PROVE call = "none"
  BY <1>6 DEF TypeOK
<1>7. CASE WhitelistRelayclients
  <2>1. Msg BY <1>3, <1>7 DEF WhitelistRelayclients, FilterSet
  <2> QED BY <1>5, <1>6, <1>7, <2>1 DEF WhitelistRelayclients
<1>8. CASE WhitelistBlock
  <2>1. Msg BY <1>3, <1>8 DEF WhitelistBlock, FilterSet
  <2> QED BY <1>5, <1>6, <1>8, <2>1 DEF WhitelistBlock
<1>9. CASE DeliveredTo
  <2>1. AskHosted \/ Nothing \/ Raise \/ \E v : Reply(v) BY <1>9 DEF DeliveredTo
  <2>2. filter = "deliveredto" /\ UNCHANGED authVars /\ NoEdit BY <1>9 DEF DeliveredTo
  <2>3. Msg \/ AskHosted BY <1>3, <2>1, <2>2 DEF FilterSet
  <2> QED BY <1>2a, <1>5, <1>6, <2>2, <2>3
<1>10. CASE PrivateAddr
  <2>1. CASE rcpt > Len(mail.to)
    <3>1. Msg BY <1>3, <1>10, <2>1 DEF PrivateAddr, FilterSet
    <3> QED BY <1>5, <1>6, <1>10, <3>1 DEF PrivateAddr
  <2>2. CASE ~(rcpt > Len(mail.to))
    <3>1. NextRcpt \/ \E v : Reply(v) BY <1>10, <2>2 DEF PrivateAddr
    <3>2. NextRcpt => Msg BY <1>1, <1>2, <2>2 DEF NextRcpt
    <3>3. Msg BY <1>3, <1>10, <3>1, <3>2 DEF PrivateAddr, FilterSet
    <3> QED BY <1>5, <1>6, <1>10, <3>3 DEF PrivateAddr
  <2> QED BY <2>1, <2>2
<1>11. ASSUME filter \in {"localsenders", "quota"}, NEW addr, NEW kind,
              addr \in Names, <<addr[1]>> \in Names, GetUserInfo(addr, kind), NoEdit
       PROVE  TypeOK' /\ Fixed'
  <2>1. /\ uid' \in Names /\ call' = "connect" /\ cmd' = CmdLen /\ got' = 0
        /\ Len(answer') \in Nat /\ look' = "locals" /\ UNCHANGED <<filter, rcpt, verdict, raised>>
    BY <1>0, <1>11, Asks
  <2> QED BY <1>0, <1>2, <1>11, <2>1 DEF TypeOK, Fixed, fixedVars, editVars
<1>12. CASE LocalSenders
  <2>1. \/ (Nothing \/ Raise \/ AskHosted) /\ UNCHANGED authVars
        \/ \E kind : mail.from # None /\ GetUserInfo(mail.from, kind)
    <3> DEFINE kind == IF mail.from = None THEN "foreign" ELSE Domain(mail.from[2])
    <3>1. \/ kind = "foreign" /\ Nothing /\ UNCHANGED authVars
          \/ kind = "raises" /\ Raise /\ UNCHANGED authVars
          \/ kind = "ask" /\ AskHosted /\ UNCHANGED authVars
          \/ kind \in {"local", "hosted"} /\ GetUserInfo(mail.from, kind)
      BY <1>12 DEF LocalSenders
    <3>2. kind \in {"local", "hosted"} => mail.from # None
      OBVIOUS
    <3> QED BY <3>1, <3>2
  <2>2. filter = "localsenders" /\ call = "none" /\ NoEdit
    BY <1>12 DEF LocalSenders
  <2>3. ASSUME (Nothing \/ Raise) /\ UNCHANGED authVars PROVE TypeOK' /\ Fixed'
    <3>1. Msg BY <1>3, <2>2, <2>3 DEF FilterSet
    <3> QED BY <1>5, <2>2, <2>3, <3>1
  <2>4. ASSUME NEW kind, mail.from # None, GetUserInfo(mail.from, kind) PROVE TypeOK' /\ Fixed'
    <3>1. mail.from \in Names /\ <<mail.from[1]>> \in Names
      BY <2>4, NamesAreKnown DEF Fixed
    <3> QED BY <1>11, <2>2, <2>4, <3>1
  <2>5. ASSUME AskHosted, UNCHANGED authVars PROVE TypeOK' /\ Fixed'
    BY <1>2a, <2>2, <2>5
  <2> QED BY <2>1, <2>3, <2>4, <2>5
<1>13. CASE SenderInfo \/ AuthUnreadable
  <2>1. (Nothing \/ Raise \/ \E v : Reply(v)) /\ Closed /\ NoEdit /\ filter = "localsenders"
    BY <1>13 DEF SenderInfo, AuthUnreadable, HangUp
  <2>2. Msg BY <1>3, <2>1 DEF FilterSet
  <2> QED BY <1>4, <2>1, <2>2
<1>14. CASE Quota
  <2>1. filter = "quota" /\ call = "none" /\ NoEdit
    BY <1>14 DEF Quota
  <2>2. \/ (Nothing \/ Raise \/ AskHosted) /\ UNCHANGED authVars
        \/ rcpt <= Len(mail.to) /\ NextRcpt /\ UNCHANGED authVars
        \/ \E kind : rcpt <= Len(mail.to) /\ GetUserInfo(mail.to[rcpt].addr, kind)
    BY <1>1, <1>2, <1>14 DEF Quota
  <2>3. ASSUME (Nothing \/ Raise) /\ UNCHANGED authVars PROVE TypeOK' /\ Fixed'
    <3>1. Msg BY <1>3, <2>1, <2>3 DEF FilterSet
    <3> QED BY <1>5, <2>1, <2>3, <3>1
  <2>4. ASSUME rcpt <= Len(mail.to), NextRcpt, UNCHANGED authVars PROVE TypeOK' /\ Fixed'
    <3>1. Msg BY <1>1, <1>2, <2>4 DEF NextRcpt
    <3> QED BY <1>5, <2>1, <2>4, <3>1
  <2>5. ASSUME NEW kind, rcpt <= Len(mail.to), GetUserInfo(mail.to[rcpt].addr, kind)
        PROVE  TypeOK' /\ Fixed'
    <3>1. rcpt \in 1..Len(mail.to)
      BY <1>1, <1>2, <2>5
    <3>2. mail.to[rcpt].addr \in Names /\ <<mail.to[rcpt].addr[1]>> \in Names
      BY <3>1, NamesAreKnown DEF Fixed
    <3> QED BY <1>11, <2>1, <2>5, <3>2
  <2>6. ASSUME AskHosted, UNCHANGED authVars PROVE TypeOK' /\ Fixed'
    BY <1>2a, <2>1, <2>6
  <2> QED BY <2>2, <2>3, <2>4, <2>5, <2>6
<1>15. CASE CheckQuota
  <2>1. filter = "quota" /\ call = "answered" /\ Closed /\ NoEdit
    BY <1>15 DEF CheckQuota, HangUp
  <2>2. NextRcpt \/ Raise \/ \E v : Reply(v)
    BY <1>15 DEF CheckQuota
  <2>3. rcpt \in 1..Len(mail.to)
    BY <2>1 DEF VInv, AskedRight
  <2>4. NextRcpt => Msg
    BY <1>1, <1>2, <2>3 DEF NextRcpt
  <2>5. Msg
    BY <1>3, <2>1, <2>2, <2>4 DEF FilterSet
  <2> QED BY <1>4, <2>1, <2>5
<1>16. CASE AuthLost
  <2>1. Raise /\ Closed /\ NoEdit /\ filter \in FilterSet
    BY <1>16 DEF AuthLost, HangUp, TypeOK, FilterSet
  <2>2. Msg BY <1>3, <2>1
  <2> QED BY <1>4, <2>1, <2>2
<1>17. CASE TimeOut \/ (AuthStep /\ Lost)
  <2>1. Breaks /\ call # "none" /\ NoEdit /\ UNCHANGED msgVars
    BY <1>17 DEF TimeOut, TimesOut, AuthStep, Lost
  <2> QED BY <2>1 DEF Breaks, TypeOK, Fixed, msgVars, fixedVars, editVars
<1>18. CASE AuthStep /\ (Connect \/ WriteAuth \/ ReadAuth)
  <2>1. NoEdit /\ UNCHANGED msgVars
    BY <1>18 DEF AuthStep
  <2>2. CASE Connect
    BY <2>1, <2>2 DEF Connect, TypeOK, Fixed, msgVars, fixedVars, editVars
  <2>3. CASE WriteAuth
    <3>1. PICK n \in 1..cmd : cmd' = cmd - n /\ call' = IF n = cmd THEN "read" ELSE "write"
      BY <2>3 DEF WriteAuth
    <3>2. call = "write" /\ UNCHANGED <<uid, answer, got>>
      BY <2>3 DEF WriteAuth
    <3>3. cmd' \in 0..CmdLen
      BY <1>0, <3>1 DEF TypeOK
    <3> QED BY <2>1, <3>1, <3>2, <3>3 DEF TypeOK, Fixed, msgVars, fixedVars, editVars
  <2>4. CASE ReadAuth
    <3>1. PICK n \in (got + 1)..Len(answer) : got' = n /\ call' \in {"answered", "read"}
      BY <2>4 DEF ReadAuth
    <3>2. call = "read" /\ UNCHANGED <<uid, cmd, answer>>
      BY <2>4 DEF ReadAuth
    <3>3. got' \in 0..Len(answer')
      BY <3>1, <3>2 DEF TypeOK
    <3> QED BY <2>1, <3>1, <3>2, <3>3 DEF TypeOK, Fixed, msgVars, fixedVars, editVars
  <2> QED BY <1>18, <2>2, <2>3, <2>4
<1>19. CASE Unreadable
  <2>1. filter \in FilterSet /\ call = "none" /\ (Raise \/ \E v : Reply(v))
        /\ UNCHANGED authVars /\ NoEdit
    BY <1>2, <1>19 DEF Unreadable
  <2>2. Msg BY <1>3, <2>1
  <2> QED BY <1>5, <2>1, <2>2
<1>20. CASE Edit
  <2>1. UNCHANGED authVars /\ UNCHANGED msgVars /\ UNCHANGED fixedVars
        /\ files' \in Configs /\ inForce' = Append(inForce, files')
    BY <1>20 DEF Edit
  <2>2. inForce' \in Seq(Configs) /\ inForce' # <<>> /\ files' = Last(inForce')
    BY <2>1 DEF TypeOK, Last
  <2> QED BY <2>1, <2>2 DEF TypeOK, Fixed, authVars, msgVars, fixedVars
<1>21. CASE UNCHANGED vars
  <2>1. UNCHANGED authVars /\ UNCHANGED msgVars /\ UNCHANGED fixedVars /\ UNCHANGED editVars
    BY <1>21 DEF vars
  <2> QED BY <2>1 DEF TypeOK, Fixed, authVars, msgVars, fixedVars, editVars
<1> QED BY <1>7, <1>8, <1>9, <1>10, <1>12, <1>13, <1>14, <1>15, <1>16, <1>17, <1>18, <1>19,
           <1>20, <1>21 DEF Next, FilterStep, AuthStep

\* Each step keeps to the answer of the account that is asked about.
LEMMA AnswerStep == PolicyInv /\ [Next]_vars => AInv'
<1> SUFFICES ASSUME PolicyInv, [Next]_vars PROVE AInv'
  OBVIOUS
<1> USE DEF PolicyInv
<1>0. CmdLen \in Nat \ {0}
  BY AuthDaemonAssumption
<1>1. \A n \in Names : AreFields(accounts[n].fields)
  BY FieldsAre
<1>2. accounts' = accounts /\ (call' # "none" /\ UNCHANGED authVars => AInv')
  BY DEF AInv, Next, FilterStep, WhitelistRelayclients, WhitelistBlock, DeliveredTo,
         PrivateAddr, LocalSenders, SenderInfo, Quota, CheckQuota, AuthLost, TimeOut,
         AuthStep, Unreadable, AuthUnreadable, Edit, fixedVars, authVars, vars
<1>3. ASSUME call' = "none" PROVE AInv'
  BY <1>3 DEF AInv
<1>4. ASSUME UNCHANGED authVars PROVE AInv'
  BY <1>2, <1>3, <1>4
<1>5. ASSUME NEW addr, NEW kind, addr \in Names, <<addr[1]>> \in Names, GetUserInfo(addr, kind)
      PROVE  AInv'
  BY <1>0, <1>2, <1>5, Asks DEF AInv
<1>6. CASE LocalSenders
  <2> DEFINE kind == IF mail.from = None THEN "foreign" ELSE Domain(mail.from[2])
  <2>1. UNCHANGED authVars \/ (kind \in {"local", "hosted"} /\ GetUserInfo(mail.from, kind))
    BY <1>6 DEF LocalSenders
  <2>2. kind \in {"local", "hosted"} => mail.from # None
    OBVIOUS
  <2>3. mail.from # None => mail.from \in Names /\ <<mail.from[1]>> \in Names
    BY NamesAreKnown DEF Fixed
  <2> HIDE DEF kind
  <2> QED BY <1>4, <1>5, <2>1, <2>2, <2>3
<1>7. CASE Quota
  <2>1. \/ UNCHANGED authVars
        \/ \E kind : rcpt <= Len(mail.to) /\ GetUserInfo(mail.to[rcpt].addr, kind)
    <3>1. Len(mail.to) \in Nat /\ rcpt \in Nat
      BY NamesAreKnown DEF Fixed, TypeOK
    <3> QED BY <1>7, <3>1 DEF Quota
  <2>2. rcpt <= Len(mail.to) =>
          mail.to[rcpt].addr \in Names /\ <<mail.to[rcpt].addr[1]>> \in Names
    BY NamesAreKnown DEF Fixed, TypeOK
  <2> QED BY <1>4, <1>5, <2>1, <2>2
<1>8. CASE SenderInfo \/ AuthUnreadable \/ CheckQuota \/ AuthLost
  BY <1>3, <1>8 DEF SenderInfo, AuthUnreadable, CheckQuota, AuthLost, HangUp
<1>9. CASE TimeOut \/ (AuthStep /\ Lost)
  BY <1>2, <1>9 DEF TimeOut, TimesOut, AuthStep, Lost, Breaks, AInv
<1>10. CASE AuthStep /\ Connect
  BY <1>2, <1>10 DEF Connect, AInv
<1>11. CASE AuthStep /\ WriteAuth
  <2>1. PICK n \in 1..cmd : cmd' = cmd - n /\ call' = IF n = cmd THEN "read" ELSE "write"
    BY <1>11 DEF WriteAuth
  <2>2. call = "write" /\ UNCHANGED <<uid, answer, got>> /\ cmd \in 1..CmdLen /\ got = 0
    BY <1>11 DEF WriteAuth, AInv
  <2>3. n # cmd => cmd' \in 1..CmdLen
    BY <1>0, <2>1, <2>2
  <2>4. answer = Answer(accounts[uid].fields) /\ Len(answer) \in Nat \ {0}
    <3>1. uid \in Names
      BY <2>2 DEF TypeOK
    <3>2. answer = Answer(accounts[uid].fields)
      BY <2>2 DEF AInv
    <3> QED BY <1>1, <3>1, <3>2, EndOfAnswer
  <2> QED BY <1>2, <2>1, <2>2, <2>3, <2>4 DEF AInv
<1>12. CASE AuthStep /\ ReadAuth
  <2>1. PICK n \in (got + 1)..Len(answer) :
          /\ got' = n
          /\ call' = IF Ended(SubSeq(answer, 1, n), SubSeq(answer, got + 1, n))
                     THEN "answered" ELSE "read"
    BY <1>12 DEF ReadAuth
  <2>2. call = "read" /\ UNCHANGED <<uid, cmd, answer>> /\ uid \in Names /\ got \in Nat
    BY <1>12 DEF ReadAuth, TypeOK
  <2>3. answer = Answer(accounts[uid].fields)
    BY <2>2 DEF AInv
  <2>4. Len(answer) \in Nat \ {0} /\ \A m \in 1..Len(answer) : \A buf :
          Ended(SubSeq(answer, 1, m), buf) <=> m = Len(answer)
    BY <1>1, <2>2, <2>3, EndOfAnswer
  <2>5. n \in 1..Len(answer) /\ (n # Len(answer) => n < Len(answer))
    BY <2>1, <2>2, <2>4
  <2>6. call' = IF n = Len(answer) THEN "answered" ELSE "read"
    BY <2>1, <2>4, <2>5
  <2> QED BY <1>2, <2>1, <2>2, <2>3, <2>5, <2>6 DEF AInv
<1>13. CASE WhitelistRelayclients \/ WhitelistBlock \/ DeliveredTo \/ PrivateAddr
            \/ Unreadable \/ Edit \/ UNCHANGED vars
  <2>1. UNCHANGED authVars
    BY <1>13 DEF WhitelistRelayclients, WhitelistBlock, DeliveredTo, PrivateAddr, Unreadable,
                 Edit, vars
  <2> QED BY <1>4, <2>1
<1> QED BY <1>6, <1>7, <1>8, <1>9, <1>10, <1>11, <1>12, <1>13
        DEF Next, FilterStep, AuthStep

\* The configurations in force, the last of which is what there is now.
LEMMA InForceIs ==
  ASSUME PolicyInv
  PROVE  /\ Len(inForce) \in Nat \ {0} /\ DOMAIN inForce = 1..Len(inForce)
         /\ files = inForce[Len(inForce)] /\ files \in Configs
         /\ \A i \in DOMAIN inForce : inForce[i] \in Configs
BY DEF PolicyInv, TypeOK, Last

\* A reason now is a reason.
LEMMA ReasonNow ==
  ASSUME PolicyInv, NEW v \in Deserved(files, files) PROVE HasReason(v)
<1> DEFINE n == Len(inForce)
<1>1. n \in DOMAIN inForce /\ n \in 1..n /\ v \in Deserved(inForce[n], inForce[n])
  BY InForceIs
<1> QED BY <1>1 DEF HasReason

\* What Domain makes of an address is whose account it is.
LEMMA DomainIs ==
  ASSUME PolicyInv, NEW addr, look = "hosted" => NotLocal(addr[2])
  PROVE  /\ Domain(addr[2]) \in {"local", "hosted", "foreign", "raises", "ask"}
         /\ Domain(addr[2]) = "local" => HasName(<<addr[1]>>, addr)
         /\ Domain(addr[2]) = "hosted" => HasName(addr, addr)
         /\ Domain(addr[2]) = "ask" => NotLocal(addr[2])
         /\ Unedited /\ Domain(addr[2]) = "foreign" => Now(addr) = {}
<1> DEFINE n == Len(inForce)
<1>1. /\ look \in {"locals", "hosted"} /\ n \in Nat \ {0} /\ DOMAIN inForce = 1..n
      /\ files = inForce[n]
  BY InForceIs DEF PolicyInv, TypeOK
<1>2. CASE look = "hosted"
  <2>1. PICK i \in DOMAIN inForce : IsLocal(inForce[i], addr[2], me) \notin {"yes", "raises"}
    BY <1>2 DEF NotLocal
  <2>2. Domain(addr[2]) = IF IsHosteddomain(files, addr[2]) THEN "hosted" ELSE "foreign"
    BY <1>2 DEF Domain
  <2>3. i \in 1..n /\ n \in DOMAIN inForce
    BY <1>1, <2>1
  <2>4. ASSUME IsHosteddomain(files, addr[2]) PROVE HasName(addr, addr)
    <3>1. addr \in NamesOf(inForce[i], inForce[n], addr)
      BY <1>1, <2>1, <2>4 DEF NamesOf
    <3> QED BY <2>3, <3>1 DEF HasName
  <2>5. ASSUME Unedited, ~IsHosteddomain(files, addr[2]) PROVE Now(addr) = {}
    <3>1. files = inForce[i]
      BY <1>1, <2>1, <2>5 DEF Unedited
    <3> QED BY <2>1, <2>5, <3>1 DEF Now, NamesOf
  <2> QED BY <2>2, <2>4, <2>5
<1>3. CASE look = "locals"
  <2>1. CASE IsLocal(files, addr[2], me) = "yes"
    <3>1. Domain(addr[2]) = "local"
      BY <1>3, <2>1 DEF Domain
    <3>2. n \in DOMAIN inForce /\ n \in 1..n /\ <<addr[1]>> \in NamesOf(inForce[n], inForce[n], addr)
      BY <1>1, <2>1 DEF NamesOf
    <3> QED BY <3>1, <3>2 DEF HasName
  <2>2. CASE IsLocal(files, addr[2], me) = "raises"
    BY <1>3, <2>2 DEF Domain
  <2>3. CASE IsLocal(files, addr[2], me) \notin {"yes", "raises"}
    <3>1. Domain(addr[2]) = "ask"
      BY <1>3, <2>3 DEF Domain
    <3>2. NotLocal(addr[2])
      BY <1>1, <2>3 DEF NotLocal
    <3> QED BY <3>1, <3>2
  <2> QED BY <2>1, <2>2, <2>3
<1> QED BY <1>1, <1>2, <1>3

\* Without an edit there is one account at most for an address.
LEMMA OneName ==
  ASSUME PolicyInv, Unedited, NEW addr, NEW n, HasName(n, addr) PROVE Now(addr) = {n}
<1>1. PICK j \in DOMAIN inForce : \E i \in 1..j : n \in NamesOf(inForce[i], inForce[j], addr)
  BY DEF HasName
<1>2. PICK i \in 1..j : n \in NamesOf(inForce[i], inForce[j], addr)
  BY <1>1
<1>3. inForce[i] = files /\ inForce[j] = files
  BY <1>1, <1>2, InForceIs DEF Unedited
<1> QED BY <1>2, <1>3 DEF Now, NamesOf

\* The account, the message and pythonfilter's name for the host do not change.
LEMMA SameReasons ==
  ASSUME UNCHANGED fixedVars
  PROVE  /\ \A conf, later : Deserved(conf, later)' = Deserved(conf, later)
         /\ \A conf, later, addr : NamesOf(conf, later, addr)' = NamesOf(conf, later, addr)
         /\ UNCHANGED files =>
              /\ LoopReason' <=> LoopReason
              /\ PrivateReason' <=> PrivateReason
              /\ SenderReason' <=> SenderReason
              /\ \A i : IsPrivate(mail.to[i], files)' <=> IsPrivate(mail.to[i], files)
              /\ \A i : RcptReason(i)' <=> RcptReason(i)
<1>1. me' = me /\ accounts' = accounts /\ mail' = mail
  BY DEF fixedVars
<1>2. \A conf, later, addr : NamesOf(conf, later, addr)' = NamesOf(conf, later, addr)
  BY <1>1 DEF NamesOf
<1>3. \A conf, later : Deserved(conf, later)' = Deserved(conf, later)
  BY <1>1 DEF Deserved, NamesOf, Exempt, IsPrivate
<1>4. ASSUME files' = files
      PROVE  /\ LoopReason' <=> LoopReason
             /\ PrivateReason' <=> PrivateReason
             /\ SenderReason' <=> SenderReason
             /\ \A i : IsPrivate(mail.to[i], files)' <=> IsPrivate(mail.to[i], files)
             /\ \A i : RcptReason(i)' <=> RcptReason(i)
  BY <1>1, <1>4
     DEF LoopReason, PrivateReason, SenderReason, RcptReason, Sender, Full, Now, NamesOf, IsPrivate
<1> QED BY <1>2, <1>3, <1>4

\* Another edit takes nothing away from what there was in force.
LEMMA StillInForce ==
  ASSUME PolicyInv, UNCHANGED fixedVars,
         inForce' = inForce \/ inForce' = Append(inForce, files')
  PROVE  /\ \A v : HasReason(v) => HasReason(v)'
         /\ \A n, addr : HasName(n, addr) => HasName(n, addr)'
         /\ \A domain : NotLocal(domain) => NotLocal(domain)'
<1>1. \A i \in DOMAIN inForce : i \in DOMAIN inForce' /\ inForce'[i] = inForce[i]
  BY DEF PolicyInv, TypeOK
<1>2. \A j \in DOMAIN inForce : \A i \in 1..j : i \in DOMAIN inForce
  BY InForceIs
<1>3. me' = me
  BY DEF fixedVars
<1>4. ASSUME NEW v, HasReason(v) PROVE HasReason(v)'
  BY <1>1, <1>2, <1>4, SameReasons DEF HasReason
<1>5. ASSUME NEW n, NEW addr, HasName(n, addr) PROVE HasName(n, addr)'
  BY <1>1, <1>2, <1>5, SameReasons DEF HasName
<1>6. ASSUME NEW domain, NotLocal(domain) PROVE NotLocal(domain)'
  BY <1>1, <1>3, <1>6 DEF NotLocal
<1> QED BY <1>4, <1>5, <1>6

\* What the filter at hand has found when it says nothing.
NothingHere ==
  /\ filter = "relayclients" /\ mail.ip # None => ~IsRelayed(files, mail.ip)
  /\ filter = "block" /\ mail.ip # None => ~IsWhiteblocked(files, mail.ip)
  /\ filter = "deliveredto" => ~LoopReason
  /\ filter = "privateaddr" => rcpt = Len(mail.to) + 1
  /\ filter = "localsenders" => ~SenderReason
  /\ filter = "quota" => rcpt = Len(mail.to) + 1

(* The ways in which a filter ends, or goes on to the next recipient.      *)
\* It says nothing, having found nothing.
LEMMA EndsWithNothing ==
  ASSUME PolicyInv, filter \in FilterSet, Nothing, UNCHANGED <<fixedVars, editVars>>, call' = "none",
         Unedited => NothingHere
  PROVE  VInv'
<1>1. /\ filter' = After(filter) /\ rcpt' = 1 /\ look' = "locals"
      /\ verdict' = verdict /\ raised' = raised
  BY PassesTo DEF Nothing
<1>2. mail' = mail /\ files' = files /\ inForce' = inForce /\ UNCHANGED fixedVars
  BY DEF fixedVars, editVars
<1>3. filter # "done" /\ verdict = "Nothing"
  BY DEF PolicyInv, VInv, FilterSet
<1>4. verdict' \in Verdicts /\ verdict' = "Nothing" /\ AskedRight' /\ LookRight'
  BY <1>1, <1>3 DEF AskedRight, LookRight, Verdicts
<1>5. ASSUME Unedited PROVE NotExempted' /\ NothingFound'
  <2>1. NotExempted /\ NothingFound /\ NothingHere
    BY <1>5 DEF PolicyInv, VInv
  <2>2. /\ LoopReason' <=> LoopReason
        /\ PrivateReason' <=> PrivateReason
        /\ SenderReason' <=> SenderReason
        /\ \A i : RcptReason(i)' <=> RcptReason(i)
    BY <1>2, SameReasons
  <2>3. 1..(rcpt' - 1) = {}
    BY <1>1
  <2>4. NotExempted'
    BY <1>1, <1>2, <1>3, <2>1 DEF NotExempted, NothingHere, After, FilterSet
  <2>5. Len(mail.to) \in Nat /\ \A t \in ToSet(mail.to) : \E i \in 1..Len(mail.to) : t = mail.to[i]
    BY NamesAreKnown DEF PolicyInv, Fixed
  <2>6. filter = "privateaddr" /\ raised = {} => ~PrivateReason
    <3>1. ASSUME filter = "privateaddr", raised = {}
          PROVE  \A i \in 1..Len(mail.to) : ~IsPrivate(mail.to[i], files)
      BY <1>3, <2>1, <2>5, <3>1 DEF NothingFound, NothingHere
    <3> QED BY <2>5, <3>1 DEF PrivateReason
  <2>7. filter = "quota" /\ raised = {} => \A i \in 1..Len(mail.to) : ~RcptReason(i)
    BY <1>3, <2>1, <2>5 DEF NothingFound, NothingHere
  <2>8. NothingFound'
    <3> HIDE DEF RcptReason, LoopReason, PrivateReason, SenderReason
    <3>1. filter' = "done" => filter = "quota"
      BY <1>1 DEF After, FilterSet
    <3> QED BY <1>1, <1>2, <1>3, <2>1, <2>2, <2>3, <2>6, <2>7, <3>1
            DEF NothingFound, NothingHere, After, FilterSet
  <2> QED BY <2>4, <2>8
<1> QED BY <1>1, <1>2, <1>4, <1>5 DEF VInv, Unedited

\* It has the last word, for a reason, and past the whitelists unless it exempts.
LEMMA EndsWithReply ==
  ASSUME PolicyInv, filter \in FilterSet, NEW v \in Verdicts \ {"Nothing"}, Reply(v),
         UNCHANGED <<fixedVars, editVars>>, call' = "none",
         v # "451" => HasReason(v),
         v \notin {"200", "451"} => filter \notin {"relayclients", "block"}
  PROVE  VInv'
<1>1. /\ filter' = "done" /\ rcpt' = rcpt /\ look' = "locals"
      /\ verdict' = v /\ raised' = raised
  BY DEF Reply
<1>2. mail' = mail /\ files' = files /\ inForce' = inForce /\ UNCHANGED fixedVars
  BY DEF fixedVars, editVars
<1>3. verdict = "Nothing"
  BY DEF PolicyInv, VInv, FilterSet
<1>4. verdict' # "451" => HasReason(verdict)'
  <2>1. v # "451" => HasReason(v)'
    BY <1>2, StillInForce
  <2>2. ASSUME NEW w, w = v PROVE HasReason(w)' <=> HasReason(v)'
    BY <2>2
  <2> QED BY <1>1, <2>1, <2>2 DEF HasReason
<1>5. ASSUME Unedited PROVE NotExempted' /\ NothingFound'
  <2>1. NotExempted
    BY <1>5 DEF PolicyInv, VInv
  <2> QED BY <1>1, <1>2, <1>3, <2>1 DEF NotExempted, NothingFound
<1>6. AskedRight' /\ LookRight'
  BY <1>1 DEF AskedRight, LookRight
<1> QED BY <1>1, <1>2, <1>4, <1>5, <1>6 DEF VInv, Unedited

\* It raises an exception, which is noted.
LEMMA EndsWithRaise ==
  ASSUME PolicyInv, filter \in FilterSet \ {"relayclients", "block"}, Raise,
         UNCHANGED <<fixedVars, editVars>>, call' = "none"
  PROVE  VInv'
<1>1. /\ filter' = After(filter) /\ rcpt' = 1 /\ look' = "locals"
      /\ verdict' = verdict /\ raised' # {}
  BY PassesTo DEF Raise
<1>2. mail' = mail /\ files' = files /\ inForce' = inForce
  BY DEF fixedVars, editVars
<1>3. verdict = "Nothing" /\ filter \notin {"done", "relayclients", "block"}
  BY DEF PolicyInv, VInv, FilterSet
<1>4. verdict' \in Verdicts /\ verdict' = "Nothing" /\ AskedRight' /\ LookRight'
  BY <1>1, <1>3 DEF AskedRight, LookRight, Verdicts
<1>5. ASSUME Unedited PROVE NotExempted' /\ NothingFound'
  <2>1. NotExempted
    BY <1>5 DEF PolicyInv, VInv
  <2> QED BY <1>1, <1>2, <1>3, <2>1 DEF NotExempted, NothingFound
<1> QED BY <1>1, <1>2, <1>4, <1>5 DEF VInv, Unedited

\* The filter has nothing against a recipient.
LEMMA GoesOn ==
  ASSUME PolicyInv, filter \in {"privateaddr", "quota"}, NextRcpt,
         UNCHANGED <<fixedVars, editVars>>, call' = "none",
         Unedited /\ filter = "privateaddr" => ~IsPrivate(mail.to[rcpt], files),
         Unedited /\ filter = "quota" => ~RcptReason(rcpt)
  PROVE  VInv'
<1>1. /\ filter' = filter /\ rcpt' = rcpt + 1 /\ look' = "locals"
      /\ verdict' = verdict /\ raised' = raised
  BY DEF NextRcpt
<1>2. mail' = mail /\ files' = files /\ inForce' = inForce /\ UNCHANGED fixedVars
  BY DEF fixedVars, editVars
<1>3. verdict = "Nothing" /\ verdict \in Verdicts /\ rcpt \in Nat
  <2>1. rcpt \in Nat
    BY NamesAreKnown DEF PolicyInv, TypeOK, Fixed
  <2> QED BY <2>1 DEF PolicyInv, VInv
<1>4. AskedRight' /\ LookRight'
  BY <1>1 DEF AskedRight, LookRight
<1>5. ASSUME Unedited PROVE NotExempted' /\ NothingFound'
  <2>1. NotExempted /\ NothingFound
    BY <1>5 DEF PolicyInv, VInv
  <2>2. NotExempted'
    BY <1>1, <1>2, <1>3, <2>1 DEF NotExempted
  <2>3. /\ LoopReason' <=> LoopReason
        /\ PrivateReason' <=> PrivateReason
        /\ SenderReason' <=> SenderReason
        /\ \A i : IsPrivate(mail.to[i], files)' <=> IsPrivate(mail.to[i], files)
        /\ \A i : RcptReason(i)' <=> RcptReason(i)
    BY <1>2, SameReasons
  <2>4. \A i \in 1..(rcpt' - 1) : i \in 1..(rcpt - 1) \/ i = rcpt
    BY <1>1, <1>3
  <2>5. NothingFound'
    <3> HIDE DEF RcptReason, LoopReason, PrivateReason, SenderReason
    <3> QED BY <1>1, <1>2, <1>3, <1>5, <2>1, <2>3, <2>4 DEF NothingFound
  <2> QED BY <2>2, <2>5
<1> QED BY <1>1, <1>2, <1>3, <1>4, <1>5 DEF VInv, Unedited

\* The steps of a lookup and of a call leave the message alone.
LEMMA WhileAsked ==
  ASSUME PolicyInv, UNCHANGED <<filter, rcpt, verdict, raised>>,
         UNCHANGED <<fixedVars, editVars>>, LookRight', AskedRight'
  PROVE  VInv'
<1>1. /\ filter' = filter /\ rcpt' = rcpt /\ verdict' = verdict /\ raised' = raised
      /\ mail' = mail /\ files' = files /\ inForce' = inForce /\ UNCHANGED fixedVars
  BY DEF fixedVars, editVars
<1>2. verdict \notin {"Nothing", "451"} => HasReason(verdict)'
  BY <1>1, SameReasons DEF PolicyInv, VInv, HasReason
<1>3. /\ LoopReason' <=> LoopReason
      /\ PrivateReason' <=> PrivateReason
      /\ SenderReason' <=> SenderReason
      /\ \A i : IsPrivate(mail.to[i], files)' <=> IsPrivate(mail.to[i], files)
      /\ \A i : RcptReason(i)' <=> RcptReason(i)
  BY <1>1, SameReasons
<1>4. (NotExempted => NotExempted') /\ (NothingFound => NothingFound')
  <2> HIDE DEF RcptReason, LoopReason, PrivateReason, SenderReason
  <2> QED BY <1>1, <1>3 DEF NotExempted, NothingFound
<1> QED BY <1>1, <1>2, <1>4 DEF PolicyInv, VInv, Unedited

\* isLocal has said no: what hosteddomains says is still to be asked.
LEMMA WhileLooking ==
  ASSUME PolicyInv, AskHosted, call' = "none", UNCHANGED <<fixedVars, editVars>>,
         filter = "deliveredto" => mail.loop # None /\ NotLocal(mail.loop),
         filter = "localsenders" => mail.from # None /\ NotLocal(mail.from[2]),
         filter = "quota" => rcpt \in 1..Len(mail.to) /\ NotLocal(mail.to[rcpt].addr[2])
  PROVE  VInv'
<1>1. /\ UNCHANGED <<filter, rcpt, verdict, raised, mail>> /\ UNCHANGED fixedVars
      /\ inForce' = inForce
  BY DEF AskHosted, fixedVars, editVars
<1>2. \A domain : NotLocal(domain) => NotLocal(domain)'
  BY <1>1, StillInForce
<1>3. /\ filter = "deliveredto" => NotLocal(mail.loop)'
      /\ filter = "localsenders" => NotLocal(mail.from[2])'
      /\ filter = "quota" => NotLocal(mail.to[rcpt].addr[2])'
  BY <1>1, <1>2 DEF NotLocal
<1>4. LookRight' /\ AskedRight'
  BY <1>1, <1>3 DEF LookRight, AskedRight
<1> QED BY <1>1, <1>4, WhileAsked

\* authdaemond is asked about an account that the configurations have.
LEMMA AsksRight ==
  ASSUME PolicyInv, NEW addr, NEW kind \in {"local", "hosted"}, GetUserInfo(addr, kind),
         UNCHANGED <<fixedVars, editVars>>,
         kind = "local" => HasName(<<addr[1]>>, addr), kind = "hosted" => HasName(addr, addr),
         \/ filter = "localsenders" /\ mail.from # None /\ addr = mail.from
         \/ filter = "quota" /\ rcpt \in 1..Len(mail.to) /\ addr = mail.to[rcpt].addr
  PROVE  VInv'
<1>1. /\ look' = "locals" /\ UNCHANGED <<filter, rcpt, verdict, raised>>
      /\ uid' = IF kind = "local" THEN <<addr[1]>> ELSE addr
  BY DEF GetUserInfo, Ask
<1>2. /\ UNCHANGED <<mail, inForce>> /\ UNCHANGED fixedVars
  BY DEF fixedVars, editVars
<1>3. HasName(uid, addr)'
  <2>1. ASSUME NEW n, n = uid', HasName(n, addr) PROVE HasName(uid, addr)'
    <3>1. HasName(n, addr)'
      BY <1>2, <2>1, StillInForce
    <3> QED BY <2>1, <3>1 DEF HasName
  <2> QED BY <1>1, <2>1
<1>4. /\ filter = "localsenders" => HasName(uid, mail.from)'
      /\ filter = "quota" => HasName(uid, mail.to[rcpt].addr)'
  BY <1>1, <1>2, <1>3 DEF HasName
<1>5. LookRight' /\ AskedRight'
  BY <1>1, <1>2, <1>4 DEF LookRight, AskedRight
<1> QED BY <1>1, <1>5, WhileAsked

\* Each step of a filter gives a verdict with a reason, or finds none.
LEMMA VerdictStep == PolicyInv /\ [Next]_vars => VInv'
<1> SUFFICES ASSUME PolicyInv, [Next]_vars PROVE VInv'
  OBVIOUS
<1> DEFINE Kept == UNCHANGED <<fixedVars, editVars>>
<1>1. /\ mail \in Mails /\ files \in Configs /\ Len(mail.to) \in Nat
      /\ rcpt \in 1..(Len(mail.to) + 1) /\ filter \in FilterSet \cup {"done"}
  BY FiltersAre, NamesAreKnown, InForceIs DEF PolicyInv, Fixed, TypeOK
<1>2. ASSUME filter \in {"relayclients", "block", "deliveredto", "privateaddr"} PROVE call = "none"
  BY <1>2 DEF PolicyInv, TypeOK
<1>3. ASSUME UNCHANGED authVars, call = "none" PROVE call' = "none"
  BY <1>3 DEF authVars
<1>4. CASE WhitelistRelayclients
  <2>1. filter = "relayclients" /\ filter \in FilterSet /\ Kept /\ call' = "none"
    BY <1>2, <1>3, <1>4 DEF WhitelistRelayclients, FilterSet
  <2>2. CASE mail.ip # None /\ IsRelayed(files, mail.ip)
    <3>1. HasReason("200")
      <4>1. "200" \in Deserved(files, files)
        BY <1>1, <2>2, ExemptIs DEF Deserved
      <4> QED BY <4>1, ReasonNow
    <3>2. Reply("200") BY <1>4, <2>2 DEF WhitelistRelayclients
    <3> QED BY <1>1, <2>1, <3>1, <3>2, EndsWithReply DEF Verdicts
  <2>3. CASE ~(mail.ip # None /\ IsRelayed(files, mail.ip))
    <3>1. Nothing BY <1>4, <2>3 DEF WhitelistRelayclients
    <3>2. NothingHere BY <2>1, <2>3 DEF NothingHere
    <3> QED BY <2>1, <3>1, <3>2, EndsWithNothing
  <2> QED BY <2>2, <2>3
<1>5. CASE WhitelistBlock
  <2>1. filter = "block" /\ filter \in FilterSet /\ Kept /\ call' = "none"
    BY <1>2, <1>3, <1>5 DEF WhitelistBlock, FilterSet
  <2>2. CASE mail.ip # None /\ IsWhiteblocked(files, mail.ip)
    <3>1. HasReason("200")
      <4>1. "200" \in Deserved(files, files)
        BY <1>1, <2>2, ExemptIs DEF Deserved
      <4> QED BY <4>1, ReasonNow
    <3>2. Reply("200") BY <1>5, <2>2 DEF WhitelistBlock
    <3> QED BY <1>1, <2>1, <3>1, <3>2, EndsWithReply DEF Verdicts
  <2>3. CASE ~(mail.ip # None /\ IsWhiteblocked(files, mail.ip))
    <3>1. Nothing BY <1>5, <2>3 DEF WhitelistBlock
    <3>2. NothingHere BY <2>1, <2>3 DEF NothingHere
    <3> QED BY <2>1, <3>1, <3>2, EndsWithNothing
  <2> QED BY <2>2, <2>3
<1>6. CASE DeliveredTo
  <2>1. filter = "deliveredto" /\ filter \in FilterSet /\ Kept /\ call' = "none"
    BY <1>2, <1>3, <1>6 DEF DeliveredTo, FilterSet
  <2> DEFINE addr == <<None, mail.loop>>
             kind == IF mail.loop = None THEN "foreign" ELSE Domain(mail.loop)
  <2>2. /\ kind \in {"local", "hosted", "ask"} => mail.loop # None
        /\ kind \in {"local", "hosted"} => \E n : HasName(n, addr)
        /\ kind = "ask" => NotLocal(mail.loop)
        /\ Unedited /\ kind = "foreign" => ~LoopReason
    <3>1. addr[2] = mail.loop
      OBVIOUS
    <3>2. look = "hosted" => NotLocal(addr[2])
      BY <2>1, <3>1 DEF PolicyInv, VInv, LookRight
    <3>3. /\ Domain(addr[2]) = "local" => HasName(<<addr[1]>>, addr)
          /\ Domain(addr[2]) = "hosted" => HasName(addr, addr)
          /\ Domain(addr[2]) = "ask" => NotLocal(addr[2])
          /\ Unedited /\ Domain(addr[2]) = "foreign" => Now(addr) = {}
      <4> HIDE DEF addr
      <4> QED BY <3>2, DomainIs
    <3>4. CASE mail.loop = None
      BY <3>4 DEF LoopReason
    <3>5. CASE mail.loop # None
      <4>1. kind = Domain(addr[2]) /\ (LoopReason <=> Now(addr) # {})
        BY <3>1, <3>5 DEF LoopReason
      <4> HIDE DEF kind
      <4> QED BY <3>1, <3>3, <3>5, <4>1
    <3> QED BY <3>4, <3>5
  <2>3. \/ kind = "foreign" /\ Nothing
        \/ kind = "raises" /\ Raise
        \/ kind = "ask" /\ AskHosted
        \/ kind \in {"local", "hosted"} /\ Reply("501")
    BY <1>6 DEF DeliveredTo
  <2> HIDE DEF kind, addr
  <2>4. CASE kind = "foreign" /\ Nothing
    <3>1. Unedited => NothingHere BY <2>1, <2>2, <2>4 DEF NothingHere
    <3> QED BY <2>1, <2>4, <3>1, EndsWithNothing
  <2>5. CASE kind = "raises" /\ Raise
    BY <2>1, <2>5, EndsWithRaise
  <2>6. CASE kind = "ask" /\ AskHosted
    BY <2>1, <2>2, <2>6, WhileLooking
  <2>7. CASE kind \in {"local", "hosted"} /\ Reply("501")
    <3>1. PICK n : HasName(n, addr) BY <2>2, <2>7
    <3>2. PICK k \in DOMAIN inForce : \E i \in 1..k : n \in NamesOf(inForce[i], inForce[k], addr)
      BY <3>1 DEF HasName
    <3>3. PICK i \in 1..k : n \in NamesOf(inForce[i], inForce[k], addr)
      BY <3>2
    <3>4. "501" \in Deserved(inForce[i], inForce[k])
      BY <2>2, <2>7, <3>3 DEF Deserved, addr
    <3>5. HasReason("501") BY <3>4 DEF HasReason
    <3> QED BY <2>1, <2>7, <3>5, EndsWithReply DEF Verdicts
  <2> QED BY <2>3, <2>4, <2>5, <2>6, <2>7
<1>7. CASE PrivateAddr
  <2>1. filter = "privateaddr" /\ filter \in FilterSet /\ Kept /\ call' = "none"
    BY <1>2, <1>3, <1>7 DEF PrivateAddr, FilterSet
  <2>2. CASE rcpt > Len(mail.to)
    <3>1. Nothing BY <1>7, <2>2 DEF PrivateAddr
    <3>2. NothingHere BY <1>1, <2>1, <2>2 DEF NothingHere
    <3> QED BY <2>1, <3>1, <3>2, EndsWithNothing
  <2>3. CASE ~(rcpt > Len(mail.to)) /\ IsPrivate(mail.to[rcpt], files)
    <3>1. Reply("517Private") BY <1>7, <2>3 DEF PrivateAddr
    <3>2. mail.to[rcpt] \in ToSet(mail.to)
      <4>1. rcpt \in 1..(Len(mail.to) + 1) /\ ~(rcpt > Len(mail.to))
        BY <1>1, <2>3 DEF PolicyInv, TypeOK
      <4>2. Len(mail.to) \in Nat BY <1>1, NamesAreKnown
      <4>3. rcpt \in 1..Len(mail.to) BY <4>1, <4>2
      <4> QED BY <1>1, <4>3, NamesAreKnown
    <3>3. "517Private" \in Deserved(files, files) BY <2>3, <3>2 DEF Deserved
    <3>4. HasReason("517Private") BY <3>3, ReasonNow
    <3> QED BY <2>1, <3>1, <3>4, EndsWithReply DEF Verdicts
  <2>4. CASE ~(rcpt > Len(mail.to)) /\ ~IsPrivate(mail.to[rcpt], files)
    <3>1. NextRcpt BY <1>7, <2>4 DEF PrivateAddr
    <3> QED BY <2>1, <2>4, <3>1, GoesOn
  <2> QED BY <2>2, <2>3, <2>4
<1>8. CASE LocalSenders
  <2>1. filter = "localsenders" /\ filter \in FilterSet /\ Kept /\ call = "none"
    BY <1>8 DEF LocalSenders, FilterSet
  <2> DEFINE kind == IF mail.from = None THEN "foreign" ELSE Domain(mail.from[2])
  <2>2. \/ kind = "foreign" /\ Nothing /\ UNCHANGED authVars
        \/ kind = "raises" /\ Raise /\ UNCHANGED authVars
        \/ kind = "ask" /\ AskHosted /\ UNCHANGED authVars
        \/ kind \in {"local", "hosted"} /\ GetUserInfo(mail.from, kind)
    BY <1>8 DEF LocalSenders
  <2>3. look = "hosted" => NotLocal(mail.from[2])
    BY <2>1 DEF PolicyInv, VInv, LookRight
  <2>4. /\ kind \in {"local", "hosted", "ask"} => mail.from # None
        /\ Unedited /\ kind = "foreign" => Sender = {}
        /\ kind = "local" => HasName(<<mail.from[1]>>, mail.from)
        /\ kind = "hosted" => HasName(mail.from, mail.from)
        /\ kind = "ask" => NotLocal(mail.from[2])
    BY <2>3, DomainIs DEF Sender
  <2> HIDE DEF kind
  <2>5. CASE kind = "foreign" /\ Nothing /\ UNCHANGED authVars
    <3>1. Unedited => NothingHere BY <2>1, <2>4, <2>5 DEF NothingHere, SenderReason
    <3> QED BY <1>3, <2>1, <2>5, <3>1, EndsWithNothing
  <2>6. CASE kind = "raises" /\ Raise /\ UNCHANGED authVars
    BY <1>3, <2>1, <2>6, EndsWithRaise
  <2>7. CASE kind = "ask" /\ AskHosted /\ UNCHANGED authVars
    BY <1>3, <2>1, <2>4, <2>7, WhileLooking
  <2>8. CASE kind \in {"local", "hosted"} /\ GetUserInfo(mail.from, kind)
    BY <2>1, <2>4, <2>8, AsksRight
  <2> QED BY <2>2, <2>5, <2>6, <2>7, <2>8
<1>9. ASSUME call = "answered"
      PROVE  /\ uid \in Names /\ accounts[uid].fields # None
             /\ UserInfo(None) = IF accounts[uid].fields = {} THEN None ELSE accounts[uid].fields
  <2>1. uid \in Names /\ answer = Answer(accounts[uid].fields) /\ got = Len(answer)
    BY <1>9 DEF PolicyInv, TypeOK, AInv
  <2>2. AreFields(accounts[uid].fields) /\ accounts[uid].fields # None
    BY <2>1, FieldsAre DEF PolicyInv
  <2> QED BY <2>1, <2>2, FieldsOfAnswer
<1>10. CASE SenderInfo \/ AuthUnreadable
  <2>1. /\ filter = "localsenders" /\ filter \in FilterSet /\ Kept /\ call = "answered"
        /\ call' = "none"
    BY <1>10 DEF SenderInfo, AuthUnreadable, HangUp, FilterSet
  <2>2. mail.from # None /\ HasName(uid, mail.from)
    BY <2>1 DEF PolicyInv, VInv, AskedRight
  <2>3. PICK k \in DOMAIN inForce : \E i \in 1..k : uid \in NamesOf(inForce[i], inForce[k], mail.from)
    BY <2>2 DEF HasName
  <2>4. PICK i \in 1..k : uid \in NamesOf(inForce[i], inForce[k], mail.from)
    BY <2>3
  <2>5. UserInfo(None) = None <=> accounts[uid].fields = {}
    BY <1>9, <2>1
  <2>6. CASE UserInfo(None) = None /\ Reply("517Unknown")
    <3>1. "517Unknown" \in Deserved(inForce[i], inForce[k])
      BY <2>2, <2>4, <2>5, <2>6 DEF Deserved
    <3>2. HasReason("517Unknown") BY <3>1 DEF HasReason
    <3> QED BY <2>1, <2>6, <3>2, EndsWithReply DEF Verdicts
  <2>7. CASE UserInfo(None) # None /\ requireAuth /\ ~mail.auth /\ Reply("517Auth")
    <3>1. "517Auth" \in Deserved(inForce[i], inForce[k])
      BY <2>2, <2>4, <2>7 DEF Deserved
    <3>2. HasReason("517Auth") BY <3>1 DEF HasReason
    <3> QED BY <2>1, <2>7, <3>2, EndsWithReply DEF Verdicts
  <2>8. CASE UserInfo(None) # None /\ ~(requireAuth /\ ~mail.auth) /\ Nothing
    <3>1. Unedited => NothingHere
      <4>1. Unedited => Sender = {uid}
        BY <2>2, OneName DEF Sender
      <4> QED BY <2>1, <2>5, <2>8, <4>1 DEF NothingHere, SenderReason
    <3> QED BY <2>1, <2>8, <3>1, EndsWithNothing
  <2>9. CASE Raise
    BY <2>1, <2>9, EndsWithRaise
  <2>10. CASE SenderInfo
    BY <2>6, <2>7, <2>8, <2>10 DEF SenderInfo
  <2>11. CASE AuthUnreadable
    BY <2>9, <2>11 DEF AuthUnreadable
  <2> QED BY <1>10, <2>10, <2>11
<1>11. CASE Quota
  <2>1. filter = "quota" /\ filter \in FilterSet /\ Kept /\ call = "none"
    BY <1>11 DEF Quota, FilterSet
  <2>2. CASE rcpt > Len(mail.to)
    <3>1. Nothing /\ UNCHANGED authVars BY <1>11, <2>2 DEF Quota
    <3>2. NothingHere BY <1>1, <2>1, <2>2 DEF NothingHere
    <3> QED BY <1>3, <2>1, <3>1, <3>2, EndsWithNothing
  <2>3. CASE ~(rcpt > Len(mail.to))
    <3> DEFINE addr == mail.to[rcpt].addr
               kind == Domain(addr[2])
    <3>1. \/ kind = "foreign" /\ NextRcpt /\ UNCHANGED authVars
          \/ kind = "raises" /\ Raise /\ UNCHANGED authVars
          \/ kind = "ask" /\ AskHosted /\ UNCHANGED authVars
          \/ kind \in {"local", "hosted"} /\ GetUserInfo(addr, kind)
      BY <1>11, <2>3 DEF Quota
    <3>2. look = "hosted" => NotLocal(addr[2])
      BY <2>1 DEF PolicyInv, VInv, LookRight
    <3>3. /\ Unedited /\ kind = "foreign" => Now(addr) = {}
          /\ kind = "local" => HasName(<<addr[1]>>, addr)
          /\ kind = "hosted" => HasName(addr, addr)
          /\ kind = "ask" => NotLocal(addr[2])
      BY <3>2, DomainIs
    <3>4. rcpt \in 1..Len(mail.to)
      BY <1>1, <2>3
    <3> HIDE DEF kind
    <3>5. CASE kind = "foreign" /\ NextRcpt /\ UNCHANGED authVars
      <4>1. Unedited => ~RcptReason(rcpt) BY <3>3, <3>5 DEF RcptReason
      <4> QED BY <1>3, <2>1, <3>5, <4>1, GoesOn
    <3>6. CASE kind = "raises" /\ Raise /\ UNCHANGED authVars
      BY <1>3, <2>1, <3>6, EndsWithRaise
    <3>7. CASE kind = "ask" /\ AskHosted /\ UNCHANGED authVars
      BY <1>3, <2>1, <3>3, <3>4, <3>7, WhileLooking
    <3>8. CASE kind \in {"local", "hosted"} /\ GetUserInfo(addr, kind)
      BY <2>1, <3>3, <3>4, <3>8, AsksRight
    <3> QED BY <3>1, <3>5, <3>6, <3>7, <3>8
  <2> QED BY <2>2, <2>3
<1>12. CASE CheckQuota
  <2>1. /\ filter = "quota" /\ filter \in FilterSet /\ Kept /\ call = "answered"
        /\ call' = "none"
    BY <1>12 DEF CheckQuota, HangUp, FilterSet
  <2>2. rcpt \in 1..Len(mail.to) /\ HasName(uid, mail.to[rcpt].addr)
    BY <2>1 DEF PolicyInv, VInv, AskedRight
  <2>3. UserInfo(None) = None <=> accounts[uid].fields = {}
    BY <1>9, <2>1
  <2>4. Unedited => Now(mail.to[rcpt].addr) = {uid}
    BY <2>2, OneName
  <2>5. ASSUME NextRcpt, ~Full(uid) PROVE VInv'
    <3>1. Unedited => ~RcptReason(rcpt)
      BY <2>4, <2>5 DEF RcptReason
    <3> QED BY <2>1, <2>5, <3>1, GoesOn
  <2>6. CASE UserInfo(None) = None /\ NextRcpt
    BY <2>3, <2>5, <2>6 DEF Full
  <2>7. CASE Raise
    BY <2>1, <2>7, EndsWithRaise
  <2>8. CASE /\ UserInfo(None) # None
             /\ IF accounts[uid].maildirsize # None /\ OverQuota(accounts[uid].maildirsize)
                THEN Reply("421") ELSE NextRcpt
    <3>1. CASE Full(uid)
      <4>1. Reply("421") BY <2>8, <3>1 DEF Full
      <4>2. mail.to[rcpt] \in ToSet(mail.to) BY <1>1, <2>2, NamesAreKnown
      <4>3. PICK k \in DOMAIN inForce :
              \E i \in 1..k : uid \in NamesOf(inForce[i], inForce[k], mail.to[rcpt].addr)
        BY <2>2 DEF HasName
      <4>4. PICK i \in 1..k : uid \in NamesOf(inForce[i], inForce[k], mail.to[rcpt].addr)
        BY <4>3
      <4>5. "421" \in Deserved(inForce[i], inForce[k]) BY <3>1, <4>2, <4>4 DEF Deserved, Full
      <4>6. HasReason("421") BY <4>5 DEF HasReason
      <4> QED BY <2>1, <4>1, <4>6, EndsWithReply DEF Verdicts
    <3>2. CASE ~Full(uid)
      <4>1. NextRcpt BY <2>3, <2>8, <3>2 DEF Full
      <4> QED BY <2>5, <3>2, <4>1
    <3> QED BY <3>1, <3>2
  <2> QED BY <1>12, <2>6, <2>7, <2>8 DEF CheckQuota
<1>13. CASE AuthLost
  <2>1. filter \in {"localsenders", "quota"} /\ Raise /\ Kept /\ call' = "none"
    BY <1>13 DEF AuthLost, HangUp, PolicyInv, TypeOK
  <2>2. filter \in FilterSet \ {"relayclients", "block"}
    BY <2>1 DEF FilterSet
  <2> QED BY <2>1, <2>2, EndsWithRaise
<1>14. ASSUME UNCHANGED msgVars, UNCHANGED fixedVars, uid' = uid,
              call' # "none" => call # "none",
              inForce' = inForce \/ inForce' = Append(inForce, files')
       PROVE  LookRight' /\ AskedRight'
  <2>1. UNCHANGED <<filter, rcpt, look, mail>>
    BY <1>14 DEF msgVars, fixedVars
  <2>2. /\ \A n, addr : HasName(n, addr) => HasName(n, addr)'
        /\ \A domain : NotLocal(domain) => NotLocal(domain)'
    BY <1>14, StillInForce
  <2>3. /\ NotLocal(mail.loop) => NotLocal(mail.loop)'
        /\ NotLocal(mail.from[2]) => NotLocal(mail.from[2])'
        /\ NotLocal(mail.to[rcpt].addr[2]) => NotLocal(mail.to[rcpt].addr[2])'
    BY <2>1, <2>2 DEF NotLocal
  <2>4. /\ HasName(uid, mail.from) => HasName(uid, mail.from)'
        /\ HasName(uid, mail.to[rcpt].addr) => HasName(uid, mail.to[rcpt].addr)'
    BY <1>14, <2>1, <2>2 DEF HasName
  <2> QED BY <1>14, <2>1, <2>3, <2>4 DEF PolicyInv, VInv, LookRight, AskedRight
<1>15. CASE TimeOut \/ AuthStep \/ UNCHANGED vars
  <2>1. /\ UNCHANGED <<msgVars, fixedVars, editVars>> /\ uid' = uid
        /\ call' # "none" => call # "none"
    BY <1>15 DEF TimeOut, TimesOut, AuthStep, Lost, Breaks, Connect, WriteAuth, ReadAuth,
       vars, authVars
  <2>2. LookRight' /\ AskedRight'
    BY <1>14, <2>1 DEF editVars
  <2>3. UNCHANGED <<filter, rcpt, verdict, raised>>
    BY <2>1 DEF msgVars
  <2> QED BY <2>1, <2>2, <2>3, WhileAsked
<1>16. CASE Unreadable
  <2>1. filter \in FilterSet /\ Kept /\ call' = "none"
    BY <1>1, <1>3, <1>16 DEF Unreadable
  <2>2. CASE Reply("451")
    BY <2>1, <2>2, EndsWithReply DEF Verdicts
  <2>3. CASE filter \in {"privateaddr", "quota"} /\ Raise
    BY <2>1, <2>3, EndsWithRaise
  <2> QED BY <1>16, <2>2, <2>3 DEF Unreadable
<1>17. CASE Edit
  <2>1. /\ UNCHANGED msgVars /\ UNCHANGED fixedVars /\ uid' = uid /\ call' = call
        /\ inForce' = Append(inForce, files')
    BY <1>17 DEF Edit, authVars
  <2>2. /\ filter' = filter /\ rcpt' = rcpt /\ verdict' = verdict
    BY <2>1 DEF msgVars
  <2>3. LookRight' /\ AskedRight'
    BY <1>14, <2>1
  <2>4. ~Unedited'
    BY <2>1, InForceIs DEF Unedited, PolicyInv, TypeOK
  <2>5. verdict \notin {"Nothing", "451"} => HasReason(verdict)'
    <3>1. \A v : HasReason(v) => HasReason(v)'
      BY <2>1, StillInForce
    <3> QED BY <2>2, <3>1 DEF PolicyInv, VInv, HasReason
  <2> QED BY <2>2, <2>3, <2>4, <2>5 DEF PolicyInv, VInv
<1> QED BY <1>4, <1>5, <1>6, <1>7, <1>8, <1>10, <1>11, <1>12, <1>13, <1>15, <1>16, <1>17
        DEF Next, FilterStep

LEMMA StartInv == Init => PolicyInv
<1> SUFFICES ASSUME Init PROVE PolicyInv
  OBVIOUS
<1>1. /\ call = "none" /\ uid = NoName /\ cmd = 0 /\ answer = <<>> /\ got = 0
      /\ files \in Configs /\ inForce = <<files>> /\ mail \in Mails /\ Fixed
      /\ filter = "relayclients" /\ rcpt = 1 /\ look = "locals" /\ verdict = "Nothing" /\ raised = {}
  BY DEF Init, Idle, Filters, Fixed
<1>2. /\ CmdLen \in Nat \ {0} /\ ToSet(Filters) = FilterSet /\ Len(mail.to) \in Nat
  BY <1>1, AuthDaemonAssumption, FiltersAre, NamesAreKnown
<1>3. TypeOK
  <2>1. inForce \in Seq(Configs) /\ inForce # <<>> /\ files = Last(inForce)
    BY <1>1 DEF Last
  <2> QED BY <1>1, <1>2, <2>1 DEF TypeOK, FilterSet
<1>4. AInv
  BY <1>1 DEF AInv
<1>5. VInv
  BY <1>1 DEF VInv, Verdicts, LookRight, AskedRight, NotExempted, NothingFound
<1> QED BY <1>1, <1>3, <1>4, <1>5 DEF PolicyInv

\* What holds between any two steps of the six filters: whom authdaemond was
\* asked about and what is left of its answer, that a verdict has a reason, and
\* what the filters behind have found as long as no file was edited.
THEOREM PolicyInvariant == Spec => []PolicyInv
<1>1. PolicyInv /\ [Next]_vars => PolicyInv'
  BY TypeStep, AnswerStep, VerdictStep DEF PolicyInv
<1> QED BY StartInv, <1>1, PTL DEF Spec

\* At the end the invariant says what the verdict has to be.
LEMMA RightIf == PolicyInv => VerdictIsRight
<1> SUFFICES ASSUME PolicyInv, filter = "done", verdict # "451" PROVE
      /\ verdict # "Nothing" => HasReason(verdict)
      /\ Unedited =>
           /\ "200" \in Deserved(files, files) => verdict = "200"
           /\ verdict = "Nothing" => raised # {} \/ Deserved(files, files) = {}
  BY DEF VerdictIsRight, HasReason, Unedited
<1>1. verdict # "Nothing" => HasReason(verdict)
  BY DEF PolicyInv, VInv
<1>2. ASSUME Unedited, "200" \in Deserved(files, files) PROVE verdict = "200"
  <2>1. Exempt(files)
    BY <1>2 DEF Deserved
  <2>2. mail.ip # None /\ mail \in Mails /\ files \in Configs
    BY <2>1, InForceIs DEF Exempt, PolicyInv, Fixed
  <2>3. IsRelayed(files, mail.ip) \/ IsWhiteblocked(files, mail.ip)
    BY <2>1, <2>2, ExemptIs
  <2> QED BY <1>2, <2>2, <2>3 DEF PolicyInv, VInv, NotExempted
<1>3. ASSUME Unedited, verdict = "Nothing", raised = {} PROVE Deserved(files, files) = {}
  <2>1. NotExempted /\ NothingFound
    BY <1>3 DEF PolicyInv, VInv
  <2>2. "200" \notin Deserved(files, files)
    BY <1>2, <1>3
  <2>3. ~LoopReason /\ ~PrivateReason /\ ~SenderReason
    BY <1>3, <2>1 DEF NothingFound
  <2>4. \A t \in ToSet(mail.to) : \A n \in Now(t.addr) : ~Full(n)
    <3>1. \A i \in 1..Len(mail.to) : ~RcptReason(i)
      BY <1>3, <2>1 DEF NothingFound
    <3>2. \A t \in ToSet(mail.to) : \E i \in 1..Len(mail.to) : t = mail.to[i]
      BY NamesAreKnown DEF PolicyInv, Fixed
    <3> QED BY <3>1, <3>2 DEF RcptReason
  <2>5. ~Exempt(files)
    BY <2>2 DEF Deserved
  <2>6. ASSUME NEW v \in Deserved(files, files) PROVE FALSE
    BY <2>3, <2>4, <2>5, <2>6
       DEF Deserved, LoopReason, PrivateReason, SenderReason, Sender, Full, Now
  <2> QED BY <2>6
<1> QED BY <1>1, <1>2, <1>3

\* Every variable keeps its type, and only localsenders and quota ever wait for
\* authdaemond.
THEOREM PolicyTypeCorrect == Spec => []TypeOK
BY PolicyInvariant, PTL DEF PolicyInv

\* _readAuth (authdaemon.py:90-108) goes on reading until it has the whole
\* answer, and then reads no more, whatever the fields and the pieces.
THEOREM AnswersAreWhole == Spec => []AnswerIsWhole
<1>1. PolicyInv => AnswerIsWhole
  BY DEF PolicyInv, AInv, AnswerIsWhole
<1> QED BY PolicyInvariant, <1>1, PTL

\* For all configurations, messages and accounts: a message is exempted or
\* refused only for a reason that a configuration in force gives, and while no
\* file is edited no reason is passed over unless a filter raised an exception.
THEOREM VerdictsAreRight == Spec => []VerdictIsRight
BY PolicyInvariant, RightIf, PTL
=============================================================================
