------------------------- MODULE ControlFiles_proofs -------------------------
(***************************************************************************)
(* Proofs about module ControlFiles, for every set of addresses and of DSN *)
(* requests, any number of files, of recipients and of filters, and        *)
(* whichever access raises.                                                *)
(***************************************************************************)
EXTENDS ControlFiles, FiniteSetTheorems, TLAPS

(* Induction.  A set of numbers that has 0, and n + 1 whenever it has n,   *)
(* has them all: otherwise one of the sets 1..n of the other numbers n     *)
(* would be minimal.                                                       *)
LEMMA NatSets ==
  ASSUME NEW Good, 0 \in Good, \A n \in Nat : n \in Good => n + 1 \in Good
  PROVE  \A n \in Nat : n \in Good
<1> DEFINE Bad == {1..n : n \in Nat \ Good}
<1> SUFFICES ASSUME Nat \ Good # {} PROVE FALSE
  OBVIOUS
<1>1. Bad # {} /\ Bad \subseteq FiniteSubsetsOf(Nat)
  <2>1. \A n \in Nat : IsFiniteSet(1..n) /\ 1..n \subseteq Nat
    BY FS_Interval
  <2> QED BY <2>1 DEF FiniteSubsetsOf
<1>2. IsWellFoundedOn(StrictSubsetOrdering(Nat), FiniteSubsetsOf(Nat))
  BY FS_StrictSubsetOrderingWellFounded
<1>3. PICK T \in Bad : \A U \in Bad : <<U, T>> \notin StrictSubsetOrdering(Nat)
  <2> HIDE DEF Bad
  <2> QED BY <1>1, <1>2, WFMin
<1>4. PICK n \in Nat \ Good : T = 1..n
  OBVIOUS
<1>5. n - 1 \in Nat \ Good
  BY <1>4
<1>6. 1..(n - 1) \in Bad
  BY <1>5
<1>7. <<1..(n - 1), T>> \in StrictSubsetOrdering(Nat)
  <2>1. 1..(n - 1) \subseteq 1..n /\ n \in 1..n /\ n \notin 1..(n-1) /\ 1..n \subseteq Nat
    BY <1>5
  <2> QED BY <1>4, <2>1 DEF StrictSubsetOrdering
<1> QED BY <1>3, <1>6, <1>7

\* A number in a set of them that nothing in the set is below.
LEMMA Least ==
  ASSUME NEW S, S \subseteq Nat, S # {}
  PROVE  Min(S) \in S /\ \A x \in S : Min(S) <= x
<1> DEFINE Good == {n \in Nat : (\E x \in S : x <= n) => \E x \in S : \A y \in S : x <= y}
<1>1. 0 \in Good
  OBVIOUS
<1>2. ASSUME NEW n \in Nat, n \in Good PROVE n + 1 \in Good
  <2> SUFFICES ASSUME NEW x \in S, x <= n + 1, ~\E z \in S : z <= n
               PROVE  \A y \in S : x <= y
    BY <1>2
  <2> QED OBVIOUS
<1>3. \A n \in Nat : n \in Good
  <2> HIDE DEF Good
  <2> QED BY <1>1, <1>2, NatSets
<1>4. \E x \in S : \A y \in S : x <= y
  <2>1. PICK n \in S : TRUE
    OBVIOUS
  <2>2. n \in Nat /\ n \in Good
    BY <1>3
  <2> QED BY <2>2
<1> QED BY <1>4 DEF Min

-----------------------------------------------------------------------------
(* Lists put together from parts.                                          *)
\* The recursive definition of FlattenSeq, as far as n.
Steps(h, parts, n) ==
  h = [i \in 1..n |-> IF i = 1 THEN parts[i] ELSE h[i - 1] \o parts[i]]

\* What the parts up to each come to, and all of them.
Flattens(g, parts) ==
  /\ g[0] = <<>>
  /\ \A i \in 1..Len(parts) : g[i] = g[i - 1] \o parts[i]
  /\ FlattenSeq(parts) = g[Len(parts)]

LEMMA Stepwise ==
  ASSUME NEW R, NEW parts \in Seq(Seq(R))
  PROVE  \E h : Steps(h, parts, Len(parts))
<1> DEFINE Good == {n \in Nat : \E h : Steps(h, parts, n)}
<1>1. 0 \in Good
  <2>1. Steps(<<>>, parts, 0)
    BY DEF Steps
  <2> QED BY <2>1
<1>2. ASSUME NEW n \in Nat, n \in Good PROVE n + 1 \in Good
  <2>1. PICK h : Steps(h, parts, n)
    BY <1>2
  <2> DEFINE k == [i \in 1..(n + 1) |-> IF i = 1 THEN parts[i] ELSE h[i - 1] \o parts[i]]
  <2>2. \A i \in 1..n : k[i] = h[i]
    <3>1. \A i \in 1..n : h[i] = IF i = 1 THEN parts[i] ELSE h[i - 1] \o parts[i]
      BY <2>1 DEF Steps
    <3> QED BY <3>1
  <2>3. k = [i \in 1..(n + 1) |-> IF i = 1 THEN parts[i] ELSE k[i - 1] \o parts[i]]
    <3>1. \A i \in 1..(n + 1) : i = 1 \/ i - 1 \in 1..n
      OBVIOUS
    <3> QED BY <2>2, <3>1
  <2>4. Steps(k, parts, n + 1)
    <3> HIDE DEF k
    <3> QED BY <2>3 DEF Steps
  <2> QED BY <2>4
<1>3. Len(parts) \in Good
  <2> HIDE DEF Good
  <2> QED BY <1>1, <1>2, NatSets
<1> QED BY <1>3

LEMMA Flattening ==
  ASSUME NEW R, NEW parts \in Seq(Seq(R))
  PROVE  \E g \in [0..Len(parts) -> Seq(R)] : Flattens(g, parts)
<1> DEFINE N == Len(parts)
<1>0. N \in Nat /\ \A i \in 1..N : parts[i] \in Seq(R)
  OBVIOUS
<1>1. CASE N = 0
  <2> DEFINE g == [i \in 0..0 |-> <<>>]
  <2>1. FlattenSeq(parts) = <<>>
    BY <1>1 DEF FlattenSeq
  <2>2. g \in [0..N -> Seq(R)] /\ Flattens(g, parts)
    BY <1>1, <2>1 DEF Flattens
  <2> QED BY <2>2
<1>2. CASE N # 0
  <2>1. PICK h : Steps(h, parts, N) /\ FlattenSeq(parts) = h[N]
    <3> DEFINE f == CHOOSE h : Steps(h, parts, N)
    <3>1. Steps(f, parts, N)
      BY Stepwise
    <3>2. FlattenSeq(parts) = f[N]
      BY <1>2 DEF FlattenSeq, Steps
    <3> QED BY <3>1, <3>2
  <2> DEFINE g == [i \in 0..N |-> IF i = 0 THEN <<>> ELSE h[i]]
  <2>2. \A i \in 1..N : g[i] = g[i - 1] \o parts[i]
    <3>1. \A i \in 1..N : h[i] = IF i = 1 THEN parts[i] ELSE h[i - 1] \o parts[i]
      BY <2>1 DEF Steps
    <3>2. parts[1] = <<>> \o parts[1]
      BY <1>0, <1>2
    <3> SUFFICES ASSUME NEW i \in 1..N PROVE g[i] = g[i - 1] \o parts[i]
      OBVIOUS
    <3>3. CASE i = 1
      <4>1. g[1] = h[1] /\ g[0] = <<>> /\ 1 - 1 = 0
        BY <1>0, <1>2
      <4> QED BY <3>1, <3>2, <3>3, <4>1
    <3>4. CASE i # 1
      <4>1. i \in 0..N /\ i - 1 \in 0..N /\ i # 0 /\ i - 1 # 0
        BY <1>0, <3>4
      <4>2. g[i] = h[i] /\ g[i - 1] = h[i - 1]
        BY <4>1
      <4> QED BY <3>1, <3>4, <4>2
    <3> QED BY <3>3, <3>4
  <2>3. g[0] = <<>> /\ g[N] = h[N]
    BY <1>0, <1>2
  <2> DEFINE Good == {n \in Nat : n \in 0..N => g[n] \in Seq(R)}
  <2>4. 0 \in Good
    BY <2>3
  <2>5. ASSUME NEW n \in Nat, n \in Good PROVE n + 1 \in Good
    <3> HIDE DEF g
    <3> SUFFICES ASSUME n + 1 \in 0..N PROVE g[n + 1] \in Seq(R)
      OBVIOUS
    <3>1. g[n] \in Seq(R) /\ parts[n + 1] \in Seq(R) /\ g[n + 1] = g[n] \o parts[n + 1]
      <4>1. n \in 0..N /\ n + 1 \in 1..N /\ (n + 1) - 1 = n
        BY <1>0
      <4> QED BY <1>0, <2>2, <2>5, <4>1
    <3> QED BY <3>1
  <2>6. \A n \in 0..N : g[n] \in Seq(R)
    <3> HIDE DEF Good
    <3>1. \A n \in Nat : n \in Good
      BY <2>4, <2>5, NatSets
    <3> SUFFICES ASSUME NEW n \in 0..N PROVE g[n] \in Seq(R)
      OBVIOUS
    <3>2. n \in Nat /\ n \in Good
      BY <1>0, <3>1
    <3> HIDE DEF g
    <3> QED BY <3>2 DEF Good
  <2>7. g \in [0..N -> Seq(R)]
    BY <2>6
  <2> HIDE DEF g
  <2> QED BY <2>1, <2>2, <2>3, <2>7 DEF Flattens
<1> QED BY <1>1, <1>2

LEMMA FlattenType ==
  ASSUME NEW R, NEW parts \in Seq(Seq(R))
  PROVE  FlattenSeq(parts) \in Seq(R)
<1>1. PICK g \in [0..Len(parts) -> Seq(R)] : Flattens(g, parts)
  BY Flattening
<1> QED BY <1>1 DEF Flattens

\* Equal parts come to the same.
Agree(s, t, n) == n <= Len(s) /\ n <= Len(t) /\ \A i \in 1..n : s[i] = t[i]

LEMMA SamePrefix ==
  ASSUME NEW R, NEW s \in Seq(Seq(R)), NEW t \in Seq(Seq(R)), NEW n \in Nat,
         Agree(s, t, n), NEW g, NEW h, Flattens(g, s), Flattens(h, t)
  PROVE  g[n] = h[n]
<1> DEFINE Good == {j \in Nat : j \in 0..n => g[j] = h[j]}
<1>1. 0 \in Good
  BY DEF Flattens
<1>2. ASSUME NEW j \in Nat, j \in Good PROVE j + 1 \in Good
  <2> SUFFICES ASSUME j + 1 \in 0..n PROVE g[j + 1] = h[j + 1]
    OBVIOUS
  <2>1. j \in 0..n /\ j + 1 \in 1..n /\ j + 1 \in 1..Len(s) /\ j + 1 \in 1..Len(t) /\ (j + 1) - 1 = j
    BY DEF Agree
  <2>2. g[j + 1] = g[j] \o s[j + 1] /\ h[j + 1] = h[j] \o t[j + 1]
    BY <2>1 DEF Flattens
  <2> QED BY <1>2, <2>1, <2>2 DEF Agree
<1>3. n \in Good
  <2> HIDE DEF Good
  <2> QED BY <1>1, <1>2, NatSets
<1> QED BY <1>3

\* A part more.
LEMMA FlattenMore ==
  ASSUME NEW R, NEW parts \in Seq(Seq(R)), NEW t \in Seq(R)
  PROVE  FlattenSeq(Append(parts, t)) = FlattenSeq(parts) \o t
<1> DEFINE N == Len(parts)
           more == Append(parts, t)
<1>1. /\ more \in Seq(Seq(R)) /\ Len(more) = N + 1 /\ N \in Nat /\ more[N + 1] = t
      /\ \A i \in 1..N : parts[i] = more[i]
  OBVIOUS
<1> HIDE DEF more
<1>2. PICK g : Flattens(g, parts)
  BY Flattening
<1>3. PICK h : Flattens(h, more)
  BY <1>1, Flattening
<1>4. g[N] = h[N]
  <2>0. Agree(parts, more, N)
    BY <1>1 DEF Agree
  <2> QED BY <1>1, <1>2, <1>3, <2>0, SamePrefix
<1>5. h[N + 1] = h[N] \o t
  <2>1. N + 1 \in 1..Len(more) /\ (N + 1) - 1 = N
    BY <1>1
  <2> QED BY <1>1, <1>3, <2>1 DEF Flattens
<1> QED BY <1>1, <1>2, <1>3, <1>4, <1>5 DEF Flattens, more

\* An element more in the last part.
LEMMA FlattenAppend ==
  ASSUME NEW R, NEW parts \in Seq(Seq(R)), NEW r \in R, Len(parts) # 0
  PROVE  FlattenSeq([parts EXCEPT ![Len(parts)] = Append(@, r)])
           = Append(FlattenSeq(parts), r)
<1> DEFINE N == Len(parts)
           more == [parts EXCEPT ![N] = Append(@, r)]
<1>1. /\ more \in Seq(Seq(R)) /\ Len(more) = N /\ N \in Nat \ {0}
      /\ more[N] = Append(parts[N], r)
      /\ \A i \in 1..(N - 1) : parts[i] = more[i]
  OBVIOUS
<1> HIDE DEF more
<1>2. PICK g : Flattens(g, parts) /\ g \in [0..N -> Seq(R)]
  BY Flattening
<1>3. PICK h : Flattens(h, more)
  BY <1>1, Flattening
<1>4. g[N - 1] = h[N - 1]
  <2> DEFINE n == N - 1
  <2>1. n \in Nat
    BY <1>1
  <2>2. Agree(parts, more, n)
    BY <1>1 DEF Agree
  <2>3. Flattens(g, parts) /\ Flattens(h, more)
    BY <1>2, <1>3
  <2>4. more \in Seq(Seq(R))
    BY <1>1
  <2> HIDE DEF n
  <2>5. g[n] = h[n]
    BY <2>1, <2>2, <2>3, <2>4, SamePrefix
  <2> QED BY <2>5 DEF n
<1>5. h[N] = g[N - 1] \o more[N] /\ g[N] = g[N - 1] \o parts[N]
  <2>1. N \in 1..N
    BY <1>1
  <2> QED BY <1>1, <1>2, <1>3, <1>4, <2>1 DEF Flattens
<1>6. h[N] = Append(g[N], r)
  <2>1. g[N - 1] \in Seq(R) /\ parts[N] \in Seq(R)
    <3>1. N - 1 \in 0..N /\ N \in 1..N
      BY <1>1
    <3>2. parts[N] \in Seq(R)
      BY <3>1
    <3>3. g[N - 1] \in Seq(R)
      BY <1>2, <3>1
    <3> QED BY <3>2, <3>3
  <2>2. \A s, t \in Seq(R) : s \o Append(t, r) = Append(s \o t, r)
    OBVIOUS
  <2> QED BY <1>1, <1>5, <2>1, <2>2
<1> QED BY <1>1, <1>2, <1>3, <1>6 DEF Flattens, more

-----------------------------------------------------------------------------
(* An element taken out of a list.                                         *)
LEMMA Join ==
  ASSUME NEW R, NEW s \in Seq(R), NEW t \in Seq(R)
  PROVE  /\ s \o t \in Seq(R) /\ Len(s \o t) = Len(s) + Len(t)
         /\ \A i \in 1..Len(s) : (s \o t)[i] = s[i]
         /\ \A i \in 1..Len(t) : (s \o t)[Len(s) + i] = t[i]
OBVIOUS

LEMMA Removal ==
  ASSUME NEW R, NEW s \in Seq(R), NEW k \in 1..Len(s)
  PROVE  /\ RemoveAt(s, k) \in Seq(R) /\ Len(RemoveAt(s, k)) = Len(s) - 1
         /\ \A i \in 1..(Len(s) - 1) : RemoveAt(s, k)[i] = IF i < k THEN s[i] ELSE s[i + 1]
<1> DEFINE a == SubSeq(s, 1, k - 1)
           b == SubSeq(s, k + 1, Len(s))
<1>1. /\ a \in Seq(R) /\ Len(a) = k - 1 /\ \A i \in 1..(k - 1) : a[i] = s[i]
  OBVIOUS
<1>2. /\ b \in Seq(R) /\ Len(b) = Len(s) - k /\ \A i \in 1..(Len(s) - k) : b[i] = s[k + i]
  OBVIOUS
<1>3. RemoveAt(s, k) = a \o b
  BY DEF RemoveAt
<1> HIDE DEF a, b
<1>4. /\ a \o b \in Seq(R) /\ Len(a \o b) = Len(s) - 1
      /\ \A i \in 1..(k - 1) : (a \o b)[i] = a[i]
      /\ \A i \in 1..(Len(s) - k) : (a \o b)[(k - 1) + i] = b[i]
  <2>1. /\ a \o b \in Seq(R) /\ Len(a \o b) = Len(a) + Len(b)
        /\ \A i \in 1..Len(a) : (a \o b)[i] = a[i]
        /\ \A i \in 1..Len(b) : (a \o b)[Len(a) + i] = b[i]
    <3>1. a \in Seq(R) /\ b \in Seq(R)
      BY <1>1, <1>2
    <3> QED BY <3>1, Join
  <2>2. Len(a) + Len(b) = Len(s) - 1
    BY <1>1, <1>2
  <2> QED BY <1>1, <1>2, <2>1, <2>2
<1>5. ASSUME NEW i \in 1..(Len(s) - 1)
      PROVE  (a \o b)[i] = IF i < k THEN s[i] ELSE s[i + 1]
  <2>1. CASE i < k
    BY <1>1, <1>4, <2>1
  <2>2. CASE ~(i < k)
    <3>1. PICK j \in 1..(Len(s) - k) : i = (k - 1) + j
      BY <2>2
    <3>2. (a \o b)[i] = b[j]
      BY <1>4, <3>1
    <3>3. k + j = i + 1
      BY <3>1
    <3> QED BY <1>2, <2>2, <3>1, <3>2, <3>3
  <2> QED BY <2>1, <2>2
<1> QED BY <1>3, <1>4, <1>5

LEMMA SameList ==
  ASSUME NEW R, NEW s \in Seq(R), NEW t \in Seq(R), Len(s) = Len(t),
         \A i \in 1..Len(s) : s[i] = t[i]
  PROVE  s = t
OBVIOUS

\* From the first or the second of two lists joined.
LEMMA RemovalLeft ==
  ASSUME NEW R, NEW s \in Seq(R), NEW t \in Seq(R), NEW k \in 1..Len(s)
  PROVE  RemoveAt(s \o t, k) = RemoveAt(s, k) \o t
<1>1. /\ s \o t \in Seq(R) /\ k \in 1..Len(s \o t) /\ Len(s \o t) = Len(s) + Len(t)
      /\ \A i \in 1..Len(s) : (s \o t)[i] = s[i]
      /\ \A i \in 1..Len(t) : (s \o t)[Len(s) + i] = t[i]
  OBVIOUS
<1> DEFINE u == RemoveAt(s \o t, k)
           v == RemoveAt(s, k)
<1>2. /\ u \in Seq(R) /\ Len(u) = Len(s) + Len(t) - 1
      /\ \A i \in 1..(Len(s) + Len(t) - 1) :
           u[i] = IF i < k THEN (s \o t)[i] ELSE (s \o t)[i + 1]
  <2> DEFINE w == s \o t
  <2>1. w \in Seq(R) /\ k \in 1..Len(w)
    BY <1>1
  <2> HIDE DEF w
  <2>2. /\ RemoveAt(w, k) \in Seq(R) /\ Len(RemoveAt(w, k)) = Len(w) - 1
        /\ \A i \in 1..(Len(w) - 1) :
             RemoveAt(w, k)[i] = IF i < k THEN w[i] ELSE w[i + 1]
    BY <2>1, Removal
  <2> QED BY <1>1, <2>2 DEF w
<1>3. /\ v \in Seq(R) /\ Len(v) = Len(s) - 1
      /\ \A i \in 1..(Len(s) - 1) : v[i] = IF i < k THEN s[i] ELSE s[i + 1]
  BY Removal
<1> HIDE DEF u, v
<1>4. /\ v \o t \in Seq(R) /\ Len(v \o t) = Len(s) + Len(t) - 1
      /\ \A i \in 1..(Len(s) - 1) : (v \o t)[i] = v[i]
      /\ \A i \in 1..Len(t) : (v \o t)[Len(s) - 1 + i] = t[i]
  <2>0. v \in Seq(R)
    BY <1>3
  <2>1. Len(v) = Len(s) - 1 /\ Len(s) \in Nat /\ Len(t) \in Nat
    BY <1>3
  <2>2. /\ v \o t \in Seq(R) /\ Len(v \o t) = Len(v) + Len(t)
        /\ \A i \in 1..Len(v) : (v \o t)[i] = v[i]
        /\ \A i \in 1..Len(t) : (v \o t)[Len(v) + i] = t[i]
    BY <2>0, Join
  <2>3. Len(v) + Len(t) = Len(s) + Len(t) - 1
    BY <2>1
  <2> QED BY <2>0, <2>1, <2>2, <2>3
<1>5. ASSUME NEW i \in 1..(Len(s) + Len(t) - 1) PROVE u[i] = (v \o t)[i]
  <2>1. CASE i < k
    <3>1. i \in 1..Len(s) /\ i \in 1..(Len(s) - 1)
      BY <2>1
    <3>2. u[i] = (s \o t)[i] /\ (v \o t)[i] = v[i] /\ v[i] = s[i]
      BY <1>2, <1>3, <1>4, <2>1, <3>1
    <3> QED BY <1>1, <3>1, <3>2
  <2>2. CASE ~(i < k) /\ i < Len(s)
    <3>1. u[i] = (s \o t)[i + 1] /\ i + 1 \in 1..Len(s)
      BY <1>2, <2>2
    <3>2. (v \o t)[i] = v[i] /\ v[i] = s[i + 1]
      BY <1>3, <1>4, <2>2
    <3> QED BY <1>1, <3>1, <3>2
  <2>3. CASE ~(i < Len(s))
    <3> DEFINE j == i - Len(s) + 1
    <3>1. j \in 1..Len(t) /\ i = Len(s) - 1 + j /\ i + 1 = Len(s) + j /\ ~(i < k)
      BY <2>3
    <3> HIDE DEF j
    <3>2. u[i] = (s \o t)[i + 1]
      BY <1>2, <3>1
    <3> QED BY <1>1, <1>4, <3>1, <3>2
  <2> QED BY <2>1, <2>2, <2>3
<1>6. u = v \o t
  BY <1>2, <1>4, <1>5, SameList
<1> QED BY <1>6 DEF u, v

LEMMA RemovalRight ==
  ASSUME NEW R, NEW s \in Seq(R), NEW t \in Seq(R), NEW k \in 1..Len(t)
  PROVE  RemoveAt(s \o t, Len(s) + k) = s \o RemoveAt(t, k)
<1>1. /\ s \o t \in Seq(R) /\ Len(s) + k \in 1..Len(s \o t) /\ Len(s \o t) = Len(s) + Len(t)
      /\ \A i \in 1..Len(s) : (s \o t)[i] = s[i]
      /\ \A i \in 1..Len(t) : (s \o t)[Len(s) + i] = t[i]
  OBVIOUS
<1> DEFINE u == RemoveAt(s \o t, Len(s) + k)
           v == RemoveAt(t, k)
<1>2. /\ u \in Seq(R) /\ Len(u) = Len(s) + Len(t) - 1
      /\ \A i \in 1..(Len(s) + Len(t) - 1) :
           u[i] = IF i < Len(s) + k THEN (s \o t)[i] ELSE (s \o t)[i + 1]
  <2> DEFINE w == s \o t
             l == Len(s) + k
  <2>1. w \in Seq(R) /\ l \in 1..Len(w)
    BY <1>1
  <2> HIDE DEF w, l
  <2>2. /\ RemoveAt(w, l) \in Seq(R) /\ Len(RemoveAt(w, l)) = Len(w) - 1
        /\ \A i \in 1..(Len(w) - 1) :
             RemoveAt(w, l)[i] = IF i < l THEN w[i] ELSE w[i + 1]
    BY <2>1, Removal
  <2> QED BY <1>1, <2>2 DEF w, l
<1>3. /\ v \in Seq(R) /\ Len(v) = Len(t) - 1
      /\ \A i \in 1..(Len(t) - 1) : v[i] = IF i < k THEN t[i] ELSE t[i + 1]
  BY Removal
<1> HIDE DEF u, v
<1>4. /\ s \o v \in Seq(R) /\ Len(s \o v) = Len(s) + Len(t) - 1
      /\ \A i \in 1..Len(s) : (s \o v)[i] = s[i]
      /\ \A i \in 1..(Len(t) - 1) : (s \o v)[Len(s) + i] = v[i]
  <2>0. v \in Seq(R)
    BY <1>3
  <2>1. Len(v) = Len(t) - 1 /\ Len(s) \in Nat /\ Len(t) \in Nat
    BY <1>3
  <2>2. /\ s \o v \in Seq(R) /\ Len(s \o v) = Len(s) + Len(v)
        /\ \A i \in 1..Len(s) : (s \o v)[i] = s[i]
        /\ \A i \in 1..Len(v) : (s \o v)[Len(s) + i] = v[i]
    BY <2>0, Join
  <2>3. Len(s) + Len(v) = Len(s) + Len(t) - 1
    BY <2>1
  <2> QED BY <2>0, <2>1, <2>2, <2>3
<1>5. ASSUME NEW i \in 1..(Len(s) + Len(t) - 1) PROVE u[i] = (s \o v)[i]
  <2>1. CASE i <= Len(s)
    <3>1. i \in 1..Len(s) /\ i < Len(s) + k
      BY <2>1
    <3>2. u[i] = (s \o t)[i]
      BY <1>2, <3>1
    <3>3. (s \o t)[i] = s[i] /\ (s \o v)[i] = s[i]
      BY <1>1, <1>4, <3>1
    <3> QED BY <3>2, <3>3
  <2>2. CASE ~(i <= Len(s))
    <3> DEFINE j == i - Len(s)
    <3>1. /\ j \in 1..(Len(t) - 1) /\ i = Len(s) + j /\ i + 1 = Len(s) + (j + 1)
          /\ j \in 1..Len(t) /\ j + 1 \in 1..Len(t) /\ (i < Len(s) + k <=> j < k)
      BY <2>2
    <3> HIDE DEF j
    <3>2. (s \o v)[i] = IF j < k THEN t[j] ELSE t[j + 1]
      BY <1>3, <1>4, <3>1
    <3>3. (s \o t)[i] = t[j] /\ (s \o t)[i + 1] = t[j + 1]
      BY <1>1, <3>1
    <3> QED BY <1>2, <3>1, <3>2, <3>3
  <2> QED BY <2>1, <2>2
<1>6. u = s \o v
  BY <1>2, <1>4, <1>5, SameList
<1> QED BY <1>6 DEF u, v

\* None of the first n elements of s is in P.
NoneUpTo(s, n, P) == \A i \in 1..n : s[i] \notin P

\* Element m of s, which is x, is taken out; none before it is in P.
TakenOut(s, t, m, x, P) ==
  m \in 1..Len(s) /\ t = RemoveAt(s, m) /\ s[m] = x /\ NoneUpTo(s, m - 1, P)

LEMMA TakenLeft ==
  ASSUME NEW R, NEW s \in Seq(R), NEW t, NEW u \in Seq(R), NEW m, NEW x, NEW P,
         TakenOut(s, t, m, x, P)
  PROVE  TakenOut(s \o u, t \o u, m, x, P)
<1>1. m \in 1..Len(s) /\ t = RemoveAt(s, m) /\ s[m] = x /\ NoneUpTo(s, m - 1, P)
  BY DEF TakenOut
<1>2. /\ Len(s \o u) = Len(s) + Len(u) /\ Len(u) \in Nat /\ Len(s) \in Nat
      /\ \A i \in 1..Len(s) : (s \o u)[i] = s[i]
  BY Join
<1>3. RemoveAt(s \o u, m) = t \o u
  BY <1>1, RemovalLeft
<1>4. m \in 1..Len(s \o u) /\ (s \o u)[m] = x
  BY <1>1, <1>2
<1>5. NoneUpTo(s \o u, m - 1, P)
  BY <1>1, <1>2 DEF NoneUpTo
<1> QED BY <1>3, <1>4, <1>5 DEF TakenOut

LEMMA TakenRight ==
  ASSUME NEW R, NEW s \in Seq(R), NEW t \in Seq(R), NEW u, NEW k, NEW x, NEW P,
         TakenOut(t, u, k, x, P), NoneUpTo(s, Len(s), P)
  PROVE  TakenOut(s \o t, s \o u, Len(s) + k, x, P)
<1>1. k \in 1..Len(t) /\ u = RemoveAt(t, k) /\ t[k] = x /\ NoneUpTo(t, k - 1, P)
  BY DEF TakenOut
<1>2. /\ Len(s \o t) = Len(s) + Len(t) /\ Len(t) \in Nat /\ Len(s) \in Nat
      /\ \A i \in 1..Len(s) : (s \o t)[i] = s[i]
      /\ \A i \in 1..Len(t) : (s \o t)[Len(s) + i] = t[i]
  BY Join
<1>3. RemoveAt(s \o t, Len(s) + k) = s \o u
  BY <1>1, RemovalRight
<1>4. Len(s) + k \in 1..Len(s \o t) /\ (s \o t)[Len(s) + k] = x
  BY <1>1, <1>2
<1>5. NoneUpTo(s \o t, Len(s) + k - 1, P)
  <2> SUFFICES ASSUME NEW i \in 1..(Len(s) + k - 1) PROVE (s \o t)[i] \notin P
    BY DEF NoneUpTo
  <2>1. CASE i <= Len(s)
    <3>1. i \in 1..Len(s)
      BY <2>1
    <3> QED BY <1>2, <3>1 DEF NoneUpTo
  <2>2. CASE ~(i <= Len(s))
    <3> DEFINE j == i - Len(s)
    <3>1. j \in 1..(k - 1) /\ j \in 1..Len(t) /\ i = Len(s) + j
      BY <1>1, <1>2, <2>2
    <3> HIDE DEF j
    <3> QED BY <1>1, <1>2, <3>1 DEF NoneUpTo
  <2> QED BY <2>1, <2>2
<1> QED BY <1>3, <1>4, <1>5 DEF TakenOut

\* Where no part has an element in P the whole has none.
LEMMA NoneInParts ==
  ASSUME NEW R, NEW parts \in Seq(Seq(R)), NEW g \in [0..Len(parts) -> Seq(R)],
         Flattens(g, parts), NEW n \in 0..Len(parts), NEW P,
         \A e \in 1..n : NoneUpTo(parts[e], Len(parts[e]), P)
  PROVE  NoneUpTo(g[n], Len(g[n]), P)
<1> DEFINE Good == {j \in Nat : j \in 0..n => NoneUpTo(g[j], Len(g[j]), P)}
<1>1. 0 \in Good
  BY DEF NoneUpTo, Flattens
<1>2. ASSUME NEW j \in Nat, j \in Good PROVE j + 1 \in Good
  <2> SUFFICES ASSUME j + 1 \in 0..n PROVE NoneUpTo(g[j + 1], Len(g[j + 1]), P)
    OBVIOUS
  <2>1. j \in 0..n /\ j \in 0..Len(parts) /\ j + 1 \in 1..n /\ j + 1 \in 1..Len(parts)
        /\ (j + 1) - 1 = j
    OBVIOUS
  <2>2. g[j + 1] = g[j] \o parts[j + 1] /\ g[j] \in Seq(R) /\ parts[j + 1] \in Seq(R)
    <3>1. g[j + 1] = g[j] \o parts[j + 1]
      BY <2>1 DEF Flattens
    <3>2. g[j] \in Seq(R)
      BY <2>1
    <3>3. parts[j + 1] \in Seq(R)
      BY <2>1
    <3> QED BY <3>1, <3>2, <3>3
  <2>3. NoneUpTo(g[j], Len(g[j]), P) /\ NoneUpTo(parts[j + 1], Len(parts[j + 1]), P)
    BY <1>2, <2>1
  <2>4. \A s, t \in Seq(R) : NoneUpTo(s, Len(s), P) /\ NoneUpTo(t, Len(t), P)
          => NoneUpTo(s \o t, Len(s \o t), P)
    BY DEF NoneUpTo
  <2> QED BY <2>2, <2>3, <2>4
<1>3. n \in Nat
  OBVIOUS
<1>4. n \in Good
  <2> HIDE DEF Good
  <2> QED BY <1>1, <1>2, <1>3, NatSets
<1> QED BY <1>4

LEMMA FlattenRemoval ==
  ASSUME NEW R, NEW parts \in Seq(Seq(R)), NEW f \in 1..Len(parts), NEW P, NEW x,
         NEW k, NEW t \in Seq(R), TakenOut(parts[f], t, k, x, P),
         \A e \in 1..(f - 1) : NoneUpTo(parts[e], Len(parts[e]), P)
  PROVE  \E m : TakenOut(FlattenSeq(parts), FlattenSeq([parts EXCEPT ![f] = t]), m, x, P)
<1> DEFINE N == Len(parts)
           less == [parts EXCEPT ![f] = t]
<1>1. /\ less \in Seq(Seq(R)) /\ Len(less) = N /\ N \in Nat /\ f \in Nat \ {0} /\ f <= N
      /\ less[f] = t /\ \A i \in 1..N : i # f => less[i] = parts[i]
  OBVIOUS
<1> HIDE DEF less
<1>2. PICK g : g \in [0..N -> Seq(R)] /\ Flattens(g, parts)
  BY Flattening
<1>3. PICK h : h \in [0..N -> Seq(R)] /\ Flattens(h, less)
  BY <1>1, Flattening
<1> DEFINE e == f - 1
<1>4. e \in Nat /\ e \in 0..N /\ e + 1 = f /\ Agree(parts, less, e)
  BY <1>1 DEF Agree
<1>5. g[e] = h[e]
  <2>1. e \in Nat
    BY <1>4
  <2>2. Agree(parts, less, e)
    BY <1>4
  <2>3. Flattens(g, parts) /\ Flattens(h, less)
    BY <1>2, <1>3
  <2>4. less \in Seq(Seq(R))
    BY <1>1
  <2> HIDE DEF e
  <2> QED BY <2>1, <2>2, <2>3, <2>4, SamePrefix
<1>6. NoneUpTo(g[e], Len(g[e]), P)
  <2> HIDE DEF N
  <2>1. \A d \in 1..e : NoneUpTo(parts[d], Len(parts[d]), P)
    OBVIOUS
  <2> HIDE DEF e
  <2> QED BY <1>2, <1>4, <2>1, NoneInParts DEF N
<1> DEFINE m == Len(g[e]) + k
           Good == {n \in Nat : n \in f..N => TakenOut(g[n], h[n], m, x, P)}
<1>7. 0 \in Good
  BY <1>1
<1>8. ASSUME NEW n \in Nat, n \in Good PROVE n + 1 \in Good
  <2> HIDE DEF m
  <2> SUFFICES ASSUME n + 1 \in f..N PROVE TakenOut(g[n + 1], h[n + 1], m, x, P)
    OBVIOUS
  <2>1. n + 1 \in 1..N /\ n \in 0..N /\ (n + 1) - 1 = n /\ (n + 1 = f => n = e)
    BY <1>1
  <2>2. /\ g[n + 1] = g[n] \o parts[n + 1] /\ h[n + 1] = h[n] \o less[n + 1]
    BY <1>1, <1>2, <1>3, <2>1 DEF Flattens
  <2>3. g[n] \in Seq(R) /\ parts[n + 1] \in Seq(R)
    <3>1. g[n] \in Seq(R)
      BY <1>2, <2>1
    <3>2. parts[n + 1] \in Seq(R)
      BY <2>1
    <3> QED BY <3>1, <3>2
  <2>4. CASE n + 1 = f
    <3>1. h[n] = g[n] /\ less[n + 1] = t /\ NoneUpTo(g[n], Len(g[n]), P)
      BY <1>1, <1>5, <1>6, <2>1, <2>4
    <3>2. TakenOut(g[n] \o parts[n + 1], g[n] \o t, Len(g[n]) + k, x, P)
      BY <2>3, <2>4, <3>1, TakenRight
    <3> QED BY <2>1, <2>2, <2>4, <3>1, <3>2 DEF m
  <2>5. CASE n + 1 # f
    <3>1. n \in f..N /\ less[n + 1] = parts[n + 1]
      BY <1>1, <2>1, <2>5
    <3>2. TakenOut(g[n], h[n], m, x, P)
      BY <1>8, <3>1
    <3>3. TakenOut(g[n] \o parts[n + 1], h[n] \o parts[n + 1], m, x, P)
      BY <2>3, <3>2, TakenLeft
    <3> QED BY <2>2, <3>1, <3>3
  <2> QED BY <2>4, <2>5
<1>9. TakenOut(g[N], h[N], m, x, P)
  <2>1. N \in Good
    <3> HIDE DEF Good
    <3> QED BY <1>1, <1>7, <1>8, NatSets
  <2> QED BY <1>1, <2>1
<1> HIDE DEF m, e
<1> QED BY <1>1, <1>2, <1>3, <1>9 DEF Flattens, less

-----------------------------------------------------------------------------
(* The files as one list.                                                  *)
Files == FileOf(Seq(Nat))

\* A file as MarksMatch has it.
FileOK(file) ==
  /\ file \in Files
  /\ Marked(file) \subseteq DOMAIN file.rcpts
  /\ IsInjective(file.marks)

FilesOK(fs) == fs \in Seq(Files) /\ \A f \in DOMAIN fs : FileOK(fs[f])

\* What each record comes to.
Parts(file) ==
  [i \in DOMAIN file.rcpts |-> IF i \in Due(file) THEN <<file.rcpts[i]>> ELSE <<>>]

LEMMA PartsType ==
  ASSUME NEW file \in Files
  PROVE  /\ Parts(file) \in Seq(Seq(Recipient)) /\ Len(Parts(file)) = Len(file.rcpts)
         /\ DueIn(file) = FlattenSeq(Parts(file))
         /\ DueIn(file) \in Seq(Recipient)
<1>1. file.rcpts \in Seq(Recipient)
  BY DEF Files, FileOf
<1>2. PICK n \in Nat : n = Len(file.rcpts) /\ DOMAIN file.rcpts = 1..n
  BY <1>1
<1>3. \A i \in 1..n : Parts(file)[i] \in Seq(Recipient)
  <2>1. ASSUME NEW i \in 1..n PROVE file.rcpts[i] \in Recipient
    BY <1>1, <1>2
  <2> QED BY <1>2, <2>1 DEF Parts
<1>4. Parts(file) = [i \in 1..n |-> Parts(file)[i]]
  BY <1>2 DEF Parts
<1>5. Parts(file) \in Seq(Seq(Recipient)) /\ Len(Parts(file)) = n
  BY <1>3, <1>4
<1>6. DueIn(file) = FlattenSeq(Parts(file))
  BY DEF DueIn, Parts
<1> QED BY <1>2, <1>5, <1>6, FlattenType

LEMMA FileFields ==
  ASSUME NEW file \in Files
  PROVE  file.rcpts \in Seq(Recipient) /\ file.marks \in Seq(Nat)
BY DEF Files, FileOf

LEMMA FileWith ==
  ASSUME NEW file \in Files
  PROVE  /\ \A a \in Seq(Recipient), b \in Seq(Nat) : [rcpts |-> a, marks |-> b] \in Files
         /\ \A r : [file EXCEPT !.rcpts = Append(@, r)]
                   = [rcpts |-> Append(file.rcpts, r), marks |-> file.marks]
         /\ \A i : [file EXCEPT !.marks = Append(@, i)]
                   = [rcpts |-> file.rcpts, marks |-> Append(file.marks, i)]
<1>1. \A a \in Seq(Recipient), b \in Seq(Nat) : [rcpts |-> a, marks |-> b] \in Files
  BY DEF Files, FileOf
<1>2. \A c : [file EXCEPT !.rcpts = c] = [rcpts |-> c, marks |-> file.marks]
  BY DEF Files, FileOf
<1>3. \A c : [file EXCEPT !.marks = c] = [rcpts |-> file.rcpts, marks |-> c]
  BY DEF Files, FileOf
<1> QED BY <1>1, <1>2, <1>3

\* A record that is added comes last.
LEMMA DueWhenAdded ==
  ASSUME NEW file, FileOK(file), NEW r \in Recipient
  PROVE  LET more == [file EXCEPT !.rcpts = Append(@, r)]
         IN  FileOK(more) /\ DueIn(more) = Append(DueIn(file), r)
<1> DEFINE more == [file EXCEPT !.rcpts = Append(@, r)]
<1>1. file \in Files /\ Marked(file) \subseteq DOMAIN file.rcpts /\ IsInjective(file.marks)
  BY DEF FileOK
<1>2. /\ file.rcpts \in Seq(Recipient) /\ file.marks \in Seq(Nat)
      /\ more = [rcpts |-> Append(file.rcpts, r), marks |-> file.marks]
  BY <1>1, FileFields, FileWith
<1>3. /\ more \in Files /\ more.rcpts = Append(file.rcpts, r) /\ more.marks = file.marks
      /\ Append(file.rcpts, r) \in Seq(Recipient)
  <2>1. Append(file.rcpts, r) \in Seq(Recipient)
    BY <1>2
  <2>2. [rcpts |-> Append(file.rcpts, r), marks |-> file.marks] \in Files
    BY <1>1, <1>2, <2>1, FileWith
  <2> QED BY <1>2, <2>1, <2>2
<1> HIDE DEF more
<1>4. PICK n \in Nat : /\ n = Len(file.rcpts) /\ DOMAIN file.rcpts = 1..n
                       /\ Len(more.rcpts) = n + 1 /\ DOMAIN more.rcpts = 1..(n + 1)
                       /\ more.rcpts[n + 1] = r
                       /\ \A i \in 1..n : more.rcpts[i] = file.rcpts[i]
  BY <1>2, <1>3
<1>5. FileOK(more)
  <2>1. Marked(more) \subseteq DOMAIN more.rcpts
    BY <1>1, <1>3, <1>4 DEF Marked
  <2> QED BY <1>1, <1>3, <2>1 DEF FileOK
<1>6. Due(more) = Due(file) \cup {n + 1} /\ n + 1 \notin Due(file)
  <2>1. n + 1 \notin 1..n /\ 1..(n + 1) = 1..n \cup {n + 1}
    OBVIOUS
  <2> QED BY <1>1, <1>3, <1>4, <2>1 DEF Due, Marked
<1>7. Parts(more) = Append(Parts(file), <<r>>)
  <2>1. \A i \in 1..n : Parts(more)[i] = Parts(file)[i]
    BY <1>4, <1>6 DEF Parts
  <2>2. Parts(more)[n + 1] = <<r>>
    BY <1>4, <1>6 DEF Parts
  <2>3. /\ Parts(file) \in Seq(Seq(Recipient)) /\ Len(Parts(file)) = n
        /\ Parts(more) \in Seq(Seq(Recipient)) /\ Len(Parts(more)) = n + 1
    BY <1>1, <1>3, <1>4, PartsType
  <2>4. \A s, t \in Seq(Seq(Recipient)) :
          Len(s) = n /\ Len(t) = n + 1 /\ t[n + 1] = <<r>> /\ (\A i \in 1..n : t[i] = s[i])
            => t = Append(s, <<r>>)
    OBVIOUS
  <2> QED BY <2>1, <2>2, <2>3, <2>4
<1>8. DueIn(more) = DueIn(file) \o <<r>>
  <2>1. DueIn(file) = FlattenSeq(Parts(file)) /\ DueIn(more) = FlattenSeq(Parts(more))
    BY <1>1, <1>3, PartsType
  <2>2. <<r>> \in Seq(Recipient)
    OBVIOUS
  <2>3. Parts(file) \in Seq(Seq(Recipient))
    BY <1>1, PartsType
  <2>4. FlattenSeq(Append(Parts(file), <<r>>)) = FlattenSeq(Parts(file)) \o <<r>>
    BY <2>2, <2>3, FlattenMore
  <2> QED BY <1>7, <2>1, <2>4
<1>9. DueIn(more) = Append(DueIn(file), r)
  BY <1>1, <1>8, PartsType
<1> QED BY <1>5, <1>9 DEF more

\* The first match is taken out when it is marked.
LEMMA DueWhenMarked ==
  ASSUME NEW file, FileOK(file), NEW R, Matching(file, R) # {}
  PROVE  LET i == Min(Matching(file, R))
             less == [file EXCEPT !.marks = Append(@, i)]
         IN  /\ FileOK(less) /\ file.rcpts[i] \in R
             /\ \E k : TakenOut(DueIn(file), DueIn(less), k, file.rcpts[i], R)
<1> DEFINE i == Min(Matching(file, R))
           less == [file EXCEPT !.marks = Append(@, i)]
<1>1. file \in Files /\ Marked(file) \subseteq DOMAIN file.rcpts /\ IsInjective(file.marks)
  BY DEF FileOK
<1>2. /\ file.rcpts \in Seq(Recipient) /\ file.marks \in Seq(Nat)
      /\ less = [rcpts |-> file.rcpts, marks |-> Append(file.marks, i)]
  BY <1>1, FileFields, FileWith
<1>3. PICK n \in Nat : n = Len(file.rcpts) /\ DOMAIN file.rcpts = 1..n
  BY <1>2
<1>4. i \in Due(file) /\ file.rcpts[i] \in R /\ \A j \in Matching(file, R) : i <= j
  <2>1. Matching(file, R) \subseteq Nat
    BY <1>3 DEF Matching, Due
  <2> QED BY <2>1, Least DEF Matching
<1> HIDE DEF i
<1>5. i \in 1..n /\ i \notin Marked(file)
  BY <1>3, <1>4 DEF Due
<1>6. /\ less \in Files /\ less.rcpts = file.rcpts /\ less.marks = Append(file.marks, i)
  <2>1. Append(file.marks, i) \in Seq(Nat)
    BY <1>2, <1>5
  <2>2. [rcpts |-> file.rcpts, marks |-> Append(file.marks, i)] \in Files
    BY <1>1, <1>2, <2>1, FileWith
  <2> QED BY <1>2, <2>1, <2>2
<1> HIDE DEF less
<1>7. Marked(less) = Marked(file) \cup {i}
  <2> DEFINE a == file.marks
  <2>1. i \in Nat /\ a \in Seq(Nat)
    BY <1>2, <1>5
  <2> HIDE DEF a
  <2>2. PICK l \in Nat : /\ l = Len(a) /\ DOMAIN a = 1..l /\ DOMAIN Append(a, i) = 1..(l + 1)
                         /\ Append(a, i)[l + 1] = i /\ \A j \in 1..l : Append(a, i)[j] = a[j]
    BY <2>1
  <2>3. 1..(l + 1) = 1..l \cup {l + 1}
    OBVIOUS
  <2>4. ToSet(Append(a, i)) = ToSet(a) \cup {i}
    BY <2>2, <2>3 DEF ToSet
  <2> QED BY <1>6, <2>4 DEF Marked, a
<1>8. FileOK(less)
  <2>1. IsInjective(less.marks)
    BY <1>1, <1>2, <1>5, <1>6 DEF IsInjective, Marked, ToSet
  <2> QED BY <1>1, <1>3, <1>5, <1>6, <1>7, <2>1 DEF FileOK
<1>9. Due(less) = Due(file) \ {i}
  BY <1>6, <1>7 DEF Due
<1>10. Parts(less) = [Parts(file) EXCEPT ![i] = <<>>]
  BY <1>4, <1>6, <1>9 DEF Parts
<1>11. TakenOut(Parts(file)[i], <<>>, 1, file.rcpts[i], R)
  <2>1. Parts(file)[i] = <<file.rcpts[i]>>
    BY <1>3, <1>4, <1>5 DEF Parts
  <2>2. \A x : /\ 1 \in 1..Len(<<x>>) /\ <<x>>[1] = x /\ NoneUpTo(<<x>>, 1 - 1, R)
               /\ RemoveAt(<<x>>, 1) = <<>>
    BY DEF NoneUpTo, RemoveAt
  <2> QED BY <2>1, <2>2 DEF TakenOut
<1>12. \A e \in 1..(i - 1) : NoneUpTo(Parts(file)[e], Len(Parts(file)[e]), R)
  <2> SUFFICES ASSUME NEW e \in 1..(i - 1)
               PROVE  NoneUpTo(Parts(file)[e], Len(Parts(file)[e]), R)
    OBVIOUS
  <2>1. e \in 1..n /\ e \notin Matching(file, R)
    BY <1>3, <1>4, <1>5
  <2>2. CASE e \in Due(file)
    <3>1. Parts(file)[e] = <<file.rcpts[e]>> /\ file.rcpts[e] \notin R
      BY <1>3, <2>1, <2>2 DEF Parts, Matching
    <3> QED BY <3>1 DEF NoneUpTo
  <2>3. CASE e \notin Due(file)
    <3>1. Parts(file)[e] = <<>>
      BY <1>3, <2>1, <2>3 DEF Parts
    <3> QED BY <3>1 DEF NoneUpTo
  <2> QED BY <2>2, <2>3
<1>13. \E k : TakenOut(DueIn(file), DueIn(less), k, file.rcpts[i], R)
  <2>1. /\ Parts(file) \in Seq(Seq(Recipient)) /\ Len(Parts(file)) = n
        /\ DueIn(file) = FlattenSeq(Parts(file)) /\ DueIn(less) = FlattenSeq(Parts(less))
    BY <1>1, <1>3, <1>6, PartsType
  <2>2. i \in 1..Len(Parts(file)) /\ <<>> \in Seq(Recipient)
    BY <1>5, <2>1
  <2> DEFINE parts == Parts(file)
  <2>3. parts \in Seq(Seq(Recipient)) /\ i \in 1..Len(parts)
    BY <2>1, <2>2
  <2>4. /\ TakenOut(parts[i], <<>>, 1, file.rcpts[i], R)
        /\ \A e \in 1..(i - 1) : NoneUpTo(parts[e], Len(parts[e]), R)
    BY <1>11, <1>12
  <2> HIDE DEF parts
  <2>5. \E k : TakenOut(FlattenSeq(parts), FlattenSeq([parts EXCEPT ![i] = <<>>]), k,
                      file.rcpts[i], R)
    BY <2>2, <2>3, <2>4, FlattenRemoval
  <2> QED BY <1>10, <2>1, <2>5 DEF parts
<1> QED BY <1>4, <1>8, <1>13 DEF i, less

\* Without a match there is none in the list.
LEMMA DueWithoutMatch ==
  ASSUME NEW file, FileOK(file), NEW R, Matching(file, R) = {}
  PROVE  NoneUpTo(DueIn(file), Len(DueIn(file)), R)
<1>1. file \in Files /\ file.rcpts \in Seq(Recipient)
  BY DEF FileOK, Files, FileOf
<1>2. PICK n \in Nat : n = Len(file.rcpts) /\ DOMAIN file.rcpts = 1..n
  BY <1>1
<1>3. \A e \in 1..n : NoneUpTo(Parts(file)[e], Len(Parts(file)[e]), R)
  <2> SUFFICES ASSUME NEW e \in 1..n
               PROVE  NoneUpTo(Parts(file)[e], Len(Parts(file)[e]), R)
    OBVIOUS
  <2>2. CASE e \in Due(file)
    <3>1. Parts(file)[e] = <<file.rcpts[e]>> /\ file.rcpts[e] \notin R
      BY <1>2, <2>2 DEF Parts, Matching
    <3> QED BY <3>1 DEF NoneUpTo
  <2>3. CASE e \notin Due(file)
    <3>1. Parts(file)[e] = <<>>
      BY <1>2, <2>3 DEF Parts
    <3> QED BY <3>1 DEF NoneUpTo
  <2> QED BY <2>2, <2>3
<1>4. Parts(file) \in Seq(Seq(Recipient)) /\ Len(Parts(file)) = n
      /\ DueIn(file) = FlattenSeq(Parts(file))
  BY <1>1, <1>2, PartsType
<1>5. PICK g : g \in [0..Len(Parts(file)) -> Seq(Recipient)] /\ Flattens(g, Parts(file))
  BY <1>4, Flattening
<1>6. n \in 0..Len(Parts(file))
  BY <1>4
<1>7. NoneUpTo(g[n], Len(g[n]), R)
  BY <1>3, <1>4, <1>5, <1>6, NoneInParts
<1> QED BY <1>4, <1>5, <1>7 DEF Flattens

\* What is due of each file.
Lists(fs) == [f \in DOMAIN fs |-> DueIn(fs[f])]

LEMMA ListsType ==
  ASSUME NEW fs, FilesOK(fs)
  PROVE  /\ Lists(fs) \in Seq(Seq(Recipient)) /\ Len(Lists(fs)) = Len(fs)
         /\ \A f \in 1..Len(fs) : Lists(fs)[f] = DueIn(fs[f])
         /\ GetRecipientsData(fs) = FlattenSeq(Lists(fs))
         /\ GetRecipientsData(fs) \in Seq(Recipient)
<1>1. PICK n \in Nat : n = Len(fs) /\ DOMAIN fs = 1..n
  BY DEF FilesOK
<1>2. \A f \in 1..n : Lists(fs)[f] = DueIn(fs[f]) /\ Lists(fs)[f] \in Seq(Recipient)
  <2> SUFFICES ASSUME NEW f \in 1..n
               PROVE  Lists(fs)[f] = DueIn(fs[f]) /\ Lists(fs)[f] \in Seq(Recipient)
    OBVIOUS
  <2>1. fs[f] \in Files
    BY <1>1 DEF FilesOK, FileOK
  <2> QED BY <1>1, <2>1, PartsType DEF Lists
<1>3. Lists(fs) = [f \in 1..n |-> Lists(fs)[f]]
  BY <1>1 DEF Lists
<1>4. Lists(fs) \in Seq(Seq(Recipient)) /\ Len(Lists(fs)) = n
  BY <1>2, <1>3
<1>5. GetRecipientsData(fs) = FlattenSeq(Lists(fs))
  BY DEF GetRecipientsData, Lists
<1> QED BY <1>1, <1>2, <1>4, <1>5, FlattenType

\* One file is another.
LEMMA ListsWith ==
  ASSUME NEW fs, FilesOK(fs), NEW f \in 1..Len(fs), NEW file, FileOK(file)
  PROVE  LET new == [fs EXCEPT ![f] = file]
         IN  /\ FilesOK(new) /\ Len(new) = Len(fs)
             /\ Lists(new) = [Lists(fs) EXCEPT ![f] = DueIn(file)]
<1> DEFINE new == [fs EXCEPT ![f] = file]
<1>1. PICK n \in Nat : n = Len(fs) /\ DOMAIN fs = 1..n /\ f \in 1..n
  BY DEF FilesOK
<1>2. /\ new \in Seq(Files) /\ Len(new) = n /\ DOMAIN new = 1..n
      /\ new[f] = file /\ \A i \in 1..n : i # f => new[i] = fs[i]
  <2>1. fs \in Seq(Files) /\ file \in Files
    BY DEF FilesOK, FileOK
  <2> QED BY <1>1, <2>1
<1> HIDE DEF new
<1>3. FilesOK(new)
  BY <1>1, <1>2 DEF FilesOK
<1>4. Lists(new) = [Lists(fs) EXCEPT ![f] = DueIn(file)]
  BY <1>1, <1>2 DEF Lists
<1> QED BY <1>1, <1>2, <1>3, <1>4 DEF new

\* AddRecipientData adds to the end of the list.
LEMMA Added ==
  ASSUME NEW fs, FilesOK(fs), Len(fs) # 0, NEW r \in Recipient
  PROVE  /\ FilesOK(AddRecipientData(fs, r)) /\ Len(AddRecipientData(fs, r)) = Len(fs)
         /\ GetRecipientsData(AddRecipientData(fs, r)) = Append(GetRecipientsData(fs), r)
<1> DEFINE n == Len(fs)
           file == [fs[n] EXCEPT !.rcpts = Append(@, r)]
<1>1. n \in Nat \ {0} /\ n \in 1..n /\ n \in DOMAIN fs
  BY DEF FilesOK
<1>2. FileOK(fs[n])
  BY <1>1 DEF FilesOK
<1>3. FileOK(file) /\ DueIn(file) = Append(DueIn(fs[n]), r)
  BY <1>2, DueWhenAdded
<1>4. AddRecipientData(fs, r) = [fs EXCEPT ![n] = file]
  BY <1>1 DEF AddRecipientData
<1> HIDE DEF file
<1>5. /\ FilesOK([fs EXCEPT ![n] = file]) /\ Len([fs EXCEPT ![n] = file]) = n
      /\ Lists([fs EXCEPT ![n] = file]) = [Lists(fs) EXCEPT ![n] = DueIn(file)]
  BY <1>1, <1>3, ListsWith
<1> DEFINE parts == Lists(fs)
<1>6. /\ parts \in Seq(Seq(Recipient)) /\ Len(parts) = n /\ Len(parts) # 0
      /\ parts[n] = DueIn(fs[n]) /\ GetRecipientsData(fs) = FlattenSeq(parts)
  BY <1>1, ListsType
<1>7. GetRecipientsData([fs EXCEPT ![n] = file])
        = FlattenSeq(Lists([fs EXCEPT ![n] = file]))
  BY <1>5, ListsType
<1>8. FlattenSeq([parts EXCEPT ![Len(parts)] = Append(@, r)]) = Append(FlattenSeq(parts), r)
  <2> HIDE DEF parts, n
  <2> QED BY <1>6, FlattenAppend
<1>9. [parts EXCEPT ![n] = DueIn(file)] = [parts EXCEPT ![n] = Append(@, r)]
  <2> HIDE DEF parts, n
  <2> QED BY <1>1, <1>3, <1>6
<1> HIDE DEF parts
<1> QED BY <1>4, <1>5, <1>6, <1>7, <1>8, <1>9 DEF parts

\* DelFirst takes the first match out of the list, if there is any.
LEMMA Deleted ==
  ASSUME NEW fs, FilesOK(fs), NEW R
  PROVE  /\ FilesOK(DelFirst(fs, R)) /\ Len(DelFirst(fs, R)) = Len(fs)
         /\ \/ /\ NoneUpTo(GetRecipientsData(fs), Len(GetRecipientsData(fs)), R)
               /\ DelFirst(fs, R) = fs
            \/ \E x \in R : \E m : TakenOut(GetRecipientsData(fs),
                                        GetRecipientsData(DelFirst(fs, R)), m, x, R)
<1> DEFINE n == Len(fs)
           parts == Lists(fs)
           holding == {f \in DOMAIN fs : Matching(fs[f], R) # {}}
<1>1. n \in Nat /\ DOMAIN fs = 1..n /\ holding \subseteq 1..n
  BY DEF FilesOK
<1>2. /\ parts \in Seq(Seq(Recipient)) /\ Len(parts) = n
      /\ \A f \in 1..n : parts[f] = DueIn(fs[f])
      /\ GetRecipientsData(fs) = FlattenSeq(parts)
  BY ListsType
<1>3. ASSUME NEW f \in 1..n, f \notin holding
      PROVE  NoneUpTo(parts[f], Len(parts[f]), R)
  <2>1. FileOK(fs[f]) /\ Matching(fs[f], R) = {}
    BY <1>1, <1>3 DEF FilesOK
  <2> QED BY <1>2, <2>1, DueWithoutMatch
<1> HIDE DEF parts
<1>4. CASE holding = {}
  <2>1. DelFirst(fs, R) = fs
    BY <1>4 DEF DelFirst
  <2>2. PICK g : g \in [0..Len(parts) -> Seq(Recipient)] /\ Flattens(g, parts)
    BY <1>2, Flattening
  <2>3. \A f \in 1..n : NoneUpTo(parts[f], Len(parts[f]), R)
    BY <1>3, <1>4
  <2>4. n \in 0..Len(parts)
    BY <1>1, <1>2
  <2>5. NoneUpTo(g[n], Len(g[n]), R)
    <3> HIDE DEF n, holding
    <3> QED BY <1>2, <2>2, <2>3, <2>4, NoneInParts
  <2> QED BY <1>2, <2>1, <2>2, <2>5 DEF Flattens
<1>5. CASE holding # {}
  <2> DEFINE f == Min(holding)
             i == Min(Matching(fs[f], R))
             file == [fs[f] EXCEPT !.marks = Append(@, i)]
             x == fs[f].rcpts[i]
  <2>1. f \in holding /\ \A e \in holding : f <= e
    <3>1. holding \subseteq Nat
      BY <1>1
    <3> HIDE DEF holding
    <3> QED BY <1>5, <3>1, Least
  <2>2. f \in 1..n /\ f \in Nat /\ Matching(fs[f], R) # {} /\ FileOK(fs[f])
    <3> HIDE DEF f
    <3>1. f \in DOMAIN fs /\ Matching(fs[f], R) # {}
      BY <2>1
    <3> QED BY <1>1, <3>1 DEF FilesOK
  <2>3. FileOK(file) /\ x \in R /\ \E k : TakenOut(DueIn(fs[f]), DueIn(file), k, x, R)
    BY <2>2, DueWhenMarked
  <2>4. DelFirst(fs, R) = [fs EXCEPT ![f] = file]
    BY <1>5, <2>2 DEF DelFirst, MarkComplete
  <2>5. \A e \in 1..(f - 1) : NoneUpTo(parts[e], Len(parts[e]), R)
    <3> SUFFICES ASSUME NEW e \in 1..(f - 1) PROVE NoneUpTo(parts[e], Len(parts[e]), R)
      OBVIOUS
    <3>1. e \in 1..n /\ e \notin holding
      <4>1. e \in 1..n /\ ~(f <= e)
        BY <1>1, <2>2
      <4> HIDE DEF f, holding
      <4> QED BY <2>1, <4>1
    <3> QED BY <1>3, <3>1
  <2> HIDE DEF f, file, x, holding, n
  <2>6. /\ FilesOK([fs EXCEPT ![f] = file]) /\ Len([fs EXCEPT ![f] = file]) = n
        /\ Lists([fs EXCEPT ![f] = file]) = [parts EXCEPT ![f] = DueIn(file)]
    BY <2>2, <2>3, ListsWith DEF n, parts
  <2>7. GetRecipientsData([fs EXCEPT ![f] = file])
          = FlattenSeq([parts EXCEPT ![f] = DueIn(file)])
    BY <2>6, ListsType
  <2>8. PICK k : TakenOut(parts[f], DueIn(file), k, x, R)
    BY <1>2, <2>2, <2>3
  <2>9. DueIn(file) \in Seq(Recipient)
    BY <2>3, PartsType DEF FileOK
  <2>10. \E m : TakenOut(FlattenSeq(parts), FlattenSeq([parts EXCEPT ![f] = DueIn(file)]),
                        m, x, R)
    BY <1>2, <2>2, <2>5, <2>8, <2>9, FlattenRemoval
  <2> QED BY <1>2, <2>3, <2>4, <2>6, <2>7, <2>10 DEF n
<1> QED BY <1>4, <1>5

-----------------------------------------------------------------------------
(* The files as Courier writes them.                                       *)
LEMMA Ordered ==
  ASSUME NEW S, NEW n \in Nat
  PROVE  /\ InOrder(S, n) \in Seq(S \cap (1..n))
         /\ IsInjective(InOrder(S, n))
<1> DEFINE R == S \cap (1..n)
           parts == [i \in 1..n |-> IF i \in S THEN <<i>> ELSE <<>>]
<1>1. /\ parts \in Seq(Seq(R)) /\ Len(parts) = n
      /\ \A i \in 1..n : parts[i] = IF i \in S THEN <<i>> ELSE <<>>
  <2>1. \A i \in 1..n : i \in S => i \in R
    OBVIOUS
  <2>2. \A x \in R : <<x>> \in Seq(R)
    <3> HIDE DEF R
    <3> QED OBVIOUS
  <2>3. <<>> \in Seq(R)
    OBVIOUS
  <2> HIDE DEF R
  <2>4. \A i \in 1..n : parts[i] \in Seq(R)
    BY <2>1, <2>2, <2>3
  <2> QED BY <2>4
<1>2. InOrder(S, n) = FlattenSeq(parts)
  BY DEF InOrder
<1>3. R \subseteq Nat /\ \A x \in R : x \in 1..n
  OBVIOUS
<1> HIDE DEF parts, R
<1>4. PICK g : g \in [0..Len(parts) -> Seq(R)] /\ Flattens(g, parts)
  BY <1>1, Flattening
<1> DEFINE Up(s, m) == /\ \A i \in 1..Len(s) : s[i] <= m
                       /\ \A i, j \in 1..Len(s) : i < j => s[i] < s[j]
           Good == {m \in Nat : m \in 0..n => Up(g[m], m)}
<1>5. 0 \in Good
  BY <1>4 DEF Flattens
<1>6. ASSUME NEW m \in Nat, m \in Good PROVE m + 1 \in Good
  <2> SUFFICES ASSUME m + 1 \in 0..n PROVE Up(g[m + 1], m + 1)
    OBVIOUS
  <2>1. m \in 0..n /\ m + 1 \in 1..n /\ m \in 0..Len(parts) /\ m + 1 \in 1..Len(parts)
        /\ (m + 1) - 1 = m
    BY <1>1
  <2>2. g[m + 1] = g[m] \o parts[m + 1]
    BY <1>4, <2>1 DEF Flattens
  <2>3. g[m] \in Seq(R) /\ Up(g[m], m)
    BY <1>4, <1>6, <2>1
  <2>4. parts[m + 1] = <<>> \/ parts[m + 1] = <<m + 1>>
    BY <1>1, <2>1
  <2>5. ASSUME NEW s \in Seq(R), Up(s, m) PROVE Up(s \o <<>>, m + 1) /\ Up(s \o <<m + 1>>, m + 1)
    <3>0. \A i \in 1..Len(s) : s[i] \in R
      OBVIOUS
    <3>1. PICK l \in Nat : l = Len(s) /\ \A i \in 1..l : s[i] \in Nat
      <4>1. Len(s) \in Nat
        OBVIOUS
      <4> QED BY <1>3, <3>0, <4>1
    <3>2. s \o <<>> = s
      OBVIOUS
    <3>3. Up(s, m + 1)
      BY <2>5, <3>1
    <3>4. /\ Len(s \o <<m + 1>>) = l + 1 /\ (s \o <<m + 1>>)[l + 1] = m + 1
          /\ \A i \in 1..l : (s \o <<m + 1>>)[i] = s[i]
      BY <3>1
    <3>5. Up(s \o <<m + 1>>, m + 1)
      <4> DEFINE t == s \o <<m + 1>>
      <4>1. ASSUME NEW i \in 1..(l + 1) PROVE t[i] <= m + 1 /\ (i # l + 1 => t[i] <= m)
        BY <2>5, <3>1, <3>4
      <4>2. ASSUME NEW i \in 1..(l + 1), NEW j \in 1..(l + 1), i < j PROVE t[i] < t[j]
        <5>1. CASE j = l + 1
          <6>1. t[i] \in Nat /\ t[i] <= m /\ t[j] = m + 1
            BY <3>1, <3>4, <4>1, <4>2, <5>1
          <6> HIDE DEF t
          <6>2. PICK a \in Nat, b \in Nat : a = t[i] /\ b = t[j] /\ a <= m /\ b = m + 1
            BY <6>1
          <6> QED BY <6>2
        <5>2. CASE j # l + 1
          <6>1. i \in 1..l /\ j \in 1..l
            BY <4>2, <5>2
          <6> QED BY <2>5, <3>1, <3>4, <4>2, <6>1
        <5> QED BY <5>1, <5>2
      <4> QED BY <3>4, <4>1, <4>2
    <3> QED BY <3>2, <3>3, <3>5
  <2> HIDE DEF Up
  <2> QED BY <2>2, <2>3, <2>4, <2>5
<1>7. n \in Good
  <2> HIDE DEF Good
  <2> QED BY <1>5, <1>6, NatSets
<1>8. g[n] \in Seq(R) /\ Up(g[n], n) /\ InOrder(S, n) = g[n]
  <2>1. n \in 0..n
    OBVIOUS
  <2> QED BY <1>1, <1>2, <1>4, <1>7, <2>1 DEF Flattens
<1>9. \A s \in Seq(R) : Up(s, n) => IsInjective(s)
  <2> SUFFICES ASSUME NEW s \in Seq(R), Up(s, n), NEW i \in DOMAIN s, NEW j \in DOMAIN s, s[i] = s[j]
               PROVE  i = j
    BY DEF IsInjective
  <2>0. s[i] \in R /\ s[j] \in R /\ i \in 1..Len(s) /\ j \in 1..Len(s)
    OBVIOUS
  <2>1. s[i] \in Nat
    BY <1>3, <2>0, Zenon
  <2>2. ~(i < j) /\ ~(j < i)
    BY <2>0, <2>1
  <2>3. i \in Nat /\ j \in Nat
    BY <2>0
  <2> QED BY <2>2, <2>3
<1> HIDE DEF Up
<1> QED BY <1>8, <1>9 DEF R

LEMMA SubmittedOK ==
  ASSUME NEW n \in Nat \ {0}, NEW list \in [1..n -> Recipient],
         NEW of \in [1..n -> 1..MaxFiles], NEW done,
         of[1] = 1, \A i \in 2..n : of[i] - of[i - 1] \in {0, 1}
  PROVE  FilesOK(Submitted(list, of, done)) /\ Len(Submitted(list, of, done)) # 0
<1> DEFINE Good == {m \in Nat : m \in 1..n => 1..of[m] \subseteq Range(of)}
<1>1. 0 \in Good
  OBVIOUS
<1>2. ASSUME NEW m \in Nat, m \in Good PROVE m + 1 \in Good
  <2> SUFFICES ASSUME m + 1 \in 1..n PROVE 1..of[m + 1] \subseteq Range(of)
    OBVIOUS
  <2>1. of[m + 1] \in Range(of)
    BY DEF Range
  <2>2. CASE m = 0
    <3>1. 1..1 = {1} /\ m + 1 = 1
      BY <2>2
    <3> QED BY <2>1, <3>1
  <2>3. CASE m # 0
    <3>1. m \in 1..n /\ m + 1 \in 2..n /\ (m + 1) - 1 = m
      BY <2>3
    <3>2. PICK a \in Nat, b \in Nat : a = of[m] /\ b = of[m + 1] /\ b - a \in {0, 1}
      BY <3>1
    <3>3. 1..b \subseteq 1..a \cup {b}
      BY <3>2
    <3>4. 1..a \subseteq Range(of)
      BY <1>2, <3>1, <3>2
    <3> QED BY <2>1, <3>2, <3>3, <3>4
  <2> QED BY <2>2, <2>3
<1>3. PICK l \in Nat : l = of[n] /\ 1..l \subseteq Range(of)
  <2>1. n \in Good
    <3> HIDE DEF Good
    <3> QED BY <1>1, <1>2, NatSets
  <2> QED BY <2>1
<1>4. Range(of) = 1..l /\ l # 0
  <2> DEFINE Low == {m \in Nat : m \in 0..(n - 1) => of[n - m] \in 1..l}
  <2>1. 0 \in Low
    BY <1>3
  <2>2. ASSUME NEW m \in Nat, m \in Low PROVE m + 1 \in Low
    <3> SUFFICES ASSUME m + 1 \in 0..(n - 1) PROVE of[n - (m + 1)] \in 1..l
      OBVIOUS
    <3> DEFINE i == n - m
    <3>1. i \in 2..n /\ i - 1 = n - (m + 1) /\ i - 1 \in 1..n /\ m \in 0..(n - 1)
      OBVIOUS
    <3>2. of[i] \in 1..l
      BY <2>2, <3>1
    <3> HIDE DEF i
    <3>3. PICK a \in Nat, b \in Nat : a = of[i - 1] /\ b = of[i] /\ b - a \in {0, 1} /\ a # 0
      BY <3>1
    <3>4. a \in 1..l
      BY <3>2, <3>3
    <3> QED BY <3>1, <3>3, <3>4
  <2>3. \A m \in Nat : m \in Low
    <3> HIDE DEF Low
    <3> QED BY <2>1, <2>2, NatSets
  <2>4. \A j \in 1..n : of[j] \in 1..l
    <3> SUFFICES ASSUME NEW j \in 1..n PROVE of[j] \in 1..l
      OBVIOUS
    <3>1. n - j \in Nat /\ n - j \in 0..(n - 1) /\ n - (n - j) = j
      OBVIOUS
    <3> QED BY <2>3, <3>1
  <2>5. 1 \in 1..n
    OBVIOUS
  <2> QED BY <1>3, <2>4, <2>5 DEF Range
<1> DEFINE mine(f) == InOrder({i \in DOMAIN list : of[i] = f}, Len(list))
           file(f) == [rcpts |-> [k \in DOMAIN mine(f) |-> list[mine(f)[k]]],
                       marks |-> InOrder({k \in DOMAIN mine(f) : mine(f)[k] \in done},
                                         Len(mine(f)))]
<1>5. ASSUME NEW f \in 1..l PROVE FileOK(file(f))
  <2> DEFINE own == mine(f)
             marks == InOrder({k \in DOMAIN own : own[k] \in done}, Len(own))
  <2>1. own \in Seq(1..n)
    <3>1. Len(list) = n /\ DOMAIN list = 1..n
      OBVIOUS
    <3>2. {i \in DOMAIN list : of[i] = f} \cap (1..n) \subseteq 1..n
      OBVIOUS
    <3>3. own \in Seq({i \in DOMAIN list : of[i] = f} \cap (1..n))
      BY <3>1, Ordered
    <3> QED BY <3>2, <3>3
  <2> HIDE DEF mine
  <2> HIDE DEF own
  <2>2. PICK m \in Nat : m = Len(own) /\ DOMAIN own = 1..m /\ \A k \in 1..m : own[k] \in 1..n
    <3>1. /\ Len(own) \in Nat /\ DOMAIN own = 1..Len(own)
          /\ \A k \in 1..Len(own) : own[k] \in 1..n
      BY <2>1
    <3> QED BY <3>1
  <2> USE DEF own
  <2>3. marks \in Seq({k \in DOMAIN own : own[k] \in done} \cap (1..m)) /\ IsInjective(marks)
    BY <2>2, Ordered
  <2>4. [k \in DOMAIN own |-> list[own[k]]] \in Seq(Recipient)
        /\ DOMAIN [k \in DOMAIN own |-> list[own[k]]] = 1..m
    BY <2>2
  <2> HIDE DEF marks
  <2>5. marks \in Seq(Nat) /\ ToSet(marks) \subseteq 1..m
    <3>1. \A k \in DOMAIN marks : marks[k] \in 1..m
      BY <2>3
    <3>2. marks \in Seq(1..m)
      BY <2>3, <3>1
    <3>3. 1..m \subseteq Nat
      OBVIOUS
    <3> QED BY <3>1, <3>2, <3>3 DEF ToSet
  <2>6. file(f) = [rcpts |-> [k \in DOMAIN own |-> list[own[k]]], marks |-> marks]
    BY DEF marks
  <2> HIDE DEF own, file
  <2>7. file(f) \in Files
    BY <2>4, <2>5, <2>6 DEF Files, FileOf
  <2> QED BY <2>3, <2>4, <2>5, <2>6, <2>7 DEF FileOK, Marked
<1>6. Submitted(list, of, done) = [f \in 1..l |-> file(f)]
  BY <1>4 DEF Submitted
<1> HIDE DEF file
<1>7. [f \in 1..l |-> file(f)] \in Seq(Files)
  BY <1>5 DEF FileOK
<1> QED BY <1>4, <1>5, <1>6, <1>7 DEF FilesOK

-----------------------------------------------------------------------------
(* Counting in a list.                                                     *)
\* How many elements of a list are in R.
Hits(list, R) == Cardinality({i \in DOMAIN list : list[i] \in R})

\* One if r is in R.
One(r, R) == IF r \in R THEN 1 ELSE 0

LEMMA HitsType ==
  ASSUME NEW Q, NEW s \in Seq(Q), NEW R
  PROVE  /\ Hits(s, R) \in Nat
         /\ IsFiniteSet({i \in DOMAIN s : s[i] \in R})
         /\ Hits(s, R) = 0 <=> NoneUpTo(s, Len(s), R)
<1> DEFINE A == {i \in DOMAIN s : s[i] \in R}
<1>1. DOMAIN s = 1..Len(s) /\ Len(s) \in Nat
  OBVIOUS
<1>2. IsFiniteSet(1..Len(s))
  BY <1>1, FS_Interval
<1>3. IsFiniteSet(A)
  BY <1>1, <1>2, FS_Subset
<1>4. Cardinality(A) \in Nat /\ (Cardinality(A) = 0 <=> A = {})
  <2> HIDE DEF A
  <2> QED BY <1>3, FS_CardinalityType, FS_EmptySet
<1>5. A = {} <=> NoneUpTo(s, Len(s), R)
  BY <1>1 DEF NoneUpTo
<1> QED BY <1>3, <1>4, <1>5 DEF Hits

LEMMA HitsAppend ==
  ASSUME NEW Q, NEW s \in Seq(Q), NEW r \in Q, NEW R
  PROVE  Hits(Append(s, r), R) = Hits(s, R) + One(r, R)
<1> DEFINE t == Append(s, r)
           A == {i \in DOMAIN s : s[i] \in R}
           B == {i \in DOMAIN t : t[i] \in R}
<1>1. PICK n \in Nat : /\ n = Len(s) /\ DOMAIN s = 1..n /\ DOMAIN t = 1..(n + 1)
                       /\ t[n + 1] = r /\ \A i \in 1..n : t[i] = s[i]
  OBVIOUS
<1>2. 1..(n + 1) = 1..n \cup {n + 1} /\ n + 1 \notin 1..n
  OBVIOUS
<1>3. B = IF r \in R THEN A \cup {n + 1} ELSE A
  BY <1>1, <1>2
<1>4. IsFiniteSet(A) /\ n + 1 \notin A /\ Cardinality(A) \in Nat
  BY <1>1, <1>2, HitsType DEF Hits
<1>5. Cardinality(A \cup {n + 1}) = Cardinality(A) + 1
  <2> HIDE DEF A
  <2> QED BY <1>4, FS_AddElement
<1> HIDE DEF A, B
<1>6. Cardinality(B) = Cardinality(A) + One(r, R)
  BY <1>3, <1>4, <1>5 DEF One
<1> QED BY <1>6 DEF Hits, A, B

LEMMA HitsTaken ==
  ASSUME NEW Q, NEW s \in Seq(Q), NEW t, NEW m, NEW x, NEW P, NEW R,
         TakenOut(s, t, m, x, P)
  PROVE  Hits(s, R) = Hits(t, R) + One(x, R)
<1> DEFINE A == {i \in DOMAIN s : s[i] \in R}
           B == {i \in DOMAIN t : t[i] \in R}
<1>1. /\ m \in 1..Len(s) /\ s[m] = x /\ t \in Seq(Q) /\ Len(t) = Len(s) - 1
      /\ \A i \in 1..(Len(s) - 1) : t[i] = IF i < m THEN s[i] ELSE s[i + 1]
  BY Removal DEF TakenOut
<1>2. PICK n \in Nat : n = Len(s) /\ DOMAIN s = 1..n /\ n # 0
  <2>1. Len(s) \in Nat /\ DOMAIN s = 1..Len(s)
    OBVIOUS
  <2> QED BY <1>1, <2>1
<1>3. DOMAIN t = 1..(n - 1) /\ m \in 1..n
      /\ \A i \in 1..(n - 1) : t[i] = IF i < m THEN s[i] ELSE s[i + 1]
  BY <1>1, <1>2
<1>4. IsFiniteSet(A) /\ IsFiniteSet(B) /\ Cardinality(A) \in Nat /\ Cardinality(B) \in Nat
  BY <1>1, HitsType DEF Hits
<1> DEFINE C == A \ {m}
           to == [i \in B |-> IF i < m THEN i ELSE i + 1]
<1>5. to \in Bijection(B, C)
  <2>1. to \in [B -> C]
    <3> SUFFICES ASSUME NEW i \in B PROVE to[i] \in C
      OBVIOUS
    <3>1. i \in 1..(n - 1) /\ t[i] \in R
      BY <1>3
    <3>2. CASE i < m
      BY <1>2, <1>3, <3>1, <3>2
    <3>3. CASE ~(i < m)
      BY <1>2, <1>3, <3>1, <3>3
    <3> QED BY <3>2, <3>3
  <2>2. \A i, j \in B : to[i] = to[j] => i = j
    BY <1>3
  <2>3. ASSUME NEW j \in C PROVE \E i \in B : to[i] = j
    <3>1. j \in 1..n /\ s[j] \in R /\ j # m
      BY <1>2
    <3>2. CASE j < m
      <4>1. j \in B /\ to[j] = j
        BY <1>3, <3>1, <3>2
      <4> QED BY <4>1
    <3>3. CASE ~(j < m)
      <4> DEFINE i == j - 1
      <4>1. i \in 1..(n - 1) /\ ~(i < m) /\ i + 1 = j
        BY <1>3, <3>1, <3>3
      <4> HIDE DEF i
      <4>2. i \in B /\ to[i] = j
        BY <1>3, <3>1, <4>1
      <4> QED BY <4>2
    <3> QED BY <3>2, <3>3
  <2> HIDE DEF to, B, C
  <2> QED BY <2>1, <2>2, <2>3 DEF Bijection, Injection, Surjection, IsInjective
<1>6. IsFiniteSet(C) /\ Cardinality(B) = Cardinality(C)
  <2> HIDE DEF A, B, C, to
  <2>1. IsFiniteSet(C)
    BY <1>4, FS_RemoveElement DEF C
  <2> QED BY <1>4, <1>5, <2>1, FS_Bijection DEF ExistsBijection
<1>7. Cardinality(A) = Cardinality(B) + One(x, R)
  <2>1. CASE x \in R
    <3>1. m \in A
      BY <1>1, <1>2, <1>3, <2>1
    <3>2. Cardinality(C) = Cardinality(A) - 1
      <4> HIDE DEF A
      <4> QED BY <1>4, <3>1, FS_RemoveElement
    <3> HIDE DEF A, B, C
    <3> QED BY <1>4, <1>6, <2>1, <3>2 DEF One
  <2>2. CASE x \notin R
    <3>1. m \notin A
      BY <1>1, <2>2
    <3>2. C = A
      BY <3>1
    <3> HIDE DEF A, B, C
    <3> QED BY <1>4, <1>6, <2>2, <3>2 DEF One
  <2> QED BY <2>1, <2>2
<1> QED BY <1>7 DEF Hits

LEMMA HitsTail ==
  ASSUME NEW Q, NEW s \in Seq(Q), s # <<>>, NEW R
  PROVE  Hits(s, R) = Hits(Tail(s), R) + One(Head(s), R)
<1>1. Len(s) \in Nat \ {0} /\ 1 \in 1..Len(s) /\ Head(s) = s[1]
  OBVIOUS
<1>2. RemoveAt(s, 1) = Tail(s)
  <2>1. /\ RemoveAt(s, 1) \in Seq(Q) /\ Len(RemoveAt(s, 1)) = Len(s) - 1
        /\ \A i \in 1..(Len(s) - 1) : RemoveAt(s, 1)[i] = IF i < 1 THEN s[i] ELSE s[i + 1]
    BY <1>1, Removal
  <2>2. Tail(s) \in Seq(Q) /\ Len(Tail(s)) = Len(s) - 1
        /\ \A i \in 1..(Len(s) - 1) : Tail(s)[i] = s[i + 1]
    OBVIOUS
  <2>3. \A i \in 1..(Len(s) - 1) : RemoveAt(s, 1)[i] = Tail(s)[i]
    BY <2>1, <2>2
  <2> QED BY <2>1, <2>2, <2>3, SameList
<1>3. TakenOut(s, Tail(s), 1, Head(s), {})
  BY <1>1, <1>2 DEF TakenOut, NoneUpTo
<1> QED BY <1>3, HitsTaken

-----------------------------------------------------------------------------
(* Types.                                                                  *)
LEMMA Constants == MaxRecords \in Nat /\ MaxFilters \in Nat
<1>1. MaxRecords \in {MaxFiles, MaxRecords, MaxFilters} /\ MaxFilters \in {MaxFiles, MaxRecords, MaxFilters}
  OBVIOUS
<1> QED BY <1>1, ControlFilesAssumption

\* There is always a file to add records to.
TypeInv == TypeOK /\ Len(files) # 0

Changes ==
  \/ files' = files
  \/ \E r \in Recipient : files' = AddRecipientData(files, r)
  \/ \E R \in SUBSET Recipient : files' = DelFirst(files, R)

LEMMA FilesParts ==
  FilesOK(files) <=> files \in Seq(FileOf(Seq(Nat))) /\ MarksMatch
BY DEF FilesOK, FileOK, Files, MarksMatch

LEMMA NowType == TypeInv => FilesOK(files) /\ Now \in Seq(Recipient)
BY FilesParts, ListsType DEF TypeInv, TypeOK, Now

LEMMA HeadType ==
  ASSUME NEW Q, NEW s \in Seq(Q), s # <<>>
  PROVE  Head(s) \in Q /\ Tail(s) \in Seq(Q)
OBVIOUS

LEMMA WithoutDsn ==
  ASSUME NEW r \in Recipient
  PROVE  /\ [r EXCEPT !.dsn = {}] \in Recipient
         /\ [r EXCEPT !.dsn = {}].addr = r.addr /\ [r EXCEPT !.dsn = {}].dsn = {}
BY ControlFilesAssumption DEF Recipient

\* The actions, and what each does to the files.
LEMMA Changing == TypeInv /\ [Next]_vars => Changes
<1> SUFFICES ASSUME TypeInv, [Next]_vars PROVE Changes
  OBVIOUS
<1> USE DEF Changes
<1>0. rcpts \in Seq(Recipient)
  BY DEF TypeInv, TypeOK
<1>1. CASE \/ StartNoDuplicates \/ StartNoSuccessDsn \/ StartQuarantine
           \/ KeepFirst \/ KeepDsn \/ SendNotice \/ Return \/ Raise \/ UNCHANGED vars
  BY <1>1 DEF StartNoDuplicates, StartNoSuccessDsn, StartQuarantine, Start, KeepFirst,
              KeepDsn, SendNotice, Return, Raise, vars
<1>2. CASE DropDuplicate \/ DelWithDsn \/ QuarantineDel
  <2>1. files' = DelFirst(files, {Head(rcpts)}) /\ rcpts # <<>>
    BY <1>2 DEF DropDuplicate, DelWithDsn, QuarantineDel, DelRecipientData, At
  <2>2. {Head(rcpts)} \in SUBSET Recipient
    BY <1>0, <2>1, HeadType
  <2> QED BY <2>1, <2>2
<1>3. CASE AddWithoutDsn
  <2>1. files' = AddRecipientData(files, [Head(rcpts) EXCEPT !.dsn = {}]) /\ rcpts # <<>>
    BY <1>3 DEF AddWithoutDsn, At
  <2>2. [Head(rcpts) EXCEPT !.dsn = {}] \in Recipient
    BY <1>0, <2>1, HeadType, WithoutDsn
  <2> QED BY <2>1, <2>2
<1>4. ASSUME NEW a \in Addresses, AddRecipient(a) PROVE Changes
  <2>1. [addr |-> a, orig |-> "", dsn |-> {}] \in Recipient
    BY ControlFilesAssumption DEF Recipient
  <2> QED BY <1>4, <2>1 DEF AddRecipient
<1>5. ASSUME NEW a \in Addresses, RemoveRecipient(a) PROVE Changes
  <2>1. files' = DelFirst(files, {r \in Recipient : r.addr = a})
    BY <1>5 DEF RemoveRecipient, DelRecipient
  <2> QED BY <2>1
<1> HIDE DEF Changes
<1> QED BY <1>1, <1>2, <1>3, <1>4, <1>5 DEF Next

\* What becomes of the list.
LEMMA ListStep ==
  ASSUME TypeInv, Changes
  PROVE  /\ FilesOK(files') /\ Len(files') # 0 /\ GetRecipientsData(files') \in Seq(Recipient)
         /\ \/ files' = files
            \/ \E r \in Recipient : GetRecipientsData(files') = Append(Now, r)
            \/ \E R, x, m : x \in R /\ TakenOut(Now, GetRecipientsData(files'), m, x, R)
<1>1. FilesOK(files) /\ Len(files) # 0
  BY NowType DEF TypeInv
<1>2. CASE files' = files
  BY <1>1, <1>2, ListsType
<1>3. ASSUME NEW r \in Recipient, files' = AddRecipientData(files, r)
      PROVE  /\ FilesOK(files') /\ Len(files') # 0
             /\ GetRecipientsData(files') = Append(Now, r)
  BY <1>1, <1>3, Added DEF Now
<1>4. ASSUME NEW R \in SUBSET Recipient, files' = DelFirst(files, R)
      PROVE  /\ FilesOK(files') /\ Len(files') # 0
             /\ \/ files' = files
                \/ \E x, m : x \in R /\ TakenOut(Now, GetRecipientsData(files'), m, x, R)
  <2>1. /\ FilesOK(DelFirst(files, R)) /\ Len(DelFirst(files, R)) = Len(files)
        /\ \/ DelFirst(files, R) = files
           \/ \E x \in R : \E m : TakenOut(GetRecipientsData(files),
                                       GetRecipientsData(DelFirst(files, R)), m, x, R)
    BY <1>1, Deleted
  <2> QED BY <1>1, <1>4, <2>1 DEF Now
<1>5. FilesOK(files') => GetRecipientsData(files') \in Seq(Recipient)
  BY ListsType
<1> QED BY <1>2, <1>3, <1>4, <1>5 DEF Changes

LEMMA InitType == Init => TypeInv
<1> SUFFICES ASSUME Init PROVE TypeInv
  OBVIOUS
<1>1. FilesOK(files) /\ Len(files) # 0
  <2>1. PICK n \in 1..MaxRecords :
          \E list \in [1..n -> Recipient], of \in [1..n -> 1..MaxFiles], done \in SUBSET (1..n) :
            /\ of[1] = 1 /\ \A i \in 2..n : of[i] - of[i - 1] \in {0, 1}
            /\ files = Submitted(list, of, done)
    BY DEF Init
  <2>2. n \in Nat \ {0}
    BY Constants
  <2> QED BY <2>1, <2>2, SubmittedOK
<1>2. /\ pc = "idle" /\ rcpts = <<>> /\ seen = {} /\ ran = 0 /\ atStart = <<>> /\ ended = "none"
  BY DEF Init
<1>3. 0 \in 0..MaxFilters /\ <<>> \in Seq(Recipient)
  BY Constants
<1> QED BY <1>1, <1>2, <1>3, FilesParts DEF TypeInv, TypeOK

LEMMA TypeStep == TypeInv /\ [Next]_vars => TypeInv'
<1> SUFFICES ASSUME TypeInv, [Next]_vars PROVE TypeInv'
  OBVIOUS
<1>1. /\ FilesOK(files) /\ Now \in Seq(Recipient) /\ rcpts \in Seq(Recipient)
      /\ atStart \in Seq(Recipient) /\ seen \subseteq Addresses /\ ran \in 0..MaxFilters
      /\ pc \in Filters \cup {"idle", "dsnDel", "notice"}
      /\ ended \in Filters \cup {"none", "raised", "add", "del"}
  BY NowType DEF TypeInv, TypeOK
<1>2. FilesOK(files') /\ Len(files') # 0 /\ GetRecipientsData(files') \in Seq(Recipient)
  BY Changing, ListStep
<1>3. rcpts # <<>> => /\ Tail(rcpts) \in Seq(Recipient) /\ Head(rcpts) \in Recipient
                      /\ Head(rcpts).addr \in Addresses
  <2>1. \A r \in Recipient : r.addr \in Addresses
    BY DEF Recipient
  <2> QED BY <1>1, <2>1, HeadType
<1>4. ran < MaxFilters => ran + 1 \in 0..MaxFilters
  BY <1>1, Constants
<1>5. /\ rcpts' \in Seq(Recipient) /\ atStart' \in Seq(Recipient) /\ seen' \subseteq Addresses
      /\ ran' \in 0..MaxFilters /\ pc' \in Filters \cup {"idle", "dsnDel", "notice"}
      /\ ended' \in Filters \cup {"none", "raised", "add", "del"}
  <2> USE DEF Filters
  <2>1. CASE StartNoDuplicates \/ StartNoSuccessDsn \/ StartQuarantine
    BY <1>1, <1>2, <1>4, <2>1 DEF StartNoDuplicates, StartNoSuccessDsn, StartQuarantine,
                                  Start, Now
  <2>2. CASE KeepFirst \/ DropDuplicate
    BY <1>1, <1>3, <2>2 DEF KeepFirst, DropDuplicate, At, NextRecipient, history
  <2>3. CASE KeepDsn \/ AddWithoutDsn \/ DelWithDsn
    BY <1>1, <1>3, <2>3 DEF KeepDsn, AddWithoutDsn, DelWithDsn, At, NextRecipient, history
  <2>4. CASE QuarantineDel \/ SendNotice
    BY <1>1, <1>3, <2>4 DEF QuarantineDel, SendNotice, At, NextRecipient, history
  <2>5. CASE Return \/ Raise
    <3>1. CASE Return
      BY <1>1, <3>1 DEF Return
    <3>2. CASE Raise
      BY <1>1, <3>2 DEF Raise
    <3> QED BY <2>5, <3>1, <3>2
  <2>6. ASSUME NEW a \in Addresses, AddRecipient(a) \/ RemoveRecipient(a)
        PROVE  /\ rcpts' = rcpts /\ seen' = seen /\ pc' = pc /\ ran' \in 0..MaxFilters
               /\ atStart' = Now /\ ended' \in {"add", "del"}
    BY <1>4, <2>6 DEF AddRecipient, RemoveRecipient, filterVars, Now
  <2>7. CASE UNCHANGED vars
    BY <1>1, <2>7 DEF vars, filterVars, history
  <2> QED BY <1>1, <2>1, <2>2, <2>3, <2>4, <2>5, <2>6, <2>7 DEF Next
<1>6. files' \in Seq(FileOf(Seq(Nat))) /\ MarksMatch'
  BY <1>2 DEF FilesOK, FileOK, Files, MarksMatch
<1> QED BY <1>2, <1>5, <1>6 DEF TypeInv, TypeOK

\* The control files of a message are what every reader of them takes them
\* for: records of recipients, and marks that refer to one of them each, and
\* to none twice.
THEOREM TypeCorrect == Spec => []TypeOK
<1>1. TypeInv => TypeOK
  BY DEF TypeInv
<1> QED BY <1>1, InitType, TypeStep, PTL DEF Spec

\* A record is added at the end of the list or the first of its equals is
\* taken out, in whatever file it is: courier.control edits the files like one
\* list.
THEOREM TheListIsEdited == Spec => EditedAsList
<1> DEFINE Edit == \/ Now' = Now
                   \/ \E r \in Recipient : Now' = Append(Now, r)
                   \/ \E i \in DOMAIN Now :
                        Now' = RemoveAt(Now, i) /\ \A j \in 1..(i - 1) : Now[j] # Now[i]
<1>1. TypeInv /\ [Next]_vars => [Edit]_vars
  <2> SUFFICES ASSUME TypeInv, [Next]_vars PROVE Edit
    OBVIOUS
  <2>1. Now \in Seq(Recipient)
    BY NowType
  <2>2. \/ files' = files
        \/ \E r \in Recipient : GetRecipientsData(files') = Append(Now, r)
        \/ \E R, x, m : x \in R /\ TakenOut(Now, GetRecipientsData(files'), m, x, R)
    BY Changing, ListStep
  <2>3. Now' = GetRecipientsData(files')
    BY DEF Now
  <2>4. ASSUME NEW R, NEW x \in R, NEW m, TakenOut(Now, GetRecipientsData(files'), m, x, R)
        PROVE  \E i \in DOMAIN Now :
                 Now' = RemoveAt(Now, i) /\ \A j \in 1..(i - 1) : Now[j] # Now[i]
    <3>1. /\ m \in 1..Len(Now) /\ Now' = RemoveAt(Now, m) /\ Now[m] = x
          /\ \A j \in 1..(m - 1) : Now[j] \notin R
      BY <2>3, <2>4 DEF TakenOut, NoneUpTo
    <3>2. m \in DOMAIN Now
      BY <2>1, <3>1
    <3> QED BY <3>1, <3>2
  <2>5. CASE files' = files
    BY <2>3, <2>5 DEF Now
  <2> QED BY <2>2, <2>3, <2>4, <2>5
<1> HIDE DEF Edit
<1>2. Spec => [][Edit]_vars
  BY <1>1, InitType, TypeStep, PTL DEF Spec
<1> QED BY <1>2 DEF EditedAsList, Edit

-----------------------------------------------------------------------------
(* What the filters have done so far.                                      *)
\* How many recipients the running filter has dealt with; the others are left.
Done == Len(atStart) - Len(rcpts)

RestInv ==
  pc # "idle" =>
    /\ ended = "none" /\ Done \in Nat
    /\ \A i \in 1..Len(rcpts) : rcpts[i] = atStart[Done + i]

\* Of the first n of a list: the addresses, and the first record of each.
SeenOf(list, n) == {list[i].addr : i \in 1..n}

FirstIn(list, i) == \A j \in 1..(i - 1) : list[j].addr # list[i].addr

KeptOf(list, n) == {list[i] : i \in {j \in 1..n : FirstIn(list, j)}}

\* noduplicates: to be delivered are the records it kept, and those it has
\* not come to.
DupInv ==
  pc = "dup" =>
    /\ seen = SeenOf(atStart, Done)
    /\ \A r \in Recipient :
         Hits(Now, {r}) = Hits(rcpts, {r}) + One(r, KeptOf(atStart, Done))

\* nosuccessdsn: all it has not come to are there, and of those with a request
\* for success no others.
ToCome ==
  \A r \in Recipient :
    /\ Hits(Now, {r}) >= Hits(rcpts, {r})
    /\ "S" \in r.dsn => Hits(Now, {r}) = Hits(rcpts, {r})

DsnInv ==
  /\ pc = "dsn" => ToCome /\ \A a \in Addresses : Times(Now, a) = Times(atStart, a)
  /\ pc = "dsnDel" =>
       /\ rcpts # <<>> /\ "S" \in Head(rcpts).dsn /\ ToCome
       /\ \A a \in Addresses :
            Times(Now, a) = Times(atStart, a) + One(a, {Head(rcpts).addr})

\* quarantine(): to be delivered is what it has not come to.
QuarInv ==
  /\ pc = "quar" => \A r \in Recipient : Hits(Now, {r}) = Hits(rcpts, {r})
  /\ pc = "notice" =>
       /\ rcpts # <<>>
       /\ \A r \in Recipient : Hits(Now, {r}) = Hits(Tail(rcpts), {r})

\* A filter that has returned has kept its promise and lost nobody.
EndInv == FiltersKeepPromises /\ (ended \in {"dup", "dsn"} => Addrs(Now) = Addrs(atStart))

FilterInv == RestInv /\ DupInv /\ DsnInv /\ QuarInv /\ EndInv

\* The records of an address.
Of(a) == {r \in Recipient : r.addr = a}

LEMMA TimesAreHits ==
  ASSUME NEW s \in Seq(Recipient), NEW a
  PROVE  /\ Times(s, a) = Hits(s, Of(a)) /\ Times(s, a) \in Nat
         /\ a \in Addrs(s) <=> Times(s, a) # 0
<1>1. DOMAIN s = 1..Len(s) /\ \A i \in DOMAIN s : s[i] \in Recipient
  OBVIOUS
<1>2. {i \in DOMAIN s : s[i].addr = a} = {i \in DOMAIN s : s[i] \in Of(a)}
  BY <1>1 DEF Of
<1>3. Times(s, a) = Hits(s, Of(a))
  BY <1>2 DEF Times, Hits
<1>4. Hits(s, Of(a)) \in Nat /\ (Hits(s, Of(a)) = 0 <=> NoneUpTo(s, Len(s), Of(a)))
  BY HitsType
<1>5. a \in Addrs(s) <=> ~NoneUpTo(s, Len(s), Of(a))
  BY <1>1 DEF Addrs, NoneUpTo, Of
<1> QED BY <1>3, <1>4, <1>5

\* A record is in a list if it is counted there.
LEMMA Counted ==
  ASSUME NEW s \in Seq(Recipient)
  PROVE  /\ \A r : Hits(s, {r}) \in Nat
         /\ \A i \in DOMAIN s : Hits(s, {s[i]}) # 0
         /\ \A r : Hits(s, {r}) # 0 => \E i \in DOMAIN s : s[i] = r
<1>1. DOMAIN s = 1..Len(s)
  OBVIOUS
<1>2. \A r : Hits(s, {r}) \in Nat /\ (Hits(s, {r}) = 0 <=> NoneUpTo(s, Len(s), {r}))
  BY HitsType
<1>3. \A r : NoneUpTo(s, Len(s), {r}) <=> \A i \in DOMAIN s : s[i] # r
  BY <1>1 DEF NoneUpTo
<1> QED BY <1>2, <1>3

\* One record of the list more, or less.
LEMMA OneMore ==
  ASSUME TypeInv, NEW r \in Recipient, files' = AddRecipientData(files, r)
  PROVE  \A R : Hits(Now', R) = Hits(Now, R) + One(r, R)
<1>1. FilesOK(files) /\ Len(files) # 0 /\ Now \in Seq(Recipient)
  BY NowType DEF TypeInv
<1>2. GetRecipientsData(files') = Append(Now, r)
  BY <1>1, Added DEF Now
<1>3. Now' = Append(Now, r)
  BY <1>2 DEF Now
<1> QED BY <1>1, <1>3, HitsAppend

LEMMA OneLess ==
  ASSUME TypeInv, NEW r \in Recipient, Hits(Now, {r}) # 0,
         files' = DelRecipientData(files, r)
  PROVE  \A R : Hits(Now, R) = Hits(Now', R) + One(r, R)
<1>1. FilesOK(files) /\ Now \in Seq(Recipient)
  BY NowType
<1>2. \/ NoneUpTo(Now, Len(Now), {r})
      \/ \E x \in {r} : \E m : TakenOut(Now, GetRecipientsData(files'), m, x, {r})
  BY <1>1, Deleted DEF Now, DelRecipientData
<1>3. ~NoneUpTo(Now, Len(Now), {r})
  BY <1>1, HitsType
<1>4. PICK m : TakenOut(Now, GetRecipientsData(files'), m, r, {r})
  BY <1>2, <1>3
<1>5. \A R : Hits(Now, R) = Hits(GetRecipientsData(files'), R) + One(r, R)
  BY <1>1, <1>4, HitsTaken
<1> QED BY <1>5 DEF Now

LEMMA KeptNext ==
  ASSUME NEW list \in Seq(Recipient), NEW n \in Nat, n + 1 \in 1..Len(list)
  PROVE  /\ SeenOf(list, n + 1) = SeenOf(list, n) \cup {list[n + 1].addr}
         /\ list[n + 1].addr \notin SeenOf(list, n) =>
              /\ KeptOf(list, n + 1) = KeptOf(list, n) \cup {list[n + 1]}
              /\ list[n + 1] \notin KeptOf(list, n)
         /\ list[n + 1].addr \in SeenOf(list, n) => KeptOf(list, n + 1) = KeptOf(list, n)
<1>1. 1..(n + 1) = 1..n \cup {n + 1} /\ (n + 1) - 1 = n
  OBVIOUS
<1>2. SeenOf(list, n + 1) = SeenOf(list, n) \cup {list[n + 1].addr}
  BY <1>1 DEF SeenOf
<1>3. FirstIn(list, n + 1) <=> list[n + 1].addr \notin SeenOf(list, n)
  BY <1>1 DEF FirstIn, SeenOf
<1>4. KeptOf(list, n + 1) = IF FirstIn(list, n + 1) THEN KeptOf(list, n) \cup {list[n + 1]}
                            ELSE KeptOf(list, n)
  BY <1>1 DEF KeptOf
<1>5. \A r \in KeptOf(list, n) : r.addr \in SeenOf(list, n)
  BY DEF KeptOf, SeenOf
<1> QED BY <1>2, <1>3, <1>4, <1>5

\* Of each address one record is kept.
LEMMA KeptAddrs ==
  ASSUME NEW list \in Seq(Recipient), NEW n \in Nat, n <= Len(list)
  PROVE  /\ \A a \in SeenOf(list, n) : \E r \in KeptOf(list, n) : r.addr = a
         /\ \A r \in KeptOf(list, n) : \E i \in 1..n : list[i] = r
         /\ \A q, r \in KeptOf(list, n) : q.addr = r.addr => q = r
<1>1. ASSUME NEW a \in SeenOf(list, n) PROVE \E r \in KeptOf(list, n) : r.addr = a
  <2> DEFINE S == {i \in 1..n : list[i].addr = a}
             m == Min(S)
  <2>1. S # {} /\ S \subseteq Nat
    BY DEF SeenOf
  <2>2. m \in S /\ \A i \in S : m <= i
    <3> HIDE DEF S
    <3> QED BY <2>1, Least
  <2> HIDE DEF m
  <2>3. m \in 1..n /\ list[m].addr = a /\ FirstIn(list, m)
    BY <2>2 DEF FirstIn
  <2> QED BY <2>3 DEF KeptOf
<1>2. \A r \in KeptOf(list, n) : \E i \in 1..n : list[i] = r
  BY DEF KeptOf
<1>3. ASSUME NEW q \in KeptOf(list, n), NEW r \in KeptOf(list, n), q.addr = r.addr
      PROVE  q = r
  <2>1. PICK i \in 1..n : q = list[i] /\ FirstIn(list, i)
    BY DEF KeptOf
  <2>2. PICK j \in 1..n : r = list[j] /\ FirstIn(list, j)
    BY DEF KeptOf
  <2>3. ~(i < j) /\ ~(j < i)
    BY <1>3, <2>1, <2>2 DEF FirstIn
  <2>4. i = j
    BY <2>3
  <2> QED BY <2>1, <2>2, <2>4
<1> QED BY <1>1, <1>2, <1>3

-----------------------------------------------------------------------------
\* What the running filter has before it.
LEMMA Ahead ==
  ASSUME TypeInv, RestInv, pc # "idle", rcpts # <<>>
  PROVE  /\ Done \in Nat /\ Done + 1 \in 1..Len(atStart)
         /\ Head(rcpts) = atStart[Done + 1] /\ Head(rcpts) \in Recipient
         /\ Len(atStart) - Len(Tail(rcpts)) = Done + 1
         /\ \A i \in 1..Len(Tail(rcpts)) : Tail(rcpts)[i] = atStart[(Done + 1) + i]
<1>1. rcpts \in Seq(Recipient) /\ atStart \in Seq(Recipient)
  BY DEF TypeInv, TypeOK
<1>2. Done \in Nat /\ \A i \in 1..Len(rcpts) : rcpts[i] = atStart[Done + i]
  BY DEF RestInv
<1>3. PICK n \in Nat, k \in Nat : n = Len(rcpts) /\ k = Len(atStart)
  BY <1>1
<1>4. n # 0 /\ Head(rcpts) = rcpts[1] /\ Head(rcpts) \in Recipient
      /\ Len(Tail(rcpts)) = n - 1 /\ \A i \in 1..(n - 1) : Tail(rcpts)[i] = rcpts[i + 1]
  BY <1>1, <1>3
<1>5. PICK d \in Nat : d = Done
  BY <1>2
<1>6. k = d + n
  BY <1>3, <1>5 DEF Done
<1>7. rcpts[1] = atStart[d + 1] /\ \A i \in 1..(n - 1) : rcpts[i + 1] = atStart[(d + 1) + i]
  <2>1. 1 \in 1..n /\ \A i \in 1..(n - 1) : i + 1 \in 1..n /\ d + (i + 1) = (d + 1) + i
    BY <1>4
  <2>2. \A i \in 1..n : rcpts[i] = atStart[d + i]
    BY <1>2, <1>3, <1>5
  <2> QED BY <2>1, <2>2
<1> QED BY <1>3, <1>4, <1>5, <1>6, <1>7

LEMMA NextRest ==
  ASSUME TypeInv, RestInv, pc # "idle", rcpts # <<>>, rcpts' = Tail(rcpts),
         UNCHANGED history
  PROVE  RestInv' /\ Done' = Done + 1
<1>1. /\ Done \in Nat /\ Len(atStart) - Len(Tail(rcpts)) = Done + 1
      /\ \A i \in 1..Len(Tail(rcpts)) : Tail(rcpts)[i] = atStart[(Done + 1) + i]
  BY Ahead
<1>2. atStart' = atStart /\ ended' = ended /\ ended = "none"
  BY DEF history, RestInv
<1>3. Done' = Done + 1
  BY <1>1, <1>2 DEF Done
<1>4. /\ ended' = "none" /\ Done' \in Nat
      /\ \A i \in 1..Len(rcpts') : rcpts'[i] = atStart'[Done' + i]
  BY <1>1, <1>2, <1>3
<1> QED BY <1>3, <1>4 DEF RestInv

\* While noduplicates runs each address is there.
LEMMA DupAddrs ==
  ASSUME TypeInv, RestInv, DupInv, pc = "dup"
  PROVE  Addrs(Now) = Addrs(atStart)
<1>1. /\ Now \in Seq(Recipient) /\ rcpts \in Seq(Recipient) /\ atStart \in Seq(Recipient)
  BY NowType DEF TypeInv, TypeOK
<1>2. PICK d \in Nat, k \in Nat :
        /\ d = Done /\ k = Len(atStart) /\ d <= k /\ Len(rcpts) = k - d
        /\ \A i \in 1..Len(rcpts) : rcpts[i] = atStart[d + i]
  <2>1. Done \in Nat /\ \A i \in 1..Len(rcpts) : rcpts[i] = atStart[Done + i]
    BY DEF RestInv
  <2>2. PICK n \in Nat, k \in Nat : n = Len(rcpts) /\ k = Len(atStart)
    BY <1>1
  <2>3. PICK d \in Nat : d = Done
    BY <2>1
  <2>4. d = k - n
    BY <2>2, <2>3 DEF Done
  <2>5. d <= k /\ Len(rcpts) = k - d
    BY <2>2, <2>4
  <2>6. \A i \in 1..Len(rcpts) : rcpts[i] = atStart[d + i]
    BY <2>1, <2>3
  <2> QED BY <2>2, <2>3, <2>5, <2>6
<1>3. \A r \in Recipient : Hits(Now, {r}) = Hits(rcpts, {r}) + One(r, KeptOf(atStart, d))
  BY <1>2 DEF DupInv
<1>4. /\ \A r : Hits(Now, {r}) \in Nat /\ Hits(rcpts, {r}) \in Nat
      /\ \A r : Hits(Now, {r}) # 0 => \E i \in DOMAIN Now : Now[i] = r
      /\ \A r : Hits(rcpts, {r}) # 0 => \E i \in DOMAIN rcpts : rcpts[i] = r
      /\ \A i \in DOMAIN Now : Hits(Now, {Now[i]}) # 0
      /\ \A i \in DOMAIN rcpts : Hits(rcpts, {rcpts[i]}) # 0
  BY <1>1, Counted
<1>5. /\ \A a \in SeenOf(atStart, d) : \E r \in KeptOf(atStart, d) : r.addr = a
      /\ \A r \in KeptOf(atStart, d) : \E i \in 1..d : atStart[i] = r
  BY <1>1, <1>2, KeptAddrs
<1>6. DOMAIN atStart = 1..k /\ \A i \in 1..k : atStart[i] \in Recipient
  BY <1>1, <1>2
<1>7. DOMAIN rcpts = 1..(k - d) /\ DOMAIN Now = 1..Len(Now)
      /\ \A i \in DOMAIN Now : Now[i] \in Recipient
  BY <1>1, <1>2
<1>8. ASSUME NEW i \in DOMAIN Now PROVE Now[i].addr \in Addrs(atStart)
  <2>1. Now[i] \in Recipient /\ Hits(Now, {Now[i]}) # 0
    BY <1>4, <1>7
  <2>2. CASE Hits(rcpts, {Now[i]}) # 0
    <3>1. PICK j \in 1..(k - d) : rcpts[j] = Now[i]
      BY <1>4, <1>7, <2>2
    <3>2. d + j \in 1..k /\ atStart[d + j] = Now[i]
      BY <1>2, <3>1
    <3> QED BY <1>6, <3>2 DEF Addrs
  <2>3. CASE Hits(rcpts, {Now[i]}) = 0
    <3>1. Now[i] \in KeptOf(atStart, d)
      BY <1>3, <2>1, <2>3 DEF One
    <3>2. PICK j \in 1..d : atStart[j] = Now[i]
      BY <1>5, <3>1
    <3>3. j \in 1..k
      BY <1>2
    <3> QED BY <1>6, <3>2, <3>3 DEF Addrs
  <2> QED BY <2>2, <2>3
<1>9. ASSUME NEW i \in 1..k PROVE atStart[i].addr \in Addrs(Now)
  <2>1. CASE i <= d
    <3>1. atStart[i].addr \in SeenOf(atStart, d)
      BY <1>2, <2>1 DEF SeenOf
    <3>2. PICK r \in KeptOf(atStart, d) : r.addr = atStart[i].addr
      BY <1>5, <3>1
    <3>3. PICK j \in 1..d : atStart[j] = r
      BY <1>5
    <3>4. r \in Recipient
      BY <1>2, <1>6, <3>3
    <3>5. Hits(Now, {r}) # 0
      <4>1. Hits(Now, {r}) = Hits(rcpts, {r}) + 1
        BY <1>3, <3>4 DEF One
      <4>2. PICK h \in Nat : h = Hits(rcpts, {r})
        BY <1>4
      <4> QED BY <4>1, <4>2
    <3>6. \E m \in DOMAIN Now : Now[m] = r
      BY <1>4, <3>5
    <3> QED BY <3>2, <3>6 DEF Addrs
  <2>2. CASE ~(i <= d)
    <3> DEFINE j == i - d
    <3>1. j \in 1..(k - d) /\ d + j = i
      BY <1>2, <2>2
    <3> HIDE DEF j
    <3>2. rcpts[j] = atStart[i]
      BY <1>2, <3>1
    <3>3. Hits(rcpts, {atStart[i]}) # 0
      BY <1>4, <1>7, <3>1, <3>2
    <3>4. Hits(Now, {atStart[i]}) # 0
      <4>1. atStart[i] \in Recipient
        BY <1>6
      <4>2. Hits(Now, {atStart[i]})
              = Hits(rcpts, {atStart[i]}) + One(atStart[i], KeptOf(atStart, d))
        BY <1>3, <4>1
      <4>3. PICK h \in Nat, o \in {0, 1} : /\ h = Hits(rcpts, {atStart[i]})
                                           /\ o = One(atStart[i], KeptOf(atStart, d))
        BY <1>4 DEF One
      <4> QED BY <3>3, <4>2, <4>3
    <3>5. \E m \in DOMAIN Now : Now[m] = atStart[i]
      BY <1>4, <3>4
    <3> QED BY <3>5 DEF Addrs
  <2> QED BY <2>1, <2>2
<1>10. Addrs(Now) \subseteq Addrs(atStart)
  BY <1>8 DEF Addrs
<1>11. Addrs(atStart) \subseteq Addrs(Now)
  BY <1>6, <1>9 DEF Addrs
<1> QED BY <1>10, <1>11

\* While nosuccessdsn runs each address is there.
LEMMA DsnAddrs ==
  ASSUME TypeInv, RestInv, DsnInv, pc \in {"dsn", "dsnDel"}
  PROVE  Addrs(Now) = Addrs(atStart)
<1>1. Now \in Seq(Recipient) /\ atStart \in Seq(Recipient)
  BY NowType DEF TypeInv, TypeOK
<1>2. /\ \A a : Times(Now, a) \in Nat /\ (a \in Addrs(Now) <=> Times(Now, a) # 0)
      /\ \A a : Times(atStart, a) \in Nat /\ (a \in Addrs(atStart) <=> Times(atStart, a) # 0)
  BY <1>1, TimesAreHits
<1>3. Addrs(Now) \subseteq Addresses /\ Addrs(atStart) \subseteq Addresses
  <2>1. ASSUME NEW s \in Seq(Recipient) PROVE Addrs(s) \subseteq Addresses
    <3>1. \A i \in DOMAIN s : s[i] \in Recipient
      OBVIOUS
    <3>2. \A r \in Recipient : r.addr \in Addresses
      BY DEF Recipient
    <3> QED BY <3>1, <3>2 DEF Addrs
  <2> QED BY <1>1, <2>1
<1>4. CASE pc = "dsn"
  BY <1>2, <1>3, <1>4 DEF DsnInv
<1>5. CASE pc = "dsnDel"
  <2>1. Head(rcpts).addr \in Addrs(atStart)
    <3>1. Done + 1 \in 1..Len(atStart) /\ Head(rcpts) = atStart[Done + 1]
      BY <1>5, Ahead DEF DsnInv
    <3> QED BY <1>1, <3>1 DEF Addrs
  <2>2. \A a \in Addresses : Times(Now, a) = Times(atStart, a) + One(a, {Head(rcpts).addr})
    BY <1>5 DEF DsnInv
  <2>3. \A a \in Addresses : Times(Now, a) # 0 <=> Times(atStart, a) # 0
    BY <1>2, <2>1, <2>2 DEF One
  <2> QED BY <1>2, <1>3, <2>3
<1> QED BY <1>4, <1>5

\* What the filters promise holds when they have come to the end.
LEMMA NoHits == \A R : Hits(<<>>, R) = 0
<1>1. <<>> \in Seq(Recipient) /\ \A R : NoneUpTo(<<>>, Len(<<>>), R)
  BY DEF NoneUpTo
<1> QED BY <1>1, HitsType

LEMMA DupAtEnd ==
  ASSUME TypeInv, RestInv, DupInv, pc = "dup", rcpts = <<>>
  PROVE  /\ \A a \in Addrs(Now) : Times(Now, a) = 1
         /\ \A i \in DOMAIN atStart : FirstIn(atStart, i) => Contains(Now, atStart[i])
<1>1. /\ Now \in Seq(Recipient) /\ atStart \in Seq(Recipient)
  BY NowType DEF TypeInv, TypeOK
<1>2. PICK k \in Nat : k = Len(atStart) /\ k = Done
  BY <1>1 DEF Done
<1> DEFINE Kept == KeptOf(atStart, k)
<1>3. \A r \in Recipient : Hits(Now, {r}) = One(r, Kept)
  <2>1. \A r \in Recipient : Hits(Now, {r}) = Hits(<<>>, {r}) + One(r, Kept)
    BY <1>2 DEF DupInv
  <2>2. \A r : One(r, Kept) \in {0, 1}
    BY DEF One
  <2> HIDE DEF Kept
  <2>3. ASSUME NEW r \in Recipient PROVE Hits(Now, {r}) = One(r, Kept)
    <3>1. Hits(Now, {r}) = 0 + One(r, Kept)
      BY <2>1, NoHits
    <3>2. PICK o \in {0, 1} : o = One(r, Kept)
      BY <2>2
    <3> QED BY <3>1, <3>2
  <2> QED BY <2>3
<1>4. \A q, r \in Kept : q.addr = r.addr => q = r
  <2>1. k <= Len(atStart)
    BY <1>2
  <2> QED BY <1>1, <2>1, KeptAddrs
<1>5. /\ \A i \in DOMAIN Now : Now[i] \in Recipient
      /\ \A i \in DOMAIN atStart : atStart[i] \in Recipient
      /\ DOMAIN Now = 1..Len(Now) /\ DOMAIN atStart = 1..k
  <2>1. /\ \A i \in DOMAIN Now : Now[i] \in Recipient
        /\ DOMAIN Now = 1..Len(Now)
    BY <1>1
  <2>2. /\ \A i \in DOMAIN atStart : atStart[i] \in Recipient
        /\ DOMAIN atStart = 1..Len(atStart)
    BY <1>1
  <2> QED BY <1>2, <2>1, <2>2
<1>6. /\ \A i \in DOMAIN Now : Hits(Now, {Now[i]}) # 0
      /\ \A r : Hits(Now, {r}) # 0 => \E i \in DOMAIN Now : Now[i] = r
  BY <1>1, Counted
<1>7. ASSUME NEW a \in Addrs(Now) PROVE Times(Now, a) = 1
  <2>1. \A i \in DOMAIN Now : Now[i] \in Kept
    BY <1>3, <1>5, <1>6 DEF One
  <2>2. PICK i \in DOMAIN Now : Now[i].addr = a
    BY DEF Addrs
  <2>3. \A j \in DOMAIN Now : Now[j].addr = a <=> Now[j] \in {Now[i]}
    BY <1>4, <2>1, <2>2
  <2>4. Times(Now, a) = Hits(Now, {Now[i]})
    BY <2>3 DEF Times, Hits
  <2>5. Hits(Now, {Now[i]}) = 1
    BY <1>3, <1>5, <2>1 DEF One
  <2> QED BY <2>4, <2>5
<1>8. ASSUME NEW i \in DOMAIN atStart, FirstIn(atStart, i) PROVE Contains(Now, atStart[i])
  <2>1. atStart[i] \in Kept
    BY <1>5, <1>8 DEF KeptOf
  <2>2. Hits(Now, {atStart[i]}) = 1 /\ Hits(Now, {atStart[i]}) # 0
    BY <1>3, <1>5, <2>1 DEF One
  <2>3. PICK j \in DOMAIN Now : Now[j] = atStart[i]
    BY <1>6, <2>2
  <2> QED BY <1>5, <2>3 DEF Contains
<1> QED BY <1>7, <1>8

LEMMA DsnAtEnd ==
  ASSUME TypeInv, DsnInv, pc = "dsn", rcpts = <<>>
  PROVE  /\ \A i \in DOMAIN Now : "S" \notin Now[i].dsn
         /\ \A a \in Addresses : Times(Now, a) = Times(atStart, a)
<1>1. Now \in Seq(Recipient)
  BY NowType
<1>2. \A i \in DOMAIN Now : Now[i] \in Recipient /\ Hits(Now, {Now[i]}) # 0
  BY <1>1, Counted
<1>3. \A r \in Recipient : "S" \in r.dsn => Hits(Now, {r}) = Hits(<<>>, {r})
  BY DEF DsnInv, ToCome
<1>4. \A i \in DOMAIN Now : "S" \notin Now[i].dsn
  BY <1>2, <1>3, NoHits
<1> QED BY <1>4 DEF DsnInv

LEMMA QuarAtEnd ==
  ASSUME TypeInv, QuarInv, pc = "quar", rcpts = <<>>
  PROVE  Now = <<>>
<1>1. Now \in Seq(Recipient)
  BY NowType
<1>2. \A i \in DOMAIN Now : Now[i] \in Recipient /\ Hits(Now, {Now[i]}) # 0
  BY <1>1, Counted
<1>3. \A r \in Recipient : Hits(Now, {r}) = Hits(<<>>, {r})
  BY DEF QuarInv
<1>4. DOMAIN Now = {}
  BY <1>2, <1>3, NoHits
<1> QED BY <1>1, <1>4

\* The steps, for each part of the invariant.
LEMMA EndStep == TypeInv /\ FilterInv /\ [Next]_vars => EndInv'
<1> SUFFICES ASSUME TypeInv, FilterInv, [Next]_vars PROVE EndInv'
  OBVIOUS
<1>1. CASE ended' \notin {"dup", "dsn", "quar"}
  BY <1>1 DEF EndInv, FiltersKeepPromises, DuplicatesRemoved, SuccessDsnRemoved,
              QuarantineWithholds
<1>2. CASE UNCHANGED vars
  <2>1. Now' = Now /\ atStart' = atStart /\ ended' = ended
    BY <1>2 DEF vars, history, Now
  <2> QED BY <2>1 DEF FilterInv, EndInv, FiltersKeepPromises, DuplicatesRemoved,
                      SuccessDsnRemoved, QuarantineWithholds
<1>3. CASE Return
  <2>1. /\ Now' = Now /\ atStart' = atStart /\ ended' = pc /\ rcpts = <<>>
        /\ pc \in {"dup", "dsn", "quar"}
    BY <1>3 DEF Return, Filters, Now
  <2>2. RestInv /\ DupInv /\ DsnInv /\ QuarInv
    BY DEF FilterInv
  <2>3. CASE pc = "dup"
    <3>1. /\ \A a \in Addrs(Now) : Times(Now, a) = 1
          /\ \A i \in DOMAIN atStart : FirstIn(atStart, i) => Contains(Now, atStart[i])
      BY <2>1, <2>2, <2>3, DupAtEnd
    <3>2. Addrs(Now) = Addrs(atStart)
      BY <2>2, <2>3, DupAddrs
    <3> QED BY <2>1, <2>3, <3>1, <3>2 DEF EndInv, FiltersKeepPromises, DuplicatesRemoved,
                 SuccessDsnRemoved, QuarantineWithholds, FirstIn
  <2>4. CASE pc = "dsn"
    <3>1. /\ \A i \in DOMAIN Now : "S" \notin Now[i].dsn
          /\ \A a \in Addresses : Times(Now, a) = Times(atStart, a)
      BY <2>1, <2>2, <2>4, DsnAtEnd
    <3>2. Addrs(Now) = Addrs(atStart)
      BY <2>2, <2>4, DsnAddrs
    <3> QED BY <2>1, <2>4, <3>1, <3>2 DEF EndInv, FiltersKeepPromises, DuplicatesRemoved,
                 SuccessDsnRemoved, QuarantineWithholds
  <2>5. CASE pc = "quar"
    <3>1. Now = <<>>
      BY <2>1, <2>2, <2>5, QuarAtEnd
    <3> QED BY <2>1, <2>5, <3>1 DEF EndInv, FiltersKeepPromises, DuplicatesRemoved,
                 SuccessDsnRemoved, QuarantineWithholds
  <2> QED BY <2>1, <2>3, <2>4, <2>5
<1>4. CASE Next /\ ~Return
  <2>1. pc # "idle" => ended = "none"
    BY DEF FilterInv, RestInv
  <2>2. ended' \notin {"dup", "dsn", "quar"}
    BY <1>4, <2>1 DEF Next, StartNoDuplicates, StartNoSuccessDsn, StartQuarantine, Start,
         KeepFirst, DropDuplicate, KeepDsn, AddWithoutDsn, DelWithDsn, QuarantineDel,
         SendNotice, NextRecipient, At, history, Raise, AddRecipient, RemoveRecipient
  <2> QED BY <1>1, <2>2
<1> QED BY <1>2, <1>3, <1>4

LEMMA RestStep == TypeInv /\ FilterInv /\ [Next]_vars => RestInv'
<1> SUFFICES ASSUME TypeInv, FilterInv, [Next]_vars PROVE RestInv'
  OBVIOUS
<1>1. RestInv
  BY DEF FilterInv
<1>2. CASE pc' = "idle"
  BY <1>2 DEF RestInv
<1>3. CASE UNCHANGED <<rcpts, history>> /\ pc # "idle"
  BY <1>1, <1>3 DEF RestInv, history, Done
<1>4. CASE pc # "idle" /\ rcpts # <<>> /\ rcpts' = Tail(rcpts) /\ UNCHANGED history
  BY <1>1, <1>4, NextRest
<1>5. ASSUME NEW step, Start(step) PROVE RestInv'
  <2>1. rcpts' = Now /\ atStart' = Now /\ ended' = "none" /\ Now \in Seq(Recipient)
    BY <1>5, NowType DEF Start, Now
  <2>2. Len(Now) - Len(Now) = 0 /\ \A i \in 1..Len(Now) : 0 + i = i
    BY <2>1
  <2> QED BY <2>1, <2>2 DEF RestInv, Done
<1>6. CASE StartNoDuplicates \/ StartNoSuccessDsn \/ StartQuarantine
  BY <1>5, <1>6 DEF StartNoDuplicates, StartNoSuccessDsn, StartQuarantine
<1>7. CASE KeepFirst \/ DropDuplicate \/ KeepDsn \/ DelWithDsn \/ SendNotice
  BY <1>4, <1>7 DEF KeepFirst, DropDuplicate, KeepDsn, DelWithDsn, SendNotice,
                    NextRecipient, At
<1>8. CASE AddWithoutDsn \/ QuarantineDel
  BY <1>3, <1>8 DEF AddWithoutDsn, QuarantineDel, At
<1>9. CASE \/ Return \/ Raise
           \/ \E a \in Addresses : AddRecipient(a) \/ RemoveRecipient(a)
  BY <1>2, <1>9 DEF Return, Raise, AddRecipient, RemoveRecipient, filterVars
<1>10. CASE UNCHANGED vars
  <2>1. UNCHANGED <<rcpts, history>> /\ pc' = pc
    BY <1>10 DEF vars, filterVars
  <2> QED BY <1>2, <1>3, <2>1
<1> QED BY <1>6, <1>7, <1>8, <1>9, <1>10 DEF Next

\* Which steps lead where.
LEMMA Leading ==
  ASSUME [Next]_vars
  PROVE  /\ pc' = "dup" => StartNoDuplicates \/ KeepFirst \/ DropDuplicate \/ UNCHANGED vars
         /\ pc' = "dsn" => StartNoSuccessDsn \/ KeepDsn \/ DelWithDsn \/ UNCHANGED vars
         /\ pc' = "dsnDel" => AddWithoutDsn \/ UNCHANGED vars
         /\ pc' = "quar" => StartQuarantine \/ SendNotice \/ UNCHANGED vars
         /\ pc' = "notice" => QuarantineDel \/ UNCHANGED vars
BY DEF Next, StartNoDuplicates, StartNoSuccessDsn, StartQuarantine, Start, KeepFirst,
       DropDuplicate, KeepDsn, AddWithoutDsn, DelWithDsn, QuarantineDel, SendNotice,
       NextRecipient, At, Return, Raise, AddRecipient, RemoveRecipient, filterVars

\* What the next recipient counts for.
LEMMA HeadHits ==
  ASSUME TypeInv, rcpts # <<>>
  PROVE  /\ Head(rcpts) \in Recipient /\ Hits(rcpts, {Head(rcpts)}) # 0
         /\ \A R : /\ Hits(rcpts, R) = Hits(Tail(rcpts), R) + One(Head(rcpts), R)
                   /\ Hits(rcpts, R) \in Nat /\ Hits(Tail(rcpts), R) \in Nat
                   /\ Hits(Now, R) \in Nat /\ One(Head(rcpts), R) \in {0, 1}
<1>1. rcpts \in Seq(Recipient) /\ Now \in Seq(Recipient)
  BY NowType DEF TypeInv, TypeOK
<1>2. Head(rcpts) \in Recipient /\ Tail(rcpts) \in Seq(Recipient)
      /\ 1 \in DOMAIN rcpts /\ Head(rcpts) = rcpts[1]
  BY <1>1
<1>3. Hits(rcpts, {Head(rcpts)}) # 0
  BY <1>1, <1>2, Counted
<1>4. \A R : Hits(rcpts, R) = Hits(Tail(rcpts), R) + One(Head(rcpts), R)
  BY <1>1, HitsTail
<1>5. \A R : Hits(rcpts, R) \in Nat /\ Hits(Now, R) \in Nat
  BY <1>1, HitsType
<1>6. \A R : Hits(Tail(rcpts), R) \in Nat
  BY <1>2, HitsType
<1> QED BY <1>2, <1>3, <1>4, <1>5, <1>6 DEF One

\* A filter begins with all recipients before it.
LEMMA Starting ==
  ASSUME TypeInv, NEW step, Start(step)
  PROVE  /\ Now' = Now /\ rcpts' = Now /\ atStart' = Now /\ seen' = {} /\ pc' = step
         /\ Done' = 0 /\ \A R : Hits(Now, R) \in Nat
<1>1. Now' = Now /\ rcpts' = Now /\ atStart' = Now /\ seen' = {} /\ pc' = step
  BY DEF Start, Now
<1>2. Now \in Seq(Recipient)
  BY NowType
<1>3. Len(Now) - Len(Now) = 0
  BY <1>2
<1>4. Done' = 0
  BY <1>1, <1>3 DEF Done
<1> QED BY <1>1, <1>2, <1>4, HitsType

\* No file changes, or one record less is to be delivered.
LEMMA Quiet == files' = files => Now' = Now
BY DEF Now

LEMMA Deletion ==
  ASSUME TypeInv, rcpts # <<>>, Hits(Now, {Head(rcpts)}) # 0,
         files' = DelRecipientData(files, Head(rcpts))
  PROVE  \A R : /\ Hits(Now, R) = Hits(Now', R) + One(Head(rcpts), R)
                /\ Hits(Now', R) \in Nat
<1>1. Head(rcpts) \in Recipient
  BY HeadHits
<1>2. \A R : Hits(Now, R) = Hits(Now', R) + One(Head(rcpts), R)
  BY <1>1, OneLess
<1>3. Changes
  BY <1>1 DEF Changes, DelRecipientData
<1>4. Now' \in Seq(Recipient)
  BY <1>3, ListStep DEF Now
<1> QED BY <1>2, <1>4, HitsType

LEMMA DupStep == TypeInv /\ FilterInv /\ [Next]_vars => DupInv'
<1> SUFFICES ASSUME TypeInv, FilterInv, [Next]_vars, pc' = "dup" PROVE DupInv'
  BY DEF DupInv
<1>0. RestInv /\ DupInv
  BY DEF FilterInv
<1>1. CASE UNCHANGED vars
  <2>1. /\ Now' = Now /\ Done' = Done /\ pc' = pc /\ rcpts' = rcpts /\ seen' = seen
        /\ atStart' = atStart
    BY <1>1 DEF vars, filterVars, history, Now, Done
  <2> QED BY <1>0, <2>1 DEF DupInv
<1>2. CASE StartNoDuplicates
  <2>1. /\ Now' = Now /\ rcpts' = Now /\ atStart' = Now /\ seen' = {} /\ Done' = 0
        /\ \A R : Hits(Now, R) \in Nat
    BY <1>2, Starting DEF StartNoDuplicates
  <2>2. 1..0 = {}
    OBVIOUS
  <2>3. SeenOf(Now, 0) = {} /\ KeptOf(Now, 0) = {}
    BY <2>2 DEF SeenOf, KeptOf
  <2>4. \A r : One(r, {}) = 0
    BY DEF One
  <2>5. ASSUME NEW r \in Recipient
        PROVE  Hits(Now, {r}) = Hits(Now, {r}) + One(r, KeptOf(Now, 0))
    <3>1. PICK n \in Nat : n = Hits(Now, {r})
      BY <2>1
    <3>2. One(r, KeptOf(Now, 0)) = 0
      BY <2>3, <2>4
    <3> QED BY <3>1, <3>2
  <2> QED BY <2>1, <2>3, <2>5 DEF DupInv
<1> DEFINE h == Head(rcpts)
           K == KeptOf(atStart, Done)
<1>3. CASE KeepFirst \/ DropDuplicate
  <2>1. /\ pc = "dup" /\ rcpts # <<>> /\ rcpts' = Tail(rcpts) /\ UNCHANGED history
    BY <1>3 DEF KeepFirst, DropDuplicate, At, NextRecipient
  <2>2. Done' = Done + 1 /\ atStart' = atStart
    BY <1>0, <2>1, NextRest DEF history
  <2>3. /\ Done \in Nat /\ Done + 1 \in 1..Len(atStart) /\ h = atStart[Done + 1]
    BY <1>0, <2>1, Ahead
  <2>4. atStart \in Seq(Recipient)
    BY DEF TypeInv, TypeOK
  <2>5. /\ seen = SeenOf(atStart, Done)
        /\ \A r \in Recipient : Hits(Now, {r}) = Hits(rcpts, {r}) + One(r, K)
    BY <1>0, <2>1 DEF DupInv
  <2>6. /\ SeenOf(atStart, Done + 1) = seen \cup {h.addr}
        /\ h.addr \notin seen => KeptOf(atStart, Done + 1) = K \cup {h} /\ h \notin K
        /\ h.addr \in seen => KeptOf(atStart, Done + 1) = K
    BY <2>3, <2>4, <2>5, KeptNext
  <2>7. /\ h \in Recipient /\ Hits(rcpts, {h}) # 0
        /\ \A R : /\ Hits(rcpts, R) = Hits(Tail(rcpts), R) + One(h, R)
                  /\ Hits(rcpts, R) \in Nat /\ Hits(Tail(rcpts), R) \in Nat
                  /\ Hits(Now, R) \in Nat /\ One(h, R) \in {0, 1}
    BY <2>1, HeadHits
  <2> HIDE DEF h, K
  <2>8. CASE KeepFirst
    <3>1. h.addr \notin seen /\ seen' = seen \cup {h.addr} /\ Now' = Now
      BY <2>8, Quiet DEF KeepFirst, h
    <3>2. \A r : One(r, K \cup {h}) = One(r, K) + One(h, {r})
      BY <2>6, <3>1 DEF One
    <3>3. ASSUME NEW r \in Recipient
          PROVE  Hits(Now, {r}) = Hits(Tail(rcpts), {r}) + One(r, K \cup {h})
      <4>1. PICK q \in Nat, o \in {0, 1} : q = Hits(Tail(rcpts), {r}) /\ o = One(h, {r})
        BY <2>7
      <4>2. PICK k \in {0, 1} : k = One(r, K)
        BY DEF One
      <4>3. Hits(Now, {r}) = (q + o) + k
        BY <2>5, <2>7, <4>1, <4>2
      <4>4. One(r, K \cup {h}) = k + o
        BY <3>2, <4>1, <4>2
      <4> QED BY <4>1, <4>2, <4>3, <4>4
    <3> QED BY <2>1, <2>2, <2>6, <3>1, <3>3 DEF DupInv
  <2>9. CASE DropDuplicate
    <3>1. /\ h.addr \in seen /\ seen' = seen
          /\ files' = DelRecipientData(files, h)
      BY <2>9 DEF DropDuplicate, h
    <3>2. Hits(Now, {h}) # 0
      <4>1. PICK q \in Nat : q = Hits(rcpts, {h})
        BY <2>7
      <4>2. PICK k \in {0, 1} : k = One(h, K)
        BY DEF One
      <4>3. Hits(Now, {h}) = q + k
        BY <2>5, <2>7, <4>1, <4>2
      <4> QED BY <2>7, <4>1, <4>2, <4>3
    <3>3. \A R : Hits(Now, R) = Hits(Now', R) + One(h, R) /\ Hits(Now', R) \in Nat
      BY <2>1, <3>1, <3>2, Deletion DEF h
    <3>4. ASSUME NEW r \in Recipient
          PROVE  Hits(Now', {r}) = Hits(Tail(rcpts), {r}) + One(r, K)
      <4>1. PICK q \in Nat, o \in {0, 1} : q = Hits(Tail(rcpts), {r}) /\ o = One(h, {r})
        BY <2>7
      <4>2. PICK k \in {0, 1}, n \in Nat : k = One(r, K) /\ n = Hits(Now', {r})
        BY <3>3 DEF One
      <4>3. Hits(Now, {r}) = (q + o) + k
        BY <2>5, <2>7, <4>1, <4>2
      <4>4. Hits(Now, {r}) = n + o
        BY <3>3, <4>1, <4>2
      <4> QED BY <4>1, <4>2, <4>3, <4>4
    <3>5. seen \cup {h.addr} = seen
      BY <3>1
    <3> QED BY <2>1, <2>2, <2>6, <3>1, <3>4, <3>5 DEF DupInv
  <2> QED BY <1>3, <2>8, <2>9
<1> QED BY <1>1, <1>2, <1>3, Leading

\* The records of an address are counted with it.
LEMMA OneOf ==
  ASSUME NEW r \in Recipient, NEW a
  PROVE  One(r, Of(a)) = One(a, {r.addr})
BY DEF One, Of

LEMMA DsnStep == TypeInv /\ FilterInv /\ [Next]_vars => DsnInv'
<1> SUFFICES ASSUME TypeInv, FilterInv, [Next]_vars PROVE DsnInv'
  OBVIOUS
<1>0. RestInv /\ DsnInv
  BY DEF FilterInv
<1>1. CASE UNCHANGED vars
  <2>1. /\ Now' = Now /\ pc' = pc /\ rcpts' = rcpts /\ atStart' = atStart
    BY <1>1 DEF vars, filterVars, history, Now
  <2> QED BY <1>0, <2>1 DEF DsnInv, ToCome
<1>2. CASE StartNoSuccessDsn
  <2>1. /\ Now' = Now /\ rcpts' = Now /\ atStart' = Now /\ pc' = "dsn"
        /\ \A R : Hits(Now, R) \in Nat
    BY <1>2, Starting DEF StartNoSuccessDsn
  <2>2. \A r \in Recipient : Hits(Now, {r}) >= Hits(Now, {r})
    <3>1. ASSUME NEW r PROVE Hits(Now, {r}) >= Hits(Now, {r})
      <4>1. PICK n \in Nat : n = Hits(Now, {r})
        BY <2>1
      <4> QED BY <4>1
    <3> QED BY <3>1
  <2> QED BY <2>1, <2>2 DEF DsnInv, ToCome
<1> DEFINE h == Head(rcpts)
<1>3. CASE KeepDsn
  <2>1. /\ pc = "dsn" /\ rcpts # <<>> /\ rcpts' = Tail(rcpts) /\ pc' = "dsn"
        /\ Now' = Now /\ atStart' = atStart /\ "S" \notin h.dsn
    BY <1>3, Quiet DEF KeepDsn, At, NextRecipient, history
  <2>2. \A R : /\ Hits(rcpts, R) = Hits(Tail(rcpts), R) + One(h, R)
               /\ Hits(rcpts, R) \in Nat /\ Hits(Tail(rcpts), R) \in Nat
               /\ Hits(Now, R) \in Nat /\ One(h, R) \in {0, 1}
    BY <2>1, HeadHits
  <2>3. ToCome /\ \A a \in Addresses : Times(Now, a) = Times(atStart, a)
    BY <1>0, <2>1 DEF DsnInv
  <2> HIDE DEF h
  <2>4. ASSUME NEW r \in Recipient
        PROVE  /\ Hits(Now, {r}) >= Hits(Tail(rcpts), {r})
               /\ "S" \in r.dsn => Hits(Now, {r}) = Hits(Tail(rcpts), {r})
    <3>1. PICK q \in Nat, n \in Nat, o \in {0, 1} :
            q = Hits(Tail(rcpts), {r}) /\ n = Hits(Now, {r}) /\ o = One(h, {r})
      BY <2>2
    <3>2. Hits(rcpts, {r}) = q + o
      BY <2>2, <3>1
    <3>3. n >= q + o /\ ("S" \in r.dsn => n = q + o)
      BY <2>3, <3>1, <3>2 DEF ToCome
    <3>4. "S" \in r.dsn => o = 0
      BY <2>1, <3>1 DEF One
    <3>5. n >= q /\ ("S" \in r.dsn => n = q)
      BY <3>3, <3>4
    <3> QED BY <3>1, <3>5
  <2> QED BY <2>1, <2>3, <2>4 DEF DsnInv, ToCome
<1>4. CASE AddWithoutDsn
  <2> DEFINE new == [h EXCEPT !.dsn = {}]
  <2>1. /\ pc = "dsn" /\ rcpts # <<>> /\ rcpts' = rcpts /\ pc' = "dsnDel"
        /\ atStart' = atStart /\ "S" \in h.dsn /\ files' = AddRecipientData(files, new)
    BY <1>4 DEF AddWithoutDsn, At, history
  <2>2. h \in Recipient /\ \A R : Hits(rcpts, R) \in Nat /\ Hits(Now, R) \in Nat
    BY <2>1, HeadHits
  <2>3. ToCome /\ \A a \in Addresses : Times(Now, a) = Times(atStart, a)
    BY <1>0, <2>1 DEF DsnInv
  <2>4. new \in Recipient /\ new.addr = h.addr /\ new.dsn = {}
    BY <2>2, WithoutDsn
  <2> HIDE DEF h, new
  <2>5. \A R : Hits(Now', R) = Hits(Now, R) + One(new, R) /\ One(new, R) \in {0, 1}
    BY <2>1, <2>4, OneMore DEF One
  <2>6. ASSUME NEW r \in Recipient
        PROVE  /\ Hits(Now', {r}) >= Hits(rcpts, {r})
               /\ "S" \in r.dsn => Hits(Now', {r}) = Hits(rcpts, {r})
    <3>1. PICK q \in Nat, n \in Nat, o \in {0, 1} :
            q = Hits(rcpts, {r}) /\ n = Hits(Now, {r}) /\ o = One(new, {r})
      BY <2>2, <2>5
    <3>2. Hits(Now', {r}) = n + o
      BY <2>5, <3>1
    <3>3. n >= q /\ ("S" \in r.dsn => n = q)
      BY <2>3, <3>1 DEF ToCome
    <3>4. "S" \in r.dsn => o = 0
      BY <2>4, <3>1 DEF One
    <3>5. n + o >= q /\ ("S" \in r.dsn => n + o = q)
      BY <3>3, <3>4
    <3> QED BY <3>1, <3>2, <3>5
  <2>7. Now \in Seq(Recipient) /\ Now' \in Seq(Recipient)
    <3>1. Changes
      BY <2>1, <2>4 DEF Changes
    <3> QED BY <3>1, NowType, ListStep DEF Now
  <2>8. ASSUME NEW a \in Addresses
        PROVE  Times(Now', a) = Times(atStart, a) + One(a, {h.addr})
    <3>1. Times(Now', a) = Hits(Now', Of(a)) /\ Times(Now, a) = Hits(Now, Of(a))
      BY <2>7, TimesAreHits
    <3>2. One(new, Of(a)) = One(a, {h.addr})
      BY <2>4, OneOf
    <3>3. Hits(Now', Of(a)) = Hits(Now, Of(a)) + One(new, Of(a))
      BY <2>5
    <3> QED BY <2>3, <3>1, <3>2, <3>3
  <2> QED BY <2>1, <2>6, <2>8 DEF DsnInv, ToCome, h
<1>5. CASE DelWithDsn
  <2>1. /\ pc = "dsnDel" /\ rcpts # <<>> /\ rcpts' = Tail(rcpts) /\ pc' = "dsn"
        /\ atStart' = atStart /\ files' = DelRecipientData(files, h)
    BY <1>5 DEF DelWithDsn, At, NextRecipient, history
  <2>2. /\ h \in Recipient /\ Hits(rcpts, {h}) # 0
        /\ \A R : /\ Hits(rcpts, R) = Hits(Tail(rcpts), R) + One(h, R)
                  /\ Hits(rcpts, R) \in Nat /\ Hits(Tail(rcpts), R) \in Nat
                  /\ Hits(Now, R) \in Nat /\ One(h, R) \in {0, 1}
    BY <2>1, HeadHits
  <2>3. ToCome /\ \A a \in Addresses : Times(Now, a) = Times(atStart, a) + One(a, {h.addr})
    BY <1>0, <2>1 DEF DsnInv
  <2>4. Hits(Now, {h}) # 0
    <3>1. PICK n \in Nat, q \in Nat : n = Hits(Now, {h}) /\ q = Hits(rcpts, {h})
      BY <2>2
    <3>2. n >= q
      BY <2>2, <2>3, <3>1 DEF ToCome
    <3> QED BY <2>2, <3>1, <3>2
  <2>5. \A R : Hits(Now, R) = Hits(Now', R) + One(h, R) /\ Hits(Now', R) \in Nat
    BY <2>1, <2>4, Deletion
  <2>6. Now \in Seq(Recipient) /\ Now' \in Seq(Recipient) /\ atStart \in Seq(Recipient)
    <3>1. Changes
      BY <2>1, <2>2 DEF Changes, DelRecipientData
    <3>2. GetRecipientsData(files') \in Seq(Recipient)
      BY <3>1, ListStep
    <3> QED BY <3>2, NowType DEF Now, TypeInv, TypeOK
  <2> HIDE DEF h
  <2>7. ASSUME NEW r \in Recipient
        PROVE  /\ Hits(Now', {r}) >= Hits(Tail(rcpts), {r})
               /\ "S" \in r.dsn => Hits(Now', {r}) = Hits(Tail(rcpts), {r})
    <3>1. PICK q \in Nat, n \in Nat, o \in {0, 1} :
            q = Hits(Tail(rcpts), {r}) /\ n = Hits(Now', {r}) /\ o = One(h, {r})
      BY <2>2, <2>5
    <3>2. Hits(rcpts, {r}) = q + o /\ Hits(Now, {r}) = n + o
      BY <2>2, <2>5, <3>1
    <3>3. n + o >= q + o /\ ("S" \in r.dsn => n + o = q + o)
      BY <2>3, <3>2 DEF ToCome
    <3>4. n >= q /\ ("S" \in r.dsn => n = q)
      BY <3>3
    <3> QED BY <3>1, <3>4
  <2>8. ASSUME NEW a \in Addresses PROVE Times(Now', a) = Times(atStart, a)
    <3>1. /\ Times(Now', a) = Hits(Now', Of(a)) /\ Times(Now, a) = Hits(Now, Of(a))
          /\ Times(atStart, a) \in Nat
      BY <2>6, TimesAreHits
    <3>2. One(h, Of(a)) = One(a, {h.addr})
      BY <2>2, OneOf
    <3>3. PICK n \in Nat, m \in Nat, o \in {0, 1} :
            n = Hits(Now', Of(a)) /\ m = Times(atStart, a) /\ o = One(h, Of(a))
      BY <2>2, <2>5, <3>1
    <3>4. Hits(Now, Of(a)) = n + o /\ Times(Now, a) = m + o
      BY <2>3, <2>5, <3>2, <3>3
    <3>5. n = m
      BY <3>1, <3>4
    <3> QED BY <3>1, <3>3, <3>5
  <2> QED BY <2>1, <2>7, <2>8 DEF DsnInv, ToCome
<1>6. CASE pc' \notin {"dsn", "dsnDel"}
  BY <1>6 DEF DsnInv
<1> QED BY <1>1, <1>2, <1>3, <1>4, <1>5, <1>6, Leading

LEMMA QuarStep == TypeInv /\ FilterInv /\ [Next]_vars => QuarInv'
<1> SUFFICES ASSUME TypeInv, FilterInv, [Next]_vars PROVE QuarInv'
  OBVIOUS
<1>0. QuarInv
  BY DEF FilterInv
<1>1. CASE UNCHANGED vars
  <2>1. Now' = Now /\ pc' = pc /\ rcpts' = rcpts
    BY <1>1 DEF vars, filterVars, Now
  <2> QED BY <1>0, <2>1 DEF QuarInv
<1>2. CASE StartQuarantine
  <2>1. Now' = Now /\ rcpts' = Now /\ pc' = "quar"
    BY <1>2, Starting DEF StartQuarantine
  <2> QED BY <2>1 DEF QuarInv
<1>3. CASE SendNotice
  <2>1. pc = "notice" /\ rcpts' = Tail(rcpts) /\ pc' = "quar" /\ Now' = Now
    BY <1>3, Quiet DEF SendNotice, At, NextRecipient
  <2> QED BY <1>0, <2>1 DEF QuarInv
<1>4. CASE QuarantineDel
  <2> DEFINE h == Head(rcpts)
  <2>1. /\ pc = "quar" /\ rcpts # <<>> /\ rcpts' = rcpts /\ pc' = "notice"
        /\ files' = DelRecipientData(files, h)
    BY <1>4 DEF QuarantineDel, At
  <2>2. /\ h \in Recipient /\ Hits(rcpts, {h}) # 0
        /\ \A R : /\ Hits(rcpts, R) = Hits(Tail(rcpts), R) + One(h, R)
                  /\ Hits(Tail(rcpts), R) \in Nat /\ One(h, R) \in {0, 1}
    BY <2>1, HeadHits
  <2>3. \A r \in Recipient : Hits(Now, {r}) = Hits(rcpts, {r})
    BY <1>0, <2>1 DEF QuarInv
  <2>4. \A R : Hits(Now, R) = Hits(Now', R) + One(h, R) /\ Hits(Now', R) \in Nat
    BY <2>1, <2>2, <2>3, Deletion
  <2> HIDE DEF h
  <2>5. ASSUME NEW r \in Recipient PROVE Hits(Now', {r}) = Hits(Tail(rcpts), {r})
    <3>1. PICK q \in Nat, n \in Nat, o \in {0, 1} :
            q = Hits(Tail(rcpts), {r}) /\ n = Hits(Now', {r}) /\ o = One(h, {r})
      BY <2>2, <2>4
    <3>2. Hits(rcpts, {r}) = q + o /\ Hits(Now, {r}) = n + o
      BY <2>2, <2>4, <3>1
    <3>3. n = q
      BY <2>3, <3>1, <3>2
    <3> QED BY <3>1, <3>3
  <2> QED BY <2>1, <2>5 DEF QuarInv
<1>5. CASE pc' \notin {"quar", "notice"}
  BY <1>5 DEF QuarInv
<1> QED BY <1>1, <1>2, <1>3, <1>4, <1>5, Leading

LEMMA InitFilter == Init => FilterInv
<1> SUFFICES ASSUME Init PROVE FilterInv
  OBVIOUS
<1>1. pc = "idle" /\ ended = "none"
  BY DEF Init
<1> QED BY <1>1 DEF FilterInv, RestInv, DupInv, DsnInv, QuarInv, EndInv,
         FiltersKeepPromises, DuplicatesRemoved, SuccessDsnRemoved, QuarantineWithholds

LEMMA FilterStep == TypeInv /\ FilterInv /\ [Next]_vars => FilterInv'
BY RestStep, DupStep, DsnStep, QuarStep, EndStep DEF FilterInv

\* At every step of noduplicates and nosuccessdsn, and so at whatever access
\* one of them raises, and when they have returned, no address that was to
\* get the message is without a record of its own, and no other has one.
THEOREM NobodyIsLost == Spec => []NobodyLost
<1>1. TypeInv /\ FilterInv => NobodyLost
  <2> SUFFICES ASSUME TypeInv, FilterInv, pc \in {"dup", "dsn", "dsnDel"} \/ ended \in {"dup", "dsn"}
               PROVE  Addrs(Now) = Addrs(atStart)
    BY DEF NobodyLost
  <2>1. CASE pc = "dup"
    BY <2>1, DupAddrs DEF FilterInv
  <2>2. CASE pc \in {"dsn", "dsnDel"}
    BY <2>2, DsnAddrs DEF FilterInv
  <2>3. CASE ended \in {"dup", "dsn"}
    BY <2>3 DEF FilterInv, EndInv
  <2> QED BY <2>1, <2>2, <2>3
<1> QED BY <1>1, InitType, TypeStep, InitFilter, FilterStep, PTL DEF Spec

\* noduplicates leaves each address its first record, nosuccessdsn as many
\* records as there were and no request for success, quarantine() none: when
\* they return, and until the next filter starts.
THEOREM FiltersKeepTheirPromises == Spec => []FiltersKeepPromises
<1>1. FilterInv => FiltersKeepPromises
  BY DEF FilterInv, EndInv
<1> QED BY <1>1, InitType, TypeStep, InitFilter, FilterStep, PTL DEF Spec
=============================================================================
