---------------------------- MODULE SequenceLemmas ----------------------------
(***************************************************************************)
(* Facts about sequences, least elements and induction that the proofs of  *)
(* several modules use.                                                    *)
(***************************************************************************)
EXTENDS Integers, Sequences, FiniteSets, FiniteSetsExt, SequencesExt, TLAPS,
        FiniteSetTheorems, SequenceTheorems, WellFoundedInduction

\* No element occurs twice.
Distinct(s) == \A i, j \in DOMAIN s : s[i] = s[j] => i = j

\* Induction up to n, for a set of the numbers that satisfy the hypothesis.
LEMMA NatInduct ==
  ASSUME NEW n \in Nat, NEW T, 0 \in T, \A k \in 1..n : k - 1 \in T => k \in T
  PROVE  \A k \in 0..n : k \in T
<1> SUFFICES ASSUME NEW b \in 0..n, b \notin T PROVE FALSE
  OBVIOUS
<1> DEFINE B == {k \in Nat : k \in 0..n /\ k \notin T}
<1>1. B \subseteq Nat /\ B # {}
  OBVIOUS
<1> HIDE DEF B
<1>2. PICK x \in B : \A y \in B : ~(<<y, x>> \in OpToRel(<, Nat))
  BY <1>1, NatLessThanWellFounded, WFMin, Zenon
<1>3. \A y \in B : ~(y < x)
  BY <1>1, <1>2, Zenon DEF OpToRel
<1>4. x \in 0..n /\ x \notin T
  BY DEF B
<1>5. x # 0 /\ x - 1 \in 0..n /\ x \in 1..n
  BY <1>4
<1>6. x - 1 \in T
  BY <1>3, <1>4, <1>5 DEF B
<1> QED BY <1>4, <1>5, <1>6

\* A set of naturals has a least element.
LEMMA MinNat ==
  ASSUME NEW S, S \subseteq Nat, S # {}
  PROVE  Min(S) \in S /\ \A y \in S : Min(S) <= y
<1>1. PICK x \in S : \A y \in S : ~(<<y, x>> \in OpToRel(<, Nat))
  BY NatLessThanWellFounded, WFMin, Zenon
<1>2. \A y \in S : ~(y < x)
  BY <1>1, Zenon DEF OpToRel
<1>3. \A y \in S : x <= y
  BY <1>2
<1> QED BY <1>3 DEF Min

\* Append adds one element, at the end.
LEMMA AppendSet ==
  ASSUME NEW S, NEW s \in Seq(S), NEW e \in S
  PROVE  /\ Append(s, e) \in Seq(S)
         /\ ToSet(Append(s, e)) = ToSet(s) \cup {e}
         /\ Distinct(s) /\ e \notin ToSet(s) => Distinct(Append(s, e))
         /\ Append(s, e) # <<>> /\ Last(Append(s, e)) = e
<1>1. Append(s, e) \in Seq(S) /\ Len(Append(s, e)) = Len(s) + 1 /\ Len(s) \in Nat
      /\ DOMAIN s = 1..Len(s) /\ DOMAIN Append(s, e) = 1..(Len(s) + 1)
      /\ Append(s, e)[Len(s) + 1] = e /\ \A i \in 1..Len(s) : Append(s, e)[i] = s[i]
  OBVIOUS
<1>2. ToSet(Append(s, e)) = ToSet(s) \cup {e}
  <2>1. \A i \in 1..(Len(s) + 1) : i \in 1..Len(s) \/ i = Len(s) + 1
    BY <1>1
  <2>2. \A i \in 1..Len(s) : i \in 1..(Len(s) + 1)
    BY <1>1
  <2>3. Len(s) + 1 \in 1..(Len(s) + 1)
    BY <1>1
  <2> QED BY <1>1, <2>1, <2>2, <2>3 DEF ToSet
<1>3. ASSUME Distinct(s), e \notin ToSet(s) PROVE Distinct(Append(s, e))
  <2>1. \A i \in 1..Len(s) : s[i] # e
    BY <1>1, <1>3 DEF ToSet
  <2>2. \A i \in 1..(Len(s) + 1) : i \in 1..Len(s) \/ i = Len(s) + 1
    BY <1>1
  <2> QED BY <1>1, <1>3, <2>1, <2>2 DEF Distinct
<1> QED BY <1>1, <1>2, <1>3 DEF Last

\* Tail drops the first element and keeps the others in order.
LEMMA HeadTail ==
  ASSUME NEW S, NEW s \in Seq(S), s # <<>>
  PROVE  /\ Head(s) \in S /\ Head(s) \in ToSet(s) /\ Tail(s) \in Seq(S) /\ Len(Tail(s)) = Len(s) - 1
         /\ Len(s) \in Nat \ {0} /\ Head(s) = s[1] /\ 1 \in DOMAIN s
         /\ \A i \in DOMAIN Tail(s) : i + 1 \in DOMAIN s /\ Tail(s)[i] = s[i + 1]
         /\ ToSet(Tail(s)) \subseteq ToSet(s)
         /\ Distinct(s) => ToSet(Tail(s)) = ToSet(s) \ {Head(s)} /\ Distinct(Tail(s))
         /\ Tail(s) # <<>> => Last(Tail(s)) = Last(s)
<1>1. Len(s) \in Nat \ {0} /\ DOMAIN s = 1..Len(s) /\ Head(s) = s[1] /\ s[1] \in S
      /\ Tail(s) \in Seq(S) /\ Len(Tail(s)) = Len(s) - 1 /\ DOMAIN Tail(s) = 1..(Len(s) - 1)
      /\ \A i \in 1..(Len(s) - 1) : Tail(s)[i] = s[i + 1]
  OBVIOUS
<1>2. 1 \in DOMAIN s /\ \A i \in 1..(Len(s) - 1) : i + 1 \in 1..Len(s) /\ i + 1 # 1
  BY <1>1
<1>3. ToSet(Tail(s)) \subseteq ToSet(s)
  BY <1>1, <1>2 DEF ToSet
<1>4. ASSUME Distinct(s) PROVE ToSet(Tail(s)) = ToSet(s) \ {Head(s)} /\ Distinct(Tail(s))
  <2>1. \A i \in 1..Len(s) : i = 1 \/ (i - 1 \in 1..(Len(s) - 1) /\ (i - 1) + 1 = i)
    BY <1>1
  <2>2. \A i \in 1..(Len(s) - 1) : Tail(s)[i] # Head(s)
    BY <1>1, <1>2, <1>4 DEF Distinct
  <2>3. ToSet(s) \ {Head(s)} \subseteq ToSet(Tail(s))
    <3> SUFFICES ASSUME NEW i \in 1..Len(s), s[i] # s[1] PROVE s[i] \in ToSet(Tail(s))
      BY <1>1 DEF ToSet
    <3>1. i - 1 \in 1..(Len(s) - 1) /\ (i - 1) + 1 = i
      BY <2>1
    <3> QED BY <1>1, <3>1 DEF ToSet
  <2>4. ToSet(Tail(s)) \subseteq ToSet(s) \ {Head(s)}
    BY <1>1, <1>3, <2>2 DEF ToSet
  <2>5. Distinct(Tail(s))
    <3> SUFFICES ASSUME NEW i \in 1..(Len(s) - 1), NEW j \in 1..(Len(s) - 1), s[i + 1] = s[j + 1] PROVE i = j
      BY <1>1 DEF Distinct
    <3>1. i + 1 = j + 1
      BY <1>1, <1>2, <1>4 DEF Distinct
    <3> QED BY <3>1
  <2> QED BY <2>3, <2>4, <2>5
<1>5. Tail(s) # <<>> => Last(Tail(s)) = Last(s)
  <2>1. Tail(s) # <<>> => Len(s) - 1 \in 1..(Len(s) - 1) /\ (Len(s) - 1) + 1 = Len(s)
    BY <1>1
  <2> QED BY <1>1, <2>1 DEF Last
<1> QED BY <1>1, <1>2, <1>3, <1>4, <1>5 DEF ToSet

\* The elements of a sequence over S.
LEMMA SeqElement == \A S : \A s \in Seq(S) : \A i \in DOMAIN s : s[i] \in S
OBVIOUS

\* The empty sequence.
LEMMA EmptySet == Distinct(<<>>) /\ ToSet(<<>>) = {} /\ \A S : <<>> \in Seq(S)
BY DEF Distinct, ToSet

\* A sequence without repetition is as long as its set of elements is large.
LEMMA DistinctLen ==
  ASSUME NEW S, NEW s \in Seq(S), Distinct(s)
  PROVE  IsFiniteSet(ToSet(s)) /\ Cardinality(ToSet(s)) = Len(s)
<1>1. Len(s) \in Nat /\ DOMAIN s = 1..Len(s) /\ s \in [1..Len(s) -> S]
  OBVIOUS
<1>2. s \in [1..Len(s) -> ToSet(s)]
  BY <1>1 DEF ToSet
<1>3. s \in Bijection(1..Len(s), ToSet(s))
  <2>1. s \in Injection(1..Len(s), ToSet(s))
    BY <1>1, <1>2 DEF Injection, IsInjective, Distinct
  <2>2. s \in Surjection(1..Len(s), ToSet(s))
    BY <1>1, <1>2 DEF Surjection, ToSet
  <2> QED BY <2>1, <2>2 DEF Bijection
<1>4. IsFiniteSet(1..Len(s)) /\ Cardinality(1..Len(s)) = Len(s)
  BY <1>1, FS_Interval
<1> QED BY <1>3, <1>4, FS_Bijection DEF ExistsBijection
\* f goes from v on step by step.
StepByStep(f, V, n, v, step) ==
  f \in [0 .. n -> V] /\ f[0] = v /\ \A k \in 1 .. n : f[k] = step[<<k, f[k - 1]>>]

\* There is such a function, by induction up to n.
LEMMA RecursionExists ==
  \A V : \A n \in Nat : \A v \in V : \A step \in [(1 .. n) \X V -> V] : \E f : StepByStep(f, V, n, v, step)
<1> SUFFICES ASSUME NEW V, NEW n \in Nat, NEW v \in V, NEW step \in [(1 .. n) \X V -> V]
             PROVE  \E f : StepByStep(f, V, n, v, step)
  OBVIOUS
<1> DEFINE Upto(f, m) == /\ f \in [0 .. m -> V] /\ f[0] = v
                         /\ \A k \in 1 .. m : f[k] = step[<<k, f[k - 1]>>]
           T == {m \in 0 .. n : \E f : Upto(f, m)}
           zero == [k \in 0 .. 0 |-> v]
<1>1. 0 \in T
  <2>1. Upto(zero, 0)
    OBVIOUS
  <2>2. 0 \in 0 .. n
    OBVIOUS
  <2> HIDE DEF Upto, zero
  <2> QED BY <2>1, <2>2, Zenon
<1>2. ASSUME NEW m \in 1 .. n, m - 1 \in T PROVE m \in T
  <2>1. PICK f : Upto(f, m - 1)
    BY <1>2
  <2>2. f[m - 1] \in V /\ m \in Nat /\ m - 1 \in Nat
    BY <2>1
  <2>3. PICK w : w = step[<<m, f[m - 1]>>]
    OBVIOUS
  <2>4. w \in V
    BY <2>2, <2>3
  <2> DEFINE g == [k \in 0 .. m |-> IF k < m THEN f[k] ELSE w]
  <2>5. g \in [0 .. m -> V]
    <3>1. \A k \in 0 .. m : k < m => k \in 0 .. (m - 1)
      BY <2>2
    <3> QED BY <2>1, <2>4, <3>1
  <2>6. g[0] = v
    BY <2>1, <2>2
  <2>7. ASSUME NEW k \in 1 .. m PROVE g[k] = step[<<k, g[k - 1]>>]
    <3>1. k \in 0 .. m /\ k - 1 \in 0 .. m /\ k - 1 < m
      BY <2>2
    <3>2. g[k - 1] = f[k - 1]
      BY <3>1
    <3>3. CASE k < m
      <4>1. g[k] = f[k] /\ k \in 1 .. (m - 1)
        BY <2>2, <3>1, <3>3
      <4> HIDE DEF g
      <4> QED BY <2>1, <3>2, <4>1
    <3>4. CASE k = m
      <4>1. g[k] = w
        BY <2>2, <3>1, <3>4
      <4> HIDE DEF g
      <4> QED BY <2>3, <3>2, <3>4, <4>1
    <3> QED BY <2>2, <3>3, <3>4
  <2>8. Upto(g, m)
    <3> HIDE DEF g
    <3> QED BY <2>5, <2>6, <2>7
  <2>9. m \in 0 .. n
    OBVIOUS
  <2> HIDE DEF Upto, g
  <2> QED BY <2>8, <2>9, Zenon
<1> HIDE DEF T
<1>3. \A k \in 0 .. n : k \in T
  BY <1>1, <1>2, NatInduct
<1>4. n \in T
  BY <1>3
<1> QED BY <1>4 DEF T, StepByStep

\* A bounded set of naturals has a greatest element.
LEMMA MaxNat ==
  ASSUME NEW S, S \subseteq Nat, S # {}, NEW n \in Nat, \A y \in S : y <= n
  PROVE  Max(S) \in S /\ \A y \in S : y <= Max(S)
<1> DEFINE U == {n - y : y \in S}
<1>1. U \subseteq Nat /\ U # {}
  <2>1. \A y \in S : n - y \in Nat
    OBVIOUS
  <2> QED BY <2>1, Zenon
<1> HIDE DEF U
<1>2. Min(U) \in U /\ \A y \in U : Min(U) <= y
  BY <1>1, MinNat
<1>3. PICK x \in S : Min(U) = n - x
  BY <1>2 DEF U
<1>4. \A y \in S : n - x <= n - y
  BY <1>2, <1>3 DEF U
<1>5. \A y \in S : x >= y
  BY <1>4
<1>6. PICK z : z = Max(S)
  OBVIOUS
<1>7. z \in S /\ \A y \in S : z >= y
  BY <1>5, <1>6 DEF Max
<1> QED BY <1>6, <1>7

\* new is list with e put in at place i.
Inserted(S, list, new, i, e) ==
  /\ new \in Seq(S) /\ i \in 1 .. (Len(list) + 1) /\ Len(new) = Len(list) + 1
  /\ new[i] = e
  /\ \A k \in 1 .. (i - 1) : new[k] = list[k]
  /\ \A k \in i .. Len(list) : new[k + 1] = list[k]

\* InsertAt, and Append at the end.
LEMMA InsertAtIs ==
  ASSUME NEW S, NEW list \in Seq(S), NEW e \in S
  PROVE  /\ \A i \in 1 .. Len(list) : Inserted(S, list, InsertAt(list, i, e), i, e)
         /\ Inserted(S, list, Append(list, e), Len(list) + 1, e)
<1>1. ASSUME NEW i \in 1 .. Len(list) PROVE Inserted(S, list, InsertAt(list, i, e), i, e)
  <2> DEFINE a == SubSeq(list, 1, i - 1)
             b == SubSeq(list, i, Len(list))
             c == a \o <<e>>
  <2>1. PICK n : n = Len(list) /\ n \in Nat /\ i \in 1 .. n
    OBVIOUS
  <2>2. a \in Seq(S) /\ Len(a) = i - 1 /\ \A k \in 1 .. (i - 1) : a[k] = list[k]
    BY <2>1
  <2>3. b \in Seq(S) /\ Len(b) = n - i + 1 /\ \A k \in 1 .. (n - i + 1) : b[k] = list[i + k - 1]
    BY <2>1
  <2>4. InsertAt(list, i, e) = c \o b
    BY Zenon DEF InsertAt
  <2> HIDE DEF a, b
  <2>5. PICK s : s = <<e>>
    OBVIOUS
  <2>5a. s \in Seq(S) /\ Len(s) = 1 /\ s[1] = e
    BY <2>5
  <2>6. /\ c \in Seq(S) /\ Len(c) = Len(a) + Len(s)
        /\ \A k \in 1 .. Len(a) + Len(s) : c[k] = IF k <= Len(a) THEN a[k] ELSE s[k - Len(a)]
    BY <2>2, <2>5, <2>5a, ConcatProperties, Zenon
  <2>7. c \in Seq(S) /\ Len(c) = i /\ c[i] = e /\ \A k \in 1 .. (i - 1) : c[k] = list[k]
    <3>1. Len(a) + Len(s) = i
      BY <2>1, <2>2, <2>5a
    <3>2. i \in 1 .. i /\ ~(i <= Len(a)) /\ i - Len(a) = 1
      BY <2>1, <2>2
    <3>3. \A k \in 1 .. (i - 1) : k \in 1 .. i /\ k <= Len(a)
      BY <2>1, <2>2
    <3> HIDE DEF c
    <3>4. \A k \in 1 .. i : c[k] = IF k <= Len(a) THEN a[k] ELSE s[k - Len(a)]
      BY <2>6, <3>1
    <3>5. c[i] = e
      BY <2>5a, <3>2, <3>4
    <3> QED BY <2>2, <2>6, <3>1, <3>3, <3>4, <3>5
  <2> HIDE DEF c
  <2>8. PICK t : t = c \o b
    OBVIOUS
  <2>9. /\ t \in Seq(S) /\ Len(t) = Len(c) + Len(b)
        /\ \A k \in 1 .. Len(c) + Len(b) : t[k] = IF k <= Len(c) THEN c[k] ELSE b[k - Len(c)]
    BY <2>3, <2>7, <2>8, ConcatProperties, Zenon
  <2>10. Len(c) + Len(b) = n + 1
    BY <2>1, <2>3, <2>7
  <2>11. \A k \in 1 .. (n + 1) : t[k] = IF k <= i THEN c[k] ELSE b[k - i]
    BY <2>7, <2>9, <2>10
  <2>12. t[i] = e
    <3>1. i \in 1 .. (n + 1) /\ i <= i
      BY <2>1
    <3> QED BY <2>7, <2>11, <3>1
  <2>13. ASSUME NEW k \in 1 .. (i - 1) PROVE t[k] = list[k]
    <3>1. k \in 1 .. (n + 1) /\ k <= i
      BY <2>1
    <3> QED BY <2>7, <2>11, <3>1
  <2>14. ASSUME NEW k \in i .. n PROVE t[k + 1] = list[k]
    <3>1. k + 1 \in 1 .. (n + 1) /\ ~(k + 1 <= i) /\ (k + 1) - i \in 1 .. (n - i + 1) /\ i + ((k + 1) - i) - 1 = k
      BY <2>1
    <3>2. t[k + 1] = b[(k + 1) - i]
      BY <2>11, <3>1
    <3>3. b[(k + 1) - i] = list[i + ((k + 1) - i) - 1]
      BY <2>3, <3>1
    <3> QED BY <3>1, <3>2, <3>3
  <2>15. i \in 1 .. (n + 1) /\ Len(t) = n + 1
    BY <2>1, <2>9, <2>10
  <2> QED BY <2>1, <2>4, <2>8, <2>9, <2>12, <2>13, <2>14, <2>15 DEF Inserted
<1>2. Inserted(S, list, Append(list, e), Len(list) + 1, e)
  BY DEF Inserted
<1> QED BY <1>1, <1>2

\* The place of an old entry in the new list.
Moved(k, i) == IF k < i THEN k ELSE k + 1

\* The old entries are all there, in their order.
LEMMA InsertedIs ==
  ASSUME NEW S, NEW list \in Seq(S), NEW new, NEW i, NEW e, Inserted(S, list, new, i, e)
  PROVE  /\ i \in DOMAIN new
         /\ \A k \in DOMAIN list : Moved(k, i) \in DOMAIN new /\ new[Moved(k, i)] = list[k]
         /\ \A k \in DOMAIN new : k # i => \E j \in DOMAIN list : k = Moved(j, i) /\ new[k] = list[j]
         /\ \A k, j \in DOMAIN list : Moved(k, i) <= Moved(j, i) <=> k <= j
<1>1. PICK n : n = Len(list) /\ n \in Nat /\ DOMAIN list = 1 .. n
  OBVIOUS
<1>2. new \in Seq(S) /\ Len(new) = n + 1 /\ DOMAIN new = 1 .. (n + 1) /\ i \in 1 .. (n + 1)
  BY <1>1 DEF Inserted
<1>3. ASSUME NEW k \in 1 .. n PROVE Moved(k, i) \in 1 .. (n + 1) /\ new[Moved(k, i)] = list[k]
  <2>1. CASE k < i
    <3>1. k \in 1 .. (i - 1) /\ Moved(k, i) = k /\ k \in 1 .. (n + 1)
      BY <1>1, <1>2, <2>1 DEF Moved
    <3> QED BY <3>1 DEF Inserted
  <2>2. CASE ~(k < i)
    <3>1. k \in i .. n /\ Moved(k, i) = k + 1 /\ k + 1 \in 1 .. (n + 1)
      BY <1>1, <1>2, <2>2 DEF Moved
    <3> QED BY <1>1, <3>1 DEF Inserted
  <2> QED BY <2>1, <2>2
<1>4. ASSUME NEW k \in 1 .. (n + 1), k # i PROVE \E j \in 1 .. n : k = Moved(j, i) /\ new[k] = list[j]
  <2>1. CASE k < i
    <3>1. k \in 1 .. n /\ k = Moved(k, i)
      BY <1>1, <1>2, <2>1 DEF Moved
    <3> QED BY <1>3, <3>1
  <2>2. CASE ~(k < i)
    <3>1. k - 1 \in 1 .. n /\ k = Moved(k - 1, i)
      BY <1>1, <1>2, <1>4, <2>2 DEF Moved
    <3> QED BY <1>3, <3>1
  <2> QED BY <2>1, <2>2
<1>5. \A k, j \in 1 .. n : Moved(k, i) <= Moved(j, i) <=> k <= j
  BY <1>1, <1>2 DEF Moved
<1> QED BY <1>1, <1>2, <1>3, <1>4, <1>5
=============================================================================
