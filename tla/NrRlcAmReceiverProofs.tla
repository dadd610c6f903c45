------------------------- MODULE NrRlcAmReceiverProofs -------------------------
(***************************************************************************)
(* Proofs about NrRlcAmReceiver, for every SN length, all sizes of SDUs,   *)
(* every number of SDUs and whatever segments arrive in whatever order.    *)
(*                                                                         *)
(* The model keeps SNs, as the code does.  The proofs count SDUs without   *)
(* the modulus: B is the first SDU not delivered (RX_Next), H the one at   *)
(* RX_Highest_Status, M the one at RX_Next_Highest and D the set of all    *)
(* SDUs delivered.                                                         *)
(***************************************************************************)
EXTENDS NrRlcAmReceiver, SequenceLemmas, SequenceTheorems

---------------------------------------------------------------------------
(* SNs and the numbers they stand for.                                     *)

W == SnCount \div 2

\* The window is half of the SNs.
LEMMA HalfWindow == SnCount = 2 * W /\ W \in Nat /\ W >= 2 /\ SnCount \in Nat \ {0} /\ R!WindowSize = W
BY ReceiverAssumption DEF W, R!WindowSize

\* A remainder is known by its quotient.
LEMMA Remainder ==
  ASSUME NEW n \in Nat \ {0}, NEW z \in Int, NEW q \in Int, NEW p \in 0 .. (n - 1), z = n * q + p
  PROVE  z % n = p
<1>1. PICK a, b : a = z \div n /\ b = z % n
  OBVIOUS
<1>2. a \in Int /\ b \in 0 .. (n - 1) /\ z = n * a + b
  BY <1>1
<1>3. PICK c : c = a - q
  OBVIOUS
<1>4. c \in Int /\ n * c = p - b
  BY <1>2, <1>3
<1>5. c >= 1 => n * c >= n
  BY <1>4
<1>6. c <= -1 => n * c <= -n
  BY <1>4
<1>7. c = 0
  BY <1>2, <1>4, <1>5, <1>6
<1> QED BY <1>1, <1>2, <1>4, <1>7

\* The quotient of a number.
LEMMA Quotient ==
  ASSUME NEW n \in Nat \ {0}, NEW z \in Int
  PROVE  \E q \in Int : z = n * q + (z % n) /\ z % n \in 0 .. (n - 1)
<1>1. z \div n \in Int /\ z % n \in 0 .. (n - 1) /\ z = n * (z \div n) + (z % n)
  OBVIOUS
<1> QED BY <1>1

\* The distance of two SNs is that of the numbers.
LEMMA Distance ==
  ASSUME NEW x \in Nat, NEW b \in Nat, NEW k \in Int, NEW d \in 0 .. (SnCount - 1), x - b = SnCount * k + d
  PROVE  ((x % SnCount) - (b % SnCount)) % SnCount = d
<1> DEFINE n == SnCount
<1>1. n \in Nat \ {0}
  BY HalfWindow
<1> HIDE DEF n
<1>2. PICK q \in Int : x = n * q + (x % n) /\ x % n \in 0 .. (n - 1)
  <2>1. x \in Int
    OBVIOUS
  <2> QED BY <1>1, <2>1, Quotient, Zenon
<1>3. PICK p \in Int : b = n * p + (b % n) /\ b % n \in 0 .. (n - 1)
  <2>1. b \in Int
    OBVIOUS
  <2> QED BY <1>1, <2>1, Quotient, Zenon
<1>4. PICK y, a : y = x % n /\ a = b % n
  OBVIOUS
<1>5. PICK z : z = k - q + p
  OBVIOUS
<1>6. z \in Int /\ n * z = n * k - n * q + n * p
  BY <1>1, <1>5
<1>7. y \in Int /\ a \in Int /\ y - a = n * z + d
  <2>1. PICK u, v, t, s : u = n * q /\ v = n * p /\ t = n * k /\ s = n * z
    OBVIOUS
  <2>2. u \in Int /\ v \in Int /\ t \in Int /\ s = t - u + v /\ x - b = t + d
    BY <1>1, <1>6, <2>1 DEF n
  <2>3. x = u + y /\ b = v + a /\ y \in Int /\ a \in Int
    BY <1>1, <1>2, <1>3, <1>4, <2>1
  <2>4. d \in Int
    BY <1>1 DEF n
  <2>5. y - a = s + d
    BY <2>2, <2>3, <2>4
  <2> QED BY <2>1, <2>3, <2>5, Zenon
<1>8. (y - a) % n = d
  BY <1>1, <1>6, <1>7, Remainder DEF n
<1> QED BY <1>4, <1>8 DEF n

\* The place of a number less than a period ahead of RX_Next.
LEMMA Ahead1 ==
  ASSUME NEW r, NEW b \in Nat, r.rx_next = b % SnCount, NEW x \in Nat, b <= x, x < b + SnCount
  PROVE  R!modulus_rx(r, x % SnCount) = x - b
<1>1. x - b = SnCount * 0 + (x - b) /\ x - b \in 0 .. (SnCount - 1)
  BY HalfWindow
<1>2. ((x % SnCount) - (b % SnCount)) % SnCount = x - b
  BY <1>1, Distance
<1> QED BY <1>2 DEF R!modulus_rx

\* The place of a number less than a period behind RX_Next.
LEMMA Behind1 ==
  ASSUME NEW r, NEW b \in Nat, r.rx_next = b % SnCount, NEW x \in Nat, b - SnCount <= x, x < b
  PROVE  R!modulus_rx(r, x % SnCount) = x - b + SnCount
<1>1. x - b = SnCount * (-1) + (x - b + SnCount) /\ x - b + SnCount \in 0 .. (SnCount - 1)
  BY HalfWindow
<1>2. ((x % SnCount) - (b % SnCount)) % SnCount = x - b + SnCount
  BY <1>1, Distance
<1> QED BY <1>2 DEF R!modulus_rx

\* An SN and a number.
LEMMA PlusIs ==
  ASSUME NEW x \in Nat, NEW k \in Nat
  PROVE  R!Plus(x % SnCount, k) = (x + k) % SnCount
<1> DEFINE n == SnCount
<1>1. n \in Nat \ {0}
  BY HalfWindow
<1> HIDE DEF n
<1>2. PICK q \in Int : x = n * q + (x % n) /\ x % n \in 0 .. (n - 1)
  <2>1. x \in Int
    OBVIOUS
  <2> QED BY <1>1, <2>1, Quotient, Zenon
<1>3. PICK y : y = x % n
  OBVIOUS
<1>4. PICK p \in Int : y + k = n * p + ((y + k) % n) /\ (y + k) % n \in 0 .. (n - 1)
  <2>1. y + k \in Int
    BY <1>1, <1>2, <1>3
  <2> QED BY <1>1, <2>1, Quotient, Zenon
<1>5. PICK z : z = (y + k) % n
  OBVIOUS
<1>6. PICK w : w = q + p
  OBVIOUS
<1>7. w \in Int /\ n * w = n * q + n * p
  BY <1>1, <1>6
<1>8. x + k = n * w + z /\ z \in 0 .. (n - 1) /\ x + k \in Int
  <2>1. PICK u, v, t : u = n * q /\ v = n * p /\ t = n * w
    OBVIOUS
  <2>2. u \in Int /\ v \in Int /\ t = u + v
    BY <1>1, <1>7, <2>1
  <2>3. x = u + y /\ y + k = v + z /\ y \in Int /\ z \in 0 .. (n - 1) /\ z \in Int
    BY <1>1, <1>2, <1>3, <1>4, <1>5, <2>1
  <2>4. x + k = t + z /\ x + k \in Int
    BY <2>2, <2>3
  <2> QED BY <2>1, <2>3, <2>4, Zenon
<1>9. (x + k) % n = z
  BY <1>1, <1>7, <1>8, Remainder
<1> QED BY <1>3, <1>5, <1>9 DEF n, R!Plus

\* Numbers less than a period apart have the same SN only if they are the same.
LEMMA SameSn ==
  ASSUME NEW x \in Nat, NEW y \in Nat, x - y < SnCount, y - x < SnCount, x % SnCount = y % SnCount
  PROVE  x = y
<1> DEFINE n == SnCount
<1>1. n \in Nat \ {0}
  BY HalfWindow
<1> HIDE DEF n
<1>2. PICK q \in Int : x = n * q + (x % n) /\ x % n \in 0 .. (n - 1)
  <2>1. x \in Int
    OBVIOUS
  <2> QED BY <1>1, <2>1, Quotient, Zenon
<1>3. PICK p \in Int : y = n * p + (y % n) /\ y % n \in 0 .. (n - 1)
  <2>1. y \in Int
    OBVIOUS
  <2> QED BY <1>1, <2>1, Quotient, Zenon
<1>4. PICK c : c = q - p
  OBVIOUS
<1>5. c \in Int /\ n * c = n * q - n * p
  BY <1>1, <1>4
<1>6. n * c = x - y
  BY <1>1, <1>2, <1>3, <1>5 DEF n
<1>7. c >= 1 => n * c >= n
  BY <1>1, <1>5
<1>8. c <= -1 => n * c <= -n
  BY <1>1, <1>5
<1>9. c = 0
  BY <1>1, <1>5, <1>6, <1>7, <1>8 DEF n
<1> QED BY <1>1, <1>6, <1>9

\* SNs are numbers below the modulus.
LEMMA SnIs == \A x \in Nat : x % SnCount \in Sns /\ x % SnCount \in Nat /\ (x % SnCount) % SnCount = x % SnCount
<1> SUFFICES ASSUME NEW x \in Nat
             PROVE  x % SnCount \in Sns /\ x % SnCount \in Nat /\ (x % SnCount) % SnCount = x % SnCount
  OBVIOUS
<1>1. SnCount \in Nat \ {0}
  BY HalfWindow
<1>2. x % SnCount \in 0 .. (SnCount - 1)
  BY <1>1
<1>3. PICK y : y = x % SnCount
  OBVIOUS
<1>4. y % SnCount = y
  BY <1>1, <1>2, <1>3
<1> QED BY <1>2, <1>3, <1>4 DEF Sns

\* An SDU has some bytes, as many as the SN says.
LEMMA SizeOfIs == \A x \in Nat : SizeOf(x) \in Nat \ {0} /\ SizeOf(x) <= SduSize /\ SizeOf(x % SnCount) = SizeOf(x)
<1> SUFFICES ASSUME NEW x \in Nat
             PROVE  SizeOf(x) \in Nat \ {0} /\ SizeOf(x) <= SduSize /\ SizeOf(x % SnCount) = SizeOf(x)
  OBVIOUS
<1>1. SduSize \in Nat \ {0}
  BY ReceiverAssumption
<1>2. SizeOf(x % SnCount) = SizeOf(x)
  BY SnIs DEF SizeOf
<1> QED BY <1>1, <1>2 DEF SizeOf

---------------------------------------------------------------------------
(* The walks through the list, entry by entry.                             *)

\* The entries of rx_list.
Entry == [sn : Sns, so : Nat, size : Nat \ {0}, first : BOOLEAN, last : BOOLEAN, id : Nat, data : BOOLEAN]

\* Their fields.
LEMMA EntryIs ==
  ASSUME NEW list \in Seq(Entry)
  PROVE  /\ Len(list) \in Nat /\ DOMAIN list = 1 .. Len(list)
         /\ \A i \in 1 .. Len(list) :
              /\ list[i] \in Entry /\ list[i].sn \in Sns /\ list[i].so \in Nat /\ list[i].size \in Nat \ {0}
              /\ list[i].id \in Nat /\ list[i].data \in BOOLEAN /\ list[i].last \in BOOLEAN
              /\ list[i].first \in BOOLEAN
              /\ R!End(list[i]) = list[i].so + list[i].size /\ R!End(list[i]) \in Nat
<1>1. Len(list) \in Nat /\ DOMAIN list = 1 .. Len(list)
  OBVIOUS
<1>2. \A i \in 1 .. Len(list) : list[i] \in Entry
  BY <1>1, SeqElement, Zenon
<1>3. \A e \in Entry : /\ e.sn \in Sns /\ e.so \in Nat /\ e.size \in Nat \ {0} /\ e.id \in Nat
                       /\ e.data \in BOOLEAN /\ e.last \in BOOLEAN /\ e.first \in BOOLEAN
                       /\ R!End(e) = e.so + e.size /\ R!End(e) \in Nat
  BY DEF Entry, R!End
<1> QED BY <1>1, <1>2, <1>3, Zenon

\* What segment_already_received has left after the first k entries.
Part == [so : Int, size : Int]
LeftStep(list, sn, f, k) == IF list[k].sn = sn THEN R!Uncovered(f, list[k]) ELSE f
LeftBy(list, sn, so, size, f) ==
  /\ f \in [0 .. Len(list) -> Part] /\ f[0] = [so |-> so, size |-> size]
  /\ \A k \in 1 .. Len(list) : f[k] = LeftStep(list, sn, f[k - 1], k)

\* A part stays a part.
LEMMA UncoveredIs == \A q \in Part : \A e \in Entry : R!Uncovered(q, e) \in Part
BY DEF Part, Entry, R!Uncovered, R!End

\* That function exists.
LEMMA LeftExists ==
  ASSUME NEW r, r.rx_list \in Seq(Entry), NEW sn, NEW so \in Int, NEW size \in Int
  PROVE  \E f : /\ LeftBy(r.rx_list, sn, so, size, f)
                /\ R!segment_already_received(r, sn, so, size) <=> f[Len(r.rx_list)].size <= 0
<1> DEFINE list == r.rx_list
           n == Len(list)
           p0 == [so |-> so, size |-> size]
           Body(g) == [i \in 0 .. Len(list) |-> IF i = 0 THEN p0 ELSE IF list[i].sn = sn
                                            THEN R!Uncovered(g[i - 1], list[i]) ELSE g[i - 1]]
           left == CHOOSE g : g = Body(g)
<1>1. R!segment_already_received(r, sn, so, size) <=> left[n].size <= 0
  BY Zenon DEF R!segment_already_received
<1>2. n \in Nat /\ \A i \in 1 .. n : list[i] \in Entry
  BY EntryIs
<1>3. p0 \in Part
  BY DEF Part
<1> DEFINE step == [x \in (1 .. n) \X Part |-> LeftStep(list, sn, x[2], x[1])]
<1>4. step \in [(1 .. n) \X Part -> Part]
  <2>1. ASSUME NEW x \in (1 .. n) \X Part PROVE LeftStep(list, sn, x[2], x[1]) \in Part
    <3>1. x[1] \in 1 .. n /\ x[2] \in Part
      OBVIOUS
    <3> QED BY <1>2, <3>1, UncoveredIs, Zenon DEF LeftStep
  <2> QED BY <2>1
<1>5. \A i \in 1 .. n : \A q \in Part : step[<<i, q>>] = LeftStep(list, sn, q, i)
  OBVIOUS
<1> HIDE DEF step
<1>6. PICK f : f \in [0 .. n -> Part] /\ f[0] = p0 /\ \A k \in 1 .. n : f[k] = step[<<k, f[k - 1]>>]
  <2>1. n \in Nat
    BY <1>2
  <2> HIDE DEF n, p0
  <2>2. \E f : StepByStep(f, Part, n, p0, step)
    BY <1>3, <1>4, <2>1, RecursionExists, Zenon
  <2> QED BY <2>2, Zenon DEF StepByStep
<1>7. \A i \in 0 .. n : f[i] = Body(f)[i]
  <2> SUFFICES ASSUME NEW i \in 0 .. n PROVE f[i] = Body(f)[i]
    OBVIOUS
  <2>1. CASE i = 0
    BY <1>6, <2>1
  <2>2. CASE i # 0
    <3>1. i \in 1 .. n /\ i - 1 \in 0 .. n
      BY <1>2, <2>2
    <3>2. f[i - 1] \in Part
      BY <1>6, <3>1
    <3>3. f[i] = LeftStep(list, sn, f[i - 1], i)
      BY <1>5, <1>6, <3>1, <3>2
    <3> QED BY <2>2, <3>3 DEF LeftStep
  <2> QED BY <2>1, <2>2
<1>8. f = Body(f)
  <2>1. DOMAIN Body(f) = 0 .. n /\ Body(f) = [i \in 0 .. n |-> Body(f)[i]] /\ f = [i \in 0 .. n |-> f[i]]
    BY <1>6
  <2> HIDE DEF Body
  <2> QED BY <1>7, <2>1
<1>9. left = Body(left)
  <2> HIDE DEF Body
  <2> QED BY <1>8, Zenon
<1> HIDE DEF left
<1>10. left[0] = p0 /\ \A k \in 1 .. n : left[k] = LeftStep(list, sn, left[k - 1], k)
  <2>1. ASSUME NEW i \in 0 .. n
        PROVE  left[i] = IF i = 0 THEN p0 ELSE IF list[i].sn = sn THEN R!Uncovered(left[i - 1], list[i]) ELSE left[i - 1]
    BY <1>9
  <2>2. 0 \in 0 .. n /\ \A k \in 1 .. n : k \in 0 .. n /\ k # 0
    BY <1>2
  <2> QED BY <2>1, <2>2 DEF LeftStep
<1> DEFINE T == {k \in 0 .. n : left[k] \in Part}
<1>11. 0 \in T
  BY <1>2, <1>3, <1>10
<1>12. ASSUME NEW k \in 1 .. n, k - 1 \in T PROVE k \in T
  <2>1. left[k - 1] \in Part /\ k \in 0 .. n
    BY <1>2, <1>12
  <2>2. LeftStep(list, sn, left[k - 1], k) \in Part
    BY <1>2, <2>1, UncoveredIs, Zenon DEF LeftStep
  <2> QED BY <1>10, <2>1, <2>2
<1>13. \A k \in 0 .. n : k \in T
  <2> HIDE DEF T, n
  <2> QED BY <1>2, <1>11, <1>12, NatInduct
<1>14. left \in [0 .. n -> Part]
  <2>1. left = [i \in 0 .. n |-> left[i]]
    BY <1>9
  <2> QED BY <1>13, <2>1
<1> QED BY <1>1, <1>10, <1>14, Zenon DEF LeftBy

\* f[k] is the size of those of the first k entries that are at the places.
SumStep(list, places, f, k) == IF k \in places THEN f + list[k].size ELSE f
SumBy(list, places, f) ==
  /\ f \in [0 .. Len(list) -> Nat] /\ f[0] = 0
  /\ \A k \in 1 .. Len(list) : f[k] = SumStep(list, places, f[k - 1], k)

\* That function exists.
LEMMA SumExists ==
  ASSUME NEW list \in Seq(Entry), NEW places
  PROVE  \E f : SumBy(list, places, f) /\ R!SizeAt(list, places) = f[Len(list)]
<1> DEFINE n == Len(list)
           Body(g) == [i \in 0 .. Len(list) |-> IF i = 0 THEN 0 ELSE IF i \in places
                                            THEN g[i - 1] + list[i].size ELSE g[i - 1]]
           sum == CHOOSE g : g = Body(g)
<1>1. R!SizeAt(list, places) = sum[n]
  BY Zenon DEF R!SizeAt
<1>2. n \in Nat /\ \A i \in 1 .. n : list[i].size \in Nat
  BY EntryIs
<1> DEFINE step == [x \in (1 .. n) \X Nat |-> SumStep(list, places, x[2], x[1])]
<1>3. \A i \in 1 .. n : \A q \in Nat : SumStep(list, places, q, i) \in Nat
  BY <1>2 DEF SumStep
<1>4. step \in [(1 .. n) \X Nat -> Nat]
  <2>1. ASSUME NEW x \in (1 .. n) \X Nat PROVE SumStep(list, places, x[2], x[1]) \in Nat
    <3>1. x[1] \in 1 .. n /\ x[2] \in Nat
      OBVIOUS
    <3> QED BY <1>3, <3>1, Zenon
  <2> QED BY <2>1
<1>5. \A i \in 1 .. n : \A q \in Nat : step[<<i, q>>] = SumStep(list, places, q, i)
  OBVIOUS
<1> HIDE DEF step
<1>6. PICK f : f \in [0 .. n -> Nat] /\ f[0] = 0 /\ \A k \in 1 .. n : f[k] = step[<<k, f[k - 1]>>]
  <2>1. n \in Nat /\ 0 \in Nat
    BY <1>2
  <2> HIDE DEF n
  <2>2. \E f : StepByStep(f, Nat, n, 0, step)
    BY <1>4, <2>1, RecursionExists, Zenon
  <2> QED BY <2>2, Zenon DEF StepByStep
<1>7. \A i \in 0 .. n : f[i] = Body(f)[i]
  <2> SUFFICES ASSUME NEW i \in 0 .. n PROVE f[i] = Body(f)[i]
    OBVIOUS
  <2>1. CASE i = 0
    BY <1>6, <2>1
  <2>2. CASE i # 0
    <3>1. i \in 1 .. n /\ i - 1 \in 0 .. n
      BY <1>2, <2>2
    <3>2. f[i - 1] \in Nat
      BY <1>6, <3>1
    <3>3. f[i] = SumStep(list, places, f[i - 1], i)
      BY <1>5, <1>6, <3>1, <3>2
    <3> QED BY <2>2, <3>3 DEF SumStep
  <2> QED BY <2>1, <2>2
<1>8. f = Body(f)
  <2>1. DOMAIN Body(f) = 0 .. n /\ Body(f) = [i \in 0 .. n |-> Body(f)[i]] /\ f = [i \in 0 .. n |-> f[i]]
    BY <1>6
  <2> HIDE DEF Body
  <2> QED BY <1>7, <2>1
<1>9. sum = Body(sum)
  <2> HIDE DEF Body
  <2> QED BY <1>8, Zenon
<1> HIDE DEF sum
<1>10. sum[0] = 0 /\ \A k \in 1 .. n : sum[k] = SumStep(list, places, sum[k - 1], k)
  <2>1. ASSUME NEW i \in 0 .. n
        PROVE  sum[i] = IF i = 0 THEN 0 ELSE IF i \in places THEN sum[i - 1] + list[i].size ELSE sum[i - 1]
    BY <1>9
  <2>2. 0 \in 0 .. n /\ \A k \in 1 .. n : k \in 0 .. n /\ k # 0
    BY <1>2
  <2> QED BY <2>1, <2>2 DEF SumStep
<1> DEFINE T == {k \in 0 .. n : sum[k] \in Nat}
<1>11. 0 \in T
  BY <1>2, <1>10
<1>12. ASSUME NEW k \in 1 .. n, k - 1 \in T PROVE k \in T
  <2>1. sum[k - 1] \in Nat /\ k \in 0 .. n
    BY <1>2, <1>12
  <2>2. SumStep(list, places, sum[k - 1], k) \in Nat
    BY <1>3, <2>1, Zenon
  <2> QED BY <1>10, <2>1, <2>2
<1>13. \A k \in 0 .. n : k \in T
  <2> HIDE DEF T, n
  <2> QED BY <1>2, <1>11, <1>12, NatInduct
<1>14. sum \in [0 .. n -> Nat]
  <2>1. sum = [i \in 0 .. n |-> sum[i]]
    BY <1>9
  <2> QED BY <1>13, <2>1
<1> QED BY <1>1, <1>10, <1>14, Zenon DEF SumBy

\* f[k] are the bytes that the first k entries make.
ByteSeq == Seq(Nat \X Int)
CopyStep(list, sn, f, k) == IF list[k].sn = sn THEN R!CopyBytes(f, list[k]) ELSE f
CopyBy(list, sn, f) ==
  /\ f \in [0 .. Len(list) -> ByteSeq] /\ f[0] = <<>>
  /\ \A k \in 1 .. Len(list) : f[k] = CopyStep(list, sn, f[k - 1], k)

\* The bytes an entry adds are those past the ones there.
LEMMA CopyBytesIs ==
  ASSUME NEW s \in ByteSeq, NEW e \in Entry
  PROVE  /\ R!CopyBytes(s, e) \in ByteSeq
         /\ Len(R!CopyBytes(s, e)) = Len(s) + (IF R!End(e) - Len(s) > 0 THEN R!End(e) - Len(s) ELSE 0)
         /\ \A i \in 1 .. Len(s) : R!CopyBytes(s, e)[i] = s[i]
         /\ \A i \in (Len(s) + 1) .. R!End(e) :
              R!CopyBytes(s, e)[i] = <<e.id, IF i - 1 >= e.so THEN i - 1 ELSE -1>>
<1>1. e.so \in Nat /\ e.size \in Nat /\ e.id \in Nat /\ R!End(e) \in Nat
  BY DEF Entry, R!End
<1>2. PICK a, z, m : a = Len(s) /\ z = R!End(e) /\ m = IF z - a > 0 THEN z - a ELSE 0
  OBVIOUS
<1>3. a \in Nat /\ z \in Nat /\ m \in Nat /\ s \in Seq(Nat \X Int)
  BY <1>1, <1>2 DEF ByteSeq
<1>4. PICK u : u = [i \in 1 .. (z - a) |-> <<e.id, IF a + i - 1 >= e.so THEN a + i - 1 ELSE -1>>]
  OBVIOUS
<1>5. u \in Seq(Nat \X Int) /\ Len(u) = m /\ \A i \in 1 .. m : u[i] = <<e.id, IF a + i - 1 >= e.so THEN a + i - 1 ELSE -1>>
  <2>1. 1 .. (z - a) = 1 .. m
    BY <1>2, <1>3
  <2>2. \A i \in 1 .. m : <<e.id, IF a + i - 1 >= e.so THEN a + i - 1 ELSE -1>> \in Nat \X Int
    BY <1>1, <1>3
  <2>3. u \in [1 .. m -> Nat \X Int]
    BY <1>4, <2>1, <2>2
  <2>4. \A i \in 1 .. m : u[i] = <<e.id, IF a + i - 1 >= e.so THEN a + i - 1 ELSE -1>>
    BY <1>4, <2>1, Zenon
  <2>5. u \in Seq(Nat \X Int) /\ Len(u) = m
    <3> DEFINE P == Nat \X Int
    <3>1. u \in [1 .. m -> P]
      BY <2>3
    <3> HIDE DEF P
    <3>2. u \in Seq(P) /\ Len(u) = m
      BY <1>3, <3>1
    <3> QED BY <3>2 DEF P
  <2> QED BY <2>4, <2>5
<1>6. PICK t : t = s \o u
  OBVIOUS
<1>7. R!CopyBytes(s, e) = t
  BY <1>2, <1>4, <1>6 DEF R!CopyBytes
<1>8. t \in Seq(Nat \X Int) /\ Len(t) = a + m
      /\ \A i \in 1 .. (a + m) : t[i] = IF i <= a THEN s[i] ELSE u[i - a]
  <2> DEFINE P == Nat \X Int
  <2>1. s \in Seq(P) /\ u \in Seq(P)
    BY <1>3, <1>5
  <2> HIDE DEF P
  <2>2. t \in Seq(P) /\ Len(t) = Len(s) + Len(u)
        /\ \A i \in 1 .. (Len(s) + Len(u)) : t[i] = IF i <= Len(s) THEN s[i] ELSE u[i - Len(s)]
    BY <1>6, <2>1, ConcatProperties, Zenon
  <2> QED BY <1>2, <1>5, <2>2, Zenon DEF P
<1>9. \A i \in 1 .. a : t[i] = s[i]
  BY <1>3, <1>8
<1>10. ASSUME NEW i \in (a + 1) .. z PROVE t[i] = <<e.id, IF i - 1 >= e.so THEN i - 1 ELSE -1>>
  <2>1. i \in 1 .. (a + m) /\ ~(i <= a) /\ i - a \in 1 .. m /\ a + (i - a) - 1 = i - 1
    BY <1>2, <1>3
  <2>2. t[i] = u[i - a]
    BY <1>8, <2>1
  <2>3. u[i - a] = <<e.id, IF a + (i - a) - 1 >= e.so THEN a + (i - a) - 1 ELSE -1>>
    BY <1>5, <2>1
  <2> QED BY <2>1, <2>2, <2>3
<1>11. a + m = a + (IF z - a > 0 THEN z - a ELSE 0)
  BY <1>2
<1> QED BY <1>2, <1>7, <1>8, <1>9, <1>10, <1>11 DEF ByteSeq

\* That function exists.
LEMMA CopyExists ==
  ASSUME NEW list \in Seq(Entry), NEW sn
  PROVE  \E f : CopyBy(list, sn, f) /\ R!SduOf(list, sn) = f[Len(list)]
<1> DEFINE n == Len(list)
           Body(g) == [i \in 0 .. Len(list) |-> IF i = 0 THEN <<>> ELSE IF list[i].sn = sn
                                            THEN R!CopyBytes(g[i - 1], list[i]) ELSE g[i - 1]]
           sdu == CHOOSE g : g = Body(g)
<1>1. R!SduOf(list, sn) = sdu[n]
  BY Zenon DEF R!SduOf
<1>2. n \in Nat /\ \A i \in 1 .. n : list[i] \in Entry
  BY EntryIs
<1> DEFINE step == [x \in (1 .. n) \X ByteSeq |-> CopyStep(list, sn, x[2], x[1])]
<1>3. \A i \in 1 .. n : \A q \in ByteSeq : CopyStep(list, sn, q, i) \in ByteSeq
  BY <1>2, CopyBytesIs, Zenon DEF CopyStep
<1>4. step \in [(1 .. n) \X ByteSeq -> ByteSeq]
  <2>1. ASSUME NEW x \in (1 .. n) \X ByteSeq PROVE CopyStep(list, sn, x[2], x[1]) \in ByteSeq
    <3>1. x[1] \in 1 .. n /\ x[2] \in ByteSeq
      OBVIOUS
    <3> QED BY <1>3, <3>1, Zenon
  <2> QED BY <2>1
<1>5. \A i \in 1 .. n : \A q \in ByteSeq : step[<<i, q>>] = CopyStep(list, sn, q, i)
  OBVIOUS
<1> HIDE DEF step
<1>6. PICK f : f \in [0 .. n -> ByteSeq] /\ f[0] = <<>> /\ \A k \in 1 .. n : f[k] = step[<<k, f[k - 1]>>]
  <2>1. n \in Nat /\ <<>> \in ByteSeq
    BY <1>2 DEF ByteSeq
  <2> HIDE DEF n
  <2>2. \E f : StepByStep(f, ByteSeq, n, <<>>, step)
    BY <1>4, <2>1, RecursionExists, Zenon
  <2> QED BY <2>2, Zenon DEF StepByStep
<1>7. \A i \in 0 .. n : f[i] = Body(f)[i]
  <2> SUFFICES ASSUME NEW i \in 0 .. n PROVE f[i] = Body(f)[i]
    OBVIOUS
  <2>1. CASE i = 0
    BY <1>6, <2>1
  <2>2. CASE i # 0
    <3>1. i \in 1 .. n /\ i - 1 \in 0 .. n
      BY <1>2, <2>2
    <3>2. f[i - 1] \in ByteSeq
      BY <1>6, <3>1
    <3>3. f[i] = CopyStep(list, sn, f[i - 1], i)
      BY <1>5, <1>6, <3>1, <3>2
    <3> QED BY <2>2, <3>3 DEF CopyStep
  <2> QED BY <2>1, <2>2
<1>8. f = Body(f)
  <2>1. DOMAIN Body(f) = 0 .. n /\ Body(f) = [i \in 0 .. n |-> Body(f)[i]] /\ f = [i \in 0 .. n |-> f[i]]
    BY <1>6
  <2> HIDE DEF Body
  <2> QED BY <1>7, <2>1
<1>9. sdu = Body(sdu)
  <2> HIDE DEF Body
  <2> QED BY <1>8, Zenon
<1> HIDE DEF sdu
<1>10. sdu[0] = <<>> /\ \A k \in 1 .. n : sdu[k] = CopyStep(list, sn, sdu[k - 1], k)
  <2>1. ASSUME NEW i \in 0 .. n
        PROVE  sdu[i] = IF i = 0 THEN <<>> ELSE IF list[i].sn = sn THEN R!CopyBytes(sdu[i - 1], list[i]) ELSE sdu[i - 1]
    BY <1>9
  <2>2. 0 \in 0 .. n /\ \A k \in 1 .. n : k \in 0 .. n /\ k # 0
    BY <1>2
  <2> QED BY <2>1, <2>2 DEF CopyStep
<1> DEFINE T == {k \in 0 .. n : sdu[k] \in ByteSeq}
<1>11. 0 \in T
  <2>1. 0 \in 0 .. n
    BY <1>2
  <2>2. <<>> \in ByteSeq
    BY DEF ByteSeq
  <2> QED BY <1>10, <2>1, <2>2, Zenon
<1>12. ASSUME NEW k \in 1 .. n, k - 1 \in T PROVE k \in T
  <2>1. sdu[k - 1] \in ByteSeq /\ k \in 0 .. n
    BY <1>2, <1>12
  <2>2. CopyStep(list, sn, sdu[k - 1], k) \in ByteSeq
    BY <1>3, <2>1, Zenon
  <2> QED BY <1>10, <2>1, <2>2
<1>13. \A k \in 0 .. n : k \in T
  <2> HIDE DEF T, n
  <2> QED BY <1>2, <1>11, <1>12, NatInduct
<1>14. sdu \in [0 .. n -> ByteSeq]
  <2>1. sdu = [i \in 0 .. n |-> sdu[i]]
    BY <1>9
  <2> QED BY <1>13, <2>1
<1> QED BY <1>1, <1>10, <1>14, Zenon DEF CopyBy

---------------------------------------------------------------------------
(* What the list holds of an SDU.                                          *)

\* An entry is a segment of an SDU from B on, before M.
Fits(p, B, M) ==
  /\ p.sn = p.id % SnCount /\ B <= p.id /\ p.id < M
  /\ R!End(p) <= SizeOf(p.id) /\ (p.last <=> R!End(p) = SizeOf(p.id)) /\ (p.first <=> p.so = 0)
ListOk(list, B, M) ==
  /\ list \in Seq(Entry) /\ B \in Nat /\ M \in Nat /\ M <= B + W
  /\ \A i \in DOMAIN list : Fits(list[i], B, M)

\* The order of the list.
Before(p, q) == p.id < q.id \/ (p.id = q.id /\ p.so <= q.so)
Ordered(list) == \A i, j \in DOMAIN list : i < j => Before(list[i], list[j])

\* Every byte of an SDU is in some entry.
Holds(p, id, b) == p.id = id /\ p.so <= b /\ b < R!End(p)
Covered(list, id) == \A b \in 0 .. (SizeOf(id) - 1) : \E i \in DOMAIN list : Holds(list[i], id, b)

\* The SDU, whole.
Whole(x) == [b \in 1 .. SizeOf(x) |-> <<x, b - 1>>]

\* Less than a period from B on the entries of an SN are those of one SDU.
LEMMA EntriesAre ==
  ASSUME NEW list, NEW B, NEW M, ListOk(list, B, M), NEW x \in Nat, B <= x, x < B + SnCount
  PROVE  \A i \in DOMAIN list : list[i].sn = x % SnCount <=> list[i].id = x
<1> SUFFICES ASSUME NEW i \in DOMAIN list PROVE list[i].sn = x % SnCount <=> list[i].id = x
  OBVIOUS
<1>1. list \in Seq(Entry) /\ B \in Nat /\ M \in Nat /\ M <= B + W /\ Fits(list[i], B, M)
  BY DEF ListOk
<1>2. list[i].id \in Nat
  BY <1>1, EntryIs
<1>3. PICK y, s : y = list[i].id /\ s = list[i].sn
  OBVIOUS
<1>4. y \in Nat /\ s = y % SnCount /\ B <= y /\ y < M
  BY <1>1, <1>2, <1>3 DEF Fits
<1>5. x - y < SnCount /\ y - x < SnCount
  BY <1>1, <1>4, HalfWindow
<1>6. x % SnCount = y % SnCount => x = y
  BY <1>4, <1>5, SameSn
<1> QED BY <1>3, <1>4, <1>6

\* The numbers of an entry.
LEMMA FitsIs ==
  ASSUME NEW list, NEW B, NEW M, ListOk(list, B, M)
  PROVE  /\ list \in Seq(Entry) /\ Len(list) \in Nat /\ DOMAIN list = 1 .. Len(list)
         /\ B \in Nat /\ M \in Nat /\ M <= B + W
         /\ \A i \in 1 .. Len(list) :
              /\ list[i] \in Entry /\ list[i].so \in Nat /\ list[i].size \in Nat \ {0} /\ list[i].id \in Nat
              /\ R!End(list[i]) \in Nat /\ R!End(list[i]) = list[i].so + list[i].size
              /\ list[i].so < R!End(list[i]) /\ R!End(list[i]) <= SizeOf(list[i].id)
              /\ B <= list[i].id /\ list[i].id < M /\ list[i].sn = list[i].id % SnCount
              /\ list[i].last <=> R!End(list[i]) = SizeOf(list[i].id)
<1>1. list \in Seq(Entry) /\ B \in Nat /\ M \in Nat /\ M <= B + W /\ \A i \in DOMAIN list : Fits(list[i], B, M)
  BY DEF ListOk
<1>2. Len(list) \in Nat /\ DOMAIN list = 1 .. Len(list)
  BY <1>1
<1> SUFFICES ASSUME NEW i \in 1 .. Len(list)
             PROVE  /\ list[i] \in Entry /\ list[i].so \in Nat /\ list[i].size \in Nat \ {0} /\ list[i].id \in Nat
                    /\ R!End(list[i]) \in Nat /\ R!End(list[i]) = list[i].so + list[i].size
                    /\ list[i].so < R!End(list[i]) /\ R!End(list[i]) <= SizeOf(list[i].id)
                    /\ B <= list[i].id /\ list[i].id < M /\ list[i].sn = list[i].id % SnCount
                    /\ list[i].last <=> R!End(list[i]) = SizeOf(list[i].id)
  BY <1>1, <1>2
<1>3. /\ list[i] \in Entry /\ list[i].so \in Nat /\ list[i].size \in Nat \ {0} /\ list[i].id \in Nat
      /\ R!End(list[i]) = list[i].so + list[i].size /\ R!End(list[i]) \in Nat
  BY <1>1, EntryIs
<1>4. Fits(list[i], B, M)
  BY <1>1, <1>2
<1>5. PICK so, size, z : so = list[i].so /\ size = list[i].size /\ z = R!End(list[i])
  OBVIOUS
<1>6. so < z
  BY <1>3, <1>5
<1> QED BY <1>3, <1>4, <1>5, <1>6 DEF Fits

\* Entries of one SDU are in the order of their first byte.
LEMMA OrderIs ==
  ASSUME NEW list, Ordered(list), NEW B, NEW M, ListOk(list, B, M),
         NEW i \in 1 .. Len(list), NEW j \in 1 .. Len(list), i <= j, list[i].id = list[j].id
  PROVE  list[i].so <= list[j].so
<1>1. Len(list) \in Nat /\ DOMAIN list = 1 .. Len(list) /\ list[i].so \in Nat /\ list[i].id \in Nat /\ list[j].id \in Nat
  BY FitsIs
<1>2. CASE i = j
  BY <1>1, <1>2
<1>3. CASE i < j
  <2>1. Before(list[i], list[j])
    BY <1>1, <1>3 DEF Ordered
  <2> QED BY <1>1, <2>1 DEF Before
<1> QED BY <1>1, <1>2, <1>3

\* Of an SDU that is there in full, nothing is taken as new: segment_already_received finds
\* all bytes of a segment, because the entries come in order and leave no hole.
LEMMA AlreadyReceived ==
  ASSUME NEW r, NEW B, NEW M, ListOk(r.rx_list, B, M), Ordered(r.rx_list),
         NEW x \in Nat, B <= x, x < B + SnCount, Covered(r.rx_list, x),
         NEW so \in Nat, NEW size \in Nat \ {0}, so + size <= SizeOf(x)
  PROVE  R!segment_already_received(r, x % SnCount, so, size)
<1> DEFINE list == r.rx_list
           n == Len(list)
           sn == x % SnCount
<1>1. /\ list \in Seq(Entry) /\ n \in Nat /\ DOMAIN list = 1 .. n
      /\ \A i \in 1 .. n : /\ list[i] \in Entry /\ list[i].so \in Nat /\ list[i].size \in Nat \ {0} /\ list[i].id \in Nat
                           /\ R!End(list[i]) \in Nat /\ R!End(list[i]) = list[i].so + list[i].size
  BY FitsIs
<1>2. \A i \in 1 .. n : list[i].sn = sn <=> list[i].id = x
  BY <1>1, EntriesAre
<1>3. PICK f : LeftBy(list, sn, so, size, f) /\ (R!segment_already_received(r, sn, so, size) <=> f[n].size <= 0)
  <2>1. so \in Int /\ size \in Int
    OBVIOUS
  <2> QED BY <1>1, <2>1, LeftExists
<1>4. /\ f \in [0 .. n -> Part] /\ f[0] = [so |-> so, size |-> size]
      /\ \A k \in 1 .. n : f[k] = LeftStep(list, sn, f[k - 1], k)
  BY <1>3 DEF LeftBy
<1>5. PICK e : e = so + size
  OBVIOUS
<1>6. e \in Nat /\ SizeOf(x) \in Nat /\ e <= SizeOf(x)
  BY <1>5, SizeOfIs
<1> DEFINE Good(k) == \/ f[k].size <= 0
                      \/ /\ f[k].so + f[k].size = e /\ f[k].so >= 0
                         /\ \A j \in 1 .. k : list[j].id = x => R!End(list[j]) <= f[k].so
           T == {k \in 0 .. n : Good(k)}
<1>7. 0 \in T
  <2>1. Good(0)
    BY <1>4, <1>5
  <2> QED BY <1>1, <2>1
<1>8. ASSUME NEW k \in 1 .. n, k - 1 \in T PROVE k \in T
  <2>1. Good(k - 1) /\ k \in 0 .. n /\ k - 1 \in 0 .. n
    BY <1>1, <1>8
  <2>2. f[k - 1] \in Part /\ f[k] = LeftStep(list, sn, f[k - 1], k)
    BY <1>4, <2>1
  <2>3. PICK a, z, l : a = f[k - 1].so /\ z = f[k - 1].size /\ l = list[k]
    OBVIOUS
  <2>4. a \in Int /\ z \in Int /\ f[k - 1] = [so |-> a, size |-> z]
    BY <2>2, <2>3 DEF Part
  <2>5. l.so \in Nat /\ R!End(l) \in Nat /\ l.so < R!End(l)
    <3>1. l.so \in Nat /\ l.size \in Nat \ {0} /\ R!End(l) = l.so + l.size
      BY <1>1, <2>3
    <3> QED BY <3>1
  <2>6. Good(k)
    <3>1. CASE list[k].id # x
      <4>1. f[k] = f[k - 1]
        BY <1>2, <2>2, <3>1 DEF LeftStep
      <4>2. \A j \in 1 .. k : j = k \/ j \in 1 .. (k - 1)
        BY <1>1
      <4> QED BY <2>1, <3>1, <4>1, <4>2
    <3>2. CASE list[k].id = x /\ z <= 0
      <4>1. f[k] = f[k - 1]
        BY <1>2, <2>2, <2>3, <3>2 DEF LeftStep, R!Uncovered
      <4> QED BY <2>3, <3>2, <4>1
    <3>3. CASE list[k].id = x /\ ~(z <= 0)
      <4>1. a + z = e /\ a >= 0 /\ \A j \in 1 .. (k - 1) : list[j].id = x => R!End(list[j]) <= a
        BY <2>1, <2>3, <3>3
      <4>2. f[k] = R!Uncovered(f[k - 1], l)
        BY <1>2, <2>2, <2>3, <3>3 DEF LeftStep
      <4>3. a \in 0 .. (SizeOf(x) - 1)
        BY <1>6, <2>4, <3>3, <4>1
      <4>4. PICK i \in 1 .. n : Holds(list[i], x, a)
        BY <1>1, <4>3 DEF Covered
      <4>5. list[i].id = x /\ list[i].so <= a /\ a < R!End(list[i])
        BY <4>4 DEF Holds
      <4>6. i >= k
        <5>1. ~(i \in 1 .. (k - 1))
          BY <1>1, <2>4, <4>1, <4>5
        <5> QED BY <1>1, <5>1
      <4>7. l.so <= a
        <5>1. list[k].so <= list[i].so
          BY <1>1, <3>3, <4>5, <4>6, OrderIs
        <5> QED BY <1>1, <2>3, <2>4, <4>5, <5>1
      <4>8. CASE a < R!End(l)
        <5>1. f[k] = [so |-> R!End(l), size |-> z - (R!End(l) - a)]
          BY <2>4, <2>5, <3>3, <4>2, <4>7, <4>8 DEF R!Uncovered
        <5>2. f[k].so = R!End(l) /\ f[k].so + f[k].size = e /\ f[k].so >= 0
          BY <2>4, <2>5, <4>1, <5>1
        <5>3. ASSUME NEW j \in 1 .. k, list[j].id = x PROVE R!End(list[j]) <= f[k].so
          <6>1. CASE j = k
            BY <2>3, <2>5, <5>2, <6>1
          <6>2. CASE j # k
            <7>1. j \in 1 .. (k - 1) /\ j \in 1 .. n
              BY <1>1, <6>2
            <7>2. R!End(list[j]) <= a /\ R!End(list[j]) \in Nat
              BY <1>1, <4>1, <5>3, <7>1
            <7> QED BY <2>4, <2>5, <4>8, <5>2, <7>2
          <6> QED BY <6>1, <6>2
        <5> QED BY <5>2, <5>3
      <4>9. CASE ~(a < R!End(l))
        <5>1. ~(a + z - 1 < R!End(l))
          BY <2>4, <2>5, <3>3, <4>9
        <5>2. f[k] = f[k - 1]
          BY <2>4, <2>5, <3>3, <4>2, <4>9, <5>1 DEF R!Uncovered
        <5>3. ASSUME NEW j \in 1 .. k, list[j].id = x PROVE R!End(list[j]) <= a
          <6>1. j = k \/ j \in 1 .. (k - 1)
            BY <1>1
          <6> QED BY <2>3, <2>4, <2>5, <4>1, <4>9, <5>3, <6>1
        <5> QED BY <2>3, <4>1, <5>2, <5>3
      <4> QED BY <4>8, <4>9
    <3> QED BY <3>1, <3>2, <3>3
  <2> QED BY <2>1, <2>6
<1>9. \A k \in 0 .. n : k \in T
  <2> HIDE DEF T, n
  <2> QED BY <1>1, <1>7, <1>8, NatInduct
<1>10. Good(n)
  BY <1>1, <1>9
<1>11. f[n].size <= 0
  <2> SUFFICES ASSUME ~(f[n].size <= 0) PROVE FALSE
    OBVIOUS
  <2>1. PICK a, z : a = f[n].so /\ z = f[n].size
    OBVIOUS
  <2>2. f[n] \in Part
    BY <1>1, <1>4
  <2>3. a \in Int /\ z \in Int
    BY <2>1, <2>2 DEF Part
  <2>4. a + z = e /\ a >= 0 /\ ~(z <= 0) /\ \A j \in 1 .. n : list[j].id = x => R!End(list[j]) <= a
    BY <1>10, <2>1
  <2>5. a \in 0 .. (SizeOf(x) - 1)
    BY <1>6, <2>3, <2>4
  <2>6. PICK i \in 1 .. n : Holds(list[i], x, a)
    BY <1>1, <2>5 DEF Covered
  <2>7. list[i].id = x /\ a < R!End(list[i])
    BY <2>6 DEF Holds
  <2> QED BY <1>1, <2>3, <2>4, <2>7
<1> QED BY <1>3, <1>11

\* The ends of the entries of an SDU before one of them.
EndsBefore(r, x, j) == {0} \cup {R!End(r.rx_list[k]) : k \in {k \in R!Entries(r, x % SnCount) : k < j}}

\* NoHole up to an entry compares with the furthest byte before it.
LEMMA NoHoleIs ==
  ASSUME NEW r, NEW B, NEW M, ListOk(r.rx_list, B, M), NEW x \in Nat, B <= x, x < B + SnCount,
         NEW j \in 1 .. Len(r.rx_list), r.rx_list[j].id = x
  PROVE  /\ R!Max(EndsBefore(r, x, j)) \in Nat /\ R!Max(EndsBefore(r, x, j)) \in EndsBefore(r, x, j)
         /\ \A k \in 1 .. Len(r.rx_list) :
              r.rx_list[k].id = x /\ k < j => R!End(r.rx_list[k]) <= R!Max(EndsBefore(r, x, j))
<1> DEFINE list == r.rx_list
           n == Len(list)
           K == {k \in R!Entries(r, x % SnCount) : k < j}
           E == {0} \cup {R!End(list[k]) : k \in K}
<1>1. /\ n \in Nat /\ DOMAIN list = 1 .. n
      /\ \A i \in 1 .. n : /\ list[i].id \in Nat /\ R!End(list[i]) \in Nat /\ R!End(list[i]) <= SizeOf(list[i].id)
  BY FitsIs
<1>2. \A i \in 1 .. n : list[i].sn = x % SnCount <=> list[i].id = x
  BY <1>1, EntriesAre
<1>3. \A k : k \in K <=> k \in 1 .. n /\ list[k].id = x /\ k < j
  BY <1>1, <1>2, Zenon DEF R!Entries
<1> HIDE DEF K
<1>4. SizeOf(x) \in Nat
  BY SizeOfIs
<1>5. \A k \in K : R!End(list[k]) \in Nat /\ R!End(list[k]) <= SizeOf(x)
  BY <1>1, <1>3
<1>6. E \subseteq Nat /\ E # {} /\ \A y \in E : y <= SizeOf(x)
  BY <1>4, <1>5
<1>7. \A k \in K : R!End(list[k]) \in E
  OBVIOUS
<1>8. R!Max(E) = Max(E)
  BY DEF R!Max, Max
<1> HIDE DEF E
<1>9. Max(E) \in E /\ \A y \in E : y <= Max(E)
  BY <1>4, <1>6, MaxNat
<1>10. /\ R!Max(E) \in Nat /\ R!Max(E) \in E
       /\ \A k \in 1 .. n : list[k].id = x /\ k < j => R!End(list[k]) <= R!Max(E)
  BY <1>3, <1>6, <1>7, <1>8, <1>9
<1>11. EndsBefore(r, x, j) = E
  BY Zenon DEF EndsBefore, E, K
<1> QED BY <1>10, <1>11

\* sdu_full says of an SDU that has arrived in part whether it is there in full.
LEMMA FullIs ==
  ASSUME NEW r, NEW B, NEW M, ListOk(r.rx_list, B, M), Ordered(r.rx_list),
         NEW x \in Nat, B <= x, x < B + SnCount,
         \E i \in DOMAIN r.rx_list : r.rx_list[i].id = x,
         \A i \in DOMAIN r.rx_list : r.rx_list[i].id = x => r.rx_list[i].data
  PROVE  R!sdu_full(r, x % SnCount) <=> Covered(r.rx_list, x)
<1> DEFINE list == r.rx_list
           n == Len(list)
           sn == x % SnCount
           Ends(j) == EndsBefore(r, x, j)
<1>1. /\ list \in Seq(Entry) /\ n \in Nat /\ DOMAIN list = 1 .. n
      /\ \A i \in 1 .. n : /\ list[i].so \in Nat /\ list[i].id \in Nat
                           /\ R!End(list[i]) \in Nat /\ R!End(list[i]) <= SizeOf(list[i].id)
                           /\ list[i].so < R!End(list[i])
                           /\ list[i].last <=> R!End(list[i]) = SizeOf(list[i].id)
  BY FitsIs
<1>2. \A i : i \in R!Entries(r, sn) <=> i \in 1 .. n /\ list[i].id = x
  <2>1. \A i \in 1 .. n : list[i].sn = sn <=> list[i].id = x
    BY <1>1, EntriesAre
  <2> QED BY <1>1, <2>1, Zenon DEF R!Entries
<1>3. SizeOf(x) \in Nat \ {0}
  BY SizeOfIs
<1>4. R!Unprocessed(r, sn)
  <2> DEFINE K == R!Entries(r, sn)
  <2>1. K \subseteq Nat /\ K # {}
    BY <1>1, <1>2
  <2> HIDE DEF K
  <2>2. Min(K) \in K /\ \A y \in K : Min(K) <= y
    BY <2>1, MinNat
  <2>3. list[Min(K)].data
    BY <1>1, <1>2, <2>2 DEF K
  <2> QED BY <2>2, <2>3, Zenon DEF R!Unprocessed, R!IsFirst, K
<1>5. \A j \in 1 .. n : list[j].id = x =>
        /\ R!Max(Ends(j)) \in Nat /\ R!Max(Ends(j)) \in Ends(j)
        /\ \A k \in 1 .. n : list[k].id = x /\ k < j => R!End(list[k]) <= R!Max(Ends(j))
  BY NoHoleIs
<1>6. \A i : R!NoHole(r, sn, i) <=> \A j \in 1 .. n : list[j].id = x /\ j <= i => list[j].so <= R!Max(Ends(j))
  BY <1>2, Zenon DEF R!NoHole, EndsBefore
<1>7. \A j : \A y \in Ends(j) : y = 0 \/ \E k \in 1 .. n : list[k].id = x /\ k < j /\ y = R!End(list[k])
  BY <1>2, Zenon DEF EndsBefore
<1> HIDE DEF Ends
<1>8. ASSUME Covered(list, x) PROVE R!sdu_full(r, sn)
  <2>1. SizeOf(x) - 1 \in 0 .. (SizeOf(x) - 1)
    BY <1>3
  <2>2. PICK i \in 1 .. n : Holds(list[i], x, SizeOf(x) - 1)
    BY <1>1, <1>8, <2>1 DEF Covered
  <2>3. list[i].id = x /\ SizeOf(x) - 1 < R!End(list[i]) /\ R!End(list[i]) \in Nat /\ R!End(list[i]) <= SizeOf(x)
    BY <1>1, <2>2 DEF Holds
  <2>4. list[i].last
    BY <1>1, <1>3, <2>3
  <2>5. ASSUME NEW j \in 1 .. n, list[j].id = x PROVE list[j].so <= R!Max(Ends(j))
    <3> SUFFICES ASSUME ~(list[j].so <= R!Max(Ends(j))) PROVE FALSE
      OBVIOUS
    <3>1. PICK m : m = R!Max(Ends(j))
      OBVIOUS
    <3>2. m \in Nat /\ \A k \in 1 .. n : list[k].id = x /\ k < j => R!End(list[k]) <= m
      BY <1>5, <2>5, <3>1
    <3>3. list[j].so \in Nat /\ m < list[j].so /\ list[j].so < SizeOf(x)
      BY <1>1, <1>3, <2>5, <3>1, <3>2
    <3>4. m \in 0 .. (SizeOf(x) - 1)
      BY <1>3, <3>2, <3>3
    <3>5. PICK k \in 1 .. n : Holds(list[k], x, m)
      BY <1>1, <1>8, <3>4 DEF Covered
    <3>6. list[k].id = x /\ list[k].so <= m /\ m < R!End(list[k]) /\ list[k].so \in Nat /\ R!End(list[k]) \in Nat
      BY <1>1, <3>5 DEF Holds
    <3>7. ~(k < j)
      BY <3>2, <3>6
    <3>8. list[j].so <= list[k].so
      BY <1>1, <2>5, <3>6, <3>7, OrderIs
    <3> QED BY <3>2, <3>3, <3>6, <3>8
  <2>6. R!NoHole(r, sn, i)
    BY <1>6, <2>5, Zenon
  <2>7. i \in R!Entries(r, sn)
    BY <1>2, <2>3
  <2> QED BY <1>4, <2>4, <2>6, <2>7, Zenon DEF R!sdu_full
<1>9. ASSUME R!sdu_full(r, sn) PROVE Covered(list, x)
  <2>1. PICK i \in R!Entries(r, sn) : list[i].last /\ R!NoHole(r, sn, i)
    BY <1>9, Zenon DEF R!sdu_full
  <2>2. i \in 1 .. n /\ list[i].id = x /\ R!End(list[i]) = SizeOf(x)
    BY <1>1, <1>2, <2>1
  <2> SUFFICES ASSUME NEW b \in 0 .. (SizeOf(x) - 1) PROVE \E j \in DOMAIN list : Holds(list[j], x, b)
    BY DEF Covered
  <2> DEFINE K == {j \in 1 .. n : list[j].id = x /\ b < R!End(list[j])}
  <2>3. K \subseteq Nat /\ i \in K
    BY <1>1, <1>3, <2>2
  <2> HIDE DEF K
  <2>4. PICK j : j = Min(K) /\ j \in K /\ \A y \in K : j <= y
    BY <2>3, MinNat
  <2>5. j \in 1 .. n /\ list[j].id = x /\ b < R!End(list[j]) /\ j <= i
    BY <2>3, <2>4 DEF K
  <2>6. list[j].so <= R!Max(Ends(j)) /\ R!Max(Ends(j)) \in Nat /\ R!Max(Ends(j)) \in Ends(j)
    BY <1>5, <1>6, <2>1, <2>5, Zenon
  <2>7. R!Max(Ends(j)) <= b
    <3>1. PICK m : m = R!Max(Ends(j)) /\ m \in Ends(j) /\ m \in Nat
      BY <2>6
    <3>2. CASE m = 0
      BY <3>1, <3>2
    <3>3. ASSUME NEW k \in 1 .. n, list[k].id = x, k < j, m = R!End(list[k]) PROVE m <= b
      <4>1. k \notin K
        BY <1>1, <2>4, <2>5, <3>3
      <4> QED BY <1>1, <3>1, <3>3, <4>1 DEF K
    <3> QED BY <1>7, <3>1, <3>2, <3>3
  <2>8. list[j].so <= b
    BY <1>1, <2>5, <2>6, <2>7
  <2> QED BY <1>1, <2>5, <2>8 DEF Holds
<1> QED BY <1>8, <1>9

\* What reassemble_and_deliver puts together is the SDU.
LEMMA SduIs ==
  ASSUME NEW list, NEW B, NEW M, ListOk(list, B, M), Ordered(list),
         NEW x \in Nat, B <= x, x < B + SnCount, Covered(list, x)
  PROVE  R!SduOf(list, x % SnCount) = Whole(x) /\ Whole(x) \in ByteSeq
<1> DEFINE n == Len(list)
           sn == x % SnCount
<1>1. /\ list \in Seq(Entry) /\ n \in Nat /\ DOMAIN list = 1 .. n
      /\ \A i \in 1 .. n : /\ list[i] \in Entry /\ list[i].so \in Nat /\ list[i].id \in Nat
                           /\ R!End(list[i]) \in Nat /\ R!End(list[i]) <= SizeOf(list[i].id)
                           /\ list[i].so < R!End(list[i])
  BY FitsIs
<1>2. \A i \in 1 .. n : list[i].sn = sn <=> list[i].id = x
  BY <1>1, EntriesAre
<1>3. PICK f : CopyBy(list, sn, f) /\ R!SduOf(list, sn) = f[n]
  BY <1>1, CopyExists
<1>4. /\ f \in [0 .. n -> ByteSeq] /\ f[0] = <<>>
      /\ \A k \in 1 .. n : f[k] = CopyStep(list, sn, f[k - 1], k)
  BY <1>3 DEF CopyBy
<1>5. SizeOf(x) \in Nat \ {0}
  BY SizeOfIs
<1> DEFINE Good(k) == /\ Len(f[k]) <= SizeOf(x) /\ \A i \in 1 .. Len(f[k]) : f[k][i] = <<x, i - 1>>
                      /\ \A j \in 1 .. k : list[j].id = x => R!End(list[j]) <= Len(f[k])
           T == {k \in 0 .. n : Good(k)}
<1>6. 0 \in T
  <2>1. Len(f[0]) = 0
    BY <1>4
  <2>2. Good(0)
    BY <1>5, <2>1
  <2> QED BY <1>1, <2>2
<1>7. ASSUME NEW k \in 1 .. n, k - 1 \in T PROVE k \in T
  <2>1. Good(k - 1) /\ k \in 0 .. n /\ k - 1 \in 0 .. n
    BY <1>1, <1>7
  <2>2. f[k - 1] \in ByteSeq /\ f[k] = CopyStep(list, sn, f[k - 1], k)
    BY <1>4, <2>1
  <2>3. PICK s, t, m, z, e : s = f[k - 1] /\ t = f[k] /\ m = Len(s) /\ e = list[k] /\ z = R!End(e)
    OBVIOUS
  <2>4. /\ m \in Nat /\ m <= SizeOf(x) /\ \A i \in 1 .. m : s[i] = <<x, i - 1>>
        /\ \A j \in 1 .. (k - 1) : list[j].id = x => R!End(list[j]) <= m
    BY <2>1, <2>2, <2>3 DEF ByteSeq
  <2>5. Good(k)
    <3>1. CASE list[k].id # x
      <4>1. f[k] = f[k - 1]
        BY <1>2, <2>2, <3>1 DEF CopyStep
      <4>2. \A j \in 1 .. k : j = k \/ j \in 1 .. (k - 1)
        BY <1>1
      <4> QED BY <2>1, <3>1, <4>1, <4>2
    <3>2. CASE list[k].id = x
      <4>1. t = R!CopyBytes(s, e) /\ e \in Entry /\ e.id = x /\ s \in ByteSeq
        BY <1>1, <1>2, <2>2, <2>3, <3>2 DEF CopyStep
      <4>2. /\ Len(t) = m + (IF z - m > 0 THEN z - m ELSE 0)
            /\ \A i \in 1 .. m : t[i] = s[i]
            /\ \A i \in (m + 1) .. z : t[i] = <<x, IF i - 1 >= e.so THEN i - 1 ELSE -1>>
        <5>1. /\ Len(R!CopyBytes(s, e)) = Len(s) + (IF R!End(e) - Len(s) > 0 THEN R!End(e) - Len(s) ELSE 0)
              /\ \A i \in 1 .. Len(s) : R!CopyBytes(s, e)[i] = s[i]
              /\ \A i \in (Len(s) + 1) .. R!End(e) :
                   R!CopyBytes(s, e)[i] = <<e.id, IF i - 1 >= e.so THEN i - 1 ELSE -1>>
          BY <4>1, CopyBytesIs, Zenon
        <5> QED BY <2>3, <4>1, <5>1
      <4>3. z \in Nat /\ z <= SizeOf(x) /\ e.so \in Nat /\ e.so < z
        BY <1>1, <2>3, <3>2
      <4>4. e.so <= m
        <5> SUFFICES ASSUME m < e.so PROVE FALSE
          BY <2>4, <4>3
        <5>1. m \in 0 .. (SizeOf(x) - 1)
          BY <1>5, <2>4, <4>3
        <5>2. PICK j \in 1 .. n : Holds(list[j], x, m)
          BY <1>1, <5>1 DEF Covered
        <5>3. list[j].id = x /\ list[j].so <= m /\ m < R!End(list[j]) /\ list[j].so \in Nat /\ R!End(list[j]) \in Nat
          BY <1>1, <5>2 DEF Holds
        <5>4. ~(j \in 1 .. (k - 1))
          BY <2>4, <5>3
        <5>5. k <= j
          BY <1>1, <5>4
        <5>6. list[k].so <= list[j].so
          BY <1>1, <3>2, <5>3, <5>5, OrderIs
        <5> QED BY <2>3, <2>4, <4>3, <5>3, <5>6
      <4>5. PICK l : l = Len(t)
        OBVIOUS
      <4>6. l \in Nat /\ m <= l /\ z <= l /\ l <= SizeOf(x) /\ (l = m \/ l = z)
        BY <2>4, <4>2, <4>3, <4>5
      <4>7. ASSUME NEW i \in 1 .. l PROVE t[i] = <<x, i - 1>>
        <5>1. CASE i <= m
          BY <2>4, <4>2, <4>6, <5>1
        <5>2. CASE ~(i <= m)
          <6>1. i \in (m + 1) .. z /\ i - 1 >= e.so
            BY <2>4, <4>3, <4>4, <4>6, <5>2
          <6> QED BY <4>2, <6>1
        <5> QED BY <5>1, <5>2
      <4>8. ASSUME NEW j \in 1 .. k, list[j].id = x PROVE R!End(list[j]) <= l
        <5>1. CASE j = k
          BY <2>3, <4>6, <5>1
        <5>2. CASE j # k
          <6>1. j \in 1 .. (k - 1) /\ j \in 1 .. n
            BY <1>1, <5>2
          <6>2. R!End(list[j]) <= m /\ R!End(list[j]) \in Nat
            BY <1>1, <2>4, <4>8, <6>1
          <6> QED BY <2>4, <4>6, <6>2
        <5> QED BY <5>1, <5>2
      <4> QED BY <2>3, <4>5, <4>6, <4>7, <4>8
    <3> QED BY <3>1, <3>2
  <2> QED BY <2>1, <2>5
<1>8. \A k \in 0 .. n : k \in T
  <2> HIDE DEF T, n
  <2> QED BY <1>1, <1>6, <1>7, NatInduct
<1>9. Good(n) /\ f[n] \in ByteSeq
  BY <1>1, <1>4, <1>8
<1>10. PICK s, m : s = f[n] /\ m = Len(s)
  OBVIOUS
<1>11. /\ s \in Seq(Nat \X Int) /\ m \in Nat /\ m <= SizeOf(x) /\ \A i \in 1 .. m : s[i] = <<x, i - 1>>
       /\ \A j \in 1 .. n : list[j].id = x => R!End(list[j]) <= m
  BY <1>9, <1>10 DEF ByteSeq
<1>12. m = SizeOf(x)
  <2>1. SizeOf(x) - 1 \in 0 .. (SizeOf(x) - 1)
    BY <1>5
  <2>2. PICK i \in 1 .. n : Holds(list[i], x, SizeOf(x) - 1)
    BY <1>1, <2>1 DEF Covered
  <2>3. list[i].id = x /\ SizeOf(x) - 1 < R!End(list[i]) /\ R!End(list[i]) \in Nat
    BY <1>1, <2>2 DEF Holds
  <2> QED BY <1>5, <1>11, <2>3
<1>13. s = Whole(x)
  <2>1. s = [i \in 1 .. m |-> s[i]]
    BY <1>10, <1>11
  <2> QED BY <1>11, <1>12, <2>1 DEF Whole
<1> QED BY <1>3, <1>9, <1>10, <1>13

\* sdu_delivered says of an SDU less than a period ahead of RX_Next whether it is one of D.
LEMMA DeliveredIs ==
  ASSUME NEW r, NEW B, NEW M, ListOk(r.rx_list, B, M), NEW D,
         \A i \in DOMAIN r.rx_list : r.rx_list[i].data <=> r.rx_list[i].id \notin D,
         NEW x \in Nat, B <= x, x < B + SnCount, x \in D => Covered(r.rx_list, x)
  PROVE  R!sdu_delivered(r, x % SnCount) <=> x \in D
<1> DEFINE list == r.rx_list
           n == Len(list)
           sn == x % SnCount
           K == R!Entries(r, sn)
<1>1. list \in Seq(Entry) /\ n \in Nat /\ DOMAIN list = 1 .. n
  BY FitsIs
<1>2. \A i : i \in K <=> i \in 1 .. n /\ list[i].id = x
  <2>1. \A i \in 1 .. n : list[i].sn = sn <=> list[i].id = x
    BY <1>1, EntriesAre
  <2> QED BY <1>1, <2>1, Zenon DEF R!Entries
<1>3. ASSUME R!sdu_delivered(r, sn) PROVE x \in D
  <2>1. PICK i \in K : ~list[i].data
    BY <1>3, Zenon DEF R!sdu_delivered
  <2> QED BY <1>1, <1>2, <2>1
<1>4. ASSUME x \in D PROVE R!sdu_delivered(r, sn)
  <2>1. 0 \in 0 .. (SizeOf(x) - 1)
    BY SizeOfIs
  <2>2. PICK i \in 1 .. n : list[i].id = x
    BY <1>1, <1>4, <2>1 DEF Covered, Holds
  <2>3. K \subseteq Nat /\ K # {}
    BY <1>1, <1>2, <2>2
  <2> HIDE DEF K
  <2>4. Min(K) \in K /\ \A y \in K : Min(K) <= y
    BY <2>3, MinNat
  <2>5. ~list[Min(K)].data
    BY <1>1, <1>2, <1>4, <2>4
  <2> QED BY <2>4, <2>5, Zenon DEF R!sdu_delivered, R!IsFirst, K
<1> QED BY <1>3, <1>4

---------------------------------------------------------------------------
(* The bytes held.                                                         *)

Data(list) == {i \in DOMAIN list : list[i].data}
DataSize(list) == R!SizeAt(list, Data(list))

\* A new PDU adds its bytes.
LEMMA InsertSize ==
  ASSUME NEW list \in Seq(Entry), NEW new, NEW i, NEW e \in Entry, e.data, Inserted(Entry, list, new, i, e)
  PROVE  DataSize(new) = DataSize(list) + e.size
<1> DEFINE n == Len(list)
<1>1. /\ n \in Nat /\ DOMAIN list = 1 .. n
      /\ \A k \in 1 .. n : list[k].size \in Nat
  BY EntryIs
<1>2. /\ new \in Seq(Entry) /\ i \in 1 .. (n + 1) /\ Len(new) = n + 1 /\ DOMAIN new = 1 .. (n + 1)
      /\ new[i] = e /\ \A k \in 1 .. (i - 1) : new[k] = list[k]
      /\ \A k \in i .. n : new[k + 1] = list[k]
  BY <1>1 DEF Inserted
<1>3. e.size \in Nat
  BY DEF Entry
<1>4. PICK f : SumBy(list, Data(list), f) /\ DataSize(list) = f[n]
  BY SumExists DEF DataSize
<1>5. PICK g : SumBy(new, Data(new), g) /\ DataSize(new) = g[n + 1]
  BY <1>2, SumExists DEF DataSize
<1>6. /\ f \in [0 .. n -> Nat] /\ f[0] = 0
      /\ \A k \in 1 .. n : f[k] = IF list[k].data THEN f[k - 1] + list[k].size ELSE f[k - 1]
  BY <1>1, <1>4 DEF SumBy, SumStep, Data
<1>7. /\ g \in [0 .. (n + 1) -> Nat] /\ g[0] = 0
      /\ \A k \in 1 .. (n + 1) : g[k] = IF new[k].data THEN g[k - 1] + new[k].size ELSE g[k - 1]
  BY <1>2, <1>5 DEF SumBy, SumStep, Data
<1> HIDE DEF n
<1> DEFINE T == {k \in 0 .. n : k < i => g[k] = f[k]}
<1>8. 0 \in T
  BY <1>1, <1>6, <1>7
<1>9. ASSUME NEW k \in 1 .. n, k - 1 \in T PROVE k \in T
  <2> SUFFICES ASSUME k < i PROVE g[k] = f[k]
    BY <1>1
  <2>1. k \in 1 .. (i - 1) /\ k - 1 < i /\ k \in 1 .. (n + 1) /\ k - 1 \in 0 .. n
    BY <1>1, <1>2
  <2>2. g[k - 1] = f[k - 1] /\ new[k] = list[k]
    BY <1>2, <1>9, <2>1
  <2> QED BY <1>6, <1>7, <2>1, <2>2
<1>10. \A k \in 0 .. n : k \in T
  <2> HIDE DEF T
  <2> QED BY <1>1, <1>8, <1>9, NatInduct
<1>11. i - 1 \in 0 .. n /\ g[i - 1] = f[i - 1]
  BY <1>1, <1>2, <1>10
<1>12. g[i] = f[i - 1] + e.size
  <2>1. i \in 1 .. (n + 1)
    BY <1>2
  <2> QED BY <1>2, <1>7, <1>11, <2>1
<1> DEFINE U == {k \in 0 .. n : k >= i - 1 => g[k + 1] = f[k] + e.size}
<1>13. 0 \in U
  <2>1. 0 >= i - 1 => i = 1
    BY <1>1, <1>2
  <2> QED BY <1>1, <1>12, <2>1
<1>14. ASSUME NEW k \in 1 .. n, k - 1 \in U PROVE k \in U
  <2> SUFFICES ASSUME k >= i - 1 PROVE g[k + 1] = f[k] + e.size
    BY <1>1
  <2>1. CASE k = i - 1
    <3>1. k + 1 = i
      BY <1>1, <1>2, <2>1
    <3> QED BY <1>12, <2>1, <3>1
  <2>2. CASE k # i - 1
    <3>1. k \in i .. n /\ k - 1 >= i - 1 /\ k + 1 \in 1 .. (n + 1) /\ (k - 1) + 1 = k /\ (k + 1) - 1 = k /\ k - 1 \in 0 .. n
      BY <1>1, <1>2, <2>2
    <3>2. g[k] = f[k - 1] + e.size /\ new[k + 1] = list[k]
      BY <1>2, <1>14, <3>1
    <3>3. g[k + 1] = IF list[k].data THEN g[k] + list[k].size ELSE g[k]
      BY <1>7, <3>1, <3>2
    <3>4. f[k] = IF list[k].data THEN f[k - 1] + list[k].size ELSE f[k - 1]
      BY <1>6
    <3>5. f[k - 1] \in Nat /\ list[k].size \in Nat
      BY <1>1, <1>6, <3>1
    <3> QED BY <1>3, <3>2, <3>3, <3>4, <3>5
  <2> QED BY <2>1, <2>2
<1>15. \A k \in 0 .. n : k \in U
  <2> HIDE DEF U
  <2> QED BY <1>1, <1>13, <1>14, NatInduct
<1>16. g[n + 1] = f[n] + e.size
  BY <1>1, <1>2, <1>15
<1> QED BY <1>4, <1>5, <1>16

\* The list with the bytes of an SN given away.
Marked(list, sn) == [i \in DOMAIN list |-> IF list[i].sn = sn THEN [list[i] EXCEPT !.data = FALSE] ELSE list[i]]

\* It has the same entries otherwise.
LEMMA MarkedIs ==
  ASSUME NEW list \in Seq(Entry), NEW sn
  PROVE  /\ Marked(list, sn) \in Seq(Entry) /\ Len(Marked(list, sn)) = Len(list)
         /\ \A i \in 1 .. Len(list) :
              LET p == list[i]
                  q == Marked(list, sn)[i]
              IN  /\ q.sn = p.sn /\ q.so = p.so /\ q.size = p.size /\ q.first = p.first /\ q.last = p.last
                  /\ q.id = p.id /\ (q.data <=> p.data /\ p.sn # sn) /\ R!End(q) = R!End(p)
<1>1. Len(list) \in Nat /\ DOMAIN list = 1 .. Len(list) /\ \A i \in 1 .. Len(list) : list[i] \in Entry
  BY EntryIs
<1> DEFINE Mark(p) == IF p.sn = sn THEN [p EXCEPT !.data = FALSE] ELSE p
<1>2. ASSUME NEW p \in Entry
      PROVE  /\ Mark(p) \in Entry
             /\ Mark(p).sn = p.sn /\ Mark(p).so = p.so /\ Mark(p).size = p.size /\ Mark(p).first = p.first
             /\ Mark(p).last = p.last /\ Mark(p).id = p.id /\ (Mark(p).data <=> p.data /\ p.sn # sn)
             /\ R!End(Mark(p)) = R!End(p)
  BY DEF Entry, R!End
<1>3. Marked(list, sn) = [i \in 1 .. Len(list) |-> Mark(list[i])]
  BY <1>1 DEF Marked
<1> HIDE DEF Mark
<1>4. Marked(list, sn) \in [1 .. Len(list) -> Entry]
  BY <1>1, <1>2, <1>3
<1>5. Marked(list, sn) \in Seq(Entry) /\ Len(Marked(list, sn)) = Len(list)
  BY <1>1, <1>4
<1>6. \A i \in 1 .. Len(list) : Marked(list, sn)[i] = Mark(list[i])
  BY <1>3
<1> QED BY <1>1, <1>2, <1>5, <1>6

\* Delivery gives back the bytes of the SDU.
LEMMA MarkSize ==
  ASSUME NEW r, r.rx_list \in Seq(Entry), NEW sn,
         \A i \in DOMAIN r.rx_list : r.rx_list[i].sn = sn => r.rx_list[i].data
  PROVE  DataSize(Marked(r.rx_list, sn)) = DataSize(r.rx_list) - R!SizeAt(r.rx_list, R!Entries(r, sn))
<1> DEFINE list == r.rx_list
           n == Len(list)
           new == Marked(list, sn)
<1>1. /\ n \in Nat /\ DOMAIN list = 1 .. n
      /\ \A k \in 1 .. n : list[k].size \in Nat
  BY EntryIs
<1>2. /\ new \in Seq(Entry) /\ Len(new) = n /\ DOMAIN new = 1 .. n
      /\ \A k \in 1 .. n : new[k].size = list[k].size /\ (new[k].data <=> list[k].data /\ list[k].sn # sn)
  BY MarkedIs
<1>3. PICK f : SumBy(list, Data(list), f) /\ DataSize(list) = f[n]
  BY SumExists DEF DataSize
<1>4. PICK g : SumBy(new, Data(new), g) /\ DataSize(new) = g[n]
  <2> HIDE DEF new
  <2> QED BY <1>2, SumExists DEF DataSize
<1>5. PICK h : SumBy(list, R!Entries(r, sn), h) /\ R!SizeAt(list, R!Entries(r, sn)) = h[n]
  BY SumExists
<1> HIDE DEF new
<1>6. /\ f \in [0 .. n -> Nat] /\ f[0] = 0
      /\ \A k \in 1 .. n : f[k] = IF list[k].data THEN f[k - 1] + list[k].size ELSE f[k - 1]
  BY <1>1, <1>3 DEF SumBy, SumStep, Data
<1>7. /\ g \in [0 .. n -> Nat] /\ g[0] = 0
      /\ \A k \in 1 .. n : g[k] = IF new[k].data THEN g[k - 1] + new[k].size ELSE g[k - 1]
  BY <1>2, <1>4 DEF SumBy, SumStep, Data
<1>8. /\ h \in [0 .. n -> Nat] /\ h[0] = 0
      /\ \A k \in 1 .. n : h[k] = IF list[k].sn = sn THEN h[k - 1] + list[k].size ELSE h[k - 1]
  BY <1>1, <1>5 DEF SumBy, SumStep, R!Entries
<1> HIDE DEF n
<1> DEFINE T == {k \in 0 .. n : g[k] + h[k] = f[k]}
<1>9. 0 \in T
  BY <1>1, <1>6, <1>7, <1>8
<1>10. ASSUME NEW k \in 1 .. n, k - 1 \in T PROVE k \in T
  <2>1. k - 1 \in 0 .. n /\ k \in 0 .. n /\ g[k - 1] + h[k - 1] = f[k - 1]
    BY <1>1, <1>10
  <2>2. g[k - 1] \in Nat /\ h[k - 1] \in Nat /\ f[k - 1] \in Nat /\ list[k].size \in Nat
    BY <1>1, <1>6, <1>7, <1>8, <2>1
  <2>3. CASE list[k].sn = sn
    <3>1. list[k].data /\ ~new[k].data
      BY <1>1, <1>2, <2>3
    <3> QED BY <1>6, <1>7, <1>8, <2>1, <2>2, <2>3, <3>1
  <2>4. CASE list[k].sn # sn
    <3>1. new[k].data <=> list[k].data
      BY <1>2, <2>4
    <3>2. g[k] = IF list[k].data THEN g[k - 1] + list[k].size ELSE g[k - 1]
      BY <1>2, <1>7, <3>1
    <3>3. h[k] = h[k - 1] /\ f[k] = IF list[k].data THEN f[k - 1] + list[k].size ELSE f[k - 1]
      BY <1>6, <1>8, <2>4
    <3> QED BY <2>1, <2>2, <3>2, <3>3
  <2> QED BY <2>3, <2>4
<1>11. \A k \in 0 .. n : k \in T
  <2> HIDE DEF T
  <2> QED BY <1>1, <1>9, <1>10, NatInduct
<1>12. n \in 0 .. n /\ g[n] + h[n] = f[n]
  BY <1>1, <1>11
<1>13. g[n] = f[n] - h[n]
  BY <1>6, <1>7, <1>8, <1>12
<1> QED BY <1>3, <1>4, <1>5, <1>13 DEF new

\* rest is list without its first d entries.
Dropped(list, rest, d) ==
  /\ rest \in Seq(Entry) /\ d \in 0 .. Len(list) /\ Len(rest) = Len(list) - d
  /\ \A k \in 1 .. Len(rest) : rest[k] = list[k + d]

\* Entries without bytes can be freed.
LEMMA DropSize ==
  ASSUME NEW list \in Seq(Entry), NEW rest, NEW d, Dropped(list, rest, d), \A k \in 1 .. d : ~list[k].data
  PROVE  DataSize(rest) = DataSize(list)
<1> DEFINE n == Len(list)
<1>1. /\ n \in Nat /\ DOMAIN list = 1 .. n
      /\ \A k \in 1 .. n : list[k].size \in Nat
  BY EntryIs
<1>2. /\ rest \in Seq(Entry) /\ d \in 0 .. n /\ Len(rest) = n - d /\ DOMAIN rest = 1 .. (n - d)
      /\ \A k \in 1 .. (n - d) : rest[k] = list[k + d]
  BY <1>1 DEF Dropped
<1>3. PICK f : SumBy(list, Data(list), f) /\ DataSize(list) = f[n]
  BY SumExists DEF DataSize
<1>4. PICK g : SumBy(rest, Data(rest), g) /\ DataSize(rest) = g[n - d]
  BY <1>2, SumExists DEF DataSize
<1>5. /\ f \in [0 .. n -> Nat] /\ f[0] = 0
      /\ \A k \in 1 .. n : f[k] = IF list[k].data THEN f[k - 1] + list[k].size ELSE f[k - 1]
  BY <1>1, <1>3 DEF SumBy, SumStep, Data
<1>6. /\ g \in [0 .. (n - d) -> Nat] /\ g[0] = 0
      /\ \A k \in 1 .. (n - d) : g[k] = IF rest[k].data THEN g[k - 1] + rest[k].size ELSE g[k - 1]
  BY <1>2, <1>4 DEF SumBy, SumStep, Data
<1> HIDE DEF n
<1> DEFINE T == {k \in 0 .. n : IF k <= d THEN f[k] = 0 ELSE f[k] = g[k - d]}
<1>7. 0 \in T
  BY <1>1, <1>2, <1>5
<1>8. ASSUME NEW k \in 1 .. n, k - 1 \in T PROVE k \in T
  <2>1. k \in 0 .. n /\ k - 1 \in 0 .. n /\ f[k] = IF list[k].data THEN f[k - 1] + list[k].size ELSE f[k - 1]
    BY <1>1, <1>5
  <2>2. CASE k <= d
    <3>1. k \in 1 .. d /\ k - 1 <= d
      BY <1>1, <1>2, <2>2
    <3>2. f[k] = 0
      BY <1>8, <2>1, <3>1
    <3> QED BY <2>1, <2>2, <3>2
  <2>3. CASE ~(k <= d)
    <3>1. k - d \in 1 .. (n - d) /\ (k - d) + d = k /\ (k - d) - 1 = (k - 1) - d /\ (k - 1 <= d => k - 1 = d /\ (k - 1) - d = 0)
      BY <1>1, <1>2, <2>3
    <3>2. f[k - 1] = g[(k - 1) - d]
      BY <1>6, <1>8, <3>1
    <3>3. g[k - d] = IF rest[k - d].data THEN g[(k - d) - 1] + rest[k - d].size ELSE g[(k - d) - 1]
      BY <1>6, <3>1
    <3>4. rest[k - d] = list[k]
      BY <1>2, <3>1
    <3>5. f[k] = g[k - d]
      BY <2>1, <3>1, <3>2, <3>3, <3>4
    <3> QED BY <2>1, <2>3, <3>5
  <2> QED BY <2>2, <2>3
<1>9. \A k \in 0 .. n : k \in T
  <2> HIDE DEF T
  <2> QED BY <1>1, <1>7, <1>8, NatInduct
<1>10. f[n] = g[n - d]
  <2>1. n \in T /\ (n <= d => n = d /\ n - d = 0)
    BY <1>1, <1>2, <1>9
  <2> QED BY <1>6, <2>1
<1> QED BY <1>3, <1>4, <1>10

---------------------------------------------------------------------------
(* The list as a whole.                                                    *)

\* RX_Next_Highest is one above an entry.
Topped(list, B, M) == B < M => \E i \in DOMAIN list : list[i].id = M - 1

\* The entries of SDUs delivered have given their bytes away; what is complete is delivered.
ListInv(list, B, M, D) ==
  /\ ListOk(list, B, M) /\ Ordered(list) /\ Topped(list, B, M)
  /\ \A i \in DOMAIN list : list[i].data <=> list[i].id \notin D
  /\ \A x \in Nat : B <= x => (x \in D <=> Covered(list, x))

\* An SDU without entries is not there.
LEMMA NotCovered ==
  ASSUME NEW list, NEW x \in Nat, \A i \in DOMAIN list : list[i].id # x
  PROVE  ~Covered(list, x)
<1>1. 0 \in 0 .. (SizeOf(x) - 1)
  BY SizeOfIs
<1> QED BY <1>1 DEF Covered, Holds

\* Neither is one from RX_Next_Highest on.
LEMMA AboveNot ==
  ASSUME NEW list, NEW B, NEW M, NEW D, ListInv(list, B, M, D), NEW x \in Nat, M <= x, B <= M
  PROVE  x \notin D
<1>1. ListOk(list, B, M)
  BY DEF ListInv
<1>2. B \in Nat /\ M \in Nat /\ DOMAIN list = 1 .. Len(list) /\ \A i \in 1 .. Len(list) : list[i].id \in Nat /\ list[i].id < M
  BY <1>1, FitsIs
<1>3. \A i \in DOMAIN list : list[i].id # x
  BY <1>2
<1>4. ~Covered(list, x) /\ B <= x
  BY <1>2, <1>3, NotCovered
<1> QED BY <1>4 DEF ListInv

\* pdu_list_add finds the place of a PDU in the order.
LEMMA ListAddIs ==
  ASSUME NEW r, NEW B, NEW M, ListOk(r.rx_list, B, M), Ordered(r.rx_list), r.rx_next = B % SnCount,
         NEW e \in Entry, Fits(e, B, B + W)
  PROVE  \E i : Inserted(Entry, r.rx_list, R!pdu_list_add(r, e), i, e) /\ Ordered(R!pdu_list_add(r, e))
<1> DEFINE list == r.rx_list
           Test(c) == R!sn_compare_rx(r, c.sn, e.sn) > 0 \/ (c.sn = e.sn /\ c.so > e.so)
           I == {k \in 1 .. Len(list) : Test(list[k])}
           i == IF I # {} THEN Min(I) ELSE 0
           new == R!pdu_list_add(r, e)
<1>1. new = IF i = 0 THEN Append(list, e) ELSE InsertAt(list, i, e)
  <2>1. R!Min(I) = Min(I)
    BY DEF R!Min, Min
  <2>2. \A l, k, p : R!InsertAt(l, k, p) = InsertAt(l, k, p)
    BY DEF R!InsertAt, InsertAt
  <2>3. new = LET j == IF I # {} THEN R!Min(I) ELSE 0
              IN  IF j = 0 THEN Append(list, e) ELSE R!InsertAt(list, j, e)
    BY Zenon DEF R!pdu_list_add, R!SelectInSeq
  <2> HIDE DEF I, new
  <2> QED BY <2>1, <2>2, <2>3
<1>2. PICK n : n = Len(list) /\ n \in Nat /\ DOMAIN list = 1 .. n
  BY FitsIs
<1>3. /\ list \in Seq(Entry) /\ B \in Nat /\ M \in Nat /\ M <= B + W
      /\ \A k \in 1 .. n : /\ list[k].id \in Nat /\ list[k].so \in Nat /\ list[k].sn = list[k].id % SnCount
                           /\ B <= list[k].id /\ list[k].id < B + SnCount
  <2>1. /\ list \in Seq(Entry) /\ B \in Nat /\ M \in Nat /\ M <= B + W
        /\ \A k \in 1 .. n : /\ list[k].id \in Nat /\ list[k].so \in Nat /\ list[k].sn = list[k].id % SnCount
                             /\ B <= list[k].id /\ list[k].id < M
    BY <1>2, FitsIs
  <2> QED BY <2>1, HalfWindow
<1>4. e.id \in Nat /\ e.so \in Nat /\ e.sn = e.id % SnCount /\ B <= e.id /\ e.id < B + SnCount
  <2>1. e.id \in Nat /\ e.so \in Nat
    BY DEF Entry
  <2>2. e.sn = e.id % SnCount /\ B <= e.id /\ e.id < B + W
    BY DEF Fits
  <2> QED BY <1>3, <2>1, <2>2, HalfWindow
<1>5. R!modulus_rx(r, e.sn) = e.id - B
  BY <1>3, <1>4, Ahead1
<1>6. \A k \in 1 .. n : R!modulus_rx(r, list[k].sn) = list[k].id - B
  BY <1>3, Ahead1
<1>7. \A k \in 1 .. n : list[k].sn = e.sn <=> list[k].id = e.id
  BY <1>2, <1>4, EntriesAre
<1>8. ASSUME NEW k \in 1 .. n PROVE (Test(list[k]) => Before(e, list[k])) /\ (~Test(list[k]) => Before(list[k], e))
  <2>1. R!sn_compare_rx(r, list[k].sn, e.sn) = (list[k].id - B) - (e.id - B)
    BY <1>5, <1>6 DEF R!sn_compare_rx
  <2>2. PICK a, b, s, t, q : a = list[k].id /\ b = e.id /\ s = list[k].so /\ t = e.so /\ q = R!sn_compare_rx(r, list[k].sn, e.sn)
    OBVIOUS
  <2>3. a \in Nat /\ b \in Nat /\ s \in Nat /\ t \in Nat /\ q = (a - B) - (b - B) /\ q = a - b
    BY <1>3, <1>4, <2>1, <2>2
  <2>4. Test(list[k]) <=> (q > 0 \/ (a = b /\ s > t))
    BY <1>7, <2>2
  <2>5. Before(e, list[k]) <=> (b < a \/ (b = a /\ t <= s))
    BY <2>2 DEF Before
  <2>6. Before(list[k], e) <=> (a < b \/ (a = b /\ s <= t))
    BY <2>2 DEF Before
  <2> HIDE DEF Test
  <2> QED BY <2>3, <2>4, <2>5, <2>6
<1> HIDE DEF Test
<1>9. PICK p : /\ Inserted(Entry, list, new, p, e) /\ p \in Int
               /\ \A k \in 1 .. n : (k < p => Before(list[k], e)) /\ (k >= p => Before(e, list[k]))
  <2>1. CASE I = {}
    <3>1. new = Append(list, e) /\ Inserted(Entry, list, new, n + 1, e)
      BY <1>1, <1>2, <1>3, <2>1, InsertAtIs
    <3>2. \A k \in 1 .. n : ~Test(list[k]) /\ ~(k >= n + 1)
      BY <1>2, <2>1
    <3> QED BY <1>2, <1>8, <3>1, <3>2
  <2>2. CASE I # {}
    <3>1. I \subseteq Nat
      BY <1>2
    <3>2. I = {k \in 1 .. n : Test(list[k])}
      BY <1>2
    <3> HIDE DEF I
    <3>3. i \in I /\ \A k \in I : i <= k
      BY <2>2, <3>1, MinNat
    <3> HIDE DEF i
    <3>4. i \in 1 .. n /\ i # 0 /\ Test(list[i]) /\ i \in Int
      BY <1>2, <3>2, <3>3
    <3>5. Inserted(Entry, list, new, i, e)
      BY <1>1, <1>2, <1>3, <3>4, InsertAtIs
    <3>6. ASSUME NEW k \in 1 .. n, k < i PROVE Before(list[k], e)
      <4>1. k \notin I
        BY <1>2, <3>3, <3>4, <3>6
      <4> QED BY <1>8, <3>2, <4>1
    <3>7. ASSUME NEW k \in 1 .. n, k >= i PROVE Before(e, list[k])
      <4>1. Before(e, list[i])
        BY <1>8, <3>4
      <4>2. i < k \/ i = k
        BY <1>2, <3>4, <3>7
      <4>3. i < k => Before(list[i], list[k])
        BY <1>2, <3>4 DEF Ordered
      <4>4. list[i].id \in Nat /\ list[k].id \in Nat /\ e.id \in Nat /\ list[i].so \in Nat /\ list[k].so \in Nat /\ e.so \in Nat
        BY <1>3, <1>4, <3>4
      <4> QED BY <4>1, <4>2, <4>3, <4>4 DEF Before
    <3> QED BY <3>4, <3>5, <3>6, <3>7
  <2> QED BY <2>1, <2>2
<1> HIDE DEF new
<1>10. /\ p \in DOMAIN new
       /\ \A k \in DOMAIN new : k # p => \E j \in DOMAIN list : k = Moved(j, p) /\ new[k] = list[j]
       /\ \A k, j \in DOMAIN list : Moved(k, p) <= Moved(j, p) <=> k <= j
       /\ new[p] = e /\ new \in Seq(Entry)
  <2>1. list \in Seq(Entry) /\ Inserted(Entry, list, new, p, e)
    BY <1>3, <1>9
  <2> HIDE DEF list
  <2>2. /\ p \in DOMAIN new
        /\ \A k \in DOMAIN list : Moved(k, p) \in DOMAIN new /\ new[Moved(k, p)] = list[k]
        /\ \A k \in DOMAIN new : k # p => \E j \in DOMAIN list : k = Moved(j, p) /\ new[k] = list[j]
        /\ \A k, j \in DOMAIN list : Moved(k, p) <= Moved(j, p) <=> k <= j
    BY <2>1, InsertedIs, Zenon
  <2> QED BY <2>1, <2>2, Zenon DEF Inserted
<1>11. Ordered(new)
  <2> SUFFICES ASSUME NEW a \in DOMAIN new, NEW b \in DOMAIN new, a < b
               PROVE  Before(new[a], new[b])
    BY DEF Ordered
  <2>0. a \in Int /\ b \in Int
    BY <1>10
  <2>1. CASE a = p
    <3>1. PICK j \in DOMAIN list : b = Moved(j, p) /\ new[b] = list[j]
      BY <1>10, <2>0, <2>1
    <3>2. j \in 1 .. n /\ j >= p
      BY <1>2, <1>9, <2>1, <3>1 DEF Moved
    <3> QED BY <1>9, <1>10, <2>1, <3>1, <3>2
  <2>2. CASE b = p
    <3>1. PICK j \in DOMAIN list : a = Moved(j, p) /\ new[a] = list[j]
      BY <1>10, <2>0, <2>2
    <3>2. j \in 1 .. n /\ j < p
      BY <1>2, <1>9, <2>2, <3>1 DEF Moved
    <3> QED BY <1>9, <1>10, <2>2, <3>1, <3>2
  <2>3. CASE a # p /\ b # p
    <3>1. PICK j \in DOMAIN list : a = Moved(j, p) /\ new[a] = list[j]
      BY <1>10, <2>3, Zenon
    <3>2. PICK k \in DOMAIN list : b = Moved(k, p) /\ new[b] = list[k]
      BY <1>10, <2>3, Zenon
    <3>3. j < k
      BY <1>2, <1>9, <3>1, <3>2 DEF Moved
    <3> QED BY <3>1, <3>2, <3>3 DEF Ordered
  <2> QED BY <2>1, <2>2, <2>3
<1> QED BY <1>9, <1>11, Zenon DEF new

\* The new list holds what the old one held and the new PDU.
LEMMA InsertKeeps ==
  ASSUME NEW list, NEW B, NEW M, ListOk(list, B, M), NEW M1 \in Nat, M <= M1, M1 <= B + W,
         NEW e \in Entry, Fits(e, B, M1), NEW new, NEW i, Inserted(Entry, list, new, i, e)
  PROVE  /\ ListOk(new, B, M1) /\ \E k \in DOMAIN new : new[k].id = e.id
         /\ \A x \in Nat : Covered(list, x) => Covered(new, x)
         /\ \A x \in Nat : x # e.id /\ Covered(new, x) => Covered(list, x)
         /\ \A k \in DOMAIN new : new[k] = e \/ \E j \in DOMAIN list : new[k] = list[j]
         /\ \A j \in DOMAIN list : \E k \in DOMAIN new : new[k] = list[j]
<1>1. /\ list \in Seq(Entry) /\ B \in Nat /\ M \in Nat
      /\ \A k \in DOMAIN list : list[k].id < M /\ list[k].id \in Nat /\ Fits(list[k], B, M)
  <2>1. list \in Seq(Entry) /\ B \in Nat /\ M \in Nat /\ \A k \in DOMAIN list : list[k].id < M /\ list[k].id \in Nat
    BY FitsIs
  <2> QED BY <2>1 DEF ListOk
<1>2. /\ i \in DOMAIN new
      /\ \A k \in DOMAIN list : Moved(k, i) \in DOMAIN new /\ new[Moved(k, i)] = list[k]
      /\ \A k \in DOMAIN new : k # i => \E j \in DOMAIN list : k = Moved(j, i) /\ new[k] = list[j]
      /\ \A k, j \in DOMAIN list : Moved(k, i) <= Moved(j, i) <=> k <= j
  BY <1>1, InsertedIs, Zenon
<1>3. new \in Seq(Entry) /\ new[i] = e
  BY DEF Inserted
<1>4. \A k \in DOMAIN new : new[k] = e \/ \E j \in DOMAIN list : new[k] = list[j]
  BY <1>2, <1>3, Zenon
<1>5. \A k \in DOMAIN list : \E j \in DOMAIN new : new[j] = list[k]
  BY <1>2, Zenon
<1>6. ASSUME NEW k \in DOMAIN list PROVE Fits(list[k], B, M1)
  <2>1. list[k].id < M1
    BY <1>1
  <2> QED BY <1>1, <2>1 DEF Fits
<1>7. ListOk(new, B, M1)
  BY <1>1, <1>3, <1>4, <1>6, Zenon DEF ListOk
<1>8. ASSUME NEW x \in Nat, Covered(list, x) PROVE Covered(new, x)
  BY <1>5, <1>8, Zenon DEF Covered
<1>9. ASSUME NEW x \in Nat, x # e.id, Covered(new, x) PROVE Covered(list, x)
  <2>1. \A b : ~Holds(e, x, b)
    BY <1>9 DEF Holds
  <2> QED BY <1>4, <1>9, <2>1, Zenon DEF Covered
<1> QED BY <1>2, <1>3, <1>4, <1>5, <1>7, <1>8, <1>9

\* Marking changes none of it.
LEMMA MarkKeeps ==
  ASSUME NEW list, NEW B, NEW M, NEW sn, ListOk(list, B, M), Ordered(list)
  PROVE  /\ ListOk(Marked(list, sn), B, M) /\ Ordered(Marked(list, sn))
         /\ \A x \in Nat : Covered(Marked(list, sn), x) <=> Covered(list, x)
         /\ DOMAIN Marked(list, sn) = DOMAIN list
         /\ \A i \in DOMAIN list : /\ Marked(list, sn)[i].id = list[i].id
                                   /\ Marked(list, sn)[i].data <=> list[i].data /\ list[i].sn # sn
<1> DEFINE new == Marked(list, sn)
<1>1. list \in Seq(Entry) /\ B \in Nat /\ M \in Nat /\ M <= B + W /\ \A i \in DOMAIN list : Fits(list[i], B, M)
  BY DEF ListOk
<1>2. /\ new \in Seq(Entry) /\ DOMAIN new = DOMAIN list
      /\ \A i \in DOMAIN list :
           /\ new[i].sn = list[i].sn /\ new[i].so = list[i].so /\ new[i].size = list[i].size
           /\ new[i].first = list[i].first /\ new[i].last = list[i].last /\ new[i].id = list[i].id
           /\ (new[i].data <=> list[i].data /\ list[i].sn # sn) /\ R!End(new[i]) = R!End(list[i])
  <2>1. DOMAIN list = 1 .. Len(list)
    BY <1>1
  <2> QED BY <1>1, <2>1, MarkedIs
<1> HIDE DEF new
<1>3. ASSUME NEW i \in DOMAIN list PROVE Fits(new[i], B, M)
  BY <1>1, <1>2 DEF Fits
<1>4. ListOk(new, B, M)
  BY <1>1, <1>2, <1>3 DEF ListOk
<1>5. Ordered(new)
  BY <1>2 DEF Ordered, Before
<1>6. \A i \in DOMAIN list : \A x, b : Holds(new[i], x, b) <=> Holds(list[i], x, b)
  BY <1>2 DEF Holds
<1>7. \A x \in Nat : Covered(new, x) <=> Covered(list, x)
  BY <1>2, <1>6, Zenon DEF Covered
<1> QED BY <1>2, <1>4, <1>5, <1>7 DEF new

\* The entries freed are those of the SDUs before Y.
LEMMA DropIs ==
  ASSUME NEW r, NEW B, NEW M, ListOk(r.rx_list, B, M), Ordered(r.rx_list), r.rx_next = B % SnCount,
         NEW Y \in Nat, B <= Y, Y <= M
  PROVE  \E d : /\ Dropped(r.rx_list, R!FreeBefore(r, Y % SnCount), d)
                /\ \A k \in 1 .. d : r.rx_list[k].id < Y
                /\ \A k \in (d + 1) .. Len(r.rx_list) : r.rx_list[k].id >= Y
<1> DEFINE list == r.rx_list
           Test(p) == R!sn_compare_rx(r, p.sn, Y % SnCount) >= 0
           I == {k \in 1 .. Len(list) : Test(list[k])}
           i == IF I # {} THEN Min(I) ELSE 0
           new == R!FreeBefore(r, Y % SnCount)
<1>1. new = IF i = 0 THEN <<>> ELSE SubSeq(list, i, Len(list))
  <2>1. R!Min(I) = Min(I)
    BY DEF R!Min, Min
  <2>2. new = LET j == IF I # {} THEN R!Min(I) ELSE 0
              IN  IF j = 0 THEN <<>> ELSE SubSeq(list, j, Len(list))
    BY Zenon DEF R!FreeBefore, R!SelectInSeq
  <2> HIDE DEF I, new
  <2> QED BY <2>1, <2>2
<1>2. PICK n : n = Len(list) /\ n \in Nat /\ DOMAIN list = 1 .. n
  BY FitsIs
<1>3. /\ list \in Seq(Entry) /\ B \in Nat /\ M \in Nat /\ M <= B + W
      /\ \A k \in 1 .. n : /\ list[k].id \in Nat /\ list[k].sn = list[k].id % SnCount
                           /\ B <= list[k].id /\ list[k].id < B + SnCount
  <2>1. /\ list \in Seq(Entry) /\ B \in Nat /\ M \in Nat /\ M <= B + W
        /\ \A k \in 1 .. n : /\ list[k].id \in Nat /\ list[k].sn = list[k].id % SnCount
                             /\ B <= list[k].id /\ list[k].id < M
    BY <1>2, FitsIs
  <2>2. W \in Nat /\ SnCount \in Nat /\ W < SnCount
    BY HalfWindow
  <2>3. ASSUME NEW k \in 1 .. n PROVE list[k].id < B + SnCount
    <3>1. list[k].id \in Nat /\ list[k].id < M
      BY <2>1
    <3> QED BY <2>1, <2>2, <3>1
  <2> QED BY <2>1, <2>3
<1>4. R!modulus_rx(r, Y % SnCount) = Y - B
  <2>1. Y < B + SnCount
    BY <1>3, HalfWindow
  <2> QED BY <1>3, <2>1, Ahead1
<1>5. ASSUME NEW k \in 1 .. n PROVE Test(list[k]) <=> list[k].id >= Y
  <2>1. R!modulus_rx(r, list[k].sn) = list[k].id - B
    BY <1>3, Ahead1
  <2>2. R!sn_compare_rx(r, list[k].sn, Y % SnCount) = (list[k].id - B) - (Y - B)
    BY <1>4, <2>1 DEF R!sn_compare_rx
  <2> QED BY <1>3, <2>2
<1> HIDE DEF Test, new
<1>6. CASE I = {}
  <2>1. new = <<>> /\ <<>> \in Seq(Entry) /\ Len(<<>>) = 0
    BY <1>1, <1>6
  <2>2. n \in 0 .. n /\ 0 = n - n /\ \A k \in 1 .. n : list[k].id < Y
    BY <1>2, <1>3, <1>5, <1>6
  <2>3. (\A k \in 1 .. 0 : FALSE) /\ \A k \in (n + 1) .. n : FALSE
    BY <1>2
  <2>4. Dropped(list, <<>>, n)
    BY <1>2, <2>1, <2>2, <2>3, Zenon DEF Dropped
  <2> QED BY <1>2, <2>1, <2>2, <2>3, <2>4, Zenon DEF new
<1>7. CASE I # {}
  <2>1. I \subseteq Nat /\ I = {k \in 1 .. n : Test(list[k])}
    BY <1>2
  <2> HIDE DEF I
  <2>2. i \in I /\ \A k \in I : i <= k
    BY <1>7, <2>1, MinNat
  <2> HIDE DEF i
  <2>3. i \in 1 .. n /\ i # 0 /\ list[i].id >= Y
    BY <1>2, <1>5, <2>1, <2>2
  <2>4. PICK d, rest : d = i - 1 /\ rest = SubSeq(list, i, n)
    OBVIOUS
  <2>5. rest \in Seq(Entry) /\ Len(rest) = n - d /\ \A k \in 1 .. (n - d) : rest[k] = list[k + d]
    <3>1. /\ SubSeq(list, i, n) \in Seq(Entry) /\ Len(SubSeq(list, i, n)) = n - i + 1
          /\ \A k \in 1 .. (n - i + 1) : SubSeq(list, i, n)[k] = list[i + k - 1]
      BY <1>2, <1>3, <2>3
    <3>2. n - i + 1 = n - d /\ \A k \in 1 .. (n - d) : i + k - 1 = k + d
      BY <1>2, <2>3, <2>4
    <3> QED BY <2>4, <3>1, <3>2
  <2>6. ASSUME NEW k \in 1 .. d PROVE list[k].id < Y
    <3>1. k \in 1 .. n /\ ~(i <= k)
      BY <1>2, <2>3, <2>4
    <3>2. ~(list[k].id >= Y)
      BY <1>5, <2>1, <2>2, <3>1
    <3> QED BY <1>3, <3>1, <3>2
  <2>7. ASSUME NEW k \in (d + 1) .. n PROVE list[k].id >= Y
    <3>1. k \in 1 .. n /\ (i < k \/ i = k) /\ i \in 1 .. n
      BY <1>2, <2>3, <2>4
    <3>2. i < k => Before(list[i], list[k])
      BY <1>2, <3>1 DEF Ordered
    <3> QED BY <1>3, <2>3, <3>1, <3>2 DEF Before
  <2>8. d \in 0 .. n
    BY <1>2, <2>3, <2>4
  <2>9. Dropped(list, rest, d)
    BY <1>2, <2>5, <2>8 DEF Dropped
  <2>10. new = rest
    BY <1>1, <1>2, <2>3, <2>4
  <2> QED BY <1>2, <2>6, <2>7, <2>9, <2>10 DEF new
<1> QED BY <1>6, <1>7

\* What is left is what was there from Y on.
LEMMA DropKeeps ==
  ASSUME NEW list, NEW B, NEW M, NEW D, ListInv(list, B, M, D), NEW Y \in Nat, B <= Y, NEW rest, NEW d,
         Dropped(list, rest, d), \A k \in 1 .. d : list[k].id < Y,
         \A k \in (d + 1) .. Len(list) : list[k].id >= Y
  PROVE  ListInv(rest, Y, M, D)
<1>1. PICK n : n = Len(list) /\ n \in Nat /\ DOMAIN list = 1 .. n
  BY FitsIs DEF ListInv
<1>2. /\ list \in Seq(Entry) /\ B \in Nat /\ M \in Nat /\ M <= B + W /\ \A k \in 1 .. n : Fits(list[k], B, M)
      /\ \A k \in 1 .. n : list[k].id \in Nat
  <2>1. ListOk(list, B, M)
    BY DEF ListInv
  <2> QED BY <1>1, <2>1, FitsIs DEF ListOk
<1>3. /\ rest \in Seq(Entry) /\ d \in 0 .. n /\ DOMAIN rest = 1 .. (n - d)
      /\ \A k \in 1 .. (n - d) : rest[k] = list[k + d]
  BY <1>1 DEF Dropped
<1>4. \A k \in 1 .. (n - d) : k + d \in (d + 1) .. n /\ k + d \in 1 .. n
  BY <1>1, <1>3
<1>5. \A k \in 1 .. (n - d) : Fits(rest[k], Y, M)
  BY <1>1, <1>2, <1>3, <1>4 DEF Fits
<1>6. ListOk(rest, Y, M)
  <2>1. M <= Y + W
    BY <1>2, HalfWindow
  <2> QED BY <1>2, <1>3, <1>5, <2>1 DEF ListOk
<1>7. Ordered(rest)
  <2> SUFFICES ASSUME NEW i \in 1 .. (n - d), NEW j \in 1 .. (n - d), i < j PROVE Before(rest[i], rest[j])
    BY <1>3 DEF Ordered
  <2>1. i + d \in DOMAIN list /\ j + d \in DOMAIN list /\ i + d < j + d
    BY <1>1, <1>3, <1>4
  <2>2. Before(list[i + d], list[j + d])
    BY <2>1 DEF ListInv, Ordered
  <2> QED BY <1>3, <2>2
<1>8. ASSUME NEW k \in 1 .. (n - d) PROVE rest[k].data <=> rest[k].id \notin D
  <2>1. k + d \in DOMAIN list /\ rest[k] = list[k + d]
    BY <1>1, <1>3, <1>4
  <2> QED BY <2>1 DEF ListInv
<1>9. ASSUME NEW x \in Nat, Y <= x PROVE Covered(rest, x) <=> Covered(list, x)
  <2>1. ASSUME NEW b, NEW i \in DOMAIN list, Holds(list[i], x, b) PROVE \E j \in DOMAIN rest : Holds(rest[j], x, b)
    <3>1. list[i].id = x
      BY <2>1 DEF Holds
    <3>2. ~(i \in 1 .. d)
      BY <1>2, <1>9, <3>1
    <3>2a. i \in Int /\ 1 <= i /\ i <= n /\ d \in Int /\ n \in Int
      BY <1>1, <1>3
    <3>3. i - d \in 1 .. (n - d) /\ (i - d) + d = i
      BY <3>2, <3>2a
    <3>4. rest[i - d] = list[i]
      BY <1>3, <3>3
    <3> QED BY <1>3, <2>1, <3>3, <3>4
  <2>2. ASSUME NEW b, NEW j \in DOMAIN rest, Holds(rest[j], x, b) PROVE \E i \in DOMAIN list : Holds(list[i], x, b)
    <3>1. j + d \in DOMAIN list /\ rest[j] = list[j + d]
      BY <1>1, <1>3, <1>4
    <3> QED BY <2>2, <3>1
  <2> QED BY <2>1, <2>2, Zenon DEF Covered
<1>10. \A x \in Nat : Y <= x => (x \in D <=> Covered(rest, x))
  <2> SUFFICES ASSUME NEW x \in Nat, Y <= x PROVE x \in D <=> Covered(rest, x)
    OBVIOUS
  <2>1. B <= x
    BY <1>2
  <2>2. x \in D <=> Covered(list, x)
    BY <2>1, Zenon DEF ListInv
  <2> QED BY <1>9, <2>2
<1>11. Topped(rest, Y, M)
  <2> SUFFICES ASSUME Y < M PROVE \E j \in DOMAIN rest : rest[j].id = M - 1
    BY DEF Topped
  <2>1. B < M
    BY <1>2
  <2>2. PICK i \in DOMAIN list : list[i].id = M - 1
    BY <2>1 DEF ListInv, Topped
  <2>3. ~(i \in 1 .. d)
    BY <1>2, <2>2
  <2>4. i \in Int /\ 1 <= i /\ i <= n /\ d \in Int /\ n \in Int
    BY <1>1, <1>3
  <2>5. i - d \in 1 .. (n - d) /\ (i - d) + d = i
    BY <2>3, <2>4
  <2> QED BY <1>3, <2>2, <2>5
<1> QED BY <1>3, <1>6, <1>7, <1>8, <1>10, <1>11 DEF ListInv

\* The first SDU from X on that is not delivered.
LEMMA FirstUndeliveredIs ==
  ASSUME NEW r, NEW B, NEW M, NEW D, ListInv(r.rx_list, B, M, D), r.rx_next = B % SnCount,
         NEW X \in Nat, B <= X, X <= M
  PROVE  \E Y \in Nat : /\ X <= Y /\ Y <= M /\ Y \notin D /\ \A y \in X .. (Y - 1) : y \in D
                        /\ R!FirstUndelivered(r, X % SnCount) = Y % SnCount
<1> DEFINE N == {n \in 0 .. (SnCount - 1) : ~R!sdu_delivered(r, R!Plus(X % SnCount, n))}
<1>1. ListOk(r.rx_list, B, M) /\ B \in Nat /\ M \in Nat /\ M <= B + W
  BY DEF ListInv, ListOk
<1>2. M - X \in 0 .. (SnCount - 1)
  BY <1>1, HalfWindow
<1>3. ASSUME NEW n \in 0 .. (M - X) PROVE /\ n \in 0 .. (SnCount - 1)
                                          /\ R!sdu_delivered(r, R!Plus(X % SnCount, n)) <=> X + n \in D
  <2>1. n \in Nat /\ n \in 0 .. (SnCount - 1) /\ X + n \in Nat /\ B <= X + n /\ X + n < B + SnCount
    BY <1>1, <1>2, HalfWindow
  <2>2. R!Plus(X % SnCount, n) = (X + n) % SnCount
    BY <2>1, PlusIs
  <2>3. /\ \A i \in DOMAIN r.rx_list : r.rx_list[i].data <=> r.rx_list[i].id \notin D
        /\ X + n \in D => Covered(r.rx_list, X + n)
    BY <2>1 DEF ListInv
  <2>4. R!sdu_delivered(r, (X + n) % SnCount) <=> X + n \in D
    BY <1>1, <2>1, <2>3, DeliveredIs
  <2> QED BY <2>1, <2>2, <2>4
<1>4. M \notin D
  BY <1>1, AboveNot
<1>5. M - X \in N
  <2>1. X + (M - X) = M /\ M - X \in 0 .. (M - X)
    BY <1>1, <1>2
  <2> QED BY <1>2, <1>3, <1>4, <2>1
<1>6. N \subseteq Nat
  BY HalfWindow
<1>7. R!FirstUndelivered(r, X % SnCount) = R!Plus(X % SnCount, Min(N))
  <2>1. R!Min(N) = Min(N)
    BY DEF R!Min, Min
  <2> QED BY <2>1, Zenon DEF R!FirstUndelivered
<1>8. \A n : n \in N <=> n \in 0 .. (SnCount - 1) /\ ~R!sdu_delivered(r, R!Plus(X % SnCount, n))
  OBVIOUS
<1> HIDE DEF N
<1>9. PICK m : m = Min(N) /\ m \in N /\ \A y \in N : m <= y
  BY <1>5, <1>6, MinNat
<1>10. m \in Nat /\ m \in 0 .. (M - X)
  BY <1>1, <1>5, <1>6, <1>9
<1>11. X + m \in Nat /\ X <= X + m /\ X + m <= M
  BY <1>1, <1>10
<1>12. X + m \notin D
  BY <1>3, <1>8, <1>9, <1>10
<1>13. ASSUME NEW y \in X .. ((X + m) - 1) PROVE y \in D
  <2>1. y - X \in 0 .. (M - X) /\ ~(m <= y - X) /\ X + (y - X) = y
    BY <1>1, <1>10
  <2> QED BY <1>3, <1>8, <1>9, <2>1
<1>14. R!FirstUndelivered(r, X % SnCount) = (X + m) % SnCount
  BY <1>7, <1>9, <1>10, PlusIs
<1> QED BY <1>11, <1>12, <1>13, <1>14

---------------------------------------------------------------------------
(* The invariant.                                                          *)

RxState == [rx_next : Sns, rx_next_status_trigger : Sns, rx_highest_status : Sns, rx_next_highest : Sns,
            status_triggered : BOOLEAN, t_reassembly : BOOLEAN, t_status_prohibit : BOOLEAN,
            rx_list : Seq(Entry), rx_size : Int, delivered : Seq(ByteSeq)]

\* B <= H <= M <= B + W are the numbers of RX_Next, RX_Highest_Status and RX_Next_Highest.
Numbers(r, B, H, M) ==
  /\ B \in Nat /\ H \in Nat /\ M \in Nat /\ B <= H /\ H <= M /\ M <= B + W
  /\ r.rx_next = B % SnCount /\ r.rx_highest_status = H % SnCount /\ r.rx_next_highest = M % SnCount

\* The trigger of t_reassembly is after L, and every SDU between it and H is delivered: when the
\* timer expires, RX_Highest_Status does not go back.
Timer(r, L, H, M, D) ==
  r.t_reassembly => \E T \in Nat : /\ L < T /\ T <= M /\ r.rx_next_status_trigger = T % SnCount
                                   /\ \A y \in T .. (H - 1) : y \in D

\* The SDUs of D have been given away, once each.
Given(d, D) ==
  /\ \A i \in DOMAIN d : \E x \in D : d[i] = Whole(x)
  /\ \A x \in D : \E i \in DOMAIN d : d[i] = Whole(x)
  /\ \A i, j \in DOMAIN d : i # j => d[i] # d[j]

\* What holds throughout reception_actions; L is where RX_Next was before.
Inv0(r, B, L, H, M, D) ==
  /\ r \in RxState /\ Numbers(r, B, H, M)
  /\ D \subseteq 0 .. (MaxSdus - 1) /\ 0 .. (B - 1) \subseteq D
  /\ ListInv(r.rx_list, B, M, D) /\ r.rx_size = DataSize(r.rx_list)
  /\ Given(r.delivered, D)
  /\ Timer(r, L, H, M, D)
Inv(r, B, H, M, D) == Inv0(r, B, B, H, M, D) /\ B \notin D /\ H \notin D

\* The parts of the invariant that a change of some fields leaves alone.
LEMMA SameInv ==
  ASSUME NEW r, NEW B, NEW L, NEW H, NEW M, NEW D, Inv0(r, B, L, H, M, D), NEW q \in RxState,
         q.rx_next = r.rx_next, q.rx_highest_status = r.rx_highest_status,
         q.rx_next_highest = r.rx_next_highest, q.rx_list = r.rx_list, q.rx_size = r.rx_size,
         q.delivered = r.delivered, Timer(q, L, H, M, D)
  PROVE  Inv0(q, B, L, H, M, D)
<1>1. Numbers(q, B, H, M)
  BY DEF Inv0, Numbers
<1>2. D \subseteq 0 .. (MaxSdus - 1) /\ 0 .. (B - 1) \subseteq D /\ ListInv(r.rx_list, B, M, D)
      /\ r.rx_size = DataSize(r.rx_list) /\ Given(r.delivered, D)
  BY DEF Inv0
<1> QED BY <1>1, <1>2, Zenon DEF Inv0

\* The timer clause is about these fields only.
LEMMA SameTimer ==
  ASSUME NEW r, NEW L, NEW H, NEW M, NEW D, Timer(r, L, H, M, D), NEW q,
         q.t_reassembly => r.t_reassembly, q.rx_next_status_trigger = r.rx_next_status_trigger
  PROVE  Timer(q, L, H, M, D)
BY Zenon DEF Timer

\* The flags of a STATUS do not matter.
LEMMA StatusFlagsKeep ==
  ASSUME NEW r, NEW B, NEW H, NEW M, NEW D, Inv(r, B, H, M, D)
  PROVE  /\ \A b \in BOOLEAN : Inv([r EXCEPT !.status_triggered = b], B, H, M, D)
         /\ Inv([r EXCEPT !.t_status_prohibit = FALSE], B, H, M, D)
         /\ Inv([r EXCEPT !.status_triggered = FALSE, !.t_status_prohibit = TRUE], B, H, M, D)
<1>1. Inv0(r, B, B, H, M, D) /\ B \notin D /\ H \notin D /\ r \in RxState /\ Timer(r, B, H, M, D)
  BY DEF Inv, Inv0
<1>2. ASSUME NEW q \in RxState, q.rx_next = r.rx_next, q.rx_highest_status = r.rx_highest_status,
             q.rx_next_highest = r.rx_next_highest, q.rx_list = r.rx_list, q.rx_size = r.rx_size,
             q.delivered = r.delivered, q.t_reassembly = r.t_reassembly,
             q.rx_next_status_trigger = r.rx_next_status_trigger
      PROVE  Inv(q, B, H, M, D)
  <2>1. Timer(q, B, H, M, D)
    BY <1>1, <1>2, SameTimer
  <2>2. Inv0(q, B, B, H, M, D)
    BY <1>1, <1>2, <2>1, SameInv
  <2> QED BY <1>1, <2>2 DEF Inv
<1>3. ASSUME NEW b \in BOOLEAN PROVE Inv([r EXCEPT !.status_triggered = b], B, H, M, D)
  <2>1. PICK q : q = [r EXCEPT !.status_triggered = b]
    OBVIOUS
  <2>2. /\ q \in RxState /\ q.rx_next = r.rx_next /\ q.rx_highest_status = r.rx_highest_status
        /\ q.rx_next_highest = r.rx_next_highest /\ q.rx_list = r.rx_list /\ q.rx_size = r.rx_size
        /\ q.delivered = r.delivered /\ q.t_reassembly = r.t_reassembly
        /\ q.rx_next_status_trigger = r.rx_next_status_trigger
    BY <1>1, <2>1 DEF RxState
  <2>3. Inv(q, B, H, M, D)
    BY <1>2, <2>2
  <2> QED BY <2>1, <2>3
<1>4. Inv([r EXCEPT !.t_status_prohibit = FALSE], B, H, M, D)
  <2>1. PICK q : q = [r EXCEPT !.t_status_prohibit = FALSE]
    OBVIOUS
  <2>2. /\ q \in RxState /\ q.rx_next = r.rx_next /\ q.rx_highest_status = r.rx_highest_status
        /\ q.rx_next_highest = r.rx_next_highest /\ q.rx_list = r.rx_list /\ q.rx_size = r.rx_size
        /\ q.delivered = r.delivered /\ q.t_reassembly = r.t_reassembly
        /\ q.rx_next_status_trigger = r.rx_next_status_trigger
    BY <1>1, <2>1 DEF RxState
  <2>3. Inv(q, B, H, M, D)
    BY <1>2, <2>2
  <2> QED BY <2>1, <2>3
<1>5. Inv([r EXCEPT !.status_triggered = FALSE, !.t_status_prohibit = TRUE], B, H, M, D)
  <2>1. PICK q : q = [r EXCEPT !.status_triggered = FALSE, !.t_status_prohibit = TRUE]
    OBVIOUS
  <2>2. /\ q \in RxState /\ q.rx_next = r.rx_next /\ q.rx_highest_status = r.rx_highest_status
        /\ q.rx_next_highest = r.rx_next_highest /\ q.rx_list = r.rx_list /\ q.rx_size = r.rx_size
        /\ q.delivered = r.delivered /\ q.t_reassembly = r.t_reassembly
        /\ q.rx_next_status_trigger = r.rx_next_status_trigger
    BY <1>1, <2>1 DEF RxState
  <2>3. Inv(q, B, H, M, D)
    BY <1>2, <2>2
  <2> QED BY <2>1, <2>3
<1> QED BY <1>3, <1>4, <1>5

---------------------------------------------------------------------------
(* t_reassembly.                                                           *)

\* A gap after SDU F means that something beyond F has arrived.
LEMMA GapIs ==
  ASSUME NEW r, NEW B, NEW H, NEW M, Numbers(r, B, H, M), NEW F \in Nat, B <= F, F <= M,
         R!GapAfter(r, F % SnCount)
  PROVE  F < M
<1>1. /\ B \in Nat /\ M \in Nat /\ M <= B + W /\ r.rx_next = B % SnCount /\ r.rx_next_highest = M % SnCount
  BY DEF Numbers
<1>2. R!Plus(F % SnCount, 1) = (F + 1) % SnCount
  BY PlusIs
<1>3. F + 1 \in Nat /\ B <= F + 1 /\ F + 1 < B + SnCount /\ B <= M /\ M < B + SnCount
  BY <1>1, HalfWindow
<1>4. R!modulus_rx(r, (F + 1) % SnCount) = (F + 1) - B /\ R!modulus_rx(r, M % SnCount) = M - B
  BY <1>1, <1>3, Ahead1
<1>5. CASE R!sn_compare_rx(r, r.rx_next_highest, R!Plus(F % SnCount, 1)) > 0
  <2>1. (M - B) - ((F + 1) - B) > 0
    BY <1>1, <1>2, <1>4, <1>5 DEF R!sn_compare_rx
  <2> QED BY <1>1, <2>1
<1>6. CASE r.rx_next_highest = R!Plus(F % SnCount, 1)
  <2>1. M % SnCount = (F + 1) % SnCount /\ M - (F + 1) < SnCount /\ (F + 1) - M < SnCount
    BY <1>1, <1>2, <1>3, <1>6, HalfWindow
  <2>2. M = F + 1
    BY <1>1, <1>3, <2>1, SameSn
  <2> QED BY <2>2
<1> QED BY <1>5, <1>6 DEF R!GapAfter

\* Starting the timer sets the trigger to RX_Next_Highest.
LEMMA StartKeeps ==
  ASSUME NEW r, NEW B, NEW H, NEW M, NEW D, Inv(r, B, H, M, D), NEW gap \in BOOLEAN, gap => B < M
  PROVE  Inv(R!StartReassemblyIf(r, gap), B, H, M, D)
<1>1. Inv0(r, B, B, H, M, D) /\ B \notin D /\ H \notin D /\ r \in RxState /\ Numbers(r, B, H, M)
  BY DEF Inv, Inv0
<1>2. CASE ~gap
  BY <1>2 DEF R!StartReassemblyIf
<1>3. CASE gap
  <2>1. PICK q : q = [r EXCEPT !.t_reassembly = TRUE, !.rx_next_status_trigger = r.rx_next_highest]
    OBVIOUS
  <2>2. /\ q \in RxState /\ q.rx_next = r.rx_next /\ q.rx_highest_status = r.rx_highest_status
        /\ q.rx_next_highest = r.rx_next_highest /\ q.rx_list = r.rx_list /\ q.rx_size = r.rx_size
        /\ q.delivered = r.delivered /\ q.rx_next_status_trigger = r.rx_next_highest
    BY <1>1, <2>1 DEF RxState
  <2>3. M \in Nat /\ B < M /\ M <= M /\ q.rx_next_status_trigger = M % SnCount /\ \A y \in M .. (H - 1) : y \in D
    BY <1>1, <1>3, <2>2 DEF Numbers
  <2>4. Timer(q, B, H, M, D)
    BY <2>3, Zenon DEF Timer
  <2>5. Inv0(q, B, B, H, M, D)
    BY <1>1, <2>2, <2>4, SameInv
  <2>6. R!StartReassemblyIf(r, gap) = q
    BY <1>3, <2>1 DEF R!StartReassemblyIf
  <2> QED BY <1>1, <2>5, <2>6 DEF Inv
<1> QED BY <1>2, <1>3

\* Unless the timer is stopped, its trigger is after RX_Next, which has moved from L to B.
LEMMA StopKeeps ==
  ASSUME NEW r, NEW B, NEW L \in Nat, NEW H, NEW M, NEW D, Inv0(r, B, L, H, M, D), L <= B, M <= L + W,
         B \notin D, H \notin D
  PROVE  Inv([r EXCEPT !.t_reassembly = @ /\ ~R!StopReassembly(r)], B, H, M, D)
<1>1. r \in RxState /\ Numbers(r, B, H, M) /\ Timer(r, L, H, M, D)
  BY DEF Inv0
<1>2. B \in Nat /\ M \in Nat /\ B <= M /\ r.rx_next = B % SnCount
  BY <1>1 DEF Numbers
<1>3. PICK q : q = [r EXCEPT !.t_reassembly = @ /\ ~R!StopReassembly(r)]
  OBVIOUS
<1>4. /\ q \in RxState /\ q.rx_next = r.rx_next /\ q.rx_highest_status = r.rx_highest_status
      /\ q.rx_next_highest = r.rx_next_highest /\ q.rx_list = r.rx_list /\ q.rx_size = r.rx_size
      /\ q.delivered = r.delivered /\ q.rx_next_status_trigger = r.rx_next_status_trigger
      /\ q.t_reassembly = (r.t_reassembly /\ ~R!StopReassembly(r))
  BY <1>1, <1>3 DEF RxState
<1>5. Timer(q, B, H, M, D)
  <2> SUFFICES ASSUME q.t_reassembly
               PROVE  \E T \in Nat : /\ B < T /\ T <= M /\ q.rx_next_status_trigger = T % SnCount
                                     /\ \A y \in T .. (H - 1) : y \in D
    BY DEF Timer
  <2>1. r.t_reassembly /\ ~R!StopReassembly(r)
    BY <1>4
  <2>2. PICK T \in Nat : /\ L < T /\ T <= M /\ r.rx_next_status_trigger = T % SnCount
                         /\ \A y \in T .. (H - 1) : y \in D
    BY <1>1, <2>1 DEF Timer
  <2>3. T # B
    BY <1>2, <2>1, <2>2 DEF R!StopReassembly
  <2>4. ~(T < B)
    <3> SUFFICES ASSUME T < B PROVE FALSE
      OBVIOUS
    <3>1. B - SnCount <= T /\ T - B + SnCount > W /\ B - W < T
      BY <1>2, <2>2, HalfWindow
    <3>2. R!modulus_rx(r, T % SnCount) = T - B + SnCount
      BY <1>2, <3>1, Behind1
    <3>3. ~R!sn_in_recv_window(r, T % SnCount)
      <4>1. ~(T - B + SnCount < W)
        BY <1>2, <3>1, HalfWindow
      <4> QED BY <3>2, <4>1, HalfWindow DEF R!sn_in_recv_window
    <3>4. R!Plus(r.rx_next, R!WindowSize) = (B + W) % SnCount
      BY <1>2, HalfWindow, PlusIs
    <3>5. T % SnCount # (B + W) % SnCount
      <4>1. B + W \in Nat /\ T # B + W /\ T - (B + W) < SnCount /\ (B + W) - T < SnCount
        BY <1>2, <3>1, HalfWindow
      <4> QED BY <4>1, SameSn
    <3> QED BY <2>1, <2>2, <3>3, <3>4, <3>5 DEF R!StopReassembly
  <2>5. B < T
    BY <1>2, <2>3, <2>4
  <2> QED BY <1>4, <2>2, <2>5
<1>7. Inv0(q, B, B, H, M, D)
  <2>1. Numbers(q, B, H, M)
    BY <1>1, <1>4 DEF Numbers
  <2>2. D \subseteq 0 .. (MaxSdus - 1) /\ 0 .. (B - 1) \subseteq D /\ ListInv(r.rx_list, B, M, D)
        /\ r.rx_size = DataSize(r.rx_list) /\ Given(r.delivered, D)
    BY DEF Inv0
  <2> QED BY <1>4, <1>5, <2>1, <2>2, Zenon DEF Inv0
<1> QED BY <1>3, <1>7 DEF Inv

---------------------------------------------------------------------------
(* reception_actions.                                                      *)

\* A segment of SDU x has been added, and RX_Next_Highest moved; of SDU x nothing is said yet.
Mid(r, B, H, M, D, x) ==
  /\ r \in RxState /\ Numbers(r, B, H, M)
  /\ D \subseteq 0 .. (MaxSdus - 1) /\ 0 .. (B - 1) \subseteq D /\ B \notin D /\ H \notin D
  /\ x \in 0 .. (MaxSdus - 1) /\ B <= x /\ x < M /\ x \notin D
  /\ ListOk(r.rx_list, B, M) /\ Ordered(r.rx_list) /\ Topped(r.rx_list, B, M)
  /\ \A i \in DOMAIN r.rx_list : r.rx_list[i].data <=> r.rx_list[i].id \notin D
  /\ \A y \in Nat : B <= y /\ y # x => (y \in D <=> Covered(r.rx_list, y))
  /\ \E i \in DOMAIN r.rx_list : r.rx_list[i].id = x
  /\ r.rx_size = DataSize(r.rx_list)
  /\ Given(r.delivered, D)
  /\ Timer(r, B, H, M, D)

\* What reception_actions does before it looks whether the SDU is full.
Highest(r, sn) ==
  [r EXCEPT !.rx_next_highest = IF R!sn_compare_rx(r, sn, @) >= 0 THEN R!Plus(sn, 1) ELSE @]

\* A PDU of an SDU in the window that is not delivered is added.
LEMMA KeptMid ==
  ASSUME NEW r, NEW B, NEW H, NEW M, NEW D, Inv(r, B, H, M, D), NEW e \in Entry, Fits(e, B, B + W), e.data,
         e.id \notin D, e.id \in 0 .. (MaxSdus - 1)
  PROVE  \E M1 : /\ Mid(Highest([r EXCEPT !.rx_size = @ + e.size, !.rx_list = R!pdu_list_add(r, e)], e.sn),
                        B, H, M1, D, e.id)
                 /\ M <= M1 /\ M1 <= B + W
<1> DEFINE list == r.rx_list
           new == R!pdu_list_add(r, e)
<1>1. /\ r \in RxState /\ Numbers(r, B, H, M) /\ ListOk(list, B, M) /\ Ordered(list)
      /\ ListInv(list, B, M, D) /\ r.rx_size = DataSize(list) /\ Given(r.delivered, D) /\ Timer(r, B, H, M, D)
      /\ D \subseteq 0 .. (MaxSdus - 1) /\ 0 .. (B - 1) \subseteq D /\ B \notin D /\ H \notin D
  BY DEF Inv, Inv0, ListInv
<1>2. /\ B \in Nat /\ H \in Nat /\ M \in Nat /\ B <= H /\ H <= M /\ M <= B + W
      /\ r.rx_next = B % SnCount /\ r.rx_next_highest = M % SnCount
  BY <1>1 DEF Numbers
<1>3. e.id \in Nat /\ e.size \in Nat /\ e.sn = e.id % SnCount /\ B <= e.id /\ e.id < B + W
  BY DEF Entry, Fits
<1>4. PICK i : Inserted(Entry, list, new, i, e) /\ Ordered(new)
  BY <1>1, <1>2, ListAddIs
<1>5. list \in Seq(Entry) /\ new \in Seq(Entry)
  BY <1>1, <1>4 DEF ListOk, Inserted
<1> HIDE DEF new
<1>6. DataSize(new) = DataSize(list) + e.size
  BY <1>4, <1>5, InsertSize
<1>7. PICK x, M1 : x = e.id /\ M1 = IF x >= M THEN x + 1 ELSE M
  OBVIOUS
<1>8. x \in Nat /\ B <= x /\ x < B + W /\ e.sn = x % SnCount /\ x \notin D /\ x \in 0 .. (MaxSdus - 1)
  BY <1>3, <1>7
<1>9. M1 \in Nat /\ M <= M1 /\ M1 <= B + W /\ x < M1
  BY <1>2, <1>7, <1>8, HalfWindow
<1>10. Fits(e, B, M1)
  BY <1>7, <1>9 DEF Fits
<1>11. /\ ListOk(new, B, M1) /\ \E k \in DOMAIN new : new[k].id = e.id
       /\ \A y \in Nat : Covered(list, y) => Covered(new, y)
       /\ \A y \in Nat : y # e.id /\ Covered(new, y) => Covered(list, y)
       /\ \A k \in DOMAIN new : new[k] = e \/ \E j \in DOMAIN list : new[k] = list[j]
       /\ \A j \in DOMAIN list : \E k \in DOMAIN new : new[k] = list[j]
  BY <1>1, <1>4, <1>9, <1>10, InsertKeeps
<1>11a. Topped(new, B, M1)
  <2>1. CASE x >= M
    <3>1. M1 - 1 = e.id
      BY <1>7, <1>8, <2>1
    <3> QED BY <1>11, <3>1 DEF Topped
  <2>2. CASE ~(x >= M)
    <3>1. M1 = M /\ B < M
      BY <1>2, <1>7, <1>8, <2>2
    <3>2. PICK j \in DOMAIN list : list[j].id = M - 1
      BY <1>1, <3>1 DEF ListInv, Topped
    <3> QED BY <1>11, <3>1, <3>2 DEF Topped
  <2> QED BY <2>1, <2>2
<1>12. PICK q : q = [r EXCEPT !.rx_size = @ + e.size, !.rx_list = new]
  OBVIOUS
<1>13. /\ q \in RxState /\ q.rx_list = new /\ q.rx_size = r.rx_size + e.size
       /\ q.rx_next = r.rx_next /\ q.rx_highest_status = r.rx_highest_status /\ q.rx_next_highest = r.rx_next_highest
       /\ q.delivered = r.delivered /\ q.t_reassembly = r.t_reassembly
       /\ q.rx_next_status_trigger = r.rx_next_status_trigger
  <2>1. r.rx_size \in Int /\ r.rx_size + e.size \in Int
    BY <1>1, <1>3 DEF RxState
  <2> QED BY <1>1, <1>5, <1>12, <2>1 DEF RxState
<1>14. (IF R!sn_compare_rx(q, e.sn, q.rx_next_highest) >= 0 THEN R!Plus(e.sn, 1) ELSE q.rx_next_highest) = M1 % SnCount
  <2>1. x < B + SnCount /\ M < B + SnCount /\ B <= M
    BY <1>2, <1>8, HalfWindow
  <2>2. R!modulus_rx(q, x % SnCount) = x - B
    BY <1>2, <1>8, <1>13, <2>1, Ahead1
  <2>3. R!modulus_rx(q, M % SnCount) = M - B
    BY <1>2, <1>13, <2>1, Ahead1
  <2>4. R!sn_compare_rx(q, e.sn, q.rx_next_highest) = (x - B) - (M - B)
    BY <1>2, <1>8, <1>13, <2>2, <2>3 DEF R!sn_compare_rx
  <2>5. R!sn_compare_rx(q, e.sn, q.rx_next_highest) >= 0 <=> x >= M
    BY <1>2, <1>8, <2>4
  <2>6. R!Plus(e.sn, 1) = (x + 1) % SnCount
    BY <1>8, PlusIs
  <2> QED BY <1>2, <1>7, <1>13, <2>5, <2>6
<1>15. PICK t : t = Highest(q, e.sn)
  OBVIOUS
<1>16. M1 % SnCount \in Sns
  BY <1>9, SnIs
<1>17. t = [q EXCEPT !.rx_next_highest = M1 % SnCount]
  BY <1>14, <1>15 DEF Highest
<1>18. /\ t \in RxState /\ t.rx_list = new /\ t.rx_size = r.rx_size + e.size
       /\ t.rx_next = r.rx_next /\ t.rx_highest_status = r.rx_highest_status /\ t.rx_next_highest = M1 % SnCount
       /\ t.delivered = r.delivered /\ t.t_reassembly = r.t_reassembly
       /\ t.rx_next_status_trigger = r.rx_next_status_trigger
  BY <1>13, <1>16, <1>17 DEF RxState
<1>19. Numbers(t, B, H, M1)
  BY <1>1, <1>2, <1>9, <1>18 DEF Numbers
<1>20. Timer(t, B, H, M1, D)
  <2> SUFFICES ASSUME t.t_reassembly
               PROVE  \E T \in Nat : /\ B < T /\ T <= M1 /\ t.rx_next_status_trigger = T % SnCount
                                     /\ \A y \in T .. (H - 1) : y \in D
    BY DEF Timer
  <2>1. PICK T \in Nat : /\ B < T /\ T <= M /\ r.rx_next_status_trigger = T % SnCount
                         /\ \A y \in T .. (H - 1) : y \in D
    BY <1>1, <1>18 DEF Timer
  <2>2. T <= M1
    BY <1>2, <1>9, <2>1
  <2> QED BY <1>18, <2>1, <2>2
<1>21. ASSUME NEW k \in DOMAIN new PROVE new[k].data <=> new[k].id \notin D
  <2>1. CASE new[k] = e
    BY <1>7, <1>8, <2>1
  <2>2. ASSUME NEW j \in DOMAIN list, new[k] = list[j] PROVE new[k].data <=> new[k].id \notin D
    BY <1>1, <2>2 DEF ListInv
  <2> QED BY <1>11, <2>1, <2>2
<1>22. ASSUME NEW y \in Nat, B <= y, y # x PROVE y \in D <=> Covered(new, y)
  <2>1. y \in D <=> Covered(list, y)
    BY <1>1, <1>22 DEF ListInv
  <2> QED BY <1>7, <1>11, <1>22, <2>1
<1>23. Mid(t, B, H, M1, D, x)
  <2>1. \E k \in DOMAIN new : new[k].id = x
    BY <1>7, <1>11
  <2>2. t.rx_size = DataSize(new)
    BY <1>1, <1>6, <1>18
  <2> QED BY <1>1, <1>4, <1>8, <1>9, <1>11, <1>11a, <1>18, <1>19, <1>20, <1>21, <1>22, <2>1, <2>2, Zenon DEF Mid
<1> QED BY <1>7, <1>9, <1>12, <1>15, <1>23 DEF new

\* sdu_full tells whether SDU x is there in full.
LEMMA MidFull ==
  ASSUME NEW r, NEW B, NEW H, NEW M, NEW D, NEW x, Mid(r, B, H, M, D, x)
  PROVE  /\ R!sdu_full(r, x % SnCount) <=> Covered(r.rx_list, x)
         /\ x \in Nat /\ x < B + W /\ x < B + SnCount /\ B \in Nat /\ M \in Nat
<1>1. x \in Nat /\ B \in Nat /\ M \in Nat /\ M <= B + W /\ x < M
  BY DEF Mid, Numbers
<1>2. x < B + W /\ x < B + SnCount
  BY <1>1, HalfWindow
<1>3. /\ ListOk(r.rx_list, B, M) /\ Ordered(r.rx_list) /\ B <= x
      /\ \E i \in DOMAIN r.rx_list : r.rx_list[i].id = x
      /\ \A i \in DOMAIN r.rx_list : r.rx_list[i].id = x => r.rx_list[i].data
  BY DEF Mid
<1>4. R!sdu_full(r, x % SnCount) <=> Covered(r.rx_list, x)
  BY <1>1, <1>2, <1>3, FullIs
<1> QED BY <1>1, <1>2, <1>4

\* Not yet full: nothing to deliver.
LEMMA MidNotFull ==
  ASSUME NEW r, NEW B, NEW H, NEW M, NEW D, NEW x, Mid(r, B, H, M, D, x), ~R!sdu_full(r, x % SnCount)
  PROVE  Inv(r, B, H, M, D)
<1>1. ~Covered(r.rx_list, x) /\ x \notin D
  BY MidFull DEF Mid
<1>2. ListInv(r.rx_list, B, M, D)
  <2>1. \A y \in Nat : B <= y => (y \in D <=> Covered(r.rx_list, y))
    BY <1>1 DEF Mid
  <2> QED BY <2>1 DEF Mid, ListInv
<1> QED BY <1>2 DEF Mid, Inv, Inv0

\* Whole SDUs differ.
LEMMA WholeDiffers == \A x, y \in Nat : Whole(x) = Whole(y) => x = y
<1> SUFFICES ASSUME NEW x \in Nat, NEW y \in Nat, Whole(x) = Whole(y) PROVE x = y
  OBVIOUS
<1>1. 1 \in 1 .. SizeOf(x) /\ 1 \in 1 .. SizeOf(y)
  BY SizeOfIs
<1>2. Whole(x)[1] = <<x, 0>> /\ Whole(y)[1] = <<y, 0>>
  BY <1>1 DEF Whole
<1> QED BY <1>2

\* An SDU more has been given away.
LEMMA GivenAppend ==
  ASSUME NEW d \in Seq(ByteSeq), NEW D, D \subseteq Nat, Given(d, D), NEW x \in Nat, x \notin D, Whole(x) \in ByteSeq
  PROVE  Given(Append(d, Whole(x)), D \cup {x}) /\ Append(d, Whole(x)) \in Seq(ByteSeq)
<1> DEFINE n == Len(d)
           w == Whole(x)
<1> HIDE DEF w
<1>1. /\ Append(d, w) \in Seq(ByteSeq) /\ n \in Nat /\ DOMAIN d = 1 .. n /\ DOMAIN Append(d, w) = 1 .. (n + 1)
      /\ Append(d, w)[n + 1] = w /\ \A i \in 1 .. n : Append(d, w)[i] = d[i]
  BY DEF w
<1>2. PICK t : t = Append(d, w)
  OBVIOUS
<1>3. /\ n \in Nat /\ DOMAIN d = 1 .. n /\ DOMAIN t = 1 .. (n + 1)
      /\ t[n + 1] = w /\ \A i \in 1 .. n : t[i] = d[i]
  BY <1>1, <1>2
<1> HIDE DEF n
<1>4. \A i \in 1 .. (n + 1) : i = n + 1 \/ i \in 1 .. n
  BY <1>3
<1>4a. n + 1 \in 1 .. (n + 1) /\ \A i \in 1 .. n : i \in 1 .. (n + 1)
  BY <1>3
<1>5. \A i \in 1 .. n : d[i] # w
  <2> SUFFICES ASSUME NEW i \in 1 .. n, d[i] = w PROVE FALSE
    OBVIOUS
  <2>1. PICK y \in D : d[i] = Whole(y)
    BY <1>3 DEF Given
  <2> QED BY <2>1, WholeDiffers DEF w
<1>6. ASSUME NEW i \in DOMAIN t PROVE \E y \in D \cup {x} : t[i] = Whole(y)
  <2>1. CASE i = n + 1
    BY <1>3, <2>1 DEF w
  <2>2. CASE i \in 1 .. n
    BY <1>3, <2>2, Zenon DEF Given
  <2> QED BY <1>3, <1>4, <2>1, <2>2
<1>7. ASSUME NEW y \in D \cup {x} PROVE \E i \in DOMAIN t : t[i] = Whole(y)
  <2>1. CASE y = x
    BY <1>3, <1>4a, <2>1 DEF w
  <2>2. CASE y \in D
    <3>1. PICK i \in 1 .. n : d[i] = Whole(y)
      BY <1>3, <2>2 DEF Given
    <3> QED BY <1>3, <1>4a, <3>1
  <2> QED BY <2>1, <2>2
<1>8. ASSUME NEW i \in DOMAIN t, NEW j \in DOMAIN t, i # j PROVE t[i] # t[j]
  <2>1. CASE i \in 1 .. n /\ j \in 1 .. n
    BY <1>3, <1>8, <2>1 DEF Given
  <2>2. CASE i = n + 1 /\ j \in 1 .. n
    BY <1>3, <1>5, <2>2
  <2>3. CASE j = n + 1 /\ i \in 1 .. n
    BY <1>3, <1>5, <2>3
  <2> QED BY <1>3, <1>4, <1>8, <2>1, <2>2, <2>3
<1>9. Given(t, D \cup {x})
  BY <1>6, <1>7, <1>8 DEF Given
<1> QED BY <1>1, <1>2, <1>9 DEF w

\* Full: SDU x is delivered.
LEMMA DeliverKeeps ==
  ASSUME NEW r, NEW B, NEW H, NEW M, NEW D, NEW x, Mid(r, B, H, M, D, x), R!sdu_full(r, x % SnCount)
  PROVE  Inv0(R!reassemble_and_deliver(r, x % SnCount), B, B, H, M, D \cup {x})
<1> DEFINE list == r.rx_list
           sn == x % SnCount
           new == Marked(list, sn)
           D1 == D \cup {x}
<1>1. /\ r \in RxState /\ Numbers(r, B, H, M) /\ ListOk(list, B, M) /\ Ordered(list)
      /\ r.rx_size = DataSize(list) /\ Given(r.delivered, D) /\ Timer(r, B, H, M, D)
      /\ D \subseteq 0 .. (MaxSdus - 1) /\ 0 .. (B - 1) \subseteq D /\ x \in 0 .. (MaxSdus - 1) /\ B <= x /\ x \notin D
      /\ \A i \in DOMAIN list : list[i].data <=> list[i].id \notin D
      /\ \A y \in Nat : B <= y /\ y # x => (y \in D <=> Covered(list, y))
      /\ Topped(list, B, M)
  BY DEF Mid
<1>2. Covered(list, x) /\ x \in Nat /\ x < B + W /\ x < B + SnCount /\ B \in Nat /\ M \in Nat
  BY MidFull
<1>3. R!SduOf(list, sn) = Whole(x) /\ Whole(x) \in ByteSeq
  BY <1>1, <1>2, SduIs
<1>4. list \in Seq(Entry) /\ \A i \in DOMAIN list : list[i].sn = sn <=> list[i].id = x
  BY <1>1, <1>2, EntriesAre DEF ListOk
<1>5. DataSize(new) = DataSize(list) - R!SizeAt(list, R!Entries(r, sn))
  <2>1. \A i \in DOMAIN list : list[i].sn = sn => list[i].data
    BY <1>1, <1>4
  <2> QED BY <1>4, <2>1, MarkSize
<1>6. /\ ListOk(new, B, M) /\ Ordered(new)
      /\ \A y \in Nat : Covered(new, y) <=> Covered(list, y)
      /\ DOMAIN new = DOMAIN list
      /\ \A i \in DOMAIN list : new[i].id = list[i].id /\ (new[i].data <=> list[i].data /\ list[i].sn # sn)
  <2> HIDE DEF list, sn
  <2> QED BY <1>1, MarkKeeps
<1>7. r.delivered \in Seq(ByteSeq) /\ D \subseteq Nat
  BY <1>1 DEF RxState
<1>8. Given(Append(r.delivered, Whole(x)), D1) /\ Append(r.delivered, Whole(x)) \in Seq(ByteSeq)
  BY <1>1, <1>2, <1>3, <1>7, GivenAppend
<1>9. PICK q, s : q = R!reassemble_and_deliver(r, sn) /\ s = R!SizeAt(list, R!Entries(r, sn))
  OBVIOUS
<1>10. q = [r EXCEPT !.rx_list = new, !.rx_size = @ - s, !.delivered = Append(r.delivered, Whole(x))]
  <2>1. q = [r EXCEPT !.rx_list = new, !.rx_size = @ - R!SizeAt(list, R!Entries(r, sn)),
                      !.delivered = Append(@, R!SduOf(list, sn))]
    BY <1>9 DEF R!reassemble_and_deliver, Marked
  <2> HIDE DEF new
  <2> QED BY <1>3, <1>9, <2>1
<1>11. s \in Int
  <2>1. PICK f : SumBy(list, R!Entries(r, sn), f) /\ R!SizeAt(list, R!Entries(r, sn)) = f[Len(list)]
    BY <1>4, SumExists
  <2>2. f \in [0 .. Len(list) -> Nat] /\ Len(list) \in 0 .. Len(list)
    BY <1>4, <2>1 DEF SumBy
  <2> QED BY <1>9, <2>1, <2>2
<1> HIDE DEF new
<1>12. /\ q \in RxState /\ q.rx_list = new /\ q.rx_size = r.rx_size - s /\ q.delivered = Append(r.delivered, Whole(x))
       /\ q.rx_next = r.rx_next /\ q.rx_highest_status = r.rx_highest_status /\ q.rx_next_highest = r.rx_next_highest
       /\ q.t_reassembly = r.t_reassembly /\ q.rx_next_status_trigger = r.rx_next_status_trigger
  <2>1. r.rx_size - s \in Int /\ new \in Seq(Entry)
    BY <1>1, <1>6, <1>11 DEF RxState, ListOk
  <2>2. PICK g : g = Append(r.delivered, Whole(x)) /\ g \in Seq(ByteSeq)
    BY <1>8
  <2> QED BY <1>1, <1>10, <2>1, <2>2 DEF RxState
<1>13. Numbers(q, B, H, M)
  BY <1>1, <1>12 DEF Numbers
<1>14. Timer(q, B, H, M, D1)
  <2>1. Timer(q, B, H, M, D)
    BY <1>1, <1>12, SameTimer
  <2> QED BY <2>1, Zenon DEF Timer
<1>15. ListInv(new, B, M, D1)
  <2>1. ASSUME NEW i \in DOMAIN new PROVE new[i].data <=> new[i].id \notin D1
    BY <1>1, <1>4, <1>6, <2>1
  <2>2. ASSUME NEW y \in Nat, B <= y PROVE y \in D1 <=> Covered(new, y)
    BY <1>1, <1>2, <1>6, <2>2
  <2>3. Topped(new, B, M)
    BY <1>1, <1>6 DEF Topped
  <2> QED BY <1>6, <2>1, <2>2, <2>3 DEF ListInv
<1>16. D1 \subseteq 0 .. (MaxSdus - 1) /\ 0 .. (B - 1) \subseteq D1
  BY <1>1
<1>17. q.rx_size = DataSize(new)
  BY <1>1, <1>5, <1>9, <1>12
<1>18. Inv0(q, B, B, H, M, D1)
  <2>1. Given(q.delivered, D1)
    BY <1>8, <1>12, Zenon
  <2> QED BY <1>12, <1>13, <1>14, <1>15, <1>16, <1>17, <2>1, Zenon DEF Inv0
<1> QED BY <1>9, <1>18

\* RX_Highest_Status moves to the next SDU that is not delivered.
LEMMA HighestKeeps ==
  ASSUME NEW r, NEW B, NEW H, NEW M, NEW D, Inv0(r, B, B, H, M, D), NEW x \in Nat, B <= x, x < M, x # H => H \notin D
  PROVE  \E H1 \in Nat : /\ H <= H1 /\ H1 \notin D
                         /\ Inv0(R!UpdateHighestStatus(r, x % SnCount), B, B, H1, M, D)
<1>1. /\ r \in RxState /\ Numbers(r, B, H, M) /\ ListInv(r.rx_list, B, M, D) /\ Timer(r, B, H, M, D)
  BY DEF Inv0
<1>2. /\ B \in Nat /\ H \in Nat /\ M \in Nat /\ B <= H /\ H <= M /\ M <= B + W
      /\ r.rx_next = B % SnCount /\ r.rx_highest_status = H % SnCount
  BY <1>1 DEF Numbers
<1>3. x % SnCount = H % SnCount => x = H
  <2>1. x - H < SnCount /\ H - x < SnCount
    BY <1>2, HalfWindow
  <2> QED BY <1>2, <2>1, SameSn
<1>4. CASE x # H
  <2>1. R!UpdateHighestStatus(r, x % SnCount) = r
    BY <1>2, <1>3, <1>4 DEF R!UpdateHighestStatus
  <2> QED BY <1>2, <1>4, <2>1
<1>5. CASE x = H
  <2>1. PICK Y \in Nat : /\ H <= Y /\ Y <= M /\ Y \notin D /\ \A y \in H .. (Y - 1) : y \in D
                         /\ R!FirstUndelivered(r, H % SnCount) = Y % SnCount
    <3>1. ListInv(r.rx_list, B, M, D) /\ r.rx_next = B % SnCount /\ H \in Nat /\ B <= H /\ H <= M
      BY <1>1, <1>2
    <3> QED BY <3>1, FirstUndeliveredIs
  <2>2. PICK q : q = R!UpdateHighestStatus(r, x % SnCount)
    OBVIOUS
  <2>3. q = [r EXCEPT !.rx_highest_status = Y % SnCount]
    BY <1>2, <1>5, <2>1, <2>2 DEF R!UpdateHighestStatus
  <2>4. Y % SnCount \in Sns
    BY SnIs
  <2>5. /\ q \in RxState /\ q.rx_next = r.rx_next /\ q.rx_highest_status = Y % SnCount
        /\ q.rx_next_highest = r.rx_next_highest /\ q.rx_list = r.rx_list /\ q.rx_size = r.rx_size
        /\ q.delivered = r.delivered /\ q.t_reassembly = r.t_reassembly
        /\ q.rx_next_status_trigger = r.rx_next_status_trigger
    BY <1>1, <2>3, <2>4 DEF RxState
  <2>6. Numbers(q, B, Y, M)
    BY <1>1, <1>2, <2>1, <2>5 DEF Numbers
  <2>7. Timer(q, B, Y, M, D)
    <3> SUFFICES ASSUME q.t_reassembly
                 PROVE  \E T \in Nat : /\ B < T /\ T <= M /\ q.rx_next_status_trigger = T % SnCount
                                       /\ \A y \in T .. (Y - 1) : y \in D
      BY DEF Timer
    <3>1. PICK T \in Nat : /\ B < T /\ T <= M /\ r.rx_next_status_trigger = T % SnCount
                           /\ \A y \in T .. (H - 1) : y \in D
      BY <1>1, <2>5 DEF Timer
    <3>2. ASSUME NEW y \in T .. (Y - 1) PROVE y \in D
      <4>1. y \in T .. (H - 1) \/ y \in H .. (Y - 1)
        BY <1>2, <2>1
      <4> QED BY <2>1, <3>1, <4>1
    <3> QED BY <2>5, <3>1, <3>2
  <2>8. Inv0(q, B, B, Y, M, D)
    <3>1. D \subseteq 0 .. (MaxSdus - 1) /\ 0 .. (B - 1) \subseteq D /\ ListInv(r.rx_list, B, M, D)
          /\ r.rx_size = DataSize(r.rx_list) /\ Given(r.delivered, D)
      BY DEF Inv0
    <3> QED BY <2>5, <2>6, <2>7, <3>1, Zenon DEF Inv0
  <2> QED BY <2>1, <2>2, <2>8
<1> QED BY <1>4, <1>5

\* RX_Next moves to the first SDU that is not delivered, and the entries before it are freed.
LEMMA NextKeeps ==
  ASSUME NEW r, NEW B, NEW H, NEW M, NEW D, Inv0(r, B, B, H, M, D), H \notin D, NEW x \in Nat, B <= x, x < M,
         x # B => B \notin D
  PROVE  \E Y \in Nat : B <= Y /\ Y \notin D /\ Inv0(R!UpdateRxNext(r, x % SnCount), Y, B, H, M, D)
<1> DEFINE list == r.rx_list
<1>1. /\ r \in RxState /\ Numbers(r, B, H, M) /\ ListInv(list, B, M, D) /\ Timer(r, B, H, M, D)
      /\ ListOk(list, B, M) /\ Ordered(list) /\ 0 .. (B - 1) \subseteq D /\ D \subseteq 0 .. (MaxSdus - 1)
      /\ r.rx_size = DataSize(list) /\ Given(r.delivered, D)
  BY DEF Inv0, ListInv
<1>2. /\ B \in Nat /\ H \in Nat /\ M \in Nat /\ B <= H /\ H <= M /\ M <= B + W
      /\ r.rx_next = B % SnCount
  BY <1>1 DEF Numbers
<1>3. x % SnCount = B % SnCount => x = B
  <2>1. x - B < SnCount /\ B - x < SnCount
    BY <1>2, HalfWindow
  <2> QED BY <1>2, <2>1, SameSn
<1>4. CASE x # B
  <2>1. R!UpdateRxNext(r, x % SnCount) = r
    BY <1>2, <1>3, <1>4 DEF R!UpdateRxNext
  <2> QED BY <1>2, <1>4, <2>1
<1>5. CASE x = B
  <2>1. PICK Y \in Nat : /\ B <= Y /\ Y <= M /\ Y \notin D /\ \A y \in B .. (Y - 1) : y \in D
                         /\ R!FirstUndelivered(r, B % SnCount) = Y % SnCount
    <3>1. ListInv(r.rx_list, B, M, D) /\ r.rx_next = B % SnCount /\ B \in Nat /\ B <= B /\ B <= M
      BY <1>1, <1>2
    <3> HIDE DEF list
    <3> QED BY <3>1, FirstUndeliveredIs
  <2>2. PICK rest : rest = R!FreeBefore(r, Y % SnCount)
    OBVIOUS
  <2>3. PICK d : /\ Dropped(list, rest, d) /\ \A k \in 1 .. d : list[k].id < Y
                 /\ \A k \in (d + 1) .. Len(list) : list[k].id >= Y
    BY <1>1, <1>2, <2>1, <2>2, DropIs
  <2>4. ListInv(rest, Y, M, D)
    BY <1>1, <2>1, <2>3, DropKeeps
  <2>5. list \in Seq(Entry) /\ rest \in Seq(Entry) /\ d \in 0 .. Len(list)
    BY <1>1, <2>3 DEF ListOk, Dropped
  <2>6. \A k \in 1 .. d : ~list[k].data
    <3> SUFFICES ASSUME NEW k \in 1 .. d PROVE ~list[k].data
      OBVIOUS
    <3>1. k \in 1 .. Len(list) /\ DOMAIN list = 1 .. Len(list)
      BY <2>5
    <3>2. list[k].id \in Nat /\ B <= list[k].id
      BY <1>1, <3>1, FitsIs
    <3>3. list[k].id \in B .. (Y - 1)
      BY <1>2, <2>3, <3>2
    <3>4. list[k].id \in D
      BY <2>1, <3>3
    <3> QED BY <1>1, <3>1, <3>4 DEF ListInv
  <2>7. DataSize(rest) = DataSize(list)
    BY <2>3, <2>5, <2>6, DropSize
  <2>8. PICK q : q = R!UpdateRxNext(r, x % SnCount)
    OBVIOUS
  <2>9. q = [r EXCEPT !.rx_next = Y % SnCount, !.rx_list = rest]
    BY <1>2, <1>5, <2>1, <2>2, <2>8 DEF R!UpdateRxNext
  <2>10. Y % SnCount \in Sns
    BY SnIs
  <2>11. /\ q \in RxState /\ q.rx_next = Y % SnCount /\ q.rx_highest_status = r.rx_highest_status
         /\ q.rx_next_highest = r.rx_next_highest /\ q.rx_list = rest /\ q.rx_size = r.rx_size
         /\ q.delivered = r.delivered /\ q.t_reassembly = r.t_reassembly
         /\ q.rx_next_status_trigger = r.rx_next_status_trigger
    BY <1>1, <2>5, <2>9, <2>10 DEF RxState
  <2>12. Y <= H
    <3>1. ~(H \in B .. (Y - 1))
      BY <2>1
    <3> QED BY <1>2, <2>1, <3>1
  <2>13. Numbers(q, Y, H, M)
    <3>1. M <= Y + W
      BY <1>2, <2>1, HalfWindow
    <3> QED BY <1>1, <1>2, <2>1, <2>11, <2>12, <3>1 DEF Numbers
  <2>14. Timer(q, B, H, M, D)
    BY <1>1, <2>11, SameTimer
  <2>15. 0 .. (Y - 1) \subseteq D
    <3> SUFFICES ASSUME NEW y \in 0 .. (Y - 1) PROVE y \in D
      OBVIOUS
    <3>1. y \in 0 .. (B - 1) \/ y \in B .. (Y - 1)
      BY <1>2, <2>1
    <3> QED BY <1>1, <2>1, <3>1
  <2>16. q.rx_size = DataSize(rest)
    BY <1>1, <2>7, <2>11
  <2>17. Inv0(q, Y, B, H, M, D)
    <3>1. Given(q.delivered, D)
      BY <1>1, <2>11
    <3> QED BY <1>1, <2>4, <2>11, <2>13, <2>14, <2>15, <2>16, <3>1, Zenon DEF Inv0
  <2> QED BY <2>1, <2>8, <2>17
<1> QED BY <1>4, <1>5

\* reception_actions as a whole.
LEMMA ReceptionKeeps ==
  ASSUME NEW r, NEW B, NEW H, NEW M, NEW D, NEW x, Mid(Highest(r, x % SnCount), B, H, M, D, x)
  PROVE  \E B1, H1, D1 : Inv(R!reception_actions(r, x % SnCount), B1, H1, M, D1) /\ B <= B1 /\ H <= H1
<1> DEFINE sn == x % SnCount
           r1 == Highest(r, sn)
           r2 == IF R!sdu_full(r1, sn)
                 THEN R!UpdateRxNext(R!UpdateHighestStatus(R!reassemble_and_deliver(r1, sn), sn), sn)
                 ELSE r1
           r3 == [r2 EXCEPT !.t_reassembly = @ /\ ~R!StopReassembly(r2)]
           gap == ~r3.t_reassembly /\ R!GapAfter(r3, r3.rx_next)
<1>1. R!reception_actions(r, sn) = R!StartReassemblyIf(r3, gap)
  BY DEF R!reception_actions, Highest
<1>2. Mid(r1, B, H, M, D, x)
  OBVIOUS
<1> HIDE DEF r1
<1>3. /\ x \in Nat /\ B \in Nat /\ M \in Nat /\ H \in Nat /\ B <= x /\ x < M /\ M <= B + W
      /\ B \notin D /\ H \notin D /\ x \notin D
  BY <1>2, MidFull DEF Mid, Numbers
<1>4. \E B1, H1, D1 : /\ B1 \in Nat /\ H1 \in Nat /\ Inv0(r2, B1, B, H1, M, D1) /\ B1 \notin D1 /\ H1 \notin D1
                      /\ B <= B1 /\ H <= H1
  <2>1. CASE R!sdu_full(r1, sn)
    <3> DEFINE q1 == R!reassemble_and_deliver(r1, sn)
               q2 == R!UpdateHighestStatus(q1, sn)
               q3 == R!UpdateRxNext(q2, sn)
               D1 == D \cup {x}
    <3>1. Inv0(q1, B, B, H, M, D1)
      BY <1>2, <2>1, DeliverKeeps
    <3> HIDE DEF q1
    <3>2. x # H => H \notin D1
      BY <1>3
    <3>3. x # B => B \notin D1
      BY <1>3
    <3> HIDE DEF D1
    <3>4. PICK H1 \in Nat : H <= H1 /\ H1 \notin D1 /\ Inv0(q2, B, B, H1, M, D1)
      BY <1>3, <3>1, <3>2, HighestKeeps
    <3> HIDE DEF q2
    <3>5. PICK Y \in Nat : B <= Y /\ Y \notin D1 /\ Inv0(q3, Y, B, H1, M, D1)
      BY <1>3, <3>3, <3>4, NextKeeps
    <3>6. r2 = q3
      BY <2>1 DEF q1, q2
    <3> QED BY <3>4, <3>5, <3>6
  <2>2. CASE ~R!sdu_full(r1, sn)
    <3>1. Inv(r1, B, H, M, D)
      BY <1>2, <2>2, MidNotFull
    <3>2. Inv0(r1, B, B, H, M, D)
      BY <3>1 DEF Inv
    <3>3. r2 = r1 /\ B <= B /\ H <= H
      BY <1>3, <2>2
    <3> QED BY <1>3, <3>2, <3>3
  <2> QED BY <2>1, <2>2
<1> HIDE DEF r2
<1>5. PICK B1, H1, D1 : /\ B1 \in Nat /\ H1 \in Nat /\ Inv0(r2, B1, B, H1, M, D1) /\ B1 \notin D1 /\ H1 \notin D1
                        /\ B <= B1 /\ H <= H1
  BY <1>4
<1>6. Inv(r3, B1, H1, M, D1)
  BY <1>3, <1>5, StopKeeps
<1> HIDE DEF r3
<1>7. Numbers(r3, B1, H1, M) /\ r3.rx_next = B1 % SnCount /\ B1 \in Nat /\ B1 <= B1 /\ B1 <= M /\ r3.t_reassembly \in BOOLEAN
  <2>1. Numbers(r3, B1, H1, M) /\ r3 \in RxState
    BY <1>6 DEF Inv, Inv0
  <2> QED BY <1>3, <1>5, <2>1 DEF Numbers, RxState
<1>8. gap => B1 < M
  BY <1>7, GapIs
<1>9. gap \in BOOLEAN
  OBVIOUS
<1> HIDE DEF gap
<1>10. Inv(R!StartReassemblyIf(r3, gap), B1, H1, M, D1)
  BY <1>6, <1>8, <1>9, StartKeeps
<1> QED BY <1>1, <1>5, <1>10

---------------------------------------------------------------------------
(* The steps.                                                              *)

\* The first SDU not delivered is at RX_Next.
LEMMA FirstMissingIs ==
  ASSUME NEW B, NEW H, NEW M, NEW D, Inv(rx, B, H, M, D)
  PROVE  FirstMissing = B /\ Delivered = D /\ B \in Nat
<1>1. /\ B \in Nat /\ D \subseteq 0 .. (MaxSdus - 1) /\ 0 .. (B - 1) \subseteq D /\ B \notin D /\ Given(rx.delivered, D)
  BY DEF Inv, Inv0, Numbers
<1>2. \A x \in D : Whole(x)[1][1] = x
  <2> SUFFICES ASSUME NEW x \in D PROVE Whole(x)[1][1] = x
    OBVIOUS
  <2>1. x \in Nat /\ 1 \in 1 .. SizeOf(x)
    BY <1>1, SizeOfIs
  <2>2. Whole(x)[1] = <<x, 0>>
    BY <2>1 DEF Whole
  <2> QED BY <2>2
<1>3. Delivered = D
  <2>1. ASSUME NEW i \in DOMAIN rx.delivered PROVE rx.delivered[i][1][1] \in D
    BY <1>1, <1>2 DEF Given
  <2>2. ASSUME NEW x \in D PROVE \E i \in DOMAIN rx.delivered : rx.delivered[i][1][1] = x
    <3>1. PICK i \in DOMAIN rx.delivered : rx.delivered[i] = Whole(x)
      BY <1>1 DEF Given
    <3> QED BY <1>2, <3>1
  <2> QED BY <2>1, <2>2 DEF Delivered
<1>4. MaxSdus \in Nat
  BY ReceiverAssumption
<1>5. B \in 0 .. MaxSdus
  <2>1. CASE B = 0
    BY <1>4, <2>1
  <2>2. CASE B # 0
    <3>1. B - 1 \in 0 .. (B - 1)
      BY <1>1, <2>2
    <3>2. B - 1 \in 0 .. (MaxSdus - 1)
      BY <1>1, <3>1
    <3> QED BY <1>1, <1>4, <3>2
  <2> QED BY <2>1, <2>2
<1>6. ASSUME NEW n \in 0 .. MaxSdus, n \notin D, 0 .. (n - 1) \subseteq D PROVE n = B
  <2>1. ~(n < B)
    <3>1. n < B => n \in 0 .. (B - 1)
      BY <1>1, <1>4
    <3> QED BY <1>1, <1>6, <3>1
  <2>2. ~(B < n)
    <3>1. B < n => B \in 0 .. (n - 1)
      BY <1>1, <1>4
    <3> QED BY <1>1, <1>6, <3>1
  <2> QED BY <1>1, <1>4, <2>1, <2>2
<1>7. FirstMissing = CHOOSE n \in 0 .. MaxSdus : n \notin D /\ 0 .. (n - 1) \subseteq D
  BY <1>3, Zenon DEF FirstMissing
<1>8. FirstMissing = B
  <2> HIDE DEF Inv
  <2> DEFINE Ok(n) == n \notin D /\ 0 .. (n - 1) \subseteq D
  <2>1. Ok(B) /\ \A n \in 0 .. MaxSdus : Ok(n) => n = B
    BY <1>1, <1>6
  <2>2. FirstMissing = CHOOSE n \in 0 .. MaxSdus : Ok(n)
    BY <1>7
  <2> HIDE DEF Ok
  <2> QED BY <1>5, <2>1, <2>2
<1> QED BY <1>1, <1>3, <1>8

\* The window only moves forward, by no more than what the peer may send.
Forward(B, H, M, B1, H1, M1) == B <= B1 /\ H <= H1 /\ M <= M1 /\ M1 <= B + W

\* A PDU from the peer.
LEMMA RecvKeeps ==
  ASSUME NEW B, NEW H, NEW M, NEW D, Inv(rx, B, H, M, D), NEW pdu \in Segments, recv_pdu(pdu)
  PROVE  \E B1, H1, M1, D1 : Inv(rx', B1, H1, M1, D1) /\ Forward(B, H, M, B1, H1, M1)
<1> USE DEF Forward
<1>1. FirstMissing = B /\ B \in Nat
  BY FirstMissingIs
<1>2. PICK id \in {n \in 0 .. (MaxSdus - 1) : n < FirstMissing + SnCount \div 2 /\ n >= FirstMissing - SnCount \div 2},
           so \in 0 .. (SduSize - 1), size \in 1 .. SduSize, p \in BOOLEAN :
        pdu = [sn |-> id % SnCount, so |-> so, size |-> size, first |-> so = 0, last |-> so + size = SizeOf(id),
               id |-> id, p |-> p]
  BY DEF Segments
<1>3. id \in Nat /\ id \in 0 .. (MaxSdus - 1) /\ id < B + W /\ id >= B - W
  BY <1>1, <1>2, ReceiverAssumption DEF W
<1>4. so \in Nat /\ size \in Nat \ {0}
  BY <1>2, ReceiverAssumption
<1>5. so + size <= SizeOf(id)
  <2>1. pdu.so + pdu.size <= SizeOf(pdu.sn)
    BY DEF recv_pdu
  <2>2. so + size <= SizeOf(id % SnCount)
    BY <1>2, <2>1
  <2> QED BY <1>3, <2>2, SizeOfIs
<1> DEFINE e == [sn |-> pdu.sn, so |-> pdu.so, size |-> pdu.size, first |-> pdu.first,
                 last |-> pdu.last, id |-> pdu.id, data |-> TRUE]
           kept == [rx EXCEPT !.rx_size = @ + pdu.size, !.rx_list = R!pdu_list_add(rx, e)]
           done == IF R!Discarded(rx, pdu) THEN rx ELSE R!reception_actions(kept, pdu.sn)
<1>6. rx' = [done EXCEPT !.status_triggered = @ \/ pdu.p]
  BY DEF recv_pdu, R!recv_pdu
<1>7. pdu.sn = id % SnCount /\ pdu.id = id /\ pdu.so = so /\ pdu.size = size /\ pdu.p \in BOOLEAN
  BY <1>2
<1>8. /\ e \in Entry /\ e.sn = id % SnCount /\ e.id = id /\ e.so = so /\ e.size = size /\ e.data
      /\ (e.first <=> so = 0) /\ (e.last <=> so + size = SizeOf(id)) /\ R!End(e) = so + size
  <2>1. id % SnCount \in Sns
    BY <1>3, SnIs
  <2>2. e = [sn |-> id % SnCount, so |-> so, size |-> size, first |-> so = 0, last |-> so + size = SizeOf(id),
             id |-> id, data |-> TRUE]
    BY <1>2
  <2> QED BY <1>3, <1>4, <2>1, <2>2 DEF Entry, R!End
<1> HIDE DEF e
<1>9. /\ rx \in RxState /\ Numbers(rx, B, H, M) /\ ListInv(rx.rx_list, B, M, D)
      /\ ListOk(rx.rx_list, B, M) /\ Ordered(rx.rx_list)
  BY DEF Inv, Inv0, ListInv
<1>10. /\ B \in Nat /\ H \in Nat /\ M \in Nat /\ B <= H /\ H <= M /\ M <= B + W /\ rx.rx_next = B % SnCount
  BY <1>9 DEF Numbers
<1>11. \E B1, H1, M1, D1 : Inv(done, B1, H1, M1, D1) /\ Forward(B, H, M, B1, H1, M1)
  <2>1. CASE R!Discarded(rx, pdu)
    <3>1. done = rx
      BY <2>1
    <3>2. Forward(B, H, M, B, H, M)
      BY <1>10
    <3> HIDE DEF Forward, done
    <3> QED BY <3>1, <3>2
  <2>2. CASE ~R!Discarded(rx, pdu)
    <3>1. R!sn_in_recv_window(rx, id % SnCount) /\ ~R!segment_already_received(rx, id % SnCount, so, size)
      BY <1>7, <2>2 DEF R!Discarded
    <3>2. B <= id
      <4> SUFFICES ASSUME id < B PROVE FALSE
        BY <1>1, <1>3
      <4>1. B - SnCount <= id /\ ~(id - B + SnCount < W)
        BY <1>1, <1>3, HalfWindow
      <4>2. R!modulus_rx(rx, id % SnCount) = id - B + SnCount
        BY <1>3, <1>10, <4>1, Behind1
      <4> QED BY <3>1, <4>1, <4>2, HalfWindow DEF R!sn_in_recv_window
    <3>3. id < B + SnCount
      BY <1>1, <1>3, HalfWindow
    <3>4. id \notin D
      <4> SUFFICES ASSUME id \in D PROVE FALSE
        OBVIOUS
      <4>1. Covered(rx.rx_list, id)
        BY <1>3, <1>9, <3>2 DEF ListInv
      <4>2. R!segment_already_received(rx, id % SnCount, so, size)
        BY <1>3, <1>4, <1>5, <1>9, <3>2, <3>3, <4>1, AlreadyReceived
      <4> QED BY <3>1, <4>2
    <3>5. Fits(e, B, B + W)
      BY <1>3, <1>5, <1>8, <3>2 DEF Fits
    <3>6. e.id \notin D /\ e.id \in 0 .. (MaxSdus - 1) /\ e \in Entry /\ e.data
      BY <1>3, <1>8, <3>4
    <3>7. PICK M1 : /\ Mid(Highest([rx EXCEPT !.rx_size = @ + e.size, !.rx_list = R!pdu_list_add(rx, e)], e.sn),
                           B, H, M1, D, e.id)
                    /\ M <= M1 /\ M1 <= B + W
      BY <3>5, <3>6, KeptMid
    <3>8. kept = [rx EXCEPT !.rx_size = @ + e.size, !.rx_list = R!pdu_list_add(rx, e)]
      BY <1>7, <1>8
    <3> HIDE DEF kept
    <3>9. Mid(Highest(kept, id % SnCount), B, H, M1, D, id)
      BY <1>8, <3>7, <3>8
    <3>10. PICK B1, H1, D1 : Inv(R!reception_actions(kept, id % SnCount), B1, H1, M1, D1) /\ B <= B1 /\ H <= H1
      BY <3>9, ReceptionKeeps
    <3>11. done = R!reception_actions(kept, id % SnCount)
      BY <1>7, <2>2
    <3> HIDE DEF done
    <3> QED BY <3>7, <3>10, <3>11
  <2> QED BY <2>1, <2>2
<1> HIDE DEF done, Forward
<1>12. PICK B1, H1, M1, D1 : Inv(done, B1, H1, M1, D1) /\ Forward(B, H, M, B1, H1, M1)
  BY <1>11
<1>13. done.status_triggered \in BOOLEAN
  BY <1>12 DEF Inv, Inv0, RxState
<1>14. rx' = [done EXCEPT !.status_triggered = done.status_triggered \/ pdu.p]
  BY <1>6
<1>15. Inv(rx', B1, H1, M1, D1)
  <2>1. (done.status_triggered \/ pdu.p) \in BOOLEAN
    BY <1>7, <1>13
  <2>2. \A b \in BOOLEAN : Inv([done EXCEPT !.status_triggered = b], B1, H1, M1, D1)
    BY <1>12, StatusFlagsKeep
  <2> QED BY <1>14, <2>1, <2>2
<1> QED BY <1>12, <1>15

\* t_reassembly expires.
LEMMA ExpiryKeeps ==
  ASSUME NEW B, NEW H, NEW M, NEW D, Inv(rx, B, H, M, D), set_time
  PROVE  \E B1, H1, M1, D1 : Inv(rx', B1, H1, M1, D1) /\ Forward(B, H, M, B1, H1, M1)
<1>1. /\ rx \in RxState /\ Numbers(rx, B, H, M) /\ ListInv(rx.rx_list, B, M, D) /\ Timer(rx, B, H, M, D)
      /\ D \subseteq 0 .. (MaxSdus - 1) /\ 0 .. (B - 1) \subseteq D /\ B \notin D /\ H \notin D
      /\ rx.rx_size = DataSize(rx.rx_list) /\ Given(rx.delivered, D)
  BY DEF Inv, Inv0
<1>2. /\ B \in Nat /\ H \in Nat /\ M \in Nat /\ B <= H /\ H <= M /\ M <= B + W /\ rx.rx_next = B % SnCount
  BY <1>1 DEF Numbers
<1>3. rx.t_reassembly /\ rx' = R!check_t_reassembly(rx)
  BY DEF set_time
<1>4. PICK T \in Nat : /\ B < T /\ T <= M /\ rx.rx_next_status_trigger = T % SnCount
                       /\ \A y \in T .. (H - 1) : y \in D
  BY <1>1, <1>3 DEF Timer
<1>5. PICK Y \in Nat : /\ T <= Y /\ Y <= M /\ Y \notin D /\ \A y \in T .. (Y - 1) : y \in D
                       /\ R!FirstUndelivered(rx, T % SnCount) = Y % SnCount
  <2>1. ListInv(rx.rx_list, B, M, D) /\ rx.rx_next = B % SnCount /\ T \in Nat /\ B <= T /\ T <= M
    BY <1>1, <1>2, <1>4
  <2> QED BY <2>1, FirstUndeliveredIs
<1>6. H <= Y
  <2>1. ~(Y \in T .. (H - 1))
    BY <1>4, <1>5
  <2> QED BY <1>2, <1>5, <2>1
<1>7. PICK u : u = [rx EXCEPT !.t_reassembly = FALSE,
                              !.rx_highest_status = R!FirstUndelivered(rx, rx.rx_next_status_trigger),
                              !.status_triggered = TRUE]
  OBVIOUS
<1>8. rx' = R!StartReassemblyIf(u, R!GapAfter(u, u.rx_highest_status))
  BY <1>3, <1>7 DEF R!check_t_reassembly
<1>9. /\ u \in RxState /\ u.rx_next = rx.rx_next /\ u.rx_highest_status = Y % SnCount
      /\ u.rx_next_highest = rx.rx_next_highest /\ u.rx_list = rx.rx_list /\ u.rx_size = rx.rx_size
      /\ u.delivered = rx.delivered /\ ~u.t_reassembly
  <2>1. Y % SnCount \in Sns
    BY SnIs
  <2>2. u = [rx EXCEPT !.t_reassembly = FALSE, !.rx_highest_status = Y % SnCount, !.status_triggered = TRUE]
    BY <1>4, <1>5, <1>7
  <2> QED BY <1>1, <2>1, <2>2 DEF RxState
<1>10. Numbers(u, B, Y, M) /\ B <= Y
  BY <1>1, <1>2, <1>5, <1>6, <1>9 DEF Numbers
<1>11. Timer(u, B, Y, M, D)
  BY <1>9 DEF Timer
<1>12. Inv(u, B, Y, M, D)
  <2>1. Inv0(u, B, B, Y, M, D)
    BY <1>1, <1>9, <1>10, <1>11, Zenon DEF Inv0
  <2> QED BY <1>1, <1>5, <2>1 DEF Inv
<1>13. PICK gap : gap = R!GapAfter(u, u.rx_highest_status)
  OBVIOUS
<1>14. gap \in BOOLEAN
  BY <1>13 DEF R!GapAfter
<1>15. gap => B < M
  <2>1. gap => Y < M
    BY <1>5, <1>9, <1>10, <1>13, GapIs
  <2> QED BY <1>2, <1>5, <1>10, <2>1
<1>16. Inv(rx', B, Y, M, D)
  BY <1>8, <1>12, <1>13, <1>14, <1>15, StartKeeps
<1>17. Forward(B, H, M, B, Y, M)
  BY <1>2, <1>6 DEF Forward
<1> QED BY <1>16, <1>17

\* Every step.
LEMMA NextKeepsInv ==
  ASSUME NEW B, NEW H, NEW M, NEW D, Inv(rx, B, H, M, D), [Next]_rx
  PROVE  \E B1, H1, M1, D1 : Inv(rx', B1, H1, M1, D1) /\ Forward(B, H, M, B1, H1, M1)
<1>1. Forward(B, H, M, B, H, M)
  BY DEF Inv, Inv0, Numbers, Forward
<1>2. CASE \E pdu \in Segments : recv_pdu(pdu)
  BY <1>2, RecvKeeps
<1>3. CASE set_time
  BY <1>3, ExpiryKeeps
<1>4. CASE StatusProhibitExpires
  <2>1. Inv(rx', B, H, M, D)
    BY <1>4, StatusFlagsKeep DEF StatusProhibitExpires
  <2> QED BY <1>1, <2>1
<1>5. CASE generate_pdu
  <2>1. Inv(rx', B, H, M, D)
    BY <1>5, StatusFlagsKeep DEF generate_pdu, R!generate_status
  <2> QED BY <1>1, <2>1
<1>6. CASE UNCHANGED rx
  BY <1>1, <1>6
<1> QED BY <1>2, <1>3, <1>4, <1>5, <1>6 DEF Next

\* The first state.
LEMMA InitKeeps == ASSUME Init PROVE Inv(rx, 0, 0, 0, {})
<1>1. rx = [rx_next |-> 0, rx_next_status_trigger |-> 0, rx_highest_status |-> 0, rx_next_highest |-> 0,
            status_triggered |-> FALSE, t_reassembly |-> FALSE, t_status_prohibit |-> FALSE,
            rx_list |-> <<>>, rx_size |-> 0, delivered |-> <<>>]
  BY DEF Init, R!ClearRx
<1>2. 0 \in Sns /\ 0 % SnCount = 0 /\ W \in Nat
  BY HalfWindow DEF Sns
<1>3. rx \in RxState
  BY <1>1, <1>2 DEF RxState
<1>4. Numbers(rx, 0, 0, 0)
  BY <1>1, <1>2 DEF Numbers
<1>5. /\ rx.rx_list = <<>> /\ rx.rx_size = 0 /\ rx.delivered = <<>> /\ ~rx.t_reassembly
  BY <1>1
<1>6. ListOk(<<>>, 0, 0) /\ Ordered(<<>>)
  BY <1>2 DEF ListOk, Ordered
<1>7. DOMAIN <<>> = {} /\ <<>> \in Seq(Entry) /\ Len(<<>>) = 0
  OBVIOUS
<1>8. \A x \in Nat : ~Covered(<<>>, x)
  BY <1>7, NotCovered
<1>9. ListInv(<<>>, 0, 0, {})
  BY <1>6, <1>7, <1>8 DEF ListInv, Topped
<1>10. DataSize(<<>>) = 0
  <2>1. PICK f : SumBy(<<>>, Data(<<>>), f) /\ R!SizeAt(<<>>, Data(<<>>)) = f[Len(<<>>)]
    BY <1>7, SumExists
  <2> QED BY <1>7, <2>1 DEF SumBy, DataSize
<1>11. Given(<<>>, {})
  BY <1>7 DEF Given
<1>12. Timer(rx, 0, 0, 0, {})
  BY <1>5 DEF Timer
<1> QED BY <1>3, <1>4, <1>5, <1>9, <1>10, <1>11, <1>12 DEF Inv, Inv0

RxInv == \E B, H, M, D : Inv(rx, B, H, M, D)

\* The invariant holds in every state.
LEMMA Invariance == Spec => []RxInv
<1>1. Init => RxInv
  <2> SUFFICES ASSUME Init PROVE RxInv
    OBVIOUS
  <2>1. Inv(rx, 0, 0, 0, {})
    BY InitKeeps
  <2> QED BY <2>1 DEF RxInv
<1>2. RxInv /\ [Next]_rx => RxInv'
  <2> SUFFICES ASSUME RxInv, [Next]_rx PROVE RxInv'
    OBVIOUS
  <2>1. PICK B, H, M, D : Inv(rx, B, H, M, D)
    BY DEF RxInv
  <2>2. \E B1, H1, M1, D1 : Inv(rx', B1, H1, M1, D1)
    BY <2>1, NextKeepsInv
  <2> QED BY <2>2 DEF RxInv
<1> QED BY <1>1, <1>2, PTL DEF Spec

\* The numbers of the three SNs, seen from RX_Next.
LEMMA AheadIs ==
  ASSUME NEW B, NEW H, NEW M, NEW D, Inv(rx, B, H, M, D), NEW x \in Nat, B <= x, x <= B + W
  PROVE  Ahead(x % SnCount) = x - B
<1>1. B \in Nat /\ rx.rx_next = B % SnCount
  BY DEF Inv, Inv0, Numbers
<1>2. x < B + SnCount
  BY <1>1, HalfWindow
<1> QED BY <1>1, <1>2, Ahead1 DEF Ahead

\* RX_Next <= RX_Highest_Status <= RX_Next_Highest within the window, the trigger of a running
\* t-Reassembly is above RX_Next, and rx_size is the number of bytes held: reception_actions and
\* check_t_reassembly keep this for every SN length and every order of arrival.
THEOREM ReceiverKeptConsistent == Spec => []ReceiverConsistent
<1>1. RxInv => ReceiverConsistent
  <2> SUFFICES ASSUME RxInv PROVE ReceiverConsistent
    OBVIOUS
  <2>1. PICK B, H, M, D : Inv(rx, B, H, M, D)
    BY DEF RxInv
  <2>2. /\ Numbers(rx, B, H, M) /\ Timer(rx, B, H, M, D) /\ rx.rx_size = DataSize(rx.rx_list)
    BY <2>1 DEF Inv, Inv0
  <2>3. /\ B \in Nat /\ H \in Nat /\ M \in Nat /\ B <= H /\ H <= M /\ M <= B + W /\ W \in Nat
        /\ rx.rx_highest_status = H % SnCount /\ rx.rx_next_highest = M % SnCount
    BY <2>2, HalfWindow DEF Numbers
  <2>4. Ahead(rx.rx_highest_status) = H - B
    <3>1. B <= H /\ H <= B + W
      BY <2>3
    <3> QED BY <2>1, <2>3, <3>1, AheadIs
  <2>5. Ahead(rx.rx_next_highest) = M - B
    <3>1. B <= M /\ M <= B + W
      BY <2>3
    <3> QED BY <2>1, <2>3, <3>1, AheadIs
  <2>6. ASSUME rx.t_reassembly PROVE Ahead(rx.rx_next_status_trigger) \in 1 .. (M - B)
    <3>1. PICK T \in Nat : B < T /\ T <= M /\ rx.rx_next_status_trigger = T % SnCount
      BY <2>2, <2>6 DEF Timer
    <3>2. B <= T /\ T <= B + W
      BY <2>3, <3>1
    <3>3. Ahead(T % SnCount) = T - B
      BY <2>1, <3>1, <3>2, AheadIs
    <3> QED BY <2>3, <3>1, <3>3
  <2>7. H - B <= M - B /\ M - B <= SnCount \div 2
    BY <2>3 DEF W
  <2>8. rx.rx_size = R!SizeAt(rx.rx_list, {i \in DOMAIN rx.rx_list : rx.rx_list[i].data})
    BY <2>2, Zenon DEF DataSize, Data
  <2> QED BY <2>4, <2>5, <2>6, <2>7, <2>8 DEF ReceiverConsistent
<1> QED BY <1>1, Invariance, PTL

\* reassemble_and_deliver gives the upper layer every SDU once and whole, whatever segments it
\* was put together from, overlapping and repeated ones included.
THEOREM EverySduWholeOnce == Spec => []DeliveredWholeOnce
<1>1. RxInv => DeliveredWholeOnce
  <2> SUFFICES ASSUME RxInv PROVE DeliveredWholeOnce
    OBVIOUS
  <2>1. PICK B, H, M, D : Inv(rx, B, H, M, D)
    BY DEF RxInv
  <2>2. Given(rx.delivered, D) /\ D \subseteq Nat
    BY <2>1 DEF Inv, Inv0
  <2>3. ASSUME NEW i \in DOMAIN rx.delivered
        PROVE  rx.delivered[i] = [b \in 1 .. SizeOf(rx.delivered[i][1][1]) |-> <<rx.delivered[i][1][1], b - 1>>]
    <3>1. PICK x \in D : rx.delivered[i] = Whole(x)
      BY <2>2 DEF Given
    <3>2. x \in Nat /\ 1 \in 1 .. SizeOf(x)
      BY <2>2, SizeOfIs
    <3>3. Whole(x)[1] = <<x, 0>>
      BY <3>2 DEF Whole
    <3>4. rx.delivered[i][1][1] = x
      BY <3>1, <3>3
    <3> QED BY <3>1, <3>4, Zenon DEF Whole
  <2>4. \A i, j \in DOMAIN rx.delivered : i # j => rx.delivered[i] # rx.delivered[j]
    BY <2>2 DEF Given
  <2> QED BY <2>3, <2>4 DEF DeliveredWholeOnce
<1> QED BY <1>1, Invariance, PTL

\* Nothing stays undelivered that is complete: reception_actions delivers an SDU with the PDU
\* that completes it, whichever PDU that is.
THEOREM NothingCompleteWaits == Spec => []CompleteIsDelivered
<1>1. RxInv => CompleteIsDelivered
  <2> DEFINE list == rx.rx_list
  <2> SUFFICES ASSUME RxInv, NEW sn \in Sns,
                      UNION {Bytes(list[i]) : i \in {j \in DOMAIN list : list[j].sn = sn}} = 0 .. (SizeOf(sn) - 1)
               PROVE  R!sdu_delivered(rx, sn)
    BY DEF CompleteIsDelivered
  <2>1. PICK B, H, M, D : Inv(rx, B, H, M, D)
    BY DEF RxInv
  <2>2. ListInv(list, B, M, D) /\ ListOk(list, B, M)
    BY <2>1 DEF Inv, Inv0, ListInv
  <2>3. SizeOf(sn) \in Nat \ {0}
    BY SizeOfIs, HalfWindow DEF Sns
  <2>4. \A b \in 0 .. (SizeOf(sn) - 1) : \E i \in DOMAIN list : list[i].sn = sn /\ b \in Bytes(list[i])
    <3> HIDE DEF list
    <3> QED BY Zenon
  <2>5. 0 \in 0 .. (SizeOf(sn) - 1)
    BY <2>3
  <2>6. PICK i \in DOMAIN list : list[i].sn = sn
    BY <2>4, <2>5
  <2>7. PICK x : x = list[i].id
    OBVIOUS
  <2>8. /\ B \in Nat /\ M \in Nat /\ M <= B + W /\ DOMAIN list = 1 .. Len(list)
        /\ \A k \in DOMAIN list : /\ list[k].so \in Nat /\ list[k].size \in Nat /\ list[k].id \in Nat
                                  /\ B <= list[k].id /\ list[k].id < M /\ list[k].sn = list[k].id % SnCount
                                  /\ R!End(list[k]) = list[k].so + list[k].size
    BY <2>2, FitsIs
  <2>9. x \in Nat /\ B <= x /\ x < B + SnCount /\ sn = x % SnCount
    BY <2>6, <2>7, <2>8, HalfWindow
  <2>10. \A k \in DOMAIN list : list[k].sn = sn <=> list[k].id = x
    BY <2>2, <2>9, EntriesAre
  <2>11. SizeOf(sn) = SizeOf(x)
    BY <2>9, SizeOfIs
  <2>12. Covered(list, x)
    <3> SUFFICES ASSUME NEW b \in 0 .. (SizeOf(x) - 1) PROVE \E k \in DOMAIN list : Holds(list[k], x, b)
      BY DEF Covered
    <3>1. PICK k \in DOMAIN list : list[k].sn = sn /\ b \in Bytes(list[k])
      BY <2>4, <2>11
    <3>2. list[k].id = x /\ list[k].so <= b /\ b < R!End(list[k])
      BY <2>8, <2>10, <2>11, <2>3, <3>1 DEF Bytes
    <3> QED BY <3>2 DEF Holds
  <2>13. x \in D
    BY <2>2, <2>9, <2>12 DEF ListInv
  <2> QED BY <2>2, <2>9, <2>12, <2>13, DeliveredIs DEF ListInv
<1> QED BY <1>1, Invariance, PTL

\* What was reported as missing stays in the reporting range: no step takes RX_Highest_Status or
\* RX_Next_Highest back, not even an expiry of t_reassembly whose trigger lags behind.
THEOREM NeverMovesBack == Spec => ReceiverAdvances
<1> DEFINE Goal == /\ Ahead(rx'.rx_highest_status) >= Ahead(rx.rx_highest_status)
                   /\ Ahead(rx'.rx_next_highest) >= Ahead(rx.rx_next_highest)
<1>1. RxInv /\ [Next]_rx => [Goal]_rx
  <2> SUFFICES ASSUME RxInv, [Next]_rx PROVE Goal
    OBVIOUS
  <2>1. PICK B, H, M, D : Inv(rx, B, H, M, D)
    BY DEF RxInv
  <2>2. PICK B1, H1, M1, D1 : Inv(rx', B1, H1, M1, D1) /\ Forward(B, H, M, B1, H1, M1)
    BY <2>1, NextKeepsInv
  <2>3. /\ B \in Nat /\ H \in Nat /\ M \in Nat /\ B <= H /\ H <= M /\ M <= B + W /\ W \in Nat
        /\ rx.rx_highest_status = H % SnCount /\ rx.rx_next_highest = M % SnCount
    BY <2>1, HalfWindow DEF Inv, Inv0, Numbers
  <2>4. /\ B1 \in Nat /\ H1 \in Nat /\ M1 \in Nat /\ B1 <= H1 /\ H1 <= M1
        /\ rx'.rx_highest_status = H1 % SnCount /\ rx'.rx_next_highest = M1 % SnCount
    BY <2>2 DEF Inv, Inv0, Numbers
  <2>5. B <= B1 /\ H <= H1 /\ M <= M1 /\ M1 <= B + W
    BY <2>2 DEF Forward
  <2>6. \A x \in Nat : B <= x /\ x <= B + W => Ahead(x % SnCount) = x - B
    BY <2>1, AheadIs
  <2>7. /\ Ahead(rx.rx_highest_status) = H - B /\ Ahead(rx.rx_next_highest) = M - B
        /\ Ahead(rx'.rx_highest_status) = H1 - B /\ Ahead(rx'.rx_next_highest) = M1 - B
    <3>1. /\ B <= H /\ H <= B + W /\ B <= M /\ M <= B + W /\ B <= H1 /\ H1 <= B + W /\ B <= M1 /\ M1 <= B + W
      BY <2>3, <2>4, <2>5
    <3> QED BY <2>3, <2>4, <2>6, <3>1
  <2> QED BY <2>3, <2>4, <2>5, <2>7
<1>2. Spec => [][Goal]_rx
  BY <1>1, Invariance, PTL DEF Spec
<1> QED BY <1>2 DEF ReceiverAdvances

---------------------------------------------------------------------------
(* NACKs and their sizes.                                                  *)

Nack == [sn : Sns, so_start : Nat, so_end : Nat, range : Nat \ {0}]
Run == [sn_start : Sns, so_start : Nat, sn_end : Sns, so_end : Nat, next : Nat]

\* The bits of a NACK make the bytes that nack_size says.
LEMMA NackSizeIs ==
  ASSUME NEW k \in Nack
  PROVE  R!nack_size(k) \in 2 .. 8 /\ R!NackBits(k) \div 8 = R!nack_size(k)
<1>1. SnBytes = 2 \/ SnBytes = 3
  BY ReceiverAssumption
<1>2. CASE SnBytes = 2
  <2>1. R!nack_size(k) = 2 + (IF R!HasSo(k) THEN 4 ELSE 0) + (IF k.range > 1 THEN 1 ELSE 0)
    BY <1>2 DEF R!nack_size
  <2>2. R!NackBits(k) = 16 + (IF R!HasSo(k) THEN 32 ELSE 0) + (IF k.range > 1 THEN 8 ELSE 0)
    BY <1>2 DEF R!NackBits, R!SnBits
  <2> QED BY <2>1, <2>2
<1>3. CASE SnBytes = 3
  <2>1. R!nack_size(k) = 3 + (IF R!HasSo(k) THEN 4 ELSE 0) + (IF k.range > 1 THEN 1 ELSE 0)
    BY <1>3 DEF R!nack_size
  <2>2. R!NackBits(k) = 24 + (IF R!HasSo(k) THEN 32 ELSE 0) + (IF k.range > 1 THEN 8 ELSE 0)
    BY <1>3 DEF R!NackBits, R!SnBits
  <2> QED BY <2>1, <2>2
<1> QED BY <1>1, <1>2, <1>3

\* How often a number fits into another, rounded up.
LEMMA RoundUp ==
  ASSUME NEW c \in Nat \ {0}, NEW u \in Nat \ {0}
  PROVE  LET p == (c + u - 1) \div u
         IN  p \in Nat \ {0} /\ p <= c /\ u * (p - 1) < c /\ c <= u * p /\ u * p = u * (p - 1) + u
<1> DEFINE z == c + u - 1
<1>1. PICK p, t : p = z \div u /\ t = z % u
  OBVIOUS
<1>2. p \in Int /\ t \in 0 .. (u - 1) /\ z = u * p + t
  BY <1>1
<1>3. PICK v : v = u * p
  OBVIOUS
<1>4. v \in Int /\ c <= v /\ v < c + u
  BY <1>2, <1>3
<1>5. p <= 0 => v <= 0
  BY <1>2, <1>3
<1>6. p >= 1
  BY <1>2, <1>4, <1>5
<1>7. PICK y : y = u * (p - 1)
  OBVIOUS
<1>8. y = v - u /\ y \in Int
  BY <1>2, <1>3, <1>7
<1>9. y >= p - 1
  BY <1>2, <1>6, <1>7
<1>10. p <= c
  BY <1>2, <1>4, <1>8, <1>9
<1>11. p \in Nat \ {0} /\ y < c /\ c <= v /\ v = y + u
  BY <1>2, <1>4, <1>6, <1>8
<1> QED BY <1>1, <1>3, <1>7, <1>10, <1>11

\* A run of missing bytes takes at least one NACK and at most one for each of its SDUs.
LEMMA NacksForIs ==
  ASSUME NEW m \in Run
  PROVE  /\ R!NacksFor(m) \in Seq(Nack) /\ Len(R!NacksFor(m)) \in 1 .. SnCount
<1> DEFINE d == (m.sn_end - m.sn_start) % SnCount
           c == d + 1
           u == MaxNackRange
           p == (c + u - 1) \div u
<1>1. m.sn_start \in Nat /\ m.sn_end \in Nat /\ m.so_start \in Nat /\ m.so_end \in Nat
  BY HalfWindow DEF Run, Sns
<1>2. d \in 0 .. (SnCount - 1)
  BY <1>1, HalfWindow
<1> HIDE DEF d
<1>3. c \in Nat \ {0} /\ c <= SnCount /\ u \in Nat \ {0}
  BY <1>2, HalfWindow, ReceiverAssumption
<1> HIDE DEF c, u
<1>4. p \in Nat \ {0} /\ p <= c /\ u * (p - 1) < c /\ c <= u * p /\ u * p = u * (p - 1) + u
  BY <1>3, RoundUp
<1> HIDE DEF p
<1> DEFINE N(i) == [sn |-> R!Plus(m.sn_start, (i - 1) * u), so_start |-> IF i = 1 THEN m.so_start ELSE 0,
                    so_end |-> IF i = p THEN m.so_end ELSE R!SoEnd,
                    range |-> IF i = p THEN c - (i - 1) * u ELSE u]
<1>5. R!NacksFor(m) = [i \in 1 .. p |-> N(i)]
  BY Zenon DEF R!NacksFor, d, c, u, p
<1>6. ASSUME NEW i \in 1 .. p PROVE N(i) \in Nack
  <2>1. PICK x : x = (i - 1) * u
    OBVIOUS
  <2>2. x \in Nat
    BY <1>3, <1>4, <2>1
  <2>3. R!Plus(m.sn_start, x) \in Sns
    BY <1>1, <2>2, HalfWindow DEF R!Plus, Sns
  <2>4. i = p => c - x \in Nat \ {0}
    BY <1>3, <1>4, <2>1, <2>2
  <2>5. R!SoEnd \in Nat
    BY DEF R!SoEnd
  <2>6. N(i).range = IF i = p THEN c - x ELSE u
    BY <2>1
  <2> QED BY <1>1, <1>3, <2>1, <2>3, <2>4, <2>5 DEF Nack
<1> HIDE DEF N
<1>7. [i \in 1 .. p |-> N(i)] \in Seq(Nack) /\ Len([i \in 1 .. p |-> N(i)]) = p
  BY <1>4, <1>6
<1>8. p \in 1 .. SnCount
  BY <1>3, <1>4, HalfWindow
<1> QED BY <1>5, <1>7, <1>8

\* What some sizes add up to.
AfterBy(byte, sizes, f) ==
  /\ f \in [0 .. Len(sizes) -> Nat] /\ f[0] = byte
  /\ \A k \in 1 .. Len(sizes) : f[k] = f[k - 1] + sizes[k]

\* That function exists.
LEMMA AfterExists ==
  ASSUME NEW byte \in Nat, NEW sizes \in Seq(Nat)
  PROVE  \E f : AfterBy(byte, sizes, f) /\ \A n \in 0 .. Len(sizes) : R!After(byte, sizes, n) = f[n]
<1> DEFINE n == Len(sizes)
           Body(g) == [i \in 0 .. Len(sizes) |-> IF i = 0 THEN byte ELSE g[i - 1] + sizes[i]]
           sum == CHOOSE g : g = Body(g)
<1>1. \A k : R!After(byte, sizes, k) = sum[k]
  BY Zenon DEF R!After
<1>2. n \in Nat /\ \A i \in 1 .. n : sizes[i] \in Nat
  OBVIOUS
<1> DEFINE step == [x \in (1 .. n) \X Nat |-> x[2] + sizes[x[1]]]
<1>3. step \in [(1 .. n) \X Nat -> Nat]
  BY <1>2
<1>4. \A i \in 1 .. n : \A q \in Nat : step[<<i, q>>] = q + sizes[i]
  OBVIOUS
<1> HIDE DEF step
<1>5. PICK f : f \in [0 .. n -> Nat] /\ f[0] = byte /\ \A k \in 1 .. n : f[k] = step[<<k, f[k - 1]>>]
  <2>1. n \in Nat /\ byte \in Nat
    BY <1>2
  <2> HIDE DEF n
  <2>2. \E f : StepByStep(f, Nat, n, byte, step)
    BY <1>3, <2>1, RecursionExists, Zenon
  <2> QED BY <2>2, Zenon DEF StepByStep
<1>6. \A i \in 0 .. n : f[i] = Body(f)[i]
  <2> SUFFICES ASSUME NEW i \in 0 .. n PROVE f[i] = Body(f)[i]
    OBVIOUS
  <2>1. CASE i = 0
    BY <1>5, <2>1
  <2>2. CASE i # 0
    <3>1. i \in 1 .. n /\ i - 1 \in 0 .. n
      BY <1>2, <2>2
    <3>2. f[i - 1] \in Nat
      BY <1>5, <3>1
    <3>3. f[i] = f[i - 1] + sizes[i]
      BY <1>4, <1>5, <3>1, <3>2
    <3> QED BY <2>2, <3>3
  <2> QED BY <2>1, <2>2
<1>7. f = Body(f)
  <2>1. DOMAIN Body(f) = 0 .. n /\ Body(f) = [i \in 0 .. n |-> Body(f)[i]] /\ f = [i \in 0 .. n |-> f[i]]
    BY <1>5
  <2> HIDE DEF Body
  <2> QED BY <1>6, <2>1
<1>8. sum = Body(sum)
  <2> HIDE DEF Body
  <2> QED BY <1>7, Zenon
<1> HIDE DEF sum
<1>9. sum[0] = byte /\ \A k \in 1 .. n : sum[k] = sum[k - 1] + sizes[k]
  <2>1. ASSUME NEW i \in 0 .. n
        PROVE  sum[i] = IF i = 0 THEN byte ELSE sum[i - 1] + sizes[i]
    BY <1>8
  <2>2. 0 \in 0 .. n /\ \A k \in 1 .. n : k \in 0 .. n /\ k # 0
    BY <1>2
  <2> QED BY <2>1, <2>2
<1> DEFINE T == {k \in 0 .. n : sum[k] \in Nat}
<1>10. 0 \in T
  BY <1>2, <1>9
<1>11. ASSUME NEW k \in 1 .. n, k - 1 \in T PROVE k \in T
  <2>1. sum[k - 1] \in Nat /\ k \in 0 .. n
    BY <1>2, <1>11
  <2> QED BY <1>2, <1>9, <2>1
<1>12. \A k \in 0 .. n : k \in T
  <2> HIDE DEF T, n
  <2> QED BY <1>2, <1>10, <1>11, NatInduct
<1>13. sum \in [0 .. n -> Nat]
  <2>1. sum = [i \in 0 .. n |-> sum[i]]
    BY <1>8
  <2> QED BY <1>12, <2>1
<1>14. AfterBy(byte, sizes, sum)
  BY <1>9, <1>13, Zenon DEF AfterBy
<1> QED BY <1>1, <1>14, Zenon

\* The bytes of a STATUS grow with every NACK, by its size.
LEMMA ByteAfterIs ==
  ASSUME NEW byte \in Nat, NEW nacks \in Seq(Nack)
  PROVE  /\ R!ByteAfter(byte, nacks, 0) = byte
         /\ \A n \in 0 .. Len(nacks) : /\ R!ByteAfter(byte, nacks, n) \in Nat
                                       /\ R!SizeAfter(byte, nacks, n) = R!ByteAfter(byte, nacks, n)
         /\ \A n \in 1 .. Len(nacks) :
              /\ R!ByteAfter(byte, nacks, n) = R!ByteAfter(byte, nacks, n - 1) + R!nack_size(nacks[n])
              /\ R!nack_size(nacks[n]) \in 2 .. 8
<1> DEFINE sizes == [i \in 1 .. Len(nacks) |-> R!nack_size(nacks[i])]
           counted == [i \in 1 .. Len(nacks) |-> R!NackBits(nacks[i]) \div 8]
<1>1. Len(nacks) \in Nat /\ \A i \in 1 .. Len(nacks) : nacks[i] \in Nack
  BY SeqElement
<1>2. \A i \in 1 .. Len(nacks) : /\ R!nack_size(nacks[i]) \in 2 .. 8
                                 /\ R!NackBits(nacks[i]) \div 8 = R!nack_size(nacks[i])
  BY <1>1, NackSizeIs
<1>3. sizes \in Seq(Nat) /\ Len(sizes) = Len(nacks) /\ \A i \in 1 .. Len(nacks) : sizes[i] = R!nack_size(nacks[i])
  BY <1>1, <1>2
<1>4. counted = sizes
  BY <1>2
<1>5. \A n : R!ByteAfter(byte, nacks, n) = R!After(byte, sizes, n)
  BY Zenon DEF R!ByteAfter
<1>6. \A n : R!SizeAfter(byte, nacks, n) = R!After(byte, counted, n)
  BY Zenon DEF R!SizeAfter
<1> HIDE DEF sizes, counted
<1>7. PICK f : AfterBy(byte, sizes, f) /\ \A n \in 0 .. Len(sizes) : R!After(byte, sizes, n) = f[n]
  BY <1>3, AfterExists
<1>8. /\ f \in [0 .. Len(nacks) -> Nat] /\ f[0] = byte
      /\ \A k \in 1 .. Len(nacks) : f[k] = f[k - 1] + sizes[k]
  BY <1>3, <1>7 DEF AfterBy
<1>9. \A n \in 0 .. Len(nacks) : R!ByteAfter(byte, nacks, n) = f[n] /\ R!SizeAfter(byte, nacks, n) = f[n]
  BY <1>3, <1>4, <1>5, <1>6, <1>7
<1>10. 0 \in 0 .. Len(nacks) /\ \A n \in 1 .. Len(nacks) : n \in 0 .. Len(nacks) /\ n - 1 \in 0 .. Len(nacks)
  BY <1>1
<1> QED BY <1>2, <1>3, <1>8, <1>9, <1>10

\* encoder->byte grows with every NACK, by at most 8.
LEMMA ByteGrows ==
  ASSUME NEW byte \in Nat, NEW nacks \in Seq(Nack)
  PROVE  \A n \in 0 .. Len(nacks) : /\ \A i \in 0 .. n : R!ByteAfter(byte, nacks, i) <= R!ByteAfter(byte, nacks, n)
                                    /\ R!ByteAfter(byte, nacks, n) <= byte + 8 * n
                                    /\ n > 0 => R!ByteAfter(byte, nacks, n) >= byte + 2
<1> DEFINE Byte(i) == R!ByteAfter(byte, nacks, i)
           Good(n) == (\A i \in 0 .. n : Byte(i) <= Byte(n)) /\ Byte(n) <= byte + 8 * n /\ (n > 0 => Byte(n) >= byte + 2)
           len == Len(nacks)
           T == {n \in 0 .. len : Good(n)}
<1>1. /\ Byte(0) = byte /\ len \in Nat /\ \A n \in 0 .. len : Byte(n) \in Nat
      /\ \A n \in 1 .. len : Byte(n) = Byte(n - 1) + R!nack_size(nacks[n]) /\ R!nack_size(nacks[n]) \in 2 .. 8
  BY ByteAfterIs
<1> HIDE DEF Byte, len
<1>2. 0 \in T
  BY <1>1
<1>3. ASSUME NEW n \in 1 .. len, n - 1 \in T PROVE n \in T
  <2>1. Good(n - 1) /\ n \in 0 .. len /\ n - 1 \in 0 .. len /\ n \in Nat
    BY <1>1, <1>3
  <2>2. PICK a, b, z : a = Byte(n - 1) /\ b = Byte(n) /\ z = R!nack_size(nacks[n])
    OBVIOUS
  <2>3. a \in Nat /\ b \in Nat /\ a + 2 <= b /\ b <= a + 8
    <3>1. a \in Nat /\ b \in Nat /\ b = a + z /\ z \in 2 .. 8
      BY <1>1, <2>1, <2>2, Zenon
    <3> QED BY <3>1
  <2>4. a <= byte + 8 * (n - 1) /\ a >= byte /\ (\A i \in 0 .. (n - 1) : Byte(i) <= a)
    <3>1. 0 \in 0 .. (n - 1)
      BY <2>1
    <3> QED BY <1>1, <2>1, <2>2, <3>1
  <2>5. ASSUME NEW i \in 0 .. n PROVE Byte(i) <= b
    <3>1. i = n \/ i \in 0 .. (n - 1)
      BY <2>1
    <3>2. i \in 0 .. len
      BY <2>1, <1>1
    <3> QED BY <1>1, <2>2, <2>3, <2>4, <3>1, <3>2
  <2> QED BY <2>1, <2>2, <2>3, <2>4, <2>5
<1>4. \A n \in 0 .. len : n \in T
  <2> HIDE DEF T
  <2> QED BY <1>1, <1>2, <1>3, NatInduct
<1> QED BY <1>4 DEF Byte, len

\* The number of NACKs that fit: the next one does not.
LEMMA FittingIs ==
  ASSUME NEW byte \in Nat, NEW nacks \in Seq(Nack), NEW size \in Nat
  PROVE  /\ R!Fitting(byte, nacks, size) \in 0 .. Len(nacks)
         /\ \A i \in 1 .. R!Fitting(byte, nacks, size) : R!ByteAfter(byte, nacks, i) <= size
         /\ R!Fitting(byte, nacks, size) < Len(nacks) =>
              R!ByteAfter(byte, nacks, R!Fitting(byte, nacks, size) + 1) > size
<1> DEFINE S == {n \in 0 .. Len(nacks) : \A i \in 1 .. n : R!ByteAfter(byte, nacks, i) <= size}
<1>1. Len(nacks) \in Nat
  OBVIOUS
<1>2. S \subseteq Nat /\ 0 \in S /\ \A y \in S : y <= Len(nacks)
  BY <1>1
<1>3. R!Fitting(byte, nacks, size) = Max(S)
  BY Zenon DEF R!Fitting, R!Max, Max
<1> HIDE DEF S
<1>4. PICK f : f = Max(S)
  OBVIOUS
<1>5. f \in S /\ \A y \in S : y <= f
  <2>1. S # {}
    BY <1>2
  <2> QED BY <1>1, <1>2, <1>4, <2>1, MaxNat
<1>6. f \in 0 .. Len(nacks) /\ \A i \in 1 .. f : R!ByteAfter(byte, nacks, i) <= size
  BY <1>5 DEF S
<1>7. ASSUME f < Len(nacks) PROVE R!ByteAfter(byte, nacks, f + 1) > size
  <2>1. f + 1 \in 0 .. Len(nacks) /\ f + 1 \notin S
    BY <1>1, <1>5, <1>6, <1>7
  <2>2. ~ \A i \in 1 .. (f + 1) : R!ByteAfter(byte, nacks, i) <= size
    BY <2>1 DEF S
  <2>3. PICK i \in 1 .. (f + 1) : ~(R!ByteAfter(byte, nacks, i) <= size)
    BY <2>2
  <2>4. i = f + 1
    BY <1>6, <2>3
  <2>5. R!ByteAfter(byte, nacks, i) \in Nat
    BY <2>1, <2>4, ByteAfterIs
  <2> QED BY <2>3, <2>4, <2>5
<1> QED BY <1>3, <1>4, <1>6, <1>7

\* There is only one such number.
LEMMA FittingIsOnly ==
  ASSUME NEW byte \in Nat, NEW nacks \in Seq(Nack), NEW size \in Nat, NEW n \in 0 .. Len(nacks),
         n > 0 => R!ByteAfter(byte, nacks, n) <= size,
         n < Len(nacks) => R!ByteAfter(byte, nacks, n + 1) > size
  PROVE  R!Fitting(byte, nacks, size) = n
<1>1. PICK f : f = R!Fitting(byte, nacks, size)
  OBVIOUS
<1>2. /\ f \in 0 .. Len(nacks) /\ \A i \in 1 .. f : R!ByteAfter(byte, nacks, i) <= size
      /\ f < Len(nacks) => R!ByteAfter(byte, nacks, f + 1) > size
  BY <1>1, FittingIs
<1>3. Len(nacks) \in Nat /\ \A k \in 0 .. Len(nacks) : R!ByteAfter(byte, nacks, k) \in Nat
  <2>1. \A k \in 0 .. Len(nacks) : R!ByteAfter(byte, nacks, k) \in Nat
    BY ByteAfterIs
  <2> QED BY <2>1
<1>4. ~(n < f)
  <2> SUFFICES ASSUME n < f PROVE FALSE
    OBVIOUS
  <2>1. n + 1 \in 1 .. f /\ n + 1 \in 0 .. Len(nacks) /\ n < Len(nacks)
    BY <1>2, <1>3
  <2> QED BY <1>2, <1>3, <2>1
<1>5. ~(f < n)
  <2> SUFFICES ASSUME f < n PROVE FALSE
    OBVIOUS
  <2>1. f + 1 \in 0 .. n /\ f + 1 \in 0 .. Len(nacks) /\ f < Len(nacks)
    BY <1>2, <1>3
  <2>2. R!ByteAfter(byte, nacks, f + 1) <= R!ByteAfter(byte, nacks, n)
    BY <2>1, ByteGrows
  <2> QED BY <1>2, <1>3, <2>1, <2>2
<1> QED BY <1>1, <1>2, <1>4, <1>5

\* missing_size counts the NACKs that generate_missing puts.
LEMMA CountedIs ==
  ASSUME NEW byte \in Nat, NEW nacks \in Seq(Nack), NEW size \in Nat
  PROVE  R!Counted(byte, nacks, size) = R!Fitting(byte, nacks, size)
<1>1. Len(nacks) \in Nat
  OBVIOUS
<1>2. ASSUME NEW i \in 1 .. Len(nacks)
      PROVE  R!SizeAfter(byte, nacks, i - 1) + R!nack_size(nacks[i]) = R!ByteAfter(byte, nacks, i)
  <2>1. i - 1 \in 0 .. Len(nacks)
    BY <1>1
  <2>2. R!SizeAfter(byte, nacks, i - 1) = R!ByteAfter(byte, nacks, i - 1)
    BY <2>1, ByteAfterIs
  <2>3. R!ByteAfter(byte, nacks, i) = R!ByteAfter(byte, nacks, i - 1) + R!nack_size(nacks[i])
    BY ByteAfterIs
  <2> QED BY <2>2, <2>3
<1>3. {n \in 0 .. Len(nacks) : \A i \in 1 .. n : R!SizeAfter(byte, nacks, i - 1) + R!nack_size(nacks[i]) <= size}
      = {n \in 0 .. Len(nacks) : \A i \in 1 .. n : R!ByteAfter(byte, nacks, i) <= size}
  <2>1. \A n \in 0 .. Len(nacks) : \A i \in 1 .. n : i \in 1 .. Len(nacks)
    BY <1>1
  <2> QED BY <1>2, <2>1
<1> QED BY <1>3, Zenon DEF R!Counted, R!Fitting

---------------------------------------------------------------------------
(* next_missing.                                                           *)

\* The place where the entries from i on break off.
Breaks(l, i) == {k \in i .. Len(l) : k = Len(l) \/ R!Discontinuity(l, i, k)}
Break(l, i) == Min(Breaks(l, i))

\* There is such a place, at the latest the last entry.
LEMMA BreakIs ==
  ASSUME NEW l \in Seq(Entry), NEW i \in 1 .. Len(l)
  PROVE  /\ Break(l, i) \in i .. Len(l) /\ Break(l, i) \in 1 .. Len(l)
         /\ Break(l, i) < Len(l) => R!Discontinuity(l, i, Break(l, i))
         /\ \A k \in i .. Len(l) : k < Break(l, i) => ~R!Discontinuity(l, i, k)
<1>1. Len(l) \in Nat
  OBVIOUS
<1>2. Breaks(l, i) \subseteq i .. Len(l) /\ Breaks(l, i) \subseteq Nat /\ Len(l) \in Breaks(l, i)
  BY <1>1 DEF Breaks
<1>3. PICK j : j = Break(l, i)
  OBVIOUS
<1>4. j \in Breaks(l, i) /\ \A y \in Breaks(l, i) : j <= y
  <2>1. Breaks(l, i) # {}
    BY <1>2
  <2> QED BY <1>2, <1>3, <2>1, MinNat DEF Break
<1>5. j \in i .. Len(l) /\ (j = Len(l) \/ R!Discontinuity(l, i, j))
  BY <1>4 DEF Breaks
<1>6. ASSUME NEW k \in i .. Len(l), k < j PROVE ~R!Discontinuity(l, i, k)
  <2>1. k \notin Breaks(l, i)
    BY <1>2, <1>4, <1>5, <1>6
  <2> QED BY <2>1 DEF Breaks
<1> QED BY <1>1, <1>3, <1>5, <1>6

\* max_so is the last byte of the entries of an SDU from i to j.
LEMMA MaxSoIs ==
  ASSUME NEW l, NEW B, NEW M, ListOk(l, B, M), NEW i \in 1 .. Len(l), NEW j \in i .. Len(l)
  PROVE  /\ R!MaxSo(l, i, j) \in Nat
         /\ \A k \in i .. j : l[k].id = l[j].id => R!End(l[k]) <= R!MaxSo(l, i, j) + 1
         /\ \E k \in i .. j : l[k].id = l[j].id /\ R!End(l[k]) = R!MaxSo(l, i, j) + 1
         /\ \A k \in i .. j : l[k].id = l[j].id /\ l[k].last => R!LastReached(l, i, j)
         /\ R!LastReached(l, i, j) => \E k \in i .. j : l[k].id = l[j].id /\ l[k].last
<1> DEFINE K == R!Block(l, i, j)
           S == {0} \cup {R!End(l[k]) - 1 : k \in K}
<1>1. /\ Len(l) \in Nat /\ DOMAIN l = 1 .. Len(l) /\ B \in Nat /\ M \in Nat /\ M <= B + W
      /\ \A k \in 1 .. Len(l) : /\ R!End(l[k]) \in Nat /\ R!End(l[k]) > 0 /\ R!End(l[k]) <= SizeOf(l[k].id)
                                /\ l[k].id \in Nat /\ B <= l[k].id /\ l[k].id < M /\ l[k].sn = l[k].id % SnCount
  <2>1. \A n \in Nat : \A e \in Nat : n < e => e > 0
    OBVIOUS
  <2> QED BY <2>1, FitsIs
<1>2. \A k \in i .. j : k \in 1 .. Len(l)
  BY <1>1
<1>3. j \in 1 .. Len(l) /\ j \in i .. j
  BY <1>1
<1>4. \A k \in 1 .. Len(l) : l[k].sn = l[j].sn <=> l[k].id = l[j].id
  <2>1. PICK x : x = l[j].id
    OBVIOUS
  <2>2. x \in Nat /\ B <= x /\ x < B + SnCount /\ l[j].sn = x % SnCount
    BY <1>1, <1>3, <2>1, HalfWindow
  <2> QED BY <1>1, <2>1, <2>2, EntriesAre
<1>5. \A k : k \in K <=> k \in i .. j /\ l[k].id = l[j].id
  BY <1>2, <1>4 DEF R!Block
<1>6. j \in K /\ \A k \in K : k \in 1 .. Len(l)
  BY <1>2, <1>3, <1>5
<1>7. R!MaxSo(l, i, j) = Max(S)
  BY Zenon DEF R!MaxSo, R!Max, Max
<1>8. R!LastReached(l, i, j) <=> \E k \in K : l[k].last
  BY DEF R!LastReached
<1> HIDE DEF K
<1>9. \A k \in K : R!End(l[k]) - 1 \in Nat /\ R!End(l[k]) - 1 <= SduSize
  <2> SUFFICES ASSUME NEW k \in K PROVE R!End(l[k]) - 1 \in Nat /\ R!End(l[k]) - 1 <= SduSize
    OBVIOUS
  <2>1. PICK e, s : e = R!End(l[k]) /\ s = SizeOf(l[k].id)
    OBVIOUS
  <2>2. e \in Nat /\ e > 0 /\ e <= s /\ s <= SduSize /\ s \in Nat /\ SduSize \in Nat
    BY <1>1, <1>6, <2>1, SizeOfIs, ReceiverAssumption
  <2> QED BY <2>1, <2>2
<1>10. S \subseteq Nat /\ 0 \in S /\ SduSize \in Nat /\ \A y \in S : y <= SduSize
  BY <1>9, ReceiverAssumption
<1>11. Max(S) \in S /\ \A y \in S : y <= Max(S)
  <2>1. S # {}
    BY <1>10
  <2> HIDE DEF S
  <2> QED BY <1>10, <2>1, MaxNat
<1>12. PICK m : m = Max(S)
  OBVIOUS
<1>13. m \in Nat /\ m \in S /\ \A k \in K : R!End(l[k]) - 1 <= m
  BY <1>10, <1>11, <1>12
<1>14. \A k \in K : R!End(l[k]) <= m + 1
  <2> SUFFICES ASSUME NEW k \in K PROVE R!End(l[k]) <= m + 1
    OBVIOUS
  <2>1. PICK e : e = R!End(l[k])
    OBVIOUS
  <2>2. e \in Nat /\ e - 1 <= m
    BY <1>1, <1>6, <1>13, <2>1
  <2> QED BY <1>13, <2>1, <2>2
<1>15. \E k \in K : R!End(l[k]) = m + 1
  <2>1. CASE m = 0
    <3>1. PICK e : e = R!End(l[j])
      OBVIOUS
    <3>2. e \in Nat /\ e > 0 /\ e <= m + 1
      BY <1>1, <1>3, <1>6, <1>14, <3>1
    <3>3. e = m + 1
      BY <2>1, <3>2
    <3> QED BY <1>6, <3>1, <3>3
  <2>2. CASE m # 0
    <3>1. PICK k \in K : m = R!End(l[k]) - 1
      BY <1>13, <2>2
    <3>2. R!End(l[k]) \in Nat
      BY <1>1, <1>6
    <3> QED BY <3>1, <3>2
  <2> QED BY <2>1, <2>2
<1> QED BY <1>5, <1>7, <1>8, <1>12, <1>13, <1>14, <1>15

\* What next_missing decides from the place where the entries break off.
Over(l, i) == R!LastReached(l, i, Break(l, i)) \/ (Break(l, i) = Len(l) /\ ~l[Break(l, i)].data)
HeadMissing(r, i) == r.rx_list[i].sn # r.rx_next \/ ~r.rx_list[i].first
StartSn(l, i) == IF Over(l, i) THEN R!Plus(l[Break(l, i)].sn, 1) ELSE l[Break(l, i)].sn
StartSo(l, i) == IF Over(l, i) THEN 0 ELSE R!MaxSo(l, i, Break(l, i)) + 1

\* next_missing, in these words.
LEMMA NextMissingIs ==
  ASSUME NEW r, NEW i, NEW h
  PROVE  R!next_missing(r, i, h) =
           IF h /\ HeadMissing(r, i)
           THEN IF R!Reported(r, r.rx_next) THEN R!UpTo(r, r.rx_next, 0, i) ELSE {}
           ELSE IF Break(r.rx_list, i) < Len(r.rx_list)
                   /\ r.rx_list[Break(r.rx_list, i) + 1].sn = r.rx_list[Break(r.rx_list, i)].sn
           THEN IF R!Reported(r, r.rx_list[Break(r.rx_list, i)].sn)
                THEN R!Missing(r.rx_list[Break(r.rx_list, i)].sn, R!MaxSo(r.rx_list, i, Break(r.rx_list, i)) + 1,
                               r.rx_list[Break(r.rx_list, i)].sn, r.rx_list[Break(r.rx_list, i) + 1].so - 1,
                               Break(r.rx_list, i) + 1)
                ELSE {}
           ELSE IF ~R!Reported(r, StartSn(r.rx_list, i)) THEN {}
           ELSE IF Break(r.rx_list, i) < Len(r.rx_list)
           THEN R!UpTo(r, StartSn(r.rx_list, i), StartSo(r.rx_list, i), Break(r.rx_list, i) + 1)
           ELSE R!Missing(StartSn(r.rx_list, i), StartSo(r.rx_list, i), R!Plus(r.rx_highest_status, -1), R!SoEnd, 0)
<1>1. R!Min({k \in i .. Len(r.rx_list) : k = Len(r.rx_list) \/ R!Discontinuity(r.rx_list, i, k)}) = Break(r.rx_list, i)
  BY Zenon DEF R!Min, Min, Break, Breaks
<1> QED BY <1>1, Zenon DEF R!next_missing, HeadMissing, StartSn, StartSo, Over

\* The first entry after a hole does not begin at byte 0.
LEMMA AfterHole ==
  ASSUME NEW l, NEW B, NEW M, ListOk(l, B, M), NEW i \in 1 .. Len(l), NEW j \in 1 .. Len(l), i <= j, j < Len(l),
         R!Discontinuity(l, i, j), l[j + 1].sn = l[j].sn
  PROVE  R!MaxSo(l, i, j) + 1 <= l[j + 1].so - 1 /\ l[j + 1].so \in Nat /\ l[j + 1].so - 1 \in Nat
<1>1. Len(l) \in Nat /\ \A k \in 1 .. Len(l) : l[k].so \in Nat
  BY FitsIs
<1>2. j + 1 \in 1 .. Len(l) /\ j \in i .. Len(l)
  BY <1>1
<1>3. PICK x, s : x = R!MaxSo(l, i, j) /\ s = l[j + 1].so
  OBVIOUS
<1>4. x \in Nat /\ s \in Nat
  BY <1>1, <1>2, <1>3, MaxSoIs
<1>5. ~(x >= s - 1)
  BY <1>3 DEF R!Discontinuity
<1> QED BY <1>3, <1>4, <1>5

\* A run of missing bytes.
LEMMA MissingIs ==
  ASSUME NEW sn1 \in Sns, NEW so1 \in Nat, NEW sn2 \in Sns, NEW so2 \in Nat, NEW n \in Nat,
         NEW m \in R!Missing(sn1, so1, sn2, so2, n)
  PROVE  /\ m \in Run /\ m.sn_start = sn1 /\ m.so_start = so1 /\ m.sn_end = sn2 /\ m.so_end = so2 /\ m.next = n
BY DEF R!Missing, Run

\* A run up to an entry goes on from an entry of the list.
LEMMA UpToIs ==
  ASSUME NEW r \in RxState, NEW B, NEW M, ListOk(r.rx_list, B, M), NEW sn1 \in Sns, NEW so1 \in Nat,
         NEW i \in 1 .. Len(r.rx_list), NEW m \in R!UpTo(r, sn1, so1, i)
  PROVE  m \in Run /\ m.next \in 0 .. Len(r.rx_list)
<1> DEFINE c == r.rx_list[i]
           sn2 == IF c.first THEN R!Plus(c.sn, -1) ELSE c.sn
           so2 == IF c.first THEN R!SoEnd ELSE c.so - 1
           high == R!Plus(r.rx_highest_status, -1)
<1>1. /\ Len(r.rx_list) \in Nat /\ DOMAIN r.rx_list = 1 .. Len(r.rx_list) /\ c.so \in Nat /\ c.id \in Nat
      /\ c.sn = c.id % SnCount
  BY FitsIs
<1>2. c.first <=> c.so = 0
  BY <1>1 DEF ListOk, Fits
<1>3. c.sn \in Sns
  BY <1>1, SnIs
<1>4. r.rx_highest_status \in Sns
  BY DEF RxState
<1>5. \A s \in Sns : R!Plus(s, -1) \in Sns
  BY HalfWindow DEF R!Plus, Sns
<1>6. high \in Sns /\ sn2 \in Sns /\ R!SoEnd \in Nat
  BY <1>3, <1>4, <1>5 DEF R!SoEnd
<1>7. so2 \in Nat
  BY <1>1, <1>2, <1>6
<1>8. R!UpTo(r, sn1, so1, i) = IF R!sn_compare_rx(r, r.rx_highest_status, sn2) <= 0
                               THEN R!Missing(sn1, so1, high, R!SoEnd, 0) ELSE R!Missing(sn1, so1, sn2, so2, i)
  BY Zenon DEF R!UpTo
<1> HIDE DEF sn2, so2, high
<1>9. CASE m \in R!Missing(sn1, so1, high, R!SoEnd, 0)
  BY <1>1, <1>6, <1>9, MissingIs
<1>10. CASE m \in R!Missing(sn1, so1, sn2, so2, i)
  BY <1>1, <1>6, <1>7, <1>10, MissingIs
<1> QED BY <1>8, <1>9, <1>10

\* So does every run that next_missing finds.
LEMMA RunTypes ==
  ASSUME NEW r \in RxState, NEW B, NEW M, ListOk(r.rx_list, B, M),
         NEW i \in 1 .. Len(r.rx_list), NEW h \in BOOLEAN, NEW m \in R!next_missing(r, i, h)
  PROVE  m \in Run /\ m.next \in 0 .. Len(r.rx_list)
<1> DEFINE l == r.rx_list
           j == Break(l, i)
<1>1. /\ l \in Seq(Entry) /\ Len(l) \in Nat
      /\ \A k \in 1 .. Len(l) : l[k].so \in Nat /\ l[k].id \in Nat /\ l[k].sn = l[k].id % SnCount
  BY FitsIs
<1>2. /\ j \in i .. Len(l) /\ j \in 1 .. Len(l) /\ (j < Len(l) => R!Discontinuity(l, i, j))
  BY <1>1, BreakIs
<1>3. r.rx_next \in Sns /\ r.rx_highest_status \in Sns
  BY DEF RxState
<1>4. \A s \in Sns : R!Plus(s, -1) \in Sns /\ R!Plus(s, 1) \in Sns
  BY HalfWindow DEF R!Plus, Sns
<1>5. R!MaxSo(l, i, j) \in Nat
  BY <1>2, MaxSoIs
<1>6. \A k \in 1 .. Len(l) : l[k].sn \in Sns
  BY <1>1, SnIs
<1>7. StartSn(l, i) \in Sns /\ StartSo(l, i) \in Nat
  BY <1>2, <1>4, <1>5, <1>6 DEF StartSn, StartSo
<1>8. R!SoEnd \in Nat /\ R!Plus(r.rx_highest_status, -1) \in Sns /\ 0 \in Nat
  BY <1>3, <1>4 DEF R!SoEnd
<1>9. CASE m \in R!UpTo(r, r.rx_next, 0, i)
  BY <1>3, <1>9, UpToIs
<1>10. CASE /\ j < Len(l) /\ l[j + 1].sn = l[j].sn
            /\ m \in R!Missing(l[j].sn, R!MaxSo(l, i, j) + 1, l[j].sn, l[j + 1].so - 1, j + 1)
  <2>1. R!MaxSo(l, i, j) + 1 \in Nat /\ l[j + 1].so - 1 \in Nat /\ l[j].sn \in Sns
    BY <1>2, <1>5, <1>6, <1>10, AfterHole
  <2>2. j + 1 \in Nat /\ j + 1 \in 0 .. Len(l)
    BY <1>1, <1>2, <1>10
  <2> QED BY <1>10, <2>1, <2>2, MissingIs
<1>11. CASE j < Len(l) /\ m \in R!UpTo(r, StartSn(l, i), StartSo(l, i), j + 1)
  <2>1. j + 1 \in 1 .. Len(l)
    BY <1>1, <1>2, <1>11
  <2> QED BY <1>7, <1>11, <2>1, UpToIs
<1>12. CASE m \in R!Missing(StartSn(l, i), StartSo(l, i), R!Plus(r.rx_highest_status, -1), R!SoEnd, 0)
  <2>1. m \in Run /\ m.next = 0
    BY <1>7, <1>8, <1>12, MissingIs
  <2> QED BY <1>1, <2>1
<1>13. \/ m \in R!UpTo(r, r.rx_next, 0, i)
       \/ /\ j < Len(l) /\ l[j + 1].sn = l[j].sn
          /\ m \in R!Missing(l[j].sn, R!MaxSo(l, i, j) + 1, l[j].sn, l[j + 1].so - 1, j + 1)
       \/ j < Len(l) /\ m \in R!UpTo(r, StartSn(l, i), StartSo(l, i), j + 1)
       \/ m \in R!Missing(StartSn(l, i), StartSo(l, i), R!Plus(r.rx_highest_status, -1), R!SoEnd, 0)
  BY NextMissingIs, Zenon
<1> QED BY <1>9, <1>10, <1>11, <1>12, <1>13

---------------------------------------------------------------------------
(* The loops of generate_status and status_size.                           *)

Gen(r) == [next : 0 .. Len(r.rx_list), head : BOOLEAN, nacks : Seq(Nack), byte : Nat]
GenStart(r) == [next |-> IF r.rx_list = <<>> THEN 0 ELSE 1, head |-> TRUE, nacks |-> <<>>, byte |-> 3]
Count(r) == [next : 0 .. Len(r.rx_list), size : Nat, count : Nat]
CountStart(r) == [next |-> IF r.rx_list = <<>> THEN 0 ELSE 1, size |-> 3, count |-> 0]

\* Some NACKs without the rest.
LEMMA PrefixIs ==
  ASSUME NEW all \in Seq(Nack), NEW n \in 0 .. Len(all)
  PROVE  SubSeq(all, 1, n) \in Seq(Nack) /\ Len(SubSeq(all, 1, n)) = n /\ \A i \in 1 .. n : SubSeq(all, 1, n)[i] = all[i]
<1>1. n \in Nat /\ Len(all) \in Nat /\ \A i \in 1 .. n : i \in 1 .. Len(all)
  OBVIOUS
<1>2. SubSeq(all, 1, n) \in Seq(Nack)
  BY <1>1, SubSeqProperties
<1> QED BY <1>1, <1>2

\* The last NACK, stretched, is a NACK.
LEMMA StretchIs ==
  ASSUME NEW put \in Seq(Nack)
  PROVE  /\ R!StretchLast(put) \in Seq(Nack) /\ Len(R!StretchLast(put)) = Len(put)
         /\ \A i \in 1 .. Len(put) : \/ R!StretchLast(put)[i] = put[i]
                                     \/ i = Len(put) /\ R!StretchLast(put)[i] = [put[i] EXCEPT !.so_end = R!SoEnd]
         /\ Len(put) > 0 => \/ R!StretchLast(put)[Len(put)] = [put[Len(put)] EXCEPT !.so_end = R!SoEnd]
                            \/ put[Len(put)].so_end = R!SoEnd
<1>1. CASE put = <<>> \/ ~R!HasSo(R!Last(put))
  <2>1. R!StretchLast(put) = put
    BY <1>1, Zenon DEF R!StretchLast
  <2>2. ASSUME Len(put) > 0 PROVE put[Len(put)].so_end = R!SoEnd
    <3>1. put # <<>>
      BY <2>2
    <3>2. ~R!HasSo(put[Len(put)])
      BY <1>1, <3>1 DEF R!Last
    <3> QED BY <3>2 DEF R!HasSo
  <2> QED BY <2>1, <2>2
<1>2. CASE put # <<>> /\ R!HasSo(R!Last(put))
  <2> DEFINE n == Len(put)
             e == [put[n] EXCEPT !.so_end = R!SoEnd]
  <2>1. n \in Nat \ {0} /\ n \in 1 .. n /\ \A i \in 1 .. n : put[i] \in Nack
    BY <1>2, EmptySeq, SeqElement
  <2>2. R!SoEnd \in Nat
    BY DEF R!SoEnd
  <2>3. \A k \in Nack : [k EXCEPT !.so_end = R!SoEnd] \in Nack
    BY <2>2 DEF Nack
  <2>4. R!StretchLast(put) = [put EXCEPT ![n] = e]
    BY <1>2, Zenon DEF R!StretchLast
  <2>5. e \in Nack
    BY <2>1, <2>3
  <2> HIDE DEF e
  <2>6. [put EXCEPT ![n] = e] \in Seq(Nack) /\ Len([put EXCEPT ![n] = e]) = n
        /\ [put EXCEPT ![n] = e][n] = e /\ \A i \in 1 .. n : i # n => [put EXCEPT ![n] = e][i] = put[i]
    BY <2>1, <2>5
  <2> QED BY <2>1, <2>4, <2>6 DEF e
<1> QED BY <1>1, <1>2

\* The run of missing bytes a round of the loop is about, if any.
Idle(r, next, head) == next = 0 \/ R!next_missing(r, next, head) = {}
Chosen(r, next, head) == CHOOSE m \in R!next_missing(r, next, head) : TRUE

\* The run is one that next_missing found.
LEMMA ChosenIs ==
  ASSUME NEW r \in RxState, NEW B, NEW M, ListOk(r.rx_list, B, M), NEW next \in 0 .. Len(r.rx_list), NEW head \in BOOLEAN,
         ~Idle(r, next, head)
  PROVE  /\ Chosen(r, next, head) \in R!next_missing(r, next, head) /\ next \in 1 .. Len(r.rx_list)
         /\ Chosen(r, next, head) \in Run /\ Chosen(r, next, head).next \in 0 .. Len(r.rx_list)
<1>1. Len(r.rx_list) \in Nat
  BY FitsIs
<1>2. next \in 1 .. Len(r.rx_list) /\ R!next_missing(r, next, head) # {}
  BY <1>1 DEF Idle
<1>3. Chosen(r, next, head) \in R!next_missing(r, next, head)
  BY <1>2, Zenon DEF Chosen
<1> QED BY <1>2, <1>3, RunTypes

\* A round of generate_status puts those NACKs of the run that fit.
LEMMA GenStepIs ==
  ASSUME NEW r \in RxState, NEW B, NEW M, ListOk(r.rx_list, B, M), NEW g \in Gen(r), NEW size \in Nat
  PROVE  /\ R!NextNacks(r, g, size) \in Gen(r)
         /\ Idle(r, g.next, g.head) => R!NextNacks(r, g, size) = [g EXCEPT !.next = 0]
         /\ ~Idle(r, g.next, g.head) =>
              R!NextNacks(r, g, size) = R!generate_missing(g, Chosen(r, g.next, g.head), size)
<1>1. Len(r.rx_list) \in Nat
  BY FitsIs
<1>2. g.next \in 0 .. Len(r.rx_list) /\ g.head \in BOOLEAN /\ g.nacks \in Seq(Nack) /\ g.byte \in Nat
  BY DEF Gen
<1>3. CASE Idle(r, g.next, g.head)
  <2>1. R!NextNacks(r, g, size) = [g EXCEPT !.next = 0]
    <3>1. CASE g.next = 0
      BY <3>1, Zenon DEF R!NextNacks
    <3>2. CASE g.next # 0
      BY <1>3, <3>2, Zenon DEF R!NextNacks, Idle
    <3> QED BY <3>1, <3>2
  <2>2. [g EXCEPT !.next = 0] \in Gen(r)
    BY <1>1 DEF Gen
  <2> QED BY <1>3, <2>1, <2>2
<1>4. CASE ~Idle(r, g.next, g.head)
  <2>1. R!NextNacks(r, g, size) = R!generate_missing(g, Chosen(r, g.next, g.head), size)
    BY <1>4, Zenon DEF R!NextNacks, Idle, Chosen
  <2>2. PICK m : m = Chosen(r, g.next, g.head)
    OBVIOUS
  <2>3. m \in Run /\ m.next \in 0 .. Len(r.rx_list)
    BY <1>2, <1>4, <2>2, ChosenIs
  <2>4. PICK all : all = R!NacksFor(m)
    OBVIOUS
  <2>5. all \in Seq(Nack)
    BY <2>3, <2>4, NacksForIs
  <2>6. PICK f : f = R!Fitting(g.byte, all, size)
    OBVIOUS
  <2>7. f \in 0 .. Len(all)
    BY <1>2, <2>5, <2>6, FittingIs
  <2>8. SubSeq(all, 1, f) \in Seq(Nack)
    BY <2>5, <2>7, PrefixIs
  <2>9. PICK put : put = g.nacks \o SubSeq(all, 1, f)
    OBVIOUS
  <2>10. put \in Seq(Nack)
    <3> HIDE <2>7
    <3> QED BY <1>2, <2>8, <2>9
  <2>11. R!StretchLast(put) \in Seq(Nack)
    BY <2>10, StretchIs
  <2>12. R!ByteAfter(g.byte, all, f) \in Nat
    BY <1>2, <2>5, <2>7, ByteAfterIs
  <2>13. R!generate_missing(g, m, size) =
           [next |-> IF f < Len(all) THEN 0 ELSE m.next, head |-> FALSE,
            nacks |-> IF f < Len(all) THEN R!StretchLast(put) ELSE put, byte |-> R!ByteAfter(g.byte, all, f)]
    BY <2>4, <2>6, <2>9, Zenon DEF R!generate_missing
  <2>14. /\ (IF f < Len(all) THEN 0 ELSE m.next) \in 0 .. Len(r.rx_list)
         /\ (IF f < Len(all) THEN R!StretchLast(put) ELSE put) \in Seq(Nack)
    BY <1>1, <2>3, <2>10, <2>11
  <2>15. R!generate_missing(g, m, size) \in Gen(r)
    BY <2>12, <2>13, <2>14 DEF Gen
  <2> QED BY <1>4, <2>1, <2>2, <2>15
<1> QED BY <1>3, <1>4

\* A round of status_size counts as many.
LEMMA CountStepIs ==
  ASSUME NEW r \in RxState, NEW B, NEW M, ListOk(r.rx_list, B, M), NEW g \in Count(r), NEW size \in Nat
  PROVE  /\ R!NextSize(r, g, size) \in Count(r)
         /\ Idle(r, g.next, g.count = 0) => R!NextSize(r, g, size) = [g EXCEPT !.next = 0]
         /\ ~Idle(r, g.next, g.count = 0) =>
              R!NextSize(r, g, size) = R!missing_size(g, Chosen(r, g.next, g.count = 0), size)
<1>1. Len(r.rx_list) \in Nat
  BY FitsIs
<1>2. g.next \in 0 .. Len(r.rx_list) /\ (g.count = 0) \in BOOLEAN /\ g.count \in Nat /\ g.size \in Nat
  BY DEF Count
<1>3. CASE Idle(r, g.next, g.count = 0)
  <2>1. R!NextSize(r, g, size) = [g EXCEPT !.next = 0]
    <3>1. CASE g.next = 0
      BY <3>1, Zenon DEF R!NextSize
    <3>2. CASE g.next # 0
      BY <1>3, <3>2, Zenon DEF R!NextSize, Idle
    <3> QED BY <3>1, <3>2
  <2>2. [g EXCEPT !.next = 0] \in Count(r)
    BY <1>1 DEF Count
  <2> QED BY <1>3, <2>1, <2>2
<1>4. CASE ~Idle(r, g.next, g.count = 0)
  <2>1. R!NextSize(r, g, size) = R!missing_size(g, Chosen(r, g.next, g.count = 0), size)
    BY <1>4, Zenon DEF R!NextSize, Idle, Chosen
  <2>2. PICK m : m = Chosen(r, g.next, g.count = 0)
    OBVIOUS
  <2>3. m \in Run /\ m.next \in 0 .. Len(r.rx_list)
    BY <1>2, <1>4, <2>2, ChosenIs
  <2>4. PICK all : all = R!NacksFor(m)
    OBVIOUS
  <2>5. all \in Seq(Nack)
    BY <2>3, <2>4, NacksForIs
  <2>6. PICK f : f = R!Counted(g.size, all, size)
    OBVIOUS
  <2>7. f \in 0 .. Len(all) /\ f \in Nat
    <3>1. f = R!Fitting(g.size, all, size)
      BY <1>2, <2>5, <2>6, CountedIs
    <3>2. f \in 0 .. Len(all)
      BY <1>2, <2>5, <3>1, FittingIs
    <3> QED BY <3>2
  <2>8. R!SizeAfter(g.size, all, f) \in Nat
    BY <1>2, <2>5, <2>7, ByteAfterIs
  <2>9. R!missing_size(g, m, size) =
           [next |-> IF f < Len(all) THEN 0 ELSE m.next, size |-> R!SizeAfter(g.size, all, f), count |-> g.count + f]
    BY <2>4, <2>6, Zenon DEF R!missing_size
  <2>10. (IF f < Len(all) THEN 0 ELSE m.next) \in 0 .. Len(r.rx_list) /\ g.count + f \in Nat
    BY <1>1, <1>2, <2>3, <2>7
  <2>11. R!missing_size(g, m, size) \in Count(r)
    BY <2>8, <2>9, <2>10 DEF Count
  <2> QED BY <1>4, <2>1, <2>2, <2>11
<1> QED BY <1>3, <1>4

\* g[k] is the state of the loop of generate_status after k rounds.
GenBy(r, size, g) ==
  /\ g \in [0 .. (Len(r.rx_list) + 1) -> Gen(r)] /\ g[0] = GenStart(r)
  /\ \A k \in 1 .. (Len(r.rx_list) + 1) : g[k] = R!NextNacks(r, g[k - 1], size)

\* That function exists.
LEMMA GenExists ==
  ASSUME NEW r \in RxState, NEW B, NEW M, ListOk(r.rx_list, B, M), NEW size \in Nat
  PROVE  \E g : GenBy(r, size, g) /\ R!StatusNacks(r, size) = g[Len(r.rx_list) + 1].nacks
<1> DEFINE n == Len(r.rx_list) + 1
           V == Gen(r)
           v == GenStart(r)
           Body(g) == [i \in 0 .. (Len(r.rx_list) + 1) |->
                         IF i = 0 THEN [next |-> IF r.rx_list = <<>> THEN 0 ELSE 1, head |-> TRUE, nacks |-> <<>>, byte |-> 3]
                         ELSE R!NextNacks(r, g[i - 1], size)]
           round == CHOOSE g : g = Body(g)
<1>1. R!StatusNacks(r, size) = round[n].nacks
  BY Zenon DEF R!StatusNacks
<1>2. Len(r.rx_list) \in Nat /\ n \in Nat /\ r.rx_list \in Seq(Entry)
  BY FitsIs
<1>3. v \in V
  <2>1. r.rx_list = <<>> \/ 1 \in 0 .. Len(r.rx_list)
    BY <1>2
  <2>2. (IF r.rx_list = <<>> THEN 0 ELSE 1) \in 0 .. Len(r.rx_list) /\ <<>> \in Seq(Nack)
    BY <1>2, <2>1
  <2> QED BY <2>2 DEF Gen, GenStart
<1> DEFINE step == [x \in (1 .. n) \X V |-> R!NextNacks(r, x[2], size)]
<1>4. \A g \in V : R!NextNacks(r, g, size) \in V
  BY GenStepIs
<1> HIDE DEF V, n
<1>5. step \in [(1 .. n) \X V -> V]
  <2>1. \A x \in (1 .. n) \X V : x[2] \in V
    OBVIOUS
  <2> QED BY <1>4, <2>1
<1>6. \A i \in 1 .. n : \A q \in V : step[<<i, q>>] = R!NextNacks(r, q, size)
  OBVIOUS
<1> HIDE DEF step, v
<1>7. PICK f : f \in [0 .. n -> V] /\ f[0] = v /\ \A k \in 1 .. n : f[k] = step[<<k, f[k - 1]>>]
  <2>1. \E f : StepByStep(f, V, n, v, step)
    BY <1>2, <1>3, <1>5, RecursionExists, Zenon
  <2> QED BY <2>1, Zenon DEF StepByStep
<1>8. \A i \in 0 .. n : f[i] = Body(f)[i]
  <2> SUFFICES ASSUME NEW i \in 0 .. n PROVE f[i] = Body(f)[i]
    OBVIOUS
  <2>1. CASE i = 0
    BY <1>7, <2>1 DEF v, GenStart, n
  <2>2. CASE i # 0
    <3>1. i \in 1 .. n /\ i - 1 \in 0 .. n
      BY <1>2, <2>2
    <3>2. f[i - 1] \in V
      BY <1>7, <3>1
    <3>3. f[i] = R!NextNacks(r, f[i - 1], size)
      BY <1>6, <1>7, <3>1, <3>2
    <3> QED BY <2>2, <3>3 DEF n
  <2> QED BY <2>1, <2>2
<1>9. f = Body(f)
  <2>1. DOMAIN Body(f) = 0 .. n /\ Body(f) = [i \in 0 .. n |-> Body(f)[i]] /\ f = [i \in 0 .. n |-> f[i]]
    BY <1>7 DEF n
  <2> HIDE DEF Body
  <2> QED BY <1>8, <2>1
<1>10. round = Body(round)
  <2> HIDE DEF Body
  <2> QED BY <1>9, Zenon
<1> HIDE DEF round
<1>11. round[0] = v /\ \A k \in 1 .. n : round[k] = R!NextNacks(r, round[k - 1], size)
  <2>1. ASSUME NEW i \in 0 .. n
        PROVE  round[i] = IF i = 0 THEN v ELSE R!NextNacks(r, round[i - 1], size)
    BY <1>10 DEF n, v, GenStart
  <2>2. 0 \in 0 .. n /\ \A k \in 1 .. n : k \in 0 .. n /\ k # 0
    BY <1>2
  <2> QED BY <2>1, <2>2
<1> DEFINE T == {k \in 0 .. n : round[k] \in V}
<1>12. 0 \in T
  BY <1>2, <1>3, <1>11
<1>13. ASSUME NEW k \in 1 .. n, k - 1 \in T PROVE k \in T
  <2>1. round[k - 1] \in V /\ k \in 0 .. n
    BY <1>2, <1>13
  <2> QED BY <1>4, <1>11, <2>1
<1>14. \A k \in 0 .. n : k \in T
  <2> HIDE DEF T
  <2> QED BY <1>2, <1>12, <1>13, NatInduct
<1>15. round \in [0 .. n -> V]
  <2>1. round = [i \in 0 .. n |-> round[i]]
    BY <1>10 DEF n
  <2> QED BY <1>14, <2>1
<1>16. GenBy(r, size, round)
  BY <1>11, <1>15, Zenon DEF GenBy, n, v, V
<1> QED BY <1>1, <1>16, Zenon DEF n

\* g[k] is the state of the loop of status_size after k rounds.
CountBy(r, size, g) ==
  /\ g \in [0 .. (Len(r.rx_list) + 1) -> Count(r)] /\ g[0] = CountStart(r)
  /\ \A k \in 1 .. (Len(r.rx_list) + 1) : g[k] = R!NextSize(r, g[k - 1], size)

\* That function exists.
LEMMA CountExists ==
  ASSUME NEW r \in RxState, NEW B, NEW M, ListOk(r.rx_list, B, M), NEW size \in Nat
  PROVE  \E g : /\ CountBy(r, size, g)
                /\ R!status_size(r, size) = IF size < 3 THEN 0 ELSE g[Len(r.rx_list) + 1].size
<1> DEFINE n == Len(r.rx_list) + 1
           V == Count(r)
           v == CountStart(r)
           Body(g) == [i \in 0 .. (Len(r.rx_list) + 1) |->
                         IF i = 0 THEN [next |-> IF r.rx_list = <<>> THEN 0 ELSE 1, size |-> 3, count |-> 0]
                         ELSE R!NextSize(r, g[i - 1], size)]
           round == CHOOSE g : g = Body(g)
<1>1. R!status_size(r, size) = IF size < 3 THEN 0 ELSE round[n].size
  BY Zenon DEF R!status_size
<1>2. Len(r.rx_list) \in Nat /\ n \in Nat /\ r.rx_list \in Seq(Entry)
  BY FitsIs
<1>3. v \in V
  <2>1. r.rx_list = <<>> \/ 1 \in 0 .. Len(r.rx_list)
    BY <1>2
  <2>2. (IF r.rx_list = <<>> THEN 0 ELSE 1) \in 0 .. Len(r.rx_list)
    BY <1>2, <2>1
  <2> QED BY <2>2 DEF Count, CountStart
<1> DEFINE step == [x \in (1 .. n) \X V |-> R!NextSize(r, x[2], size)]
<1>4. \A g \in V : R!NextSize(r, g, size) \in V
  BY CountStepIs
<1> HIDE DEF V, n
<1>5. step \in [(1 .. n) \X V -> V]
  <2>1. \A x \in (1 .. n) \X V : x[2] \in V
    OBVIOUS
  <2> QED BY <1>4, <2>1
<1>6. \A i \in 1 .. n : \A q \in V : step[<<i, q>>] = R!NextSize(r, q, size)
  OBVIOUS
<1> HIDE DEF step, v
<1>7. PICK f : f \in [0 .. n -> V] /\ f[0] = v /\ \A k \in 1 .. n : f[k] = step[<<k, f[k - 1]>>]
  <2>1. \E f : StepByStep(f, V, n, v, step)
    BY <1>2, <1>3, <1>5, RecursionExists, Zenon
  <2> QED BY <2>1, Zenon DEF StepByStep
<1>8. \A i \in 0 .. n : f[i] = Body(f)[i]
  <2> SUFFICES ASSUME NEW i \in 0 .. n PROVE f[i] = Body(f)[i]
    OBVIOUS
  <2>1. CASE i = 0
    BY <1>7, <2>1 DEF v, CountStart, n
  <2>2. CASE i # 0
    <3>1. i \in 1 .. n /\ i - 1 \in 0 .. n
      BY <1>2, <2>2
    <3>2. f[i - 1] \in V
      BY <1>7, <3>1
    <3>3. f[i] = R!NextSize(r, f[i - 1], size)
      BY <1>6, <1>7, <3>1, <3>2
    <3> QED BY <2>2, <3>3 DEF n
  <2> QED BY <2>1, <2>2
<1>9. f = Body(f)
  <2>1. DOMAIN Body(f) = 0 .. n /\ Body(f) = [i \in 0 .. n |-> Body(f)[i]] /\ f = [i \in 0 .. n |-> f[i]]
    BY <1>7 DEF n
  <2> HIDE DEF Body
  <2> QED BY <1>8, <2>1
<1>10. round = Body(round)
  <2> HIDE DEF Body
  <2> QED BY <1>9, Zenon
<1> HIDE DEF round
<1>11. round[0] = v /\ \A k \in 1 .. n : round[k] = R!NextSize(r, round[k - 1], size)
  <2>1. ASSUME NEW i \in 0 .. n
        PROVE  round[i] = IF i = 0 THEN v ELSE R!NextSize(r, round[i - 1], size)
    BY <1>10 DEF n, v, CountStart
  <2>2. 0 \in 0 .. n /\ \A k \in 1 .. n : k \in 0 .. n /\ k # 0
    BY <1>2
  <2> QED BY <2>1, <2>2
<1> DEFINE T == {k \in 0 .. n : round[k] \in V}
<1>12. 0 \in T
  BY <1>2, <1>3, <1>11
<1>13. ASSUME NEW k \in 1 .. n, k - 1 \in T PROVE k \in T
  <2>1. round[k - 1] \in V /\ k \in 0 .. n
    BY <1>2, <1>13
  <2> QED BY <1>4, <1>11, <2>1
<1>14. \A k \in 0 .. n : k \in T
  <2> HIDE DEF T
  <2> QED BY <1>2, <1>12, <1>13, NatInduct
<1>15. round \in [0 .. n -> V]
  <2>1. round = [i \in 0 .. n |-> round[i]]
    BY <1>10 DEF n
  <2> QED BY <1>14, <2>1
<1>16. CountBy(r, size, round)
  BY <1>11, <1>15, Zenon DEF CountBy, n, v, V
<1> QED BY <1>1, <1>16, Zenon DEF n

\* generate_missing, with the NACKs of the run and the number of them that fit.
Generated(g, m, size, all, f, h) ==
  /\ all \in Seq(Nack) /\ Len(all) \in 1 .. SnCount /\ f \in 0 .. Len(all)
  /\ h.next = (IF f < Len(all) THEN 0 ELSE m.next) /\ h.head = FALSE
  /\ h.byte = R!ByteAfter(g.byte, all, f)
  /\ h.nacks = IF f < Len(all) THEN R!StretchLast(g.nacks \o SubSeq(all, 1, f)) ELSE g.nacks \o SubSeq(all, 1, f)

\* There are such NACKs.
LEMMA GenerateIs ==
  ASSUME NEW r, NEW g \in Gen(r), NEW m \in Run, NEW size \in Nat
  PROVE  Generated(g, m, size, R!NacksFor(m), R!Fitting(g.byte, R!NacksFor(m), size), R!generate_missing(g, m, size))
<1>1. PICK all, h : all = R!NacksFor(m) /\ h = R!generate_missing(g, m, size)
  OBVIOUS
<1>2. PICK f : f = R!Fitting(g.byte, all, size)
  OBVIOUS
<1>3. g.byte \in Nat
  BY DEF Gen
<1>4. all \in Seq(Nack) /\ Len(all) \in 1 .. SnCount
  BY <1>1, NacksForIs
<1>5. f \in 0 .. Len(all)
  BY <1>2, <1>3, <1>4, FittingIs
<1>6. PICK nx, nk, by : /\ nx = IF f < Len(all) THEN 0 ELSE m.next
                        /\ nk = IF f < Len(all) THEN R!StretchLast(g.nacks \o SubSeq(all, 1, f)) ELSE g.nacks \o SubSeq(all, 1, f)
                        /\ by = R!ByteAfter(g.byte, all, f)
  OBVIOUS
<1>7. h = [next |-> nx, head |-> FALSE, nacks |-> nk, byte |-> by]
  BY <1>1, <1>2, <1>6, Zenon DEF R!generate_missing
<1>8. h.next = nx /\ h.head = FALSE /\ h.nacks = nk /\ h.byte = by
  BY <1>7
<1>9. Generated(g, m, size, all, f, h)
  BY <1>4, <1>5, <1>6, <1>8, Zenon DEF Generated
<1> QED BY <1>1, <1>2, <1>9, Zenon

\* The loop goes on to the end of the list, or stops for good.
LEMMA GenGrows ==
  ASSUME NEW r \in RxState, NEW B, NEW M, ListOk(r.rx_list, B, M), NEW size \in Nat, NEW g, GenBy(r, size, g)
  PROVE  \A k \in 0 .. (Len(r.rx_list) + 1) :
           \A i \in 0 .. k : /\ g[i].byte \in Nat /\ g[k].byte \in Nat /\ g[i].byte <= g[k].byte /\ 3 <= g[k].byte
                             /\ g[i].next = 0 => g[k].byte = g[i].byte /\ g[k].next = 0
<1> DEFINE n == Len(r.rx_list) + 1
           Good(i, k) == /\ g[i].byte \in Nat /\ g[k].byte \in Nat /\ g[i].byte <= g[k].byte /\ 3 <= g[k].byte
                         /\ g[i].next = 0 => g[k].byte = g[i].byte /\ g[k].next = 0
           T == {k \in 0 .. n : \A i \in 0 .. k : Good(i, k)}
<1>1. n \in Nat
  BY FitsIs
<1>2. /\ \A k \in 0 .. n : g[k] \in Gen(r) /\ g[k].byte \in Nat
      /\ g[0] = GenStart(r) /\ \A k \in 1 .. n : g[k] = R!NextNacks(r, g[k - 1], size)
  <2>1. \A x \in Gen(r) : x.byte \in Nat
    BY DEF Gen
  <2> QED BY <2>1 DEF GenBy
<1> HIDE DEF n
<1>3. 0 \in T
  <2>1. g[0].byte = 3
    BY <1>2 DEF GenStart
  <2>2. 0 \in 0 .. n
    BY <1>1
  <2>3. Good(0, 0)
    BY <1>2, <2>1, <2>2
  <2>4. \A i \in 0 .. 0 : i = 0
    OBVIOUS
  <2> HIDE DEF Good
  <2> QED BY <2>2, <2>3, <2>4
<1>4. ASSUME NEW k \in 1 .. n, k - 1 \in T PROVE k \in T
  <2>1. k \in 0 .. n /\ k - 1 \in 0 .. n /\ \A i \in 0 .. (k - 1) : Good(i, k - 1)
    BY <1>1, <1>4
  <2>2. PICK x, y : x = g[k - 1] /\ y = g[k]
    OBVIOUS
  <2>3. x \in Gen(r) /\ y \in Gen(r) /\ x.byte \in Nat /\ y.byte \in Nat /\ y = R!NextNacks(r, x, size) /\ 3 <= x.byte
    <3>1. k - 1 \in 0 .. (k - 1)
      BY <2>1
    <3>2. Good(k - 1, k - 1)
      BY <2>1, <3>1
    <3> QED BY <1>2, <2>1, <2>2, <3>2
  <2>4. x.byte <= y.byte /\ (x.next = 0 => y.byte = x.byte /\ y.next = 0)
    <3>1. CASE Idle(r, x.next, x.head)
      <4>1. y = [x EXCEPT !.next = 0]
        BY <2>3, <3>1, GenStepIs
      <4>2. y.byte = x.byte /\ y.next = 0
        BY <2>3, <4>1 DEF Gen
      <4> QED BY <2>3, <4>2
    <3>2. CASE ~Idle(r, x.next, x.head)
      <4>1. x.next \in 0 .. Len(r.rx_list) /\ x.head \in BOOLEAN /\ x.next # 0
        BY <2>3, <3>2 DEF Gen, Idle
      <4>2. PICK m : m = Chosen(r, x.next, x.head)
        OBVIOUS
      <4>3. m \in Run /\ y = R!generate_missing(x, m, size)
        BY <2>3, <3>2, <4>1, <4>2, GenStepIs, ChosenIs
      <4>4. PICK all : all = R!NacksFor(m)
        OBVIOUS
      <4>5. PICK f : f = R!Fitting(x.byte, all, size)
        OBVIOUS
      <4>6. all \in Seq(Nack) /\ f \in 0 .. Len(all) /\ y.byte = R!ByteAfter(x.byte, all, f)
        <5>1. Generated(x, m, size, all, f, y)
          BY <2>3, <4>3, <4>4, <4>5, GenerateIs, Zenon
        <5> QED BY <5>1, Zenon DEF Generated
      <4>7. R!ByteAfter(x.byte, all, 0) <= R!ByteAfter(x.byte, all, f) /\ R!ByteAfter(x.byte, all, 0) = x.byte
        <5>1. 0 \in 0 .. f
          BY <4>6
        <5>2. R!ByteAfter(x.byte, all, 0) = x.byte
          BY <2>3, <4>6, ByteAfterIs
        <5> QED BY <2>3, <4>6, <5>1, <5>2, ByteGrows
      <4> QED BY <4>1, <4>6, <4>7
    <3> QED BY <3>1, <3>2
  <2>5. ASSUME NEW i \in 0 .. k PROVE Good(i, k)
    <3>1. CASE i = k
      <4>1. 3 <= y.byte /\ y.byte <= y.byte
        BY <2>3, <2>4
      <4> QED BY <2>2, <2>3, <3>1, <4>1
    <3>2. CASE i # k
      <4>1. i \in 0 .. (k - 1)
        BY <2>1, <3>2
      <4>2. Good(i, k - 1)
        BY <2>1, <4>1
      <4>3. PICK z : z = g[i]
        OBVIOUS
      <4>4. /\ z.byte \in Nat /\ x.byte \in Nat /\ z.byte <= x.byte /\ 3 <= x.byte
            /\ z.next = 0 => x.byte = z.byte /\ x.next = 0
        BY <2>2, <4>2, <4>3
      <4>5. /\ z.byte \in Nat /\ y.byte \in Nat /\ z.byte <= y.byte /\ 3 <= y.byte
            /\ z.next = 0 => y.byte = z.byte /\ y.next = 0
        BY <2>3, <2>4, <4>4
      <4> QED BY <2>2, <4>3, <4>5
    <3> QED BY <3>1, <3>2
  <2> HIDE DEF Good
  <2> QED BY <2>1, <2>5
<1>5. \A k \in 0 .. n : k \in T
  <2> HIDE DEF T
  <2> QED BY <1>1, <1>3, <1>4, NatInduct
<1> QED BY <1>5 DEF n

\* status_size goes through the list as generate_status does.
LEMMA InStep ==
  ASSUME NEW r \in RxState, NEW B, NEW M, ListOk(r.rx_list, B, M), NEW size \in Nat,
         NEW g, GenBy(r, size, g), NEW c, CountBy(r, size, c)
  PROVE  \A k \in 0 .. (Len(r.rx_list) + 1) : c[k].size = g[k].byte
<1> DEFINE n == Len(r.rx_list) + 1
           Good(k) == c[k].next = g[k].next /\ c[k].size = g[k].byte /\ (g[k].next # 0 => (c[k].count = 0) = g[k].head)
           T == {k \in 0 .. n : Good(k)}
<1>1. n \in Nat
  BY FitsIs
<1>2. /\ \A k \in 0 .. n : g[k] \in Gen(r) /\ c[k] \in Count(r)
      /\ g[0] = GenStart(r) /\ c[0] = CountStart(r)
      /\ \A k \in 1 .. n : g[k] = R!NextNacks(r, g[k - 1], size) /\ c[k] = R!NextSize(r, c[k - 1], size)
  BY DEF GenBy, CountBy
<1> HIDE DEF n
<1>3. 0 \in T
  <2>1. Good(0)
    <3>1. /\ g[0].next = (IF r.rx_list = <<>> THEN 0 ELSE 1) /\ g[0].byte = 3 /\ g[0].head = TRUE
          /\ c[0].next = (IF r.rx_list = <<>> THEN 0 ELSE 1) /\ c[0].size = 3 /\ c[0].count = 0
      BY <1>2 DEF GenStart, CountStart
    <3>2. (c[0].count = 0) = g[0].head
      BY <3>1, Zenon
    <3> QED BY <3>1, <3>2, Zenon
  <2> QED BY <1>1, <2>1
<1>4. ASSUME NEW k \in 1 .. n, k - 1 \in T PROVE k \in T
  <2>1. k \in 0 .. n /\ k - 1 \in 0 .. n /\ Good(k - 1)
    BY <1>1, <1>4
  <2>2. PICK x, y, z, w : x = g[k - 1] /\ y = g[k] /\ z = c[k - 1] /\ w = c[k]
    OBVIOUS
  <2>3. /\ x \in Gen(r) /\ y \in Gen(r) /\ z \in Count(r) /\ w \in Count(r)
        /\ y = R!NextNacks(r, x, size) /\ w = R!NextSize(r, z, size)
    BY <1>2, <2>1, <2>2
  <2>4. z.next = x.next /\ z.size = x.byte /\ (x.next # 0 => (z.count = 0) = x.head)
    BY <2>1, <2>2, Zenon
  <2>5. x.next \in 0 .. Len(r.rx_list) /\ x.head \in BOOLEAN /\ x.byte \in Nat /\ z.count \in Nat
    BY <2>3 DEF Gen, Count
  <2>6. Idle(r, z.next, z.count = 0) <=> Idle(r, x.next, x.head)
    <3>1. CASE x.next = 0
      BY <2>4, <3>1, Zenon DEF Idle
    <3>2. CASE x.next # 0
      <4>1. z.next = x.next /\ (z.count = 0) = x.head
        BY <2>4, <3>2, Zenon
      <4> QED BY <4>1, Zenon
    <3> QED BY <3>1, <3>2
  <2>7. w.next = y.next /\ w.size = y.byte /\ (y.next # 0 => (w.count = 0) = y.head)
    <3>1. CASE Idle(r, x.next, x.head)
      <4>1. y = [x EXCEPT !.next = 0] /\ w = [z EXCEPT !.next = 0]
        <5>1. Idle(r, z.next, z.count = 0)
          BY <2>6, <3>1
        <5>2. R!NextNacks(r, x, size) = [x EXCEPT !.next = 0]
          BY <2>3, <3>1, GenStepIs
        <5>3. R!NextSize(r, z, size) = [z EXCEPT !.next = 0]
          BY <2>3, <5>1, CountStepIs
        <5> QED BY <2>3, <5>2, <5>3
      <4>2. y.byte = x.byte /\ y.next = 0 /\ w.size = z.size /\ w.next = 0
        BY <2>3, <4>1 DEF Gen, Count
      <4> QED BY <2>4, <4>2
    <3>2. CASE ~Idle(r, x.next, x.head)
      <4>1. x.next # 0
        BY <3>2 DEF Idle
      <4>2. PICK m : m = Chosen(r, x.next, x.head)
        OBVIOUS
      <4>3. Chosen(r, z.next, z.count = 0) = m
        <5>1. z.next = x.next /\ (z.count = 0) = x.head
          BY <2>4, <4>1, Zenon
        <5> QED BY <4>2, <5>1, Zenon
      <4>4. m \in Run
        BY <2>5, <3>2, <4>2, ChosenIs
      <4>5. y = R!generate_missing(x, m, size)
        BY <2>3, <3>2, <4>2, GenStepIs
      <4>6. w = R!missing_size(z, m, size)
        <5>1. ~Idle(r, z.next, z.count = 0)
          BY <2>6, <3>2
        <5>2. R!NextSize(r, z, size) = R!missing_size(z, Chosen(r, z.next, z.count = 0), size)
          BY <2>3, <5>1, CountStepIs
        <5> QED BY <2>3, <4>3, <5>2, Zenon
      <4>7. PICK all : all = R!NacksFor(m)
        OBVIOUS
      <4>8. PICK f : f = R!Fitting(x.byte, all, size)
        OBVIOUS
      <4>9. /\ all \in Seq(Nack) /\ Len(all) \in 1 .. SnCount /\ f \in 0 .. Len(all)
            /\ y.next = (IF f < Len(all) THEN 0 ELSE m.next) /\ y.head = FALSE
            /\ y.byte = R!ByteAfter(x.byte, all, f)
        <5>1. Generated(x, m, size, all, f, y)
          BY <2>3, <4>4, <4>5, <4>7, <4>8, GenerateIs, Zenon
        <5> QED BY <5>1, Zenon DEF Generated
      <4>10. R!Counted(z.size, all, size) = f
        BY <2>4, <2>5, <4>8, <4>9, CountedIs
      <4>11. w = [next |-> IF f < Len(all) THEN 0 ELSE m.next, size |-> R!SizeAfter(x.byte, all, f), count |-> z.count + f]
        BY <2>4, <4>6, <4>7, <4>10, Zenon DEF R!missing_size
      <4>12. R!SizeAfter(x.byte, all, f) = R!ByteAfter(x.byte, all, f)
        <5>1. \A i \in 0 .. Len(all) : R!SizeAfter(x.byte, all, i) = R!ByteAfter(x.byte, all, i)
          BY <2>5, <4>9, ByteAfterIs
        <5> QED BY <4>9, <5>1
      <4>13. w.next = y.next /\ w.size = y.byte /\ w.count = z.count + f
        BY <4>9, <4>11, <4>12
      <4>14. ASSUME y.next # 0 PROVE (w.count = 0) = y.head
        <5>1. ~(f < Len(all))
          BY <4>9, <4>14
        <5>2. f \in Nat /\ f >= 1
          BY <4>9, <5>1
        <5>3. w.count # 0
          BY <2>5, <4>13, <5>2
        <5> QED BY <4>9, <5>3
      <4> QED BY <4>13, <4>14
    <3> QED BY <3>1, <3>2
  <2>8. Good(k)
    BY <2>2, <2>7, Zenon
  <2> HIDE DEF Good
  <2> QED BY <2>1, <2>8
<1>5. \A k \in 0 .. n : k \in T
  <2> HIDE DEF T
  <2> QED BY <1>1, <1>3, <1>4, NatInduct
<1> QED BY <1>5 DEF n

\* With the size of what it puts, generate_status puts the same.
Enough(r, size, g, t) == t = IF size < 3 THEN 0 ELSE g[Len(r.rx_list) + 1].byte
SameEnd(r, g, u) == u[Len(r.rx_list) + 1] = g[Len(r.rx_list) + 1]

\* The loops go through the same rounds.
LEMMA SameRounds ==
  ASSUME NEW r \in RxState, NEW B, NEW M, ListOk(r.rx_list, B, M), NEW size \in Nat, NEW t \in Nat,
         NEW g, GenBy(r, size, g), NEW u, GenBy(r, t, u), Enough(r, size, g, t)
  PROVE  SameEnd(r, g, u)
<1> DEFINE n == Len(r.rx_list) + 1
           T == {k \in 0 .. n : u[k] = g[k]}
<1>1. n \in Nat
  BY FitsIs
<1>2. /\ \A k \in 0 .. n : g[k] \in Gen(r)
      /\ g[0] = GenStart(r) /\ u[0] = GenStart(r)
      /\ \A k \in 1 .. n : g[k] = R!NextNacks(r, g[k - 1], size) /\ u[k] = R!NextNacks(r, u[k - 1], t)
  BY DEF GenBy
<1>3. \A k \in 0 .. n : /\ g[k].byte \in Nat /\ g[n].byte \in Nat /\ g[k].byte <= g[n].byte /\ 3 <= g[k].byte
                        /\ g[k].next = 0 => g[n].byte = g[k].byte
  <2>1. n \in 0 .. n /\ \A k \in 0 .. n : k \in 0 .. k
    BY <1>1
  <2> QED BY <2>1, GenGrows
<1>4. t = IF size < 3 THEN 0 ELSE g[n].byte
  BY DEF Enough
<1> HIDE DEF n
<1>5. 0 \in T
  BY <1>1, <1>2
<1>6. ASSUME NEW k \in 1 .. n, k - 1 \in T PROVE k \in T
  <2>1. k \in 0 .. n /\ k - 1 \in 0 .. n /\ u[k - 1] = g[k - 1]
    BY <1>1, <1>6
  <2>2. PICK x, y : x = g[k - 1] /\ y = g[k]
    OBVIOUS
  <2>3. x \in Gen(r) /\ y \in Gen(r) /\ y = R!NextNacks(r, x, size) /\ u[k] = R!NextNacks(r, x, t)
    BY <1>2, <2>1, <2>2
  <2>4. x.next \in 0 .. Len(r.rx_list) /\ x.head \in BOOLEAN /\ x.byte \in Nat
    BY <2>3 DEF Gen
  <2>5. CASE Idle(r, x.next, x.head)
    <3>1. R!NextNacks(r, x, size) = [x EXCEPT !.next = 0] /\ R!NextNacks(r, x, t) = [x EXCEPT !.next = 0]
      BY <2>3, <2>5, GenStepIs
    <3> QED BY <2>1, <2>2, <2>3, <3>1
  <2>6. CASE ~Idle(r, x.next, x.head)
    <3>1. PICK m : m = Chosen(r, x.next, x.head)
      OBVIOUS
    <3>2. m \in Run /\ y = R!generate_missing(x, m, size) /\ u[k] = R!generate_missing(x, m, t)
      <4>1. m \in Run
        BY <2>4, <2>6, <3>1, ChosenIs
      <4>2. R!NextNacks(r, x, size) = R!generate_missing(x, m, size) /\ R!NextNacks(r, x, t) = R!generate_missing(x, m, t)
        BY <2>3, <2>6, <3>1, GenStepIs
      <4> QED BY <2>3, <4>1, <4>2
    <3>3. PICK all : all = R!NacksFor(m)
      OBVIOUS
    <3>4. PICK f : f = R!Fitting(x.byte, all, size)
      OBVIOUS
    <3>5. /\ all \in Seq(Nack) /\ f \in 0 .. Len(all) /\ y.byte = R!ByteAfter(x.byte, all, f)
          /\ y.next = IF f < Len(all) THEN 0 ELSE m.next
      <4>1. Generated(x, m, size, all, f, y)
        BY <2>3, <3>2, <3>3, <3>4, GenerateIs, Zenon
      <4> QED BY <4>1, Zenon DEF Generated
    <3>6. /\ \A i \in 1 .. f : R!ByteAfter(x.byte, all, i) <= size
          /\ f < Len(all) => R!ByteAfter(x.byte, all, f + 1) > size
      BY <2>4, <3>4, <3>5, FittingIs
    <3>7. y.byte \in Nat /\ g[n].byte \in Nat /\ y.byte <= g[n].byte /\ (y.next = 0 => g[n].byte = y.byte) /\ 3 <= x.byte
      BY <1>3, <2>1, <2>2
    <3>8. R!Fitting(x.byte, all, t) = f
      <4>1. ASSUME f > 0 PROVE y.byte <= t
        <5>1. f \in 1 .. f /\ f \in 0 .. Len(all)
          BY <3>5, <4>1
        <5>2. y.byte <= size /\ y.byte >= x.byte + 2
          BY <2>4, <3>5, <3>6, <4>1, <5>1, ByteGrows
        <5> QED BY <1>4, <2>4, <3>7, <5>2
      <4>2. ASSUME f < Len(all) PROVE R!ByteAfter(x.byte, all, f + 1) > t
        <5>1. f + 1 \in 1 .. Len(all) /\ f + 1 \in 0 .. Len(all) /\ f + 1 > 0 /\ (f + 1) - 1 = f /\ Len(all) \in Nat
          BY <3>5, <4>2
        <5>2. PICK a, s : a = R!ByteAfter(x.byte, all, f + 1) /\ s = R!nack_size(all[f + 1])
          OBVIOUS
        <5>3. a = y.byte + s /\ s \in 2 .. 8
          <6>1. /\ R!ByteAfter(x.byte, all, f + 1) = R!ByteAfter(x.byte, all, (f + 1) - 1) + R!nack_size(all[f + 1])
                /\ R!nack_size(all[f + 1]) \in 2 .. 8
            <7>1. \A i \in 1 .. Len(all) :
                    /\ R!ByteAfter(x.byte, all, i) = R!ByteAfter(x.byte, all, i - 1) + R!nack_size(all[i])
                    /\ R!nack_size(all[i]) \in 2 .. 8
              BY <2>4, <3>5, ByteAfterIs
            <7> QED BY <5>1, <7>1, Zenon
          <6> QED BY <3>5, <5>1, <5>2, <6>1
        <5>4. a > size
          BY <3>6, <4>2, <5>2
        <5>5. g[n].byte = y.byte
          BY <3>5, <3>7, <4>2
        <5> QED BY <1>4, <3>7, <5>2, <5>3, <5>5
      <4> QED BY <2>4, <3>5, <4>1, <4>2, FittingIsOnly
    <3>9. R!generate_missing(x, m, t) = R!generate_missing(x, m, size)
      BY <3>3, <3>4, <3>8, Zenon DEF R!generate_missing
    <3> QED BY <2>1, <2>2, <3>2, <3>9
  <2> QED BY <2>5, <2>6
<1>7. \A k \in 0 .. n : k \in T
  <2> HIDE DEF T
  <2> QED BY <1>1, <1>5, <1>6, NatInduct
<1>8. n \in 0 .. n
  BY <1>1
<1>9. u[n] = g[n]
  BY <1>7, <1>8
<1> QED BY <1>9 DEF n, SameEnd

\* status_size reports what generate_status needs: a grant of the size that was reported for
\* maxsize bytes gives the STATUS that maxsize bytes give, for every grant and every list.
THEOREM StatusFitsReport == Spec => []ReportedSizeSuffices
<1>1. RxInv => ReportedSizeSuffices
  <2> SUFFICES ASSUME RxInv, NEW size \in StatusGrants \cup {Roomy}
               PROVE  R!StatusPdu(rx, R!status_size(rx, size)) = R!StatusPdu(rx, size)
    BY DEF ReportedSizeSuffices
  <2>1. PICK B, H, M, D : Inv(rx, B, H, M, D)
    BY DEF RxInv
  <2>2. rx \in RxState /\ ListOk(rx.rx_list, B, M)
    BY <2>1 DEF Inv, Inv0, ListInv
  <2>3. Len(rx.rx_list) \in Nat
    BY <2>2, FitsIs
  <2>4. size \in Nat
    <3>1. PICK a, b : a = Len(rx.rx_list) + 1 /\ b = 8 * SnCount
      OBVIOUS
    <3>2. a \in Nat /\ b \in Nat
      BY <2>3, <3>1, HalfWindow
    <3>3. b * a \in Nat
      BY <3>2
    <3>4. Roomy \in Nat
      BY <3>1, <3>3 DEF Roomy
    <3> QED BY <3>4, ReceiverAssumption
  <2>5. PICK g : GenBy(rx, size, g) /\ R!StatusNacks(rx, size) = g[Len(rx.rx_list) + 1].nacks
    BY <2>2, <2>4, GenExists
  <2>6. PICK c : CountBy(rx, size, c) /\ R!status_size(rx, size) = IF size < 3 THEN 0 ELSE c[Len(rx.rx_list) + 1].size
    BY <2>2, <2>4, CountExists
  <2>7. PICK t : t = R!status_size(rx, size)
    OBVIOUS
  <2>8. Len(rx.rx_list) + 1 \in 0 .. (Len(rx.rx_list) + 1)
    BY <2>3
  <2>9. t = IF size < 3 THEN 0 ELSE g[Len(rx.rx_list) + 1].byte
    BY <2>2, <2>4, <2>5, <2>6, <2>7, <2>8, InStep
  <2>10. t \in Nat
    <3>1. g[Len(rx.rx_list) + 1] \in Gen(rx)
      BY <2>5, <2>8 DEF GenBy
    <3> QED BY <2>9, <3>1 DEF Gen
  <2>11. PICK u : GenBy(rx, t, u) /\ R!StatusNacks(rx, t) = u[Len(rx.rx_list) + 1].nacks
    BY <2>2, <2>10, GenExists
  <2>12. u[Len(rx.rx_list) + 1] = g[Len(rx.rx_list) + 1]
    <3>1. Enough(rx, size, g, t)
      BY <2>9, Zenon DEF Enough
    <3>2. GenBy(rx, size, g) /\ GenBy(rx, t, u)
      BY <2>5, <2>11
    <3>3. SameEnd(rx, g, u)
      BY <2>2, <2>4, <2>10, <3>1, <3>2, SameRounds
    <3> QED BY <3>3, Zenon DEF SameEnd
  <2>13. R!StatusNacks(rx, t) = R!StatusNacks(rx, size)
    BY <2>5, <2>11, <2>12
  <2> QED BY <2>7, <2>13, Zenon DEF R!StatusPdu
<1> QED BY <1>1, Invariance, PTL

---------------------------------------------------------------------------
(* What is missing.                                                        *)

\* Byte b of SDU n has not been received; the position past the last byte counts as
\* missing as long as the end of the SDU has not been received.
NotThere(e, n, b) == e.id = n => ~(e.so <= b /\ b < R!End(e)) /\ (e.last => b < e.so)
Lost(l, D, n, b) == n \notin D /\ \A k \in 1 .. Len(l) : NotThere(l[k], n, b)

\* The position is at entry e or after it.
AtOrAfter(e, n, b) == e.id < n \/ (e.id = n /\ e.so <= b)

\* The entries before i leave a hole before entry i, if they belong to its SDU.
Fresh(l, i) == \A k \in 1 .. Len(l) : k < i /\ l[k].id = l[i].id => R!End(l[k]) < l[i].so

\* The entries before q end before byte s of SDU n.
Clear(l, q, n, s) ==
  \A k \in 1 .. Len(l) : k < q => l[k].id < n \/ (l[k].id = n /\ R!End(l[k]) <= s /\ ~l[k].last)

From(n1, s1, n, b) == n1 < n \/ (n1 = n /\ s1 <= b)
UpToPos(n2, s2, n, b) == n < n2 \/ (n = n2 /\ b <= s2)

\* Entries in order.
LEMMA SortedIs ==
  ASSUME NEW l, NEW B, NEW M, ListOk(l, B, M), Ordered(l)
  PROVE  \A i, j \in 1 .. Len(l) : i <= j => Before(l[i], l[j])
<1> SUFFICES ASSUME NEW i \in 1 .. Len(l), NEW j \in 1 .. Len(l), i <= j PROVE Before(l[i], l[j])
  OBVIOUS
<1>1. Len(l) \in Nat /\ DOMAIN l = 1 .. Len(l) /\ l[i].so \in Nat
  BY FitsIs
<1>2. CASE i = j
  BY <1>1, <1>2 DEF Before
<1>3. CASE i < j
  BY <1>1, <1>3 DEF Ordered
<1> QED BY <1>1, <1>2, <1>3

\* Entries of the same SN are entries of the same SDU.
LEMMA SameSdu ==
  ASSUME NEW l, NEW B, NEW M, ListOk(l, B, M), NEW i \in 1 .. Len(l), NEW j \in 1 .. Len(l)
  PROVE  /\ l[i].sn = l[j].sn <=> l[i].id = l[j].id
         /\ l[i].sn = R!Plus(l[j].sn, 1) <=> l[i].id = l[j].id + 1
<1>1. PICK x, y : x = l[i].id /\ y = l[j].id
  OBVIOUS
<1>2. /\ B \in Nat /\ M \in Nat /\ M <= B + W /\ x \in Nat /\ y \in Nat /\ B <= x /\ x < M /\ B <= y /\ y < M
      /\ l[i].sn = x % SnCount /\ l[j].sn = y % SnCount
  BY <1>1, FitsIs
<1>3. R!Plus(l[j].sn, 1) = (y + 1) % SnCount
  BY <1>2, PlusIs
<1>4. x % SnCount = y % SnCount <=> x = y
  <2>1. x - y < SnCount /\ y - x < SnCount
    BY <1>2, HalfWindow
  <2> QED BY <1>2, <2>1, SameSn
<1>5. x % SnCount = (y + 1) % SnCount <=> x = y + 1
  <2>1. x - (y + 1) < SnCount /\ (y + 1) - x < SnCount /\ y + 1 \in Nat
    BY <1>2, HalfWindow
  <2> QED BY <1>2, <2>1, SameSn
<1> QED BY <1>1, <1>2, <1>3, <1>4, <1>5

\* The position of a byte that is in one of the entries of a block, or past the last one of them, is not lost.
LEMMA NotInBlock ==
  ASSUME NEW l, NEW B, NEW M, ListOk(l, B, M), Ordered(l), NEW i \in 1 .. Len(l), NEW j \in i .. Len(l), NEW D,
         NEW n \in Nat, NEW b \in Nat, Lost(l, D, n, b), l[j].id = n, l[j].so <= b
  PROVE  R!MaxSo(l, i, j) + 1 <= b /\ ~R!LastReached(l, i, j)
<1>1. /\ Len(l) \in Nat /\ j \in 1 .. Len(l)
      /\ \A k \in 1 .. Len(l) : l[k].so \in Nat /\ R!End(l[k]) \in Nat /\ l[k].id \in Nat
  BY FitsIs
<1>2. \A k \in i .. j : k \in 1 .. Len(l) /\ k <= j
  BY <1>1
<1>3. ASSUME NEW k \in i .. j, l[k].id = n PROVE R!End(l[k]) <= b /\ ~l[k].last
  <2>1. l[k].so <= b
    <3>1. Before(l[k], l[j])
      <4>1. \A y, z \in 1 .. Len(l) : y <= z => Before(l[y], l[z])
        BY SortedIs, Zenon
      <4> QED BY <1>1, <1>2, <4>1
    <3> QED BY <1>1, <1>2, <1>3, <3>1 DEF Before
  <2>2. NotThere(l[k], n, b)
    BY <1>2 DEF Lost
  <2> QED BY <1>1, <1>2, <1>3, <2>1, <2>2 DEF NotThere
<1>4. PICK k \in i .. j : l[k].id = l[j].id /\ R!End(l[k]) = R!MaxSo(l, i, j) + 1
  BY MaxSoIs
<1>5. ~R!LastReached(l, i, j)
  <2> SUFFICES ASSUME R!LastReached(l, i, j) PROVE FALSE
    OBVIOUS
  <2>1. PICK y \in i .. j : l[y].id = l[j].id /\ l[y].last
    BY MaxSoIs
  <2> QED BY <1>3, <2>1
<1> QED BY <1>3, <1>4, <1>5

\* What is lost from entry i on is lost after the place where the entries break off.
LEMMA LostBeyond ==
  ASSUME NEW l, NEW B, NEW M, NEW D, ListInv(l, B, M, D), NEW i \in 1 .. Len(l),
         NEW n \in Nat, NEW b \in Nat, Lost(l, D, n, b), AtOrAfter(l[i], n, b)
  PROVE  /\ l[Break(l, i)].id <= n
         /\ l[Break(l, i)].id = n => ~Over(l, i) /\ R!MaxSo(l, i, Break(l, i)) + 1 <= b
<1>1. ListOk(l, B, M) /\ Ordered(l) /\ \A k \in DOMAIN l : l[k].data <=> l[k].id \notin D
  BY DEF ListInv
<1>2. /\ Len(l) \in Nat /\ l \in Seq(Entry) /\ DOMAIN l = 1 .. Len(l)
      /\ \A k \in 1 .. Len(l) : /\ l[k].so \in Nat /\ R!End(l[k]) \in Nat /\ l[k].id \in Nat
                                /\ (l[k].first <=> l[k].so = 0)
  <2>1. \A k \in 1 .. Len(l) : l[k].first <=> l[k].so = 0
    BY <1>1, FitsIs DEF ListOk, Fits
  <2> QED BY <1>1, <2>1, FitsIs
<1>3. PICK j : j = Break(l, i)
  OBVIOUS
<1>4. j \in i .. Len(l) /\ j \in 1 .. Len(l) /\ \A k \in i .. Len(l) : k < j => ~R!Discontinuity(l, i, k)
  BY <1>2, <1>3, BreakIs
<1> DEFINE S == {k \in i .. j : AtOrAfter(l[k], n, b)}
<1>5. PICK k \in S : \A y \in S : y <= k
  <2>1. i \in S /\ S \subseteq Nat /\ j \in Nat /\ \A y \in S : y <= j
    BY <1>2, <1>4
  <2> HIDE DEF S
  <2> QED BY <2>1, MaxNat
<1>6. k \in i .. j /\ AtOrAfter(l[k], n, b) /\ k \in 1 .. Len(l) /\ k \in i .. Len(l)
  BY <1>2, <1>4, <1>5
<1>7. k = j
  <2> SUFFICES ASSUME k < j PROVE FALSE
    BY <1>4, <1>6
  <2>1. k + 1 \in i .. j /\ k + 1 \in 1 .. Len(l) /\ ~AtOrAfter(l[k + 1], n, b)
    <3>1. k + 1 \in i .. j /\ k + 1 \in 1 .. Len(l) /\ ~(k + 1 <= k)
      BY <1>2, <1>4, <1>6
    <3> QED BY <1>5, <3>1
  <2>2. \/ l[k + 1].sn = l[k].sn /\ R!MaxSo(l, i, k) >= l[k + 1].so - 1
        \/ l[k + 1].sn = R!Plus(l[k].sn, 1) /\ R!LastReached(l, i, k) /\ l[k + 1].first
    BY <1>4, <1>6, Zenon DEF R!Discontinuity
  <2>3. PICK a, c, s, t, x : a = l[k].id /\ c = l[k + 1].id /\ s = l[k].so /\ t = l[k + 1].so /\ x = R!MaxSo(l, i, k)
    OBVIOUS
  <2>4. a \in Nat /\ c \in Nat /\ s \in Nat /\ t \in Nat /\ x \in Nat
    BY <1>1, <1>2, <1>6, <2>1, <2>3, MaxSoIs
  <2>5. (a < n \/ (a = n /\ s <= b)) /\ ~(c < n \/ (c = n /\ t <= b))
    BY <1>6, <2>1, <2>3 DEF AtOrAfter
  <2>6. a = n /\ s <= b => x + 1 <= b /\ ~R!LastReached(l, i, k)
    BY <1>1, <1>6, <2>3, NotInBlock
  <2>7. CASE l[k + 1].sn = l[k].sn /\ x >= t - 1
    <3>1. c = a
      BY <1>1, <1>6, <2>1, <2>3, <2>7, SameSdu
    <3> QED BY <2>4, <2>5, <2>6, <2>7, <3>1
  <2>8. CASE l[k + 1].sn = R!Plus(l[k].sn, 1) /\ R!LastReached(l, i, k) /\ l[k + 1].first
    <3>1. c = a + 1
      BY <1>1, <1>6, <2>1, <2>3, <2>8, SameSdu
    <3>2. t = 0
      BY <1>2, <2>1, <2>3, <2>8
    <3>3. a = n /\ s <= b
      BY <2>4, <2>5, <3>1, <3>2
    <3> QED BY <2>6, <2>8, <3>3
  <2> QED BY <2>2, <2>3, <2>7, <2>8
<1>8. l[j].id <= n
  BY <1>2, <1>4, <1>6, <1>7 DEF AtOrAfter
<1>9. ASSUME l[j].id = n PROVE ~Over(l, i) /\ R!MaxSo(l, i, j) + 1 <= b
  <2>1. l[j].so <= b
    BY <1>2, <1>4, <1>6, <1>7, <1>9 DEF AtOrAfter
  <2>2. R!MaxSo(l, i, j) + 1 <= b /\ ~R!LastReached(l, i, j)
    BY <1>1, <1>4, <1>9, <2>1, NotInBlock
  <2>3. n \notin D
    BY DEF Lost
  <2>4. l[j].data
    BY <1>1, <1>2, <1>4, <1>9, <2>3
  <2> QED BY <1>3, <2>2, <2>4 DEF Over
<1> QED BY <1>3, <1>8, <1>9

\* Where the entries break off everything before has ended.
LEMMA ClearBreak ==
  ASSUME NEW l, NEW B, NEW M, ListOk(l, B, M), Ordered(l), NEW i \in 1 .. Len(l), Fresh(l, i),
         NEW j \in i .. Len(l), ~R!LastReached(l, i, j)
  PROVE  Clear(l, j + 1, l[j].id, R!MaxSo(l, i, j) + 1)
<1>1. /\ Len(l) \in Nat /\ j \in 1 .. Len(l) /\ i <= j /\ i \in i .. j
      /\ \A k \in 1 .. Len(l) : /\ l[k].so \in Nat /\ R!End(l[k]) \in Nat /\ l[k].id \in Nat
                                /\ l[k].so < R!End(l[k]) /\ R!End(l[k]) <= SizeOf(l[k].id)
                                /\ (l[k].last <=> R!End(l[k]) = SizeOf(l[k].id))
  BY FitsIs
<1> SUFFICES ASSUME NEW k \in 1 .. Len(l), k < j + 1
             PROVE  \/ l[k].id < l[j].id
                    \/ l[k].id = l[j].id /\ R!End(l[k]) <= R!MaxSo(l, i, j) + 1 /\ ~l[k].last
  BY DEF Clear
<1>2. l[k].id < l[j].id \/ (l[k].id = l[j].id /\ l[k].so <= l[j].so)
  <2>1. k <= j
    BY <1>1
  <2>2. Before(l[k], l[j])
    <3>1. \A y, z \in 1 .. Len(l) : y <= z => Before(l[y], l[z])
      BY SortedIs, Zenon
    <3> QED BY <1>1, <2>1, <3>1
  <2> QED BY <2>2 DEF Before
<1>3. ASSUME l[k].id = l[j].id, k \in i .. j PROVE R!End(l[k]) <= R!MaxSo(l, i, j) + 1 /\ ~l[k].last
  BY <1>3, MaxSoIs
<1>4. ASSUME l[k].id = l[j].id, k < i PROVE R!End(l[k]) <= R!MaxSo(l, i, j) + 1 /\ ~l[k].last
  <2>1. /\ l[k].id < l[i].id \/ (l[k].id = l[i].id /\ l[k].so <= l[i].so)
        /\ l[i].id < l[j].id \/ (l[i].id = l[j].id /\ l[i].so <= l[j].so)
    <3>1. k <= i
      BY <1>1, <1>4
    <3>2. Before(l[k], l[i]) /\ Before(l[i], l[j])
      <4>1. \A y, z \in 1 .. Len(l) : y <= z => Before(l[y], l[z])
        BY SortedIs, Zenon
      <4> QED BY <1>1, <3>1, <4>1
    <3> QED BY <3>2 DEF Before
  <2>2. l[i].id = l[j].id /\ l[k].id = l[i].id
    BY <1>1, <1>4, <2>1
  <2>3. R!End(l[k]) < l[i].so
    BY <1>4, <2>2 DEF Fresh
  <2>4. R!End(l[i]) <= R!MaxSo(l, i, j) + 1 /\ R!MaxSo(l, i, j) \in Nat
    BY <1>1, <2>2, MaxSoIs
  <2>5. R!End(l[k]) < R!End(l[i]) /\ R!End(l[i]) <= SizeOf(l[k].id)
    BY <1>1, <2>2, <2>3
  <2>6. SizeOf(l[k].id) \in Nat
    BY <1>1, SizeOfIs
  <2>7. R!End(l[k]) \in Nat /\ R!End(l[i]) \in Nat /\ (l[k].last <=> R!End(l[k]) = SizeOf(l[k].id))
    BY <1>1
  <2> QED BY <2>4, <2>5, <2>6, <2>7
<1>5. k \in i .. j \/ k < i
  BY <1>1
<1> QED BY <1>2, <1>3, <1>4, <1>5

\* What lies after the entries before q and before entry q is lost.
LEMMA GapLost ==
  ASSUME NEW l, NEW B, NEW M, NEW D, ListInv(l, B, M, D), NEW q \in 1 .. (Len(l) + 1),
         NEW n1 \in Nat, NEW s1 \in Nat, Clear(l, q, n1, s1),
         NEW n \in Nat, B <= n, NEW b \in 0 .. SizeOf(n), From(n1, s1, n, b),
         q <= Len(l) => ~AtOrAfter(l[q], n, b)
  PROVE  Lost(l, D, n, b)
<1>1. ListOk(l, B, M) /\ Ordered(l) /\ (n \in D => Covered(l, n))
  BY DEF ListInv
<1>2. /\ Len(l) \in Nat /\ DOMAIN l = 1 .. Len(l) /\ q \in Nat
      /\ \A k \in 1 .. Len(l) : /\ l[k].so \in Nat /\ R!End(l[k]) \in Nat /\ l[k].id \in Nat
                                /\ l[k].so < R!End(l[k]) /\ R!End(l[k]) <= SizeOf(l[k].id)
                                /\ (l[k].last <=> R!End(l[k]) = SizeOf(l[k].id))
  BY <1>1, FitsIs
<1>3. ASSUME NEW k \in 1 .. Len(l) PROVE NotThere(l[k], n, b)
  <2> SUFFICES ASSUME l[k].id = n PROVE ~(l[k].so <= b /\ b < R!End(l[k])) /\ (l[k].last => b < l[k].so)
    BY DEF NotThere
  <2>1. CASE k < q
    <3>1. l[k].id < n1 \/ (l[k].id = n1 /\ R!End(l[k]) <= s1 /\ ~l[k].last)
      BY <2>1 DEF Clear
    <3> QED BY <1>2, <3>1 DEF From
  <2>2. CASE q <= k
    <3>1. q \in 1 .. Len(l)
      BY <1>2, <2>2
    <3>2. l[q].id < l[k].id \/ (l[q].id = l[k].id /\ l[q].so <= l[k].so)
      <4>1. Before(l[q], l[k])
        <5>1. \A y, z \in 1 .. Len(l) : y <= z => Before(l[y], l[z])
          BY <1>1, SortedIs, Zenon
        <5> QED BY <2>2, <3>1, <5>1
      <4> QED BY <4>1 DEF Before
    <3>3. ~(l[q].id < n) /\ ~(l[q].id = n /\ l[q].so <= b)
      BY <1>2, <3>1 DEF AtOrAfter
    <3>4. b < l[k].so
      BY <1>2, <3>1, <3>2, <3>3
    <3> QED BY <1>2, <3>4
  <2> QED BY <1>2, <2>1, <2>2
<1>4. n \notin D
  <2> SUFFICES ASSUME n \in D PROVE FALSE
    OBVIOUS
  <2>1. PICK z : z = SizeOf(n) /\ z \in Nat \ {0}
    BY SizeOfIs
  <2>2. CASE b < z
    <3>1. b \in 0 .. (z - 1)
      BY <2>1, <2>2
    <3>2. PICK k \in 1 .. Len(l) : Holds(l[k], n, b)
      BY <1>1, <1>2, <2>1, <3>1 DEF Covered
    <3> QED BY <1>3, <3>2 DEF Holds, NotThere
  <2>3. CASE b = z
    <3>1. z - 1 \in 0 .. (z - 1)
      BY <2>1
    <3>2. PICK k \in 1 .. Len(l) : Holds(l[k], n, z - 1)
      BY <1>1, <1>2, <2>1, <3>1 DEF Covered
    <3>3. l[k].id = n /\ l[k].so <= z - 1 /\ z - 1 < R!End(l[k])
      BY <3>2 DEF Holds
    <3>4. l[k].last
      BY <1>2, <2>1, <3>3
    <3>5. b < l[k].so
      BY <1>3, <3>3, <3>4 DEF NotThere
    <3> QED BY <1>2, <2>1, <2>3, <3>3, <3>5
  <2> QED BY <2>1, <2>2, <2>3
<1> QED BY <1>3, <1>4 DEF Lost

\* A run r of missing bytes that starts with SDU n1 and ends with SDU n2.
RunIs(l, B, H, D, m, n1, n2) ==
  /\ n1 \in Nat /\ n2 \in Nat /\ B <= n1 /\ n1 <= n2 /\ n2 < H
  /\ m \in Run /\ m.sn_start = n1 % SnCount /\ m.sn_end = n2 % SnCount
  /\ \A n \in Nat : B <= n => \A b \in 0 .. SizeOf(n) :
       From(n1, m.so_start, n, b) /\ UpToPos(n2, m.so_end, n, b) => Lost(l, D, n, b)

\* Where the loop goes on after it.
GoesOn(l, H, m, n1, n2) ==
  /\ m.next = 0 => n2 = H - 1 /\ m.so_end = R!SoEnd
  /\ m.next # 0 => /\ m.next \in 1 .. Len(l) /\ Fresh(l, m.next) /\ n2 <= l[m.next].id
                   /\ (n1 = n2 /\ n2 = l[m.next].id => m.so_start <= l[m.next].so)
                   /\ \A n, b \in Nat : ~AtOrAfter(l[m.next], n, b) /\ b <= R!SoEnd => UpToPos(n2, m.so_end, n, b)

\* The SN before.
LEMMA MinusOne ==
  ASSUME NEW y \in Nat \ {0}
  PROVE  R!Plus(y % SnCount, -1) = (y - 1) % SnCount
<1> DEFINE n == SnCount
<1>1. n \in Nat /\ n >= 4
  BY ReceiverAssumption
<1>2. PICK x : x = y - 1 /\ x \in Nat /\ y = x + 1
  OBVIOUS
<1>3. PICK p : p = x % n /\ p \in 0 .. (n - 1)
  BY <1>1, <1>2
<1>4. R!Plus(x % n, 1) = y % n
  BY <1>2, PlusIs
<1>5. y % n = (p + 1) % n
  BY <1>3, <1>4 DEF R!Plus
<1>6. CASE p + 1 < n
  <2>1. (p + 1) % n = p + 1 /\ ((p + 1) + (-1)) % n = p
    BY <1>1, <1>3, <1>6
  <2> QED BY <1>2, <1>3, <1>5, <2>1 DEF R!Plus
<1>7. CASE p + 1 = n
  <2>1. (p + 1) % n = 0
    BY <1>1, <1>7
  <2>2. (0 + (-1)) % n = n - 1
    BY <1>1
  <2> QED BY <1>2, <1>3, <1>5, <1>7, <2>1, <2>2 DEF R!Plus
<1> QED BY <1>1, <1>3, <1>6, <1>7

\* Whether RX_Highest_Status is above an SN.
LEMMA HighestIs ==
  ASSUME NEW r, NEW B, NEW H, NEW M, Numbers(r, B, H, M), NEW n \in Nat, B <= n, n < B + SnCount
  PROVE  R!sn_compare_rx(r, r.rx_highest_status, n % SnCount) = H - n
<1>1. /\ B \in Nat /\ H \in Nat /\ B <= H /\ H < B + SnCount /\ r.rx_next = B % SnCount
      /\ r.rx_highest_status = H % SnCount
  BY HalfWindow DEF Numbers
<1>2. R!modulus_rx(r, n % SnCount) = n - B
  BY <1>1, Ahead1
<1>3. R!modulus_rx(r, H % SnCount) = H - B
  BY <1>1, Ahead1
<1> QED BY <1>1, <1>2, <1>3 DEF R!sn_compare_rx

\* Entry q, if there is one, is after byte s of SDU n.
Stops(l, q, n, s) == q <= Len(l) => \A x, b \in Nat : UpToPos(n, s, x, b) => ~AtOrAfter(l[q], x, b)

Between(l, q, n1, s1, n2, s2) ==
  /\ q \in 1 .. (Len(l) + 1) /\ n1 \in Nat /\ s1 \in Nat /\ n2 \in Nat /\ s2 \in Nat /\ n1 <= n2
  /\ Clear(l, q, n1, s1) /\ Stops(l, q, n2, s2)

\* A run that ends before entry q, or at the end of the list.
LEMMA MissingRun ==
  ASSUME NEW l, NEW B, NEW H, NEW M, NEW D, ListInv(l, B, M, D), NEW q, NEW n1, NEW s1, NEW n2, NEW s2,
         Between(l, q, n1, s1, n2, s2), B <= n1, n2 < H, NEW x \in Nat, NEW m,
         m \in R!Missing(n1 % SnCount, s1, n2 % SnCount, s2, x)
  PROVE  RunIs(l, B, H, D, m, n1, n2) /\ m.so_start = s1 /\ m.so_end = s2 /\ m.next = x
<1>0. /\ q \in 1 .. (Len(l) + 1) /\ n1 \in Nat /\ s1 \in Nat /\ n2 \in Nat /\ s2 \in Nat /\ n1 <= n2
      /\ Clear(l, q, n1, s1) /\ Stops(l, q, n2, s2)
  BY DEF Between
<1>1. n1 % SnCount \in Sns /\ n2 % SnCount \in Sns
  BY <1>0, SnIs
<1>2. /\ m \in Run /\ m.sn_start = n1 % SnCount /\ m.so_start = s1 /\ m.sn_end = n2 % SnCount /\ m.so_end = s2
      /\ m.next = x
  BY <1>0, <1>1, MissingIs
<1>3. ASSUME NEW n \in Nat, B <= n, NEW b \in 0 .. SizeOf(n), From(n1, s1, n, b), UpToPos(n2, s2, n, b)
      PROVE  Lost(l, D, n, b)
  <2>1. b \in Nat
    BY <1>3, SizeOfIs
  <2>2. q <= Len(l) => ~AtOrAfter(l[q], n, b)
    BY <1>0, <1>3, <2>1 DEF Stops
  <2> QED BY <1>0, <1>3, <2>2, GapLost
<1> QED BY <1>0, <1>2, <1>3, Zenon DEF RunIs

\* A run up to RX_Highest_Status.
LEMMA EndRun ==
  ASSUME NEW l, NEW r, NEW B, NEW H, NEW M, NEW D, ListInv(l, B, M, D), Numbers(r, B, H, M), NEW q \in 1 .. (Len(l) + 1),
         NEW n1 \in Nat, NEW s1 \in Nat, B <= n1, n1 < H, Clear(l, q, n1, s1), q <= Len(l) => H <= l[q].id,
         NEW m \in R!Missing(n1 % SnCount, s1, R!Plus(r.rx_highest_status, -1), R!SoEnd, 0)
  PROVE  RunIs(l, B, H, D, m, n1, H - 1) /\ GoesOn(l, H, m, n1, H - 1) /\ m.so_start = s1 /\ m.next = 0
<1>1. H \in Nat \ {0} /\ B \in Nat /\ H - 1 \in Nat /\ n1 <= H - 1 /\ H - 1 < H
  BY DEF Numbers
<1>2. R!Plus(r.rx_highest_status, -1) = (H - 1) % SnCount
  BY <1>1, MinusOne DEF Numbers
<1>3. R!SoEnd \in Nat /\ 0 \in Nat
  BY DEF R!SoEnd
<1>4. ASSUME q <= Len(l), NEW n \in Nat, NEW b \in Nat, UpToPos(H - 1, R!SoEnd, n, b) PROVE ~AtOrAfter(l[q], n, b)
  <2>1. Len(l) \in Nat /\ q \in 1 .. Len(l) /\ l[q].id \in Nat
    <3>1. ListOk(l, B, M)
      BY DEF ListInv
    <3>2. Len(l) \in Nat /\ \A k \in 1 .. Len(l) : l[k].id \in Nat
      BY <3>1, FitsIs
    <3>3. q \in 1 .. Len(l)
      BY <1>4, <3>2
    <3> QED BY <3>2, <3>3
  <2> QED BY <1>1, <1>4, <2>1 DEF UpToPos, AtOrAfter
<1>5. m \in R!Missing(n1 % SnCount, s1, (H - 1) % SnCount, R!SoEnd, 0)
  BY <1>2
<1>6. PICK h, e : h = H - 1 /\ e = R!SoEnd
  OBVIOUS
<1>7. RunIs(l, B, H, D, m, n1, h) /\ m.so_start = s1 /\ m.so_end = e /\ m.next = 0
  <2>1. Stops(l, q, h, e)
    BY <1>4, <1>6 DEF Stops
  <2>2. m \in R!Missing(n1 % SnCount, s1, h % SnCount, e, 0) /\ h \in Nat /\ n1 <= h /\ h < H /\ e \in Nat
    BY <1>1, <1>3, <1>5, <1>6
  <2>3. Between(l, q, n1, s1, h, e)
    BY <2>1, <2>2 DEF Between
  <2>4. PICK z : z = 0
    OBVIOUS
  <2>5. z \in Nat /\ m \in R!Missing(n1 % SnCount, s1, h % SnCount, e, z) /\ h < H
    BY <1>3, <2>2, <2>4
  <2>6. RunIs(l, B, H, D, m, n1, h) /\ m.so_start = s1 /\ m.so_end = e /\ m.next = z
    BY <2>3, <2>5, MissingRun
  <2> QED BY <2>4, <2>6
<1> QED BY <1>6, <1>7 DEF GoesOn

\* There is room for a run from byte s of SDU n to entry q.
RoomBefore(l, B, H, q, n, s) ==
  /\ q \in 1 .. Len(l) /\ n \in Nat /\ s \in Nat /\ B <= n /\ n < H /\ Clear(l, q, n, s) /\ Fresh(l, q)
  /\ (l[q].first => n < l[q].id) /\ n <= l[q].id /\ (n = l[q].id => s <= l[q].so)

\* The run found begins there and ends before entry q or at RX_Highest_Status.
Found(l, B, H, D, m, q, n, s) ==
  /\ m.so_start = s /\ (m.next = 0 \/ m.next = q)
  /\ \E n2 : RunIs(l, B, H, D, m, n, n2) /\ GoesOn(l, H, m, n, n2)

\* A run up to entry q, or to RX_Highest_Status.
LEMMA UpToRun ==
  ASSUME NEW r, NEW B, NEW H, NEW M, NEW D, ListInv(r.rx_list, B, M, D), Numbers(r, B, H, M),
         NEW q, NEW n1, NEW s1, RoomBefore(r.rx_list, B, H, q, n1, s1), NEW m, m \in R!UpTo(r, n1 % SnCount, s1, q)
  PROVE  Found(r.rx_list, B, H, D, m, q, n1, s1)
<1> DEFINE l == r.rx_list
           c == l[q]
           n2 == IF c.first THEN c.id - 1 ELSE c.id
           s2 == IF c.first THEN R!SoEnd ELSE c.so - 1
<1>0. /\ q \in 1 .. Len(l) /\ n1 \in Nat /\ s1 \in Nat /\ B <= n1 /\ n1 < H /\ Clear(l, q, n1, s1) /\ Fresh(l, q)
      /\ (c.first => n1 < c.id) /\ n1 <= c.id /\ (n1 = c.id => s1 <= c.so)
  BY DEF RoomBefore
<1>1. ListOk(l, B, M)
  BY DEF ListInv
<1>2. /\ Len(l) \in Nat /\ DOMAIN l = 1 .. Len(l) /\ c.so \in Nat /\ c.id \in Nat /\ B \in Nat /\ M \in Nat /\ M <= B + W
      /\ c.sn = c.id % SnCount /\ B <= c.id /\ c.id < M
  BY <1>0, <1>1, FitsIs
<1>3. c.first <=> c.so = 0
  BY <1>0, <1>1, <1>2 DEF ListOk, Fits
<1>4. R!SoEnd \in Nat
  BY DEF R!SoEnd
<1>5. n2 \in Nat /\ s2 \in Nat /\ n1 <= n2 /\ n2 <= c.id /\ B <= n2 /\ n2 < B + SnCount /\ H \in Nat
  <2>1. H \in Nat
    BY DEF Numbers
  <2>2. PICK a, o : a = c.id /\ o = c.so
    OBVIOUS
  <2>3. a \in Nat /\ o \in Nat /\ B <= a /\ a < B + SnCount /\ n1 <= a
    BY <1>0, <1>2, <2>2, HalfWindow
  <2>4. CASE c.first
    <3>1. n2 = a - 1 /\ s2 = R!SoEnd /\ n1 < a
      BY <1>0, <2>2, <2>4
    <3> HIDE DEF n2, s2
    <3>2. SnCount \in Nat /\ B \in Nat
      BY <1>2, HalfWindow
    <3> HIDE DEF c
    <3> QED BY <1>0, <1>4, <2>1, <2>2, <2>3, <3>1, <3>2
  <2>5. CASE ~c.first
    <3>1. n2 = a /\ s2 = o - 1 /\ o # 0
      BY <1>3, <2>2, <2>5
    <3> HIDE DEF n2, s2
    <3>2. SnCount \in Nat /\ B \in Nat
      BY <1>2, HalfWindow
    <3> HIDE DEF c
    <3> QED BY <1>0, <2>1, <2>2, <2>3, <3>1, <3>2
  <2> QED BY <2>4, <2>5
<1>6. (IF c.first THEN R!Plus(c.sn, -1) ELSE c.sn) = n2 % SnCount
  <2>1. CASE c.first
    <3>1. c.id \in Nat \ {0}
      BY <1>0, <1>2, <2>1
    <3> QED BY <1>2, <2>1, <3>1, MinusOne
  <2>2. CASE ~c.first
    BY <1>2, <2>2
  <2> QED BY <2>1, <2>2
<1>7. R!UpTo(r, n1 % SnCount, s1, q) = IF R!sn_compare_rx(r, r.rx_highest_status, n2 % SnCount) <= 0
                                       THEN R!Missing(n1 % SnCount, s1, R!Plus(r.rx_highest_status, -1), R!SoEnd, 0)
                                       ELSE R!Missing(n1 % SnCount, s1, n2 % SnCount, s2, q)
  <2> HIDE DEF n2
  <2> QED BY <1>6, Zenon DEF R!UpTo
<1>8. R!sn_compare_rx(r, r.rx_highest_status, n2 % SnCount) = H - n2
  <2> HIDE DEF n2
  <2> QED BY <1>5, HighestIs
<1>9. CASE H <= n2
  <2>1. m \in R!Missing(n1 % SnCount, s1, R!Plus(r.rx_highest_status, -1), R!SoEnd, 0)
    <3> HIDE DEF n2, s2
    <3> QED BY <1>5, <1>7, <1>8, <1>9
  <2>2. q \in 1 .. (Len(l) + 1) /\ (q <= Len(l) => H <= l[q].id)
    <3> HIDE DEF n2, s2
    <3> QED BY <1>0, <1>2, <1>5, <1>9
  <2>3. RunIs(l, B, H, D, m, n1, H - 1) /\ GoesOn(l, H, m, n1, H - 1) /\ m.so_start = s1 /\ m.next = 0
    BY <1>0, <2>1, <2>2, EndRun
  <2> QED BY <2>3 DEF Found
<1>10. CASE n2 < H
  <2>1. m \in R!Missing(n1 % SnCount, s1, n2 % SnCount, s2, q)
    <3> HIDE DEF n2, s2
    <3> QED BY <1>5, <1>7, <1>8, <1>10
  <2>2. ASSUME NEW n \in Nat, NEW b \in Nat PROVE UpToPos(n2, s2, n, b) => ~AtOrAfter(c, n, b)
    BY <1>2, <1>3, <1>4 DEF UpToPos, AtOrAfter
  <2>3. ASSUME NEW n \in Nat, NEW b \in Nat PROVE ~AtOrAfter(c, n, b) /\ b <= R!SoEnd => UpToPos(n2, s2, n, b)
    BY <1>2, <1>3, <1>4 DEF UpToPos, AtOrAfter
  <2>4. n1 = n2 /\ n2 = c.id => s1 <= c.so
    BY <1>0
  <2> HIDE DEF n2, s2
  <2>5. q \in 1 .. (Len(l) + 1) /\ q \in Nat /\ Stops(l, q, n2, s2)
    BY <1>0, <1>2, <2>2 DEF Stops
  <2>6. RunIs(l, B, H, D, m, n1, n2) /\ m.so_start = s1 /\ m.so_end = s2 /\ m.next = q
    <3>1. Between(l, q, n1, s1, n2, s2)
      BY <1>0, <1>5, <2>5 DEF Between
    <3>2. B <= n1 /\ q \in Nat
      BY <1>0, <2>5
    <3> QED BY <1>10, <2>1, <3>1, <3>2, MissingRun
  <2>7. GoesOn(l, H, m, n1, n2)
    BY <1>0, <1>2, <1>5, <2>3, <2>4, <2>6 DEF GoesOn
  <2> QED BY <2>6, <2>7 DEF Found
<1> QED
  <2> HIDE DEF n2
  <2> QED BY <1>5, <1>9, <1>10

\* The positions that are still to be looked at when the loop is at entry i.
Since(l, i, h, n, b) == h \/ AtOrAfter(l[i], n, b)

\* The next run begins with the first byte, s1 of SDU n1, that is lost and still to be looked at.
NextIs(l, B, H, D, ms, i, h, n1, s1) ==
  /\ n1 \in Nat /\ s1 \in Nat /\ B <= n1
  /\ \A n \in Nat : B <= n => \A b \in Nat : Lost(l, D, n, b) /\ Since(l, i, h, n, b) => From(n1, s1, n, b)
  /\ ms = {} => H <= n1
  /\ \A m \in ms : /\ m.so_start = s1 /\ (m.next = 0 \/ i < m.next \/ h)
                   /\ \E n2 : RunIs(l, B, H, D, m, n1, n2) /\ GoesOn(l, H, m, n1, n2)

\* What is missing before the first entry.
LEMMA HeadRun ==
  ASSUME NEW r, NEW B, NEW H, NEW M, NEW D, Inv(r, B, H, M, D), NEW i, i = 1, i \in 1 .. Len(r.rx_list), HeadMissing(r, i)
  PROVE  NextIs(r.rx_list, B, H, D, R!next_missing(r, i, TRUE), i, TRUE, B, 0)
<1> DEFINE l == r.rx_list
<1>1. ListInv(l, B, M, D) /\ ListOk(l, B, M) /\ Numbers(r, B, H, M)
  BY DEF Inv, Inv0, ListInv
<1>2. B \in Nat /\ H \in Nat /\ B <= H /\ M \in Nat /\ M <= B + W /\ r.rx_next = B % SnCount
  BY <1>1 DEF Numbers
<1>3. l[i].so \in Nat /\ l[i].id \in Nat /\ B <= l[i].id /\ l[i].id < M /\ l[i].sn = l[i].id % SnCount
  BY <1>1, FitsIs
<1>4. R!next_missing(r, i, TRUE) = IF R!Reported(r, r.rx_next) THEN R!UpTo(r, r.rx_next, 0, i) ELSE {}
  BY NextMissingIs, Zenon
<1>5. R!Reported(r, r.rx_next) <=> B < H
  <2>1. R!sn_compare_rx(r, r.rx_highest_status, B % SnCount) = H - B
    <3>1. B <= B /\ B < B + SnCount
      BY <1>2, HalfWindow
    <3> QED BY <1>1, <1>2, <3>1, HighestIs
  <2> QED BY <1>2, <2>1 DEF R!Reported
<1>6. Clear(l, i, B, 0) /\ Fresh(l, i)
  <2>1. \A k \in 1 .. Len(l) : ~(k < i)
    OBVIOUS
  <2> QED BY <2>1 DEF Clear, Fresh
<1>7. l[i].first => B < l[i].id
  BY <1>2, <1>3 DEF HeadMissing
<1>8. PICK z : z = 0 /\ z \in Nat
  OBVIOUS
<1>9. ASSUME NEW m \in R!next_missing(r, i, TRUE)
      PROVE  /\ m.so_start = z /\ (m.next = 0 \/ i < m.next \/ TRUE)
             /\ \E n2 : RunIs(l, B, H, D, m, B, n2) /\ GoesOn(l, H, m, B, n2)
  <2>1. B < H /\ m \in R!UpTo(r, B % SnCount, z, i)
    BY <1>2, <1>4, <1>5, <1>8
  <2>2. B <= B /\ B <= l[i].id /\ (B = l[i].id => z <= l[i].so)
    BY <1>2, <1>3, <1>8
  <2>3. Clear(l, i, B, z)
    BY <1>6, <1>8
  <2>4. RoomBefore(l, B, H, i, B, z)
    BY <1>2, <1>6, <1>7, <1>8, <2>1, <2>2, <2>3 DEF RoomBefore
  <2>5. Found(l, B, H, D, m, i, B, z)
    BY <1>1, <2>1, <2>4, UpToRun
  <2> QED BY <2>5, Zenon DEF Found
<1>10. R!next_missing(r, i, TRUE) = {} => H <= B
  <2>1. R!UpTo(r, r.rx_next, 0, i) # {}
    BY DEF R!UpTo, R!Missing
  <2>2. R!next_missing(r, i, TRUE) = {} => ~(B < H)
    BY <1>4, <1>5, <2>1
  <2>3. ~(B < H) => H <= B
    BY <1>2
  <2> QED BY <2>2, <2>3, Zenon
<1>11. ASSUME NEW n \in Nat, B <= n, NEW b \in Nat PROVE From(B, z, n, b)
  BY <1>2, <1>8, <1>11 DEF From
<1>12. NextIs(l, B, H, D, R!next_missing(r, i, TRUE), i, TRUE, B, z)
  <2>1. B <= B
    BY <1>2
  <2> QED BY <1>2, <1>8, <1>9, <1>10, <1>11, <2>1, Zenon DEF NextIs
<1> QED BY <1>8, <1>12

\* Where the next run begins.
StartId(l, i) == IF Over(l, i) THEN l[Break(l, i)].id + 1 ELSE l[Break(l, i)].id

\* It begins after what is there.
LEMMA StartIs ==
  ASSUME NEW l, NEW B, NEW M, NEW D, ListInv(l, B, M, D), NEW i \in 1 .. Len(l), Fresh(l, i)
  PROVE  /\ StartId(l, i) \in Nat /\ StartSo(l, i) \in Nat /\ B <= StartId(l, i) /\ StartId(l, i) < B + SnCount
         /\ StartSn(l, i) = StartId(l, i) % SnCount
         /\ Clear(l, Break(l, i) + 1, StartId(l, i), StartSo(l, i))
<1>1. ListOk(l, B, M) /\ Ordered(l)
  BY DEF ListInv
<1>2. /\ Len(l) \in Nat /\ l \in Seq(Entry) /\ B \in Nat /\ M \in Nat /\ M <= B + W
      /\ \A k \in 1 .. Len(l) : /\ l[k].so \in Nat /\ l[k].id \in Nat /\ B <= l[k].id /\ l[k].id < M
                                /\ l[k].sn = l[k].id % SnCount
  BY <1>1, FitsIs
<1>3. PICK j : j = Break(l, i)
  OBVIOUS
<1>4. j \in i .. Len(l) /\ j \in 1 .. Len(l)
  BY <1>2, <1>3, BreakIs
<1>5. R!MaxSo(l, i, j) \in Nat
  BY <1>1, <1>4, MaxSoIs
<1>6. PICK a : a = l[j].id
  OBVIOUS
<1>7. a \in Nat /\ B <= a /\ a + 1 < B + SnCount /\ a < B + SnCount /\ l[j].sn = a % SnCount /\ B <= a + 1
  <2>1. a \in Nat /\ B <= a /\ a < M /\ l[j].sn = a % SnCount
    BY <1>2, <1>4, <1>6
  <2> QED BY <1>2, <2>1, HalfWindow
<1>8. CASE Over(l, i)
  <2>1. StartId(l, i) = a + 1 /\ StartSo(l, i) = 0 /\ StartSn(l, i) = R!Plus(l[j].sn, 1)
    BY <1>3, <1>6, <1>8 DEF StartId, StartSo, StartSn
  <2>2. R!Plus(l[j].sn, 1) = (a + 1) % SnCount
    BY <1>7, PlusIs
  <2>3. Clear(l, j + 1, a + 1, 0)
    <3> SUFFICES ASSUME NEW k \in 1 .. Len(l), k < j + 1 PROVE l[k].id < a + 1
      BY DEF Clear
    <3>1. k <= j
      BY <1>4
    <3>2. Before(l[k], l[j])
      BY <1>1, <1>4, <3>1, SortedIs
    <3> QED BY <1>2, <1>4, <1>6, <3>2 DEF Before
  <2> QED BY <1>3, <1>7, <2>1, <2>2, <2>3
<1>9. CASE ~Over(l, i)
  <2>1. StartId(l, i) = a /\ StartSo(l, i) = R!MaxSo(l, i, j) + 1 /\ StartSn(l, i) = l[j].sn /\ ~R!LastReached(l, i, j)
    BY <1>3, <1>6, <1>9 DEF StartId, StartSo, StartSn, Over
  <2>2. Clear(l, j + 1, a, R!MaxSo(l, i, j) + 1)
    BY <1>1, <1>4, <1>6, <2>1, ClearBreak
  <2> QED BY <1>3, <1>5, <1>7, <2>1, <2>2
<1> QED BY <1>8, <1>9

\* Inside a hole of an SDU the end of the SDU has not been reached.
LEMMA HoleIs ==
  ASSUME NEW l, NEW B, NEW M, NEW D, ListInv(l, B, M, D), NEW i \in 1 .. Len(l), NEW j, j = Break(l, i),
         j < Len(l), l[j + 1].sn = l[j].sn
  PROVE  ~Over(l, i) /\ R!MaxSo(l, i, j) + 1 <= l[j + 1].so - 1 /\ l[j + 1].id = l[j].id
<1>1. ListOk(l, B, M)
  BY DEF ListInv
<1>2. /\ Len(l) \in Nat /\ l \in Seq(Entry)
      /\ \A k \in 1 .. Len(l) : /\ l[k].so \in Nat /\ l[k].id \in Nat /\ R!End(l[k]) \in Nat /\ l[k].so < R!End(l[k])
                                /\ R!End(l[k]) <= SizeOf(l[k].id) /\ (l[k].last <=> R!End(l[k]) = SizeOf(l[k].id))
  BY <1>1, FitsIs
<1>3. j \in i .. Len(l) /\ j \in 1 .. Len(l) /\ R!Discontinuity(l, i, j) /\ j + 1 \in 1 .. Len(l) /\ i <= j
  <2>1. j \in i .. Len(l) /\ j \in 1 .. Len(l) /\ R!Discontinuity(l, i, j)
    BY <1>2, BreakIs
  <2> QED BY <1>2, <2>1
<1>4. R!MaxSo(l, i, j) + 1 <= l[j + 1].so - 1
  BY <1>1, <1>3, AfterHole
<1>5. l[j + 1].id = l[j].id
  BY <1>1, <1>3, SameSdu
<1>6. ~R!LastReached(l, i, j)
  <2> SUFFICES ASSUME R!LastReached(l, i, j) PROVE FALSE
    OBVIOUS
  <2>1. PICK k \in i .. j : l[k].id = l[j].id /\ l[k].last
    BY <1>1, <1>3, MaxSoIs
  <2>2. R!End(l[k]) <= R!MaxSo(l, i, j) + 1 /\ R!MaxSo(l, i, j) \in Nat
    BY <1>1, <1>3, <2>1, MaxSoIs
  <2>3. k \in 1 .. Len(l)
    BY <1>2, <1>3
  <2>4. PICK z : z = SizeOf(l[j].id) /\ z \in Nat
    BY <1>2, <1>3, SizeOfIs
  <2>5. R!End(l[k]) = z /\ l[j + 1].so < z
    <3>1. R!End(l[k]) = z
      BY <1>2, <2>1, <2>3, <2>4
    <3>2. l[j + 1].so < R!End(l[j + 1]) /\ R!End(l[j + 1]) <= z /\ R!End(l[j + 1]) \in Nat /\ l[j + 1].so \in Nat
      BY <1>2, <1>3, <1>5, <2>4
    <3> QED BY <2>4, <3>1, <3>2
  <2>6. l[j + 1].so \in Nat
    BY <1>2, <1>3
  <2> QED BY <1>4, <2>2, <2>4, <2>5, <2>6
<1> QED BY <1>4, <1>5, <1>6 DEF Over

\* A hole in an SDU.
LEMMA HoleRun ==
  ASSUME NEW l, NEW B, NEW H, NEW M, NEW D, ListInv(l, B, M, D), NEW i \in 1 .. Len(l), Fresh(l, i), NEW j, j = Break(l, i),
         j < Len(l), l[j + 1].sn = l[j].sn, StartId(l, i) < H, NEW m,
         m \in R!Missing(l[j].sn, R!MaxSo(l, i, j) + 1, l[j].sn, l[j + 1].so - 1, j + 1)
  PROVE  Found(l, B, H, D, m, j + 1, StartId(l, i), StartSo(l, i))
<1>1. ~Over(l, i) /\ R!MaxSo(l, i, j) + 1 <= l[j + 1].so - 1 /\ l[j + 1].id = l[j].id
  BY HoleIs
<1>2. PICK n, s, o, q : n = StartId(l, i) /\ s = StartSo(l, i) /\ o = l[j + 1].so /\ q = j + 1
  OBVIOUS
<1>3. l[j].id = n /\ R!MaxSo(l, i, j) + 1 = s /\ l[j].sn = StartSn(l, i)
  BY <1>1, <1>2 DEF StartId, StartSo, StartSn
<1>4. n \in Nat /\ s \in Nat /\ B <= n /\ l[j].sn = n % SnCount /\ Clear(l, q, n, s)
  BY <1>2, <1>3, StartIs
<1>5. ListOk(l, B, M) /\ Len(l) \in Nat /\ j \in 1 .. Len(l)
  <2>1. ListOk(l, B, M)
    BY DEF ListInv
  <2>2. Len(l) \in Nat /\ l \in Seq(Entry)
    BY <2>1, FitsIs
  <2> QED BY <2>1, <2>2, BreakIs
<1>6. q \in 1 .. Len(l) /\ q \in Nat /\ q # 0
  BY <1>2, <1>5
<1>7. l[q].id = n /\ l[q].so = o /\ o \in Nat /\ s <= o - 1 /\ o - 1 \in Nat
  <2>1. l[q].id = n /\ l[q].so = o /\ o \in Nat /\ s <= o - 1
    BY <1>1, <1>2, <1>3, <1>5, <1>6, FitsIs
  <2> QED BY <1>4, <2>1
<1>8. m \in R!Missing(n % SnCount, s, n % SnCount, o - 1, q)
  BY <1>2, <1>3, <1>4
<1>9. ASSUME NEW x \in Nat, NEW b \in Nat PROVE UpToPos(n, o - 1, x, b) <=> ~AtOrAfter(l[q], x, b)
  BY <1>4, <1>7 DEF UpToPos, AtOrAfter
<1>10. Stops(l, q, n, o - 1)
  BY <1>9 DEF Stops
<1>11. Between(l, q, n, s, n, o - 1)
  <2>1. q \in 1 .. (Len(l) + 1) /\ n <= n
    BY <1>4, <1>5, <1>6
  <2> QED BY <1>4, <1>7, <1>10, <2>1 DEF Between
<1>12. RunIs(l, B, H, D, m, n, n) /\ m.so_start = s /\ m.so_end = o - 1 /\ m.next = q
  <2>1. PICK e : e = o - 1
    OBVIOUS
  <2>2. m \in R!Missing(n % SnCount, s, n % SnCount, e, q) /\ Between(l, q, n, s, n, e) /\ n < H
    BY <1>2, <1>8, <1>11, <2>1
  <2>3. RunIs(l, B, H, D, m, n, n) /\ m.so_start = s /\ m.so_end = e /\ m.next = q
    BY <1>4, <1>6, <2>2, MissingRun
  <2> QED BY <2>1, <2>3
<1>13. Fresh(l, q)
  <2> SUFFICES ASSUME NEW k \in 1 .. Len(l), k < q, l[k].id = l[q].id PROVE R!End(l[k]) < l[q].so
    BY DEF Fresh
  <2>1. l[k].id < n \/ (l[k].id = n /\ R!End(l[k]) <= s /\ ~l[k].last)
    BY <1>4 DEF Clear
  <2>2. R!End(l[k]) \in Nat
    BY <1>5, FitsIs
  <2> QED BY <1>4, <1>7, <2>1, <2>2
<1>14. GoesOn(l, H, m, n, n)
  <2>1. n <= l[q].id /\ (n = n /\ n = l[q].id => s <= l[q].so)
    BY <1>4, <1>7
  <2> QED BY <1>6, <1>9, <1>12, <1>13, <2>1 DEF GoesOn
<1>15. Found(l, B, H, D, m, q, n, s)
  BY <1>12, <1>14 DEF Found
<1> QED BY <1>2, <1>15

\* The SDUs after the one where the entries break off.
LEMMA AfterBreak ==
  ASSUME NEW l, NEW B, NEW H, NEW M, NEW D, ListInv(l, B, M, D), NEW i \in 1 .. Len(l), Fresh(l, i), NEW j, j = Break(l, i),
         j < Len(l), l[j + 1].sn # l[j].sn, StartId(l, i) < H
  PROVE  RoomBefore(l, B, H, j + 1, StartId(l, i), StartSo(l, i))
<1>1. PICK n, s, q, a, c : n = StartId(l, i) /\ s = StartSo(l, i) /\ q = j + 1 /\ a = l[j].id /\ c = l[q].id
  OBVIOUS
<1>2. n \in Nat /\ s \in Nat /\ B <= n /\ Clear(l, q, n, s)
  BY <1>1, StartIs
<1>3. ListOk(l, B, M) /\ Ordered(l) /\ Len(l) \in Nat /\ j \in 1 .. Len(l) /\ R!Discontinuity(l, i, j)
  <2>1. ListOk(l, B, M) /\ Ordered(l)
    BY DEF ListInv
  <2>2. Len(l) \in Nat /\ l \in Seq(Entry)
    BY <2>1, FitsIs
  <2> QED BY <2>1, <2>2, BreakIs
<1>4. q \in 1 .. Len(l) /\ j <= q
  BY <1>1, <1>3
<1>5. /\ a \in Nat /\ c \in Nat /\ l[q].so \in Nat /\ (c = a <=> l[q].sn = l[j].sn)
      /\ (c = a + 1 <=> l[q].sn = R!Plus(l[j].sn, 1))
  <2>1. a \in Nat /\ c \in Nat /\ l[q].so \in Nat
    BY <1>1, <1>3, <1>4, FitsIs
  <2>2. /\ l[q].sn = l[j].sn <=> l[q].id = l[j].id
        /\ l[q].sn = R!Plus(l[j].sn, 1) <=> l[q].id = l[j].id + 1
    BY <1>3, <1>4, SameSdu
  <2> QED BY <1>1, <2>1, <2>2, Zenon
<1>6. a < c
  <2>1. Before(l[j], l[q])
    BY <1>3, <1>4, SortedIs
  <2> QED BY <1>1, <1>5, <2>1 DEF Before
<1>7. Fresh(l, q)
  <2> SUFFICES ASSUME NEW k \in 1 .. Len(l), k < q, l[k].id = l[q].id PROVE FALSE
    BY DEF Fresh
  <2>1. k <= j
    BY <1>1, <1>3
  <2>2. Before(l[k], l[j])
    BY <1>3, <2>1, SortedIs
  <2>3. l[k].id \in Nat
    BY <1>3, FitsIs
  <2> QED BY <1>1, <1>5, <1>6, <2>2, <2>3 DEF Before
<1>8. CASE Over(l, i)
  <2>1. n = a + 1 /\ s = 0
    BY <1>1, <1>8 DEF StartId, StartSo
  <2>2. R!LastReached(l, i, j)
    BY <1>8 DEF Over
  <2>3. ~(l[q].sn = R!Plus(l[j].sn, 1) /\ l[q].first)
    BY <1>1, <1>3, <2>2 DEF R!Discontinuity
  <2>4. (l[q].first => n < c) /\ n <= c /\ (n = c => s <= l[q].so)
    BY <1>5, <1>6, <2>1, <2>3
  <2>5. RoomBefore(l, B, H, q, n, s)
    BY <1>1, <1>2, <1>4, <1>7, <2>4 DEF RoomBefore
  <2> QED BY <1>1, <2>5
<1>9. CASE ~Over(l, i)
  <2>1. n = a
    BY <1>1, <1>9 DEF StartId
  <2>2. (l[q].first => n < c) /\ n <= c /\ (n = c => s <= l[q].so)
    BY <1>5, <1>6, <2>1
  <2>3. RoomBefore(l, B, H, q, n, s)
    BY <1>1, <1>2, <1>4, <1>7, <2>2 DEF RoomBefore
  <2> QED BY <1>1, <2>3
<1> QED BY <1>8, <1>9

\* What is missing from entry i on.
LEMMA LaterRun ==
  ASSUME NEW r, NEW B, NEW H, NEW M, NEW D, Inv(r, B, H, M, D), NEW i \in 1 .. Len(r.rx_list), Fresh(r.rx_list, i),
         NEW h \in BOOLEAN, h => i = 1, ~(h /\ HeadMissing(r, i))
  PROVE  NextIs(r.rx_list, B, H, D, R!next_missing(r, i, h), i, h, StartId(r.rx_list, i), StartSo(r.rx_list, i))
<1> DEFINE l == r.rx_list
           ms == R!next_missing(r, i, h)
<1>1. ListInv(l, B, M, D) /\ ListOk(l, B, M) /\ Numbers(r, B, H, M)
  BY DEF Inv, Inv0, ListInv
<1>2. B \in Nat /\ H \in Nat /\ B <= H /\ M \in Nat /\ M <= B + W /\ r.rx_next = B % SnCount
  BY <1>1 DEF Numbers
<1>3. PICK n1, s1, j : n1 = StartId(l, i) /\ s1 = StartSo(l, i) /\ j = Break(l, i)
  OBVIOUS
<1>4. /\ n1 \in Nat /\ s1 \in Nat /\ B <= n1 /\ n1 < B + SnCount /\ StartSn(l, i) = n1 % SnCount
      /\ Clear(l, j + 1, n1, s1)
  BY <1>1, <1>3, StartIs
<1>5. Len(l) \in Nat /\ l \in Seq(Entry) /\ j \in i .. Len(l) /\ j \in 1 .. Len(l)
  BY <1>1, <1>3, FitsIs, BreakIs
<1>6. R!Reported(r, StartSn(l, i)) <=> n1 < H
  <2>1. R!sn_compare_rx(r, r.rx_highest_status, n1 % SnCount) = H - n1
    BY <1>1, <1>4, HighestIs
  <2> QED BY <1>2, <1>4, <2>1 DEF R!Reported
<1>7. j + 1 \in 1 .. (Len(l) + 1) /\ j + 1 # 0 /\ i < j + 1
  BY <1>5
<1> DEFINE Goal == (ms = {} => ~(n1 < H)) /\ \A m \in ms : Found(l, B, H, D, m, j + 1, n1, s1)
<1>8. ASSUME j < Len(l), l[j + 1].sn = l[j].sn PROVE Goal
  <2>1. StartSn(l, i) = l[j].sn
    <3>1. ~Over(l, i)
      BY <1>1, <1>3, <1>8, HoleIs
    <3> QED BY <1>3, <3>1 DEF StartSn
  <2>2. ms = IF R!Reported(r, l[j].sn)
             THEN R!Missing(l[j].sn, R!MaxSo(l, i, j) + 1, l[j].sn, l[j + 1].so - 1, j + 1) ELSE {}
    BY <1>3, <1>8, NextMissingIs, Zenon
  <2>3. (ms = {} => ~(n1 < H)) /\ \A m \in ms : /\ n1 < H
          /\ m \in R!Missing(l[j].sn, R!MaxSo(l, i, j) + 1, l[j].sn, l[j + 1].so - 1, j + 1)
    BY <1>6, <2>1, <2>2 DEF R!Missing
  <2> HIDE DEF ms
  <2>4. ASSUME NEW m \in ms PROVE Found(l, B, H, D, m, j + 1, n1, s1)
    BY <1>1, <1>3, <1>8, <2>3, <2>4, HoleRun
  <2> QED BY <2>3, <2>4
<1>9. ASSUME j < Len(l), l[j + 1].sn # l[j].sn PROVE Goal
  <2>1. ms = IF ~R!Reported(r, StartSn(l, i)) THEN {} ELSE R!UpTo(r, StartSn(l, i), StartSo(l, i), j + 1)
    BY <1>3, <1>9, NextMissingIs, Zenon
  <2>2. R!UpTo(r, StartSn(l, i), StartSo(l, i), j + 1) # {}
    BY DEF R!UpTo, R!Missing
  <2>3. (ms = {} => ~(n1 < H)) /\ \A m \in ms : n1 < H /\ m \in R!UpTo(r, n1 % SnCount, s1, j + 1)
    BY <1>3, <1>4, <1>6, <2>1, <2>2
  <2> HIDE DEF ms
  <2>4. ASSUME NEW m \in ms PROVE Found(l, B, H, D, m, j + 1, n1, s1)
    <3>1. RoomBefore(l, B, H, j + 1, n1, s1)
      BY <1>1, <1>3, <1>9, <2>3, <2>4, AfterBreak
    <3> QED BY <1>1, <2>3, <2>4, <3>1, UpToRun
  <2> QED BY <2>3, <2>4
<1>10. ASSUME j = Len(l) PROVE Goal
  <2>1. ms = IF ~R!Reported(r, StartSn(l, i)) THEN {}
             ELSE R!Missing(StartSn(l, i), StartSo(l, i), R!Plus(r.rx_highest_status, -1), R!SoEnd, 0)
    <3>1. ~(Break(l, i) < Len(l))
      BY <1>3, <1>5, <1>10
    <3> QED BY <3>1, NextMissingIs, Zenon
  <2>2. (ms = {} => ~(n1 < H)) /\ \A m \in ms :
           n1 < H /\ m \in R!Missing(n1 % SnCount, s1, R!Plus(r.rx_highest_status, -1), R!SoEnd, 0)
    BY <1>3, <1>4, <1>6, <2>1 DEF R!Missing
  <2> HIDE DEF ms
  <2>3. ASSUME NEW m \in ms PROVE Found(l, B, H, D, m, j + 1, n1, s1)
    <3>1. j + 1 <= Len(l) => H <= l[j + 1].id
      BY <1>5, <1>10
    <3>2. RunIs(l, B, H, D, m, n1, H - 1) /\ GoesOn(l, H, m, n1, H - 1) /\ m.so_start = s1 /\ m.next = 0
      BY <1>1, <1>4, <1>7, <2>2, <2>3, <3>1, EndRun
    <3> QED BY <3>2 DEF Found
  <2> QED BY <2>2, <2>3
<1>11. Goal
  <2> HIDE DEF Goal
  <2> QED BY <1>5, <1>8, <1>9, <1>10
<1>12. ASSUME NEW n \in Nat, B <= n, NEW b \in Nat, Lost(l, D, n, b), Since(l, i, h, n, b) PROVE From(n1, s1, n, b)
  <2>1. AtOrAfter(l[i], n, b)
    <3>1. CASE h
      <4>1. l[i].sn = r.rx_next /\ l[i].first
        BY <3>1 DEF HeadMissing
      <4>2. l[i].id = B /\ l[i].so = 0
        <5>1. \A k \in DOMAIN l : l[k].sn = B % SnCount <=> l[k].id = B
          <6>1. B <= B /\ B < B + SnCount
            BY <1>2, HalfWindow
          <6> QED BY <1>1, <1>2, <6>1, EntriesAre
        <5>2. DOMAIN l = 1 .. Len(l)
          BY <1>5
        <5> QED BY <1>1, <1>2, <4>1, <5>1, <5>2 DEF ListOk, Fits
      <4> QED BY <1>2, <1>12, <4>2 DEF AtOrAfter
    <3>2. CASE ~h
      BY <1>12, <3>2 DEF Since
    <3> QED BY <3>1, <3>2
  <2>2. /\ l[j].id <= n
        /\ l[j].id = n => ~Over(l, i) /\ R!MaxSo(l, i, j) + 1 <= b
    BY <1>1, <1>3, <1>12, <2>1, LostBeyond
  <2>3. l[j].id \in Nat
    BY <1>1, <1>5, FitsIs
  <2>4. CASE Over(l, i)
    <3>1. n1 = l[j].id + 1 /\ s1 = 0
      BY <1>3, <2>4 DEF StartId, StartSo
    <3> QED BY <1>4, <2>2, <2>3, <2>4, <3>1 DEF From
  <2>5. CASE ~Over(l, i)
    <3>1. n1 = l[j].id /\ s1 = R!MaxSo(l, i, j) + 1
      BY <1>3, <2>5 DEF StartId, StartSo
    <3> QED BY <1>4, <2>2, <2>3, <2>5, <3>1 DEF From
  <2> QED BY <2>4, <2>5
<1>13. ms = {} => H <= n1
  BY <1>2, <1>4, <1>11
<1>14. ASSUME NEW m \in ms
       PROVE  /\ m.so_start = s1 /\ (m.next = 0 \/ i < m.next \/ h)
              /\ \E n2 : RunIs(l, B, H, D, m, n1, n2) /\ GoesOn(l, H, m, n1, n2)
  <2>1. Found(l, B, H, D, m, j + 1, n1, s1)
    BY <1>11, <1>14
  <2>2. /\ m.so_start = s1 /\ (m.next = 0 \/ m.next = j + 1)
        /\ \E n2 : RunIs(l, B, H, D, m, n1, n2) /\ GoesOn(l, H, m, n1, n2)
    BY <2>1, Zenon DEF Found
  <2> QED BY <1>7, <2>2
<1>15. NextIs(l, B, H, D, ms, i, h, n1, s1)
  BY <1>4, <1>12, <1>13, <1>14, Zenon DEF NextIs
<1> QED BY <1>3, <1>15

\* The next run, from wherever the loop is.
LEMMA NextRun ==
  ASSUME NEW r, NEW B, NEW H, NEW M, NEW D, Inv(r, B, H, M, D), NEW i \in 1 .. Len(r.rx_list), Fresh(r.rx_list, i),
         NEW h \in BOOLEAN, h => i = 1
  PROVE  \E n1, s1 : NextIs(r.rx_list, B, H, D, R!next_missing(r, i, h), i, h, n1, s1)
<1>1. CASE h /\ HeadMissing(r, i)
  <2>1. i = 1 /\ h = TRUE
    BY <1>1
  <2>2. NextIs(r.rx_list, B, H, D, R!next_missing(r, i, TRUE), i, TRUE, B, 0)
    BY <1>1, <2>1, HeadRun
  <2>3. NextIs(r.rx_list, B, H, D, R!next_missing(r, i, h), i, h, B, 0)
    BY <2>1, <2>2
  <2> QED BY <2>3
<1>2. CASE ~(h /\ HeadMissing(r, i))
  BY <1>2, LaterRun
<1> QED BY <1>1, <1>2

---------------------------------------------------------------------------
(* What NACKs ask for.                                                     *)

\* A NACK that begins with SDU a asks for byte b of SDU n.
Covers(k, a, n, b) ==
  /\ a <= n /\ n < a + k.range
  /\ (n = a => k.so_start <= b) /\ (n = a + k.range - 1 => b <= k.so_end)

\* SNs stand for SDUs within a period of RX_Next.
InPeriod(B, n) == B \in Nat /\ n \in Nat /\ B <= n /\ n < B + SnCount

\* The distance of two SNs less than a period apart.
LEMMA AheadBy ==
  ASSUME NEW x \in Nat, NEW b \in Nat, b <= x, x < b + SnCount
  PROVE  ((x % SnCount) - (b % SnCount)) % SnCount = x - b
<1>1. x - b = SnCount * 0 + (x - b) /\ x - b \in 0 .. (SnCount - 1)
  BY HalfWindow
<1> QED BY <1>1, Distance

\* A NACK asks for what lies between its first and its last SDU.
LEMMA AskIs ==
  ASSUME NEW B, NEW n, InPeriod(B, n), NEW k, NEW a \in Nat, k.sn = a % SnCount, k.range \in Nat,
         B <= a, a + k.range <= B + SnCount, NEW b
  PROVE  Asks(k, n % SnCount, b) <=> Covers(k, a, n, b)
<1>1. B \in Nat /\ n \in Nat /\ B <= n /\ n < B + SnCount /\ SnCount \in Nat
  BY HalfWindow DEF InPeriod
<1>2. PICK u : u = k.range /\ u \in Nat
  OBVIOUS
<1>3. PICK d : d = ((n % SnCount) - k.sn) % SnCount
  OBVIOUS
<1>4. Asks(k, n % SnCount, b) <=> d < u /\ (d = 0 => k.so_start <= b) /\ (d = u - 1 => b <= k.so_end)
  BY <1>2, <1>3, Zenon DEF Asks
<1>5. CASE a <= n
  <2>1. PICK e : e = n - a
    OBVIOUS
  <2>2. e \in 0 .. (SnCount - 1) /\ n < a + SnCount
    BY <1>1, <1>5, <2>1
  <2>3. d = e
    <3>1. ((n % SnCount) - (a % SnCount)) % SnCount = n - a
      BY <1>1, <1>5, <2>2, AheadBy
    <3> QED BY <1>3, <2>1, <3>1
  <2> QED BY <1>1, <1>2, <1>4, <1>5, <2>1, <2>2, <2>3 DEF Covers
<1>6. CASE n < a
  <2>1. PICK e : e = n - a + SnCount
    OBVIOUS
  <2>2. e \in 0 .. (SnCount - 1) /\ n - a = SnCount * (-1) + e /\ -1 \in Int
    BY <1>1, <1>2, <1>6, <2>1
  <2>3. d = e
    <3>1. ((n % SnCount) - (a % SnCount)) % SnCount = e
      BY <1>1, <2>2, Distance
    <3> QED BY <1>3, <3>1
  <2>4. ~(e < u)
    BY <1>1, <1>2, <1>6, <2>1
  <2> QED BY <1>1, <1>4, <1>6, <2>3, <2>4 DEF Covers
<1> QED BY <1>1, <1>5, <1>6

\* Multiples grow.
LEMMA Times ==
  ASSUME NEW u \in Nat, NEW x \in Nat, NEW y \in Nat, x <= y
  PROVE  u * x <= u * y /\ u * x \in Nat /\ u * y \in Nat
<1>1. PICK z : z = y - x /\ z \in Nat
  OBVIOUS
<1>2. u * z \in Nat /\ u * x \in Nat /\ u * y \in Nat
  BY <1>1
<1>3. u * y = u * x + u * z
  BY <1>1
<1> QED BY <1>2, <1>3

\* The NACKs of a run of SDUs n1 to n2: piece i begins MaxNackRange SDUs after the one before.
PiecesAre(m, n1, n2, u, all) ==
  /\ Len(all) \in Nat \ {0} /\ u \in Nat \ {0}
  /\ u * (Len(all) - 1) <= n2 - n1 /\ n2 - n1 < u * Len(all)
  /\ \A i \in 1 .. Len(all) :
       /\ all[i].sn = (n1 + u * (i - 1)) % SnCount
       /\ all[i].so_start = IF i = 1 THEN m.so_start ELSE 0
       /\ all[i].so_end = IF i = Len(all) THEN m.so_end ELSE R!SoEnd
       /\ all[i].range = IF i = Len(all) THEN n2 - n1 + 1 - u * (i - 1) ELSE u

RunFrom(m, n1, n2) ==
  /\ m \in Run /\ n1 \in Nat /\ n2 \in Nat /\ n1 <= n2 /\ n2 < n1 + SnCount
  /\ m.sn_start = n1 % SnCount /\ m.sn_end = n2 % SnCount

\* NacksFor cuts a run into such pieces.
LEMMA PieceIs ==
  ASSUME NEW m, NEW n1, NEW n2, RunFrom(m, n1, n2)
  PROVE  PiecesAre(m, n1, n2, MaxNackRange, R!NacksFor(m))
<1> DEFINE c == ((m.sn_end - m.sn_start) % SnCount) + 1
           u == MaxNackRange
           p == (c + u - 1) \div u
           N(i) == [sn |-> R!Plus(m.sn_start, (i - 1) * u), so_start |-> IF i = 1 THEN m.so_start ELSE 0,
                    so_end |-> IF i = p THEN m.so_end ELSE R!SoEnd,
                    range |-> IF i = p THEN c - (i - 1) * u ELSE u]
<1>0. /\ m \in Run /\ n1 \in Nat /\ n2 \in Nat /\ n1 <= n2 /\ n2 < n1 + SnCount
      /\ m.sn_start = n1 % SnCount /\ m.sn_end = n2 % SnCount
  BY DEF RunFrom
<1>1. c = n2 - n1 + 1
  <2>1. PICK e : e = n2 - n1
    OBVIOUS
  <2>2. e \in 0 .. (SnCount - 1) /\ n2 - n1 = SnCount * 0 + e /\ 0 \in Int
    BY <1>0, <2>1, HalfWindow
  <2>3. (m.sn_end - m.sn_start) % SnCount = e
    BY <1>0, <2>2, Distance
  <2> QED BY <2>1, <2>3
<1>2. R!NacksFor(m) = [i \in 1 .. p |-> N(i)]
  BY Zenon DEF R!NacksFor
<1> HIDE DEF c
<1>3. c \in Nat \ {0} /\ u \in Nat \ {0}
  BY <1>0, <1>1, ReceiverAssumption
<1> HIDE DEF u
<1>4. p \in Nat \ {0} /\ p <= c /\ u * (p - 1) < c /\ c <= u * p /\ u * p = u * (p - 1) + u
  BY <1>3, RoundUp
<1> HIDE DEF p
<1>5. Len(R!NacksFor(m)) = p /\ \A i \in 1 .. p : R!NacksFor(m)[i] = N(i)
  <2>1. Len([i \in 1 .. p |-> N(i)]) = p
    <3> HIDE DEF N
    <3> QED BY <1>4
  <2> QED BY <1>2, <2>1
<1>6. ASSUME NEW i \in 1 .. p
      PROVE  /\ N(i).sn = (n1 + u * (i - 1)) % SnCount
             /\ N(i).so_start = IF i = 1 THEN m.so_start ELSE 0
             /\ N(i).so_end = IF i = p THEN m.so_end ELSE R!SoEnd
             /\ N(i).range = IF i = p THEN n2 - n1 + 1 - u * (i - 1) ELSE u
  <2>1. PICK x : x = (i - 1) * u
    OBVIOUS
  <2>2. x \in Nat /\ x = u * (i - 1)
    BY <1>3, <1>4, <2>1
  <2>3. R!Plus(n1 % SnCount, x) = (n1 + x) % SnCount
    BY <1>0, <2>2, PlusIs
  <2>4. /\ N(i).sn = R!Plus(m.sn_start, x) /\ N(i).so_start = IF i = 1 THEN m.so_start ELSE 0
        /\ N(i).so_end = (IF i = p THEN m.so_end ELSE R!SoEnd) /\ N(i).range = IF i = p THEN c - x ELSE u
    BY <2>1
  <2> HIDE DEF N
  <2> QED BY <1>0, <1>1, <2>2, <2>3, <2>4
<1> HIDE DEF N
<1>7. u * (p - 1) <= n2 - n1 /\ n2 - n1 < u * p
  <2>1. PICK y, v : y = u * (p - 1) /\ v = u * p
    OBVIOUS
  <2>2. y \in Int /\ v \in Int
    BY <1>3, <1>4, <2>1
  <2> QED BY <1>0, <1>1, <1>3, <1>4, <2>1, <2>2
<1>8. PiecesAre(m, n1, n2, u, R!NacksFor(m))
  BY <1>3, <1>4, <1>5, <1>6, <1>7 DEF PiecesAre
<1> QED BY <1>8 DEF u

\* Where a piece begins and ends.
PieceAt(k, m, n1, n2, u, p, i) ==
  /\ n1 + u * (i - 1) \in Nat /\ k.sn = (n1 + u * (i - 1)) % SnCount /\ k.range \in Nat
  /\ n1 <= n1 + u * (i - 1) /\ n1 + u * (i - 1) <= n2 /\ (i > 1 => n1 < n1 + u * (i - 1))
  /\ k.so_start = IF i = 1 THEN m.so_start ELSE 0
  /\ k.so_end = IF i = p THEN m.so_end ELSE R!SoEnd
  /\ n1 + u * (i - 1) + k.range = IF i = p THEN n2 + 1 ELSE n1 + u * i
  /\ (i < p => n1 + u * i <= n2)

\* A piece ends where the next one begins, and the last one with the run.
LEMMA PieceRange ==
  ASSUME NEW m, NEW n1 \in Nat, NEW n2 \in Nat, n1 <= n2, NEW u, NEW all, PiecesAre(m, n1, n2, u, all),
         NEW i \in 1 .. Len(all)
  PROVE  PieceAt(all[i], m, n1, n2, u, Len(all), i)
<1>1. PICK p : p = Len(all)
  OBVIOUS
<1>2. /\ p \in Nat \ {0} /\ u \in Nat \ {0} /\ i \in 1 .. p
      /\ u * (p - 1) <= n2 - n1 /\ n2 - n1 < u * p
      /\ all[i].sn = (n1 + u * (i - 1)) % SnCount
      /\ all[i].so_start = (IF i = 1 THEN m.so_start ELSE 0)
      /\ all[i].so_end = (IF i = p THEN m.so_end ELSE R!SoEnd)
      /\ all[i].range = (IF i = p THEN n2 - n1 + 1 - u * (i - 1) ELSE u)
  BY <1>1 DEF PiecesAre
<1>3. PICK x, y, z : x = u * (i - 1) /\ y = u * i /\ z = u * (p - 1)
  OBVIOUS
<1>4. x \in Nat /\ y \in Nat /\ z \in Nat /\ y = x + u /\ x <= z
  <2>1. x \in Nat /\ z \in Nat /\ x <= z
    BY <1>2, <1>3, Times
  <2>2. y = x + u
    BY <1>2, <1>3
  <2>3. u \in Nat
    BY <1>2
  <2> QED BY <2>1, <2>2, <2>3
<1>5. i < p => y <= z
  BY <1>2, <1>3, Times
<1>6. i > 1 => x > 0
  BY <1>2, <1>3
<1>7. all[i].range = IF i = p THEN n2 - n1 + 1 - x ELSE u
  BY <1>2, <1>3
<1>8. z <= n2 - n1
  BY <1>2, <1>3
<1>9. /\ n1 + x \in Nat /\ all[i].range \in Nat /\ n1 <= n1 + x /\ n1 + x <= n2 /\ (i > 1 => n1 < n1 + x)
      /\ n1 + x + all[i].range = (IF i = p THEN n2 + 1 ELSE n1 + y)
      /\ (i < p => n1 + y <= n2)
  BY <1>2, <1>4, <1>5, <1>6, <1>7, <1>8
<1> QED BY <1>1, <1>2, <1>3, <1>9 DEF PieceAt

\* The first f pieces ask for the run up to where they end.
PutAsks(m, n1, n2, u, p, f, n, b) ==
  /\ From(n1, m.so_start, n, b)
  /\ f < p => n < n1 + u * f
  /\ f = p => UpToPos(n2, m.so_end, n, b)

\* The pieces put ask for the part of the run they reach, and for nothing else.
LEMMA PiecesAsk ==
  ASSUME NEW B, NEW n, InPeriod(B, n), NEW m, NEW n1 \in Nat, NEW n2 \in Nat, n1 <= n2, B <= n1, n2 < B + SnCount,
         NEW u, NEW all, PiecesAre(m, n1, n2, u, all), NEW f \in 0 .. Len(all), NEW b \in 0 .. R!SoEnd
  PROVE  (\E i \in 1 .. f : Asks(all[i], n % SnCount, b)) <=> PutAsks(m, n1, n2, u, Len(all), f, n, b)
<1>1. PICK p : p = Len(all)
  OBVIOUS
<1>2. p \in Nat \ {0} /\ u \in Nat \ {0} /\ n2 - n1 < u * p /\ f \in 0 .. p
  BY <1>1 DEF PiecesAre
<1>3. B \in Nat /\ n \in Nat /\ B <= n /\ n < B + SnCount /\ SnCount \in Nat /\ b \in Nat /\ b <= R!SoEnd
  BY HalfWindow DEF InPeriod, R!SoEnd
<1>4. ASSUME NEW i \in 1 .. p
      PROVE  /\ PieceAt(all[i], m, n1, n2, u, p, i)
             /\ Asks(all[i], n % SnCount, b) <=> Covers(all[i], n1 + u * (i - 1), n, b)
  <2>1. PieceAt(all[i], m, n1, n2, u, p, i)
    BY <1>1, PieceRange
  <2>2. PICK x, y, k : x = n1 + u * (i - 1) /\ y = n1 + u * i /\ k = all[i]
    OBVIOUS
  <2>3. /\ x \in Nat /\ k.sn = x % SnCount /\ k.range \in Nat /\ n1 <= x
        /\ x + k.range = (IF i = p THEN n2 + 1 ELSE y) /\ (i < p => y <= n2)
    BY <2>1, <2>2 DEF PieceAt
  <2>4. B <= x /\ x + k.range <= B + SnCount
    <3>1. CASE i = p
      BY <1>3, <2>3, <3>1
    <3>2. CASE i < p
      BY <1>3, <2>3, <3>2
    <3> QED BY <1>2, <3>1, <3>2
  <2>5. Asks(k, n % SnCount, b) <=> Covers(k, x, n, b)
    BY <2>3, <2>4, AskIs
  <2> QED BY <2>1, <2>2, <2>5
<1>5. ASSUME NEW i \in 1 .. f, Asks(all[i], n % SnCount, b) PROVE PutAsks(m, n1, n2, u, p, f, n, b)
  <2>1. i \in 1 .. p /\ i <= f
    BY <1>2
  <2>2. PieceAt(all[i], m, n1, n2, u, p, i) /\ Covers(all[i], n1 + u * (i - 1), n, b)
    BY <1>4, <1>5, <2>1
  <2>3. PICK x, y, k : x = n1 + u * (i - 1) /\ y = n1 + u * i /\ k = all[i]
    OBVIOUS
  <2>4. /\ x \in Nat /\ k.range \in Nat /\ n1 <= x /\ (i > 1 => n1 < x)
        /\ k.so_start = (IF i = 1 THEN m.so_start ELSE 0) /\ k.so_end = (IF i = p THEN m.so_end ELSE R!SoEnd)
        /\ x + k.range = (IF i = p THEN n2 + 1 ELSE y) /\ (i < p => y <= n2)
    BY <2>2, <2>3 DEF PieceAt
  <2>5. /\ x <= n /\ n < x + k.range
        /\ (n = x => k.so_start <= b) /\ (n = x + k.range - 1 => b <= k.so_end)
    BY <2>2, <2>3 DEF Covers
  <2>6. From(n1, m.so_start, n, b)
    <3>1. CASE i = 1
      <4>1. x = n1
        BY <1>2, <2>3, <3>1
      <4> QED BY <1>3, <2>4, <2>5, <3>1, <4>1 DEF From
    <3>2. CASE i > 1
      BY <1>3, <2>4, <2>5, <3>2 DEF From
    <3> QED BY <2>1, <3>1, <3>2
  <2>7. ASSUME f < p PROVE n < n1 + u * f
    <3>1. i # p
      BY <1>2, <2>1, <2>7
    <3>2. n < y
      BY <2>4, <2>5, <3>1
    <3>3. u * i <= u * f /\ u * i \in Nat /\ u * f \in Nat
      BY <1>2, <2>1, Times
    <3> QED BY <1>3, <2>3, <3>2, <3>3
  <2>8. ASSUME f = p PROVE UpToPos(n2, m.so_end, n, b)
    <3>1. CASE i = p
      <4>1. n < n2 + 1 /\ (n = n2 => b <= m.so_end)
        BY <2>4, <2>5, <3>1
      <4> QED BY <1>3, <4>1 DEF UpToPos
    <3>2. CASE i < p
      <4>1. n < y /\ y <= n2
        BY <2>4, <2>5, <3>2
      <4>2. y \in Nat
        BY <1>2, <2>3
      <4> QED BY <1>3, <4>1, <4>2 DEF UpToPos
    <3> QED BY <1>2, <2>1, <3>1, <3>2
  <2> QED BY <2>6, <2>7, <2>8 DEF PutAsks
<1>6. ASSUME PutAsks(m, n1, n2, u, p, f, n, b) PROVE \E i \in 1 .. f : Asks(all[i], n % SnCount, b)
  <2>1. From(n1, m.so_start, n, b) /\ (f < p => n < n1 + u * f) /\ (f = p => UpToPos(n2, m.so_end, n, b))
    BY <1>6 DEF PutAsks
  <2>2. n1 <= n /\ (n = n1 => m.so_start <= b)
    BY <1>3, <2>1 DEF From
  <2>3. PICK t : t = n - n1 /\ t \in Nat /\ t \in Int
    BY <1>3, <2>2
  <2>4. PICK q \in Int : t = u * q + (t % u) /\ t % u \in 0 .. (u - 1)
    BY <1>2, <2>3, Quotient, Zenon
  <2>5. PICK d : d = t % u
    OBVIOUS
  <2>6. t = u * q + d /\ d \in Nat /\ d < u
    BY <1>2, <2>4, <2>5
  <2>7. q >= 0
    <3> SUFFICES ASSUME q <= -1 PROVE FALSE
      OBVIOUS
    <3>1. u * q <= -u
      BY <1>2
    <3>2. PICK v : v = u * q /\ v \in Int
      BY <1>2
    <3> QED BY <1>2, <2>3, <2>6, <3>1, <3>2
  <2>8. PICK v : v = u * q /\ v \in Nat
    BY <1>2, <2>7
  <2>9. q < f
    <3> SUFFICES ASSUME f <= q PROVE FALSE
      BY <1>2
    <3>1. u * f <= v /\ u * f \in Nat
      BY <1>2, <2>7, <2>8, Times
    <3>2. t < u * f
      <4>1. CASE f < p
        BY <1>2, <1>3, <2>1, <2>3, <3>1, <4>1
      <4>2. CASE f = p
        <5>1. n <= n2
          BY <1>3, <2>1, <4>2 DEF UpToPos
        <5> QED BY <1>2, <1>3, <2>3, <3>1, <4>2, <5>1
      <4> QED BY <1>2, <4>1, <4>2
    <3> QED BY <2>3, <2>6, <2>8, <3>1, <3>2
  <2>10. PICK i : i = q + 1
    OBVIOUS
  <2>11. i \in 1 .. f /\ i \in 1 .. p /\ i - 1 = q
    BY <1>2, <2>7, <2>9, <2>10
  <2>12. PICK x, y, k : x = n1 + u * (i - 1) /\ y = n1 + u * i /\ k = all[i]
    OBVIOUS
  <2>13. /\ x \in Nat /\ k.range \in Nat /\ n1 <= x /\ (i > 1 => n1 < x)
         /\ k.so_start = (IF i = 1 THEN m.so_start ELSE 0) /\ k.so_end = (IF i = p THEN m.so_end ELSE R!SoEnd)
         /\ x + k.range = (IF i = p THEN n2 + 1 ELSE y) /\ (i < p => y <= n2)
    BY <1>4, <2>11, <2>12 DEF PieceAt
  <2>14. x = n1 + v /\ y = n1 + v + u
    BY <1>2, <2>8, <2>11, <2>12
  <2>15. x <= n /\ n < y
    BY <1>2, <1>3, <2>3, <2>6, <2>8, <2>14
  <2>16. i = p => f = p
    BY <1>2, <2>11
  <2>17. n < x + k.range
    <3>1. CASE i = p
      BY <1>3, <2>1, <2>13, <2>16, <3>1 DEF UpToPos
    <3>2. CASE i # p
      BY <2>13, <2>15, <3>2
    <3> QED BY <3>1, <3>2
  <2>18. n = x => k.so_start <= b
    <3>1. CASE i = 1
      <4>1. x = n1
        BY <1>2, <2>12, <3>1
      <4> QED BY <2>2, <2>13, <3>1, <4>1
    <3>2. CASE i # 1
      BY <1>3, <2>13, <3>2
    <3> QED BY <3>1, <3>2
  <2>19. n = x + k.range - 1 => b <= k.so_end
    <3>1. CASE i = p
      BY <1>3, <2>1, <2>13, <2>16, <3>1 DEF UpToPos
    <3>2. CASE i # p
      BY <1>3, <2>13, <3>2
    <3> QED BY <3>1, <3>2
  <2>20. Covers(k, x, n, b)
    BY <2>15, <2>17, <2>18, <2>19 DEF Covers
  <2>21. Asks(all[i], n % SnCount, b)
    BY <1>4, <2>11, <2>12, <2>20
  <2> QED BY <2>11, <2>21
<1> QED BY <1>1, <1>5, <1>6

AskedBy(nacks, n, b) == \E i \in 1 .. Len(nacks) : Asks(nacks[i], n % SnCount, b)

\* NACKs put after others, and the last one of them.
PutAfter(nacks, all, f, put) ==
  /\ put \in Seq(Nack) /\ Len(put) = Len(nacks) + f
  /\ (f > 0 => put[Len(put)] = all[f]) /\ (f = 0 => put = nacks)
  /\ \A sn, b : (\E i \in 1 .. Len(put) : Asks(put[i], sn, b)) <=>
                  \/ \E i \in 1 .. Len(nacks) : Asks(nacks[i], sn, b)
                  \/ \E i \in 1 .. f : Asks(all[i], sn, b)

\* NACKs put after others are asked for as well.
LEMMA PutIs ==
  ASSUME NEW nacks \in Seq(Nack), NEW all \in Seq(Nack), NEW f \in 0 .. Len(all)
  PROVE  PutAfter(nacks, all, f, nacks \o SubSeq(all, 1, f))
<1>1. PICK s, t : s = SubSeq(all, 1, f) /\ t = nacks \o s
  OBVIOUS
<1>2. s \in Seq(Nack) /\ Len(s) = f /\ \A i \in 1 .. f : s[i] = all[i]
  BY <1>1, PrefixIs
<1>3. PICK x : x = Len(nacks)
  OBVIOUS
<1>4. x \in Nat /\ f \in Nat
  BY <1>3
<1>5. /\ t \in Seq(Nack) /\ Len(t) = x + f /\ \A i \in 1 .. x : t[i] = nacks[i]
      /\ \A i \in (x + 1) .. (x + f) : t[i] = s[i - x]
  BY <1>1, <1>2, <1>3
<1>6. \A i \in 1 .. f : t[x + i] = all[i]
  <2> SUFFICES ASSUME NEW i \in 1 .. f PROVE t[x + i] = all[i]
    OBVIOUS
  <2>1. x + i \in (x + 1) .. (x + f) /\ (x + i) - x = i
    BY <1>4
  <2> QED BY <1>2, <1>5, <2>1
<1>7. f > 0 => t[Len(t)] = all[f]
  BY <1>4, <1>5, <1>6
<1>8. f = 0 => t = nacks
  BY <1>3, <1>4, <1>5
<1>9. ASSUME NEW sn, NEW b
      PROVE  (\E i \in 1 .. Len(t) : Asks(t[i], sn, b)) <=>
               \/ \E i \in 1 .. Len(nacks) : Asks(nacks[i], sn, b)
               \/ \E i \in 1 .. f : Asks(all[i], sn, b)
  <2>1. ASSUME NEW i \in 1 .. Len(t), Asks(t[i], sn, b)
        PROVE  (\E j \in 1 .. Len(nacks) : Asks(nacks[j], sn, b)) \/ (\E j \in 1 .. f : Asks(all[j], sn, b))
    <3>1. CASE i \in 1 .. x
      BY <1>3, <1>5, <2>1, <3>1
    <3>2. CASE i > x
      <4>1. i - x \in 1 .. f /\ i = x + (i - x)
        BY <1>4, <1>5, <3>2
      <4>2. t[i] = all[i - x]
        BY <1>6, <4>1
      <4> QED BY <2>1, <4>1, <4>2
    <3> QED BY <1>4, <1>5, <3>1, <3>2
  <2>2. ASSUME NEW i \in 1 .. Len(nacks), Asks(nacks[i], sn, b) PROVE \E j \in 1 .. Len(t) : Asks(t[j], sn, b)
    <3>1. i \in 1 .. Len(t) /\ t[i] = nacks[i]
      BY <1>3, <1>4, <1>5
    <3> QED BY <2>2, <3>1
  <2>3. ASSUME NEW i \in 1 .. f, Asks(all[i], sn, b) PROVE \E j \in 1 .. Len(t) : Asks(t[j], sn, b)
    <3>1. x + i \in 1 .. Len(t) /\ t[x + i] = all[i]
      BY <1>4, <1>5, <1>6
    <3> QED BY <2>3, <3>1
  <2> QED BY <2>1, <2>2, <2>3, Zenon
<1>10. PutAfter(nacks, all, f, t)
  BY <1>3, <1>5, <1>7, <1>8, <1>9, Zenon DEF PutAfter
<1> QED BY <1>1, <1>10

\* A stretched NACK asks for no less.
Stretched(put, t) ==
  /\ t \in Seq(Nack) /\ Len(t) = Len(put)
  /\ Len(put) > 0 => /\ t[Len(t)].sn = put[Len(put)].sn /\ t[Len(t)].range = put[Len(put)].range
                     /\ t[Len(t)].so_start = put[Len(put)].so_start /\ t[Len(t)].so_end = R!SoEnd
  /\ \A sn : \A b \in 0 .. R!SoEnd : (\E i \in 1 .. Len(put) : Asks(put[i], sn, b)) => \E i \in 1 .. Len(t) : Asks(t[i], sn, b)

\* StretchLast makes the last NACK reach to the end of its SDU.
LEMMA StretchAsks ==
  ASSUME NEW put \in Seq(Nack)
  PROVE  Stretched(put, R!StretchLast(put))
<1>1. PICK t : t = R!StretchLast(put)
  OBVIOUS
<1>2. /\ t \in Seq(Nack) /\ Len(t) = Len(put)
      /\ \A i \in 1 .. Len(put) : t[i] = put[i] \/ (i = Len(put) /\ t[i] = [put[i] EXCEPT !.so_end = R!SoEnd])
      /\ Len(put) > 0 => t[Len(put)] = [put[Len(put)] EXCEPT !.so_end = R!SoEnd] \/ put[Len(put)].so_end = R!SoEnd
  BY <1>1, StretchIs
<1>3. ASSUME NEW k \in Nack
      PROVE  LET e == [k EXCEPT !.so_end = R!SoEnd]
             IN  e.sn = k.sn /\ e.range = k.range /\ e.so_start = k.so_start /\ e.so_end = R!SoEnd
  BY DEF Nack
<1>4. Len(put) \in Nat /\ \A i \in 1 .. Len(put) : put[i] \in Nack
  OBVIOUS
<1>5. ASSUME Len(put) > 0
      PROVE  /\ t[Len(t)].sn = put[Len(put)].sn /\ t[Len(t)].range = put[Len(put)].range
             /\ t[Len(t)].so_start = put[Len(put)].so_start /\ t[Len(t)].so_end = R!SoEnd
  <2>1. PICK x : x = Len(put)
    OBVIOUS
  <2>2. x \in 1 .. Len(put) /\ put[x] \in Nack
    BY <1>4, <1>5, <2>1
  <2>3. t[x] = put[x] \/ t[x] = [put[x] EXCEPT !.so_end = R!SoEnd]
    BY <1>2, <2>2
  <2>4. t[x] = [put[x] EXCEPT !.so_end = R!SoEnd] \/ put[x].so_end = R!SoEnd
    BY <1>2, <1>5, <2>1
  <2>5. t[x].sn = put[x].sn /\ t[x].range = put[x].range /\ t[x].so_start = put[x].so_start /\ t[x].so_end = R!SoEnd
    BY <1>3, <2>2, <2>3, <2>4
  <2> QED BY <1>2, <2>1, <2>5
<1>6. ASSUME NEW sn, NEW b \in 0 .. R!SoEnd, NEW i \in 1 .. Len(put), Asks(put[i], sn, b) PROVE Asks(t[i], sn, b)
  <2>1. CASE t[i] = put[i]
    BY <1>6, <2>1
  <2>2. CASE t[i] = [put[i] EXCEPT !.so_end = R!SoEnd]
    <3>1. t[i].sn = put[i].sn /\ t[i].range = put[i].range /\ t[i].so_start = put[i].so_start /\ t[i].so_end = R!SoEnd
      BY <1>3, <1>4, <2>2
    <3>2. b <= R!SoEnd
      BY DEF R!SoEnd
    <3> QED BY <1>6, <3>1, <3>2, Zenon DEF Asks
  <2> QED BY <1>2, <2>1, <2>2
<1>7. Stretched(put, t)
  BY <1>2, <1>5, <1>6, Zenon DEF Stretched
<1> QED BY <1>1, <1>7

---------------------------------------------------------------------------
(* The rounds of generate_status.                                          *)

\* What the loop has still to look at, and where it is.
Left(l, g, n, b) == g.next # 0 /\ Since(l, g.next, g.head, n, b)
AtPlace(l, g) ==
  /\ g.next # 0 => Fresh(l, g.next)
  /\ g.head => (g.next = 0 \/ g.next = 1) /\ g.nacks = <<>>

\* Nothing below RX_Highest_Status is left.
NothingLeft(l, B, H, D, g) ==
  \A n \in Nat : B <= n => \A b \in Nat : Lost(l, D, n, b) /\ Left(l, g, n, b) => H <= n

\* A run of missing bytes, the first that is left, and its NACKs.
RoundOf(l, B, H, D, g, m, n1, n2, all) ==
  /\ RunIs(l, B, H, D, m, n1, n2) /\ GoesOn(l, H, m, n1, n2) /\ PiecesAre(m, n1, n2, MaxNackRange, all)
  /\ \A n \in Nat : B <= n => \A b \in Nat : Lost(l, D, n, b) /\ Left(l, g, n, b) => From(n1, m.so_start, n, b)
  /\ m.next = 0 \/ g.next < m.next \/ g.head

Ended(g, h) == h.next = 0 /\ h.head = g.head /\ h.nacks = g.nacks /\ h.byte = g.byte

\* A round ends the loop, with nothing left, or is about the first run that is left.
LEMMA RoundIs ==
  ASSUME NEW r, NEW B, NEW H, NEW M, NEW D, Inv(r, B, H, M, D), NEW g \in Gen(r), AtPlace(r.rx_list, g),
         NEW size \in Nat, NEW h, h = R!NextNacks(r, g, size)
  PROVE  \/ Ended(g, h) /\ NothingLeft(r.rx_list, B, H, D, g)
         \/ /\ g.next # 0
            /\ \E m, n1, n2, all : /\ RoundOf(r.rx_list, B, H, D, g, m, n1, n2, all)
                                   /\ Generated(g, m, size, all, R!Fitting(g.byte, all, size), h)
<1> DEFINE l == r.rx_list
<1>1. r \in RxState /\ ListOk(l, B, M) /\ Numbers(r, B, H, M) /\ Len(l) \in Nat
  <2>1. r \in RxState /\ ListOk(l, B, M) /\ Numbers(r, B, H, M)
    BY DEF Inv, Inv0, ListInv
  <2> QED BY <2>1, FitsIs
<1>2. g.next \in 0 .. Len(l) /\ g.head \in BOOLEAN
  BY DEF Gen
<1>3. Idle(r, g.next, g.head) => Ended(g, h)
  <2>1. Idle(r, g.next, g.head) => h = [g EXCEPT !.next = 0]
    BY <1>1, GenStepIs
  <2> QED BY <2>1 DEF Gen, Ended
<1>4. ASSUME g.next = 0 PROVE Ended(g, h) /\ NothingLeft(l, B, H, D, g)
  BY <1>3, <1>4 DEF Idle, NothingLeft, Left
<1>5. ASSUME g.next # 0
      PROVE  \/ Ended(g, h) /\ NothingLeft(r.rx_list, B, H, D, g)
             \/ \E m, n1, n2, all : /\ RoundOf(r.rx_list, B, H, D, g, m, n1, n2, all)
                                    /\ Generated(g, m, size, all, R!Fitting(g.byte, all, size), h)
  <2>1. PICK i, c : i = g.next /\ c = g.head
    OBVIOUS
  <2>2. i \in 1 .. Len(l) /\ Fresh(l, i) /\ c \in BOOLEAN /\ (c => i = 1)
    BY <1>1, <1>2, <1>5, <2>1 DEF AtPlace
  <2>3. PICK n1, s1 : NextIs(l, B, H, D, R!next_missing(r, i, c), i, c, n1, s1)
    BY <2>2, NextRun
  <2>4. PICK ms : ms = R!next_missing(r, i, c)
    OBVIOUS
  <2>5. /\ n1 \in Nat /\ s1 \in Nat /\ B <= n1
        /\ \A n \in Nat : B <= n => \A b \in Nat : Lost(l, D, n, b) /\ Since(l, i, c, n, b) => From(n1, s1, n, b)
        /\ ms = {} => H <= n1
        /\ \A m \in ms : /\ m.so_start = s1 /\ (m.next = 0 \/ i < m.next \/ c)
                         /\ \E n2 : RunIs(l, B, H, D, m, n1, n2) /\ GoesOn(l, H, m, n1, n2)
    BY <2>3, <2>4, Zenon DEF NextIs
  <2>6. CASE ms = {}
    <3>1. Ended(g, h)
      BY <1>3, <2>1, <2>4, <2>6 DEF Idle
    <3>2. ASSUME NEW n \in Nat, B <= n, NEW b \in Nat, Lost(l, D, n, b), Left(l, g, n, b) PROVE H <= n
      <4>1. Since(l, i, c, n, b)
        BY <2>1, <3>2 DEF Left
      <4>2. From(n1, s1, n, b) /\ H <= n1
        BY <2>5, <2>6, <3>2, <4>1
      <4>3. H \in Nat
        BY <1>1 DEF Numbers
      <4> QED BY <2>5, <4>2, <4>3 DEF From
    <3> QED BY <3>1, <3>2, Zenon DEF NothingLeft
  <2>7. CASE ms # {}
    <3>1. ~Idle(r, g.next, g.head)
      BY <1>5, <2>1, <2>4, <2>7 DEF Idle
    <3>2. PICK m : m = Chosen(r, g.next, g.head)
      OBVIOUS
    <3>3. m \in ms /\ m \in Run /\ h = R!generate_missing(g, m, size)
      BY <1>1, <1>2, <2>1, <2>4, <3>1, <3>2, GenStepIs, ChosenIs
    <3>4. PICK all : all = R!NacksFor(m)
      OBVIOUS
    <3>5. Generated(g, m, size, all, R!Fitting(g.byte, all, size), h)
      BY <3>3, <3>4, GenerateIs, Zenon
    <3>6. m.so_start = s1 /\ (m.next = 0 \/ i < m.next \/ c)
      BY <2>5, <3>3
    <3>7. PICK n2 : RunIs(l, B, H, D, m, n1, n2) /\ GoesOn(l, H, m, n1, n2)
      BY <2>5, <3>3
    <3>8. RunFrom(m, n1, n2)
      <4>1. /\ n2 \in Nat /\ B <= n1 /\ n1 <= n2 /\ n2 < H /\ m.sn_start = n1 % SnCount /\ m.sn_end = n2 % SnCount
        BY <3>7 DEF RunIs
      <4>2. B \in Nat /\ H \in Nat /\ H <= B + W
        BY <1>1, HalfWindow DEF Numbers
      <4>3. n2 < n1 + SnCount
        BY <2>5, <4>1, <4>2, HalfWindow
      <4> QED BY <2>5, <3>3, <4>1, <4>3 DEF RunFrom
    <3>9. PiecesAre(m, n1, n2, MaxNackRange, all)
      BY <3>4, <3>8, PieceIs
    <3>10. \A n \in Nat : B <= n => \A b \in Nat : Lost(l, D, n, b) /\ Left(l, g, n, b) => From(n1, m.so_start, n, b)
      <4> SUFFICES ASSUME NEW n \in Nat, B <= n, NEW b \in Nat, Lost(l, D, n, b), Left(l, g, n, b)
                   PROVE  From(n1, m.so_start, n, b)
        BY Zenon
      <4>1. Since(l, i, c, n, b)
        BY <2>1 DEF Left
      <4>2. From(n1, s1, n, b)
        BY <2>5, <4>1
      <4> QED BY <3>6, <4>2
    <3>11. RoundOf(l, B, H, D, g, m, n1, n2, all)
      BY <2>1, <3>6, <3>7, <3>9, <3>10, Zenon DEF RoundOf
    <3> QED BY <3>5, <3>11, Zenon
  <2> QED BY <2>6, <2>7
<1> QED BY <1>4, <1>5, Zenon

Place(B, n, b) == InPeriod(B, n) /\ b \in 0 .. SizeOf(n)

\* A position of an SDU fits into the SO fields.
LEMMA PlaceIs ==
  ASSUME NEW B, NEW n, NEW b, Place(B, n, b)
  PROVE  /\ InPeriod(B, n) /\ B \in Nat /\ n \in Nat /\ B <= n /\ n < B + SnCount
         /\ b \in Nat /\ b <= R!SoEnd /\ b \in 0 .. R!SoEnd /\ b \in 0 .. SizeOf(n)
<1>1. InPeriod(B, n) /\ B \in Nat /\ n \in Nat /\ B <= n /\ n < B + SnCount /\ b \in 0 .. SizeOf(n)
  BY DEF Place, InPeriod
<1>2. SizeOf(n) \in Nat /\ SizeOf(n) <= SduSize
  BY <1>1, SizeOfIs
<1>3. SduSize \in Nat /\ SduSize <= R!SoEnd /\ R!SoEnd \in Nat
  BY ReceiverAssumption DEF R!SoEnd
<1>4. b \in Nat /\ b <= R!SoEnd /\ b \in 0 .. R!SoEnd
  BY <1>1, <1>2, <1>3
<1> QED BY <1>1, <1>4

\* A round of the loop: the run, its NACKs and the number of them that are put.
Round(r, B, H, M, D, g, size, m, n1, n2, all, f, put, h) ==
  /\ Inv(r, B, H, M, D) /\ g \in Gen(r) /\ g.next # 0 /\ AtPlace(r.rx_list, g)
  /\ RoundOf(r.rx_list, B, H, D, g, m, n1, n2, all) /\ Generated(g, m, size, all, f, h)
  /\ put = g.nacks \o SubSeq(all, 1, f)

\* What a round puts, and what is asked for after it.
LEMMA RoundFacts ==
  ASSUME NEW r, NEW B, NEW H, NEW M, NEW D, NEW g, NEW size, NEW m, NEW n1, NEW n2, NEW all, NEW f, NEW put, NEW h,
         Round(r, B, H, M, D, g, size, m, n1, n2, all, f, put, h)
  PROVE  /\ n1 \in Nat /\ n2 \in Nat /\ B \in Nat /\ H \in Nat /\ B <= n1 /\ n1 <= n2 /\ n2 < H /\ n2 < B + SnCount
         /\ H <= B + W /\ f \in 0 .. Len(all) /\ Len(all) \in Nat \ {0} /\ PutAfter(g.nacks, all, f, put)
         /\ \A n, b : Place(B, n, b) => (AskedBy(put, n, b) <=>
              AskedBy(g.nacks, n, b) \/ PutAsks(m, n1, n2, MaxNackRange, Len(all), f, n, b))
<1>1. /\ g \in Gen(r) /\ RunIs(r.rx_list, B, H, D, m, n1, n2) /\ PiecesAre(m, n1, n2, MaxNackRange, all)
      /\ all \in Seq(Nack) /\ f \in 0 .. Len(all) /\ Numbers(r, B, H, M) /\ put = g.nacks \o SubSeq(all, 1, f)
  BY DEF Round, RoundOf, Generated, Inv, Inv0
<1>2. /\ n1 \in Nat /\ n2 \in Nat /\ B \in Nat /\ H \in Nat /\ B <= n1 /\ n1 <= n2 /\ n2 < H /\ H <= B + W
  BY <1>1, HalfWindow DEF RunIs, Numbers
<1>3. n2 < B + SnCount
  BY <1>2, HalfWindow
<1>4. Len(all) \in Nat \ {0} /\ g.nacks \in Seq(Nack)
  BY <1>1 DEF PiecesAre, Gen
<1>5. PutAfter(g.nacks, all, f, put)
  BY <1>1, <1>4, PutIs
<1>6. ASSUME NEW n, NEW b, Place(B, n, b)
      PROVE  AskedBy(put, n, b) <=>
               AskedBy(g.nacks, n, b) \/ PutAsks(m, n1, n2, MaxNackRange, Len(all), f, n, b)
  <2>1. InPeriod(B, n) /\ b \in 0 .. R!SoEnd
    BY <1>6, PlaceIs
  <2>2. (\E i \in 1 .. f : Asks(all[i], n % SnCount, b)) <=> PutAsks(m, n1, n2, MaxNackRange, Len(all), f, n, b)
    BY <1>1, <1>2, <1>3, <2>1, PiecesAsk
  <2>3. AskedBy(put, n, b) <=> AskedBy(g.nacks, n, b) \/ \E i \in 1 .. f : Asks(all[i], n % SnCount, b)
    BY <1>5, Zenon DEF PutAfter, AskedBy
  <2> QED BY <2>2, <2>3, Zenon
<1> QED BY <1>1, <1>2, <1>3, <1>4, <1>5, <1>6, Zenon

\* When all NACKs of a run are put, what was left is asked for or left.
AllPut(l, B, H, D, g, m, put, h) ==
  /\ h.next = m.next /\ h.head = FALSE /\ h.nacks = put /\ AtPlace(l, h)
  /\ \A n, b : Place(B, n, b) /\ n < H /\ Lost(l, D, n, b) /\ Left(l, g, n, b) => AskedBy(put, n, b) \/ Left(l, h, n, b)

\* Then the loop goes on after the run.
LEMMA RoundAll ==
  ASSUME NEW r, NEW B, NEW H, NEW M, NEW D, NEW g, NEW size, NEW m, NEW n1, NEW n2, NEW all, NEW f, NEW put, NEW h,
         Round(r, B, H, M, D, g, size, m, n1, n2, all, f, put, h), f = Len(all)
  PROVE  AllPut(r.rx_list, B, H, D, g, m, put, h)
<1> DEFINE l == r.rx_list
<1>1. /\ GoesOn(l, H, m, n1, n2)
      /\ \A n \in Nat : B <= n => \A b \in Nat : Lost(l, D, n, b) /\ Left(l, g, n, b) => From(n1, m.so_start, n, b)
      /\ h.next = (IF f < Len(all) THEN 0 ELSE m.next) /\ h.head = FALSE
      /\ h.nacks = (IF f < Len(all) THEN R!StretchLast(put) ELSE put)
  BY DEF Round, RoundOf, Generated
<1>2. /\ n1 \in Nat /\ n2 \in Nat /\ H \in Nat /\ f \in Nat
      /\ \A n, b : Place(B, n, b) => (AskedBy(put, n, b) <=>
              AskedBy(g.nacks, n, b) \/ PutAsks(m, n1, n2, MaxNackRange, Len(all), f, n, b))
  BY RoundFacts, Zenon
<1>3. h.next = m.next /\ h.nacks = put /\ ~(f < Len(all))
  BY <1>1, <1>2
<1>4. AtPlace(l, h)
  BY <1>1, <1>3 DEF AtPlace, GoesOn
<1>5. ASSUME NEW n, NEW b, Place(B, n, b), n < H, Lost(l, D, n, b), Left(l, g, n, b)
      PROVE  AskedBy(put, n, b) \/ Left(l, h, n, b)
  <2>1. n \in Nat /\ B <= n /\ b \in Nat /\ b <= R!SoEnd /\ R!SoEnd \in Nat
    <3>1. n \in Nat /\ B <= n /\ b \in Nat /\ b <= R!SoEnd
      BY <1>5, PlaceIs
    <3> QED BY <3>1 DEF R!SoEnd
  <2>2. From(n1, m.so_start, n, b)
    BY <1>1, <1>5, <2>1
  <2>3. CASE UpToPos(n2, m.so_end, n, b)
    <3>1. PutAsks(m, n1, n2, MaxNackRange, Len(all), f, n, b)
      BY <1>3, <2>2, <2>3, Zenon DEF PutAsks
    <3> QED BY <1>2, <1>5, <3>1
  <2>4. CASE ~UpToPos(n2, m.so_end, n, b)
    <3>1. m.next # 0
      <4> SUFFICES ASSUME m.next = 0 PROVE FALSE
        OBVIOUS
      <4>1. n2 = H - 1 /\ m.so_end = R!SoEnd
        BY <1>1 DEF GoesOn
      <4> QED BY <1>2, <1>5, <2>1, <2>4, <4>1 DEF UpToPos
    <3>2. AtOrAfter(l[m.next], n, b)
      BY <1>1, <2>1, <2>4, <3>1 DEF GoesOn
    <3> QED BY <1>1, <1>3, <3>1, <3>2 DEF Left, Since
  <2> QED BY <2>3, <2>4
<1> QED BY <1>1, <1>3, <1>4, <1>5, Zenon DEF AllPut

---------------------------------------------------------------------------
\* Given enough room: what has been asked for is lost, and what is lost is asked for or left.
Exact(l, B, H, D, g) ==
  /\ AtPlace(l, g)
  /\ \A n, b : Place(B, n, b) => /\ AskedBy(g.nacks, n, b) => n < H /\ Lost(l, D, n, b)
                                 /\ n < H /\ Lost(l, D, n, b) => AskedBy(g.nacks, n, b) \/ Left(l, g, n, b)

\* A round with room for a NACK of every SN puts all NACKs of its run.
LEMMA ExactStep ==
  ASSUME NEW r, NEW B, NEW H, NEW M, NEW D, Inv(r, B, H, M, D), NEW g \in Gen(r), Exact(r.rx_list, B, H, D, g),
         NEW size \in Nat, g.byte + 8 * SnCount <= size, NEW h, h = R!NextNacks(r, g, size)
  PROVE  Exact(r.rx_list, B, H, D, h) /\ h.byte \in Nat /\ h.byte <= g.byte + 8 * SnCount
<1> DEFINE l == r.rx_list
<1>1. /\ AtPlace(l, g) /\ g.byte \in Nat /\ SnCount \in Nat
      /\ \A n, b : Place(B, n, b) => /\ AskedBy(g.nacks, n, b) => n < H /\ Lost(l, D, n, b)
                                     /\ n < H /\ Lost(l, D, n, b) => AskedBy(g.nacks, n, b) \/ Left(l, g, n, b)
  BY HalfWindow DEF Exact, Gen
<1>2. ASSUME Ended(g, h), NothingLeft(l, B, H, D, g)
      PROVE  Exact(l, B, H, D, h) /\ h.byte \in Nat /\ h.byte <= g.byte + 8 * SnCount
  <2>1. h.next = 0 /\ h.head = g.head /\ h.nacks = g.nacks /\ h.byte = g.byte
    BY <1>2 DEF Ended
  <2>2. AtPlace(l, h)
    BY <1>1, <2>1 DEF AtPlace
  <2>3. ASSUME NEW n, NEW b, Place(B, n, b), n < H, Lost(l, D, n, b) PROVE AskedBy(g.nacks, n, b)
    <3>1. n \in Nat /\ B <= n /\ b \in Nat
      BY <2>3, PlaceIs
    <3>2. ~(H <= n)
      <4>1. H \in Nat
        BY DEF Inv, Inv0, Numbers
      <4> QED BY <2>3, <3>1, <4>1
    <3>3. ~Left(l, g, n, b)
      BY <1>2, <2>3, <3>1, <3>2 DEF NothingLeft
    <3> QED BY <1>1, <2>3, <3>3
  <2>4. Exact(l, B, H, D, h)
    BY <1>1, <2>1, <2>2, <2>3, Zenon DEF Exact
  <2> QED BY <1>1, <2>1, <2>4
<1>3. ASSUME g.next # 0, NEW m, NEW n1, NEW n2, NEW all, RoundOf(l, B, H, D, g, m, n1, n2, all),
             Generated(g, m, size, all, R!Fitting(g.byte, all, size), h)
      PROVE  Exact(l, B, H, D, h) /\ h.byte \in Nat /\ h.byte <= g.byte + 8 * SnCount
  <2>1. PICK f, put : f = R!Fitting(g.byte, all, size) /\ put = g.nacks \o SubSeq(all, 1, f)
    OBVIOUS
  <2>2. Round(r, B, H, M, D, g, size, m, n1, n2, all, f, put, h)
    BY <1>1, <1>3, <2>1, Zenon DEF Round
  <2>3. all \in Seq(Nack) /\ Len(all) \in 1 .. SnCount /\ h.byte = R!ByteAfter(g.byte, all, f)
    BY <1>3, <2>1 DEF Generated
  <2>4. Len(all) \in Nat /\ Len(all) <= SnCount /\ f \in 0 .. Len(all)
    <3>1. f \in 0 .. Len(all)
      BY <1>1, <2>1, <2>3, FittingIs
    <3> QED BY <1>1, <2>3, <3>1
  <2>5. \A n \in 0 .. Len(all) : R!ByteAfter(g.byte, all, n) \in Nat /\ R!ByteAfter(g.byte, all, n) <= g.byte + 8 * SnCount
    <3> SUFFICES ASSUME NEW n \in 0 .. Len(all)
                 PROVE  R!ByteAfter(g.byte, all, n) \in Nat /\ R!ByteAfter(g.byte, all, n) <= g.byte + 8 * SnCount
      OBVIOUS
    <3>1. R!ByteAfter(g.byte, all, n) \in Nat /\ R!ByteAfter(g.byte, all, n) <= g.byte + 8 * n
      BY <1>1, <2>3, ByteGrows, ByteAfterIs
    <3> QED BY <1>1, <2>4, <3>1
  <2>6. f = Len(all)
    <3> SUFFICES ASSUME f < Len(all) PROVE FALSE
      BY <2>4
    <3>1. R!ByteAfter(g.byte, all, f + 1) > size
      BY <1>1, <2>1, <2>3, FittingIs
    <3>2. f + 1 \in 0 .. Len(all)
      BY <2>4
    <3>3. R!ByteAfter(g.byte, all, f + 1) \in Nat /\ R!ByteAfter(g.byte, all, f + 1) <= g.byte + 8 * SnCount
      BY <2>5, <3>2
    <3> QED BY <1>1, <3>1, <3>3
  <2>7. /\ h.nacks = put /\ AtPlace(l, h)
        /\ \A n, b : Place(B, n, b) /\ n < H /\ Lost(l, D, n, b) /\ Left(l, g, n, b) =>
             AskedBy(put, n, b) \/ Left(l, h, n, b)
    <3>1. AllPut(l, B, H, D, g, m, put, h)
      BY <2>2, <2>6, RoundAll
    <3> QED BY <3>1, Zenon DEF AllPut
  <2>8. /\ n1 \in Nat /\ n2 \in Nat /\ n2 < H /\ H \in Nat
        /\ \A n, b : Place(B, n, b) => (AskedBy(put, n, b) <=>
              AskedBy(g.nacks, n, b) \/ PutAsks(m, n1, n2, MaxNackRange, Len(all), f, n, b))
    BY <2>2, RoundFacts, Zenon
  <2>9. ASSUME NEW n, NEW b, Place(B, n, b), PutAsks(m, n1, n2, MaxNackRange, Len(all), f, n, b)
        PROVE  n < H /\ Lost(l, D, n, b)
    <3>1. n \in Nat /\ B <= n /\ b \in 0 .. SizeOf(n)
      BY <2>9, PlaceIs
    <3>2. From(n1, m.so_start, n, b) /\ UpToPos(n2, m.so_end, n, b)
      BY <2>6, <2>9, Zenon DEF PutAsks
    <3>3. Lost(l, D, n, b)
      BY <1>3, <3>1, <3>2 DEF RoundOf, RunIs
    <3> QED BY <2>8, <3>1, <3>2, <3>3 DEF UpToPos
  <2>10. Exact(l, B, H, D, h)
    <3> SUFFICES ASSUME NEW n, NEW b, Place(B, n, b)
                 PROVE  /\ AskedBy(put, n, b) => n < H /\ Lost(l, D, n, b)
                        /\ n < H /\ Lost(l, D, n, b) => AskedBy(put, n, b) \/ Left(l, h, n, b)
      BY <2>7, Zenon DEF Exact
    <3> QED BY <1>1, <2>7, <2>8, <2>9, Zenon
  <2> QED BY <2>3, <2>4, <2>5, <2>10
<1> QED BY <1>1, <1>2, <1>3, RoundIs, Zenon

\* ACK_SN is X: the last NACK put ends before SDU X.
AckAt(B, H, nacks, X) ==
  /\ X \in Nat /\ B <= X /\ X <= H
  /\ Len(nacks) = 0 => X = B
  /\ Len(nacks) > 0 => \E a \in Nat : /\ B <= a /\ nacks[Len(nacks)].sn = a % SnCount
                                      /\ a + nacks[Len(nacks)].range = X

\* What is left begins in the last SDU of that NACK or later, and not before the NACK.
Touches(l, g, X) ==
  g.next # 0 /\ Len(g.nacks) > 0 =>
    /\ X - 1 <= l[g.next].id
    /\ g.nacks[Len(g.nacks)].range = 1 /\ l[g.next].id = X - 1 => g.nacks[Len(g.nacks)].so_start <= l[g.next].so

\* In whatever room: what is lost is asked for, or left, or not below ACK_SN once the loop has ended.
AskedBelow(l, B, H, D, g, X) ==
  \A n, b : Place(B, n, b) /\ n < H /\ Lost(l, D, n, b) =>
    AskedBy(g.nacks, n, b) \/ Left(l, g, n, b) \/ (g.next = 0 /\ X <= n)

SafeAt(l, B, H, D, g, X) == AckAt(B, H, g.nacks, X) /\ Touches(l, g, X) /\ AskedBelow(l, B, H, D, g, X)
Safe(l, B, H, D, g) == AtPlace(l, g) /\ \E X : SafeAt(l, B, H, D, g, X)

\* All NACKs of a run are put.
LEMMA SafeAll ==
  ASSUME NEW r, NEW B, NEW H, NEW M, NEW D, NEW g, NEW size, NEW m, NEW n1, NEW n2, NEW all, NEW f, NEW put, NEW h,
         Round(r, B, H, M, D, g, size, m, n1, n2, all, f, put, h), f = Len(all), Safe(r.rx_list, B, H, D, g)
  PROVE  Safe(r.rx_list, B, H, D, h)
<1> DEFINE l == r.rx_list
<1>1. AllPut(l, B, H, D, g, m, put, h)
  BY RoundAll
<1>2. /\ h.next = m.next /\ h.head = FALSE /\ h.nacks = put /\ AtPlace(l, h)
      /\ \A n, b : Place(B, n, b) /\ n < H /\ Lost(l, D, n, b) /\ Left(l, g, n, b) => AskedBy(put, n, b) \/ Left(l, h, n, b)
  BY <1>1, Zenon DEF AllPut
<1>3. /\ n1 \in Nat /\ n2 \in Nat /\ B \in Nat /\ H \in Nat /\ B <= n1 /\ n1 <= n2 /\ n2 < H
      /\ f \in 0 .. Len(all) /\ Len(all) \in Nat \ {0} /\ PutAfter(g.nacks, all, f, put)
      /\ \A n, b : Place(B, n, b) => (AskedBy(put, n, b) <=>
              AskedBy(g.nacks, n, b) \/ PutAsks(m, n1, n2, MaxNackRange, Len(all), f, n, b))
  BY RoundFacts, Zenon
<1>4. GoesOn(l, H, m, n1, n2) /\ PiecesAre(m, n1, n2, MaxNackRange, all) /\ g.next # 0 /\ g.nacks \in Seq(Nack)
  BY DEF Round, RoundOf, Gen
<1>5. f \in 1 .. Len(all) /\ put[Len(put)] = all[f] /\ Len(put) > 0
  <2>1. f \in 1 .. Len(all) /\ f > 0 /\ Len(g.nacks) \in Nat
    BY <1>3, <1>4
  <2> QED BY <2>1, <1>3 DEF PutAfter
<1>6. PieceAt(all[f], m, n1, n2, MaxNackRange, Len(all), f)
  BY <1>3, <1>4, <1>5, PieceRange
<1>7. PICK k, a, X : k = all[f] /\ a = n1 + MaxNackRange * (f - 1) /\ X = n2 + 1
  OBVIOUS
<1>8. /\ a \in Nat /\ k.sn = a % SnCount /\ k.range \in Nat /\ n1 <= a /\ (f > 1 => n1 < a) /\ a + k.range = X
      /\ k.so_start = (IF f = 1 THEN m.so_start ELSE 0)
  BY <1>6, <1>7 DEF PieceAt
<1>9. AckAt(B, H, put, X)
  <2>1. X \in Nat /\ B <= X /\ X <= H /\ B <= a
    BY <1>3, <1>7, <1>8
  <2> QED BY <1>5, <1>7, <1>8, <2>1 DEF AckAt
<1>10. Touches(l, h, X)
  <2> SUFFICES ASSUME m.next # 0
               PROVE  X - 1 <= l[m.next].id /\ (k.range = 1 /\ l[m.next].id = X - 1 => k.so_start <= l[m.next].so)
    BY <1>2, <1>5, <1>7 DEF Touches
  <2>1. m.next \in 1 .. Len(l) /\ n2 <= l[m.next].id /\ (n1 = n2 /\ n2 = l[m.next].id => m.so_start <= l[m.next].so)
    BY <1>4 DEF GoesOn
  <2>2. l[m.next].so \in Nat
    <3>1. ListOk(l, B, M)
      BY DEF Round, Inv, Inv0, ListInv
    <3> QED BY <2>1, <3>1, FitsIs
  <2>3. X - 1 = n2
    BY <1>3, <1>7
  <2>4. ASSUME k.range = 1, l[m.next].id = n2 PROVE k.so_start <= l[m.next].so
    <3>1. CASE f = 1
      <4>1. a = n1
        <5>1. MaxNackRange \in Nat
          BY ReceiverAssumption
        <5> QED BY <1>3, <1>7, <3>1, <5>1
      <4>2. n1 = n2
        BY <1>3, <1>7, <1>8, <2>4, <4>1
      <4> QED BY <1>8, <2>1, <2>4, <3>1, <4>2
    <3>2. CASE f # 1
      BY <1>8, <2>2, <3>2
    <3> QED BY <3>1, <3>2
  <2> QED BY <2>1, <2>3, <2>4
<1>11. AskedBelow(l, B, H, D, h, X)
  <2> SUFFICES ASSUME NEW n, NEW b, Place(B, n, b), n < H, Lost(l, D, n, b)
               PROVE  AskedBy(put, n, b) \/ Left(l, h, n, b)
    BY <1>2, Zenon DEF AskedBelow
  <2>1. AskedBy(g.nacks, n, b) \/ Left(l, g, n, b)
    BY <1>4, Zenon DEF Safe, SafeAt, AskedBelow
  <2> QED BY <1>2, <1>3, <2>1, Zenon
<1> QED BY <1>2, <1>9, <1>10, <1>11, Zenon DEF Safe, SafeAt

\* What a round that does not put all NACKs leaves.
LEMMA CutIs ==
  ASSUME NEW r, NEW B, NEW H, NEW M, NEW D, NEW g, NEW size, NEW m, NEW n1, NEW n2, NEW all, NEW f, NEW put, NEW h,
         Round(r, B, H, M, D, g, size, m, n1, n2, all, f, put, h), f < Len(all)
  PROVE  /\ h.next = 0 /\ h.head = FALSE /\ AtPlace(r.rx_list, h) /\ Stretched(put, h.nacks)
         /\ \A n, b : Place(B, n, b) /\ AskedBy(put, n, b) => AskedBy(h.nacks, n, b)
         /\ \A n, b : Place(B, n, b) /\ Lost(r.rx_list, D, n, b) /\ Left(r.rx_list, g, n, b) => From(n1, m.so_start, n, b)
<1> DEFINE l == r.rx_list
<1>1. /\ \A n \in Nat : B <= n => \A b \in Nat : Lost(l, D, n, b) /\ Left(l, g, n, b) => From(n1, m.so_start, n, b)
      /\ h.next = (IF f < Len(all) THEN 0 ELSE m.next) /\ h.head = FALSE
      /\ h.nacks = (IF f < Len(all) THEN R!StretchLast(put) ELSE put)
  BY DEF Round, RoundOf, Generated
<1>2. PutAfter(g.nacks, all, f, put)
  BY RoundFacts, Zenon
<1>3. put \in Seq(Nack)
  BY <1>2, Zenon DEF PutAfter
<1>4. Stretched(put, h.nacks)
  BY <1>1, <1>3, StretchAsks
<1>5. h.next = 0 /\ AtPlace(l, h)
  BY <1>1 DEF AtPlace
<1>6. ASSUME NEW n, NEW b, Place(B, n, b), AskedBy(put, n, b) PROVE AskedBy(h.nacks, n, b)
  <2>1. b \in 0 .. R!SoEnd
    BY <1>6, PlaceIs
  <2> QED BY <1>4, <1>6, <2>1, Zenon DEF Stretched, AskedBy
<1>7. ASSUME NEW n, NEW b, Place(B, n, b), Lost(l, D, n, b), Left(l, g, n, b) PROVE From(n1, m.so_start, n, b)
  <2>1. n \in Nat /\ B <= n /\ b \in Nat
    BY <1>7, PlaceIs
  <2> QED BY <1>1, <1>7, <2>1
<1> QED BY <1>1, <1>4, <1>5, <1>6, <1>7, Zenon

\* Some of the NACKs of a run are put: the last one of them ends before what is missing next.
LEMMA SafeSome ==
  ASSUME NEW r, NEW B, NEW H, NEW M, NEW D, NEW g, NEW size, NEW m, NEW n1, NEW n2, NEW all, NEW f, NEW put, NEW h,
         Round(r, B, H, M, D, g, size, m, n1, n2, all, f, put, h), f < Len(all), f # 0, Safe(r.rx_list, B, H, D, g)
  PROVE  Safe(r.rx_list, B, H, D, h)
<1> DEFINE l == r.rx_list
<1>1. /\ h.next = 0 /\ h.head = FALSE /\ AtPlace(l, h) /\ Stretched(put, h.nacks)
      /\ \A n, b : Place(B, n, b) /\ AskedBy(put, n, b) => AskedBy(h.nacks, n, b)
      /\ \A n, b : Place(B, n, b) /\ Lost(l, D, n, b) /\ Left(l, g, n, b) => From(n1, m.so_start, n, b)
  BY CutIs
<1>2. /\ n1 \in Nat /\ n2 \in Nat /\ B \in Nat /\ H \in Nat /\ B <= n1 /\ n1 <= n2 /\ n2 < H
      /\ f \in 0 .. Len(all) /\ Len(all) \in Nat \ {0} /\ PutAfter(g.nacks, all, f, put)
      /\ \A n, b : Place(B, n, b) => (AskedBy(put, n, b) <=>
              AskedBy(g.nacks, n, b) \/ PutAsks(m, n1, n2, MaxNackRange, Len(all), f, n, b))
  BY RoundFacts, Zenon
<1>3. PiecesAre(m, n1, n2, MaxNackRange, all) /\ g.next # 0 /\ g.nacks \in Seq(Nack)
  BY DEF Round, RoundOf, Gen
<1>4. f \in 1 .. Len(all) /\ put[Len(put)] = all[f] /\ Len(put) > 0
  <2>1. f \in 1 .. Len(all) /\ f > 0 /\ Len(g.nacks) \in Nat
    BY <1>2, <1>3
  <2> QED BY <1>2, <2>1 DEF PutAfter
<1>5. PieceAt(all[f], m, n1, n2, MaxNackRange, Len(all), f)
  BY <1>2, <1>3, <1>4, PieceRange
<1>6. PICK k, a, X : k = all[f] /\ a = n1 + MaxNackRange * (f - 1) /\ X = n1 + MaxNackRange * f
  OBVIOUS
<1>7. a \in Nat /\ k.sn = a % SnCount /\ k.range \in Nat /\ n1 <= a /\ a + k.range = X /\ X <= n2
  <2>1. f # Len(all)
    BY <1>2
  <2> QED BY <1>5, <1>6, <2>1 DEF PieceAt
<1>8. /\ Len(h.nacks) > 0 /\ Len(h.nacks) # 0
      /\ h.nacks[Len(h.nacks)].sn = k.sn /\ h.nacks[Len(h.nacks)].range = k.range
  BY <1>1, <1>4, <1>6 DEF Stretched
<1>9. AckAt(B, H, h.nacks, X)
  <2>1. X \in Nat /\ B <= X /\ X <= H /\ B <= a
    BY <1>2, <1>7
  <2> QED BY <1>7, <1>8, <2>1 DEF AckAt
<1>10. Touches(l, h, X)
  BY <1>1 DEF Touches
<1>11. AskedBelow(l, B, H, D, h, X)
  <2> SUFFICES ASSUME NEW n, NEW b, Place(B, n, b), n < H, Lost(l, D, n, b), ~(X <= n)
               PROVE  AskedBy(h.nacks, n, b)
    BY <1>1, Zenon DEF AskedBelow
  <2>1. AskedBy(g.nacks, n, b) \/ Left(l, g, n, b)
    BY <1>3, Zenon DEF Safe, SafeAt, AskedBelow
  <2>2. n < n1 + MaxNackRange * f
    <3>1. n \in Nat /\ X \in Nat
      BY <1>7, PlaceIs
    <3> QED BY <1>6, <3>1
  <2>3. Left(l, g, n, b) => PutAsks(m, n1, n2, MaxNackRange, Len(all), f, n, b)
    <3>1. f # Len(all)
      BY <1>2
    <3> QED BY <1>1, <2>2, <3>1, Zenon DEF PutAsks
  <2>4. AskedBy(put, n, b)
    BY <1>2, <2>1, <2>3, Zenon
  <2> QED BY <1>1, <2>4
<1> QED BY <1>1, <1>9, <1>10, <1>11, Zenon DEF Safe, SafeAt

\* No NACK of a run is put: the last one put before it now reaches to the end of its SDU.
LEMMA SafeNone ==
  ASSUME NEW r, NEW B, NEW H, NEW M, NEW D, NEW g, NEW size, NEW m, NEW n1, NEW n2, NEW all, NEW f, NEW put, NEW h,
         Round(r, B, H, M, D, g, size, m, n1, n2, all, f, put, h), f < Len(all), f = 0, Safe(r.rx_list, B, H, D, g)
  PROVE  Safe(r.rx_list, B, H, D, h)
<1> DEFINE l == r.rx_list
<1>1. /\ h.next = 0 /\ h.head = FALSE /\ AtPlace(l, h) /\ Stretched(put, h.nacks)
      /\ \A n, b : Place(B, n, b) /\ AskedBy(put, n, b) => AskedBy(h.nacks, n, b)
  BY CutIs
<1>2. B \in Nat /\ H \in Nat /\ H <= B + W /\ PutAfter(g.nacks, all, f, put)
  BY RoundFacts, Zenon
<1>3. put = g.nacks
  BY <1>2 DEF PutAfter
<1>4. /\ g.next # 0 /\ g.next \in 1 .. Len(l) /\ g.nacks \in Seq(Nack) /\ AtPlace(l, g) /\ ListOk(l, B, M)
  <2>1. g \in Gen(r) /\ g.next # 0 /\ AtPlace(l, g) /\ ListOk(l, B, M)
    BY DEF Round, Inv, Inv0, ListInv
  <2>2. Len(l) \in Nat
    BY <2>1, FitsIs
  <2> QED BY <2>1, <2>2 DEF Gen
<1>5. PICK X : SafeAt(l, B, H, D, g, X)
  BY DEF Safe
<1>6. AckAt(B, H, g.nacks, X) /\ Touches(l, g, X) /\ AskedBelow(l, B, H, D, g, X)
  BY <1>5 DEF SafeAt
<1>7. PICK y : y = Len(g.nacks)
  OBVIOUS
<1>8. y \in Nat /\ Len(h.nacks) = y
  BY <1>1, <1>3, <1>4, <1>7 DEF Stretched
<1>9. y > 0 => /\ h.nacks[y].sn = g.nacks[y].sn /\ h.nacks[y].range = g.nacks[y].range
               /\ h.nacks[y].so_start = g.nacks[y].so_start /\ h.nacks[y].so_end = R!SoEnd
  BY <1>1, <1>3, <1>7, <1>8 DEF Stretched
<1>10. /\ X \in Nat /\ B <= X /\ X <= H
       /\ y = 0 => X = B
       /\ y > 0 => \E a \in Nat : B <= a /\ g.nacks[y].sn = a % SnCount /\ a + g.nacks[y].range = X
  BY <1>6, <1>7, Zenon DEF AckAt
<1>11. AckAt(B, H, h.nacks, X)
  BY <1>8, <1>9, <1>10 DEF AckAt
<1>12. Touches(l, h, X)
  BY <1>1 DEF Touches
<1>13. ASSUME NEW n, NEW b, Place(B, n, b), n < H, Lost(l, D, n, b), n < X PROVE AskedBy(h.nacks, n, b)
  <2>1. n \in Nat /\ B <= n /\ b \in Nat /\ b <= R!SoEnd /\ InPeriod(B, n)
    BY <1>13, PlaceIs
  <2>2. AskedBy(g.nacks, n, b) \/ Left(l, g, n, b)
    BY <1>4, <1>6, <1>13, Zenon DEF AskedBelow
  <2>3. CASE AskedBy(g.nacks, n, b)
    BY <1>1, <1>3, <1>13, <2>3
  <2>4. CASE Left(l, g, n, b)
    <3>1. y > 0
      BY <1>2, <1>8, <1>10, <1>13, <2>1
    <3>2. ~g.head
      BY <1>4, <1>7, <3>1 DEF AtPlace
    <3>3. PICK c, o : c = l[g.next].id /\ o = l[g.next].so
      OBVIOUS
    <3>4. c \in Nat /\ o \in Nat
      BY <1>4, <3>3, FitsIs
    <3>5. c < n \/ (c = n /\ o <= b)
      BY <2>4, <3>2, <3>3 DEF Left, Since, AtOrAfter
    <3>6. X - 1 <= c /\ (g.nacks[y].range = 1 /\ c = X - 1 => g.nacks[y].so_start <= o)
      BY <1>4, <1>6, <1>7, <3>1, <3>3 DEF Touches
    <3>7. n = X - 1 /\ c = X - 1 /\ o <= b
      BY <1>10, <1>13, <2>1, <3>4, <3>5, <3>6
    <3>8. PICK a \in Nat : B <= a /\ g.nacks[y].sn = a % SnCount /\ a + g.nacks[y].range = X
      BY <1>10, <3>1
    <3>9. g.nacks[y] \in Nack /\ y \in 1 .. y
      BY <1>4, <1>7, <1>8, <3>1
    <3>10. PICK k : k = h.nacks[y]
      OBVIOUS
    <3>11. PICK w, s : w = g.nacks[y].range /\ s = g.nacks[y].so_start
      OBVIOUS
    <3>12. w \in Nat \ {0} /\ s \in Nat
      BY <3>9, <3>11 DEF Nack
    <3>13. k.sn = a % SnCount /\ k.range = w /\ k.so_start = s /\ k.so_end = R!SoEnd /\ a + w = X
      BY <1>9, <3>1, <3>8, <3>10, <3>11
    <3>14. n = a => s <= b
      <4>1. n = a => w = 1
        BY <1>10, <3>7, <3>12, <3>13
      <4>2. w = 1 => s <= o
        BY <3>6, <3>7, <3>11
      <4> QED BY <2>1, <3>4, <3>7, <3>12, <4>1, <4>2
    <3>15. Covers(k, a, n, b)
      BY <1>10, <2>1, <3>7, <3>12, <3>13, <3>14 DEF Covers
    <3>16. X <= B + SnCount
      BY <1>2, <1>10, HalfWindow
    <3>17. Asks(k, n % SnCount, b)
      BY <2>1, <3>8, <3>12, <3>13, <3>15, <3>16, AskIs
    <3> QED BY <1>8, <3>9, <3>10, <3>17 DEF AskedBy
  <2> QED BY <2>2, <2>3, <2>4
<1>14. AskedBelow(l, B, H, D, h, X)
  <2> SUFFICES ASSUME NEW n, NEW b, Place(B, n, b), n < H, Lost(l, D, n, b), ~(X <= n)
               PROVE  AskedBy(h.nacks, n, b)
    BY <1>1, Zenon DEF AskedBelow
  <2>1. n \in Nat
    BY PlaceIs
  <2>2. n < X
    BY <1>10, <2>1
  <2> QED BY <1>13, <2>2
<1> QED BY <1>1, <1>11, <1>12, <1>14, Zenon DEF Safe, SafeAt

\* So every round keeps this, however many NACKs fit.
LEMMA SafeStep ==
  ASSUME NEW r, NEW B, NEW H, NEW M, NEW D, Inv(r, B, H, M, D), NEW g \in Gen(r), Safe(r.rx_list, B, H, D, g),
         NEW size \in Nat, NEW h, h = R!NextNacks(r, g, size)
  PROVE  Safe(r.rx_list, B, H, D, h)
<1> DEFINE l == r.rx_list
<1>1. AtPlace(l, g)
  BY DEF Safe
<1>2. ASSUME Ended(g, h), NothingLeft(l, B, H, D, g) PROVE Safe(l, B, H, D, h)
  <2>1. h.next = 0 /\ h.head = g.head /\ h.nacks = g.nacks
    BY <1>2 DEF Ended
  <2>2. AtPlace(l, h)
    BY <1>1, <2>1 DEF AtPlace
  <2>3. PICK X : SafeAt(l, B, H, D, g, X)
    BY DEF Safe
  <2>4. AckAt(B, H, h.nacks, X) /\ Touches(l, h, X)
    BY <2>1, <2>3, Zenon DEF SafeAt, Touches
  <2>5. AskedBelow(l, B, H, D, h, X)
    <3> SUFFICES ASSUME NEW n, NEW b, Place(B, n, b), n < H, Lost(l, D, n, b)
                 PROVE  AskedBy(g.nacks, n, b) \/ X <= n
      BY <2>1, Zenon DEF AskedBelow
    <3>1. n \in Nat /\ B <= n /\ b \in Nat
      BY PlaceIs
    <3>2. ~(H <= n)
      <4>1. H \in Nat
        BY DEF Inv, Inv0, Numbers
      <4> QED BY <3>1, <4>1
    <3>3. ~Left(l, g, n, b)
      BY <1>2, <3>1, <3>2 DEF NothingLeft
    <3> QED BY <2>3, <3>3, Zenon DEF SafeAt, AskedBelow
  <2> QED BY <2>2, <2>4, <2>5, Zenon DEF Safe, SafeAt
<1>3. ASSUME g.next # 0, NEW m, NEW n1, NEW n2, NEW all, RoundOf(l, B, H, D, g, m, n1, n2, all),
             Generated(g, m, size, all, R!Fitting(g.byte, all, size), h)
      PROVE  Safe(l, B, H, D, h)
  <2>1. PICK f, put : f = R!Fitting(g.byte, all, size) /\ put = g.nacks \o SubSeq(all, 1, f)
    OBVIOUS
  <2>2. Round(r, B, H, M, D, g, size, m, n1, n2, all, f, put, h)
    BY <1>1, <1>3, <2>1, Zenon DEF Round
  <2>3. f \in 0 .. Len(all) /\ Len(all) \in Nat
    BY <2>2, RoundFacts
  <2>4. f = Len(all) \/ (f < Len(all) /\ f # 0) \/ (f < Len(all) /\ f = 0)
    BY <2>3
  <2> QED BY <2>2, <2>4, SafeAll, SafeSome, SafeNone
<1> QED BY <1>1, <1>2, <1>3, RoundIs, Zenon

\* Before the first round nothing has been asked for and everything is left.
LEMMA WalkStarts ==
  ASSUME NEW r, NEW B, NEW H, NEW M, NEW D, Inv(r, B, H, M, D)
  PROVE  Exact(r.rx_list, B, H, D, GenStart(r)) /\ Safe(r.rx_list, B, H, D, GenStart(r))
<1> DEFINE l == r.rx_list
<1>1. PICK g : g = GenStart(r)
  OBVIOUS
<1>2. g.next = (IF l = <<>> THEN 0 ELSE 1) /\ g.head = TRUE /\ g.nacks = <<>>
  BY <1>1 DEF GenStart
<1>3. ListOk(l, B, M) /\ Topped(l, B, M) /\ Numbers(r, B, H, M) /\ Len(l) \in Nat /\ DOMAIN l = 1 .. Len(l)
  <2>1. ListOk(l, B, M) /\ Topped(l, B, M) /\ Numbers(r, B, H, M)
    BY DEF Inv, Inv0, ListInv
  <2> QED BY <2>1, FitsIs
<1>4. B \in Nat /\ H \in Nat /\ M \in Nat /\ B <= H /\ H <= M
  BY <1>3 DEF Numbers
<1>5. l = <<>> => H <= B
  <2> SUFFICES ASSUME l = <<>> PROVE ~(B < M)
    BY <1>4
  <2>1. DOMAIN l = {}
    OBVIOUS
  <2> QED BY <1>3, <2>1 DEF Topped
<1>6. Len(g.nacks) = 0 /\ \A n, b : ~AskedBy(g.nacks, n, b)
  BY <1>2 DEF AskedBy
<1>7. AtPlace(l, g)
  <2>1. Fresh(l, 1)
    <3>1. \A k \in 1 .. Len(l) : ~(k < 1)
      BY <1>3
    <3> QED BY <3>1 DEF Fresh
  <2> QED BY <1>2, <2>1 DEF AtPlace
<1>8. ASSUME NEW n, NEW b, Place(B, n, b), n < H PROVE Left(l, g, n, b)
  <2>1. n \in Nat /\ B <= n
    BY <1>8, PlaceIs
  <2>2. l # <<>>
    BY <1>4, <1>5, <1>8, <2>1
  <2> QED BY <1>2, <2>2 DEF Left, Since
<1>9. Exact(l, B, H, D, g)
  BY <1>6, <1>7, <1>8, Zenon DEF Exact
<1>10. SafeAt(l, B, H, D, g, B)
  <2>1. B <= B /\ ~(0 > 0)
    BY <1>4
  <2>2. AckAt(B, H, g.nacks, B)
    BY <1>4, <1>6, <2>1, Zenon DEF AckAt
  <2>3. Touches(l, g, B)
    BY <1>6, <2>1, Zenon DEF Touches
  <2>4. AskedBelow(l, B, H, D, g, B)
    BY <1>8, Zenon DEF AskedBelow
  <2> QED BY <2>2, <2>3, <2>4 DEF SafeAt
<1> QED BY <1>1, <1>7, <1>9, <1>10 DEF Safe

\* Every round but the first, which may be about what is missing before the first entry, goes on in the list.
Moves(g, h) == h.next = 0 \/ (h.head = FALSE /\ h.next \in Nat \ {0} /\ g.next # 0 /\ (g.next < h.next \/ g.head))

\* A round of generate_status moves the loop on.
LEMMA RoundMoves ==
  ASSUME NEW r, NEW B, NEW H, NEW M, NEW D, Inv(r, B, H, M, D), NEW g \in Gen(r), AtPlace(r.rx_list, g),
         NEW size \in Nat, NEW h, h = R!NextNacks(r, g, size)
  PROVE  Moves(g, h)
<1>1. Ended(g, h) => Moves(g, h)
  BY DEF Ended, Moves
<1>2. ASSUME g.next # 0, NEW m, NEW n1, NEW n2, NEW all, RoundOf(r.rx_list, B, H, D, g, m, n1, n2, all),
             Generated(g, m, size, all, R!Fitting(g.byte, all, size), h)
      PROVE  Moves(g, h)
  <2>1. (h.next = 0 \/ h.next = m.next) /\ h.head = FALSE
    BY <1>2 DEF Generated
  <2>2. (m.next = 0 \/ g.next < m.next \/ g.head) /\ (m.next # 0 => m.next \in 1 .. Len(r.rx_list))
    BY <1>2 DEF RoundOf, GoesOn
  <2>3. m.next # 0 => m.next \in Nat \ {0}
    <3>1. ListOk(r.rx_list, B, M)
      BY DEF Inv, Inv0, ListInv
    <3>2. Len(r.rx_list) \in Nat
      BY <3>1, FitsIs
    <3> QED BY <2>2, <3>2
  <2> QED BY <1>2, <2>1, <2>2, <2>3 DEF Moves
<1> QED BY <1>1, <1>2, RoundIs, Zenon

\* After as many rounds as there are entries, and one, the loop has ended.
LEMMA WalkSafe ==
  ASSUME NEW r, NEW B, NEW H, NEW M, NEW D, Inv(r, B, H, M, D), NEW size \in Nat, NEW g, GenBy(r, size, g)
  PROVE  g[Len(r.rx_list) + 1].next = 0 /\ Safe(r.rx_list, B, H, D, g[Len(r.rx_list) + 1])
<1> DEFINE l == r.rx_list
           n == Len(r.rx_list) + 1
           T == {k \in 0 .. n : Safe(l, B, H, D, g[k]) /\ (g[k].next = 0 \/ (k <= g[k].next /\ (g[k].head => k = 0)))}
<1>1. Len(l) \in Nat /\ n \in Nat /\ n = Len(l) + 1
  <2>1. ListOk(l, B, M)
    BY DEF Inv, Inv0, ListInv
  <2> QED BY <2>1, FitsIs
<1>2. /\ \A k \in 0 .. n : g[k] \in Gen(r)
      /\ g[0] = GenStart(r) /\ \A k \in 1 .. n : g[k] = R!NextNacks(r, g[k - 1], size)
  BY DEF GenBy
<1> HIDE DEF n
<1>3. 0 \in T
  <2>1. Safe(l, B, H, D, g[0])
    BY <1>2, WalkStarts
  <2>2. g[0].next = 0 \/ g[0].next = 1
    BY <1>2 DEF GenStart
  <2> QED BY <1>1, <2>1, <2>2
<1>4. ASSUME NEW k \in 1 .. n, k - 1 \in T PROVE k \in T
  <2>1. PICK x, y : x = g[k - 1] /\ y = g[k]
    OBVIOUS
  <2>2. /\ k \in 0 .. n /\ k - 1 \in 0 .. n /\ k \in Nat /\ Safe(l, B, H, D, x)
        /\ (x.next = 0 \/ (k - 1 <= x.next /\ (x.head => k - 1 = 0)))
    BY <1>1, <1>4, <2>1
  <2>3. x \in Gen(r) /\ y = R!NextNacks(r, x, size)
    BY <1>2, <2>1, <2>2
  <2>4. Safe(l, B, H, D, y)
    BY <2>2, <2>3, SafeStep
  <2>5. AtPlace(l, x) /\ x.next \in Nat
    BY <1>1, <2>2, <2>3 DEF Safe, Gen
  <2>6. y.next = 0 \/ (y.head = FALSE /\ y.next \in Nat \ {0} /\ x.next # 0 /\ (x.next < y.next \/ x.head))
    <3>1. Moves(x, y)
      BY <2>3, <2>5, RoundMoves
    <3> QED BY <3>1 DEF Moves
  <2>7. y.next = 0 \/ (k <= y.next /\ (y.head => k = 0))
    BY <2>2, <2>5, <2>6
  <2> QED BY <2>1, <2>2, <2>4, <2>7
<1>5. \A k \in 0 .. n : k \in T
  <2> HIDE DEF T
  <2> QED BY <1>1, <1>3, <1>4, NatInduct
<1>6. n \in 0 .. n /\ n \in T
  BY <1>1, <1>5
<1>7. g[n].next \in 0 .. Len(l)
  BY <1>2, <1>6 DEF Gen
<1>8. Safe(l, B, H, D, g[n]) /\ g[n].next = 0
  BY <1>1, <1>6, <1>7
<1> QED BY <1>8 DEF n

\* With room for every NACK of every round nothing is cut.
LEMMA WalkExact ==
  ASSUME NEW r, NEW B, NEW H, NEW M, NEW D, Inv(r, B, H, M, D), NEW size, size = 3 + 8 * SnCount * (Len(r.rx_list) + 1),
         size \in Nat, NEW g, GenBy(r, size, g)
  PROVE  Exact(r.rx_list, B, H, D, g[Len(r.rx_list) + 1])
<1> DEFINE l == r.rx_list
           n == Len(r.rx_list) + 1
           c == 8 * SnCount
           T == {k \in 0 .. n : Exact(l, B, H, D, g[k]) /\ g[k].byte \in Nat /\ g[k].byte <= 3 + c * k}
<1>1. n \in Nat
  <2>1. ListOk(l, B, M)
    BY DEF Inv, Inv0, ListInv
  <2> QED BY <2>1, FitsIs
<1>2. /\ \A k \in 0 .. n : g[k] \in Gen(r)
      /\ g[0] = GenStart(r) /\ \A k \in 1 .. n : g[k] = R!NextNacks(r, g[k - 1], size)
  BY DEF GenBy
<1>3. size = 3 + c * n /\ c \in Nat /\ c = 8 * SnCount
  BY HalfWindow
<1> HIDE DEF n, c
<1>4. 0 \in T
  <2>1. Exact(l, B, H, D, g[0])
    BY <1>2, WalkStarts
  <2>2. g[0].byte = 3 /\ c * 0 = 0
    BY <1>2, <1>3 DEF GenStart
  <2> QED BY <1>1, <2>1, <2>2
<1>5. ASSUME NEW k \in 1 .. n, k - 1 \in T PROVE k \in T
  <2>1. PICK x, y : x = g[k - 1] /\ y = g[k]
    OBVIOUS
  <2>2. k \in 0 .. n /\ k - 1 \in 0 .. n /\ Exact(l, B, H, D, x) /\ x.byte \in Nat /\ x.byte <= 3 + c * (k - 1)
    BY <1>1, <1>5, <2>1
  <2>3. x \in Gen(r) /\ y = R!NextNacks(r, x, size)
    BY <1>2, <2>1, <2>2
  <2>4. PICK u, v, w : u = c * (k - 1) /\ v = c * k /\ w = c * n
    OBVIOUS
  <2>5. u \in Nat /\ v \in Nat /\ w \in Nat /\ v <= w /\ v = u + c
    <3>1. c \in Nat /\ k \in Nat /\ n \in Nat /\ k <= n
      BY <1>1, <1>3
    <3>2. v \in Nat /\ w \in Nat /\ v <= w
      BY <2>4, <3>1, Times
    <3>3. k - 1 \in Nat /\ k - 1 <= k
      BY <3>1
    <3>4. u \in Nat
      BY <2>4, <3>1, <3>3, Times
    <3>5. v = u + c
      BY <2>4, <3>1
    <3> QED BY <3>2, <3>4, <3>5
  <2>6. x.byte + c <= size /\ x.byte + c <= 3 + v
    <3>1. x.byte \in Nat /\ x.byte <= 3 + u /\ c \in Nat /\ size = 3 + w
      BY <1>3, <2>2, <2>4
    <3> QED BY <2>5, <3>1
  <2>7. x.byte + 8 * SnCount <= size
    BY <1>3, <2>6
  <2>8. Exact(l, B, H, D, y) /\ y.byte \in Nat /\ y.byte <= x.byte + 8 * SnCount
    BY <2>2, <2>3, <2>7, ExactStep
  <2>9. y.byte <= 3 + c * k
    <3>1. y.byte \in Nat /\ y.byte <= x.byte + c /\ x.byte \in Nat /\ c \in Nat
      BY <1>3, <2>2, <2>8
    <3>2. y.byte <= 3 + v
      BY <2>5, <2>6, <3>1
    <3> QED BY <2>4, <3>2
  <2> QED BY <2>1, <2>2, <2>8, <2>9
<1>6. \A k \in 0 .. n : k \in T
  <2> HIDE DEF T
  <2> QED BY <1>1, <1>4, <1>5, NatInduct
<1>7. n \in 0 .. n /\ n \in T
  BY <1>1, <1>6
<1> QED BY <1>7 DEF n

\* Every SN stands for one SDU of the period from RX_Next.
LEMMA FindSdu ==
  ASSUME NEW B \in Nat, NEW sn \in Sns
  PROVE  \E n : InPeriod(B, n) /\ sn = n % SnCount
<1> DEFINE c == SnCount
<1>1. c \in Nat \ {0} /\ sn \in 0 .. (c - 1)
  BY HalfWindow DEF Sns
<1> HIDE DEF c
<1>2. PICK q \in Int : B = c * q + (B % c) /\ B % c \in 0 .. (c - 1)
  <2>1. B \in Int
    OBVIOUS
  <2> QED BY <1>1, <2>1, Quotient, Zenon
<1>3. PICK p, v : p = B % c /\ v = c * q
  OBVIOUS
<1>4. p \in 0 .. (c - 1) /\ v \in Int /\ B = v + p
  BY <1>1, <1>2, <1>3
<1>5. CASE p <= sn
  <2>1. PICK n : n = v + sn
    OBVIOUS
  <2>2. n \in Nat /\ B <= n /\ n < B + c /\ n \in Int
    BY <1>1, <1>4, <1>5, <2>1
  <2>3. n = c * q + sn
    BY <1>3, <2>1
  <2>4. n % c = sn
    BY <1>1, <2>2, <2>3, Remainder
  <2> QED BY <2>2, <2>4 DEF InPeriod, c
<1>6. CASE sn < p
  <2>1. PICK n : n = v + c + sn
    OBVIOUS
  <2>2. n \in Nat /\ B <= n /\ n < B + c /\ n \in Int
    BY <1>1, <1>4, <1>6, <2>1
  <2>3. PICK z : z = q + 1 /\ z \in Int
    OBVIOUS
  <2>4. n = c * z + sn
    BY <1>1, <1>3, <2>1, <2>3
  <2>5. n % c = sn
    BY <1>1, <2>2, <2>3, <2>4, Remainder
  <2> QED BY <2>2, <2>5 DEF InPeriod, c
<1> QED BY <1>1, <1>4, <1>5, <1>6

\* What StatusComplete says of a position, in terms of the SDU it belongs to.
PositionIs(B, H, D, q, n) ==
  /\ Place(B, n, q[2]) /\ q[1] = n % SnCount /\ Ahead(q[1]) = n - B
  /\ IsMissing(q[1], q[2]) <=> n < H /\ Lost(rx.rx_list, D, n, q[2])

\* Every position belongs to an SDU within a period of RX_Next.
LEMMA FindPosition ==
  ASSUME NEW B, NEW H, NEW M, NEW D, Inv(rx, B, H, M, D), NEW q \in Positions
  PROVE  \E n : PositionIs(B, H, D, q, n)
<1> DEFINE l == rx.rx_list
<1>1. PICK sn, b : sn = q[1] /\ b = q[2]
  OBVIOUS
<1>2. sn \in Sns /\ b \in 0 .. SduSize /\ b <= SizeOf(sn)
  BY <1>1 DEF Positions
<1>3. ListInv(l, B, M, D) /\ ListOk(l, B, M) /\ Numbers(rx, B, H, M)
  BY DEF Inv, Inv0, ListInv
<1>4. B \in Nat /\ H \in Nat /\ B <= H /\ H <= B + W /\ rx.rx_next = B % SnCount /\ rx.rx_highest_status = H % SnCount
  BY <1>3, HalfWindow DEF Numbers
<1>5. PICK n : InPeriod(B, n) /\ sn = n % SnCount
  BY <1>2, <1>4, FindSdu
<1>6. n \in Nat /\ B <= n /\ n < B + SnCount
  BY <1>5 DEF InPeriod
<1>7. Place(B, n, b)
  <2>1. SizeOf(sn) = SizeOf(n) /\ SizeOf(n) \in Nat
    BY <1>5, <1>6, SizeOfIs
  <2>2. b \in Nat
    BY <1>2, ReceiverAssumption
  <2> QED BY <1>2, <1>5, <2>1, <2>2 DEF Place
<1>8. Ahead(sn) = n - B
  BY <1>4, <1>5, <1>6, Ahead1 DEF Ahead
<1>9. Ahead(rx.rx_highest_status) = H - B
  <2>1. H < B + SnCount
    BY <1>4, HalfWindow
  <2> QED BY <1>4, <2>1, Ahead1 DEF Ahead
<1>10. R!sdu_delivered(rx, sn) <=> n \in D
  BY <1>3, <1>5, <1>6, DeliveredIs DEF ListInv
<1>11. /\ DOMAIN l = 1 .. Len(l)
       /\ \A i \in 1 .. Len(l) : /\ l[i].sn = sn <=> l[i].id = n
                                 /\ b \notin Bytes(l[i]) <=> ~(l[i].so <= b /\ b < R!End(l[i]))
  <2>1. DOMAIN l = 1 .. Len(l)
    BY <1>3, FitsIs
  <2>2. \A i \in DOMAIN l : l[i].sn = sn <=> l[i].id = n
    BY <1>3, <1>5, <1>6, EntriesAre
  <2>3. ASSUME NEW i \in 1 .. Len(l) PROVE b \notin Bytes(l[i]) <=> ~(l[i].so <= b /\ b < R!End(l[i]))
    <3>1. l[i].so \in Nat /\ l[i].size \in Nat /\ R!End(l[i]) = l[i].so + l[i].size
      BY <1>3, FitsIs
    <3>2. b \in Nat
      BY <1>2, ReceiverAssumption
    <3> QED BY <3>1, <3>2 DEF Bytes
  <2> QED BY <2>1, <2>2, <2>3
<1>12. (\A i \in DOMAIN l : LET p == l[i] IN p.sn = sn => b \notin Bytes(p) /\ (p.last => b < p.so))
         <=> \A i \in 1 .. Len(l) : NotThere(l[i], n, b)
  <2>1. ASSUME NEW i \in 1 .. Len(l)
        PROVE  (l[i].sn = sn => b \notin Bytes(l[i]) /\ (l[i].last => b < l[i].so)) <=> NotThere(l[i], n, b)
    BY <1>11, Zenon DEF NotThere
  <2> QED BY <1>11, <2>1, Zenon
<1>13. IsMissing(sn, b) <=> n < H /\ Lost(l, D, n, b)
  <2>1. Ahead(sn) < Ahead(rx.rx_highest_status) <=> n < H
    BY <1>4, <1>6, <1>8, <1>9
  <2> QED BY <1>10, <1>12, <2>1, Zenon DEF IsMissing, Lost
<1>14. PositionIs(B, H, D, q, n)
  BY <1>1, <1>5, <1>7, <1>8, <1>13, Zenon DEF PositionIs
<1> QED BY <1>14

\* A STATUS asks for a position if one of its NACKs does.
LEMMA NackedIs ==
  ASSUME NEW B, NEW H, NEW D, NEW q \in Positions, NEW n, PositionIs(B, H, D, q, n), NEW s, s.nacks \in Seq(Nack)
  PROVE  q \in NackedBytes(s) <=> AskedBy(s.nacks, n, q[2])
<1>1. q[1] = n % SnCount
  BY DEF PositionIs
<1>2. DOMAIN s.nacks = 1 .. Len(s.nacks)
  OBVIOUS
<1> QED BY <1>1, <1>2, Zenon DEF NackedBytes, AskedBy

\* generate_status: given enough room a STATUS asks for exactly the missing bytes; cut short, it
\* still asks for every missing byte below its ACK_SN, so that nothing missing is acknowledged,
\* for every list of received segments, every grant and every number of SNs in a NACK range.
THEOREM StatusAsksForAll == Spec => []StatusComplete
<1>1. RxInv => StatusComplete
  <2> SUFFICES ASSUME RxInv PROVE StatusComplete
    OBVIOUS
  <2> DEFINE l == rx.rx_list
             N == Len(rx.rx_list) + 1
  <2>1. PICK B, H, M, D : Inv(rx, B, H, M, D)
    BY DEF RxInv
  <2>2. rx \in RxState /\ ListOk(l, B, M) /\ Numbers(rx, B, H, M) /\ Len(l) \in Nat
    <3>1. rx \in RxState /\ ListOk(l, B, M) /\ Numbers(rx, B, H, M)
      BY <2>1 DEF Inv, Inv0, ListInv
    <3> QED BY <3>1, FitsIs
  <2>3. ASSUME NEW size \in Nat
        PROVE  \E g : /\ GenBy(rx, size, g) /\ R!StatusPdu(rx, size).nacks = g[N].nacks /\ g[N].nacks \in Seq(Nack)
                      /\ g[N].next = 0 /\ Safe(l, B, H, D, g[N])
    <3>1. PICK g : GenBy(rx, size, g) /\ R!StatusNacks(rx, size) = g[N].nacks
      BY <2>2, GenExists
    <3>2. g[N].next = 0 /\ Safe(l, B, H, D, g[N])
      BY <2>1, <3>1, WalkSafe
    <3>3. g[N].nacks \in Seq(Nack)
      <4>1. N \in 0 .. (Len(l) + 1)
        BY <2>2
      <4> QED BY <3>1, <4>1 DEF GenBy, Gen
    <3>4. R!StatusPdu(rx, size).nacks = R!StatusNacks(rx, size)
      BY DEF R!StatusPdu
    <3> QED BY <3>1, <3>2, <3>3, <3>4
  <2> HIDE DEF N
  <2>4. Roomy \in Nat /\ Roomy = 3 + 8 * SnCount * (Len(l) + 1)
    <3>1. Roomy = 3 + 8 * SnCount * (Len(l) + 1)
      BY DEF Roomy
    <3>2. PICK c, x : c = 8 * SnCount /\ x = Len(l) + 1
      OBVIOUS
    <3>3. c \in Nat /\ x \in Nat
      BY <2>2, <3>2, HalfWindow
    <3>4. c * x \in Nat
      BY <3>3
    <3>5. Roomy = 3 + c * x
      BY <3>1, <3>2
    <3> QED BY <3>1, <3>4, <3>5
  <2>5. NackedBytes(R!StatusPdu(rx, Roomy)) = MissingBytes
    <3>1. PICK g : /\ GenBy(rx, Roomy, g) /\ R!StatusPdu(rx, Roomy).nacks = g[N].nacks /\ g[N].nacks \in Seq(Nack)
                   /\ g[N].next = 0 /\ Safe(l, B, H, D, g[N])
      BY <2>3, <2>4
    <3>2. Exact(l, B, H, D, g[N])
      BY <2>1, <2>4, <3>1, WalkExact DEF N
    <3>3. ASSUME NEW q \in Positions PROVE q \in NackedBytes(R!StatusPdu(rx, Roomy)) <=> q \in MissingBytes
      <4>1. PICK n : PositionIs(B, H, D, q, n)
        BY <2>1, FindPosition
      <4>2. Place(B, n, q[2]) /\ (IsMissing(q[1], q[2]) <=> n < H /\ Lost(l, D, n, q[2]))
        BY <4>1 DEF PositionIs
      <4>3. q \in NackedBytes(R!StatusPdu(rx, Roomy)) <=> AskedBy(g[N].nacks, n, q[2])
        BY <3>1, <4>1, NackedIs
      <4>4. ~Left(l, g[N], n, q[2])
        BY <3>1 DEF Left
      <4>5. AskedBy(g[N].nacks, n, q[2]) <=> n < H /\ Lost(l, D, n, q[2])
        BY <3>2, <4>2, <4>4, Zenon DEF Exact
      <4>6. q \in MissingBytes <=> IsMissing(q[1], q[2])
        BY Zenon DEF MissingBytes
      <4> QED BY <4>2, <4>3, <4>5, <4>6, Zenon
    <3>4. NackedBytes(R!StatusPdu(rx, Roomy)) \subseteq Positions /\ MissingBytes \subseteq Positions
      BY Zenon DEF NackedBytes, MissingBytes
    <3> QED BY <3>3, <3>4, Zenon
  <2>6. ASSUME NEW size \in StatusGrants, NEW q \in MissingBytes, Ahead(q[1]) < Ahead(R!StatusPdu(rx, size).ack_sn)
        PROVE  q \in NackedBytes(R!StatusPdu(rx, size))
    <3>1. size \in Nat
      BY ReceiverAssumption
    <3>2. PICK g : /\ GenBy(rx, size, g) /\ R!StatusPdu(rx, size).nacks = g[N].nacks /\ g[N].nacks \in Seq(Nack)
                   /\ g[N].next = 0 /\ Safe(l, B, H, D, g[N])
      BY <2>3, <3>1
    <3>3. PICK X : SafeAt(l, B, H, D, g[N], X)
      BY <3>2 DEF Safe
    <3>4. q \in Positions /\ IsMissing(q[1], q[2])
      BY <2>6, Zenon DEF MissingBytes
    <3>5. PICK n : PositionIs(B, H, D, q, n)
      BY <2>1, <3>4, FindPosition
    <3>6. Place(B, n, q[2]) /\ Ahead(q[1]) = n - B /\ n < H /\ Lost(l, D, n, q[2])
      BY <3>4, <3>5, Zenon DEF PositionIs
    <3>7. AskedBy(g[N].nacks, n, q[2]) \/ X <= n
      <4>1. ~Left(l, g[N], n, q[2])
        BY <3>2 DEF Left
      <4> QED BY <3>3, <3>6, <4>1, Zenon DEF SafeAt, AskedBelow
    <3>8. X \in Nat /\ B <= X /\ X <= H /\ B \in Nat /\ H \in Nat /\ H <= B + W
      BY <2>2, <3>3, HalfWindow DEF SafeAt, AckAt, Numbers
    <3>9. R!StatusPdu(rx, size).ack_sn = X % SnCount
      <4>1. PICK nacks : nacks = g[N].nacks
        OBVIOUS
      <4>2. R!StatusPdu(rx, size).nacks = R!StatusNacks(rx, size)
        BY DEF R!StatusPdu
      <4>3. R!StatusPdu(rx, size).ack_sn =
              IF nacks = <<>> THEN rx.rx_next ELSE R!Plus(nacks[Len(nacks)].sn, nacks[Len(nacks)].range)
        BY <3>2, <4>1, <4>2 DEF R!StatusPdu, R!Last
      <4>4. nacks \in Seq(Nack) /\ Len(nacks) \in Nat /\ (nacks = <<>> <=> Len(nacks) = 0)
        BY <3>2, <4>1
      <4>5. CASE nacks = <<>>
        <5>1. X = B
          BY <3>3, <4>1, <4>4, <4>5 DEF SafeAt, AckAt
        <5> QED BY <2>2, <4>3, <4>5, <5>1 DEF Numbers
      <4>6. CASE nacks # <<>>
        <5>1. Len(nacks) > 0 /\ Len(nacks) \in 1 .. Len(nacks)
          BY <4>4, <4>6
        <5>2. PICK k : k = nacks[Len(nacks)]
          OBVIOUS
        <5>3. PICK a \in Nat : k.sn = a % SnCount /\ a + k.range = X
          BY <3>3, <4>1, <5>1, <5>2 DEF SafeAt, AckAt
        <5>4. k.range \in Nat
          <6>1. k \in Nack
            BY <4>4, <5>1, <5>2
          <6> QED BY <6>1 DEF Nack
        <5>5. R!Plus(k.sn, k.range) = X % SnCount
          BY <5>3, <5>4, PlusIs
        <5> QED BY <4>3, <4>6, <5>2, <5>5
      <4> QED BY <4>5, <4>6
    <3>10. Ahead(X % SnCount) = X - B
      <4>1. X <= B + W
        BY <3>8, HalfWindow
      <4> QED BY <2>1, <3>8, <4>1, AheadIs
    <3>11. ~(X <= n)
      <4>1. n \in Nat
        BY <3>6, PlaceIs
      <4> QED BY <2>6, <3>6, <3>8, <3>9, <3>10, <4>1
    <3> QED BY <3>2, <3>4, <3>5, <3>7, <3>11, NackedIs
  <2> QED BY <2>5, <2>6 DEF StatusComplete
<1> QED BY <1>1, Invariance, PTL
=============================================================================
