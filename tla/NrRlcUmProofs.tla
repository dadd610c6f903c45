----------------------------- MODULE NrRlcUmProofs -----------------------------
(***************************************************************************)
(* Proofs about NrRlcUm, for every SN length, all sizes of SDUs and grants *)
(* and whatever is lost, reordered, discarded or re-established: the       *)
(* transmitting side's list, its end pointer and the buffer status MAC     *)
(* grants by; the receiving side's list, window and timer.                 *)
(***************************************************************************)
EXTENDS NrRlcUm, SequenceLemmas, SequenceTheorems

\* Segments of an SDU, none of them empty.
Segments == [id : Nat, so : Nat, size : Nat \ {0}, first : BOOLEAN, last : BOOLEAN]

---------------------------------------------------------------------------
(* The buffer status as a sum.                                             *)

\* The size of a PDU is a number.
LEMMA PduSizeIs == \A s \in Segments : PduSize(s) \in Nat
<1> SUFFICES ASSUME NEW s \in Segments PROVE PduSize(s) \in Nat
  OBVIOUS
<1>1. SnExtra \in Nat
  BY SnAssumption
<1>2. compute_pdu_header_size(s) \in Nat
  BY <1>1 DEF compute_pdu_header_size
<1>3. s.size \in Nat
  BY DEF Segments
<1> QED BY <1>2, <1>3 DEF PduSize

\* f[k] is the size of the first k PDUs.
SumFrom(list, f, n) == f = [k \in 0 .. n |-> IF k = 0 THEN 0 ELSE f[k - 1] + PduSize(list[k])]

\* A sum has a value after each of its terms, by induction on their number.
LEMMA SumExists ==
  ASSUME NEW list, NEW n \in Nat
  PROVE  \E f : SumFrom(list, f, n)
<1> DEFINE T == {m \in 0 .. n : \E f : SumFrom(list, f, m)}
           zero == [k \in 0 .. 0 |-> 0]
<1>1. 0 \in T
  <2>1. SumFrom(list, zero, 0)
    BY DEF SumFrom
  <2> QED BY <2>1
<1>2. ASSUME NEW m \in 1 .. n, m - 1 \in T PROVE m \in T
  <2>1. PICK f : SumFrom(list, f, m - 1)
    BY <1>2
  <2> DEFINE g == [k \in 0 .. m |-> IF k < m THEN f[k] ELSE f[m - 1] + PduSize(list[m])]
  <2>2. ASSUME NEW k \in 0 .. m
        PROVE  g[k] = IF k = 0 THEN 0 ELSE g[k - 1] + PduSize(list[k])
    <3>1. CASE k = 0
      <4>1. g[0] = f[0] /\ 0 \in 0 .. (m - 1)
        BY <3>1
      <4> QED BY <2>1, <3>1, <4>1 DEF SumFrom
    <3>2. CASE k \in 1 .. (m - 1)
      <4>1. g[k] = f[k] /\ g[k - 1] = f[k - 1] /\ k \in 0 .. (m - 1) /\ k # 0
        BY <3>2
      <4> HIDE DEF g
      <4>2. f[k] = f[k - 1] + PduSize(list[k])
        BY <2>1, <4>1 DEF SumFrom
      <4> QED BY <4>1, <4>2
    <3>3. CASE k = m
      <4>1. g[m] = f[m - 1] + PduSize(list[m]) /\ g[m - 1] = f[m - 1] /\ m # 0
        BY <3>3
      <4> HIDE DEF g
      <4> QED BY <3>3, <4>1
    <3> QED BY <3>1, <3>2, <3>3
  <2>3. SumFrom(list, g, m)
    <3>1. g = [k \in 0 .. m |-> g[k]]
      OBVIOUS
    <3> HIDE DEF g
    <3> QED BY <2>2, <3>1, Zenon DEF SumFrom
  <2> QED BY <2>3
<1> HIDE DEF T
<1>3. \A k \in 0 .. n : k \in T
  BY <1>1, <1>2, NatInduct
<1> QED BY <1>3 DEF T

\* BufferSize is that sum.
LEMMA BufferSizeIs ==
  ASSUME NEW list \in Seq(Segments)
  PROVE  \E f : /\ BufferSize(list) = f[Len(list)] /\ f[0] = 0
                /\ \A k \in 1 .. Len(list) : f[k] = f[k - 1] + PduSize(list[k])
                /\ \A k \in 0 .. Len(list) : f[k] \in Nat
<1> DEFINE n == Len(list)
           Body(f) == [i \in 0 .. Len(list) |-> IF i = 0 THEN 0 ELSE f[i - 1] + PduSize(list[i])]
           sum == CHOOSE f : f = Body(f)
<1>1. BufferSize(list) = sum[n]
  BY Zenon DEF BufferSize
<1>2. \A f : f = Body(f) <=> SumFrom(list, f, n)
  BY Zenon DEF SumFrom
<1>3. n \in Nat
  OBVIOUS
<1> HIDE DEF Body
<1>4. \E f : f = Body(f)
  BY <1>2, <1>3, SumExists, Zenon
<1>5. SumFrom(list, sum, n)
  BY <1>2, <1>4, Zenon
<1> HIDE DEF sum
<1>6. sum[0] = 0 /\ \A k \in 1 .. n : sum[k] = sum[k - 1] + PduSize(list[k])
  <2>1. 0 \in 0 .. n /\ \A k \in 1 .. n : k \in 0 .. n /\ k # 0
    BY <1>3
  <2> HIDE DEF n
  <2> QED BY <1>5, <2>1 DEF SumFrom
<1> DEFINE T == {k \in 0 .. n : sum[k] \in Nat}
<1>7. 0 \in T
  BY <1>3, <1>6
<1>8. ASSUME NEW k \in 1 .. n, k - 1 \in T PROVE k \in T
  <2>1. list[k] \in Segments /\ k \in 0 .. n
    BY <1>3
  <2>2. PduSize(list[k]) \in Nat
    BY <2>1, PduSizeIs
  <2>3. sum[k - 1] \in Nat /\ sum[k] = sum[k - 1] + PduSize(list[k])
    BY <1>6, <1>8
  <2> QED BY <2>1, <2>2, <2>3
<1>9. \A k \in 0 .. n : k \in T
  <2> HIDE DEF T, n
  <2> QED BY <1>3, <1>7, <1>8, NatInduct
<1> QED BY <1>1, <1>6, <1>9

\* t is s without its i-th entry.
Without(s, t, i) ==
  /\ Len(t) = Len(s) - 1
  /\ \A k \in 1 .. (i - 1) : t[k] = s[k]
  /\ \A k \in i .. Len(t) : t[k] = s[k + 1]

\* An entry less takes its size from the sum, wherever it is.
LEMMA SumWithout ==
  ASSUME NEW s \in Seq(Segments), NEW t \in Seq(Segments), NEW i \in 1 .. Len(s), Without(s, t, i)
  PROVE  /\ BufferSize(s) = BufferSize(t) + PduSize(s[i])
         /\ BufferSize(s) \in Nat /\ BufferSize(t) \in Nat /\ PduSize(s[i]) \in Nat
<1>1. PICK f : /\ BufferSize(s) = f[Len(s)] /\ f[0] = 0
               /\ \A k \in 1 .. Len(s) : f[k] = f[k - 1] + PduSize(s[k])
               /\ \A k \in 0 .. Len(s) : f[k] \in Nat
  BY BufferSizeIs
<1>2. PICK g : /\ BufferSize(t) = g[Len(t)] /\ g[0] = 0
               /\ \A k \in 1 .. Len(t) : g[k] = g[k - 1] + PduSize(t[k])
               /\ \A k \in 0 .. Len(t) : g[k] \in Nat
  BY BufferSizeIs
<1>3. PICK n, m : n = Len(s) /\ m = Len(t)
  OBVIOUS
<1>4. n \in Nat \ {0} /\ m = n - 1 /\ m \in Nat /\ i \in 1 .. n
  BY <1>3 DEF Without
<1>5. PICK x : x = PduSize(s[i])
  OBVIOUS
<1>6. x \in Nat
  <2>1. s[i] \in Segments
    OBVIOUS
  <2> QED BY <1>5, <2>1, PduSizeIs
<1>7. /\ \A k \in 1 .. n : f[k] = f[k - 1] + PduSize(s[k])
      /\ \A k \in 1 .. m : g[k] = g[k - 1] + PduSize(t[k])
      /\ \A k \in 0 .. n : f[k] \in Nat
      /\ \A k \in 0 .. m : g[k] \in Nat
  BY <1>1, <1>2, <1>3
<1>8. f[i] = f[i - 1] + x
  BY <1>4, <1>5, <1>7
<1> DEFINE T == {k \in 0 .. m : IF k < i THEN f[k] = g[k] ELSE f[k + 1] = g[k] + x}
<1>9. 0 \in T
  BY <1>1, <1>2, <1>4
<1>10. ASSUME NEW k \in 1 .. m, k - 1 \in T PROVE k \in T
  <2>1. g[k] = g[k - 1] + PduSize(t[k]) /\ g[k - 1] \in Nat /\ k \in 0 .. m /\ k \in Nat
    <3>1. k - 1 \in 0 .. m /\ k \in 0 .. m /\ k \in Nat
      BY <1>4
    <3> QED BY <1>7, <3>1
  <2>2. PduSize(t[k]) \in Nat
    <3>1. t[k] \in Segments
      BY <1>3
    <3> QED BY <3>1, PduSizeIs
  <2>3. CASE k < i
    <3>1. t[k] = s[k] /\ f[k] = f[k - 1] + PduSize(s[k]) /\ f[k - 1] = g[k - 1]
      <4>1. k \in 1 .. (i - 1) /\ k \in 1 .. n /\ k - 1 \in 0 .. m /\ k - 1 < i
        BY <1>4, <2>3
      <4>2. f[k] = f[k - 1] + PduSize(s[k])
        BY <1>7, <4>1
      <4>3. f[k - 1] = g[k - 1]
        BY <1>10, <4>1
      <4> QED BY <4>1, <4>2, <4>3 DEF Without
    <3> QED BY <2>1, <2>3, <3>1
  <2>4. CASE k = i
    <3>1. t[k] = s[k + 1] /\ f[k + 1] = f[(k + 1) - 1] + PduSize(s[k + 1]) /\ f[k - 1] = g[k - 1]
      BY <1>3, <1>4, <1>7, <1>10, <2>4 DEF Without
    <3>2. (k + 1) - 1 = k /\ f[k] = f[k - 1] + x
      BY <1>8, <2>1, <2>4
    <3>3. f[k + 1] = g[k] + x
      BY <1>6, <2>1, <2>2, <3>1, <3>2
    <3> QED BY <2>1, <2>4, <3>3
  <2>5. CASE k > i
    <3>1. t[k] = s[k + 1] /\ f[k + 1] = f[(k + 1) - 1] + PduSize(s[k + 1]) /\ f[(k - 1) + 1] = g[k - 1] + x
      BY <1>3, <1>4, <1>7, <1>10, <2>5 DEF Without
    <3>2. (k + 1) - 1 = k /\ (k - 1) + 1 = k
      BY <2>1
    <3>3. f[k + 1] = g[k] + x
      BY <1>6, <2>1, <2>2, <3>1, <3>2
    <3> QED BY <1>4, <2>1, <2>5, <3>3
  <2> QED BY <1>4, <2>1, <2>3, <2>4, <2>5
<1>11. \A k \in 0 .. m : k \in T
  <2> HIDE DEF T
  <2> QED BY <1>4, <1>9, <1>10, NatInduct
<1>12. f[n] = g[m] + x
  <2>1. CASE m < i
    <3>1. i = n /\ f[m] = g[m] /\ i - 1 = m
      BY <1>4, <1>11, <2>1
    <3> QED BY <1>8, <3>1
  <2>2. CASE ~(m < i)
    <3>1. f[m + 1] = g[m] + x /\ m + 1 = n
      BY <1>4, <1>11, <2>2
    <3> QED BY <3>1
  <2> QED BY <2>1, <2>2
<1> QED BY <1>1, <1>2, <1>3, <1>4, <1>5, <1>6, <1>7, <1>12

---------------------------------------------------------------------------
(* The transmitting side.                                                  *)

\* What an entry at place i of the list says of its SDU.
EntryOk(s, i, sdus) ==
  /\ s.last /\ s.id \in DOMAIN sdus /\ s.so + s.size = sdus[s.id]
  /\ s.first \/ i = 1
  /\ s.first <=> s.so = 0

\* The list: one entry for an SDU, in the order in which they came.
ListOk(list, sdus) ==
  /\ list \in Seq(Segments)
  /\ \A i \in DOMAIN list : EntryOk(list[i], i, sdus)
  /\ \A i, j \in DOMAIN list : i < j => list[i].id < list[j].id

\* The fields of the transmitting side.
TxRecords == [tx_next : Sns, tx_list : Seq(Segments), tx_end : Seq(Nat), tx_size : Int, bstatus : Int,
              sdus : Seq(Nat)]

\* The inductive invariant of the transmitting side: TxListConsistent, and that the ids of
\* the entries ascend, so that a node is found where the code's pointer leads.
TxInv(t) ==
  /\ t \in TxRecords /\ ListOk(t.tx_list, t.sdus)
  /\ t.bstatus = BufferSize(t.tx_list)
  /\ t.tx_end = EndOf(t.tx_list)

\* The buffer status of the empty list.
LEMMA BufferSizeEmpty == BufferSize(<<>>) = 0
<1>1. <<>> \in Seq(Segments) /\ Len(<<>>) = 0
  OBVIOUS
<1> QED BY <1>1, BufferSizeIs

\* The end of the list as a node.
LEMMA EndIs ==
  ASSUME NEW list \in Seq(Segments)
  PROVE  /\ EndOf(list) \in Seq(Nat)
         /\ list # <<>> => EndOf(list) = Node(list[Len(list)])
         /\ list = <<>> => EndOf(list) = Null
<1>1. CASE list = <<>>
  BY <1>1 DEF EndOf, Null
<1>2. CASE list # <<>>
  <2>1. list[Len(list)] \in Segments
    BY <1>2
  <2>2. Node(list[Len(list)]) \in Seq(Nat)
    BY <2>1 DEF Node, Segments
  <2> QED BY <1>2, <2>2, Zenon DEF EndOf, Last
<1> QED BY <1>1, <1>2

\* Two nodes are equal only if their ids and offsets are.
LEMMA NodesDiffer == \A a, b \in Segments : Node(a) = Node(b) => a.id = b.id
<1> SUFFICES ASSUME NEW a \in Segments, NEW b \in Segments, Node(a) = Node(b) PROVE a.id = b.id
  OBVIOUS
<1>1. <<a.id, a.so>>[1] = <<b.id, b.so>>[1]
  BY Zenon DEF Node
<1> QED BY <1>1

\* A node is something.
LEMMA NodeNotNull == \A a : Node(a) # Null
BY DEF Node, Null

\* recv_sdu's new node goes to the end of the list, because tx_end is its last node.
LEMMA AppendAtEnd ==
  ASSUME NEW list, NEW sdus, ListOk(list, sdus), NEW s
  PROVE  segment_list_append(list, EndOf(list), s) = Append(list, s)
<1> DEFINE I == {k \in 1 .. Len(list) : Node(list[k]) = EndOf(list)}
           i == IF I # {} THEN Min(I) ELSE 0
<1>1. list \in Seq(Segments) /\ Len(list) \in Nat /\ DOMAIN list = 1 .. Len(list)
  BY DEF ListOk
<1>2. segment_list_append(list, EndOf(list), s)
        = IF list = <<>> \/ i # 0 THEN Append(SubSeq(list, 1, i), s) ELSE list
  BY Zenon DEF segment_list_append, SelectInSeq
<1>3. CASE list = <<>>
  <2>1. I = {}
    BY <1>3
  <2>2. SubSeq(<<>>, 1, 0) = <<>>
    OBVIOUS
  <2> QED BY <1>2, <1>3, <2>1, <2>2
<1>4. CASE list # <<>>
  <2>1. Len(list) \in 1 .. Len(list) /\ list[Len(list)] \in Segments
    BY <1>1, <1>4
  <2>2. EndOf(list) = Node(list[Len(list)])
    BY <1>1, <1>4, EndIs
  <2>3. \A k \in 1 .. Len(list) : Node(list[k]) = EndOf(list) => k = Len(list)
    <3> SUFFICES ASSUME NEW k \in 1 .. Len(list), Node(list[k]) = EndOf(list) PROVE k = Len(list)
      OBVIOUS
    <3>1. list[k] \in Segments
      BY <1>1
    <3>2. list[k].id = list[Len(list)].id
      BY <2>1, <2>2, <3>1, NodesDiffer
    <3>3. list[k].id \in Nat
      BY <3>1 DEF Segments
    <3>4. k < Len(list) => list[k].id < list[Len(list)].id
      BY <1>1, <2>1 DEF ListOk
    <3>5. ~(k < Len(list))
      BY <3>2, <3>3, <3>4
    <3>6. k <= Len(list) /\ k \in Nat
      BY <1>1
    <3>7. \A a, b \in Nat : a <= b /\ ~(a < b) => a = b
      OBVIOUS
    <3> QED BY <1>1, <3>5, <3>6, <3>7, Zenon
  <2>4. I = {Len(list)}
    BY <2>1, <2>2, <2>3
  <2>5. I \subseteq Nat /\ I # {}
    BY <1>1, <2>4
  <2> HIDE DEF I
  <2>6. i = Len(list)
    BY <2>4, <2>5, MinNat
  <2>7. SubSeq(list, 1, Len(list)) = list
    BY <1>1
  <2>8. Len(list) # 0
    BY <1>1, <2>1
  <2> HIDE DEF i
  <2> QED BY <1>2, <2>6, <2>7, <2>8, Zenon
<1> QED BY <1>3, <1>4

\* The buffer status after an entry more or less, at either end.
LEMMA SumAppend ==
  ASSUME NEW list \in Seq(Segments), NEW s \in Segments
  PROVE  /\ BufferSize(Append(list, s)) = BufferSize(list) + PduSize(s)
         /\ BufferSize(list) \in Nat /\ PduSize(s) \in Nat
<1> DEFINE new == Append(list, s)
           n == Len(list) + 1
<1>1. /\ new \in Seq(Segments) /\ Len(new) = n /\ n \in 1 .. Len(new) /\ new[n] = s
      /\ Len(list) \in Nat
  OBVIOUS
<1>2. Without(new, list, n)
  BY <1>1 DEF Without
<1> HIDE DEF new, n
<1>3. /\ BufferSize(new) = BufferSize(list) + PduSize(new[n])
      /\ BufferSize(list) \in Nat /\ PduSize(new[n]) \in Nat
  BY <1>1, <1>2, SumWithout
<1> QED BY <1>1, <1>3 DEF new

\* The same for the head.
LEMMA SumHead ==
  ASSUME NEW list \in Seq(Segments), list # <<>>
  PROVE  /\ BufferSize(list) = BufferSize(Tail(list)) + PduSize(list[1])
         /\ BufferSize(list) \in Nat /\ BufferSize(Tail(list)) \in Nat /\ PduSize(list[1]) \in Nat
<1>1. /\ Tail(list) \in Seq(Segments) /\ 1 \in 1 .. Len(list) /\ Len(list) \in Nat
      /\ Len(Tail(list)) = Len(list) - 1
      /\ \A k \in 1 .. Len(Tail(list)) : Tail(list)[k] = list[k + 1]
  OBVIOUS
<1>2. Without(list, Tail(list), 1)
  BY <1>1 DEF Without
<1> QED BY <1>1, <1>2, SumWithout

\* recv_sdu keeps the invariant.
LEMMA RecvSduKeeps ==
  ASSUME NEW t, TxInv(t), NEW size \in Nat \ {0}
  PROVE  TxInv(recv_sdu(t, size))
<1> DEFINE s == [id |-> Len(t.sdus) + 1, so |-> 0, size |-> size, first |-> TRUE, last |-> TRUE]
           list == Append(t.tx_list, s)
           sdus == Append(t.sdus, size)
           u == [t EXCEPT !.tx_size = @ + size, !.sdus = sdus, !.tx_list = list, !.tx_end = Node(s),
                          !.bstatus = @ + PduSize(s)]
<1>1. t \in TxRecords /\ t.tx_list \in Seq(Segments) /\ t.sdus \in Seq(Nat) /\ t.bstatus \in Int /\ t.tx_size \in Int
  BY DEF TxInv, TxRecords
<1>2. recv_sdu(t, size) = IF t.tx_size + size > TxMaxSize THEN t ELSE u
  <2>1. segment_list_append(t.tx_list, t.tx_end, s) = list
    BY AppendAtEnd, Zenon DEF TxInv
  <2> QED BY <2>1 DEF recv_sdu
<1>3. s \in Segments
  BY <1>1 DEF Segments
<1>4. Node(s) \in Seq(Nat)
  BY <1>1 DEF Node
<1>5. PduSize(s) \in Nat /\ BufferSize(list) = BufferSize(t.tx_list) + PduSize(s)
  BY <1>1, <1>3, SumAppend
<1>6. list \in Seq(Segments) /\ Len(list) = Len(t.tx_list) + 1 /\ DOMAIN list = 1 .. (Len(t.tx_list) + 1)
      /\ Len(t.tx_list) \in Nat /\ DOMAIN t.tx_list = 1 .. Len(t.tx_list)
      /\ list[Len(t.tx_list) + 1] = s /\ \A i \in 1 .. Len(t.tx_list) : list[i] = t.tx_list[i]
  BY <1>1, <1>3
<1>7. sdus \in Seq(Nat) /\ DOMAIN sdus = 1 .. (Len(t.sdus) + 1) /\ sdus[Len(t.sdus) + 1] = size
      /\ Len(t.sdus) \in Nat /\ DOMAIN t.sdus = 1 .. Len(t.sdus)
      /\ \A i \in 1 .. Len(t.sdus) : sdus[i] = t.sdus[i]
  BY <1>1
<1>8. s.id = Len(t.sdus) + 1 /\ s.so = 0 /\ s.size = size /\ s.last /\ s.first
  OBVIOUS
<1> HIDE DEF s, list, sdus
<1>9. ListOk(list, sdus)
  <2>1. ASSUME NEW i \in DOMAIN list PROVE EntryOk(list[i], i, sdus)
    <3>1. CASE i \in 1 .. Len(t.tx_list)
      <4>1. EntryOk(t.tx_list[i], i, t.sdus)
        BY <1>6, <3>1 DEF TxInv, ListOk
      <4>2. t.tx_list[i].id \in 1 .. Len(t.sdus)
        BY <1>7, <4>1 DEF EntryOk
      <4>3. t.tx_list[i].id \in DOMAIN sdus /\ sdus[t.tx_list[i].id] = t.sdus[t.tx_list[i].id]
        BY <1>7, <4>2
      <4>4. list[i] = t.tx_list[i]
        BY <1>6, <3>1
      <4> QED BY <4>1, <4>3, <4>4, Zenon DEF EntryOk
    <3>2. CASE i = Len(t.tx_list) + 1
      <4>1. Len(t.sdus) + 1 \in DOMAIN sdus /\ s.so + s.size = size
        BY <1>7, <1>8
      <4> QED BY <1>6, <1>7, <1>8, <3>2, <4>1 DEF EntryOk
    <3> QED BY <1>6, <3>1, <3>2
  <2>2. ASSUME NEW i \in DOMAIN list, NEW j \in DOMAIN list, i < j PROVE list[i].id < list[j].id
    <3>1. i \in 1 .. Len(t.tx_list)
      BY <1>6, <2>2
    <3>2. CASE j \in 1 .. Len(t.tx_list)
      BY <1>6, <2>2, <3>1, <3>2 DEF TxInv, ListOk
    <3>3. CASE j = Len(t.tx_list) + 1
      <4>1. EntryOk(t.tx_list[i], i, t.sdus)
        BY <1>6, <3>1 DEF TxInv, ListOk
      <4>2. t.tx_list[i].id \in 1 .. Len(t.sdus)
        BY <1>7, <4>1 DEF EntryOk
      <4>3. list[i] = t.tx_list[i] /\ list[j].id = Len(t.sdus) + 1
        BY <1>6, <1>8, <3>1, <3>3
      <4>4. t.tx_list[i].id < Len(t.sdus) + 1
        BY <1>7, <4>2
      <4> QED BY <4>3, <4>4, Zenon
    <3> QED BY <1>6, <3>2, <3>3
  <2> QED BY <1>6, <2>1, <2>2 DEF ListOk
<1>10. EndOf(list) = Node(s)
  <2>1. list # <<>>
    BY <1>6
  <2> QED BY <1>6, <2>1, EndIs
<1>11. u \in TxRecords /\ u.tx_list = list /\ u.sdus = sdus /\ u.tx_end = Node(s)
       /\ u.bstatus = t.bstatus + PduSize(s)
  <2>1. list \in Seq(Segments) /\ sdus \in Seq(Nat) /\ t.bstatus + PduSize(s) \in Int /\ t.tx_size + size \in Int
    <3>1. \A x \in Int, y \in Nat : x + y \in Int
      OBVIOUS
    <3>2. size \in Nat
      OBVIOUS
    <3> QED BY <1>1, <1>5, <1>6, <1>7, <3>1, <3>2, Zenon
  <2>2. PICK e, b, z : e = Node(s) /\ b = t.bstatus + PduSize(s) /\ z = t.tx_size + size
    OBVIOUS
  <2>3. t.tx_next \in Sns /\ u = [t EXCEPT !.tx_next = t.tx_next, !.tx_size = z, !.sdus = sdus, !.tx_list = list,
                                          !.tx_end = e, !.bstatus = b]
    BY <1>1, <2>2 DEF TxRecords
  <2>4. e \in Seq(Nat) /\ b \in Int /\ z \in Int
    BY <1>4, <2>1, <2>2
  <2>5. t.tx_next \in Sns /\ t \in TxRecords /\ list \in Seq(Segments) /\ sdus \in Seq(Nat)
    BY <1>1, <2>1, <2>3
  <2> HIDE DEF u
  <2>6. u \in TxRecords /\ u.tx_list = list /\ u.sdus = sdus /\ u.tx_end = e /\ u.bstatus = b
    BY <2>3, <2>4, <2>5 DEF TxRecords
  <2> QED BY <2>2, <2>6, Zenon
<1> HIDE DEF u
<1>12. TxInv(u)
  BY <1>5, <1>9, <1>10, <1>11, Zenon DEF TxInv
<1> QED BY <1>2, <1>12, Zenon

\* The list without its head, which generate_tx_pdu takes out.
TakeHead(t) ==
  [t EXCEPT !.tx_list = Tail(t.tx_list), !.tx_end = IF Tail(t.tx_list) = <<>> THEN Null ELSE @,
            !.bstatus = @ - PduSize(Head(t.tx_list))]

\* The head, if it is there, comes before all that is left and alone may have been cut.
LEMMA TakeHeadKeeps ==
  ASSUME NEW t, TxInv(t), t.tx_list # <<>>
  PROVE  /\ TxInv(TakeHead(t))
         /\ Head(t.tx_list) \in Segments /\ EntryOk(Head(t.tx_list), 1, t.sdus)
         /\ TakeHead(t).sdus = t.sdus /\ TakeHead(t).tx_list = Tail(t.tx_list)
         /\ \A i \in DOMAIN Tail(t.tx_list) : /\ Tail(t.tx_list)[i].first
                                              /\ Head(t.tx_list).id < Tail(t.tx_list)[i].id
<1> DEFINE list == t.tx_list
           rest == Tail(t.tx_list)
           s == Head(t.tx_list)
<1>1. t \in TxRecords /\ list \in Seq(Segments) /\ t.sdus \in Seq(Nat) /\ t.bstatus \in Int
      /\ t.tx_end \in Seq(Nat)
  BY DEF TxInv, TxRecords
<1>2. PICK n : n = Len(list) /\ n \in Nat \ {0} /\ DOMAIN list = 1 .. n
  <2>1. Len(list) \in Nat /\ Len(list) # 0 /\ DOMAIN list = 1 .. Len(list)
    BY <1>1
  <2> QED BY <2>1
<1>3. /\ rest \in Seq(Segments) /\ Len(rest) = n - 1 /\ DOMAIN rest = 1 .. (n - 1) /\ s = list[1] /\ s \in Segments
      /\ \A i \in 1 .. (n - 1) : rest[i] = list[i + 1]
  BY <1>1, <1>2
<1>4. EntryOk(s, 1, t.sdus)
  BY <1>2, <1>3 DEF TxInv, ListOk
<1>5. ASSUME NEW i \in DOMAIN rest
      PROVE  rest[i].first /\ s.id < rest[i].id /\ EntryOk(rest[i], i, t.sdus)
  <2>1. i \in Nat \ {0} /\ i + 1 \in DOMAIN list /\ 1 \in DOMAIN list /\ 1 < i + 1 /\ i + 1 # 1 /\ rest[i] = list[i + 1]
    BY <1>2, <1>3
  <2>2. EntryOk(list[i + 1], i + 1, t.sdus) /\ list[1].id < list[i + 1].id
    BY <2>1 DEF TxInv, ListOk
  <2> QED BY <1>3, <2>1, <2>2, Zenon DEF EntryOk
<1>6. ASSUME NEW i \in DOMAIN rest, NEW j \in DOMAIN rest, i < j PROVE rest[i].id < rest[j].id
  <2>1. i + 1 \in DOMAIN list /\ j + 1 \in DOMAIN list /\ i + 1 < j + 1
        /\ rest[i] = list[i + 1] /\ rest[j] = list[j + 1]
    BY <1>2, <1>3, <1>6
  <2>2. list[i + 1].id < list[j + 1].id
    BY <2>1 DEF TxInv, ListOk
  <2> QED BY <2>1, <2>2, Zenon
<1>7. ListOk(rest, t.sdus)
  BY <1>3, <1>5, <1>6, Zenon DEF ListOk
<1>8. /\ BufferSize(list) = BufferSize(rest) + PduSize(s)
      /\ BufferSize(list) \in Nat /\ BufferSize(rest) \in Nat /\ PduSize(s) \in Nat
  BY <1>1, <1>3, SumHead
<1>9. t.bstatus - PduSize(s) = BufferSize(rest)
  BY <1>8 DEF TxInv
<1>10. EndOf(rest) = IF rest = <<>> THEN Null ELSE t.tx_end
  <2>1. CASE rest = <<>>
    BY <1>3, <2>1, EndIs, Zenon
  <2>2. CASE rest # <<>>
    <3>1. n - 1 \in 1 .. (n - 1) /\ (n - 1) + 1 = n
      BY <1>2, <1>3, <2>2
    <3>2. rest[n - 1] = list[n]
      BY <1>3, <3>1
    <3>3. EndOf(rest) = Node(rest[n - 1])
      BY <1>3, <2>2, EndIs
    <3>4. EndOf(list) = Node(list[n])
      BY <1>1, <1>2, EndIs
    <3> QED BY <2>2, <3>2, <3>3, <3>4, Zenon DEF TxInv
  <2> QED BY <2>1, <2>2, Zenon
<1>11. PICK e, b : e = EndOf(rest) /\ b = BufferSize(rest)
  OBVIOUS
<1>12. e \in Seq(Nat) /\ b \in Int
  <2>1. EndOf(rest) \in Seq(Nat)
    BY <1>3, EndIs, Zenon
  <2>2. \A x \in Nat : x \in Int
    OBVIOUS
  <2> QED BY <1>8, <1>11, <2>1, <2>2, Zenon
<1>13. TakeHead(t) = [t EXCEPT !.tx_list = rest, !.tx_end = e, !.bstatus = b]
  BY <1>9, <1>10, <1>11 DEF TakeHead
<1> HIDE DEF rest, s, list
<1>14. TakeHead(t) \in TxRecords /\ TakeHead(t).sdus = t.sdus /\ TakeHead(t).tx_list = rest
       /\ TakeHead(t).tx_end = e /\ TakeHead(t).bstatus = b
  BY <1>1, <1>3, <1>12, <1>13 DEF TxRecords
<1>15. TxInv(TakeHead(t))
  BY <1>7, <1>11, <1>14, Zenon DEF TxInv
<1> QED BY <1>3, <1>4, <1>5, <1>14, <1>15, Zenon DEF rest, s

\* What is left of a segmented SDU goes back to the head of the list.
LEMMA PutBackKeeps ==
  ASSUME NEW t, TxInv(t), NEW s \in Segments, EntryOk(s, 1, t.sdus),
         \A i \in DOMAIN t.tx_list : t.tx_list[i].first /\ s.id < t.tx_list[i].id
  PROVE  TxInv([t EXCEPT !.tx_list = <<s>> \o @, !.tx_end = IF @ = Null THEN Node(s) ELSE @,
                         !.bstatus = @ + PduSize(s)])
<1> DEFINE rest == t.tx_list
           list == <<s>> \o t.tx_list
<1>1. t \in TxRecords /\ rest \in Seq(Segments) /\ t.sdus \in Seq(Nat) /\ t.bstatus \in Int
      /\ t.tx_end \in Seq(Nat)
  BY DEF TxInv, TxRecords
<1>2. PICK n : n = Len(rest) /\ n \in Nat /\ DOMAIN rest = 1 .. n
  BY <1>1
<1>3. /\ list \in Seq(Segments) /\ Len(list) = n + 1 /\ DOMAIN list = 1 .. (n + 1) /\ list[1] = s
      /\ \A i \in 1 .. n : list[i + 1] = rest[i]
      /\ list # <<>>
  BY <1>1, <1>2
<1>4. Tail(list) = rest
  BY <1>1
<1>5. \A i \in DOMAIN list : i = 1 \/ (i - 1 \in DOMAIN rest /\ list[i] = rest[i - 1] /\ i # 1)
  <2> SUFFICES ASSUME NEW i \in 1 .. (n + 1), i # 1
               PROVE  i - 1 \in 1 .. n /\ list[i] = rest[i - 1]
    BY <1>2, <1>3
  <2>1. i - 1 \in 1 .. n /\ (i - 1) + 1 = i
    BY <1>2
  <2>2. list[(i - 1) + 1] = rest[i - 1]
    BY <1>3, <2>1
  <2> QED BY <2>1, <2>2
<1> HIDE DEF list
<1>6. ASSUME NEW i \in DOMAIN list PROVE EntryOk(list[i], i, t.sdus)
  <2>1. CASE i = 1
    BY <1>3, <2>1
  <2>2. CASE i # 1
    <3>1. EntryOk(rest[i - 1], i - 1, t.sdus) /\ rest[i - 1].first /\ list[i] = rest[i - 1]
      BY <1>5, <2>2, Zenon DEF TxInv, ListOk
    <3> QED BY <3>1, Zenon DEF EntryOk
  <2> QED BY <2>1, <2>2
<1>7. ASSUME NEW i \in DOMAIN list, NEW j \in DOMAIN list, i < j PROVE list[i].id < list[j].id
  <2>1. j # 1 /\ i \in Nat \ {0} /\ j \in Nat \ {0}
    BY <1>2, <1>3, <1>7
  <2>2. CASE i = 1
    BY <1>3, <1>5, <2>1, <2>2, Zenon
  <2>3. CASE i # 1
    <3>1. i - 1 < j - 1
      BY <1>7, <2>1
    <3> QED BY <1>5, <2>1, <2>3, <3>1, Zenon DEF TxInv, ListOk
  <2> QED BY <2>2, <2>3
<1>8. ListOk(list, t.sdus)
  BY <1>3, <1>6, <1>7, Zenon DEF ListOk
<1>9. PICK e, b : e = EndOf(list) /\ b = BufferSize(list)
  OBVIOUS
<1>10. b = t.bstatus + PduSize(s) /\ b \in Int
  <2>1. BufferSize(list) = BufferSize(rest) + PduSize(s) /\ BufferSize(list) \in Nat
    BY <1>3, <1>4, SumHead
  <2> QED BY <1>9, <2>1 DEF TxInv
<1>11. e = (IF t.tx_end = Null THEN Node(s) ELSE t.tx_end) /\ e \in Seq(Nat)
  <2>1. EndOf(list) = Node(list[n + 1]) /\ e \in Seq(Nat)
    BY <1>3, <1>9, EndIs
  <2>2. CASE rest = <<>>
    <3>1. n + 1 = 1
      BY <1>2, <2>2
    <3>2. t.tx_end = Null
      BY <1>1, <2>2, EndIs, Zenon DEF TxInv
    <3> QED BY <1>3, <1>9, <2>1, <3>1, <3>2, Zenon
  <2>3. CASE rest # <<>>
    <3>1. n \in 1 .. n
      BY <1>1, <1>2, <2>3
    <3>2. list[n + 1] = rest[n] /\ t.tx_end = Node(rest[n])
      BY <1>1, <1>2, <1>3, <2>3, <3>1, EndIs DEF TxInv
    <3>3. t.tx_end # Null
      BY <3>2, NodeNotNull, Zenon
    <3> QED BY <1>9, <2>1, <3>2, <3>3, Zenon
  <2> QED BY <2>2, <2>3
<1>12. PICK u : u = [t EXCEPT !.tx_list = list, !.tx_end = e, !.bstatus = b]
  OBVIOUS
<1>13. u = [t EXCEPT !.tx_list = <<s>> \o @, !.tx_end = IF @ = Null THEN Node(s) ELSE @, !.bstatus = @ + PduSize(s)]
  BY <1>10, <1>11, <1>12 DEF list
<1>14. u \in TxRecords /\ u.tx_list = list /\ u.sdus = t.sdus /\ u.tx_end = e /\ u.bstatus = b
  BY <1>1, <1>3, <1>10, <1>11, <1>12 DEF TxRecords
<1>15. TxInv(u)
  BY <1>8, <1>9, <1>14, Zenon DEF TxInv
<1> QED BY <1>13, <1>15, Zenon

\* A PDU leaves: the numbers that serialize_sdu changes are not those of the list.
LEMMA SerializeKeeps ==
  ASSUME NEW t, TxInv(t), NEW s \in Segments
  PROVE  TxInv(serialize_sdu(t, s).t)
<1>1. PICK z, x : z = t.tx_size - s.size /\ x = IF ~s.first /\ s.last THEN Plus(t.tx_next, 1) ELSE t.tx_next
  OBVIOUS
<1>2. t \in TxRecords /\ t.tx_size \in Int /\ t.tx_next \in Sns /\ t.tx_next \in Int
  BY SnAssumption DEF TxInv, TxRecords, Sns
<1>3. SnCount \in Nat \ {0}
  BY SnAssumption
<1>3a. s.size \in Int
  BY DEF Segments
<1>4. z \in Int /\ Plus(t.tx_next, 1) \in Sns
  BY <1>1, <1>2, <1>3, <1>3a DEF Plus, Sns
<1>5. x \in Sns
  BY <1>1, <1>2, <1>4
<1>6. PICK u : u = [t EXCEPT !.tx_size = z, !.tx_next = x]
  OBVIOUS
<1>7. serialize_sdu(t, s).t = u
  BY <1>1, <1>6 DEF serialize_sdu
<1>8. u \in TxRecords /\ u.tx_list = t.tx_list /\ u.sdus = t.sdus /\ u.tx_end = t.tx_end /\ u.bstatus = t.bstatus
  BY <1>2, <1>4, <1>5, <1>6 DEF TxRecords
<1>9. TxInv(u)
  BY <1>8, Zenon DEF TxInv
<1> QED BY <1>7, <1>9, Zenon

\* Where resegment cuts a segment that does not fit: both parts have bytes, and the second
\* goes on where the first ends.
LEMMA ResegmentIs ==
  ASSUME NEW s \in Segments, NEW size \in Nat, ~(PduSize(s) <= size), resegment(s, size) # <<>>,
         NEW a, NEW b, a = resegment(s, size)[1], b = resegment(s, size)[2]
  PROVE  /\ b \in Segments /\ b.id = s.id /\ b.last = s.last /\ b.so + b.size = s.so + s.size
         /\ ~b.first /\ b.so # 0
         /\ a \in Segments /\ a.so = s.so /\ a.first = s.first
<1>1. SnExtra \in Nat
  BY SnAssumption
<1>2. s \in [id : Nat, so : Nat, size : Nat \ {0}, first : BOOLEAN, last : BOOLEAN]
  BY DEF Segments
<1>3. PICK c : c = [s EXCEPT !.last = FALSE]
  OBVIOUS
<1>4. c.first = s.first /\ c.last = FALSE
  BY <1>2, <1>3
<1>5. PICK h, k : h = compute_pdu_header_size(s) /\ k = compute_pdu_header_size(c)
  OBVIOUS
<1>6. h \in Nat /\ k \in Nat /\ h <= k
  BY <1>1, <1>2, <1>4, <1>5 DEF compute_pdu_header_size
<1>7. s.size \in Nat \ {0} /\ s.so \in Nat
  BY <1>2
<1>8. h + s.size > size
  BY <1>5, <1>6, <1>7 DEF PduSize
<1>9. PICK room : room = size - k
  OBVIOUS
<1>10. resegment(s, size) =
         IF room < 1 THEN <<>>
         ELSE <<[s EXCEPT !.size = room, !.last = FALSE],
                [s EXCEPT !.size = @ - room, !.so = @ + room, !.first = FALSE]>>
  BY <1>3, <1>5, <1>9, Zenon DEF resegment
<1>11. room \in Int /\ ~(room < 1)
  BY <1>6, <1>9, <1>10
<1>12. s.size - room \in Nat \ {0} /\ s.so + room \in Nat \ {0} /\ room \in Nat /\ (s.so + room) + (s.size - room) = s.so + s.size
  BY <1>6, <1>7, <1>8, <1>9, <1>11
<1>13. /\ a = [s EXCEPT !.size = room, !.last = FALSE]
       /\ b = [s EXCEPT !.size = @ - room, !.so = @ + room, !.first = FALSE]
  BY <1>10, <1>11
<1>14. room \in Nat \ {0}
  BY <1>11
<1>15. a \in Segments /\ a.so = s.so /\ a.first = s.first
  BY <1>2, <1>13, <1>14 DEF Segments
<1>16. PICK d, o : d = s.size - room /\ o = s.so + room
  OBVIOUS
<1>17. b = [s EXCEPT !.size = d, !.so = o, !.first = FALSE]
  BY <1>13, <1>16
<1>18. b \in Segments /\ ~b.first /\ b.size = d /\ b.so = o /\ b.id = s.id /\ b.last = s.last
  BY <1>2, <1>12, <1>16, <1>17 DEF Segments
<1> QED BY <1>12, <1>15, <1>16, <1>18

\* generate_tx_pdu keeps the invariant.
LEMMA GenerateKeeps ==
  ASSUME NEW t, TxInv(t), NEW size \in Nat
  PROVE  TxInv(generate_tx_pdu(t, size).t)
<1> DEFINE s == Head(t.tx_list)
           u == TakeHead(t)
           parts == resegment(s, size)
           v == [u EXCEPT !.tx_list = <<parts[2]>> \o @, !.tx_end = IF @ = Null THEN Node(parts[2]) ELSE @,
                          !.bstatus = @ + PduSize(parts[2])]
<1>1. generate_tx_pdu(t, size) =
        IF t.tx_list = <<>> \/ compute_pdu_header_size(s) + 1 > size THEN [t |-> t, pdu |-> <<>>]
        ELSE IF PduSize(s) <= size THEN serialize_sdu(u, s)
        ELSE IF parts = <<>> THEN [t |-> u, pdu |-> <<>>]
        ELSE serialize_sdu(v, parts[1])
  BY Zenon DEF generate_tx_pdu, TakeHead
<1>2. CASE t.tx_list = <<>> \/ compute_pdu_header_size(s) + 1 > size
  <2>1. generate_tx_pdu(t, size) = [t |-> t, pdu |-> <<>>]
    BY <1>1, <1>2, Zenon
  <2> QED BY <2>1
<1>3. CASE ~(t.tx_list = <<>> \/ compute_pdu_header_size(s) + 1 > size)
  <2>1. t.tx_list # <<>>
    BY <1>3, Zenon
  <2>2. /\ TxInv(u) /\ s \in Segments /\ EntryOk(s, 1, t.sdus)
        /\ u.sdus = t.sdus /\ u.tx_list = Tail(t.tx_list)
        /\ \A i \in DOMAIN Tail(t.tx_list) : Tail(t.tx_list)[i].first /\ s.id < Tail(t.tx_list)[i].id
    BY <2>1, TakeHeadKeeps, Zenon
  <2>4. CASE PduSize(s) <= size
    <3>1. generate_tx_pdu(t, size) = serialize_sdu(u, s)
      BY <1>1, <1>3, <2>4, Zenon
    <3> QED BY <2>2, <3>1, SerializeKeeps, Zenon
  <2>5. CASE ~(PduSize(s) <= size) /\ parts = <<>>
    <3>1. generate_tx_pdu(t, size) = [t |-> u, pdu |-> <<>>]
      BY <1>1, <1>3, <2>5, Zenon
    <3> HIDE DEF u
    <3>2. generate_tx_pdu(t, size).t = u
      BY <3>1
    <3> QED BY <2>2, <3>2, Zenon
  <2>6. CASE ~(PduSize(s) <= size) /\ parts # <<>>
    <3>1. generate_tx_pdu(t, size) = serialize_sdu(v, parts[1])
      BY <1>1, <1>3, <2>6, Zenon
    <3>2. PICK a, b : a = parts[1] /\ b = parts[2]
      OBVIOUS
    <3>3. a \in Segments /\ b \in Segments /\ b.id = s.id /\ b.last = s.last /\ b.so + b.size = s.so + s.size
          /\ ~b.first /\ b.so # 0
      <4>1. /\ ~(PduSize(s) <= size) /\ resegment(s, size) # <<>> /\ s \in Segments
            /\ a = resegment(s, size)[1] /\ b = resegment(s, size)[2]
        BY <2>2, <2>6, <3>2, Zenon
      <4> HIDE DEF s
      <4> QED BY <4>1, ResegmentIs
    <3>4. EntryOk(b, 1, u.sdus)
      BY <2>2, <3>3, Zenon DEF EntryOk
    <3>5. \A i \in DOMAIN u.tx_list : u.tx_list[i].first /\ b.id < u.tx_list[i].id
      BY <2>2, <3>3, Zenon
    <3> HIDE DEF u
    <3>6. TxInv([u EXCEPT !.tx_list = <<b>> \o @, !.tx_end = IF @ = Null THEN Node(b) ELSE @,
                          !.bstatus = @ + PduSize(b)])
      BY <2>2, <3>3, <3>4, <3>5, PutBackKeeps, Zenon
    <3>7. TxInv(v)
      BY <3>2, <3>6, Zenon
    <3> HIDE DEF v, parts
    <3> QED BY <3>1, <3>2, <3>3, <3>7, SerializeKeeps, Zenon
  <2> QED BY <2>4, <2>5, <2>6, Zenon
<1> QED BY <1>2, <1>3, Zenon

\* RemoveAt closes the gap.
LEMMA RemoveAtIs ==
  ASSUME NEW s \in Seq(Segments), NEW i \in 1 .. Len(s)
  PROVE  RemoveAt(s, i) \in Seq(Segments) /\ Without(s, RemoveAt(s, i), i)
<1> DEFINE a == SubSeq(s, 1, i - 1)
           b == SubSeq(s, i + 1, Len(s))
<1>1. PICK n : n = Len(s) /\ n \in Nat /\ i \in 1 .. n
  OBVIOUS
<1>2. a \in Seq(Segments) /\ Len(a) = i - 1 /\ \A k \in 1 .. (i - 1) : a[k] = s[k]
  BY <1>1
<1>3. b \in Seq(Segments) /\ Len(b) = n - i /\ \A k \in 1 .. (n - i) : b[k] = s[(i + 1) + k - 1]
  BY <1>1
<1>4. RemoveAt(s, i) = a \o b
  BY DEF RemoveAt
<1> HIDE DEF a, b
<1>5. PICK t : t = a \o b
  OBVIOUS
<1>6. /\ t \in Seq(Segments) /\ Len(t) = (i - 1) + (n - i)
      /\ \A k \in 1 .. ((i - 1) + (n - i)) : t[k] = IF k <= i - 1 THEN a[k] ELSE b[k - (i - 1)]
  <2>1. PICK p, q : p = i - 1 /\ q = n - i
    OBVIOUS
  <2>2. p \in Nat /\ q \in Nat /\ Len(a) = p /\ Len(b) = q
    BY <1>1, <1>2, <1>3, <2>1
  <2>3. /\ t \in Seq(Segments) /\ Len(t) = p + q
        /\ \A k \in 1 .. (p + q) : t[k] = IF k <= p THEN a[k] ELSE b[k - p]
    <3>1. a \in Seq(Segments) /\ b \in Seq(Segments)
      BY <1>2, <1>3
    <3>2. /\ a \o b \in Seq(Segments) /\ Len(a \o b) = Len(a) + Len(b)
          /\ \A k \in 1 .. Len(a) + Len(b) : (a \o b)[k] = IF k <= Len(a) THEN a[k] ELSE b[k - Len(a)]
      BY <3>1, ConcatProperties, Zenon
    <3> QED BY <1>5, <2>2, <3>2
  <2> QED BY <2>1, <2>3
<1>7. Len(t) = n - 1 /\ (i - 1) + (n - i) = n - 1
  BY <1>1, <1>6
<1>8. ASSUME NEW k \in 1 .. (i - 1) PROVE t[k] = s[k]
  <2>1. k \in 1 .. ((i - 1) + (n - i)) /\ k <= i - 1
    BY <1>1
  <2> QED BY <1>2, <1>6, <2>1
<1>9. ASSUME NEW k \in i .. (n - 1) PROVE t[k] = s[k + 1]
  <2>1. k \in 1 .. ((i - 1) + (n - i)) /\ ~(k <= i - 1) /\ k - (i - 1) \in 1 .. (n - i)
        /\ (i + 1) + (k - (i - 1)) - 1 = k + 1
    BY <1>1
  <2>2. b[k - (i - 1)] = s[(i + 1) + (k - (i - 1)) - 1]
    BY <1>3, <2>1
  <2> QED BY <1>6, <2>1, <2>2
<1> QED BY <1>1, <1>4, <1>5, <1>6, <1>7, <1>8, <1>9 DEF Without

\* The list without an SDU that was not cut.
LEMMA WithoutKeeps ==
  ASSUME NEW list, NEW sdus, NEW t \in Seq(Segments), ListOk(list, sdus),
         NEW i \in 1 .. Len(list), Without(list, t, i)
  PROVE  ListOk(t, sdus)
<1>1. PICK n : n = Len(list) /\ n \in Nat /\ DOMAIN list = 1 .. n /\ i \in 1 .. n
  BY DEF ListOk
<1>2. Len(t) = n - 1 /\ DOMAIN t = 1 .. (n - 1)
  BY <1>1 DEF Without
<1> DEFINE at(k) == IF k < i THEN k ELSE k + 1
<1>3. ASSUME NEW k \in DOMAIN t
      PROVE  /\ t[k] = list[at(k)] /\ at(k) \in DOMAIN list /\ k \in Nat /\ at(k) \in Nat
             /\ at(k) = 1 => k = 1
  <2>1. CASE k < i
    <3>1. k \in 1 .. (i - 1) /\ k \in 1 .. n /\ k \in Nat
      BY <1>1, <1>2, <2>1
    <3> QED BY <1>1, <2>1, <3>1 DEF Without
  <2>2. CASE ~(k < i)
    <3>1. k \in i .. Len(t) /\ k + 1 \in 1 .. n /\ k \in Nat /\ k + 1 # 1
      BY <1>1, <1>2, <2>2
    <3> QED BY <1>1, <2>2, <3>1 DEF Without
  <2> QED BY <2>1, <2>2
<1>4. ASSUME NEW k \in DOMAIN t, NEW l \in DOMAIN t, k < l PROVE at(k) < at(l)
  BY <1>1, <1>2, <1>4
<1> HIDE DEF at
<1>5. ASSUME NEW k \in DOMAIN t PROVE EntryOk(t[k], k, sdus)
  <2>1. EntryOk(list[at(k)], at(k), sdus)
    BY <1>3, Zenon DEF ListOk
  <2> QED BY <1>3, <2>1, Zenon DEF EntryOk
<1>6. ASSUME NEW k \in DOMAIN t, NEW l \in DOMAIN t, k < l PROVE t[k].id < t[l].id
  <2>1. list[at(k)].id < list[at(l)].id
    BY <1>3, <1>4, <1>6, Zenon DEF ListOk
  <2> QED BY <1>3, <2>1, Zenon
<1> QED BY <1>5, <1>6, Zenon DEF ListOk

\* discard_sdu keeps the invariant: tx_end moves back when the last node goes.
LEMMA DiscardKeeps ==
  ASSUME NEW t, TxInv(t), NEW id
  PROVE  TxInv(discard_sdu(t, id))
<1> DEFINE list == t.tx_list
           I == {k \in 1 .. Len(list) : list[k].id = id}
           i == IF I # {} THEN Min(I) ELSE 0
           s == list[i]
           rest == RemoveAt(list, i)
           end == IF t.tx_end = Node(s) THEN EndOf(SubSeq(list, 1, i - 1)) ELSE t.tx_end
           u == [t EXCEPT !.tx_list = rest, !.tx_end = end, !.bstatus = @ - PduSize(s)]
<1>1. discard_sdu(t, id) = IF i = 0 THEN t ELSE IF ~s.first \/ ~s.last THEN t ELSE u
  BY DEF discard_sdu, SelectInSeq
<1>2. t \in TxRecords /\ list \in Seq(Segments) /\ t.bstatus \in Int /\ t.tx_end \in Seq(Nat) /\ ListOk(list, t.sdus)
      /\ t.bstatus = BufferSize(list) /\ t.tx_end = EndOf(list)
  BY DEF TxInv, TxRecords
<1>3. CASE i # 0
  <2>1. i \in 1 .. Len(list)
    <3>1. I # {} /\ I \subseteq Nat
      BY <1>3
    <3> HIDE DEF I
    <3>2. i \in I
      BY <3>1, MinNat
    <3> QED BY <3>2 DEF I
  <2> HIDE DEF i
  <2>2. PICK n : n = Len(list) /\ n \in Nat /\ DOMAIN list = 1 .. n /\ i \in 1 .. n /\ list # <<>>
    BY <1>2, <2>1
  <2>3. rest \in Seq(Segments) /\ Without(list, rest, i)
    BY <1>2, <2>1, RemoveAtIs
  <2>4. RemoveAt(list, i) = SubSeq(list, 1, i - 1) \o SubSeq(list, i + 1, Len(list))
    BY DEF RemoveAt
  <2> HIDE DEF rest
  <2>5. ListOk(rest, t.sdus)
    BY <1>2, <2>1, <2>3, WithoutKeeps, Zenon
  <2>6. /\ BufferSize(list) = BufferSize(rest) + PduSize(s)
        /\ BufferSize(list) \in Nat /\ BufferSize(rest) \in Nat /\ PduSize(s) \in Nat
    BY <1>2, <2>1, <2>3, SumWithout
  <2>7. t.bstatus - PduSize(s) = BufferSize(rest)
    BY <1>2, <2>6
  <2>8. EndOf(list) = Node(list[n])
    BY <1>2, <2>2, EndIs, Zenon
  <2>9. EndOf(rest) = end
    <3>1. CASE i = n
      <4>1. t.tx_end = Node(s)
        BY <1>2, <2>8, <3>1
      <4>2. rest = SubSeq(list, 1, i - 1)
        <5>1. SubSeq(list, n + 1, n) = <<>> /\ SubSeq(list, 1, n - 1) \in Seq(Segments)
          BY <1>2, <2>2
        <5>2. SubSeq(list, 1, n - 1) \o <<>> = SubSeq(list, 1, n - 1)
          BY <5>1
        <5> QED BY <2>2, <2>4, <3>1, <5>1, <5>2, Zenon DEF rest
      <4> QED BY <4>1, <4>2, Zenon
    <3>2. CASE i # n
      <4>1. i < n /\ n - 1 \in i .. (n - 1) /\ (n - 1) + 1 = n /\ n \in DOMAIN list /\ i \in DOMAIN list
        BY <2>2, <3>2
      <4>2. Len(rest) = n - 1 /\ rest[n - 1] = list[n] /\ rest # <<>>
        BY <2>2, <2>3, <4>1 DEF Without
      <4>3. EndOf(rest) = Node(list[n])
        BY <2>3, <4>2, EndIs, Zenon
      <4>4. list[i] \in Segments /\ list[n] \in Segments /\ list[i].id < list[n].id
        BY <1>2, <4>1 DEF ListOk
      <4>5. list[i].id # list[n].id
        BY <4>4 DEF Segments
      <4>6. t.tx_end # Node(s)
        BY <1>2, <2>8, <4>4, <4>5, NodesDiffer, Zenon
      <4> QED BY <1>2, <2>8, <4>3, <4>6, Zenon
    <3> QED BY <3>1, <3>2
  <2>10. PICK e, b : e = EndOf(rest) /\ b = BufferSize(rest)
    OBVIOUS
  <2>11. e \in Seq(Nat) /\ b \in Int
    <3>1. EndOf(rest) \in Seq(Nat)
      BY <2>3, EndIs, Zenon
    <3>2. \A x \in Nat : x \in Int
      OBVIOUS
    <3> QED BY <2>6, <2>10, <3>1, <3>2, Zenon
  <2>12. u = [t EXCEPT !.tx_list = rest, !.tx_end = e, !.bstatus = b]
    BY <2>7, <2>9, <2>10
  <2> HIDE DEF u
  <2>13. u \in TxRecords /\ u.tx_list = rest /\ u.sdus = t.sdus /\ u.tx_end = e /\ u.bstatus = b
    BY <1>2, <2>3, <2>11, <2>12 DEF TxRecords
  <2>14. TxInv(u)
    BY <2>5, <2>10, <2>13, Zenon DEF TxInv
  <2> QED BY <1>1, <2>14, Zenon
<1>4. CASE i = 0
  BY <1>1, <1>4
<1> QED BY <1>3, <1>4

\* A re-established entity is empty but for its history.
LEMMA ClearKeeps ==
  ASSUME NEW sdus \in Seq(Nat)
  PROVE  TxInv([ClearTx EXCEPT !.sdus = sdus])
<1>1. PICK u : u = [ClearTx EXCEPT !.sdus = sdus]
  OBVIOUS
<1>2. u.tx_list = <<>> /\ u.bstatus = 0 /\ u.tx_end = Null /\ u.sdus = sdus
  BY <1>1 DEF ClearTx
<1>3. u \in TxRecords
  <2>1. <<>> \in Seq(Segments) /\ <<>> \in Seq(Nat) /\ 0 \in Int /\ 0 \in Sns
    BY SnAssumption DEF Sns
  <2>2. u = [tx_next |-> 0, tx_list |-> <<>>, tx_end |-> <<>>, tx_size |-> 0, bstatus |-> 0, sdus |-> sdus]
    BY <1>1 DEF ClearTx, Null
  <2> QED BY <2>1, <2>2 DEF TxRecords
<1>4. EndOf(<<>>) = Null
  BY DEF EndOf
<1>5. ListOk(<<>>, sdus)
  BY DEF ListOk
<1> QED BY <1>1, <1>2, <1>3, <1>4, <1>5, BufferSizeEmpty, Zenon DEF TxInv

---------------------------------------------------------------------------

\* The invariant implies what the run checks.
LEMMA TxInvImplies == TxInv(tx) => TxListConsistent
<1> SUFFICES ASSUME TxInv(tx) PROVE TxListConsistent
  OBVIOUS
<1>1. ASSUME NEW i \in DOMAIN tx.tx_list
      PROVE  LET s == tx.tx_list[i] IN s.last /\ s.so + s.size = tx.sdus[s.id] /\ (s.first \/ i = 1)
  BY <1>1, Zenon DEF TxInv, ListOk, EntryOk
<1> QED BY <1>1, Zenon DEF TxInv, TxListConsistent

\* TxInv is inductive: each call that changes the transmitting side keeps it.
LEMMA TxInvariance == Spec => []TxInv(tx)
<1>1. Init => TxInv(tx)
  <2>1. <<>> \in Seq(Nat) /\ ClearTx = [ClearTx EXCEPT !.sdus = <<>>]
    BY DEF ClearTx
  <2> QED BY <2>1, ClearKeeps DEF Init
<1>2. TxInv(tx) /\ [Next]_vars => TxInv(tx)'
  <2> SUFFICES ASSUME TxInv(tx), [Next]_vars PROVE TxInv(tx')
    BY DEF TxInv
  <2>1. SduSizes \subseteq Nat \ {0} /\ Grants \subseteq Nat
    BY SizeAssumption
  <2>2. ASSUME NEW size \in SduSizes, RecvSdu(size) PROVE TxInv(tx')
    <3>1. tx' = recv_sdu(tx, size) /\ size \in Nat \ {0}
      BY <2>1, <2>2 DEF RecvSdu
    <3> QED BY <3>1, RecvSduKeeps, Zenon
  <2>3. ASSUME NEW size \in Grants, GeneratePdu(size) PROVE TxInv(tx')
    <3>1. tx' = generate_tx_pdu(tx, size).t /\ size \in Nat
      BY <2>1, <2>3 DEF GeneratePdu
    <3> QED BY <3>1, GenerateKeeps, Zenon
  <2>4. ASSUME NEW id \in DOMAIN tx.sdus, DiscardSdu(id) PROVE TxInv(tx')
    BY <2>4, DiscardKeeps, Zenon DEF DiscardSdu
  <2>5. CASE reestablishment
    <3>1. tx.sdus \in Seq(Nat)
      BY DEF TxInv, TxRecords
    <3> QED BY <2>5, <3>1, ClearKeeps, Zenon DEF reestablishment
  <2>6. CASE UNCHANGED tx
    BY <2>6, Zenon
  <2>7. \/ \E pdu \in air : RecvPdu(pdu) \/ LosePdu(pdu)
        \/ ReassemblyExpires
        \/ UNCHANGED vars
        => UNCHANGED tx
    BY Zenon DEF RecvPdu, LosePdu, ReassemblyExpires, vars
  <2> QED BY <2>2, <2>3, <2>4, <2>5, <2>6, <2>7, Zenon DEF Next
<1> QED BY <1>1, <1>2, PTL DEF Spec

\* Whatever is segmented, discarded, re-established or lost, bstatus is the size of what
\* tx_list holds, tx_end is its last node, and only its first SDU can have been cut.
THEOREM TransmitListKept == Spec => []TxListConsistent
BY TxInvariance, TxInvImplies, PTL

---------------------------------------------------------------------------
(* The receiving window.  Pos(h, sn) is the place of an SN in the window   *)
(* that ends at h; the window is the first half of the places.             *)

\* The place of an SN.
Pos(h, sn) == (sn - (h - WindowSize)) % SnCount

\* The window is half of the SNs.
LEMMA HalfWindow == SnCount = 2 * WindowSize /\ WindowSize \in Nat /\ WindowSize >= 2
BY SnAssumption DEF WindowSize

\* Remainders of numbers less than two periods away.
LEMMA Remainder ==
  ASSUME NEW n \in Nat \ {0}, NEW z \in Int, -n <= z, z < 2 * n
  PROVE  z % n \in 0 .. (n - 1) /\ z % n \in {z, z - n, z + n}
<1>1. CASE 0 <= z /\ z < n
  <2>1. z % n = z
    BY <1>1
  <2> QED BY <1>1, <2>1
<1>2. CASE z >= n
  <2>1. (z - n) % n = z - n /\ z - n \in 0 .. (n - 1)
    BY <1>2
  <2>2. z % n = (z - n) % n
    <3>1. PICK q, p : q = z \div n /\ p = z % n
      OBVIOUS
    <3>2. q \in Int /\ p \in 0 .. (n - 1) /\ z = n * q + p
      BY <3>1
    <3>3. q = 1
      <4>1. q >= 2 => n * q >= n * 2
        BY <3>2
      <4>2. q <= 0 => n * q <= 0
        BY <3>2
      <4> QED BY <1>2, <3>2, <4>1, <4>2
    <3>4. p = z - n
      BY <3>2, <3>3
    <3> QED BY <2>1, <3>1, <3>4
  <2> QED BY <2>1, <2>2
<1>3. CASE z < 0
  <2>1. PICK q, p : q = z \div n /\ p = z % n
    OBVIOUS
  <2>2. q \in Int /\ p \in 0 .. (n - 1) /\ z = n * q + p
    BY <2>1
  <2>3. q = -1
    <3>1. q <= -2 => n * q <= n * (-2)
      BY <2>2
    <3>2. q >= 0 => n * q >= 0
      BY <2>2
    <3> QED BY <1>3, <2>2, <3>1, <3>2
  <2> QED BY <2>1, <2>2, <2>3
<1> QED BY <1>1, <1>2, <1>3

\* The place of an SN, without the remainder.
LEMMA PosIs ==
  ASSUME NEW h \in Sns, NEW sn \in Sns
  PROVE  /\ Pos(h, sn) \in Nat /\ Pos(h, sn) < SnCount
         /\ \/ Pos(h, sn) = sn - h + WindowSize
            \/ Pos(h, sn) = sn - h + WindowSize - SnCount
            \/ Pos(h, sn) = sn - h + WindowSize + SnCount
<1>1. PICK z : z = sn - (h - WindowSize)
  OBVIOUS
<1>2. z \in Int /\ -SnCount <= z /\ z < 2 * SnCount /\ SnCount \in Nat \ {0}
  BY <1>1, HalfWindow DEF Sns
<1>3. z % SnCount \in 0 .. (SnCount - 1) /\ z % SnCount \in {z, z - SnCount, z + SnCount}
  BY <1>2, Remainder
<1>4. Pos(h, sn) = z % SnCount
  BY <1>1 DEF Pos
<1>5. sn \in Int /\ h \in Int /\ WindowSize \in Int
  BY HalfWindow DEF Sns
<1> QED BY <1>1, <1>2, <1>3, <1>4, <1>5

\* The same for the sum of an SN and a number.
LEMMA PlusIs ==
  ASSUME NEW sn \in Sns, NEW n \in 0 .. SnCount
  PROVE  /\ Plus(sn, n) \in Sns /\ Plus(sn, n) \in Nat /\ A!Plus(sn, n) = Plus(sn, n)
         /\ Plus(sn, n) = sn + n \/ Plus(sn, n) = sn + n - SnCount
<1>1. PICK z : z = sn + n
  OBVIOUS
<1>2. z \in Int /\ -SnCount <= z /\ z < 2 * SnCount /\ SnCount \in Nat \ {0} /\ 0 <= z
  BY <1>1, HalfWindow DEF Sns
<1>3. z % SnCount \in 0 .. (SnCount - 1) /\ z % SnCount \in {z, z - SnCount, z + SnCount}
  BY <1>2, Remainder
<1>4. Plus(sn, n) = z % SnCount /\ A!Plus(sn, n) = z % SnCount
  BY <1>1 DEF Plus, A!Plus
<1> QED BY <1>1, <1>2, <1>3, <1>4 DEF Sns

\* The highest SN received + 1 is the end of the window.
LEMMA PosOfEnd == \A h \in Sns : Pos(h, h) = WindowSize
<1> SUFFICES ASSUME NEW h \in Sns PROVE Pos(h, h) = WindowSize
  OBVIOUS
<1>1. h \in Int
  BY HalfWindow DEF Sns
<1> QED BY <1>1, PosIs, HalfWindow

\* Going on from an SN inside the window, up to its end, adds to its place.
LEMMA PosOfPlus ==
  ASSUME NEW h \in Sns, NEW sn \in Sns, NEW n \in Nat, Pos(h, sn) + n <= WindowSize
  PROVE  Plus(sn, n) \in Sns /\ Pos(h, Plus(sn, n)) = Pos(h, sn) + n
<1>1. h \in 0 .. (SnCount - 1) /\ sn \in 0 .. (SnCount - 1) /\ h \in Int /\ sn \in Int
  BY HalfWindow DEF Sns
<1>2. Pos(h, sn) \in Nat
  BY PosIs
<1>3. n \in 0 .. SnCount
  BY <1>2, HalfWindow
<1>4. PICK x : x = Plus(sn, n)
  OBVIOUS
<1>5. x \in Sns /\ x \in Nat /\ (x = sn + n \/ x = sn + n - SnCount)
  BY <1>3, <1>4, PlusIs
<1>6. /\ Pos(h, x) \in Nat /\ Pos(h, x) < SnCount
      /\ \/ Pos(h, x) = x - h + WindowSize
         \/ Pos(h, x) = x - h + WindowSize - SnCount
         \/ Pos(h, x) = x - h + WindowSize + SnCount
  BY <1>5, PosIs
<1>7. \/ Pos(h, sn) = sn - h + WindowSize
      \/ Pos(h, sn) = sn - h + WindowSize - SnCount
      \/ Pos(h, sn) = sn - h + WindowSize + SnCount
  BY PosIs
<1>8. Pos(h, x) = Pos(h, sn) + n
  BY <1>1, <1>2, <1>5, <1>6, <1>7, HalfWindow
<1> QED BY <1>4, <1>5, <1>8

\* When the window moves on to the SN after x, beyond its old end, the places fall by the
\* distance, and what was nearer to its start leaves it.
LEMMA PosMoves ==
  ASSUME NEW h \in Sns, NEW x \in Sns, Pos(h, x) >= WindowSize
  PROVE  /\ Plus(x, 1) \in Sns
         /\ \E d \in 1 .. WindowSize :
              /\ Pos(h, x) = WindowSize + d - 1 /\ Pos(Plus(x, 1), x) = WindowSize - 1
              /\ \A sn \in Sns : Pos(h, sn) <= WindowSize =>
                   Pos(Plus(x, 1), sn) = IF Pos(h, sn) >= d THEN Pos(h, sn) - d ELSE Pos(h, sn) + SnCount - d
<1>1. PICK e : e = Plus(x, 1)
  OBVIOUS
<1>2. 1 \in 0 .. SnCount
  BY HalfWindow
<1>3. e \in Sns /\ e \in Nat /\ (e = x + 1 \/ e = x + 1 - SnCount)
  BY <1>1, <1>2, PlusIs
<1>4. h \in 0 .. (SnCount - 1) /\ x \in 0 .. (SnCount - 1) /\ h \in Int /\ x \in Int /\ e \in 0 .. (SnCount - 1)
  BY <1>3, HalfWindow DEF Sns
<1>5. /\ Pos(h, x) \in Nat /\ Pos(h, x) < SnCount
      /\ \/ Pos(h, x) = x - h + WindowSize
         \/ Pos(h, x) = x - h + WindowSize - SnCount
         \/ Pos(h, x) = x - h + WindowSize + SnCount
  BY PosIs
<1>6. PICK d : d = Pos(h, x) - WindowSize + 1
  OBVIOUS
<1>7. d \in 1 .. WindowSize /\ d \in Nat
  BY <1>5, <1>6, HalfWindow
<1>8. Pos(h, x) = WindowSize + d - 1
  BY <1>5, <1>6, HalfWindow
<1>9. \/ e - h = d
      \/ e - h = d - SnCount
      \/ e - h = d + SnCount
  BY <1>3, <1>4, <1>5, <1>6, HalfWindow
<1>10. Pos(e, x) = WindowSize - 1
  BY <1>3, <1>4, PosIs, HalfWindow
<1>11. ASSUME NEW sn \in Sns, Pos(h, sn) <= WindowSize
       PROVE  Pos(e, sn) = IF Pos(h, sn) >= d THEN Pos(h, sn) - d ELSE Pos(h, sn) + SnCount - d
  <2>1. sn \in 0 .. (SnCount - 1) /\ sn \in Int
    BY HalfWindow DEF Sns
  <2>2. /\ Pos(h, sn) \in Nat /\ Pos(h, sn) < SnCount
        /\ \/ Pos(h, sn) = sn - h + WindowSize
           \/ Pos(h, sn) = sn - h + WindowSize - SnCount
           \/ Pos(h, sn) = sn - h + WindowSize + SnCount
    BY PosIs
  <2>3. /\ Pos(e, sn) \in Nat /\ Pos(e, sn) < SnCount
        /\ \/ Pos(e, sn) = sn - e + WindowSize
           \/ Pos(e, sn) = sn - e + WindowSize - SnCount
           \/ Pos(e, sn) = sn - e + WindowSize + SnCount
    BY <1>3, PosIs
  <2> QED BY <1>4, <1>7, <1>9, <1>11, <2>1, <2>2, <2>3, HalfWindow
<1> QED BY <1>1, <1>3, <1>7, <1>8, <1>10, <1>11

---------------------------------------------------------------------------
(* The list of received segments.                                          *)

\* Its entries.
RxEntries == [sn : Sns, so : Nat, size : Nat, last : BOOLEAN, id : Nat, data : BOOLEAN]

\* The first entry with that SN has lost its bytes.
Delivered(list, sn) ==
  \E i \in DOMAIN list : /\ list[i].sn = sn /\ ~list[i].data
                         /\ \A j \in DOMAIN list : list[j].sn = sn => i <= j

\* The list is ordered by the places in the window that ends at h.
Sorted(list, h) == \A i, j \in DOMAIN list : i < j => Pos(h, list[i].sn) <= Pos(h, list[j].sn)
\* All of the list is inside the window.
InWindow(list, h) == \A i \in DOMAIN list : Pos(h, list[i].sn) < WindowSize

\* sdu_delivered is a question about the list.
LEMMA DeliveredIs == \A r, sn : A!sdu_delivered(r, sn) <=> Delivered(r.rx_list, sn)
BY DEF A!sdu_delivered, A!Entries, A!IsFirst, Delivered

\* What FirstUndelivered finds from an SN inside the window or at its end: an SDU that was
\* not delivered, no further than the end of the window.
LEMMA FirstUndeliveredIs ==
  ASSUME NEW r, NEW h \in Sns, InWindow(r.rx_list, h), NEW sn \in Sns, Pos(h, sn) <= WindowSize
  PROVE  LET f == FirstUndelivered(r, sn)
         IN  f \in Sns /\ Pos(h, f) <= WindowSize /\ ~Delivered(r.rx_list, f)
<1> DEFINE S == {n \in 0 .. (SnCount - 1) : ~A!sdu_delivered(r, A!Plus(sn, n))}
           k == Min(S)
<1>1. FirstUndelivered(r, sn) = A!Plus(sn, k)
  BY DEF FirstUndelivered, A!FirstUndelivered, A!Min, Min
<1>2. Pos(h, sn) \in Nat
  BY PosIs
<1>3. PICK n : n = WindowSize - Pos(h, sn)
  OBVIOUS
<1>4. n \in Nat /\ n \in 0 .. (SnCount - 1) /\ n \in 0 .. SnCount /\ Pos(h, sn) + n = WindowSize
  BY <1>2, <1>3, HalfWindow
<1>5. A!Plus(sn, n) \in Sns /\ Pos(h, A!Plus(sn, n)) = WindowSize
  <2>1. A!Plus(sn, n) = Plus(sn, n)
    BY <1>4, PlusIs
  <2>2. Plus(sn, n) \in Sns /\ Pos(h, Plus(sn, n)) = Pos(h, sn) + n
    BY <1>4, PosOfPlus, HalfWindow
  <2> QED BY <1>4, <2>1, <2>2
<1>6. ~Delivered(r.rx_list, A!Plus(sn, n))
  <2>1. \A i \in DOMAIN r.rx_list : r.rx_list[i].sn # A!Plus(sn, n)
    BY <1>5, HalfWindow DEF InWindow
  <2> QED BY <2>1, Zenon DEF Delivered
<1>7. n \in S
  BY <1>4, <1>6, DeliveredIs
<1>8. S \subseteq Nat
  BY HalfWindow
<1>9. k \in S /\ k <= n
  <2> HIDE DEF S
  <2> QED BY <1>7, <1>8, MinNat
<1>10. k \in 0 .. (SnCount - 1) /\ ~Delivered(r.rx_list, A!Plus(sn, k))
  BY <1>9, DeliveredIs
<1> HIDE DEF k, S
<1>11. k \in Nat /\ k \in 0 .. SnCount /\ Pos(h, sn) + k <= WindowSize
  BY <1>2, <1>4, <1>9, <1>10, HalfWindow
<1>12. A!Plus(sn, k) = Plus(sn, k) /\ Plus(sn, k) \in Sns /\ Pos(h, Plus(sn, k)) = Pos(h, sn) + k
  BY <1>11, PlusIs, PosOfPlus
<1> QED BY <1>1, <1>10, <1>11, <1>12

\* pdu_list_add puts the entry where the order of the window wants it.
LEMMA ListAddIs ==
  ASSUME NEW r, NEW h \in Sns, r.rx_next_highest = h, r.rx_list \in Seq(RxEntries), Sorted(r.rx_list, h),
         NEW e \in RxEntries
  PROVE  \E i : Inserted(RxEntries, r.rx_list, pdu_list_add(r, e), i, e) /\ Sorted(pdu_list_add(r, e), h)
<1> DEFINE list == r.rx_list
           Test(c) == sn_compare_rx(r, c.sn, e.sn) > 0 \/ (c.sn = e.sn /\ c.so > e.so)
           I == {k \in 1 .. Len(list) : Test(list[k])}
           i == IF I # {} THEN Min(I) ELSE 0
           new == pdu_list_add(r, e)
<1>1. new = IF i = 0 THEN Append(list, e) ELSE InsertAt(list, i, e)
  BY Zenon DEF pdu_list_add, SelectInSeq
<1>2. PICK n : n = Len(list) /\ n \in Nat /\ DOMAIN list = 1 .. n
  OBVIOUS
<1>3. \A k \in 1 .. n : list[k] \in RxEntries /\ list[k].sn \in Sns
  <2>1. \A k \in 1 .. n : list[k] \in RxEntries
    BY <1>2, SeqElement, Zenon
  <2> QED BY <2>1 DEF RxEntries
<1>4. e.sn \in Sns
  BY DEF RxEntries
<1>5. \A sn \in Sns : Pos(h, sn) \in Nat
  BY PosIs
<1>6. \A k \in 1 .. n : sn_compare_rx(r, list[k].sn, e.sn) = Pos(h, list[k].sn) - Pos(h, e.sn)
  BY Zenon DEF sn_compare_rx, modulus_rx, Pos
<1>7. \A k \in 1 .. n : /\ Test(list[k]) => Pos(h, list[k].sn) >= Pos(h, e.sn)
                        /\ ~Test(list[k]) => Pos(h, list[k].sn) <= Pos(h, e.sn)
  <2> SUFFICES ASSUME NEW k \in 1 .. n
               PROVE  /\ Test(list[k]) => Pos(h, list[k].sn) >= Pos(h, e.sn)
                      /\ ~Test(list[k]) => Pos(h, list[k].sn) <= Pos(h, e.sn)
    OBVIOUS
  <2>1. Pos(h, list[k].sn) \in Nat /\ Pos(h, e.sn) \in Nat
    BY <1>3, <1>4, <1>5
  <2>2. sn_compare_rx(r, list[k].sn, e.sn) = Pos(h, list[k].sn) - Pos(h, e.sn)
    BY <1>6
  <2>3. list[k].sn = e.sn => Pos(h, list[k].sn) = Pos(h, e.sn)
    OBVIOUS
  <2> QED BY <2>1, <2>2, <2>3
<1> HIDE DEF Test
<1>8. PICK p : /\ Inserted(RxEntries, list, new, p, e) /\ p \in Int
               /\ \A k \in 1 .. n : /\ k < p => Pos(h, list[k].sn) <= Pos(h, e.sn)
                                    /\ k >= p => Pos(h, list[k].sn) >= Pos(h, e.sn)
  <2>1. CASE I = {}
    <3>1. new = Append(list, e) /\ Inserted(RxEntries, list, new, n + 1, e)
      BY <1>1, <1>2, <2>1, InsertAtIs
    <3>2. \A k \in 1 .. n : ~Test(list[k]) /\ ~(k >= n + 1)
      BY <1>2, <2>1
    <3> QED BY <1>2, <1>7, <3>1, <3>2
  <2>2. CASE I # {}
    <3>1. I \subseteq Nat
      BY <1>2
    <3>2. I = {k \in 1 .. n : Test(list[k])}
      BY <1>2
    <3> HIDE DEF I
    <3>3. i \in I /\ \A k \in I : i <= k
      BY <2>2, <3>1, MinNat
    <3> HIDE DEF i
    <3>4. i \in 1 .. n /\ i # 0 /\ Test(list[i]) /\ i \in Int
      BY <1>2, <3>2, <3>3
    <3>5. Inserted(RxEntries, list, new, i, e)
      BY <1>1, <1>2, <3>4, InsertAtIs
    <3>6. ASSUME NEW k \in 1 .. n, k < i PROVE Pos(h, list[k].sn) <= Pos(h, e.sn)
      <4>1. k \notin I
        BY <1>2, <3>3, <3>4, <3>6
      <4> QED BY <1>7, <3>2, <4>1
    <3>7. ASSUME NEW k \in 1 .. n, k >= i PROVE Pos(h, list[k].sn) >= Pos(h, e.sn)
      <4>1. Pos(h, list[i].sn) >= Pos(h, e.sn)
        BY <1>7, <3>4
      <4>2. i < k \/ i = k
        BY <1>2, <3>4, <3>7
      <4>3. i < k => Pos(h, list[i].sn) <= Pos(h, list[k].sn)
        BY <1>2, <3>4 DEF Sorted
      <4>4. Pos(h, list[i].sn) \in Nat /\ Pos(h, list[k].sn) \in Nat /\ Pos(h, e.sn) \in Nat
        BY <1>3, <1>4, <1>5, <3>4
      <4> QED BY <4>1, <4>2, <4>3, <4>4
    <3> QED BY <3>4, <3>5, <3>6, <3>7
  <2> QED BY <2>1, <2>2
<1> HIDE DEF new
<1>9. /\ p \in DOMAIN new
      /\ \A k \in DOMAIN new : k # p => \E j \in DOMAIN list : k = Moved(j, p) /\ new[k] = list[j]
      /\ \A k, j \in DOMAIN list : Moved(k, p) <= Moved(j, p) <=> k <= j
      /\ new[p] = e
  <2>1. list \in Seq(RxEntries) /\ Inserted(RxEntries, list, new, p, e)
    BY <1>8
  <2> HIDE DEF list
  <2>2. /\ p \in DOMAIN new
        /\ \A k \in DOMAIN list : Moved(k, p) \in DOMAIN new /\ new[Moved(k, p)] = list[k]
        /\ \A k \in DOMAIN new : k # p => \E j \in DOMAIN list : k = Moved(j, p) /\ new[k] = list[j]
        /\ \A k, j \in DOMAIN list : Moved(k, p) <= Moved(j, p) <=> k <= j
    BY <2>1, InsertedIs, Zenon
  <2> QED BY <2>1, <2>2, Zenon DEF Inserted
<1>10. Sorted(new, h)
  <2> SUFFICES ASSUME NEW a \in DOMAIN new, NEW b \in DOMAIN new, a < b
               PROVE  Pos(h, new[a].sn) <= Pos(h, new[b].sn)
    BY DEF Sorted
  <2>1. CASE a = p
    <3>1. PICK j \in DOMAIN list : b = Moved(j, p) /\ new[b] = list[j]
      BY <1>2, <1>8, <1>9, <2>1
    <3>2. j \in 1 .. n /\ j >= p
      BY <1>2, <1>8, <2>1, <3>1 DEF Moved
    <3> QED BY <1>8, <1>9, <2>1, <3>1, <3>2
  <2>2. CASE b = p
    <3>1. PICK j \in DOMAIN list : a = Moved(j, p) /\ new[a] = list[j]
      BY <1>2, <1>8, <1>9, <2>2
    <3>2. j \in 1 .. n /\ j < p
      BY <1>2, <1>8, <2>2, <3>1 DEF Moved
    <3> QED BY <1>8, <1>9, <2>2, <3>1, <3>2
  <2>3. CASE a # p /\ b # p
    <3>1. PICK j \in DOMAIN list : a = Moved(j, p) /\ new[a] = list[j]
      BY <1>9, <2>3, Zenon
    <3>2. PICK k \in DOMAIN list : b = Moved(k, p) /\ new[b] = list[k]
      BY <1>9, <2>3, Zenon
    <3>3. j < k
      BY <1>2, <1>8, <3>1, <3>2 DEF Moved
    <3> QED BY <3>1, <3>2, <3>3 DEF Sorted
  <2> QED BY <2>1, <2>2, <2>3
<1> QED BY <1>8, <1>10, Zenon DEF new

\* A new entry with bytes does not make an SDU delivered.
LEMMA InsertNotDelivered ==
  ASSUME NEW list \in Seq(RxEntries), NEW new, NEW i, NEW e, Inserted(RxEntries, list, new, i, e), e.data,
         NEW sn, ~Delivered(list, sn)
  PROVE  ~Delivered(new, sn)
<1> SUFFICES ASSUME Delivered(new, sn) PROVE FALSE
  OBVIOUS
<1>0. /\ i \in DOMAIN new
      /\ \A k \in DOMAIN list : Moved(k, i) \in DOMAIN new /\ new[Moved(k, i)] = list[k]
      /\ \A k \in DOMAIN new : k # i => \E j \in DOMAIN list : k = Moved(j, i) /\ new[k] = list[j]
      /\ \A k, j \in DOMAIN list : Moved(k, i) <= Moved(j, i) <=> k <= j
  BY InsertedIs, Zenon
<1>1. PICK k \in DOMAIN new : new[k].sn = sn /\ ~new[k].data /\ \A j \in DOMAIN new : new[j].sn = sn => k <= j
  BY DEF Delivered
<1>2. k # i
  BY <1>1 DEF Inserted
<1>3. PICK j \in DOMAIN list : k = Moved(j, i) /\ new[k] = list[j]
  BY <1>0, <1>2, Zenon
<1>4. ASSUME NEW l \in DOMAIN list, list[l].sn = sn PROVE j <= l
  <2>1. Moved(l, i) \in DOMAIN new /\ new[Moved(l, i)] = list[l]
    BY <1>0, Zenon
  <2>2. Moved(j, i) <= Moved(l, i)
    BY <1>1, <1>3, <1>4, <2>1, Zenon
  <2> QED BY <1>0, <2>2, Zenon
<1> QED BY <1>1, <1>3, <1>4, Zenon DEF Delivered

\* rest is list without its first d entries, all of them and only them with an SN in old.
Dropped(list, rest, d, old) ==
  /\ rest \in Seq(RxEntries) /\ d \in 0 .. Len(list) /\ Len(rest) = Len(list) - d
  /\ \A k \in 1 .. Len(rest) : rest[k] = list[k + d]
  /\ \A k \in 1 .. d : list[k].sn \in old
  /\ d < Len(list) => list[d + 1].sn \notin old

\* DropLeading stops at the first entry that is not old.
LEMMA DropIs ==
  ASSUME NEW list \in Seq(RxEntries), NEW old
  PROVE  \E d : Dropped(list, DropLeading(list, old), d, old)
<1> DEFINE I == {k \in 1 .. Len(list) : list[k].sn \notin old}
           i == IF I # {} THEN Min(I) ELSE 0
<1>1. DropLeading(list, old) = IF i = 0 THEN <<>> ELSE SubSeq(list, i, Len(list))
  BY Zenon DEF DropLeading, SelectInSeq
<1>2. PICK n : n = Len(list) /\ n \in Nat
  OBVIOUS
<1>3. CASE I = {}
  <2>1. DropLeading(list, old) = <<>> /\ <<>> \in Seq(RxEntries) /\ Len(<<>>) = 0
    BY <1>1, <1>3
  <2>2. n \in 0 .. n /\ 0 = n - n /\ ~(n < n) /\ \A k \in 1 .. n : list[k].sn \in old
    BY <1>2, <1>3
  <2>3. \A k \in 1 .. 0 : FALSE
    OBVIOUS
  <2>4. Dropped(list, <<>>, n, old)
    BY <1>2, <2>1, <2>2, <2>3, Zenon DEF Dropped
  <2> QED BY <2>1, <2>4, Zenon
<1>4. CASE I # {}
  <2>1. I \subseteq Nat /\ I = {k \in 1 .. n : list[k].sn \notin old}
    BY <1>2
  <2> HIDE DEF I
  <2>2. i \in I /\ \A k \in I : i <= k
    BY <1>4, <2>1, MinNat
  <2> HIDE DEF i
  <2>3. i \in 1 .. n /\ i # 0 /\ list[i].sn \notin old
    BY <1>2, <2>1, <2>2
  <2>4. PICK d, rest : d = i - 1 /\ rest = SubSeq(list, i, n)
    OBVIOUS
  <2>5. rest \in Seq(RxEntries) /\ Len(rest) = n - d /\ \A k \in 1 .. (n - d) : rest[k] = list[k + d]
    <3>1. /\ SubSeq(list, i, n) \in Seq(RxEntries) /\ Len(SubSeq(list, i, n)) = n - i + 1
          /\ \A k \in 1 .. (n - i + 1) : SubSeq(list, i, n)[k] = list[i + k - 1]
      BY <1>2, <2>3
    <3>2. n - i + 1 = n - d /\ \A k \in 1 .. (n - d) : i + k - 1 = k + d
      BY <1>2, <2>3, <2>4
    <3> QED BY <2>4, <3>1, <3>2
  <2>6. ASSUME NEW k \in 1 .. d PROVE list[k].sn \in old
    <3>1. k \in 1 .. n /\ ~(i <= k)
      BY <1>2, <2>3, <2>4
    <3> QED BY <2>1, <2>2, <3>1
  <2>7. d \in 0 .. n /\ d + 1 = i
    BY <1>2, <2>3, <2>4
  <2>8. Dropped(list, rest, d, old)
    BY <1>2, <2>3, <2>5, <2>6, <2>7 DEF Dropped
  <2> QED BY <1>1, <1>2, <2>3, <2>4, <2>8
<1> QED BY <1>3, <1>4

\* What is left keeps its order and what was delivered of it.
LEMMA DropKeeps ==
  ASSUME NEW list \in Seq(RxEntries), NEW rest, NEW d, NEW old, Dropped(list, rest, d, old)
  PROVE  /\ \A k \in DOMAIN rest : k + d \in DOMAIN list /\ rest[k] = list[k + d]
         /\ \A h : Sorted(list, h) => Sorted(rest, h)
         /\ \A h : InWindow(list, h) => InWindow(rest, h)
         /\ \A sn : sn \notin old /\ ~Delivered(list, sn) => ~Delivered(rest, sn)
<1>1. PICK n : n = Len(list) /\ n \in Nat /\ DOMAIN list = 1 .. n
  OBVIOUS
<1>2. d \in 0 .. n /\ d \in Nat /\ DOMAIN rest = 1 .. (n - d) /\ Len(rest) = n - d
  BY <1>1 DEF Dropped
<1>3. ASSUME NEW k \in DOMAIN rest PROVE k + d \in DOMAIN list /\ rest[k] = list[k + d]
  <2>1. k \in 1 .. (n - d) /\ k + d \in 1 .. n
    BY <1>1, <1>2
  <2> QED BY <1>1, <1>2, <2>1 DEF Dropped
<1>4. ASSUME NEW h, Sorted(list, h) PROVE Sorted(rest, h)
  <2> SUFFICES ASSUME NEW i \in DOMAIN rest, NEW j \in DOMAIN rest, i < j
               PROVE  Pos(h, rest[i].sn) <= Pos(h, rest[j].sn)
    BY DEF Sorted
  <2>1. i + d < j + d
    BY <1>1, <1>2
  <2> QED BY <1>3, <1>4, <2>1 DEF Sorted
<1>5. ASSUME NEW h, InWindow(list, h) PROVE InWindow(rest, h)
  BY <1>3, <1>5, Zenon DEF InWindow
<1>6. ASSUME NEW sn, sn \notin old, Delivered(rest, sn) PROVE Delivered(list, sn)
  <2>1. PICK i \in DOMAIN rest : rest[i].sn = sn /\ ~rest[i].data /\ \A j \in DOMAIN rest : rest[j].sn = sn => i <= j
    BY <1>6 DEF Delivered
  <2>2. i + d \in DOMAIN list /\ list[i + d].sn = sn /\ ~list[i + d].data
    BY <1>3, <2>1
  <2>3. ASSUME NEW j \in DOMAIN list, list[j].sn = sn PROVE i + d <= j
    <3>1. ~(j \in 1 .. d)
      BY <1>6, <2>3 DEF Dropped
    <3>2. j - d \in DOMAIN rest /\ (j - d) + d = j
      BY <1>1, <1>2, <3>1
    <3>3. rest[j - d] = list[j]
      BY <1>3, <3>2
    <3>4. i <= j - d
      BY <2>1, <2>3, <3>2, <3>3
    <3> QED BY <1>1, <1>2, <3>4
  <2> QED BY <2>2, <2>3, Zenon DEF Delivered
<1> QED BY <1>3, <1>4, <1>5, <1>6

---------------------------------------------------------------------------
(* The receiving side.                                                     *)

\* The fields of the receiving side; what rx_size and the history hold plays no part.
RxShape(r) ==
  /\ r = [rx_next_highest |-> r.rx_next_highest, rx_next_reassembly |-> r.rx_next_reassembly,
          rx_timer_trigger |-> r.rx_timer_trigger, t_reassembly |-> r.t_reassembly, rx_list |-> r.rx_list,
          rx_size |-> r.rx_size, delivered |-> r.delivered]
  /\ r.rx_next_highest \in Sns /\ r.rx_next_reassembly \in Sns /\ r.rx_timer_trigger \in Sns
  /\ r.t_reassembly \in BOOLEAN /\ r.rx_list \in Seq(RxEntries)

\* The list and the window.
WindowInv(r) ==
  /\ RxShape(r)
  /\ Sorted(r.rx_list, r.rx_next_highest) /\ InWindow(r.rx_list, r.rx_next_highest)
  /\ Pos(r.rx_next_highest, r.rx_next_reassembly) <= WindowSize
  /\ ~Delivered(r.rx_list, r.rx_next_reassembly)

\* What a running timer waits for is inside the window or at its end.
TriggerInWindow(r) == r.t_reassembly => Pos(r.rx_next_highest, r.rx_timer_trigger) <= WindowSize

\* The inductive invariant of the receiving side: a running timer was started for an SN
\* that is still in the window, or at its end, so that its expiry does not leave it.
RxInv(r) ==
  /\ WindowInv(r) /\ TriggerInWindow(r)
  /\ Gap(r, Plus(r.rx_next_reassembly, 1)) /\ r.rx_next_reassembly # SnCount - 1 => r.t_reassembly

\* A gap is a matter of the window and the list.
LEMMA GapSame ==
  ASSUME NEW r, NEW u, NEW a, u.rx_list = r.rx_list, u.rx_next_highest = r.rx_next_highest,
         u.rx_next_reassembly = r.rx_next_reassembly
  PROVE  Gap(u, a) <=> Gap(r, a)
<1>1. sdu_has_missing_bytes(u, r.rx_next_reassembly) <=> sdu_has_missing_bytes(r, r.rx_next_reassembly)
  <2>1. PICK sn : sn = r.rx_next_reassembly
    OBVIOUS
  <2>2. A!Entries(u, sn) = A!Entries(r, sn)
    BY Zenon DEF A!Entries
  <2>3. \A i : A!IsFirst(u, sn, i) <=> A!IsFirst(r, sn, i)
    BY <2>2, Zenon DEF A!IsFirst
  <2>4. A!Unprocessed(u, sn) <=> A!Unprocessed(r, sn)
    BY <2>2, <2>3, Zenon DEF A!Unprocessed
  <2>5. \A i : A!NoHole(u, sn, i) <=> A!NoHole(r, sn, i)
    BY <2>2, Zenon DEF A!NoHole
  <2> QED BY <2>1, <2>2, <2>4, <2>5, Zenon DEF sdu_has_missing_bytes, A!sdu_has_missing_bytes
<1> QED BY <1>1, Zenon DEF Gap, sn_compare_rx, modulus_rx

\* The timer is started for a gap, and then for the end of the window.
LEMMA StartKeeps ==
  ASSUME NEW r, WindowInv(r), TriggerInWindow(r), NEW a,
         r.rx_next_reassembly # SnCount - 1 => a = Plus(r.rx_next_reassembly, 1)
  PROVE  RxInv(IF ~r.t_reassembly /\ Gap(r, a) THEN StartReassembly(r) ELSE r)
<1>1. CASE ~(~r.t_reassembly /\ Gap(r, a))
  BY <1>1, Zenon DEF RxInv
<1>2. CASE ~r.t_reassembly /\ Gap(r, a)
  <2>1. PICK u : u = [r EXCEPT !.t_reassembly = TRUE, !.rx_timer_trigger = r.rx_next_highest]
    OBVIOUS
  <2>2. /\ RxShape(u) /\ u.t_reassembly = TRUE /\ u.rx_timer_trigger = r.rx_next_highest
        /\ u.rx_list = r.rx_list /\ u.rx_next_highest = r.rx_next_highest
        /\ u.rx_next_reassembly = r.rx_next_reassembly
    BY <2>1 DEF WindowInv, RxShape
  <2>3. WindowInv(u)
    BY <2>2, Zenon DEF WindowInv
  <2>4. Pos(r.rx_next_highest, r.rx_next_highest) <= WindowSize
    <3>1. r.rx_next_highest \in Sns
      BY DEF WindowInv, RxShape
    <3> QED BY <3>1, PosOfEnd, HalfWindow
  <2>5. RxInv(u)
    BY <2>2, <2>3, <2>4, Zenon DEF RxInv, TriggerInWindow
  <2> QED BY <1>2, <2>1, <2>5, Zenon DEF StartReassembly
<1> QED BY <1>1, <1>2, Zenon

\* The end of reception_actions: the timer is stopped if it has nothing to wait for, and
\* started for what is missing.
LEMMA TimersKeep ==
  ASSUME NEW r, WindowInv(r),
         NEW u, u = [r EXCEPT !.t_reassembly = @ /\ ~StopReassembly(r)]
  PROVE  RxInv(IF ~u.t_reassembly /\ Gap(u, Plus(u.rx_next_reassembly, 1)) THEN StartReassembly(u) ELSE u)
<1>1. PICK t : t = (r.t_reassembly /\ ~StopReassembly(r))
  OBVIOUS
<1>2. t \in BOOLEAN
  BY <1>1
<1>3. /\ RxShape(u) /\ u.t_reassembly = t /\ u.rx_timer_trigger = r.rx_timer_trigger
      /\ u.rx_list = r.rx_list /\ u.rx_next_highest = r.rx_next_highest
      /\ u.rx_next_reassembly = r.rx_next_reassembly
  BY <1>1, <1>2 DEF WindowInv, RxShape
<1>4. WindowInv(u)
  BY <1>3, Zenon DEF WindowInv
<1>5. TriggerInWindow(u)
  <2> SUFFICES ASSUME t PROVE Pos(r.rx_next_highest, r.rx_timer_trigger) <= WindowSize
    BY <1>3, Zenon DEF TriggerInWindow
  <2>1. ~(sn_compare_rx(r, r.rx_timer_trigger, r.rx_next_highest) > 0)
    BY <1>1, Zenon DEF StopReassembly
  <2>2. sn_compare_rx(r, r.rx_timer_trigger, r.rx_next_highest)
          = Pos(r.rx_next_highest, r.rx_timer_trigger) - Pos(r.rx_next_highest, r.rx_next_highest)
    BY Zenon DEF sn_compare_rx, modulus_rx, Pos
  <2>3. r.rx_next_highest \in Sns /\ r.rx_timer_trigger \in Sns
    BY DEF WindowInv, RxShape
  <2>4. Pos(r.rx_next_highest, r.rx_timer_trigger) \in Nat /\ Pos(r.rx_next_highest, r.rx_next_highest) = WindowSize
    BY <2>3, PosIs, PosOfEnd
  <2> QED BY <2>1, <2>2, <2>4, HalfWindow
<1> QED BY <1>4, <1>5, StartKeeps

\* An SDU that is full has more than one segment: the first one put it into the window.
LEMMA FullInWindow ==
  ASSUME NEW r, NEW new, NEW list \in Seq(RxEntries), r.rx_list = new, NEW i, NEW e \in RxEntries,
         Inserted(RxEntries, list, new, i, e), ~(e.so = 0 /\ e.last), sdu_full(r, e.sn)
  PROVE  \E k \in DOMAIN list : list[k].sn = e.sn
<1> SUFFICES ASSUME \A k \in DOMAIN list : list[k].sn # e.sn PROVE FALSE
  OBVIOUS
<1>1. /\ i \in DOMAIN new
      /\ \A k \in DOMAIN list : Moved(k, i) \in DOMAIN new /\ new[Moved(k, i)] = list[k]
      /\ \A k \in DOMAIN new : k # i => \E j \in DOMAIN list : k = Moved(j, i) /\ new[k] = list[j]
      /\ \A k, j \in DOMAIN list : Moved(k, i) <= Moved(j, i) <=> k <= j
  BY InsertedIs
<1>2. new[i] = e /\ i \in Int
  BY DEF Inserted
<1>3. A!Entries(r, e.sn) = {i}
  <2>1. \A k \in DOMAIN new : new[k].sn = e.sn => k = i
    BY <1>1, Zenon
  <2> QED BY <1>1, <1>2, <2>1 DEF A!Entries
<1>4. e.last /\ A!NoHole(r, e.sn, i)
  BY <1>2, <1>3, Zenon DEF sdu_full, A!sdu_full
<1>5. {k \in A!Entries(r, e.sn) : k < i} = {}
  BY <1>2, <1>3
<1>6. i <= i
  BY <1>2
<1>7. e.so <= A!Max({0} \cup {A!End(r.rx_list[k]) : k \in {k \in A!Entries(r, e.sn) : k < i}})
  BY <1>2, <1>3, <1>4, <1>6, Zenon DEF A!NoHole
<1>8. {0} \cup {A!End(r.rx_list[k]) : k \in {k \in A!Entries(r, e.sn) : k < i}} = {0}
  BY <1>5, Zenon
<1>9. A!Max({0}) = 0
  BY DEF A!Max
<1>10. e.so \in Nat
  BY DEF RxEntries
<1>11. e.so <= 0
  BY <1>7, <1>8, <1>9, Zenon
<1> QED BY <1>4, <1>10, <1>11

\* Delivery takes the bytes of one SDU and leaves the others.
LEMMA ReassembleIs ==
  ASSUME NEW r, RxShape(r), NEW sn, NEW u, u = reassemble_and_deliver(r, sn)
  PROVE  /\ RxShape(u) /\ u.rx_next_highest = r.rx_next_highest
         /\ u.rx_next_reassembly = r.rx_next_reassembly
         /\ \A h : Sorted(r.rx_list, h) => Sorted(u.rx_list, h)
         /\ \A h : InWindow(r.rx_list, h) => InWindow(u.rx_list, h)
         /\ \A a : a # sn /\ ~Delivered(r.rx_list, a) => ~Delivered(u.rx_list, a)
<1>1. PICK list, z, d : /\ list = [i \in DOMAIN r.rx_list |-> IF r.rx_list[i].sn = sn THEN [r.rx_list[i] EXCEPT !.data = FALSE, !.size = 0]
                                                                               ELSE r.rx_list[i]]
                        /\ u = [r EXCEPT !.rx_list = list, !.rx_size = z, !.delivered = d]
  BY DEF reassemble_and_deliver
<1>2. PICK n : n = Len(r.rx_list) /\ n \in Nat /\ DOMAIN r.rx_list = 1 .. n /\ r.rx_list \in Seq(RxEntries)
  BY DEF RxShape
<1>3. \A i \in 1 .. n : r.rx_list[i] \in RxEntries
  BY <1>2, SeqElement, Zenon
<1>4. ASSUME NEW i \in 1 .. n
      PROVE  /\ list[i] \in RxEntries /\ list[i].sn = r.rx_list[i].sn
             /\ r.rx_list[i].sn # sn => list[i] = r.rx_list[i]
  <2>1. PICK e : e = r.rx_list[i] /\ e \in RxEntries
    BY <1>3
  <2>2. list[i] = IF e.sn = sn THEN [e EXCEPT !.data = FALSE, !.size = 0] ELSE e
    BY <1>1, <1>2, <2>1
  <2>3. [e EXCEPT !.data = FALSE, !.size = 0] \in RxEntries /\ [e EXCEPT !.data = FALSE, !.size = 0].sn = e.sn
    BY <2>1 DEF RxEntries
  <2> QED BY <2>1, <2>2, <2>3
<1>5. DOMAIN list = 1 .. n
  BY <1>1, <1>2
<1>6. list \in Seq(RxEntries)
  <2>1. list \in [1 .. n -> RxEntries]
    BY <1>1, <1>2, <1>4
  <2> QED BY <1>2, <2>1
<1>7. RxShape(u) /\ u.rx_list = list /\ u.rx_next_highest = r.rx_next_highest
      /\ u.rx_next_reassembly = r.rx_next_reassembly
  BY <1>1, <1>6 DEF RxShape
<1>8. \A h : Sorted(r.rx_list, h) => Sorted(list, h)
  BY <1>2, <1>4, <1>5, Zenon DEF Sorted
<1>9. \A h : InWindow(r.rx_list, h) => InWindow(list, h)
  BY <1>2, <1>4, <1>5, Zenon DEF InWindow
<1>10. ASSUME NEW a, a # sn, Delivered(list, a) PROVE Delivered(r.rx_list, a)
  <2>1. PICK i \in 1 .. n : list[i].sn = a /\ ~list[i].data /\ \A j \in 1 .. n : list[j].sn = a => i <= j
    BY <1>5, <1>10, Zenon DEF Delivered
  <2>2. r.rx_list[i].sn = a /\ ~r.rx_list[i].data
    BY <1>4, <1>10, <2>1, Zenon
  <2>3. \A j \in 1 .. n : r.rx_list[j].sn = a => i <= j
    BY <1>4, <2>1, Zenon
  <2> QED BY <1>2, <2>2, <2>3, Zenon DEF Delivered
<1> QED BY <1>7, <1>8, <1>9, <1>10, Zenon

\* The window starts half of the SNs after its end.
LEMMA PosOfStart ==
  ASSUME NEW h \in Sns
  PROVE  Plus(h, SnCount - WindowSize) \in Sns /\ Pos(h, Plus(h, SnCount - WindowSize)) = 0
<1>1. PICK x : x = Plus(h, SnCount - WindowSize)
  OBVIOUS
<1>2. SnCount - WindowSize \in 0 .. SnCount /\ h \in 0 .. (SnCount - 1) /\ h \in Int /\ SnCount - WindowSize = WindowSize
  BY HalfWindow DEF Sns
<1>3. x \in Sns /\ x \in Nat /\ (x = h + (SnCount - WindowSize) \/ x = h + (SnCount - WindowSize) - SnCount)
  BY <1>1, <1>2, PlusIs
<1>4. /\ Pos(h, x) \in Nat /\ Pos(h, x) < SnCount
      /\ \/ Pos(h, x) = x - h + WindowSize
         \/ Pos(h, x) = x - h + WindowSize - SnCount
         \/ Pos(h, x) = x - h + WindowSize + SnCount
  BY <1>3, PosIs
<1>5. Pos(h, x) = 0
  BY <1>2, <1>3, <1>4, HalfWindow
<1> QED BY <1>1, <1>3, <1>5

\* Outside in terms of places.
LEMMA OutsideIs ==
  ASSUME NEW r, NEW h \in Sns, r.rx_next_highest = h, NEW sn \in Sns
  PROVE  Outside(r, sn) <=> Pos(h, sn) >= WindowSize
<1>1. sn_compare_rx(r, sn, r.rx_next_highest) = Pos(h, sn) - Pos(h, h)
  BY Zenon DEF sn_compare_rx, modulus_rx, Pos
<1>2. Pos(h, sn) \in Nat /\ Pos(h, h) = WindowSize
  BY PosIs, PosOfEnd
<1> QED BY <1>1, <1>2, HalfWindow DEF Outside

\* rx_next_reassembly goes on to another SDU of the window.
LEMMA NextKeeps ==
  ASSUME NEW r, RxShape(r), Sorted(r.rx_list, r.rx_next_highest), InWindow(r.rx_list, r.rx_next_highest),
         NEW f \in Sns, Pos(r.rx_next_highest, f) <= WindowSize, ~Delivered(r.rx_list, f)
  PROVE  WindowInv([r EXCEPT !.rx_next_reassembly = f])
<1>1. PICK u : u = [r EXCEPT !.rx_next_reassembly = f]
  OBVIOUS
<1>2. RxShape(u) /\ u.rx_list = r.rx_list /\ u.rx_next_highest = r.rx_next_highest /\ u.rx_next_reassembly = f
  BY <1>1 DEF RxShape
<1>3. WindowInv(u)
  BY <1>2, Zenon DEF WindowInv
<1> QED BY <1>1, <1>3, Zenon

\* MoveWindow drops what leaves the window and takes rx_next_reassembly along.
LEMMA MoveKeeps ==
  ASSUME NEW r, RxShape(r), NEW h, h = r.rx_next_highest, Sorted(r.rx_list, h), NEW x \in Sns, Outside(r, x),
         \A k \in DOMAIN r.rx_list : Pos(h, r.rx_list[k].sn) < WindowSize \/ r.rx_list[k].sn = x,
         Pos(h, r.rx_next_reassembly) <= WindowSize, ~Delivered(r.rx_list, r.rx_next_reassembly)
  PROVE  WindowInv(MoveWindow(r, x))
<1> DEFINE e == Plus(x, 1)
           list == r.rx_list
           next == r.rx_next_reassembly
           r1 == [r EXCEPT !.rx_next_highest = e]
           old == {sn \in Sns : Outside(r1, sn)}
           rest == DropLeading(list, old)
<1>1. h \in Sns /\ next \in Sns /\ list \in Seq(RxEntries)
  BY DEF RxShape
<1>2. Pos(h, x) >= WindowSize
  BY <1>1, OutsideIs
<1>3. e \in Sns
  BY <1>1, <1>2, PosMoves
<1>4. PICK d \in 1 .. WindowSize :
        /\ Pos(h, x) = WindowSize + d - 1 /\ Pos(e, x) = WindowSize - 1
        /\ \A sn \in Sns : Pos(h, sn) <= WindowSize =>
             Pos(e, sn) = IF Pos(h, sn) >= d THEN Pos(h, sn) - d ELSE Pos(h, sn) + SnCount - d
  BY <1>1, <1>2, PosMoves
<1>5. r1.rx_next_highest = e
  BY DEF RxShape
<1> HIDE DEF e
<1>6. \A sn \in Sns : sn \in old <=> Pos(e, sn) >= WindowSize
  <2>1. \A sn \in Sns : Outside(r1, sn) <=> Pos(e, sn) >= WindowSize
    <3> HIDE DEF r1
    <3> QED BY <1>3, <1>5, OutsideIs
  <2> QED BY <2>1, Zenon
<1>7. PICK q : Dropped(list, rest, q, old)
  BY <1>1, DropIs, Zenon
<1>8. PICK u, z : u = [r EXCEPT !.rx_next_highest = e, !.rx_list = rest, !.rx_size = z]
                  /\ MoveWindow(r, x) = IF Outside(u, u.rx_next_reassembly)
                                        THEN [u EXCEPT !.rx_next_reassembly = FirstUndelivered(u, Plus(u.rx_next_highest, SnCount - WindowSize))]
                                        ELSE u
  <2> DEFINE y == FoldLeft(LAMBDA n, p : n - p.size, r1.rx_size, SubSeq(r.rx_list, 1, Len(r.rx_list) - Len(rest)))
             v == [r1 EXCEPT !.rx_list = rest, !.rx_size = y]
  <2>1. MoveWindow(r, x) = IF Outside(v, v.rx_next_reassembly)
                           THEN [v EXCEPT !.rx_next_reassembly = FirstUndelivered(v, Plus(v.rx_next_highest, SnCount - WindowSize))]
                           ELSE v
    BY DEF MoveWindow, e
  <2> HIDE DEF y
  <2>2. v = [r EXCEPT !.rx_next_highest = e, !.rx_list = rest, !.rx_size = y]
    BY DEF RxShape
  <2> QED BY <2>1, <2>2
<1> HIDE DEF rest, old, r1
<1>9. RxShape(u) /\ u.rx_list = rest /\ u.rx_next_highest = e /\ u.rx_next_reassembly = next
  <2>1. rest \in Seq(RxEntries)
    BY <1>7 DEF Dropped
  <2> QED BY <1>3, <1>8, <2>1 DEF RxShape
<1>10. /\ \A k \in DOMAIN rest : k + q \in DOMAIN list /\ rest[k] = list[k + q]
       /\ Sorted(rest, h)
       /\ next \notin old => ~Delivered(rest, next)
  <2>1. /\ \A k \in DOMAIN rest : k + q \in DOMAIN list /\ rest[k] = list[k + q]
        /\ \A g : Sorted(list, g) => Sorted(rest, g)
        /\ \A g : InWindow(list, g) => InWindow(rest, g)
        /\ \A sn : sn \notin old /\ ~Delivered(list, sn) => ~Delivered(rest, sn)
    <3> HIDE DEF list
    <3> QED BY <1>1, <1>7, DropKeeps
  <2> QED BY <2>1, Zenon
<1>11. \A sn \in Sns : Pos(h, sn) \in Nat /\ Pos(e, sn) \in Nat
  BY <1>1, <1>3, PosIs
<1>12. \A k \in DOMAIN list : list[k].sn \in Sns
  <2>1. \A k \in DOMAIN list : list[k] \in RxEntries
    BY <1>1, SeqElement, Zenon
  <2> QED BY <2>1 DEF RxEntries
<1>13. ASSUME NEW k \in DOMAIN list, list[k].sn \notin old \/ Pos(h, list[k].sn) >= d
       PROVE  /\ Pos(h, list[k].sn) >= d /\ Pos(e, list[k].sn) < WindowSize
              /\ Pos(e, list[k].sn) = Pos(h, list[k].sn) - d
  <2>1. PICK sn : sn = list[k].sn /\ sn \in Sns /\ Pos(h, sn) \in Nat /\ Pos(e, sn) \in Nat
    BY <1>11, <1>12
  <2>2. CASE sn = x
    BY <1>4, <2>1, <2>2, HalfWindow
  <2>3. CASE Pos(h, sn) < WindowSize
    <3>1. Pos(e, sn) = IF Pos(h, sn) >= d THEN Pos(h, sn) - d ELSE Pos(h, sn) + SnCount - d
      BY <1>4, <2>1, <2>3, HalfWindow
    <3>2. Pos(h, sn) >= d
      BY <1>6, <1>13, <2>1, <3>1, HalfWindow
    <3> QED BY <2>1, <2>3, <3>1, <3>2, HalfWindow
  <2> QED BY <2>1, <2>2, <2>3
<1>14. ASSUME NEW k \in DOMAIN rest
       PROVE  Pos(e, rest[k].sn) < WindowSize /\ Pos(e, rest[k].sn) = Pos(h, rest[k].sn) - d
  <2>1. DOMAIN rest = 1 .. Len(rest) /\ Len(rest) \in Nat /\ Len(rest) = Len(list) - q /\ q \in Nat /\ Len(list) \in Nat
        /\ DOMAIN list = 1 .. Len(list)
    BY <1>1, <1>7 DEF Dropped
  <2>2. 1 \in DOMAIN rest /\ q < Len(list) /\ q + 1 = 1 + q /\ k \in Nat /\ k >= 1
    BY <2>1
  <2>3. rest[1] = list[q + 1] /\ q + 1 \in DOMAIN list /\ list[q + 1].sn \notin old
    BY <1>7, <1>10, <2>2 DEF Dropped
  <2>4. Pos(h, rest[1].sn) >= d
    BY <1>13, <2>3
  <2>5. Pos(h, rest[1].sn) <= Pos(h, rest[k].sn)
    <3>1. k = 1 \/ 1 < k
      BY <2>2
    <3>2. Pos(h, rest[1].sn) \in Nat
      BY <1>11, <1>12, <2>3
    <3> QED BY <1>10, <2>2, <3>1, <3>2 DEF Sorted
  <2>6. k + q \in DOMAIN list /\ rest[k] = list[k + q]
    BY <1>10
  <2>7. Pos(h, list[k + q].sn) \in Nat /\ Pos(h, rest[1].sn) \in Nat
    BY <1>11, <1>12, <2>3, <2>6
  <2>8. Pos(h, list[k + q].sn) >= d
    BY <2>4, <2>5, <2>6, <2>7
  <2> QED BY <1>13, <2>6, <2>8
<1>15. InWindow(rest, e)
  BY <1>14, Zenon DEF InWindow
<1>16. Sorted(rest, e)
  <2> SUFFICES ASSUME NEW i \in DOMAIN rest, NEW j \in DOMAIN rest, i < j
               PROVE  Pos(e, rest[i].sn) <= Pos(e, rest[j].sn)
    BY DEF Sorted
  <2>1. Pos(h, rest[i].sn) <= Pos(h, rest[j].sn)
    BY <1>10 DEF Sorted
  <2>2. Pos(h, rest[i].sn) \in Nat /\ Pos(h, rest[j].sn) \in Nat
    BY <1>10, <1>11, <1>12
  <2> QED BY <1>14, <2>1, <2>2
<1>17. /\ Outside(u, next) <=> Pos(e, next) >= WindowSize
       /\ Pos(e, next) = IF Pos(h, next) >= d THEN Pos(h, next) - d ELSE Pos(h, next) + SnCount - d
       /\ Pos(h, next) \in Nat /\ Pos(e, next) \in Nat
  <2>1. Outside(u, next) <=> Pos(e, next) >= WindowSize
    BY <1>1, <1>3, <1>9, OutsideIs
  <2> QED BY <1>1, <1>4, <1>11, <2>1
<1>18. CASE Outside(u, next)
  <2>1. Plus(e, SnCount - WindowSize) \in Sns /\ Pos(e, Plus(e, SnCount - WindowSize)) <= WindowSize
    BY <1>3, PosOfStart, HalfWindow
  <2>2. PICK f : f = FirstUndelivered(u, Plus(e, SnCount - WindowSize))
    OBVIOUS
  <2>3. f \in Sns /\ Pos(e, f) <= WindowSize /\ ~Delivered(rest, f)
    BY <1>3, <1>9, <1>15, <2>1, <2>2, FirstUndeliveredIs
  <2>4. MoveWindow(r, x) = [u EXCEPT !.rx_next_reassembly = f]
    BY <1>8, <1>9, <1>18, <2>2, Zenon
  <2> QED BY <1>9, <1>15, <1>16, <2>3, <2>4, NextKeeps
<1>19. CASE ~Outside(u, next)
  <2>1. MoveWindow(r, x) = u
    BY <1>8, <1>9, <1>19, Zenon
  <2>2. next \notin old /\ Pos(e, next) <= WindowSize
    BY <1>1, <1>6, <1>17, <1>19, HalfWindow
  <2> QED BY <1>9, <1>10, <1>15, <1>16, <2>1, <2>2, Zenon DEF WindowInv
<1> QED BY <1>18, <1>19

\* PDUs in flight; only the first segment of an SDU has offset 0.
Pdus == [sn : Sns, so : Nat, size : Nat, first : BOOLEAN, last : BOOLEAN, id : Nat]
PduOk(p) == p \in Pdus /\ (p.first <=> p.so = 0)

\* recv_pdu keeps the invariant, whatever segment comes.
LEMMA RecvPduKeeps ==
  ASSUME NEW r, RxInv(r), NEW pdu, PduOk(pdu)
  PROVE  RxInv(recv_pdu(r, pdu))
<1> DEFINE h == r.rx_next_highest
           list == r.rx_list
           next == r.rx_next_reassembly
           x == pdu.sn
           e == [sn |-> pdu.sn, so |-> pdu.so, size |-> pdu.size, last |-> pdu.last, id |-> pdu.id, data |-> TRUE]
           new == pdu_list_add(r, e)
           r0 == [r EXCEPT !.rx_size = @ + pdu.size, !.rx_list = new]
           full == reassemble_and_deliver(r0, x)
           r1 == IF sdu_full(r0, x) THEN AdvanceReassembly(full, x)
                 ELSE IF Outside(r0, x) THEN MoveWindow(r0, x)
                 ELSE r0
<1>1. WindowInv(r) /\ RxShape(r) /\ h \in Sns /\ next \in Sns /\ list \in Seq(RxEntries)
      /\ Sorted(list, h) /\ InWindow(list, h) /\ Pos(h, next) <= WindowSize /\ ~Delivered(list, next)
  BY DEF RxInv, WindowInv, RxShape
<1>2. pdu \in Pdus /\ (pdu.first <=> pdu.so = 0)
  BY DEF PduOk
<1>3. e \in RxEntries /\ e.data /\ e.sn = x /\ x \in Sns /\ e.so = pdu.so /\ e.last = pdu.last
  BY <1>2 DEF Pdus, RxEntries
<1>4. CASE pdu.first /\ pdu.last
  <2>1. PICK u, d : u = [r EXCEPT !.delivered = d] /\ recv_pdu(r, pdu) = u
    BY <1>4 DEF recv_pdu
  <2>2. /\ RxShape(u) /\ u.t_reassembly = r.t_reassembly /\ u.rx_timer_trigger = r.rx_timer_trigger
        /\ u.rx_list = r.rx_list /\ u.rx_next_highest = r.rx_next_highest
        /\ u.rx_next_reassembly = r.rx_next_reassembly
    BY <1>1, <2>1 DEF RxShape
  <2>3. WindowInv(u) /\ TriggerInWindow(u)
    BY <2>2, Zenon DEF RxInv, WindowInv, TriggerInWindow
  <2>4. Gap(u, Plus(u.rx_next_reassembly, 1)) <=> Gap(r, Plus(r.rx_next_reassembly, 1))
    BY <2>2, GapSame
  <2> QED BY <2>1, <2>2, <2>3, <2>4, Zenon DEF RxInv
<1>5. CASE ~(pdu.first /\ pdu.last) /\ recv_pdu(r, pdu) = r
  BY <1>5, Zenon
<1>6. CASE ~(pdu.first /\ pdu.last) /\ recv_pdu(r, pdu) = reception_actions(r0, x)
  <2>1. PICK i : Inserted(RxEntries, list, new, i, e) /\ Sorted(new, h)
    BY <1>1, <1>3, ListAddIs
  <2> HIDE DEF new, e
  <2>2. new \in Seq(RxEntries)
    BY <2>1 DEF Inserted
  <2>3. /\ RxShape(r0) /\ r0.rx_list = new /\ r0.rx_next_highest = h /\ r0.rx_next_reassembly = next
    <3>1. PICK z : r0 = [r EXCEPT !.rx_size = z, !.rx_list = new]
      OBVIOUS
    <3> HIDE DEF r0
    <3> QED BY <1>1, <2>2, <3>1 DEF RxShape
  <2> HIDE DEF r0
  <2>4. ~Delivered(new, next)
    BY <1>1, <1>3, <2>1, InsertNotDelivered
  <2>5. ASSUME NEW k \in DOMAIN new PROVE Pos(h, new[k].sn) < WindowSize \/ new[k].sn = x
    <3>1. /\ i \in DOMAIN new
          /\ \A j \in DOMAIN list : Moved(j, i) \in DOMAIN new /\ new[Moved(j, i)] = list[j]
          /\ \A l \in DOMAIN new : l # i => \E j \in DOMAIN list : l = Moved(j, i) /\ new[l] = list[j]
          /\ \A l, j \in DOMAIN list : Moved(l, i) <= Moved(j, i) <=> l <= j
      <4> HIDE DEF list
      <4> QED BY <1>1, <2>1, InsertedIs
    <3>2. new[i].sn = x
      BY <1>3, <2>1, Zenon DEF Inserted
    <3> QED BY <1>1, <3>1, <3>2, Zenon DEF InWindow
  <2>6. WindowInv(r1)
    <3>1. CASE sdu_full(r0, x)
      <4>1. PICK k \in DOMAIN list : list[k].sn = x
        <5>1. ~(e.so = 0 /\ e.last)
          BY <1>2, <1>3, <1>6
        <5>2. sdu_full(r0, e.sn)
          BY <1>3, <3>1, Zenon
        <5> HIDE DEF list
        <5>3. \E k \in DOMAIN list : list[k].sn = e.sn
          BY <1>1, <1>3, <2>1, <2>3, <5>1, <5>2, FullInWindow
        <5> QED BY <1>3, <5>3, Zenon
      <4>2. Pos(h, x) < WindowSize
        BY <1>1, <4>1, Zenon DEF InWindow
      <4>3. InWindow(new, h)
        BY <2>5, <4>2, Zenon DEF InWindow
      <4>4. /\ RxShape(full) /\ full.rx_next_highest = r0.rx_next_highest
            /\ full.rx_next_reassembly = r0.rx_next_reassembly
            /\ \A g : Sorted(r0.rx_list, g) => Sorted(full.rx_list, g)
            /\ \A g : InWindow(r0.rx_list, g) => InWindow(full.rx_list, g)
            /\ \A a : a # x /\ ~Delivered(r0.rx_list, a) => ~Delivered(full.rx_list, a)
        BY <2>3, ReassembleIs
      <4> HIDE DEF full
      <4>5. /\ full.rx_next_highest = h /\ full.rx_next_reassembly = next
            /\ Sorted(full.rx_list, h) /\ InWindow(full.rx_list, h)
            /\ x # next => ~Delivered(full.rx_list, next)
        BY <2>1, <2>3, <2>4, <4>3, <4>4, Zenon
      <4>6. CASE x = next
        <5>1. PICK f : f = FirstUndelivered(full, x)
          OBVIOUS
        <5>2. f \in Sns /\ Pos(h, f) <= WindowSize /\ ~Delivered(full.rx_list, f)
          BY <1>1, <1>3, <4>5, <4>6, <5>1, FirstUndeliveredIs
        <5>3. r1 = [full EXCEPT !.rx_next_reassembly = f]
          BY <3>1, <4>5, <4>6, <5>1, Zenon DEF AdvanceReassembly
        <5> QED BY <4>4, <4>5, <5>2, <5>3, NextKeeps
      <4>7. CASE x # next
        <5>1. r1 = full
          BY <3>1, <4>5, <4>7, Zenon DEF AdvanceReassembly
        <5> QED BY <1>1, <4>4, <4>5, <4>7, <5>1, Zenon DEF WindowInv
      <4> QED BY <4>6, <4>7
    <3>2. CASE ~sdu_full(r0, x) /\ Outside(r0, x)
      <4>1. r1 = MoveWindow(r0, x)
        BY <3>2, Zenon
      <4>2. WindowInv(MoveWindow(r0, x))
        BY <1>1, <1>3, <2>1, <2>3, <2>4, <2>5, <3>2, MoveKeeps
      <4> QED BY <4>1, <4>2, Zenon
    <3>3. CASE ~sdu_full(r0, x) /\ ~Outside(r0, x)
      <4>1. r1 = r0
        BY <3>3, Zenon
      <4>2. Pos(h, x) \in Nat /\ ~(Pos(h, x) >= WindowSize)
        BY <1>1, <1>3, <2>3, <3>3, OutsideIs, PosIs
      <4>3. Pos(h, x) < WindowSize
        BY <4>2, HalfWindow
      <4>4. InWindow(new, h)
        BY <2>5, <4>3, Zenon DEF InWindow
      <4> QED BY <1>1, <2>1, <2>3, <2>4, <4>1, <4>4, Zenon DEF WindowInv
    <3> QED BY <3>1, <3>2, <3>3, Zenon
  <2>7. PICK u : u = [r1 EXCEPT !.t_reassembly = @ /\ ~StopReassembly(r1)]
    OBVIOUS
  <2>8. reception_actions(r0, x) = IF ~u.t_reassembly /\ Gap(u, Plus(u.rx_next_reassembly, 1)) THEN StartReassembly(u) ELSE u
    BY <2>7, Zenon DEF reception_actions
  <2> HIDE DEF r1
  <2> QED BY <1>6, <2>6, <2>7, <2>8, TimersKeep
<1>7. \/ pdu.first /\ pdu.last
      \/ recv_pdu(r, pdu) = r
      \/ recv_pdu(r, pdu) = reception_actions(r0, x)
  BY Zenon DEF recv_pdu
<1> QED BY <1>4, <1>5, <1>6, <1>7, Zenon

\* check_t_reassembly keeps the invariant.
LEMMA ExpiryKeeps ==
  ASSUME NEW r, RxInv(r), r.t_reassembly
  PROVE  RxInv(check_t_reassembly(r))
<1> DEFINE h == r.rx_next_highest
           list == r.rx_list
           f == FirstUndelivered(r, r.rx_timer_trigger)
           old == {sn \in Sns : sn_compare_rx(r, sn, f) < 0}
           rest == DropLeading(list, old)
           r1 == [r EXCEPT !.t_reassembly = FALSE, !.rx_next_reassembly = f, !.rx_list = rest]
<1>1. RxShape(r) /\ h \in Sns /\ r.rx_timer_trigger \in Sns /\ list \in Seq(RxEntries)
      /\ Sorted(list, h) /\ InWindow(list, h) /\ Pos(h, r.rx_timer_trigger) <= WindowSize
  BY DEF RxInv, WindowInv, RxShape, TriggerInWindow
<1>2. f \in Sns /\ Pos(h, f) <= WindowSize /\ ~Delivered(list, f)
  BY <1>1, FirstUndeliveredIs
<1>3. check_t_reassembly(r) = IF Gap(r1, r1.rx_next_reassembly + 1) THEN StartReassembly(r1) ELSE r1
  BY Zenon DEF check_t_reassembly
<1> HIDE DEF f
<1>4. f \notin old
  <2>1. sn_compare_rx(r, f, f) = Pos(h, f) - Pos(h, f)
    BY Zenon DEF sn_compare_rx, modulus_rx, Pos
  <2>2. Pos(h, f) \in Nat
    BY <1>1, <1>2, PosIs
  <2>3. ~(sn_compare_rx(r, f, f) < 0)
    BY <2>1, <2>2
  <2> QED BY <2>3, Zenon
<1> HIDE DEF old
<1>5. PICK q : Dropped(list, rest, q, old)
  BY <1>1, DropIs, Zenon
<1> HIDE DEF rest
<1>6. Sorted(rest, h) /\ InWindow(rest, h) /\ ~Delivered(rest, f) /\ rest \in Seq(RxEntries)
  <2>1. /\ \A k \in DOMAIN rest : k + q \in DOMAIN list /\ rest[k] = list[k + q]
        /\ \A g : Sorted(list, g) => Sorted(rest, g)
        /\ \A g : InWindow(list, g) => InWindow(rest, g)
        /\ \A sn : sn \notin old /\ ~Delivered(list, sn) => ~Delivered(rest, sn)
    <3> HIDE DEF list
    <3> QED BY <1>1, <1>5, DropKeeps
  <2> QED BY <1>1, <1>2, <1>4, <1>5, <2>1, Zenon DEF Dropped
<1>7. RxShape(r1) /\ r1.rx_list = rest /\ r1.rx_next_highest = h /\ r1.rx_next_reassembly = f
      /\ r1.t_reassembly = FALSE
  <2>1. PICK u : u = [r EXCEPT !.t_reassembly = FALSE, !.rx_next_reassembly = f, !.rx_list = rest]
    OBVIOUS
  <2>2. RxShape(u) /\ u.rx_list = rest /\ u.rx_next_highest = r.rx_next_highest /\ u.rx_next_reassembly = f
        /\ u.t_reassembly = FALSE
    <3>1. rest \in Seq(RxEntries) /\ f \in Sns /\ RxShape(r)
      BY <1>1, <1>2, <1>6
    <3> QED BY <2>1, <3>1 DEF RxShape
  <2> QED BY <2>1, <2>2, Zenon
<1> HIDE DEF r1
<1>8. WindowInv(r1) /\ TriggerInWindow(r1)
  BY <1>2, <1>6, <1>7, Zenon DEF WindowInv, TriggerInWindow
<1>9. f # SnCount - 1 => f + 1 = Plus(f, 1)
  <2>1. 1 \in 0 .. SnCount /\ f \in 0 .. (SnCount - 1) /\ SnCount \in Nat
    BY <1>2, HalfWindow DEF Sns
  <2>2. Plus(f, 1) \in Nat /\ (Plus(f, 1) = f + 1 \/ Plus(f, 1) = f + 1 - SnCount)
    BY <1>2, <2>1, PlusIs
  <2> QED BY <2>1, <2>2
<1>10. RxInv(IF ~r1.t_reassembly /\ Gap(r1, f + 1) THEN StartReassembly(r1) ELSE r1)
  BY <1>7, <1>8, <1>9, StartKeeps
<1> QED BY <1>3, <1>7, <1>10, Zenon

\* A cleared receiving side.
LEMMA ClearRxKeeps ==
  ASSUME NEW d
  PROVE  RxInv([ClearRx EXCEPT !.delivered = d])
<1>1. PICK u : u = [ClearRx EXCEPT !.delivered = d]
  OBVIOUS
<1>2. 0 \in Sns
  BY HalfWindow DEF Sns
<1>3. /\ RxShape(u) /\ u.rx_list = <<>> /\ u.rx_next_highest = 0 /\ u.rx_next_reassembly = 0
      /\ u.t_reassembly = FALSE
  <2>1. u = [rx_next_highest |-> 0, rx_next_reassembly |-> 0, rx_timer_trigger |-> 0,
             t_reassembly |-> FALSE, rx_list |-> <<>>, rx_size |-> 0, delivered |-> d]
    BY <1>1 DEF ClearRx
  <2>2. <<>> \in Seq(RxEntries)
    OBVIOUS
  <2> QED BY <1>2, <2>1, <2>2 DEF RxShape
<1>4. Sorted(<<>>, 0) /\ InWindow(<<>>, 0) /\ ~Delivered(<<>>, 0)
  BY DEF Sorted, InWindow, Delivered
<1>5. Pos(0, 0) <= WindowSize
  BY <1>2, PosOfEnd, HalfWindow
<1>6. ~Gap(u, Plus(u.rx_next_reassembly, 1))
  <2>1. sn_compare_rx(u, 0, Plus(0, 1)) = Pos(0, 0) - Pos(0, Plus(0, 1))
    BY <1>3, Zenon DEF sn_compare_rx, modulus_rx, Pos
  <2>2. Plus(0, 1) = 1 /\ 1 \in Sns /\ 1 \in 0 .. SnCount
    <3>1. 1 \in 0 .. SnCount /\ 1 \in Sns
      BY HalfWindow DEF Sns
    <3>2. Plus(0, 1) \in Nat /\ (Plus(0, 1) = 0 + 1 \/ Plus(0, 1) = 0 + 1 - SnCount)
      BY <1>2, <3>1, PlusIs
    <3> QED BY <3>1, <3>2, HalfWindow
  <2>3. Pos(0, 1) = WindowSize + 1 /\ Pos(0, 0) = WindowSize
    BY <1>2, <2>2, PosIs, PosOfEnd, HalfWindow
  <2>4. ~(sn_compare_rx(u, 0, Plus(0, 1)) > 0)
    BY <2>1, <2>2, <2>3, HalfWindow
  <2>5. 0 # Plus(0, 1)
    BY <2>2
  <2> QED BY <1>3, <2>4, <2>5, Zenon DEF Gap
<1>7. WindowInv(u) /\ TriggerInWindow(u)
  BY <1>3, <1>4, <1>5, Zenon DEF WindowInv, TriggerInWindow
<1> QED BY <1>1, <1>6, <1>7, Zenon DEF RxInv

\* A PDU that serialize_sdu makes.
LEMMA SerializePdu ==
  ASSUME NEW t, TxInv(t), NEW s \in Segments, s.first <=> s.so = 0
  PROVE  \A p \in ToSet(serialize_sdu(t, s).pdu) : PduOk(p)
<1>1. PICK p : p = [sn |-> t.tx_next, so |-> s.so, size |-> s.size, first |-> s.first, last |-> s.last, id |-> s.id]
  OBVIOUS
<1>2. serialize_sdu(t, s).pdu = <<p>>
  BY <1>1 DEF serialize_sdu
<1>3. ToSet(<<p>>) = {p}
  BY DEF ToSet
<1>4. t.tx_next \in Sns
  BY DEF TxInv, TxRecords
<1>5. PduOk(p)
  BY <1>1, <1>4 DEF PduOk, Pdus, Segments
<1> QED BY <1>2, <1>3, <1>5, Zenon

\* A PDU that generate_tx_pdu makes.
LEMMA GeneratedPdu ==
  ASSUME NEW t, TxInv(t), NEW size \in Nat
  PROVE  \A p \in ToSet(generate_tx_pdu(t, size).pdu) : PduOk(p)
<1> DEFINE s == Head(t.tx_list)
           u == TakeHead(t)
           parts == resegment(s, size)
           v == [u EXCEPT !.tx_list = <<parts[2]>> \o @, !.tx_end = IF @ = Null THEN Node(parts[2]) ELSE @,
                          !.bstatus = @ + PduSize(parts[2])]
<1>1. generate_tx_pdu(t, size) =
        IF t.tx_list = <<>> \/ compute_pdu_header_size(s) + 1 > size THEN [t |-> t, pdu |-> <<>>]
        ELSE IF PduSize(s) <= size THEN serialize_sdu(u, s)
        ELSE IF parts = <<>> THEN [t |-> u, pdu |-> <<>>]
        ELSE serialize_sdu(v, parts[1])
  BY Zenon DEF generate_tx_pdu, TakeHead
<1>2. ToSet(<<>>) = {}
  BY DEF ToSet
<1>3. CASE generate_tx_pdu(t, size).pdu = <<>>
  BY <1>2, <1>3, Zenon
<1>4. CASE t.tx_list # <<>> /\ PduSize(s) <= size /\ generate_tx_pdu(t, size) = serialize_sdu(u, s)
  <2>1. TxInv(u) /\ s \in Segments /\ EntryOk(s, 1, t.sdus)
    BY <1>4, TakeHeadKeeps, Zenon
  <2> QED BY <1>4, <2>1, SerializePdu, Zenon DEF EntryOk
<1>5. CASE t.tx_list # <<>> /\ ~(PduSize(s) <= size) /\ parts # <<>> /\ generate_tx_pdu(t, size) = serialize_sdu(v, parts[1])
  <2>1. /\ TxInv(u) /\ s \in Segments /\ EntryOk(s, 1, t.sdus)
        /\ u.sdus = t.sdus /\ u.tx_list = Tail(t.tx_list)
        /\ \A i \in DOMAIN Tail(t.tx_list) : Tail(t.tx_list)[i].first /\ s.id < Tail(t.tx_list)[i].id
    BY <1>5, TakeHeadKeeps, Zenon
  <2>2. PICK a, b : a = parts[1] /\ b = parts[2]
    OBVIOUS
  <2>3. a \in Segments /\ a.so = s.so /\ a.first = s.first
    <3>1. /\ ~(PduSize(s) <= size) /\ resegment(s, size) # <<>> /\ s \in Segments
          /\ a = resegment(s, size)[1] /\ b = resegment(s, size)[2]
      BY <1>5, <2>1, <2>2, Zenon
    <3> HIDE DEF s
    <3> QED BY <3>1, ResegmentIs
  <2>4. PICK p : p = [sn |-> v.tx_next, so |-> a.so, size |-> a.size, first |-> a.first, last |-> a.last, id |-> a.id]
    OBVIOUS
  <2>5. v.tx_next \in Sns
    <3>1. u \in TxRecords
      BY <2>1 DEF TxInv
    <3> HIDE DEF u
    <3>2. v.tx_next = u.tx_next
      BY <3>1 DEF TxRecords
    <3> QED BY <3>1, <3>2 DEF TxRecords
  <2> HIDE DEF v, parts
  <2>6. generate_tx_pdu(t, size).pdu = <<p>>
    BY <1>5, <2>2, <2>4 DEF serialize_sdu
  <2>7. a.first <=> a.so = 0
    BY <2>1, <2>3, Zenon DEF EntryOk
  <2>8. PduOk(p)
    BY <2>3, <2>4, <2>5, <2>7 DEF PduOk, Pdus, Segments
  <2>9. ToSet(<<p>>) = {p}
    BY DEF ToSet
  <2> QED BY <2>6, <2>8, <2>9, Zenon
<1> HIDE DEF u, v, parts, s
<1>6. CASE generate_tx_pdu(t, size) = [t |-> t, pdu |-> <<>>] \/ generate_tx_pdu(t, size) = [t |-> u, pdu |-> <<>>]
  BY <1>3, <1>6
<1> QED BY <1>1, <1>4, <1>5, <1>6, Zenon

---------------------------------------------------------------------------

\* RxInv is inductive, together with TxInv, which says what the segments in flight are.
LEMMA RxInvariance == Spec => []RxInv(rx)
<1> DEFINE AirOk == \A p \in air : PduOk(p)
<1>1. Init => RxInv(rx) /\ AirOk
  <2>1. ClearRx = [ClearRx EXCEPT !.delivered = <<>>]
    BY DEF ClearRx
  <2> QED BY <2>1, ClearRxKeeps DEF Init
<1>2. TxInv(tx) /\ RxInv(rx) /\ AirOk /\ [Next]_vars => RxInv(rx)' /\ AirOk'
  <2> SUFFICES ASSUME TxInv(tx), RxInv(rx), AirOk, [Next]_vars
               PROVE  RxInv(rx') /\ \A p \in air' : PduOk(p)
    BY DEF RxInv, WindowInv, TriggerInWindow, RxShape, PduOk
  <2>1. ASSUME NEW size \in SduSizes, RecvSdu(size) PROVE RxInv(rx') /\ \A p \in air' : PduOk(p)
    BY <2>1, Zenon DEF RecvSdu
  <2>2. ASSUME NEW size \in Grants, GeneratePdu(size) PROVE RxInv(rx') /\ \A p \in air' : PduOk(p)
    <3>1. size \in Nat /\ rx' = rx /\ air' \subseteq air \cup ToSet(generate_tx_pdu(tx, size).pdu)
      BY <2>2, SizeAssumption DEF GeneratePdu
    <3>2. \A p \in ToSet(generate_tx_pdu(tx, size).pdu) : PduOk(p)
      BY <3>1, GeneratedPdu, Zenon
    <3>3. \A p \in air' : PduOk(p)
      BY <3>1, <3>2
    <3> QED BY <3>1, <3>3, Zenon
  <2>3. ASSUME NEW p \in air, RecvPdu(p) PROVE RxInv(rx') /\ \A q \in air' : PduOk(q)
    <3>1. PduOk(p) /\ rx' = recv_pdu(rx, p) /\ air' = air \ {p}
      BY <2>3, Zenon DEF RecvPdu
    <3>2. RxInv(rx')
      BY <3>1, RecvPduKeeps, Zenon
    <3> QED BY <3>1, <3>2, Zenon
  <2>4. ASSUME NEW p \in air, LosePdu(p) PROVE RxInv(rx') /\ \A q \in air' : PduOk(q)
    <3>1. rx' = rx /\ air' = air \ {p}
      BY <2>4, Zenon DEF LosePdu
    <3> QED BY <3>1, Zenon
  <2>5. CASE ReassemblyExpires
    BY <2>5, ExpiryKeeps, Zenon DEF ReassemblyExpires
  <2>6. ASSUME NEW id \in DOMAIN tx.sdus, DiscardSdu(id) PROVE RxInv(rx') /\ \A p \in air' : PduOk(p)
    BY <2>6, Zenon DEF DiscardSdu
  <2>7. CASE reestablishment
    BY <2>7, ClearRxKeeps, Zenon DEF reestablishment
  <2>8. CASE UNCHANGED vars
    BY <2>8, Zenon DEF vars
  <2> QED BY <2>1, <2>2, <2>3, <2>4, <2>5, <2>6, <2>7, <2>8, Zenon DEF Next
<1> HIDE DEF AirOk
<1> QED BY <1>1, <1>2, TxInvariance, PTL DEF Spec

\* Whatever segments are lost, reordered or beyond the window, and whenever t_reassembly
\* expires: rx_list is ordered and inside the window, rx_next_reassembly does not pass the
\* highest SN received, and the SDU it waits for was not delivered.
THEOREM ReceiveWindowKept == Spec => []WindowConsistent
<1>1. RxInv(rx) => WindowConsistent
  <2> SUFFICES ASSUME RxInv(rx) PROVE WindowConsistent
    OBVIOUS
  <2> DEFINE h == rx.rx_next_highest
             list == rx.rx_list
             next == rx.rx_next_reassembly
  <2>1. h \in Sns /\ next \in Sns /\ list \in Seq(RxEntries) /\ Sorted(list, h) /\ InWindow(list, h)
        /\ Pos(h, next) <= WindowSize /\ ~Delivered(list, next)
    BY DEF RxInv, WindowInv, RxShape
  <2>2. \A a, b : sn_compare_rx(rx, a, b) = Pos(h, a) - Pos(h, b)
    BY Zenon DEF sn_compare_rx, modulus_rx, Pos
  <2>3. \A i \in DOMAIN list : list[i].sn \in Sns /\ Pos(h, list[i].sn) \in Nat
    <3>1. \A i \in DOMAIN list : list[i] \in RxEntries
      BY <2>1, SeqElement, Zenon
    <3>2. \A i \in DOMAIN list : list[i].sn \in Sns
      BY <3>1 DEF RxEntries
    <3> QED BY <2>1, <3>2, PosIs
  <2>4. ASSUME NEW i \in DOMAIN list PROVE ~Outside(rx, list[i].sn)
    <3>1. Pos(h, list[i].sn) < WindowSize /\ Pos(h, list[i].sn) \in Nat
      BY <2>1, <2>3 DEF InWindow
    <3>2. Outside(rx, list[i].sn) <=> Pos(h, list[i].sn) >= WindowSize
      BY <2>1, <2>3, OutsideIs
    <3> QED BY <3>1, <3>2, HalfWindow
  <2>5. ASSUME NEW i \in DOMAIN list, NEW j \in DOMAIN list, i < j
        PROVE  sn_compare_rx(rx, list[i].sn, list[j].sn) <= 0
    <3>1. Pos(h, list[i].sn) <= Pos(h, list[j].sn) /\ Pos(h, list[i].sn) \in Nat /\ Pos(h, list[j].sn) \in Nat
      BY <2>1, <2>3, <2>5 DEF Sorted
    <3>2. Pos(h, list[i].sn) - Pos(h, list[j].sn) <= 0
      BY <3>1
    <3> QED BY <2>2, <3>2, Zenon
  <2>6. sn_compare_rx(rx, next, h) <= 0
    <3>1. Pos(h, next) \in Nat /\ Pos(h, h) = WindowSize
      BY <2>1, PosIs, PosOfEnd
    <3>2. Pos(h, next) - Pos(h, h) <= 0
      BY <2>1, <3>1, HalfWindow
    <3> QED BY <2>2, <3>2, Zenon
  <2>7. ~sdu_delivered(rx, next)
    BY <2>1, DeliveredIs, Zenon DEF sdu_delivered
  <2> QED BY <2>4, <2>5, <2>6, <2>7, Zenon DEF WindowConsistent
<1> QED BY <1>1, RxInvariance, PTL

\* While something is missing before the highest SN received t_reassembly runs.
THEOREM MissingIsTimed == Spec => []GapTimed
<1>1. RxInv(rx) => GapTimed
  BY Zenon DEF RxInv, GapTimed, Gapped
<1> QED BY <1>1, RxInvariance, PTL
=============================================================================
