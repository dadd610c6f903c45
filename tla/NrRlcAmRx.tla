----------------------------- MODULE NrRlcAmRx -----------------------------
(***************************************************************************)
(* The receiving side of an NR RLC AM entity                               *)
(* (openair2/LAYER2/nr_rlc/nr_rlc_entity_am.c), as operators on a record r *)
(* with the fields of nr_rlc_entity_am_t that belong to it.                *)
(*                                                                         *)
(* rx_list holds the received PDUs, ordered by SN from RX_Next and then by *)
(* SO; data says whether the bytes of a PDU are still there: they go when  *)
(* its SDU is delivered, while the entry stays until RX_Next has passed.   *)
(* A byte of a PDU is the pair <<id, offset>> of its SDU and its place.    *)
(***************************************************************************)
EXTENDS Integers, Sequences, SequencesExt

CONSTANTS
  SnCount,        \* entity->sn_modulus
  SnBytes,        \* bytes of a header up to the SN: 2 (12-bit SN) or 3 (18-bit)
  RxMaxSize,      \* entity->rx_maxsize
  MaxNackRange    \* SNs one NACK can cover: 255

WindowSize == SnCount \div 2
SoEnd == 65535    \* so_end 0xffff: to the end of the SDU

ClearRx ==
  [rx_next |-> 0, rx_next_status_trigger |-> 0, rx_highest_status |-> 0, rx_next_highest |-> 0,
   status_triggered |-> FALSE, t_reassembly |-> FALSE, t_status_prohibit |-> FALSE,
   rx_list |-> <<>>, rx_size |-> 0,
   delivered |-> <<>>]     \* history: the SDUs given to deliver_sdu

Plus(sn, n) == (sn + n) % SnCount

---------------------------------------------------------------------------
(* Reception of a data PDU *)

modulus_rx(r, a) == (a - r.rx_next) % SnCount
sn_compare_rx(r, a, b) == modulus_rx(r, a) - modulus_rx(r, b)
sn_in_recv_window(r, sn) == modulus_rx(r, sn) < WindowSize

End(p) == p.so + p.size
OfSn(r, sn) == SelectSeq(r.rx_list, LAMBDA p : p.sn = sn)

\* The bytes [so, so + size) that are left after one entry of the list.
Uncovered(part, l) ==
  LET last == part.so + part.size - 1
  IN  IF part.size <= 0 THEN part
      ELSE IF l.so <= part.so /\ part.so < End(l)
      THEN [so |-> End(l), size |-> part.size - (End(l) - part.so)]
      ELSE IF l.so <= last /\ last < End(l) THEN [part EXCEPT !.size = l.so - part.so]
      ELSE part

segment_already_received(r, sn, so, size) ==
  LET left[i \in 0..Len(r.rx_list)] ==
        IF i = 0 THEN [so |-> so, size |-> size]
        ELSE IF r.rx_list[i].sn = sn THEN Uncovered(left[i - 1], r.rx_list[i]) ELSE left[i - 1]
  IN  left[Len(r.rx_list)].size <= 0

\* The places of an SDU's entries in the list.
Entries(r, sn) == {i \in DOMAIN r.rx_list : r.rx_list[i].sn = sn}
IsFirst(r, sn, i) == \A j \in Entries(r, sn) : i <= j

\* The entries of an SDU up to entry i leave no hole before the end of any of them.
NoHole(r, sn, i) ==
  \A j \in Entries(r, sn) :
    j <= i => r.rx_list[j].so <= Max({0} \cup {End(r.rx_list[k]) : k \in {k \in Entries(r, sn) : k < j}})

Unprocessed(r, sn) == \E i \in Entries(r, sn) : IsFirst(r, sn, i) /\ r.rx_list[i].data

\* Mutants: an SDU is full with its last byte; an SDU is full only if its
\* segments do not overlap.
SduFullWithLast(r, sn) == Unprocessed(r, sn) /\ Last(OfSn(r, sn)).last
SduFullNoOverlap(r, sn) ==
  LET l == OfSn(r, sn)
  IN  /\ Unprocessed(r, sn) /\ l[1].so = 0 /\ Last(l).last
      /\ \A i \in 2..Len(l) : l[i].so = End(l[i - 1])

sdu_full(r, sn) == Unprocessed(r, sn) /\ \E i \in Entries(r, sn) : r.rx_list[i].last /\ NoHole(r, sn, i)

sdu_delivered(r, sn) == \E i \in Entries(r, sn) : IsFirst(r, sn, i) /\ ~r.rx_list[i].data

sdu_has_missing_bytes(r, sn) == Unprocessed(r, sn) /\ \E i \in Entries(r, sn) : ~NoHole(r, sn, i)

\* Mutant: overlapping bytes are copied again.
CopyBytesAll(bytes, p) == bytes \o [i \in 1..p.size |-> <<p.id, p.so + i - 1>>]

\* The bytes an entry adds to those copied so far; bytes before its own would
\* be read from outside the PDU.
CopyBytes(bytes, p) ==
  bytes \o [i \in 1..(End(p) - Len(bytes)) |->
              <<p.id, IF Len(bytes) + i - 1 >= p.so THEN Len(bytes) + i - 1 ELSE -1>>]

\* The SDU put together from the entries of an SN.
SduOf(list, sn) ==
  LET sdu[i \in 0..Len(list)] ==
        IF i = 0 THEN <<>> ELSE IF list[i].sn = sn THEN CopyBytes(sdu[i - 1], list[i]) ELSE sdu[i - 1]
  IN  sdu[Len(list)]

\* The size of the entries at some places of the list.
SizeAt(list, places) ==
  LET sum[i \in 0..Len(list)] ==
        IF i = 0 THEN 0 ELSE IF i \in places THEN sum[i - 1] + list[i].size ELSE sum[i - 1]
  IN  sum[Len(list)]

reassemble_and_deliver(r, sn) ==
  [r EXCEPT !.rx_list = [i \in DOMAIN @ |-> IF @[i].sn = sn THEN [@[i] EXCEPT !.data = FALSE] ELSE @[i]],
            !.rx_size = @ - SizeAt(r.rx_list, Entries(r, sn)),
            !.delivered = Append(@, SduOf(r.rx_list, sn))]

\* The first SN from sn on whose SDU has not been delivered.
FirstUndelivered(r, sn) ==
  Plus(sn, Min({n \in 0..(SnCount - 1) : ~sdu_delivered(r, Plus(sn, n))}))

\* Mutant: the update is not limited to the SDU at RX_Highest_Status.
UpdateHighestStatusAlways(r, x) == [r EXCEPT !.rx_highest_status = FirstUndelivered(r, x)]

UpdateHighestStatus(r, x) ==
  IF x = r.rx_highest_status
  THEN [r EXCEPT !.rx_highest_status = FirstUndelivered(r, x)] ELSE r

\* The list without the entries at its head that come before an SN.
FreeBefore(r, sn) ==
  LET i == SelectInSeq(r.rx_list, LAMBDA p : sn_compare_rx(r, p.sn, sn) >= 0)
  IN  IF i = 0 THEN <<>> ELSE SubSeq(r.rx_list, i, Len(r.rx_list))

UpdateRxNext(r, x) ==
  LET next == FirstUndelivered(r, x)
  IN  IF x # r.rx_next THEN r ELSE [r EXCEPT !.rx_next = next, !.rx_list = FreeBefore(r, next)]

\* Mutant: t_reassembly is not stopped when RX_Next reaches the trigger.
StopReassemblyLate(r) ==
  \/ r.rx_next_status_trigger = Plus(r.rx_next, 1) /\ ~sdu_has_missing_bytes(r, r.rx_next)
  \/ /\ ~sn_in_recv_window(r, r.rx_next_status_trigger)
     /\ r.rx_next_status_trigger # Plus(r.rx_next, WindowSize)

StopReassembly(r) ==
  \/ r.rx_next_status_trigger = r.rx_next
  \/ r.rx_next_status_trigger = Plus(r.rx_next, 1) /\ ~sdu_has_missing_bytes(r, r.rx_next)
  \/ /\ ~sn_in_recv_window(r, r.rx_next_status_trigger)
     /\ r.rx_next_status_trigger # Plus(r.rx_next, WindowSize)

\* Is something missing between SN from and the highest SN received?
GapAfter(r, from) ==
  \/ sn_compare_rx(r, r.rx_next_highest, Plus(from, 1)) > 0
  \/ r.rx_next_highest = Plus(from, 1) /\ sdu_has_missing_bytes(r, from)

StartReassemblyIf(r, gap) ==
  IF gap THEN [r EXCEPT !.t_reassembly = TRUE, !.rx_next_status_trigger = r.rx_next_highest] ELSE r

reception_actions(r, x) ==
  LET r1 == [r EXCEPT !.rx_next_highest =
                        IF sn_compare_rx(r, x, @) >= 0 THEN Plus(x, 1) ELSE @]
      r2 == IF sdu_full(r1, x)
            THEN UpdateRxNext(UpdateHighestStatus(reassemble_and_deliver(r1, x), x), x)
            ELSE r1
      r3 == [r2 EXCEPT !.t_reassembly = @ /\ ~StopReassembly(r2)]
  IN  StartReassemblyIf(r3, ~r3.t_reassembly /\ GapAfter(r3, r3.rx_next))

pdu_list_add(r, pdu) ==
  LET i == SelectInSeq(r.rx_list, LAMBDA c : \/ sn_compare_rx(r, c.sn, pdu.sn) > 0
                                             \/ c.sn = pdu.sn /\ c.so > pdu.so)
  IN  IF i = 0 THEN Append(r.rx_list, pdu) ELSE InsertAt(r.rx_list, i, pdu)

Discarded(r, pdu) ==
  \/ r.rx_size + pdu.size > RxMaxSize
  \/ ~sn_in_recv_window(r, pdu.sn)
  \/ segment_already_received(r, pdu.sn, pdu.so, pdu.size)

\* Mutant: the poll bit of a discarded PDU is ignored.
RecvPduPollIfKept(r, pdu) ==
  LET entry == [sn |-> pdu.sn, so |-> pdu.so, size |-> pdu.size, first |-> pdu.first,
                last |-> pdu.last, id |-> pdu.id, data |-> TRUE]
      kept == [r EXCEPT !.rx_size = @ + pdu.size, !.rx_list = pdu_list_add(r, entry),
                        !.status_triggered = @ \/ pdu.p]
  IN  IF Discarded(r, pdu) THEN r ELSE reception_actions(kept, pdu.sn)

\* A PDU with the poll bit triggers a STATUS, whether it is kept or not.
recv_pdu(r, pdu) ==
  LET entry == [sn |-> pdu.sn, so |-> pdu.so, size |-> pdu.size, first |-> pdu.first,
                last |-> pdu.last, id |-> pdu.id, data |-> TRUE]
      kept == [r EXCEPT !.rx_size = @ + pdu.size, !.rx_list = pdu_list_add(r, entry)]
      done == IF Discarded(r, pdu) THEN r ELSE reception_actions(kept, pdu.sn)
  IN  [done EXCEPT !.status_triggered = @ \/ pdu.p]

check_t_reassembly(r) ==
  LET u == [r EXCEPT !.t_reassembly = FALSE,
                     !.rx_highest_status = FirstUndelivered(r, r.rx_next_status_trigger),
                     !.status_triggered = TRUE]
  IN  StartReassemblyIf(u, GapAfter(u, u.rx_highest_status))

---------------------------------------------------------------------------
(* Generation of a STATUS PDU *)

\* A run of missing bytes, from byte so_start of SDU sn_start to byte so_end
\* of SDU sn_end; next is the index of the entry to go on from, 0 for none.
Missing(sn1, so1, sn2, so2, next) ==
  {[sn_start |-> sn1, so_start |-> so1, sn_end |-> sn2, so_end |-> so2, next |-> next]}

\* From entry i, the entries of the SDU of entry j up to j.
Block(l, i, j) == {k \in i..j : l[k].sn = l[j].sn}
MaxSo(l, i, j) == Max({0} \cup {End(l[k]) - 1 : k \in Block(l, i, j)})
LastReached(l, i, j) == \E k \in Block(l, i, j) : l[k].last

Discontinuity(l, i, j) ==
  LET c == l[j + 1]
  IN  /\ ~(c.sn = l[j].sn /\ MaxSo(l, i, j) >= c.so - 1)
      /\ ~(c.sn = Plus(l[j].sn, 1) /\ LastReached(l, i, j) /\ c.first)

\* The end of a run that stops before entry i, within the reporting window.
UpTo(r, sn1, so1, i) ==
  LET c == r.rx_list[i]
      sn2 == IF c.first THEN Plus(c.sn, -1) ELSE c.sn
  IN  IF sn_compare_rx(r, r.rx_highest_status, sn2) <= 0
      THEN Missing(sn1, so1, Plus(r.rx_highest_status, -1), SoEnd, 0)
      ELSE Missing(sn1, so1, sn2, IF c.first THEN SoEnd ELSE c.so - 1, i)

Reported(r, sn1) == sn_compare_rx(r, r.rx_highest_status, sn1) > 0

\* The first run of missing bytes from entry i on, if any, as a set.
next_missing(r, i, check_head) ==
  LET l == r.rx_list
      j == Min({k \in i..Len(l) : k = Len(l) \/ Discontinuity(l, i, k)})
      sn == l[j].sn
      over == LastReached(l, i, j) \/ (j = Len(l) /\ ~l[j].data)
      sn1 == IF over THEN Plus(sn, 1) ELSE sn
      so1 == IF over THEN 0 ELSE MaxSo(l, i, j) + 1
  IN  IF check_head /\ (l[i].sn # r.rx_next \/ ~l[i].first)
      THEN IF Reported(r, r.rx_next) THEN UpTo(r, r.rx_next, 0, i) ELSE {}
      ELSE IF j < Len(l) /\ l[j + 1].sn = sn
      THEN IF Reported(r, sn)
           THEN Missing(sn, MaxSo(l, i, j) + 1, sn, l[j + 1].so - 1, j + 1) ELSE {}
      ELSE IF ~Reported(r, sn1) THEN {}
      ELSE IF j < Len(l) THEN UpTo(r, sn1, so1, j + 1)
      ELSE Missing(sn1, so1, Plus(r.rx_highest_status, -1), SoEnd, 0)

\* A run as NACKs of at most MaxNackRange SNs each.
NacksFor(m) ==
  LET count == ((m.sn_end - m.sn_start) % SnCount) + 1
      pieces == (count + MaxNackRange - 1) \div MaxNackRange
  IN  [i \in 1..pieces |->
         [sn |-> Plus(m.sn_start, (i - 1) * MaxNackRange),
          so_start |-> IF i = 1 THEN m.so_start ELSE 0,
          so_end |-> IF i = pieces THEN m.so_end ELSE SoEnd,
          range |-> IF i = pieces THEN count - (i - 1) * MaxNackRange ELSE MaxNackRange]]

HasSo(k) == k.so_start # 0 \/ k.so_end # SoEnd

nack_size(k) == SnBytes + (IF HasSo(k) THEN 4 ELSE 0) + (IF k.range > 1 THEN 1 ELSE 0)

\* A count of bytes, when the first n of some sizes have been added to it.
After(byte, sizes, n) ==
  LET after[i \in 0..Len(sizes)] == IF i = 0 THEN byte ELSE after[i - 1] + sizes[i]
  IN  after[n]

\* encoder->byte when the first n of some NACKs have been put.
ByteAfter(byte, nacks, n) == After(byte, [i \in 1..Len(nacks) |-> nack_size(nacks[i])], n)

\* How many of some NACKs fit into size bytes.
Fitting(byte, nacks, size) ==
  Max({n \in 0..Len(nacks) : \A i \in 1..n : ByteAfter(byte, nacks, i) <= size})

\* Mutant: the last NACK that fits is not stretched.
GenerateMissingCut(g, m, size) ==
  LET all == NacksFor(m)
      fits == Fitting(g.byte, all, size)
  IN  [next |-> IF fits < Len(all) THEN 0 ELSE m.next, head |-> FALSE,
       nacks |-> g.nacks \o SubSeq(all, 1, fits), byte |-> ByteAfter(g.byte, all, fits)]

\* so_end_address: the last NACK put is made to reach to the end of its SDU.
StretchLast(put) ==
  IF put # <<>> /\ HasSo(Last(put)) THEN [put EXCEPT ![Len(put)].so_end = SoEnd] ELSE put

\* The NACKs of a run m that still fit into size bytes are put after those put so
\* far.  If some do not fit, the last one put is stretched.
generate_missing(g, m, size) ==
  LET all == NacksFor(m)
      fits == Fitting(g.byte, all, size)
      put == g.nacks \o SubSeq(all, 1, fits)
  IN  [next |-> IF fits < Len(all) THEN 0 ELSE m.next, head |-> FALSE,
       nacks |-> IF fits < Len(all) THEN StretchLast(put) ELSE put,
       byte |-> ByteAfter(g.byte, all, fits)]

NextNacks(r, g, size) ==
  LET ms == IF g.next = 0 THEN {} ELSE next_missing(r, g.next, g.head)
  IN  IF ms = {} THEN [g EXCEPT !.next = 0] ELSE generate_missing(g, CHOOSE m \in ms : TRUE, size)

\* The NACKs of a STATUS PDU of at most size bytes.
StatusNacks(r, size) ==
  LET round[i \in 0..(Len(r.rx_list) + 1)] ==
        IF i = 0 THEN [next |-> IF r.rx_list = <<>> THEN 0 ELSE 1, head |-> TRUE, nacks |-> <<>>, byte |-> 3]
        ELSE NextNacks(r, round[i - 1], size)
  IN  round[Len(r.rx_list) + 1].nacks

status_to_report(r) == r.status_triggered /\ ~r.t_status_prohibit

\* The bytes of a NACK, counted from the bits of its fields.
SnBits == IF SnBytes = 3 THEN 18 ELSE 12
NackBits(k) == SnBits + 3 + (IF SnBytes = 3 THEN 3 ELSE 1)
               + (IF HasSo(k) THEN 2 * 16 ELSE 0) + (IF k.range > 1 THEN 8 ELSE 0)

\* The size counted for the first n of some NACKs.
SizeAfter(size, nacks, n) == After(size, [i \in 1..Len(nacks) |-> NackBits(nacks[i]) \div 8], n)

\* How many of some NACKs are counted.
Counted(size, nacks, maxsize) ==
  Max({n \in 0..Len(nacks) : \A i \in 1..n : SizeAfter(size, nacks, i - 1) + nack_size(nacks[i]) <= maxsize})

\* Mutant: the SO fields of a NACK are forgotten.
MissingSizeNoSo(g, m, maxsize) ==
  LET all == NacksFor(m)
      fits == Counted(g.size, all, maxsize)
  IN  [next |-> IF fits < Len(all) THEN 0 ELSE m.next, size |-> g.size + fits * SnBytes, count |-> g.count + fits]

missing_size(g, m, maxsize) ==
  LET all == NacksFor(m)
      fits == Counted(g.size, all, maxsize)
  IN  [next |-> IF fits < Len(all) THEN 0 ELSE m.next, size |-> SizeAfter(g.size, all, fits), count |-> g.count + fits]

NextSize(r, g, maxsize) ==
  LET ms == IF g.next = 0 THEN {} ELSE next_missing(r, g.next, g.count = 0)
  IN  IF ms = {} THEN [g EXCEPT !.next = 0] ELSE missing_size(g, CHOOSE m \in ms : TRUE, maxsize)

\* The size of the next STATUS PDU that is reported to MAC.
status_size(r, maxsize) ==
  LET round[i \in 0..(Len(r.rx_list) + 1)] ==
        IF i = 0 THEN [next |-> IF r.rx_list = <<>> THEN 0 ELSE 1, size |-> 3, count |-> 0]
        ELSE NextSize(r, round[i - 1], maxsize)
  IN  IF maxsize < 3 THEN 0 ELSE round[Len(r.rx_list) + 1].size

\* ACK_SN is the SN after the last NACK, or RX_Next without NACKs.
StatusPdu(r, size) ==
  LET nacks == StatusNacks(r, size)
  IN  [ack_sn |-> IF nacks = <<>> THEN r.rx_next ELSE Plus(Last(nacks).sn, Last(nacks).range),
       nacks |-> nacks]

generate_status(r) == [r EXCEPT !.status_triggered = FALSE, !.t_status_prohibit = TRUE]

clear_rx(r) == [ClearRx EXCEPT !.delivered = r.delivered]
=============================================================================
