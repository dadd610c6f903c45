----------------------------- MODULE NrRlcAmTx -----------------------------
(***************************************************************************)
(* The transmitting side of an NR RLC AM entity                            *)
(* (openair2/LAYER2/nr_rlc/nr_rlc_entity_am.c), as operators on a record t *)
(* with the fields of nr_rlc_entity_am_t that belong to it.                *)
(*                                                                         *)
(* An SDU is cut into segments on transmission; a segment is in one of     *)
(* three lists: tx_list (not sent yet), wait_list (sent, waiting for an    *)
(* acknowledgement) or retransmit_list.  A list is the sequence of its     *)
(* segments.  A segment carries the SN of its SDU, -1 before the first     *)
(* transmission.  tx_end and wait_end, the pointers to the last node of a  *)
(* list, are kept as pointers: the program maintains them separately from  *)
(* the lists, so they may be NULL or stale while the list is not empty.    *)
(*                                                                         *)
(* A timer is running or not: when it expires is left to the caller, so    *)
(* every order of expiries that the configured durations allow is covered. *)
(***************************************************************************)
EXTENDS Integers, Sequences, SequencesExt

CONSTANTS
  SnCount,           \* entity->sn_modulus
  SnBytes,           \* bytes of a header up to the SN: 2 (12-bit SN) or 3 (18-bit)
  PollPdu, PollByte, \* entity->poll_pdu and poll_byte, 0 for infinity (-1 in C)
  MaxRetxThreshold,  \* entity->max_retx_threshold
  TxMaxSize,         \* entity->tx_maxsize
  RetxBound          \* bound: retx_count saturates at this value

WindowSize == SnCount \div 2

Null == <<>>                   \* the NULL pointer
Node(s) == <<s.id, s.so>>      \* the pointer to segment s
EndOf(list) == IF list = <<>> THEN Null ELSE Node(Last(list))

ClearTx ==
  [tx_next |-> 0, tx_next_ack |-> 0, poll_sn |-> 0,
   pdu_without_poll |-> 0, byte_without_poll |-> 0, force_poll |-> FALSE,
   t_poll_retransmit |-> FALSE,
   tx_list |-> <<>>, tx_end |-> Null, tx_size |-> 0,
   wait_list |-> <<>>, wait_end |-> Null, retransmit_list |-> <<>>,
   bstatus |-> [tx_size |-> 0, retx_size |-> 0],
   sdus |-> <<>>,          \* [size, ref_count, free_count, retx_count] of each SDU
   acked |-> {},           \* SDUs reported with sdu_successful_delivery
   max_retx |-> {},        \* SDUs for which max_retx_reached was called
   crashed |-> FALSE]      \* an invalid pointer was dereferenced

---------------------------------------------------------------------------
(* Segments and lists *)

compute_pdu_header_size(s) == SnBytes + (IF s.first THEN 0 ELSE 2)
PduSize(s) == compute_pdu_header_size(s) + s.size
TotalPduSize(list) == FoldLeft(LAMBDA n, s : n + PduSize(s), 0, list)

modulus_tx(t, a) == (a - t.tx_next_ack) % SnCount
sn_compare_tx(t, a, b) == modulus_tx(t, a) - modulus_tx(t, b)

Comes(t, c, s) == \/ sn_compare_tx(t, c.sn, s.sn) > 0
                  \/ c.sn = s.sn /\ c.so > s.so

\* Mutant: the list is not kept in order.
SegmentListAddLast(t, list, s) == Append(list, s)

segment_list_add(t, list, s) ==
  LET i == SelectInSeq(list, LAMBDA c : Comes(t, c, s))
  IN  IF i = 0 THEN Append(list, s) ELSE InsertAt(list, i, s)

\* (*end)->next = s.  If end is not the last node the nodes after it are lost;
\* if it is no node of the list, s is.
segment_list_append(list, end, s) ==
  LET i == SelectInSeq(list, LAMBDA c : Node(c) = end)
  IN  IF list = <<>> \/ i # 0 THEN Append(SubSeq(list, 1, i), s) ELSE list

new_sdu(id, size) == [id |-> id, sn |-> -1, so |-> 0, size |-> size, first |-> TRUE, last |-> TRUE]

\* The last segment of an SDU takes the SDU with it.
free_sdu_segment(t, s) ==
  [t EXCEPT !.sdus[s.id].free_count = @ + 1]

WholeSduFreed(t, s) == t.sdus[s.id].free_count = t.sdus[s.id].ref_count

\* Mutant: the first acknowledged segment takes the SDU with it.
AcknowledgeAll(t, s) ==
  [t EXCEPT !.sdus[s.id].free_count = t.sdus[s.id].ref_count,
            !.tx_size = @ - t.sdus[s.id].size, !.acked = @ \cup {s.id}]

Acknowledge(t, s) ==
  LET u == free_sdu_segment(t, s)
  IN  IF WholeSduFreed(u, s)
      THEN [u EXCEPT !.tx_size = @ - u.sdus[s.id].size, !.acked = @ \cup {s.id}]
      ELSE u

\* A segment goes to the retransmission list: count it and ask for room.
CountRetransmission(t, s) ==
  LET n == t.sdus[s.id].retx_count + 1
  IN  [t EXCEPT !.sdus[s.id].retx_count = IF n > RetxBound THEN RetxBound ELSE n,
                !.max_retx = IF n >= MaxRetxThreshold * t.sdus[s.id].ref_count
                             THEN @ \cup {s.id} ELSE @,
                !.bstatus.retx_size = @ + PduSize(s)]

---------------------------------------------------------------------------
(* Transmission *)

\* SDUs are numbered in the order they are accepted.
recv_sdu(t, size) ==
  IF t.tx_size + size > TxMaxSize THEN t
  ELSE LET s == new_sdu(Len(t.sdus) + 1, size)
       IN  [t EXCEPT !.tx_size = @ + size,
                     !.sdus = Append(@, [size |-> size, ref_count |-> 1, free_count |-> 0, retx_count |-> -1]),
                     !.tx_list = segment_list_append(@, t.tx_end, s),
                     !.tx_end = Node(s),
                     !.bstatus.tx_size = @ + PduSize(s)]

is_window_stalling(t) ==
  ~ /\ sn_compare_tx(t, t.tx_next_ack, t.tx_next) <= 0
    /\ sn_compare_tx(t, t.tx_next, (t.tx_next_ack + WindowSize) % SnCount) < 0

check_poll_after_pdu_assembly(t) ==
  \/ t.tx_list = <<>> /\ t.retransmit_list = <<>>
  \/ is_window_stalling(t)

include_poll(t) ==
  [t EXCEPT !.pdu_without_poll = 0, !.byte_without_poll = 0,
            !.poll_sn = (t.tx_next - 1) % SnCount,
            !.t_poll_retransmit = TRUE]

\* The parts of segment s when its PDU must fit into size bytes.
resegment(s, size) ==
  LET room == size - compute_pdu_header_size(s)
  IN  IF PduSize(s) <= size THEN <<s>>
      ELSE <<[s EXCEPT !.size = room, !.last = FALSE],
             [s EXCEPT !.size = @ - room, !.so = @ + room, !.first = FALSE]>>

\* The outcomes of putting s in the wait list.  The ordering test reads
\* *wait_end: if that node was freed, the test may give either result or crash.
PutInWaitList(t, s) ==
  LET end == SelectInSeq(t.wait_list, LAMBDA c : Node(c) = t.wait_end)
      appended == IF t.wait_end = Null /\ t.wait_list # <<>>
                  THEN [t EXCEPT !.crashed = TRUE]
                  ELSE [t EXCEPT !.wait_list = segment_list_append(@, t.wait_end, s),
                                 !.wait_end = Node(s)]
      list == segment_list_add(t, t.wait_list, s)
      added == [t EXCEPT !.wait_list = list,
                         !.wait_end = IF Len(list) = 1 THEN EndOf(list) ELSE @]
      isAfter(e) == \/ sn_compare_tx(t, s.sn, e.sn) > 0
                    \/ sn_compare_tx(t, s.sn, e.sn) = 0 /\ s.so > e.so
  IN  IF t.wait_end = Null THEN {appended}
      ELSE IF end # 0 THEN {IF isAfter(t.wait_list[end]) THEN appended ELSE added}
      ELSE {appended, added, [t EXCEPT !.crashed = TRUE]}

\* The PDU of segment s, with the poll bit set if poll or force_poll say so.
serialize_sdu(t, s, poll) ==
  LET p == poll \/ t.force_poll
  IN  [t |-> IF p THEN include_poll([t EXCEPT !.force_poll = FALSE]) ELSE t,
       pdu |-> [sn |-> s.sn, so |-> s.so, size |-> s.size, first |-> s.first,
                last |-> s.last, id |-> s.id, p |-> p]]

Fits(list, size) == list # <<>> /\ compute_pdu_header_size(Head(list)) + 1 <= size

generate_retx_pdu(t, size) ==
  LET parts == resegment(Head(t.retransmit_list), size)
      s == Head(parts)
      u == [t EXCEPT !.retransmit_list = Tail(parts) \o Tail(@),
                     !.bstatus.retx_size = @ - PduSize(Head(t.retransmit_list))
                                             + TotalPduSize(Tail(parts)),
                     !.sdus[s.id].ref_count = @ + Len(parts) - 1]
  IN  {serialize_sdu(v, s, check_poll_after_pdu_assembly(v)) : v \in PutInWaitList(u, s)}

PollDue(t) == \/ PollPdu # 0 /\ t.pdu_without_poll >= PollPdu
              \/ PollByte # 0 /\ t.byte_without_poll >= PollByte

generate_tx_pdu(t, size) ==
  LET parts == resegment([Head(t.tx_list) EXCEPT !.sn = t.tx_next], size)
      s == Head(parts)
      list == Tail(parts) \o Tail(t.tx_list)
      u == [t EXCEPT !.tx_list = list,
                     !.tx_end = IF list = <<>> THEN Null
                                ELSE IF Len(t.tx_list) = 1 THEN Node(Head(list)) ELSE @,
                     !.bstatus.tx_size = @ - PduSize(Head(t.tx_list)) + TotalPduSize(Tail(parts)),
                     !.sdus[s.id].ref_count = @ + Len(parts) - 1,
                     !.tx_next = IF s.last THEN (@ + 1) % SnCount ELSE @]
      counted(v) == [v EXCEPT !.pdu_without_poll = @ + 1, !.byte_without_poll = @ + s.size]
  IN  {LET w == counted(v)
       IN  serialize_sdu(w, s, PollDue(w) \/ check_poll_after_pdu_assembly(w))
         : v \in PutInWaitList(u, s)}

\* The outcomes of a transmission opportunity of size bytes for data PDUs,
\* none if no PDU fits or there is none to send.
generate_pdu(t, size) ==
  IF Fits(t.retransmit_list, size) THEN generate_retx_pdu(t, size)
  ELSE IF Fits(t.tx_list, size) /\ ~is_window_stalling(t) THEN generate_tx_pdu(t, size)
  ELSE {}

check_t_poll_retransmit(t) ==
  LET u == [t EXCEPT !.t_poll_retransmit = FALSE, !.force_poll = TRUE]
      cur == Head(t.wait_list)
  IN  IF ~check_poll_after_pdu_assembly(u) THEN u
      ELSE IF t.wait_list = <<>> THEN [u EXCEPT !.crashed = TRUE]
      ELSE [CountRetransmission(u, cur) EXCEPT
              !.wait_list = Tail(@),
              !.wait_end = IF Len(t.wait_list) = 1 THEN Null ELSE @,
              !.retransmit_list = segment_list_add(u, @, cur)]

discard_sdu(t, id) ==
  LET i == SelectInSeq(t.tx_list, LAMBDA s : s.id = id)
      s == t.tx_list[i]
      list == RemoveAt(t.tx_list, i)
  IN  IF i = 0 THEN t
      ELSE IF ~s.first \/ ~s.last THEN t
      ELSE [free_sdu_segment(t, s) EXCEPT
              !.tx_list = list,
              !.tx_end = IF @ = Node(s) THEN EndOf(SubSeq(list, 1, i - 1)) ELSE @,
              !.bstatus.tx_size = @ - PduSize(s),
              !.tx_size = @ - s.size]

---------------------------------------------------------------------------
(* Reception of a STATUS PDU.  The walk over the lists keeps, in a record  *)
(* c: the wait list in three parts, kept (up to prev_wait_list), wait      *)
(* (from cur_wait_list on) and rest (beyond ACK_SN); the retransmit list   *)
(* in two, retx (from cur_retransmit_list on) and new; end_wait_list; the  *)
(* last NACK; and the label the code has jumped to.                        *)

Unset == <<-1>>                \* end_wait_list = NULL: wait_end stays
NoNack == [sn |-> -1, so_start |-> 0, so_end |-> 0]

\* Mutant: the last byte of a segment does not count.
SoOverlapStrict(s1, e1, s2, e2) ==
  IF s1 < s2 THEN e1 = -1 \/ e1 >= s2 ELSE e2 = -1 \/ s1 < e2

so_overlap(s1, e1, s2, e2) ==
  IF s1 < s2 THEN e1 = -1 \/ e1 >= s2 ELSE e2 = -1 \/ s1 <= e2

\* What NACK n and ACK_SN ack say of segment s.
Verdict(t, s, n, ack) ==
  IF s.sn = n.sn /\ so_overlap(n.so_start, n.so_end, s.so, s.so + s.size - 1) THEN "nacked"
  ELSE IF sn_compare_tx(t, s.sn, n.sn) > 0 \/ (s.sn = n.sn /\ s.so > n.so_start) THEN "later"
  ELSE IF sn_compare_tx(t, s.sn, ack) < 0 THEN "acked"
  ELSE IF sn_compare_tx(t, s.sn, ack) > 0 THEN "beyond" ELSE "at_ack"

\* Is wait_end at the node this test looks at when a wait segment is acked?
\* cur_wait_list has already moved to the next node.
AckedIsEnd(t, s, rest) == t.wait_end = (IF rest = <<>> THEN Null ELSE Node(Head(rest)))

process_wait_list_head(c, n, ack) ==
  LET s == Head(c.wait)
      next == [c EXCEPT !.wait = Tail(@)]
      v == Verdict(c.t, s, n, ack)
  IN  CASE v = "nacked" -> [next EXCEPT !.end = IF Node(s) = c.t.wait_end THEN EndOf(c.kept) ELSE @,
                                        !.new = Append(@, s),
                                        !.t = CountRetransmission(@, s)]
        [] v = "later"  -> [c EXCEPT !.label = "done_nack"]
        [] v = "acked"  -> [next EXCEPT !.end = IF AckedIsEnd(c.t, s, Tail(c.wait))
                                                THEN EndOf(c.kept) ELSE @,
                                        !.t = Acknowledge(@, s)]
        [] v = "beyond" -> [c EXCEPT !.wait = <<>>, !.rest = c.wait]
        [] v = "at_ack" -> [next EXCEPT !.kept = Append(@, s)]

\* Mutant: the size stays in the buffer status.
ReleaseRetransmissionNoSize(t, s) == Acknowledge(t, s)

ReleaseRetransmission(t, s) == Acknowledge([t EXCEPT !.bstatus.retx_size = @ - PduSize(s)], s)

process_retransmit_list_head(c, n, ack) ==
  LET s == Head(c.retx)
      next == [c EXCEPT !.retx = Tail(@)]
      v == Verdict(c.t, s, n, ack)
  IN  CASE v = "nacked" -> [next EXCEPT !.new = Append(@, s)]
        [] v = "later"  -> [c EXCEPT !.label = "done_nack"]
        [] v = "acked"  -> [next EXCEPT !.t = ReleaseRetransmission(@, s)]
        [] v \in {"beyond", "at_ack"} ->
             \* the tail linked here is cut off again by the last assignment
             IF c.wait = <<>> THEN [c EXCEPT !.retx = <<>>, !.label = "lists_over"]
             ELSE [next EXCEPT !.new = Append(@, s)]

\* Is the head of the wait list the one to process?
WaitListFirst(c) ==
  /\ c.wait # <<>>
  /\ \/ c.retx = <<>>
     \/ Head(c.wait).sn < Head(c.retx).sn
     \/ Head(c.wait).sn = Head(c.retx).sn /\ Head(c.wait).so < Head(c.retx).so

process_next_pdu(c, n, ack) ==
  IF c.label # "process_next_pdu" THEN c
  ELSE IF c.wait = <<>> /\ c.retx = <<>> THEN [c EXCEPT !.label = "lists_over"]
  ELSE IF WaitListFirst(c) THEN process_wait_list_head(c, n, ack)
  ELSE process_retransmit_list_head(c, n, ack)

BadNack(c, n, ack) ==
  \/ /\ c.prev # NoNack
     /\ \/ sn_compare_tx(c.t, n.sn, c.prev.sn) < 0
        \/ n.sn = c.prev.sn /\ (c.prev.so_end = -1 \/ n.so_start <= c.prev.so_end)
  \/ sn_compare_tx(c.t, n.sn, ack) > 0

\* One SN of a NACK: every step takes at least one segment off the lists.
NackOne(c, n, ack) ==
  IF c.label # "done_nack" THEN c
  ELSE IF BadNack(c, n, ack) THEN [c EXCEPT !.label = "nacks_done"]
  ELSE LET d == FoldLeft(LAMBDA x, s : process_next_pdu(x, n, ack),
                         [c EXCEPT !.label = "process_next_pdu"],
                         c.wait \o c.retx \o <<n>>)
       IN  IF d.label = "done_nack" THEN [d EXCEPT !.prev = n] ELSE d

\* The SNs NACK k ranges over.  so_end 0xffff means "to the end of the SDU".
NacksOf(k) ==
  [i \in 1..k.range |->
     [sn |-> (k.sn + i - 1) % SnCount,
      so_start |-> IF i = 1 THEN k.so_start ELSE 0,
      so_end |-> IF i = k.range /\ k.so_end # 65535 THEN k.so_end ELSE -1]]

NackRange(c, k, ack) ==
  IF c.label = "nacks_done" THEN c
  ELSE LET d == FoldLeft(LAMBDA x, n : NackOne(x, n, ack), [c EXCEPT !.label = "done_nack"], NacksOf(k))
           polled == /\ sn_compare_tx(c.t, k.sn, c.t.poll_sn) <= 0
                     /\ sn_compare_tx(c.t, c.t.poll_sn, (k.sn + k.range) % SnCount) < 0
       IN  IF d.label = "nacks_done" THEN d
           ELSE [d EXCEPT !.t.t_poll_retransmit = @ /\ ~polled]

\* nacks_done: every segment below ACK_SN left in the lists is acknowledged.
AckRemaining(c, ack) ==
  LET acked(s) == sn_compare_tx(c.t, s.sn, ack) < 0
      stop(list) == SelectInSeq(list \o <<[sn |-> ack]>>, LAMBDA s : ~acked(s))
      waitAcked == SubSeq(c.wait, 1, stop(c.wait) - 1)
      retxAcked == SubSeq(c.retx, 1, stop(c.retx) - 1)
  IN  [c EXCEPT !.wait = SubSeq(@, stop(@), Len(@)),
                !.retx = SubSeq(@, stop(@), Len(@)),
                !.end = IF \E i \in DOMAIN waitAcked : Node(waitAcked[i]) = c.t.wait_end
                        THEN EndOf(c.kept) ELSE @,
                !.t = FoldLeft(ReleaseRetransmission, FoldLeft(Acknowledge, @, waitAcked), retxAcked)]

\* The smallest SN not acknowledged yet, seen from the old TX_Next_Ack.
NewTxNextAck(t, ack) ==
  LET candidates == {t.tx_next, ack} \cup {l[1].sn : l \in {t.wait_list, t.retransmit_list} \ {<<>>}}
  IN  CHOOSE a \in candidates : \A b \in candidates : sn_compare_tx(t, a, b) <= 0

process_control_pdu(t, status) ==
  LET ack == status.ack_sn
      start == [t |-> [t EXCEPT !.t_poll_retransmit = @ /\ sn_compare_tx(t, t.poll_sn, ack) >= 0],
                kept |-> <<>>, wait |-> t.wait_list, rest |-> <<>>,
                retx |-> t.retransmit_list, new |-> <<>>,
                end |-> Unset, prev |-> NoNack, label |-> "done_nack"]
      c == AckRemaining(FoldLeft(LAMBDA x, k : NackRange(x, k, ack), start, status.nacks), ack)
      u == [c.t EXCEPT !.wait_list = c.kept \o c.wait \o c.rest,
                       !.retransmit_list = c.new \o c.retx,
                       !.wait_end = IF c.end = Unset THEN @ ELSE c.end]
  IN  [u EXCEPT !.tx_next_ack = NewTxNextAck(u, ack)]

\* Re-establishment: everything but the histories is cleared.
clear_tx(t) ==
  LET live == t.tx_list \o t.wait_list \o t.retransmit_list
  IN  [ClearTx EXCEPT !.sdus = FoldLeft(free_sdu_segment, t, live).sdus,
                      !.acked = t.acked, !.max_retx = t.max_retx, !.crashed = t.crashed]
=============================================================================
