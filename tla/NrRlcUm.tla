-------------------------------- MODULE NrRlcUm --------------------------------
(***************************************************************************)
(* One direction of an NR RLC UM bearer                                    *)
(* (openair2/LAYER2/nr_rlc/nr_rlc_entity_um.c): the transmitting side of   *)
(* an entity, the receiving side of its peer, and between them MAC and     *)
(* HARQ, which lose and reorder PDUs.  An SDU sent whole has no SN and is  *)
(* delivered at once; only segments carry an SN and are reassembled.       *)
(*                                                                         *)
(* Every call holds the lock of the RLC UE manager, so a call is an        *)
(* action; t_reassembly runs or not and expires at any time while it runs. *)
(* The reassembly code is that of the AM entity, taken from NrRlcAmRx.     *)
(***************************************************************************)
EXTENDS Integers, Sequences, FiniteSets, SequencesExt

CONSTANTS
  SnCount,         \* entity->sn_modulus
  SnExtra,         \* bytes the SN adds to a segment's header: 0 (6-bit SN) or 1 (12-bit)
  TxMaxSize,       \* entity->tx_maxsize
  RxMaxSize,       \* entity->rx_maxsize
  SduSizes,        \* sizes of the SDUs
  Grants,          \* sizes of the transmission opportunities
  Discards,        \* does the upper layer discard SDUs?
  MaxSdus,         \* bound: number of SDUs
  MaxInFlight,     \* bound: PDUs in flight
  MaxReestablish   \* bound: number of re-establishments

ASSUME SnAssumption == SnCount \in Nat /\ SnCount >= 4 /\ SnCount % 2 = 0 /\ SnExtra \in {0, 1}
ASSUME SizeAssumption ==
  /\ SduSizes \subseteq Nat \ {0} /\ Grants \subseteq Nat
  /\ {TxMaxSize, RxMaxSize} \subseteq Nat \ {0}

A == INSTANCE NrRlcAmRx WITH SnBytes <- SnExtra, MaxNackRange <- 1

WindowSize == SnCount \div 2
Sns == 0..(SnCount - 1)
Plus(sn, n) == (sn + n) % SnCount

VARIABLES
  tx,            \* the transmitting side
  rx,            \* the receiving side of the peer
  air,           \* PDUs in flight
  reestablished  \* number of re-establishments so far

vars == <<tx, rx, air, reestablished>>

---------------------------------------------------------------------------
(* Transmission.  tx_end points to the last node of tx_list; a node is     *)
(* named by its SDU and offset.                                            *)

Null == <<>>
Node(s) == <<s.id, s.so>>
EndOf(list) == IF list = <<>> THEN Null ELSE Node(Last(list))

ClearTx == [tx_next |-> 0, tx_list |-> <<>>, tx_end |-> Null, tx_size |-> 0, bstatus |-> 0,
            sdus |-> <<>>]    \* history: sizes of the SDUs accepted

compute_pdu_header_size(s) ==
  1 + (IF s.first /\ s.last THEN 0 ELSE SnExtra) + (IF s.first THEN 0 ELSE 2)
PduSize(s) == compute_pdu_header_size(s) + s.size

\* The new node follows the one tx_end points to.
segment_list_append(list, end, s) ==
  LET i == SelectInSeq(list, LAMBDA c : Node(c) = end)
  IN  IF list = <<>> \/ i # 0 THEN Append(SubSeq(list, 1, i), s) ELSE list

recv_sdu(t, size) ==
  LET s == [id |-> Len(t.sdus) + 1, so |-> 0, size |-> size, first |-> TRUE, last |-> TRUE]
  IN  IF t.tx_size + size > TxMaxSize THEN t
      ELSE [t EXCEPT !.tx_size = @ + size, !.sdus = Append(@, size),
                     !.tx_list = segment_list_append(@, t.tx_end, s), !.tx_end = Node(s),
                     !.bstatus = @ + PduSize(s)]

\* The two parts of a segment cut to a PDU of the given size; none if not one
\* byte fits beside the longer header.
resegment(s, size) ==
  LET room == size - compute_pdu_header_size([s EXCEPT !.last = FALSE])
  IN  IF room < 1 THEN <<>>
      ELSE <<[s EXCEPT !.size = room, !.last = FALSE],
             [s EXCEPT !.size = @ - room, !.so = @ + room, !.first = FALSE]>>

\* A segment leaves the entity in a PDU, which carries the SN of its SDU if it is a segment.
serialize_sdu(t, s) ==
  [pdu |-> <<[sn |-> t.tx_next, so |-> s.so, size |-> s.size, first |-> s.first, last |-> s.last, id |-> s.id]>>,
   t |-> [t EXCEPT !.tx_size = @ - s.size,
                   !.tx_next = IF ~s.first /\ s.last THEN Plus(@, 1) ELSE @]]

\* The entity after the call and the PDU, if there is one.  When the SDU does not
\* fit and cannot be cut it is already out of the list, and lost.
generate_tx_pdu(t, size) ==
  LET s == Head(t.tx_list)
      rest == Tail(t.tx_list)
      u == [t EXCEPT !.tx_list = rest, !.tx_end = IF rest = <<>> THEN Null ELSE @,
                     !.bstatus = @ - PduSize(s)]
      parts == resegment(s, size)
  IN  IF t.tx_list = <<>> \/ compute_pdu_header_size(s) + 1 > size THEN [t |-> t, pdu |-> <<>>]
      ELSE IF PduSize(s) <= size THEN serialize_sdu(u, s)
      ELSE IF parts = <<>> THEN [t |-> u, pdu |-> <<>>]
      ELSE serialize_sdu([u EXCEPT !.tx_list = <<parts[2]>> \o @,
                                   !.tx_end = IF @ = Null THEN Node(parts[2]) ELSE @,
                                   !.bstatus = @ + PduSize(parts[2])], parts[1])

\* Mutant: tx_end still points to the node that was freed.
DiscardKeepsEnd(t, id) ==
  LET i == SelectInSeq(t.tx_list, LAMBDA s : s.id = id)
      s == t.tx_list[i]
  IN  IF i = 0 THEN t
      ELSE IF ~s.first \/ ~s.last THEN t
      ELSE [t EXCEPT !.tx_list = RemoveAt(@, i), !.bstatus = @ - PduSize(s)]

\* An SDU no byte of which was sent is taken out of the list.
discard_sdu(t, id) ==
  LET i == SelectInSeq(t.tx_list, LAMBDA s : s.id = id)
      s == t.tx_list[i]
  IN  IF i = 0 THEN t
      ELSE IF ~s.first \/ ~s.last THEN t
      ELSE [t EXCEPT !.tx_list = RemoveAt(@, i),
                     !.tx_end = IF @ = Node(s) THEN EndOf(SubSeq(t.tx_list, 1, i - 1)) ELSE @,
                     !.bstatus = @ - PduSize(s)]

---------------------------------------------------------------------------
(* Reception *)

ClearRx == [rx_next_highest |-> 0, rx_next_reassembly |-> 0, rx_timer_trigger |-> 0,
            t_reassembly |-> FALSE, rx_list |-> <<>>, rx_size |-> 0,
            delivered |-> <<>>]    \* history: the SDUs given to deliver_sdu

modulus_rx(r, a) == (a - (r.rx_next_highest - WindowSize)) % SnCount
sn_compare_rx(r, a, b) == modulus_rx(r, a) - modulus_rx(r, b)

\* Mutant: an SDU counts as full once its last segment is there.
SduFullWithLast(r, sn) == \E i \in DOMAIN r.rx_list : LET p == r.rx_list[i] IN p.sn = sn /\ p.last /\ p.data

sdu_full(r, sn) == A!sdu_full(r, sn)
sdu_delivered(r, sn) == A!sdu_delivered(r, sn)
sdu_has_missing_bytes(r, sn) == A!sdu_has_missing_bytes(r, sn)
FirstUndelivered(r, sn) == A!FirstUndelivered(r, sn)

\* The entries of the SDU stay in the list without their bytes.
reassemble_and_deliver(r, sn) ==
  LET l == A!OfSn(r, sn)
  IN  [r EXCEPT !.rx_list = [i \in DOMAIN @ |-> IF @[i].sn = sn THEN [@[i] EXCEPT !.data = FALSE, !.size = 0] ELSE @[i]],
                !.rx_size = @ - FoldLeft(LAMBDA n, p : n + p.size, 0, l),
                !.delivered = Append(@, FoldLeft(A!CopyBytes, <<>>, l))]

\* What is left of the list after its leading entries with an SN of the set old.
DropLeading(list, old) ==
  LET i == SelectInSeq(list, LAMBDA p : p.sn \notin old) IN IF i = 0 THEN <<>> ELSE SubSeq(list, i, Len(list))

Outside(r, sn) == sn_compare_rx(r, sn, r.rx_next_highest) >= 0

\* Mutant: rx_next_reassembly stays where it is.
MoveWindowOnly(r, x) ==
  LET r1 == [r EXCEPT !.rx_next_highest = Plus(x, 1)]
      list == DropLeading(r.rx_list, {sn \in Sns : Outside(r1, sn)})
  IN  [r1 EXCEPT !.rx_list = list,
                 !.rx_size = FoldLeft(LAMBDA n, p : n - p.size, @, SubSeq(r.rx_list, 1, Len(r.rx_list) - Len(list)))]

\* An SN beyond the window moves the window; what falls out of it is freed.
MoveWindow(r, x) ==
  LET r1 == [r EXCEPT !.rx_next_highest = Plus(x, 1)]
      list == DropLeading(r.rx_list, {sn \in Sns : Outside(r1, sn)})
      r2 == [r1 EXCEPT !.rx_list = list,
                       !.rx_size = FoldLeft(LAMBDA n, p : n - p.size, @, SubSeq(r.rx_list, 1, Len(r.rx_list) - Len(list)))]
  IN  IF Outside(r2, r2.rx_next_reassembly)
      THEN [r2 EXCEPT !.rx_next_reassembly = FirstUndelivered(r2, Plus(r2.rx_next_highest, SnCount - WindowSize))]
      ELSE r2

AdvanceReassembly(r, x) ==
  IF x = r.rx_next_reassembly THEN [r EXCEPT !.rx_next_reassembly = FirstUndelivered(r, x)] ELSE r

StopReassembly(r) ==
  \/ sn_compare_rx(r, r.rx_timer_trigger, r.rx_next_reassembly) <= 0
  \/ sn_compare_rx(r, r.rx_timer_trigger, r.rx_next_highest) > 0
  \/ /\ r.rx_next_highest = Plus(r.rx_next_reassembly, 1)
     /\ ~sdu_has_missing_bytes(r, r.rx_next_reassembly)

\* Something is missing before the highest SN received; "after" is the SN that
\* follows rx_next_reassembly, with or without the modulus.
Gap(r, after) ==
  \/ sn_compare_rx(r, r.rx_next_highest, Plus(r.rx_next_reassembly, 1)) > 0
  \/ r.rx_next_highest = after /\ sdu_has_missing_bytes(r, r.rx_next_reassembly)

StartReassembly(r) == [r EXCEPT !.t_reassembly = TRUE, !.rx_timer_trigger = r.rx_next_highest]

reception_actions(r, x) ==
  LET r1 == IF sdu_full(r, x) THEN AdvanceReassembly(reassemble_and_deliver(r, x), x)
            ELSE IF Outside(r, x) THEN MoveWindow(r, x)
            ELSE r
      r2 == [r1 EXCEPT !.t_reassembly = @ /\ ~StopReassembly(r1)]
  IN  IF ~r2.t_reassembly /\ Gap(r2, Plus(r2.rx_next_reassembly, 1)) THEN StartReassembly(r2) ELSE r2

pdu_list_add(r, pdu) ==
  LET i == SelectInSeq(r.rx_list, LAMBDA c : \/ sn_compare_rx(r, c.sn, pdu.sn) > 0
                                             \/ c.sn = pdu.sn /\ c.so > pdu.so)
  IN  IF i = 0 THEN Append(r.rx_list, pdu) ELSE InsertAt(r.rx_list, i, pdu)

recv_pdu(r, pdu) ==
  IF pdu.first /\ pdu.last
  THEN [r EXCEPT !.delivered = Append(@, A!CopyBytes(<<>>, pdu))]
  ELSE IF \/ r.rx_size + pdu.size > RxMaxSize
          \/ sn_compare_rx(r, pdu.sn, r.rx_next_reassembly) < 0
  THEN r
  ELSE LET entry == [sn |-> pdu.sn, so |-> pdu.so, size |-> pdu.size, last |-> pdu.last, id |-> pdu.id, data |-> TRUE]
       IN  reception_actions([r EXCEPT !.rx_size = @ + pdu.size, !.rx_list = pdu_list_add(r, entry)], pdu.sn)

\* Mutants: the timer is not started again; it is, but nothing is given up.
CheckNoRestart(r) ==
  LET next == FirstUndelivered(r, r.rx_timer_trigger)
  IN  [r EXCEPT !.t_reassembly = FALSE, !.rx_next_reassembly = next,
                !.rx_list = DropLeading(@, {sn \in Sns : sn_compare_rx(r, sn, next) < 0})]
CheckNoAdvance(r) ==
  LET r1 == [r EXCEPT !.t_reassembly = FALSE]
  IN  IF Gap(r1, Plus(r1.rx_next_reassembly, 1)) THEN StartReassembly(r1) ELSE r1

\* The incomplete SDUs before the trigger are given up; rx_size keeps their bytes.
check_t_reassembly(r) ==
  LET next == FirstUndelivered(r, r.rx_timer_trigger)
      r1 == [r EXCEPT !.t_reassembly = FALSE, !.rx_next_reassembly = next,
                      !.rx_list = DropLeading(@, {sn \in Sns : sn_compare_rx(r, sn, next) < 0})]
  IN  IF Gap(r1, r1.rx_next_reassembly + 1) THEN StartReassembly(r1) ELSE r1

---------------------------------------------------------------------------
Init == tx = ClearTx /\ rx = ClearRx /\ air = {} /\ reestablished = 0

RecvSdu(size) ==
  /\ Len(tx.sdus) < MaxSdus
  /\ tx' = recv_sdu(tx, size) /\ tx' # tx
  /\ UNCHANGED <<rx, air, reestablished>>

\* A PDU arrives or is lost before the transmitter is more than a window ahead of it,
\* and of a window of consecutive SNs some segment arrives: what 3GPP assumes of the
\* link when it reuses SNs.
Fresh(pdu, t) == (t.tx_next - pdu.sn) % SnCount <= WindowSize
LinkUp == (tx.tx_next + 1 - rx.rx_next_highest) % SnCount <= WindowSize

GeneratePdu(size) ==
  /\ Cardinality(air) < MaxInFlight /\ LinkUp
  /\ LET out == generate_tx_pdu(tx, size) IN
       /\ tx' = out.t /\ tx' # tx
       /\ air' = {pdu \in air : Fresh(pdu, out.t)} \cup ToSet(out.pdu)
  /\ UNCHANGED <<rx, reestablished>>

RecvPdu(pdu) ==
  /\ rx' = recv_pdu(rx, pdu) /\ air' = air \ {pdu}
  /\ UNCHANGED <<tx, reestablished>>

LosePdu(pdu) == air' = air \ {pdu} /\ UNCHANGED <<tx, rx, reestablished>>

ReassemblyExpires ==
  /\ rx.t_reassembly /\ rx' = check_t_reassembly(rx)
  /\ UNCHANGED <<tx, air, reestablished>>

DiscardSdu(id) ==
  /\ Discards /\ tx' = discard_sdu(tx, id)
  /\ UNCHANGED <<rx, air, reestablished>>

\* Both peers re-establish the bearer; the MAC reset drops what is in flight.
reestablishment ==
  /\ reestablished < MaxReestablish
  /\ tx' = [ClearTx EXCEPT !.sdus = tx.sdus] /\ rx' = [ClearRx EXCEPT !.delivered = rx.delivered]
  /\ air' = {} /\ reestablished' = reestablished + 1

Next ==
  \/ \E size \in SduSizes : RecvSdu(size)
  \/ \E size \in Grants : GeneratePdu(size)
  \/ \E pdu \in air : RecvPdu(pdu)
  \/ \E pdu \in air : LosePdu(pdu)
  \/ ReassemblyExpires
  \/ \E id \in DOMAIN tx.sdus : DiscardSdu(id)
  \/ reestablishment

Spec == Init /\ [][Next]_vars

\* set_time is called every millisecond, so a running timer expires: weak fairness of
\* ReassemblyExpires, written out with the condition under which it changes the state.
Expiring == rx.t_reassembly /\ check_t_reassembly(rx) # rx
Fairness == []<>(~Expiring) \/ []<><<ReassemblyExpires>>_vars
FairSpec == Spec /\ Fairness

---------------------------------------------------------------------------
\* The size of the PDUs a list would make.
BufferSize(list) ==
  LET sum[i \in 0 .. Len(list)] == IF i = 0 THEN 0 ELSE sum[i - 1] + PduSize(list[i]) IN
  sum[Len(list)]

\* Through segmentation, discard and re-establishment, bstatus, what MAC grants by, is the
\* size of the PDUs that tx_list holds, tx_end is its last node, and only the first SDU of
\* the list can have been cut.
TxListConsistent ==
  /\ tx.bstatus = BufferSize(tx.tx_list)
  /\ tx.tx_end = EndOf(tx.tx_list)
  /\ \A i \in DOMAIN tx.tx_list :
       LET s == tx.tx_list[i] IN s.last /\ s.so + s.size = tx.sdus[s.id] /\ (s.first \/ i = 1)

\* The bookkeeping of reception_actions and check_t_reassembly: the list is ordered and
\* inside the window, rx_next_reassembly is never past the highest SN received, and the
\* SDU it waits for has not been delivered.
WindowConsistent ==
  /\ \A i \in DOMAIN rx.rx_list : ~Outside(rx, rx.rx_list[i].sn)
  /\ \A i, j \in DOMAIN rx.rx_list : i < j => sn_compare_rx(rx, rx.rx_list[i].sn, rx.rx_list[j].sn) <= 0
  /\ sn_compare_rx(rx, rx.rx_next_reassembly, rx.rx_next_highest) <= 0
  /\ ~sdu_delivered(rx, rx.rx_next_reassembly)

\* Something is missing before the highest SN received.  The last SN is left out: an
\* expiry there does not restart the timer (check_t_reassembly does not reduce
\* rx_next_reassembly + 1).
Gapped == Gap(rx, Plus(rx.rx_next_reassembly, 1)) /\ rx.rx_next_reassembly # SnCount - 1

\* While something is missing t_reassembly runs.
GapTimed == Gapped => rx.t_reassembly

\* No SDU waits in vain: while something is missing t_reassembly runs, otherwise the
\* incomplete SDUs would stay until the next segment comes; and no bytes wait before
\* rx_next_reassembly, where nothing would complete them.
GapHasTimer ==
  /\ GapTimed
  /\ \A i \in DOMAIN rx.rx_list :
       rx.rx_list[i].data => sn_compare_rx(rx, rx.rx_list[i].sn, rx.rx_next_reassembly) >= 0

Service == INSTANCE RlcService WITH
  Sizes <- SduSizes, accepted <- tx.sdus, delivered <- rx.delivered, confirmed <- {}

\* The bearer keeps the promise of RLC: every SDU is delivered whole and at most once.
ServiceSpec == Service!Spec

\* t_reassembly gives up on what is missing: rx_next_reassembly does not stay for ever
\* before a gap.
GapResolved ==
  \/ []<>(~Gapped)
  \/ []<><<rx.rx_next_reassembly' # rx.rx_next_reassembly>>_vars
=============================================================================
