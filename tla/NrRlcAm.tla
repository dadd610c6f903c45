------------------------------ MODULE NrRlcAm ------------------------------
(***************************************************************************)
(* One direction of an NR RLC AM bearer: the transmitting side of an       *)
(* entity (NrRlcAmTx), the receiving side of its peer (NrRlcAmRx), and     *)
(* between them MAC and HARQ, which lose and reorder the PDUs of both      *)
(* directions.                                                             *)
(*                                                                         *)
(* An entity serves every call under the lock of the RLC UE manager, so a  *)
(* call is one action.  set_time precedes every call with the current      *)
(* time; an expiry is an action of its own that may come any time while    *)
(* the timer runs.                                                         *)
(***************************************************************************)
EXTENDS Integers, Sequences, FiniteSets, SequencesExt

CONSTANTS
  SnCount, SnBytes, PollPdu, PollByte, MaxRetxThreshold, TxMaxSize, RxMaxSize, MaxNackRange,
  SduSizes,        \* sizes of the SDUs
  Grants,          \* sizes of the transmission opportunities of data PDUs
  StatusGrants,    \* sizes of the transmission opportunities of STATUS PDUs
  StatusInOrder,   \* do STATUS PDUs arrive in the order they were sent?
  LateAnswers,     \* may t_poll_retransmit expire while the answer to a poll is on its way?
  Discards,        \* does the upper layer discard SDUs?
  RetxBound,       \* bound: retx_count saturates at this value
  MaxSdus,         \* bound: number of SDUs
  MaxInFlight,     \* bound: data PDUs in flight
  MaxStatus,       \* bound: STATUS PDUs in flight
  MaxReestablish   \* bound: number of re-establishments

T == INSTANCE NrRlcAmTx
R == INSTANCE NrRlcAmRx

ASSUME SnAssumption == SnCount \in Nat /\ SnCount >= 4 /\ SnCount % 2 = 0 /\ SnBytes \in {2, 3}
ASSUME PollAssumption == {PollPdu, PollByte} \subseteq Nat
ASSUME SizeAssumption ==
  /\ SduSizes \subseteq Nat \ {0} /\ Grants \subseteq Nat /\ StatusGrants \subseteq Nat
  /\ {TxMaxSize, RxMaxSize, MaxNackRange, MaxRetxThreshold} \subseteq Nat \ {0}

VARIABLES
  tx,            \* the transmitting side
  rx,            \* the receiving side of the peer
  air,           \* data PDUs in flight
  statuses,      \* STATUS PDUs in flight, in the order they were sent
  reestablished  \* number of re-establishments so far

vars == <<tx, rx, air, statuses, reestablished>>

Init == /\ tx = T!ClearTx /\ rx = R!ClearRx
        /\ air = {} /\ statuses = <<>> /\ reestablished = 0

recv_sdu(size) ==
  /\ ~tx.crashed /\ Len(tx.sdus) < MaxSdus
  /\ tx' = T!recv_sdu(tx, size) /\ tx' # tx
  /\ UNCHANGED <<rx, air, statuses, reestablished>>

\* A data PDU is received or lost before the transmitter is more than a window
\* ahead of it: SNs are reused after two windows (thousands of PDUs in the
\* program), which HARQ never delays a PDU for.
Fresh(pdu, t) == (t.tx_next - pdu.sn) % SnCount <= SnCount \div 2

generate_pdu(size) ==
  /\ ~tx.crashed /\ Cardinality(air) < MaxInFlight
  /\ \E out \in T!generate_pdu(tx, size) :
       /\ tx' = IF out.t.crashed THEN [tx EXCEPT !.crashed = TRUE] ELSE out.t
       /\ air' = IF out.t.crashed THEN air
                 ELSE {pdu \in air : Fresh(pdu, out.t)} \cup {out.pdu}
  /\ UNCHANGED <<rx, statuses, reestablished>>

recv_pdu(pdu) ==
  /\ rx' = R!recv_pdu(rx, pdu) /\ air' = air \ {pdu}
  /\ UNCHANGED <<tx, statuses, reestablished>>

generate_status(size) ==
  /\ R!status_to_report(rx) /\ size >= 3 /\ Len(statuses) < MaxStatus
  /\ rx' = R!generate_status(rx)
  /\ statuses' = Append(statuses, R!StatusPdu(rx, size))
  /\ UNCHANGED <<tx, air, reestablished>>

recv_status(i) ==
  /\ ~tx.crashed
  /\ tx' = T!process_control_pdu(tx, statuses[i]) /\ statuses' = RemoveAt(statuses, i)
  /\ UNCHANGED <<rx, air, reestablished>>

LosePdu(pdu) == air' = air \ {pdu} /\ UNCHANGED <<tx, rx, statuses, reestablished>>

LoseStatus(i) ==
  statuses' = RemoveAt(statuses, i) /\ UNCHANGED <<tx, rx, air, reestablished>>

PollRetransmitExpires ==
  /\ LateAnswers \/ (air = {} /\ statuses = <<>> /\ ~rx.status_triggered)
  /\ ~tx.crashed /\ tx.t_poll_retransmit /\ tx' = T!check_t_poll_retransmit(tx)
  /\ UNCHANGED <<rx, air, statuses, reestablished>>

ReassemblyExpires ==
  /\ rx.t_reassembly /\ rx' = R!check_t_reassembly(rx)
  /\ UNCHANGED <<tx, air, statuses, reestablished>>

StatusProhibitExpires ==
  /\ rx.t_status_prohibit /\ rx' = [rx EXCEPT !.t_status_prohibit = FALSE]
  /\ UNCHANGED <<tx, air, statuses, reestablished>>

discard_sdu(id) ==
  /\ Discards /\ ~tx.crashed /\ tx' = T!discard_sdu(tx, id)
  /\ UNCHANGED <<rx, air, statuses, reestablished>>

\* Both peers re-establish the bearer; the MAC reset drops what is in flight.
reestablishment ==
  /\ ~tx.crashed /\ reestablished < MaxReestablish
  /\ tx' = T!clear_tx(tx) /\ rx' = R!clear_rx(rx)
  /\ air' = {} /\ statuses' = <<>> /\ reestablished' = reestablished + 1

Receivable == IF StatusInOrder THEN DOMAIN statuses \cap {1} ELSE DOMAIN statuses

Next ==
  \/ \E size \in SduSizes : recv_sdu(size)
  \/ \E size \in Grants : generate_pdu(size)
  \/ \E pdu \in air : recv_pdu(pdu)
  \/ \E pdu \in air : LosePdu(pdu)
  \/ \E size \in StatusGrants : generate_status(size)
  \/ \E i \in Receivable : recv_status(i)
  \/ \E i \in DOMAIN statuses : LoseStatus(i)
  \/ PollRetransmitExpires
  \/ ReassemblyExpires
  \/ StatusProhibitExpires
  \/ \E id \in DOMAIN tx.sdus : discard_sdu(id)
  \/ reestablishment

Spec == Init /\ [][Next]_vars

\* Fairness.  set_time is called every millisecond, so a running timer expires;
\* MAC serves the bearer again and again, with room for any PDU; and the radio
\* link is fair: of a byte, a poll or a STATUS sent again and again some copy
\* arrives.  The condition under which a reception or a STATUS generation is
\* enabled is written out in place of ENABLED.
Largest(sizes) == CHOOSE m \in sizes : \A n \in sizes : n <= m
CanReport == R!status_to_report(rx) /\ Len(statuses) < MaxStatus
CarriesByte(pdu, id, b) == pdu.id = id /\ b \in pdu.so..(pdu.so + pdu.size - 1)
ArrivesOften(Wanted(_)) ==
  []<>(\E pdu \in air : Wanted(pdu)) => []<><<\E pdu \in air : Wanted(pdu) /\ recv_pdu(pdu)>>_vars
Fairness ==
  /\ WF_vars(PollRetransmitExpires) /\ WF_vars(ReassemblyExpires) /\ WF_vars(StatusProhibitExpires)
  /\ WF_vars(generate_pdu(Largest(Grants)))
  /\ <>[]CanReport => []<><<generate_status(Largest(StatusGrants))>>_vars
  /\ []<>(~tx.crashed /\ Receivable # {}) => []<><<\E i \in Receivable : recv_status(i)>>_vars
  /\ ArrivesOften(LAMBDA pdu : pdu.p)
  /\ \A id \in 1..MaxSdus, b \in 0..(Largest(SduSizes) - 1) :
       ArrivesOften(LAMBDA pdu : CarriesByte(pdu, id, b))
FairSpec == Spec /\ Fairness

---------------------------------------------------------------------------
Sns == 0..(SnCount - 1)
Live == tx.tx_list \o tx.wait_list \o tx.retransmit_list
Bytes(s) == s.so..(s.so + s.size - 1)
IsSegment(s) == /\ s.id \in DOMAIN tx.sdus /\ s.sn \in Sns \cup {-1}
                /\ Bytes(s) # {} /\ Bytes(s) \subseteq 0..(tx.sdus[s.id].size - 1)
                /\ s.first = (s.so = 0) /\ s.last = (s.so + s.size = tx.sdus[s.id].size)

\* resegment and nr_rlc_free_sdu_segment count right: every segment in the three
\* lists is a part of its SDU, those of an SDU are disjoint and as many as
\* ref_count - free_count, so an SDU is freed exactly when its last segment is.
SegmentsCounted ==
  /\ \A i \in DOMAIN Live : IsSegment(Live[i])
  /\ \A id \in DOMAIN tx.sdus :
       LET mine == {i \in DOMAIN Live : Live[i].id = id}
       IN  /\ Cardinality(mine) = tx.sdus[id].ref_count - tx.sdus[id].free_count
           /\ \A i, j \in mine : i # j => Bytes(Live[i]) \cap Bytes(Live[j]) = {}

LiveSdus == {id \in DOMAIN tx.sdus : tx.sdus[id].free_count < tx.sdus[id].ref_count}

\* The sizes reported to the MAC scheduler (bstatus) are those of the PDUs the
\* lists hold, and tx_size is the room the live SDUs take in the buffer,
\* through segmentation, retransmission, acknowledgement and discard.
BufferAccounted ==
  /\ tx.bstatus.tx_size = T!TotalPduSize(tx.tx_list)
  /\ tx.bstatus.retx_size = T!TotalPduSize(tx.retransmit_list)
  /\ tx.tx_size = FoldLeft(LAMBDA n, d : IF d.free_count < d.ref_count THEN n + d.size ELSE n, 0, tx.sdus)

\* The bytes of SDU id the peer has.
Received(id) ==
  IF \E i \in DOMAIN rx.delivered : rx.delivered[i][1][1] = id
  THEN 0..(tx.sdus[id].size - 1)
  ELSE UNION {Bytes(rx.rx_list[i]) : i \in {j \in DOMAIN rx.rx_list : rx.rx_list[j].id = id}}

\* process_control_pdu frees a segment only if the peer has its bytes: a byte
\* of an SDU that is still live, or whose delivery was reported, is in one of
\* the lists or has been received.
AcknowledgedIsReceived ==
  \A id \in LiveSdus \cup tx.acked :
    0..(tx.sdus[id].size - 1) \subseteq
      Received(id) \cup UNION {Bytes(Live[i]) : i \in {j \in DOMAIN Live : Live[j].id = id}}

Service == INSTANCE RlcService WITH
  Sizes <- SduSizes, accepted <- [id \in DOMAIN tx.sdus |-> tx.sdus[id].size],
  delivered <- rx.delivered, confirmed <- tx.acked

\* The bearer keeps the promise of RLC: reassemble_and_deliver gives the upper layer whole
\* SDUs, each once, and the delivery of an SDU is reported (sdu_successful_delivery) only
\* when the peer has delivered it.
ServiceSpec == Service!Spec

InOrder(list) ==
  \A i \in 1..(Len(list) - 1) :
    LET d == T!sn_compare_tx(tx, list[i + 1].sn, list[i].sn)
    IN  d > 0 \/ (d = 0 /\ list[i + 1].so > list[i].so)

\* The wait and retransmit lists are ordered by SN and SO and hold SNs of the
\* transmitting window only, as the comparisons in process_control_pdu and
\* the speedups on wait_end take for granted.
ListsOrdered ==
  /\ InOrder(tx.wait_list) /\ InOrder(tx.retransmit_list)
  /\ \A i \in DOMAIN tx.wait_list \cup DOMAIN tx.retransmit_list :
       \A list \in {tx.wait_list, tx.retransmit_list} :
         i \in DOMAIN list => T!modulus_tx(tx, list[i].sn) <= T!modulus_tx(tx, tx.tx_next)
  /\ T!modulus_tx(tx, tx.tx_next) <= SnCount \div 2

\* Every SDU accepted is acknowledged in the end, through any number of losses
\* of segments, polls and STATUS PDUs (t_poll_retransmit, t_reassembly and the
\* retransmissions they cause).
EventuallyAcknowledged ==
  \A id \in 1..MaxSdus : (id \in DOMAIN tx.sdus) ~> (id \in tx.acked)
=============================================================================
