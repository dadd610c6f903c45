-------------------------- MODULE NrRlcAmReceiver --------------------------
(***************************************************************************)
(* The receiving side of an NR RLC AM entity against any conforming peer:  *)
(* the peer may send, and the lower layers deliver in any order, lose and  *)
(* repeat, any segment of any SDU in the transmitting window, overlapping  *)
(* segments of the same SDU included (a peer may cut an SDU differently    *)
(* for every retransmission).                                              *)
(***************************************************************************)
EXTENDS Integers, Sequences, SequencesExt

CONSTANTS
  SnCount, SnBytes, RxMaxSize, MaxNackRange,
  SduSize,        \* size of every third SDU; the others have one byte
  StatusGrants,   \* sizes of the transmission opportunities of STATUS PDUs
  MaxSdus         \* bound: number of SDUs

R == INSTANCE NrRlcAmRx

ASSUME ReceiverAssumption ==
  /\ SnCount \in Nat /\ SnCount >= 4 /\ SnCount % 2 = 0 /\ SnBytes \in {2, 3}
  /\ {RxMaxSize, MaxNackRange, SduSize} \subseteq Nat \ {0} /\ StatusGrants \subseteq Nat
  /\ MaxSdus \in Nat /\ SduSize <= R!SoEnd

VARIABLE rx

Init == rx = R!ClearRx

SizeOf(n) == IF (n % SnCount) % 3 = 0 THEN SduSize ELSE 1

Delivered == {rx.delivered[i][1][1] : i \in DOMAIN rx.delivered}

\* The number of the first SDU not delivered: RX_Next without the modulus.
FirstMissing == CHOOSE n \in 0..MaxSdus : n \notin Delivered /\ 0..(n - 1) \subseteq Delivered

\* The peer does not go a window beyond what it can know to be delivered.
Segments ==
  {[sn |-> id % SnCount, so |-> so, size |-> size, first |-> so = 0, last |-> so + size = SizeOf(id),
    id |-> id, p |-> p] : id \in {n \in 0..(MaxSdus - 1) : /\ n < FirstMissing + SnCount \div 2
                                                           /\ n >= FirstMissing - SnCount \div 2},
                          so \in 0..(SduSize - 1), size \in 1..SduSize, p \in BOOLEAN}

recv_pdu(pdu) == pdu.so + pdu.size <= SizeOf(pdu.sn) /\ rx' = R!recv_pdu(rx, pdu)

set_time == rx.t_reassembly /\ rx' = R!check_t_reassembly(rx)

\* Time also ends t_status_prohibit.
StatusProhibitExpires == rx.t_status_prohibit /\ rx' = [rx EXCEPT !.t_status_prohibit = FALSE]

generate_pdu == R!status_to_report(rx) /\ rx' = R!generate_status(rx)

Next == (\E pdu \in Segments : recv_pdu(pdu)) \/ set_time \/ StatusProhibitExpires \/ generate_pdu

Spec == Init /\ [][Next]_rx

---------------------------------------------------------------------------
Sns == 0..(SnCount - 1)
Bytes(p) == p.so..(p.so + p.size - 1)
Ahead(sn) == R!modulus_rx(rx, sn)

\* RX_Next <= RX_Highest_Status <= RX_Next_Highest within the window, the
\* trigger of a running t-Reassembly is above RX_Next, and rx_size is the
\* number of bytes held (reception_actions, check_t_reassembly).
ReceiverConsistent ==
  /\ Ahead(rx.rx_highest_status) <= Ahead(rx.rx_next_highest)
  /\ Ahead(rx.rx_next_highest) <= SnCount \div 2
  /\ rx.t_reassembly => Ahead(rx.rx_next_status_trigger) \in 1..Ahead(rx.rx_next_highest)
  /\ rx.rx_size = R!SizeAt(rx.rx_list, {i \in DOMAIN rx.rx_list : rx.rx_list[i].data})

\* reassemble_and_deliver gives the upper layer every SDU once and whole,
\* whatever segments it was put together from.
DeliveredWholeOnce ==
  /\ \A i \in DOMAIN rx.delivered :
       rx.delivered[i] = [b \in 1..SizeOf(rx.delivered[i][1][1]) |-> <<rx.delivered[i][1][1], b - 1>>]
  /\ \A i, j \in DOMAIN rx.delivered : i # j => rx.delivered[i] # rx.delivered[j]

\* Nothing stays undelivered that is complete: reception_actions delivers an
\* SDU with the PDU that completes it.
CompleteIsDelivered ==
  \A sn \in Sns :
    (UNION {Bytes(rx.rx_list[i]) : i \in {j \in DOMAIN rx.rx_list : rx.rx_list[j].sn = sn}} = 0..(SizeOf(sn) - 1))
       => R!sdu_delivered(rx, sn)

\* What was reported as missing stays in the reporting range: no step takes
\* RX_Highest_Status or RX_Next_Highest back, although the trigger of
\* t-Reassembly may lag behind RX_Highest_Status.
ReceiverAdvances ==
  [][ /\ Ahead(rx'.rx_highest_status) >= Ahead(rx.rx_highest_status)
      /\ Ahead(rx'.rx_next_highest) >= Ahead(rx.rx_next_highest) ]_rx

\* The bytes of SDUs RX_Next .. RX_Highest_Status - 1 that are missing, and
\* those a STATUS asks for again.  The position past the last byte of an SDU counts
\* as missing as long as the end of the SDU has not been received.
Positions == {q \in Sns \X (0..SduSize) : q[2] <= SizeOf(q[1])}
IsMissing(sn, b) ==
  /\ Ahead(sn) < Ahead(rx.rx_highest_status) /\ ~R!sdu_delivered(rx, sn)
  /\ \A i \in DOMAIN rx.rx_list :
       LET p == rx.rx_list[i]
       IN  p.sn = sn => b \notin Bytes(p) /\ (p.last => b < p.so)
MissingBytes == {q \in Positions : IsMissing(q[1], q[2])}
Asks(k, sn, b) ==
  LET n == (sn - k.sn) % SnCount
  IN  n < k.range /\ (n = 0 => k.so_start <= b) /\ (n = k.range - 1 => b <= k.so_end)
NackedBytes(status) == {q \in Positions : \E i \in DOMAIN status.nacks : Asks(status.nacks[i], q[1], q[2])}

\* Room for a NACK of every SN in every round of the loop.
Roomy == 3 + 8 * SnCount * (Len(rx.rx_list) + 1)

\* generate_status: given enough room a STATUS asks for exactly the missing
\* bytes; cut short, it still asks for every missing byte below its ACK_SN, so
\* that nothing missing is acknowledged.
StatusComplete ==
  /\ NackedBytes(R!StatusPdu(rx, Roomy)) = MissingBytes
  /\ \A size \in StatusGrants :
       LET s == R!StatusPdu(rx, size)
       IN  {m \in MissingBytes : Ahead(m[1]) < Ahead(s.ack_sn)} \subseteq NackedBytes(s)

\* status_size reports what generate_status needs: a grant of the size that
\* was reported for maxsize bytes gives the STATUS that maxsize bytes give.
ReportedSizeSuffices ==
  \A maxsize \in StatusGrants \cup {Roomy} :
    R!StatusPdu(rx, R!status_size(rx, maxsize)) = R!StatusPdu(rx, maxsize)
=============================================================================
