--------------------------- MODULE NrPdcpEntity ---------------------------
(***************************************************************************)
(* One radio bearer of the NR PDCP layer (openair2/LAYER2/nr_pdcp): the    *)
(* transmitting entity of one node, the receiving entity of its peer, and  *)
(* the lower layers between them, which may lose, reorder and duplicate    *)
(* PDUs.                                                                   *)
(*                                                                         *)
(* COUNT is the 32-bit number HFN * 2^sn_size + SN.  Only the SN travels   *)
(* in the PDU; the receiver infers the HFN from RX_DELIV.  The model keeps *)
(* the widths: SnCount values of the SN, CountMod values of COUNT, and an  *)
(* int of 2 * IntHalf values for t_reordering_start.                       *)
(*                                                                         *)
(* A PDU carries, besides its header, the COUNT it was sent with (the      *)
(* identity of its payload) and the contexts it was ciphered and protected *)
(* with: deciphering returns the payload exactly when the receiver uses    *)
(* the same context and the same COUNT.                                    *)
(***************************************************************************)
EXTENDS Integers, Sequences, FiniteSetsExt

CONSTANTS
  WindowSize,    \* entity->window_size, half of the SN space
  HfnCount,      \* number of values of the HFN
  TReordering,   \* entity->t_reordering in ms, -1 for infinity
  IntHalf,       \* the C int ranges over -IntHalf .. IntHalf - 1
  Keys, NoKey,   \* security keys; NoKey: the null pointer, or no context
  ZeroKey,       \* the key of a new entity: all bytes zero
  Calls,         \* the arguments set_security is called with
  Lens,          \* sizes of the SDUs
  IsSrb,         \* entity->type = NR_PDCP_SRB
  Reach,         \* how far from RX_DELIV the lower layers may hand over a PDU
  MaxCount,      \* bound: number of SDUs sent
  MaxTime,       \* bound: last millisecond
  MaxTick,       \* bound: milliseconds one call of set_time may skip
  MaxReconf      \* bound: number of calls of set_security after creation, on the two nodes

SnCount == 2 * WindowSize
CountMod == HfnCount * SnCount
MaciSize == 4

ASSUME WindowAssumption == WindowSize \in Nat \ {0} /\ HfnCount \in Nat \ {0}
ASSUME BoundAssumption ==
  MaxCount \in Nat /\ MaxCount < CountMod /\ MaxTime \in Nat /\ MaxTick \in Nat /\ MaxReconf \in Nat
ASSUME TimerAssumption == TReordering \in Nat \cup {-1} /\ IntHalf \in Nat \ {0}
ASSUME DataAssumption ==
  Lens \subseteq Nat \ {0} /\ IsSrb \in BOOLEAN /\ Reach \in Nat /\ NoKey \notin Keys /\ ZeroKey \in Keys

\* What set_security is told about integrity, or about ciphering: -1 leaves the algorithm
\* and the null pointer leaves the key as it is.
Setting == [algorithm : {-1, 0, 2}, key : Keys \cup {NoKey}]
Call == [integrity : Setting, ciphering : Setting]

ASSUME CallsAssumption == Calls \subseteq Call

VARIABLES
  tx_next,             \* transmitter: COUNT of the next SDU
  tx_sec,              \* transmitter: security settings
  pdus,                \* every PDU sent; the lower layers hand over any of them, in any
                       \* order and again; one they never hand over is lost
  rx_next, rx_deliv, rx_reord,
  rx_list,             \* received SDUs not delivered yet, ordered by COUNT
  rx_sec,              \* receiver: security settings
  t_current, t_reordering_start,
  delivered,           \* history: the SDUs given to the upper layer
  armed_at,            \* history: t_current when t-Reordering was last started
  tx_calls, rx_calls   \* history: the calls of set_security on either node, creation first

rxCounters == <<rx_next, rx_deliv, rx_reord, rx_list, t_reordering_start, delivered, armed_at>>
vars == <<tx_next, tx_sec, pdus, rxCounters, rx_sec, t_current, tx_calls, rx_calls>>

---------------------------------------------------------------------------
(* Security settings.  Integrity and ciphering are handled alike: whether  *)
(* it is active, the key stored, and the key of the running context (NoKey *)
(* when free_integrity or free_security is NULL: no context to free).      *)

Algorithm == [active : BOOLEAN, key : Keys, context : Keys \cup {NoKey}]
Security == [integrity : Algorithm, ciphering : Algorithm]

\* Mutant: a running context is not replaced by one with the new key.
ReconfigureOldContext(a, setting) ==
  LET stored == IF setting.key # NoKey THEN setting.key ELSE a.key
  IN CASE setting.algorithm = -1 -> [a EXCEPT !.key = stored]
       [] setting.algorithm = 0  -> [active |-> FALSE, key |-> stored, context |-> NoKey]
       [] setting.algorithm = 2  ->
            [active |-> TRUE, key |-> stored, context |-> IF a.active THEN a.context ELSE stored]

Reconfigure(a, setting) ==
  LET stored == IF setting.key # NoKey THEN setting.key ELSE a.key
  IN CASE setting.algorithm = -1 -> [a EXCEPT !.key = stored]
       [] setting.algorithm = 0  -> [active |-> FALSE, key |-> stored, context |-> NoKey]
       [] setting.algorithm = 2  -> [active |-> TRUE, key |-> stored, context |-> stored]

set_security(sec, call) ==
  [integrity |-> Reconfigure(sec.integrity, call.integrity),
   ciphering |-> Reconfigure(sec.ciphering, call.ciphering)]

ZeroSecurity == LET off == [active |-> FALSE, key |-> ZeroKey, context |-> NoKey]
                IN [integrity |-> off, ciphering |-> off]

ContextOf(a) == IF a.active THEN a.context ELSE NoKey

IntegritySize(sec) == IF sec.integrity.active \/ IsSrb THEN MaciSize ELSE 0

---------------------------------------------------------------------------
(* The keys in force after some calls of set_security, as the calls alone  *)
(* tell: the last call that names an algorithm switches it off, or on with *)
(* the key last given up to that call.                                     *)

KeyInForce(calls, what) ==
  LET naming == {i \in 1..Len(calls) : calls[i][what].algorithm # -1}
      giving == {i \in 1..Max(naming) : calls[i][what].key # NoKey}
  IN IF naming = {} \/ calls[Max(naming)][what].algorithm = 0 THEN NoKey
     ELSE IF giving = {} THEN ZeroKey ELSE calls[Max(giving)][what].key

InForce(calls) == <<KeyInForce(calls, "integrity"), KeyInForce(calls, "ciphering")>>

---------------------------------------------------------------------------
(* PDUs and SDUs.                                                          *)

\* in_force is a history: the keys in force on the sending node.
Pdu == [sn : 0..(SnCount - 1), count : Nat, len : Lens, maci : {0, MaciSize},
        ck : Keys \cup {NoKey}, ik : Keys \cup {NoKey},
        in_force : (Keys \cup {NoKey}) \X (Keys \cup {NoKey})]

\* An element of rx_list; sdu is the COUNT its payload was sent with, same_keys a history:
\* the keys in force when it was sent are those in force where it is received.
Sdu == [count : Nat, sdu : Nat, intact : BOOLEAN, verified : BOOLEAN, same_keys : BOOLEAN]

\* Mutant: the case of a late PDU of the previous HFN is missing.
RcvdCountNoPast(sn) ==
  LET deliv_hfn == rx_deliv \div SnCount
      hfn == IF sn < (rx_deliv % SnCount) - WindowSize THEN deliv_hfn + 1 ELSE deliv_hfn
  IN (hfn * SnCount + sn) % CountMod

\* The COUNT the receiver computes from the SN of a PDU.
RcvdCount(sn) ==
  LET deliv_sn  == rx_deliv % SnCount
      deliv_hfn == rx_deliv \div SnCount
      hfn == IF sn < deliv_sn - WindowSize THEN deliv_hfn + 1
             ELSE IF sn >= deliv_sn + WindowSize THEN deliv_hfn - 1
             ELSE deliv_hfn
  IN (hfn * SnCount + sn) % CountMod

\* Deciphering with the receiver's context and the inferred COUNT gives the payload back.
Deciphered(p, count) ==
  /\ ContextOf(rx_sec.ciphering) = p.ck
  /\ p.ck # NoKey => count = p.count

MacMatches(p, count) ==
  Deciphered(p, count) /\ p.maci = MaciSize /\ p.ik = rx_sec.integrity.context /\ count = p.count

NewSdu(p, count) ==
  [count |-> count, sdu |-> p.count,
   intact |-> Deciphered(p, count) /\ p.maci = IntegritySize(rx_sec),
   verified |-> rx_sec.integrity.active => MacMatches(p, count),
   same_keys |-> p.in_force = InForce(rx_calls)]

TooShort(p) == p.len + p.maci < IntegritySize(rx_sec) + 1

InList(count) == \E i \in 1..Len(rx_list) : rx_list[i].count = count

\* Mutant: the SDU is appended to the list.
InsertionPointAtEnd(l, count, k) == k = Len(l)

\* nr_pdcp_sdu_list_add inserts after the first k elements.
InsertionPoint(l, count, k) ==
  /\ \A i \in 1..k : l[i].count <= count
  /\ k < Len(l) => count < l[k + 1].count

ListAdd(l, k, e) == SubSeq(l, 1, k) \o <<e>> \o SubSeq(l, k + 1, Len(l))

\* The n elements that follow the first m of l are numbered from count on, and no more are.
IsRun(l, m, count, n) ==
  /\ \A i \in 1..n : l[m + i].count = (count + i - 1) % CountMod
  /\ m + n < Len(l) => l[m + n + 1].count # (count + n) % CountMod

Deliver(l, n) ==
  /\ delivered' = delivered \o SubSeq(l, 1, n)
  /\ rx_list' = SubSeq(l, n + 1, Len(l))

---------------------------------------------------------------------------
(* t-Reordering: t_reordering_start is an int holding the millisecond of   *)
(* activation, 0 when not active; t_current is a uint64_t.                 *)

ToInt(t) == LET r == t % (2 * IntHalf) IN IF r >= IntHalf THEN r - 2 * IntHalf ELSE r

\* t_reordering_start + t_reordering, in int: an overflow is undefined behaviour and
\* gives the sum or the sum wrapped.
TimerSums == LET sum == t_reordering_start + TReordering
             IN IF sum < IntHalf THEN {sum} ELSE {sum, sum - 2 * IntHalf}

\* A negative sum is converted to a huge uint64_t before it is compared.
TimerExpired(now, sum) ==
  TReordering # -1 /\ t_reordering_start # 0 /\ sum >= 0 /\ now > sum

\* Mutant: the activation is stored in microseconds.
StartTimerMicroseconds(next, now) ==
  rx_reord' = next /\ t_reordering_start' = 1000 * now /\ armed_at' = now

StartTimer(next, now) ==
  rx_reord' = next /\ t_reordering_start' = ToInt(now) /\ armed_at' = now

\* Mutant: t-Reordering keeps running when its gap is filled.
StopOrStartTimerNoStop(deliv, next) ==
  \/ t_reordering_start = 0 /\ deliv < next /\ StartTimer(next, t_current)
  \/ ~(t_reordering_start = 0 /\ deliv < next) /\ UNCHANGED <<t_reordering_start, rx_reord, armed_at>>

\* The last two conditions of recv_pdu, after RX_DELIV and RX_NEXT are updated.
StopOrStartTimer(deliv, next) ==
  LET running == t_reordering_start # 0 /\ deliv < rx_reord
  IN \/ ~running /\ deliv < next /\ StartTimer(next, t_current)
     \/ /\ running \/ deliv >= next
        /\ t_reordering_start' = IF running THEN t_reordering_start ELSE 0
        /\ UNCHANGED <<rx_reord, armed_at>>

---------------------------------------------------------------------------
(* Operations.                                                             *)

recv_sdu(len) ==
  /\ tx_next < MaxCount
  /\ pdus' = pdus \cup {[sn |-> tx_next % SnCount, count |-> tx_next, len |-> len,
                         maci |-> IntegritySize(tx_sec),
                         ck |-> ContextOf(tx_sec.ciphering), ik |-> ContextOf(tx_sec.integrity),
                         in_force |-> InForce(tx_calls)]}
  /\ tx_next' = tx_next + 1
  /\ UNCHANGED <<tx_sec, rxCounters, rx_sec, t_current, tx_calls, rx_calls>>

\* The lower layers hand over a PDU at most Reach away from RX_DELIV.
Reachable(p) == rx_deliv - Reach <= p.count /\ p.count < rx_deliv + Reach

\* Mutant: a PDU below RX_DELIV is not discarded.
DiscardedInListOnly(p) == TooShort(p) \/ InList(RcvdCount(p.sn))

Discarded(p) ==
  TooShort(p) \/ RcvdCount(p.sn) < rx_deliv \/ InList(RcvdCount(p.sn))

\* recv_pdu of a PDU that is kept: insert, deliver the run from RX_DELIV, handle the timer.
Accept(p, k, n) ==
  LET count == RcvdCount(p.sn)
      list  == ListAdd(rx_list, k, NewSdu(p, count))
      next  == IF count >= rx_next THEN (count + 1) % CountMod ELSE rx_next
      deliv == (rx_deliv + n) % CountMod
  IN /\ InsertionPoint(rx_list, count, k)
     /\ IF count = rx_deliv THEN IsRun(list, 0, rx_deliv, n) ELSE n = 0
     /\ Deliver(list, n)
     /\ rx_next' = next
     /\ rx_deliv' = deliv
     /\ StopOrStartTimer(deliv, next)

recv_pdu(p) ==
  /\ Reachable(p)
  /\ \/ Discarded(p) /\ UNCHANGED rxCounters
     \/ /\ ~Discarded(p)
        /\ \E k \in 0..Len(rx_list) : \E n \in 0..(Len(rx_list) + 1) : Accept(p, k, n)
  /\ UNCHANGED <<tx_next, tx_sec, pdus, rx_sec, t_current, tx_calls, rx_calls>>

\* Mutant: t-Reordering is not restarted for the next gap.
ReorderingExpiryNoRestart(now, m, n) ==
  /\ \A i \in 1..m : rx_list[i].count < rx_reord
  /\ m < Len(rx_list) => rx_list[m + 1].count >= rx_reord
  /\ IsRun(rx_list, m, rx_reord, n)
  /\ Deliver(rx_list, m + n)
  /\ rx_deliv' = (rx_reord + n) % CountMod
  /\ t_reordering_start' = 0
  /\ UNCHANGED <<rx_next, rx_reord, armed_at>>

\* check_t_reordering: m SDUs lie below RX_REORD, the next n are numbered from it on.
ReorderingExpiry(now, m, n) ==
  LET deliv == (rx_reord + n) % CountMod
  IN /\ \A i \in 1..m : rx_list[i].count < rx_reord
     /\ m < Len(rx_list) => rx_list[m + 1].count >= rx_reord
     /\ IsRun(rx_list, m, rx_reord, n)
     /\ Deliver(rx_list, m + n)
     /\ rx_deliv' = deliv
     /\ \/ deliv < rx_next /\ StartTimer(rx_next, now)
        \/ deliv >= rx_next /\ t_reordering_start' = 0 /\ UNCHANGED <<rx_reord, armed_at>>
     /\ UNCHANGED rx_next

set_time(now) ==
  /\ t_current' = now
  /\ \E sum \in TimerSums :
       \/ ~TimerExpired(now, sum) /\ UNCHANGED rxCounters
       \/ /\ TimerExpired(now, sum)
          /\ \E m \in 0..Len(rx_list) : \E n \in 0..(Len(rx_list) - m) : ReorderingExpiry(now, m, n)
  /\ UNCHANGED <<tx_next, tx_sec, pdus, rx_sec, tx_calls, rx_calls>>

\* pdcp_config_set_security, on the transmitting or on the receiving node; it knows SRBs only.
ConfigSecurity(call) ==
  /\ IsSrb
  /\ Len(tx_calls) + Len(rx_calls) < 2 + MaxReconf
  /\ \/ /\ tx_sec' = set_security(tx_sec, call) /\ tx_calls' = Append(tx_calls, call)
        /\ UNCHANGED <<rx_sec, rx_calls>>
     \/ /\ rx_sec' = set_security(rx_sec, call) /\ rx_calls' = Append(rx_calls, call)
        /\ UNCHANGED <<tx_sec, tx_calls>>
  /\ UNCHANGED <<tx_next, pdus, rxCounters, t_current>>

Init ==
  /\ tx_next = 0 /\ pdus = {}
  /\ rx_next = 0 /\ rx_deliv = 0 /\ rx_reord = 0 /\ rx_list = <<>>
  /\ t_current = 0 /\ t_reordering_start = 0
  /\ delivered = <<>> /\ armed_at = 0
  /\ \E call \in Calls : tx_sec = set_security(ZeroSecurity, call) /\ tx_calls = <<call>>
  /\ \E call \in Calls : rx_sec = set_security(ZeroSecurity, call) /\ rx_calls = <<call>>

Next ==
  \/ \E len \in Lens : recv_sdu(len)
  \/ \E p \in pdus : recv_pdu(p)
  \/ \E now \in (t_current + 1)..(t_current + MaxTick) : now <= MaxTime /\ set_time(now)
  \/ \E call \in Calls : ConfigSecurity(call)

Spec == Init /\ [][Next]_vars

---------------------------------------------------------------------------
(* Properties.                                                             *)

\* Type invariant.
TypeOK ==
  /\ tx_next \in 0..MaxCount /\ tx_sec \in Security /\ rx_sec \in Security
  /\ pdus \subseteq Pdu
  /\ rx_next \in 0..(CountMod - 1) /\ rx_deliv \in 0..(CountMod - 1) /\ rx_reord \in 0..(CountMod - 1)
  /\ rx_list \in Seq(Sdu) /\ delivered \in Seq(Sdu)
  /\ t_current \in 0..MaxTime /\ armed_at \in 0..MaxTime
  /\ t_reordering_start \in (-IntHalf)..(IntHalf - 1)
  /\ tx_calls \in Seq(Calls) /\ rx_calls \in Seq(Calls)
  /\ Len(tx_calls) + Len(rx_calls) <= 2 + MaxReconf

\* The HFN the receiver infers (recv_pdu, first conditions) is the sender's: every SDU
\* received, waiting or delivered, has the COUNT it was sent with.
CountRecovered ==
  /\ \A i \in 1..Len(rx_list) : rx_list[i].count = rx_list[i].sdu
  /\ \A i \in 1..Len(delivered) : delivered[i].count = delivered[i].sdu

\* Whatever is lost, reordered, duplicated or overtaken by t-Reordering, recv_pdu and
\* check_t_reordering hand the SDUs to the upper layer in the order they were sent, none twice.
DeliveredInOrder ==
  \A i, j \in 1..Len(delivered) : i < j => delivered[i].sdu < delivered[j].sdu

\* rx_list is ordered by COUNT without duplicates, and never starts with an SDU that is due:
\* all of it lies strictly between RX_DELIV and RX_NEXT.
ListOrdered ==
  /\ \A i, j \in 1..Len(rx_list) : i < j => rx_list[i].count < rx_list[j].count
  /\ \A i \in 1..Len(rx_list) : rx_deliv < rx_list[i].count /\ rx_list[i].count < rx_next

\* The window variables are ordered, and a running t-Reordering waits for a COUNT above
\* RX_DELIV: it is stopped as soon as its gap is filled.
WindowOrdered ==
  /\ rx_deliv <= rx_next /\ rx_reord <= rx_next
  /\ t_reordering_start # 0 => rx_deliv < rx_reord

\* However often and in whichever order set_security is called on either node, an SDU is
\* delivered as it was sent and passes integrity whenever the keys in force when recv_sdu sent
\* it are those in force when recv_pdu received it: the running contexts are those the calls
\* ask for, and the inferred COUNT is the one deciphering and the MAC-I check need.
DeliveredIntact ==
  \A i \in 1..Len(delivered) :
    delivered[i].same_keys => delivered[i].intact /\ delivered[i].verified

\* SDUs held back behind a gap are not held longer than t_reordering after the timer started
\* (unless it started at millisecond 0, which the code reads as "not active").
NoOverdueGap ==
  rx_deliv < rx_next /\ armed_at > 0 /\ TReordering # -1 => t_current <= armed_at + TReordering
=============================================================================
