# OpenAirInterface 5G layer 2: TLA+ models, checks and proofs

OpenAirInterface (OAI) is a software 4G/5G radio access network: base station
(eNB, gNB), user equipment, and the protocol layers between radio and core
network. This directory holds TLA+ models of its NR layer 2 and of the gNB's
slot pipeline, whose correctness depends on what no unit test enumerates: loss, reordering,
duplication, timers that fire at the wrong moment, numbers that wrap around.

## The system and its parts

| Part | State it keeps | Operations | Interaction | What is hard | Correct if |
|---|---|---|---|---|---|
| NR PDCP entity (`openair2/LAYER2/nr_pdcp`) | `tx_next`, `rx_next`, `rx_deliv`, `rx_reord`, `rx_list`, t-Reordering, keys | `recv_sdu`, `recv_pdu`, `set_time`, `set_security` | above RLC, below SDAP and RRC; callbacks deliver SDUs and PDUs | HFN inference at the SN wrap, gaps and timer, duplicates | in order, once, right COUNT, nothing held back too long |
| NR RLC AM entity (`openair2/LAYER2/nr_rlc`) | window variables, `tx_list`, `wait_list`, `retransmit_list` with their end pointers, `rx_list`, three timers | `recv_sdu`, `generate_pdu`, `recv_pdu` (data, STATUS), `set_time`, `discard_sdu`, `reestablishment` | MAC asks for PDUs of a size and hands over received ones; PDCP above | lost segments, polls and STATUS PDUs, resegmentation, late answers, SN wrap | nothing freed that the peer lacks, delivered whole and once, buffer sizes right, retransmission ends |
| NR RLC UM entity | `tx_list`, `rx_list`, window variables, t_reassembly | `recv_sdu`, `generate_pdu`, `recv_pdu`, `set_time`, `discard_sdu`, `reestablishment` | same as AM, without STATUS | reassembly window and timer, SN reuse | delivered whole and at most once, gaps given up |
| RLC and PDCP UE managers and API | tables of UEs and bearers, one lock each, two bounded queues with their threads, a timer thread | add and remove UEs, data requests and indications, ticks | called from MAC, RRC, GTP and TUN threads | lock order, queues at their limit, shared condition variables | order kept, no wake-up lost, no circular wait |
| Thread pool, notified FIFO (`common/utils/threadPool`) | job queue, worker threads, abort flags | push, pull, abort | used by PHY and the slot pipeline | abort racing a worker, nested jobs | every job answered once or aborted |
| gNB L1 slot pipeline (`executables/nr-gnb.c`, `nr-ru.c`) | rx message, two tx messages, per-slot jobs, reorder thread | slot by slot: decode, schedule, encode, send | RU thread, thread pool, MAC scheduler | slots ending out of order, waiting inside the pool | one indication per UE, slots sent in order |
| NR MAC downlink HARQ and PUCCH (`openair2/LAYER2/NR_MAC_gNB`) | HARQ processes in three lists, two PUCCHs being filled, `UL_tti_req_ahead`, `vrb_map_UL` | one scheduler call per slot, UCI indications | between RLC and PHY | feedback names no process; it is lost or late; SFN wraps | feedback reaches its own process, NDI tells new blocks |
| ITTI (`common/utils/ocp_itti`) | a queue and timers per task | send, receive, timers | between RRC, NGAP, F1AP, ... | timers removed while firing | no lost message, timer order |
| SDAP | QoS flow to bearer table | add and update rules, data | above PDCP | remapping with end markers | order per flow |
| X2AP | UE ids, handover timers | prepare, cancel, timers | between base stations | timeout racing an answer | an id is freed once |
| Random access, uplink HARQ and the rest of the MAC scheduler; RRC, NGAP, F1AP, NAS, nFAPI, PHY, drivers, logging, LTE stack | | | | | not modelled, see `PROJECT.json` |

The choice: the RLC and PDCP entities are where OAI's own logic makes an
unreliable radio link into an ordered, loss-free bearer; every user and signalling
byte of 5G goes through them. Around them, the threads and queues that connect the
layers, the HARQ processes below them and the slot pipeline of L1 are where the
interleavings are.

## Modules

| Module | Models | Kind |
|---|---|---|
| `NrPdcpEntity`, `MCNrPdcpEntity` | a PDCP bearer: transmitter, receiver, lower layers; security calls for TLC | state machine, properties |
| `NrPdcpEntityProofs` | theorems about it | proofs |
| `NrRlcAmTx` | transmitting side of `nr_rlc_entity_am.c` | operators on a record of the entity's fields |
| `NrRlcAmRx` | receiving side | operators on a record |
| `NrRlcAm` | both sides joined by MAC and HARQ | composition, properties, fairness |
| `NrRlcAmReceiver` | the receiving side against any conforming peer | composition, properties |
| `NrRlcAmReceiverProofs` | theorems about it | proofs |
| `RlcService` | what RLC promises PDCP | abstract specification |
| `NrRlcUm` | both sides of `nr_rlc_entity_um.c` and the link | state machine, properties, fairness |
| `NrRlcUmProofs` | theorems about it | proofs |
| `L2Queue` | a bounded queue with its mutex and condition variable | operators on a record |
| `PduChannel` | what such a queue promises | abstract specification |
| `NrL2Threads` | the threads and locks of the PDCP and RLC managers | composition, properties, fairness |
| `NrPucch` | PUCCH occasions of one UE | operators on a record |
| `NrDlHarq`, `MCNrDlHarq` | downlink HARQ processes, slot by slot, over `NrPucch`; a view for TLC | state machine, properties, fairness |
| `NotifiedFifo` | the queue of `thread-pool.h` with its two pointers | operators on a record |
| `NrL1Pipeline`, `MCNrL1Pipeline` | thread pool, rx and tx jobs, reorder thread; slot plans for TLC | state machine, properties, fairness |
| `NrL2ThreadsProofs` | theorems about `NrL2Threads` | proofs |
| `NrDlHarqProofs` | theorems about `NrDlHarq` | proofs |
| `NrL1PipelineProofs`, `NrL1CountProofs` | theorems about `NrL1Pipeline`: what is in which queue, then how many | proofs |
| `SequenceLemmas` | what these proofs share: lists without repetition, insertion, least and greatest elements, induction, recursive functions | lemmas |

`NrRlcAm` instantiates `NrRlcAmTx` and `NrRlcAmRx`; `NrRlcAmReceiver` and `NrRlcUm`
use `NrRlcAmRx` (UM shares its reassembly). `NrL2Threads` instantiates `L2Queue`
twice; `NrDlHarq` extends `NrPucch`, `NrL1Pipeline` extends `NotifiedFifo`.

Refinements, each the property of a run: `NrRlcAm` and `NrRlcUm` implement
`RlcService` (`ServiceSpec`; SDUs accepted, delivered and, in AM, acknowledged are
the abstract variables), and both directions of `NrL2Threads` implement
`PduChannel` (`DownlinkSpec`, `UplinkSpec`).

Definitions keep the names of the C functions. The `map` of
`PROJECT.json` gives the source lines of every definition. A `Mutant:` comment
marks a variant of the definition after it with a plausible bug: replacing one by
the other makes TLC report a violation of the property named under `mutants`, so
no property holds whatever the code does.

### NrPdcpEntity

State: the fields of `nr_pdcp_entity_t` for the two ends, the set of PDUs sent
(`pdus`: the lower layers hand over any of them, in any order and again, and one
they never hand over is lost), and histories: `delivered`, `armed_at` (when
t-Reordering last started), `tx_calls` and `rx_calls` (the calls of `set_security` on
either end, the one that creates it first). One action per entry point: `recv_sdu`, `recv_pdu`,
`set_time` (with `check_t_reordering` inside) and `ConfigSecurity`
(`pdcp_config_set_security`). The widths are kept: SN modulo `SnCount`, COUNT
modulo `CountMod`, and `t_reordering_start` as an int of `2 * IntHalf` values,
into which the 64-bit time is truncated. An overflowing int sum is undefined
behaviour and is both the sum and the wrapped sum. Ciphering and integrity are
abstracted to: the payload comes back, and the MAC-I matches, if and only if key
and COUNT agree.

The arguments of `set_security` are the constant `Calls`: for integrity and for
ciphering an algorithm (-1 leaves it alone, 0 switches it off) and a key, or none;
`ZeroKey` is the key of an entity that was given none. `set_security` is the code:
stored algorithm and key, and a security context that is freed and made anew.
`InForce` says from the calls alone which keys ought to be used. A PDU records the
keys in force at its sender, and the receiver notes whether they are those in force
on its side: `DeliveredIntact` is about each SDU by itself, sent and received under
the same keys, whatever was configured before, between or after.

### NrRlcAmTx, NrRlcAmRx

An SDU is a number and a size, a segment an interval of its bytes. A list of the
program is a sequence; the `tx_end` and `wait_end` pointers are kept as pointers
beside the sequences, because the code maintains them separately: appending after
a node that is not the last loses what follows, appending after a freed node is
undefined behaviour (`PutInWaitList` returns the set of outcomes), dereferencing
NULL sets `crashed`. `process_control_pdu` keeps the control flow of the code:
its labels are the values of `label`, its cursors the parts of the record `c`.
The bits of PDU headers are left out, the sizes that follow from them are not:
they decide what fits into a grant. Paths for malformed PDUs and SDUs above
`NR_SDU_MAX` are left out.

A timer is a Boolean, running or not. When it expires is an action that may come
any time, so that all durations and all delays are covered. `LateAnswers = FALSE`
restricts t_poll_retransmit to durations above the round trip.

Every call on an entity holds the lock of the RLC UE manager and is preceded by
`set_time`, so a call is one action.

### NrRlcAm, NrRlcAmReceiver

`NrRlcAm` adds what is in flight: data PDUs in any order (`air`), STATUS PDUs in
order or not (`StatusInOrder`), losses of both, and discards of SDUs from above.
`Fresh` states that MAC does not delay a PDU for a whole SN window. Segments of
this transmitter never overlap; `NrRlcAmReceiver` lets the peer send any segment
of any SDU in the window, overlapping ones too, any number of times.

### NrRlcUm

The whole of a UM bearer in one module, in the manner of the AM ones. `LinkUp` and
`Fresh` state what 3GPP assumes of the link when SNs are reused: a PDU is not
delayed for a window, and of a window of SNs some segment arrives. `Gapped` leaves
out one SN value for which the code does not restart t_reassembly (the hazard at
`check_t_reassembly`).

### L2Queue, NrL2Threads

An action is what a thread does under one lock until it waits, releases or takes
another. The manager locks are explicit, because `enqueue_rlc_data_req` and
`enqueue_pdcp_data_ind` may wait for room while they are held. The condition
variable of a queue is the set `waiting`; a signal wakes one of it, any one. The
slot of a queue is read outside its mutex, in an action of its own. Entities are
reduced to the order of what passes through them.

### NrPucch, NrDlHarq

Time is `now`, a slot of the SFN cycle of `Frames` frames. One action of `NextSlot`
is one call of `gNB_dlsch_ulsch_scheduler`: clearing the last slot's entries, CSI
in slot 0, in a downlink slot nothing, an aborted, a repeated or a new block, and in
every slot `nr_schedule_pucch` and `nr_sr_reporting`, which return where there is no
uplink (`End`). The slot after the downlink slots of a period is mixed: it has
downlink if `MixedDownlink`, uplink if `MixedUplink`, as `config.c` computes its
bitmaps. `sched` holds what `NrPucch` works on. `nr_acknack_scheduling` keeps every
branch of the code, among them the recursive calls, which end at the first one
(`Find`), and the limit of 11 bits for a report shared with CSI (`Multiplexed`).
Assertions of the code are recorded in `sched.failed`.

What a slot may meet is a choice (`Conditions`): the UE is paused (its RRC timer
runs or its uplink failed), which makes CSI and SR pass it over, and the resource
blocks of its CSI report are taken, which drops the report; downlink blocks are sent
to a UE whose RRC timer runs. SR has its period and offset, and its place in the
resource set (`SrResource`). It is added to a PDU of the slot that has its symbols:
`SrMatches` says of the two formats which do. `OtherUsers` are the slots in which
another user has the resource of the HARQ bits; resource blocks, MCS and CCEs are a
choice to send nothing.

The UE, which sends its bits in the order of the DCIs, the PHY, which gives a NACK
for a bit it was told to expect and did not receive, and the delay and loss of UCI
indications are external.

### NotifiedFifo, NrL1Pipeline

The two pointers of the queue are kept, because an abort updates only one of them:
`inF` may point to a deleted element. Workers are alike, so the state holds the set
of jobs being run. A job that waits for nested jobs keeps its worker. An action is
one critical section with the code that follows it. What a slot carries (code
blocks per UE, downlink, nested encoding jobs) is the constant `Plan`; which code
blocks fail is a choice. A UE with no code blocks in `Plan` is one that
`nr_ulsch_decoding` refuses on its error returns (no soft bits, too many blocks): no
job is pushed, the loop that waits for answers does not run, and MAC is told nothing
(`DecodingRefused`). A slot has at most one PDSCH: `nr_dlsch_encoding` pushes and
collects the jobs of one after the other, so several would repeat what one does.

## Runs

`pass` runs:

| Run | Question | Bounds and why they suffice |
|---|---|---|
| `pdcp_bearer` | COUNT recovered, in-order delivery, intact for every SDU sent and received under the same keys, nothing held back longer than t_reordering | window of 4 and more SDUs than SNs: the SN wraps with RX_DELIV at every position before it, and two gaps can be open at once; an SRB whose ends are created with and without security, and one more call on either end at any time (`ThreeCalls`: off, both with one key, ciphering alone with another), so that PDUs under three sets of keys are in flight; three ms: t_reordering of 1 expires and is restarted |
| `rlc_am_transfer` | reference counts, order of the lists, `bstatus` and `tx_size`, nothing freed that the peer lacks, refinement of `RlcService` | two SDUs of two bytes, whole or cut, fill the window: both lists non-empty, an SDU partly acknowledged, the window stalls; two PDUs in flight: reordering; discards, one re-establishment. No SN wrap and STATUS PDUs in order (see below) |
| `rlc_am_live` | every SDU acknowledged in the end | two SDUs, not segmented, t_poll_retransmit above the round trip (see below) |
| `rlc_receiver` | window variables, reassembly, STATUS content and size, with overlapping segments | one SDU of three bytes in the window (a hole needs two segments around one byte) among SDUs of one byte; six SNs and seven SDUs: wrap; ranges of two: a gap needs several NACKs; grants that cut the STATUS after each NACK |
| `rlc_um` | lists, window, timer, refinement of `RlcService`, gaps given up | five SDUs over four SNs: wrap; two PDUs in flight; discards, one re-establishment |
| `l2_threads` | lock order, order of PDUs, wake-ups, ticks | a GTP, a TUN and a MAC thread beside the three of layer 2; the downlink queue of two fills up with four PDUs, the uplink queue does not; a UE added and removed at any time; two ticks: the second comes while the timer thread waits for the lock or works |
| `dl_harq` | feedback, NDI, lists, assertions, no process waits for ever | three processes, two bits per PUCCH: a PUCCH fills up, feedback of several slots shares one, one falls on CSI; periods of a downlink, a mixed and an uplink slot, 3 per frame and 2 frames: the SFN wraps; SR in every other period, in a mixed slot, on the resource of the HARQ bits, as `nr_rrc_config.c` sets it up; pauses, CSI resources taken; one UCI lost at a time, each up to two slots late; at most three downlink slots in a row left out by choice. States that differ only by inverting the NDI of a process together with the one last sent are one (`NdiView`); everything else is the same in them |
| `l1_pipeline` | jobs, aborts, indications, order of slots, progress | four workers and four slots: three UEs in a slot, the middle one refused, the others with two code blocks, two tx jobs in flight with nested jobs |

`violation` runs, each a finding in `PROJECT.json`:

| Run | What the code does |
|---|---|
| `rlc_am_wrap` | raw SN comparison: segments are freed unreceived when the SN wraps |
| `l2_deadlock` | with both queues full two producers and two consumers wait for each other in a circle |
| `dl_harq_sr` | a failed search leaves a slot in `sched_pucch[0]`; an SR put into it fails an assertion of the next search |
| `l1_lost_job` | an abort that deletes the last of several queued jobs leaves `inF` behind, and the next job is lost |

Other disagreements were met on the way; they are hazards in `PROJECT.json` and the
bounds or constants of the runs keep clear of them:

- `recv_pdu` of PDCP keeps a PDU that fails integrity (the `return` below "discard
  NR PDU, integrity failed" is commented out).
- After 2^31 ms t-Reordering never expires: `NoOverdueGap` fails with a small
  `IntHalf`.
- `wait_end` of RLC AM is left stale or NULL after an acknowledgement inside the
  NACK loop; the model has the pointer as the code keeps it.
- A STATUS that was overtaken acknowledges everything: `AcknowledgedIsReceived`
  fails with `StatusInOrder = FALSE`.
- A lost last segment of the only SDU is never sent again:
  `EventuallyAcknowledged` fails with SDUs that are cut.
- `check_t_reassembly` of RLC UM does not lower `rx_size`.
- `discard_sdu` of RLC UM lowers the buffer status but not `tx_size`
  (`nr_rlc_entity_um.c:646-650`): the room of the bearer shrinks with every discarded
  SDU until the next re-establishment. The model does the same; `TxListConsistent`
  is about the buffer status and the list.
- The PUCCH occasion left by a failed search is compared without regard to the SFN
  wrap: `AssertionsHold` fails with `MaxIdle` as long as the cycle, SR or not.
- A PUCCH in a slot without uplink is never announced to the PHY. `config.c:525` takes
  the uplink to begin one slot later when `nrofUplinkSymbols` is 0, also in a pattern
  without a mixed slot (`gnb.band257.tm1.66PRB.usrpn300.conf` has 0 for both kinds of
  symbols), and `nr_acknack_scheduling` takes it to begin at `nrofDownlinkSlots`
  (l.1614-1615): `FeedbackForItsOwn` fails with `MixedUplink = FALSE`.
- With `SimultaneousHarqCsi = TRUE` the HARQ bits are expected on two PUCCHs:
  `FeedbackForItsOwn` fails.
- If the feedback of all processes is lost, nothing is sent again: `FeedbackEnds`
  fails with `MaxLost = 3` and a longer SFN cycle (`Frames`). In the short cycle of
  the run the slot of a lost indication comes round again within the delays, which it
  does not in 1024 frames.

Deadlock is checked for `dl_harq`, whose slots go on for ever. It is not checked
elsewhere: these models stop at the bound on the number of SDUs or slots.

Bounds: `MaxCount`, `MaxSdus` (SDUs), `MaxTime`, `MaxTick`, `MaxTicks` (time),
`MaxReconf`, `MaxReestablish` (calls), `MaxInFlight`, `MaxStatus` (PDUs in flight),
`MaxDownlink`, `MaxUplink` (PDUs of `NrL2Threads`), `UciDelay`, `MaxIdle`,
`MaxLost` (slots and UCI indications of `NrDlHarq`), and `RetxBound`, where
`retx_count` saturates; it only feeds `max_retx_reached`.

## Fairness

- `NrRlcAm`: running timers expire (`set_time` runs every slot), MAC serves the
  bearer again and again with room for a whole PDU, and the link is fair: of a
  byte, a poll or a STATUS that is sent again and again some copy arrives. Nothing
  is assumed of `recv_sdu`, losses, discards. The receptions and the STATUS
  generation are written as `[]<>P => []<><<A>>_vars` and `<>[]P => []<><<A>>_vars`
  with `P` the condition under which `A` is enabled and changes the state: the same
  formula as strong and weak fairness, without TLC's evaluation of ENABLED over the
  nested definitions.
- `NrRlcUm`: a running t_reassembly expires; weak fairness, written out in the same way.
- `NrL2Threads`: a thread that can run does run; nobody has to send. The load is
  bounded, so weak fairness is enough for the locks.
- `NrDlHarq`: the scheduler is called in every slot and a UCI indication is handled
  or lost. That the UE gets a block again (`MaxIdle`) and that not every indication
  is lost (`MaxLost`) are assumptions on traffic and radio, as bounds.
- `NrL1Pipeline`: workers, RU and reorder thread run when they can.

## Proofs

Checked by TLAPS for all values of the constants that satisfy the named assumptions
of the modules. Each of the invariants below is inductive, which the property it is
for is not; every proof has one lemma per action.

### NrPdcpEntityProofs

- `HfnInference`: a COUNT within a window of RX_DELIV is recovered from its SN.
  The argument splits on the HFN of the COUNT: equal to that of RX_DELIV, one
  above, one below; two numbers less than `SnCount` apart have no other case.
- `TypeCorrect` (`TypeOK`).
- `InOrderDelivery` (`DeliveredInOrder`), `CountsAgree` (`CountRecovered`),
  `ListConsistency` (`ListOrdered`), `WindowConsistency` (`WindowOrdered`) from the
  invariance of `BearerInv` (`BearerInvariance`). Whether a new SDU comes after the
  last one delivered depends on RX_DELIV, so `BearerInv` adds that everything
  delivered lies below RX_DELIV, that the list is sorted and lies between RX_DELIV
  and RX_NEXT, that RX_NEXT <= TX_NEXT (COUNT does not wrap), and that PDUs carry
  the SN of their COUNT. `RunDoesNotWrap` shows that the modulus in the delivery
  loops has no effect within the list.
- `IntactDelivery` (`DeliveredIntact`): for any number of calls of `set_security` on
  either end. The invariant ties the running contexts of an end to `InForce` of the
  calls made on it, through the stored algorithm and key (a call without a key takes
  the stored one, which may have come with a call that switched the algorithm off);
  so equal keys in force mean equal contexts, and with the COUNT recovered both the
  payload and the MAC-I come out right. The flags of an SDU are settled when it is
  received, so what waits in the list is not touched by a later call.
- `GapsExpire` (`NoOverdueGap`): the invariant relates the truncated start of
  t-Reordering to the time at which it was really started.

Hypotheses: `Reach <= WindowSize` (the lower layers hand over PDUs within the
reordering window) for everything about COUNTs, and for `GapsExpire` also
`MaxTime + TReordering < IntHalf`, the time before the millisecond clock outgrows
the int it is stored in; afterwards the property is false (see above).

### NrRlcAmReceiverProofs

For every SN length (`SnCount` even, at least 4), every SDU size up to 65535 bytes,
any number of SDUs and whatever segments a conforming peer sends, in any order, any
number of times, overlapping or not:

- `ReceiverKeptConsistent` (`ReceiverConsistent`).
- `EverySduWholeOnce` (`DeliveredWholeOnce`).
- `NothingCompleteWaits` (`CompleteIsDelivered`).
- `NeverMovesBack` (`ReceiverAdvances`).
- `StatusFitsReport` (`ReportedSizeSuffices`).
- `StatusAsksForAll` (`StatusComplete`).

All follow from `RxInv` (`Invariance`). The receiver keeps SNs; `RxInv`
says that there are numbers without the modulus behind them, B for RX_Next, H for
RX_Highest_Status and M for RX_Next_Highest, with B <= H <= M <= B + window, and a
set D of the SDUs delivered so far. None of the properties is inductive by itself:

- What `recv_pdu` decides about an SN is about the right SDU only because all entries
  of `rx_list` lie in B .. M - 1, less than a period (`EntriesAre`), and the list is
  found sorted by SDU and offset.
- An entry has lost its data exactly when its SDU is in D, and from B on an SDU is in
  D exactly when its bytes are all covered by entries. So `sdu_full`, which looks at
  holes and at data, is true exactly for an SDU that is complete and not delivered
  (`reassemble_and_deliver` keeps the entries without their data), and `rx_size` is
  the sum over the entries with data.
- The history of deliveries has each SDU of D once, as the bytes that were sent:
  `CopyBytes` appends from each entry what the earlier ones did not have.
- The trigger of a running t_reassembly is after RX_Next, and every SDU from the
  trigger to H is delivered. The timer may be older than H; the second clause is why
  an expiry does not take RX_Highest_Status back.

`reception_actions` takes several steps between which this is not true; `Mid` and
`Inv0` state what holds there, with a lemma for each step.

`StatusFitsReport` compares the two loops that MAC relies on, `status_size` with one
room and `generate_status` with the room it reported: `SameRounds` shows by induction
on the rounds that they look at the same runs of missing bytes, that the bits counted
by one make the bytes written by the other (`NackSizeIs`), and that the NACKs that
fit are the same ones, the cut-off last one included.

`StatusAsksForAll` is about which bytes the NACKs name, the property that keeps the
peer from discarding what did not arrive. `RxInv` has a clause for it alone, `Topped`:
while RX_Next_Highest is above RX_Next the list has an entry of the SDU before
RX_Next_Highest, so that an empty list means that nothing is to be reported. The
argument:

- `Lost` says in numbers without the modulus what `IsMissing` says in SNs. Nothing is
  lost between entry i and the place where `next_missing` sees the entries break off
  (`LostBeyond`), and everything from there to the next entry, or to
  RX_Highest_Status, is lost (`GapLost`). So the run it returns begins with the first
  lost byte not yet looked at and has only lost bytes (`NextRun`, with a case each for
  the head of the list, a hole in an SDU, the SDUs before an entry and the end).
- The NACKs a run is cut into ask for exactly the run, and a part of them for exactly
  the part they reach (`PiecesAsk`), whatever the largest range is.
- Two invariants of the rounds of `generate_status`. `Exact`, with room for everything:
  what is asked for is lost, and what is lost is asked for or left to look at. `Safe`,
  in any room: what is lost is asked for, or left, or, once the loop has ended, not
  below ACK_SN. For the round in which nothing more fits `Safe` also has to know that
  what is left begins in the last SDU of the last NACK or later (`Touches`): then
  `StretchLast`, which lets this NACK reach to the end of its SDU, covers the rest of
  the SDU that ACK_SN would acknowledge.
- After the first round each goes on from a later entry (`RoundMoves`), so as many
  rounds as entries, and one, are enough (`WalkSafe`, `WalkExact`).

### NrRlcUmProofs

- `TransmitListKept` (`TxListConsistent`) from `TxInv`, which adds that the ids of the
  SDUs in `tx_list` ascend: a node is then found where the code's pointer leads, and
  `discard_sdu` moves `tx_end` exactly when the last node goes. The buffer status is a
  sum over the list; `SumWithout` says what one entry more or less changes in it.
- `ReceiveWindowKept` (`WindowConsistent`) and `MissingIsTimed` (`GapTimed`, the first
  part of `GapHasTimer`) from `RxInv`. It adds that a running t_reassembly was started
  for an SN that is still inside the window or at its end; otherwise an expiry would
  take `rx_next_reassembly` out of the window. From the transmitter it needs only
  that the first segment, and no other, has offset 0: so an SDU that becomes full has
  an earlier segment that moved the window. `Pos` is the place of an SN in the window;
  `PosMoves` says how places change when the window moves, `FirstUndeliveredIs` that
  the search for the next SDU ends inside it.

These theorems use neither `Fresh` nor `LinkUp`: they hold on any link.

### NrL2ThreadsProofs

`L2Inv` says which lock each thread holds at each point of its code, and that a
queue holds what its head and length say (`L2Invariance`). From it:

- `DownlinkRefinement`, `UplinkRefinement`: every step of the threads is a step of
  `PduChannel` or leaves its variables alone, for any number of threads and any
  size of the queues.
- `CircleNeedsUplink`: unless a thread other than the consumer waits in the uplink
  queue (for room), nobody waits in a circle; the order of the locks excludes it.
- `NoDeadlock` (`NoCircularWait`): in every state in which one of the two queues has
  room, for any traffic and any sizes. The manager lock admits one producer at a time,
  so the signal of a consumer that makes room wakes the one that waits (`RoomInv`), and
  a producer waits only while its queue is full. `l2_deadlock` is the counterexample
  when both are full.

### NrDlHarqProofs

`DlInv`: the three lists divide the processes among them without repetition; the
fields of a process fit its list (`ProcOK`: `is_waiting`, `round`, and the NDI
against the one last sent); the PUCCH being filled has at most two bits (`SchedOK`),
and the indications in flight are well formed. `EachInOneList` alone is not
inductive: `nr_schedule_ue_spec` decides by `round` which list to remove the process
from, and `NdiTellsNewBlock` needs to know that a process in `retrans_dl_harq` was
sent with the NDI it has. The loops over UCI bits and over missed feedback are
handled by induction on the number of rounds (`LoopExists`, `FindInv`,
`HandleUciInv`). Theorems: `DlInvariance`, `EachProcessListed` (`EachInOneList`),
`NewBlocksTold` (`NdiTellsNewBlock`) and `AssertedWaiting` (the assertions on
`is_waiting` in `handle_nr_uci` and `nr_schedule_ue_spec`, and the two bits). They
hold whatever is lost, for any traffic, any PUCCH configuration and any number of
processes, also in the configurations in which `FeedbackForItsOwn` or the other
assertions fail.

### NrL1PipelineProofs, NrL1CountProofs

`PipeInv` says where the jobs, the answers and the messages of a slot can be in each
phase of the receiving job (`PipeInvariance`). From it:

- `OneIndication` (`IndicatedOnce`): at most one indication for a UE of a slot, and one
  for each whose decoding was not refused.
- `InOrderTransmission` (`TransmittedInOrder`): of the two transmission messages one
  is held back by the reorder thread while the other is the one it waits for; with
  a third message the argument, and the code, would fail.

`WaitInv` counts: what a caller waits for is what is queued, in work and answered.

- `LostOnlyByDanglingInF`: as long as `inF` is valid (`QueueIntact`), `NoJobLost`
  and `AbortCountsEach` hold. So the defect shown by `l1_lost_job` is the only way
  to lose a job.
- `JobsKept` (`NoJobLost`), `AbortsCounted` (`AbortCountsEach`): for every plan, in
  behaviours whose aborts are each a `SafeAbort`: the abort empties the queue, or the
  job pushed last is not one that it deletes. Uplink and downlink jobs may be mixed in
  the queue in any other way. An abort that is not safe is the one of `l1_lost_job`:
  it deletes the last job and leaves others, so that `inF` dangles.

### Induction

The induction theorems of the library take an operator as a parameter and cannot be
instantiated here. Induction on numbers is done over the set of the numbers for
which the claim holds (`NatInduct`, from the existence of a least element), which is
enough for loops and for the lengths of lists. A loop over a list is written as a
recursive function in a LET; `RecursionExists` of `SequenceLemmas` proves that such a
function exists, from the set of its finite beginnings, and gives its equations.

### Only model-checked

- `SegmentsCounted`, `AcknowledgedIsReceived`, `ListsOrdered` and `BufferAccounted` of
  `NrRlcAm`: `process_control_pdu` folds over the NACKs of a STATUS and, for each of
  them, over two lists that it takes apart and puts together again.
- The second part of `GapHasTimer` in `NrRlcUm` (no bytes wait before
  `rx_next_reassembly`): it depends on the link (`Fresh`, `LinkUp`), because a late
  segment of an SDU that was delivered would be kept.
- Refinement of `RlcService`.
- Liveness (`EventuallyAcknowledged`, `GapResolved`, `FeedbackEnds` and the others):
  out of the prover's reach.
- `TypeOK`, `FeedbackForItsOwn` and the other assertions of `NrDlHarq`: they depend
  on an occasion being found, that is, on the TDD pattern and the traffic, and are
  false for some values of the constants.

## Not modelled

Bit-level encoding of PDUs, cryptography, malformed PDUs, memory exhaustion, and
the components with status `not_modelled` in `PROJECT.json`, each with its reason.
The larger part of the repository is signal processing, ASN.1-driven protocol code,
the older LTE stack and generated code; there is no state machine in it that a
model checker would reach, or it follows the design of what is modelled.

## Plan

1. Present: PDCP entity, RLC AM and UM entities, layer 2 threads, downlink HARQ,
   slot pipeline; proofs for all of them but the transmitter of RLC AM.
2. Candidates for proofs: the lists of the RLC AM transmitter.
3. Candidates for models: uplink HARQ and random access, ITTI timers, SDAP
   remapping, X2AP handover timers.
