-------------------------------- MODULE NrPucch --------------------------------
(***************************************************************************)
(* Where the gNB expects the HARQ feedback of one UE                       *)
(* (gNB_scheduler_uci.c): the two PUCCHs of NR_UE_sched_ctrl_t that are    *)
(* being filled, sched_pucch[0] with HARQ bits and SR and sched_pucch[1]   *)
(* with CSI, and the ones handed to the PHY in UL_tti_req_ahead.           *)
(*                                                                         *)
(* An occasion is a slot of the SFN cycle, frame * SlotsPerFrame + slot.   *)
(* The operators work on a record of the variables of the scheduler:       *)
(*   pucch   sched_pucch[0]       vrb     the slots in which the resource  *)
(*   csi     sched_pucch[1]               of the UE is taken (vrb_map_UL)  *)
(*   ahead   UL_tti_req_ahead     failed  the assertions that failed       *)
(***************************************************************************)
EXTENDS Integers, Sequences

CONSTANTS
  SlotsPerFrame,
  Frames,              \* SFN cycle, 1024 in the code
  SlotsPerPeriod,      \* of the TDD pattern
  DownlinkSlots,       \* nrofDownlinkSlots, the first slots of a period
  MixedDownlink,       \* has the slot after them downlink symbols (nrofDownlinkSymbols # 0)
  MixedUplink,         \* has it uplink symbols (nrofUplinkSymbols # 0)
  MinFeedback,         \* minRXTXTIMEpdsch
  MaxFeedback,         \* the largest entry of pdsch_to_harq_feedback
  CsiFrames,           \* CSI is reported every CsiFrames frames, never if 0
  CsiSlot,
  CsiBits,             \* nr_get_csi_bitlen
  SimultaneousHarqCsi, \* simultaneousHARQ_ACK_CSI
  SrConfigured,        \* is there an SR resource
  SrPeriod, SrOffset,
  SrResource,          \* its place in the first resource set; HARQ bits are on the one at 0
  SrMatches            \* the formats of the UE's PDUs that have the symbols of the SR resource

\* MaxFeedback: the search for an occasion ends when it comes to an uplink slot that is
\* later; the delay is taken modulo the frame, so that without one it would never end.
ASSUME PucchAssumption ==
  /\ {SlotsPerFrame, Frames, SlotsPerPeriod, DownlinkSlots, MinFeedback} \subseteq Nat \ {0}
  /\ SlotsPerFrame % SlotsPerPeriod = 0 /\ DownlinkSlots < SlotsPerPeriod
  /\ MaxFeedback \in MinFeedback .. (SlotsPerFrame - DownlinkSlots - 2)
  /\ CsiFrames \in Nat /\ CsiSlot \in DownlinkSlots .. (SlotsPerFrame - 1)
  /\ {CsiBits, SrPeriod} \subseteq Nat \ {0} /\ {SrOffset, SrResource} \subseteq Nat
  /\ SrMatches \subseteq {"harq", "csi"} /\ (SrResource = 0 => "harq" \in SrMatches)
  /\ {MixedDownlink, MixedUplink, SimultaneousHarqCsi, SrConfigured} \subseteq BOOLEAN

Cycle == Frames * SlotsPerFrame
Occasions == 0 .. (Cycle - 1)
Slot(o) == o % SlotsPerFrame
Frame(o) == o \div SlotsPerFrame
At(frame, slot) == frame * SlotsPerFrame + slot
IsDownlink(o) == Slot(o) % SlotsPerPeriod < DownlinkSlots + (IF MixedDownlink THEN 1 ELSE 0)
IsUplink(o) == Slot(o) % SlotsPerPeriod >= DownlinkSlots + (IF MixedUplink THEN 0 ELSE 1)
Tick(o) == (o + 1) % Cycle

NoPucch == [at |-> 0, dai_c |-> 0, sr_flag |-> FALSE]
NoCsi == [at |-> 0, dai_c |-> 0, bits |-> 0]

---------------------------------------------------------------------------
NextUplink(o) ==
  LET s == Slot(o) IN
  At(IF s = SlotsPerFrame - 1 THEN (Frame(o) + 1) % Frames ELSE Frame(o),
     IF (s + 1) % SlotsPerPeriod = 0 THEN (s + 1 + DownlinkSlots) % SlotsPerFrame
                                     ELSE (s + 1) % SlotsPerFrame)

Delay(now, o) == (SlotsPerFrame + Slot(o) - Slot(now)) % SlotsPerFrame
Signalled(now, o) == Delay(now, o) \in MinFeedback .. MaxFeedback

SameSlot(csi, o) == csi.bits > 0 /\ csi.at = o
\* "currently we support at most 11 bits in pucch2"
MaxUciBits == 11
Multiplexed(csi) == SimultaneousHarqCsi /\ csi.bits + csi.dai_c < MaxUciBits
Check(st, holds, what) == [st EXCEPT !.failed = IF holds THEN @ ELSE @ \cup {what}]

\* nr_fill_nfapi_pucch asserts that the entry of UL_tti_req_ahead is the one of the frame;
\* the entries cover the frame that begins now.
Fill(st, now, pdu) ==
  Check([st EXCEPT !.ahead[Slot(pdu.at)] = Append(@, [format |-> pdu.format, dai_c |-> pdu.dai_c])],
        (pdu.at - now) % Cycle < SlotsPerFrame, "UL_tti_req_ahead")
Harq(pucch) == [at |-> pucch.at, dai_c |-> pucch.dai_c, format |-> "harq"]
Csi(csi) == [at |-> csi.at, dai_c |-> csi.dai_c, format |-> "csi"]
FillUnlessCsi(st, now) ==
  IF SameSlot(st.csi, st.pucch.at) THEN st ELSE Fill(st, now, Harq(st.pucch))
FillCsi(st, now) == [Fill(st, now, Csi(st.csi)) EXCEPT !.csi = NoCsi]
MoveTo(st, o) == [st EXCEPT !.pucch = [NoPucch EXCEPT !.at = o]]

\* Mutant: the full PUCCH is not handed to the PHY.
MakeRoomUnfilled(st, now) ==
  IF st.pucch.dai_c # 2 THEN st ELSE MoveTo(st, NextUplink(st.pucch.at))
\* "if the currently allocated PUCCH of this UE is full, allocate it"
MakeRoom(st, now) ==
  LET next == NextUplink(st.pucch.at)
      filled == FillUnlessCsi(st, now) IN
  IF st.pucch.dai_c # 2 THEN st
  ELSE IF SameSlot(st.csi, next) /\ ~SimultaneousHarqCsi
       THEN MoveTo(FillCsi(filled, now), NextUplink(next))
       ELSE MoveTo(filled, next)

AddBit(st) ==
  [st EXCEPT !.pucch.dai_c = @ + 1,
             !.csi.dai_c = IF SameSlot(st.csi, st.pucch.at) THEN @ + 1 ELSE @]

\* test_acknack_vrb_occupation; others: slots in which another user has the resource
Free(st, others, o) ==
  \/ SameSlot(st.csi, o) /\ Multiplexed(st.csi)
  \/ Slot(o) \notin st.vrb \cup others

Outdated(now, pucch) == pucch.at = 0 \/ pucch.at < now
FirstUplink(now) ==
  At(Frame(now), DownlinkSlots + SlotsPerPeriod * (Slot(now) \div SlotsPerPeriod))
Renew(st, now) ==
  IF Outdated(now, st.pucch)
  THEN [Check(st, ~st.pucch.sr_flag, "expected no SR/AckNack") EXCEPT !.pucch.at = FirstUplink(now)]
  ELSE st

\* The search goes from one uplink slot to the next until one fits or is too late.
Search(st, now, others) ==
  LET begin == Renew(st, now)
      seen[k \in 0 .. SlotsPerFrame] == IF k = 0 THEN begin.pucch.at ELSE NextUplink(seen[k - 1])
      fits(o) == Free(begin, others, o) /\ Signalled(now, o)
      ends(k) == Delay(now, seen[k]) > MaxFeedback \/ fits(seen[k])
      last == CHOOSE k \in 0 .. SlotsPerFrame : ends(k) /\ \A j \in 0 .. (k - 1) : ~ends(j)
      at == seen[last] IN
  [st |-> [begin EXCEPT !.pucch.at = at], found |-> Delay(now, at) <= MaxFeedback]

\* Takes the occasion that was found; a CSI report in the same slot either carries the bit
\* too or is handed to the PHY, and the bit goes to a later slot.
Find(st, now, others) ==
  LET r == Search(st, now, others)
      at == r.st.pucch.at
      shared == SameSlot(r.st.csi, at)
      both == shared /\ Multiplexed(r.st.csi)
      later == Search(MoveTo(FillCsi(r.st, now), NextUplink(at)), now, others)
      took(s) == [st |-> [AddBit(s) EXCEPT !.vrb = IF both THEN @ ELSE @ \cup {Slot(s.pucch.at)}],
                  found |-> TRUE] IN
  IF ~r.found THEN r
  ELSE IF shared /\ ~both THEN IF later.found THEN took(later.st) ELSE later
  ELSE took(r.st)

\* Finds the occasion for one more bit.
nr_acknack_scheduling(st, now, others) ==
  LET room == MakeRoom(st, now) IN
  IF room.pucch.dai_c = 0 THEN Find(room, now, others)
  ELSE IF Signalled(now, room.pucch.at) THEN [st |-> AddBit(room), found |-> TRUE]
  ELSE Find(MoveTo(FillUnlessCsi(room, now), NextUplink(room.pucch.at)), now, others)

---------------------------------------------------------------------------
\* clear_nr_nfapi_information and the clearing of vrb_map_UL: the entry of the last slot
\* becomes the one of the next frame.
NewSlot(st, now) ==
  LET last == (Slot(now) + SlotsPerFrame - 1) % SlotsPerFrame IN
  [st EXCEPT !.ahead[last] = <<>>, !.vrb = @ \ {last}]

CsiFrame(o) == CsiFrames > 0 /\ Frame(o) % CsiFrames = 0
CsiDue(o) == Slot(o) = 0 /\ CsiFrame(o)
\* paused: rrc_processing_timer runs, or the uplink has failed; taken: another user has the
\* resource blocks of the report (those of the HARQ bits are others), which is then left out
nr_csi_meas_reporting(st, now, paused, taken) ==
  IF paused \/ ~CsiDue(now) THEN st
  ELSE [Check(st, st.csi.bits = 0 /\ st.csi.dai_c = 0, "PUCCH not free at index 1")
          EXCEPT !.csi = IF taken THEN NoCsi
                         ELSE [at |-> At(Frame(now), CsiSlot), dai_c |-> 0, bits |-> CsiBits]]

\* Mutant: the PUCCH that was handed over is kept.
SchedulePucchKept(st, now) ==
  IF IsUplink(now) /\ st.pucch.at = now /\ (st.pucch.dai_c > 0 \/ st.pucch.sr_flag)
  THEN Fill(st, now, Harq(st.pucch)) ELSE st
nr_schedule_pucch(st, now) ==
  LET harq == IF st.pucch.at = now /\ (st.pucch.dai_c > 0 \/ st.pucch.sr_flag)
              THEN [Fill(st, now, Harq(st.pucch)) EXCEPT !.pucch = NoPucch] ELSE st IN
  IF ~IsUplink(now) THEN st
  ELSE IF SameSlot(harq.csi, now) THEN FillCsi(harq, now) ELSE harq

SrDue(o) == SrConfigured /\ IsUplink(o) /\ (o - SrOffset) % SrPeriod = 0
\* A PDU of the slot that the SR is added to.
SrAllocated(pdus) == \E i \in DOMAIN pdus : pdus[i].format \in SrMatches
\* The PUCCH being filled, if it is for this slot, gets the SR, else a PDU of its own.
nr_sr_reporting(st, now, paused) ==
  IF paused \/ ~SrDue(now) \/ SrAllocated(st.ahead[Slot(now)]) THEN st
  ELSE IF st.pucch.at # now THEN Fill(st, now, Harq([NoPucch EXCEPT !.at = now]))
  ELSE IF SrResource # 0 THEN st
  ELSE [st EXCEPT !.pucch.sr_flag = TRUE]
=============================================================================
