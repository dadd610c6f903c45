-------------------------------- MODULE NrDlHarq --------------------------------
(***************************************************************************)
(* The downlink HARQ processes of one UE in the MAC of the gNB             *)
(* (gNB_scheduler_dlsch.c, gNB_scheduler_uci.c): three lists of processes, *)
(* the transmission of new and of repeated transport blocks slot by slot,  *)
(* the PUCCH occasions (NrPucch) and the feedback, which names no process: *)
(* it is recognised by its slot and by the order of its bits only.         *)
(*                                                                         *)
(* A slot is one call of gNB_dlsch_ulsch_scheduler.  The UE, the PHY and   *)
(* the way of a UCI indication to the MAC, which may lose or delay it, are *)
(* external.                                                               *)
(***************************************************************************)
EXTENDS NrPucch, SequencesExt

CONSTANTS
  NrofHARQ,        \* nrofHARQ_ProcessesForPDSCH
  HarqRoundMax,    \* harq_round_max
  OtherUsers,      \* sets of slots in which another user may have the PUCCH resource
  UciDelay,        \* bound: slots until a UCI indication is handled or lost
  MaxIdle,         \* bound: downlink slots in a row without a block for the UE
  MaxLost          \* bound: UCI indications lost in a row

ASSUME HarqAssumption ==
  /\ {NrofHARQ, HarqRoundMax} \subseteq Nat \ {0}
  /\ {UciDelay, MaxIdle, MaxLost} \subseteq Nat
  /\ UciDelay + MaxFeedback < Cycle

Pids == 1 .. NrofHARQ
None == 0

VARIABLES
  now,      \* frame and slot
  lists,    \* available_dl_harq, feedback_dl_harq, retrans_dl_harq
  procs,    \* harq_processes: round, ndi, feedback frame and slot, is_waiting
  sched,    \* sched_pucch, UL_tti_req_ahead, vrb_map_UL (see NrPucch)
  reports,  \* UE: the processes it reports in a slot, in the order of the DCIs
  sent,     \* history: the NDI of the last transmission of a process
  idle,     \* downlink slots in a row in which nothing was sent
  uci,      \* UCI indications on their way
  lost,     \* number of UCI indications lost since one was handled
  misread   \* history: feedback was not applied to its process

vars == <<now, lists, procs, sched, reports, sent, idle, uci, lost, misread>>

NoFeedback == -1
Init ==
  /\ now = 0
  /\ lists = [available |-> [p \in Pids |-> p], feedback |-> <<>>, retrans |-> <<>>]
  /\ procs = [p \in Pids |-> [round |-> 0, ndi |-> 0, feedback |-> NoFeedback, is_waiting |-> FALSE]]
  /\ sched = [pucch |-> NoPucch, csi |-> NoCsi, vrb |-> {}, failed |-> {},
              ahead |-> [s \in 0 .. (SlotsPerFrame - 1) |-> <<>>]]
  /\ reports = [s \in 0 .. (SlotsPerFrame - 1) |-> <<>>]
  /\ sent = [p \in Pids |-> None - 1]
  /\ idle = 0 /\ uci = <<>> /\ lost = 0 /\ misread = FALSE

---------------------------------------------------------------------------
(* Feedback.  h is a record of lists and procs.                            *)

Release(h, p) ==
  [h EXCEPT !.lists.available = Append(@, p),
            !.procs[p].round = 0,
            !.procs[p].ndi = 1 - @]
\* Mutant: a new block is sent as a repetition of the aborted one.
AbortSameNdi(h, p) == [h EXCEPT !.lists.available = Append(@, p), !.procs[p].round = 0]
abort_nr_dl_harq(h, p) == Release(h, p)

\* Mutant: one round too many.
HandleOneMore(h, p, success) ==
  LET r == [h EXCEPT !.procs[p].feedback = NoFeedback, !.procs[p].is_waiting = FALSE] IN
  IF success THEN Release(r, p)
  ELSE IF h.procs[p].round >= HarqRoundMax THEN abort_nr_dl_harq(r, p)
  ELSE [r EXCEPT !.lists.retrans = Append(@, p), !.procs[p].round = @ + 1]
handle_dl_harq(h, p, success) ==
  LET r == [h EXCEPT !.procs[p].feedback = NoFeedback, !.procs[p].is_waiting = FALSE] IN
  IF success THEN Release(r, p)
  ELSE IF h.procs[p].round >= HarqRoundMax - 1 THEN abort_nr_dl_harq(r, p)
  ELSE [r EXCEPT !.lists.retrans = Append(@, p), !.procs[p].round = @ + 1]

RemoveFront(h) == [h EXCEPT !.lists.feedback = Tail(@)]

\* "old feedbacks we missed": of another frame, or of an earlier slot of this one
\* Mutant: what was missed in an earlier frame is not recognised.
PastSameFrame(h, p, at) ==
  Frame(h.procs[p].feedback) = Frame(at) /\ Slot(h.procs[p].feedback) < Slot(at)
Past(h, p, at) ==
  \/ Frame(h.procs[p].feedback) # Frame(at)
  \/ Slot(h.procs[p].feedback) < Slot(at)

\* The process at the head of feedback_dl_harq once those in the past were given up, or
\* None when its feedback is in the future.
find_harq(h, at) ==
  LET fb == h.lists.feedback
      old == CHOOSE k \in 0 .. Len(fb) :
               /\ \A j \in 1 .. k : Past(h, fb[j], at)
               /\ k < Len(fb) => ~Past(h, fb[k + 1], at)
      skip[k \in 0 .. old] == IF k = 0 THEN h ELSE handle_dl_harq(RemoveFront(skip[k - 1]), fb[k], FALSE) IN
  [h |-> skip[old],
   pid |-> IF old = Len(fb) THEN None
           ELSE IF Slot(h.procs[fb[old + 1]].feedback) > Slot(at) THEN None
           ELSE fb[old + 1]]

\* One harq bit of the UCI: the loop ends at the first bit for which no process is found.
\* An ACK that is not for the process it is given to, or that is ignored, is misread.
ApplyBit(u, bit, at) ==
  LET f == find_harq(u.h, at) IN
  IF u.stop THEN [u EXCEPT !.misread = @ \/ bit.ack]
  ELSE IF f.pid = None THEN [u EXCEPT !.h = f.h, !.stop = TRUE, !.misread = @ \/ bit.ack]
  ELSE [h |-> handle_dl_harq(RemoveFront(f.h), f.pid, bit.ack),
        stop |-> FALSE,
        waited |-> u.waited /\ f.h.procs[f.pid].is_waiting,
        misread |-> u.misread \/ (bit.pid # None /\ bit.pid # f.pid)]

handle_nr_uci(ind) ==
  LET begin == [h |-> [lists |-> lists, procs |-> procs], stop |-> FALSE,
                waited |-> TRUE, misread |-> misread]
      after[i \in 0 .. Len(ind.bits)] ==
        IF i = 0 THEN begin ELSE ApplyBit(after[i - 1], ind.bits[i], ind.at) IN
  after[Len(ind.bits)]

Arrive == uci # <<>> /\ uci' = Tail(uci)

HandleUci ==
  /\ Arrive
  /\ LET u == handle_nr_uci(Head(uci)) IN
     /\ lists' = u.h.lists /\ procs' = u.h.procs /\ misread' = u.misread
     /\ sched' = Check(sched, u.waited, "is_waiting")
  /\ lost' = 0
  /\ UNCHANGED <<now, reports, sent, idle>>

\* External: a slot the PHY could not process, an nFAPI message that was lost
LoseUci ==
  /\ Arrive /\ lost < MaxLost
  /\ lost' = lost + 1
  /\ UNCHANGED <<now, lists, procs, sched, reports, sent, idle, misread>>

---------------------------------------------------------------------------
(* Slots.                                                                  *)

\* A UCI indication is not on its way for longer than UciDelay.
InTime == uci # <<>> => (now - Head(uci).at) % Cycle < UciDelay
Advance == InTime /\ now' = Tick(now)

\* What else a slot may meet, where the code looks at it: the UE is paused, the resource of
\* the CSI report is taken.
Conditions ==
  [paused : {FALSE} \cup {CsiDue(now) \/ SrDue(now)}, taken : {FALSE} \cup {CsiDue(now)}]

Begin(c) == nr_csi_meas_reporting(NewSlot(sched, now), now, c.paused, c.taken)

\* The UE sends the bits for this slot on the PUCCH with CSI when it has to report CSI and
\* may do both at once, else on the other one; the PHY gives a bit for every bit the MAC
\* has announced, NACK where it receives nothing.
UeUsesCsi == SimultaneousHarqCsi /\ CsiFrame(now) /\ Slot(now) = CsiSlot
Bits(pdu, acks) ==
  [i \in 1 .. pdu.dai_c |->
     IF (pdu.format = "csi") = UeUsesCsi /\ i \in DOMAIN acks
     THEN [pid |-> reports[Slot(now)][i], ack |-> acks[i]]
     ELSE [pid |-> None, ack |-> FALSE]]
Indications(pdus, acks) ==
  LET ind[j \in 0 .. Len(pdus)] ==
        IF j = 0 THEN <<>>
        ELSE IF pdus[j].dai_c > 0 THEN Append(ind[j - 1], [at |-> now, bits |-> Bits(pdus[j], acks)])
        ELSE ind[j - 1] IN
  ind[Len(pdus)]

Announced(pdus) ==
  \/ reports[Slot(now)] = <<>>
  \/ \E j \in DOMAIN pdus :
       (pdus[j].format = "csi") = UeUsesCsi /\ pdus[j].dai_c = Len(reports[Slot(now)])

\* The end of every slot: st is the state of the scheduler after the downlink, asked are
\* the reports asked of the UE.  What is due in this slot is announced, sent and received.
End(c, st, asked) ==
  /\ Advance
  /\ sched' = nr_sr_reporting(nr_schedule_pucch(st, now), now, c.paused)
  /\ \E acks \in [DOMAIN reports[Slot(now)] -> BOOLEAN] :
       uci' = uci \o Indications(sched'.ahead[Slot(now)], acks)
  /\ misread' = (misread \/ ~Announced(sched'.ahead[Slot(now)]))
  /\ reports' = [asked EXCEPT ![Slot(now)] = <<>>]
  /\ UNCHANGED lost

\* No data, or no CCE or RBs, for at most MaxIdle downlink slots in a row
NothingToSend == lists.available = <<>> /\ lists.retrans = <<>>
DownlinkIdle(c) ==
  /\ IsDownlink(now)
  /\ \/ NothingToSend /\ UNCHANGED idle
     \/ idle < MaxIdle /\ idle' = idle + 1
  /\ End(c, Begin(c), reports)
  /\ UNCHANGED <<lists, procs, sent>>

\* The UE reports fewer layers than the block has (allocate_dl_retransmission).
DownlinkAbort(c) ==
  /\ IsDownlink(now) /\ lists.retrans # <<>> /\ idle < MaxIdle
  /\ LET h == abort_nr_dl_harq([lists |-> lists, procs |-> procs], Head(lists.retrans)) IN
     lists' = [h.lists EXCEPT !.retrans = Tail(@)] /\ procs' = h.procs
  /\ idle' = idle + 1
  /\ End(c, Begin(c), reports)
  /\ UNCHANGED sent

remove_nr_list(list, p) == RemoveAt(list, CHOOSE i \in DOMAIN list : list[i] = p)

\* nr_schedule_ue_spec: p leaves the list it is in according to its round.
\* Mutant: repetitions stay in the list.
TakeOnlyNew(p) ==
  [lists EXCEPT !.available = IF procs[p].round = 0 THEN remove_nr_list(@, p) ELSE @,
                !.feedback = Append(@, p)]
Take(p) ==
  [lists EXCEPT !.available = IF procs[p].round = 0 THEN remove_nr_list(@, p) ELSE @,
                !.retrans = IF procs[p].round = 0 THEN @ ELSE remove_nr_list(@, p),
                !.feedback = Append(@, p)]

nr_schedule_ue_spec(c, p, r) ==
  LET at == r.st.pucch.at
      ue == (now + Delay(now, at)) % SlotsPerFrame IN
  /\ lists' = Take(p)
  /\ procs' = [procs EXCEPT ![p].feedback = at, ![p].is_waiting = TRUE]
  /\ sent' = [sent EXCEPT ![p] = procs[p].ndi]
  /\ End(c, Check(r.st, ~procs[p].is_waiting, "is_waiting"), [reports EXCEPT ![ue] = Append(@, p)])

\* pf_dl and allocate_dl_retransmission leave the UE out when there is no PUCCH occasion.
Transmit(c, p) ==
  /\ IsDownlink(now)
  /\ \E others \in OtherUsers :
       LET r == nr_acknack_scheduling(Begin(c), now, others) IN
       /\ others = {} \/ idle < MaxIdle
       /\ \/ r.found /\ idle' = 0 /\ nr_schedule_ue_spec(c, p, r)
          \/ /\ ~r.found /\ idle' = Min({idle + 1, MaxIdle})
             /\ End(c, r.st, reports) /\ UNCHANGED <<lists, procs, sent>>

DownlinkRetransmit(c) == lists.retrans # <<>> /\ Transmit(c, Head(lists.retrans))
DownlinkNew(c) ==
  /\ lists.retrans = <<>> /\ lists.available # <<>>
  /\ Transmit(c, Head(lists.available))

\* A slot without downlink
Uplink(c) ==
  /\ ~IsDownlink(now)
  /\ End(c, Begin(c), reports)
  /\ UNCHANGED <<lists, procs, sent, idle>>

NextSlot ==
  \E c \in Conditions :
    DownlinkIdle(c) \/ DownlinkAbort(c) \/ DownlinkRetransmit(c) \/ DownlinkNew(c) \/ Uplink(c)
Next == HandleUci \/ LoseUci \/ NextSlot

Spec == Init /\ [][Next]_vars

\* The scheduler is called in every slot, and every indication is handled or lost.
FairSpec == Spec /\ WF_now(Advance) /\ WF_uci(Arrive)

---------------------------------------------------------------------------
PucchOk(pucch) == pucch.at \in Occasions /\ pucch.dai_c \in 0 .. 2 /\ pucch.sr_flag \in BOOLEAN

\* The lists hold processes, the fields of processes and PUCCHs are in their ranges.
TypeOK ==
  /\ now \in Occasions
  /\ lists \in [{"available", "feedback", "retrans"} -> Seq(Pids)]
  /\ procs \in [Pids -> [round : 0 .. (HarqRoundMax - 1), ndi : {0, 1},
                         feedback : Occasions \cup {NoFeedback}, is_waiting : BOOLEAN]]
  /\ PucchOk(sched.pucch) /\ sched.csi.at \in Occasions /\ sched.csi.dai_c \in Nat
  /\ sent \in [Pids -> {-1, 0, 1}] /\ misread \in BOOLEAN

\* Each process is in exactly one of the three lists, once; it waits for feedback exactly
\* when it is in feedback_dl_harq, and its round says which of the other two it is in,
\* which is what nr_schedule_ue_spec goes by when it removes it.
EachInOneList ==
  LET all == lists.available \o lists.feedback \o lists.retrans IN
  /\ Len(all) = NrofHARQ /\ ToSet(all) = Pids
  /\ \A p \in Pids : procs[p].is_waiting <=> p \in ToSet(lists.feedback)
  /\ \A p \in ToSet(lists.available) : procs[p].round = 0
  /\ \A p \in ToSet(lists.retrans) : procs[p].round > 0

\* The NDI a process will be sent with differs from the one it was last sent with exactly
\* when the block is new, so that the UE never combines two blocks, whatever feedback was
\* lost and however a block was given up.
NdiTellsNewBlock ==
  \A p \in Pids : sent[p] # -1 =>
    (procs[p].ndi # sent[p] <=> p \in ToSet(lists.available))

\* Feedback reaches the process it is for: the PHY is told to receive every bit the UE
\* sends, no bit is given to another process, and no ACK is ignored, although a bit is
\* known only by its slot and its place, indications are lost and late, and the SFN wraps.
FeedbackForItsOwn == ~misread

\* The assertions of find_harq's callers, nr_schedule_ue_spec, nr_fill_nfapi_pucch,
\* nr_acknack_scheduling and nr_csi_meas_reporting hold.
AssertionsHold == sched.failed = {}

\* A process does not wait for feedback for ever, although its feedback may be lost: the
\* feedback of a later block makes find_harq give it up.
FeedbackEnds == \A p \in Pids : procs[p].is_waiting ~> ~procs[p].is_waiting
=============================================================================
