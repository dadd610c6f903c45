------------------------------ MODULE NrL2Threads ------------------------------
(***************************************************************************)
(* The threads of layer 2 of a monolithic NR node, around the locks of the *)
(* PDCP and of the RLC UE manager (nr_pdcp_oai_api.c, nr_rlc_oai_api.c):   *)
(*   - GTP and TUN threads send downlink SDUs through PDCP (pdcp_data_req),*)
(*     which puts PDUs into the queue q while it holds the PDCP lock;      *)
(*   - the "RLC queue" thread takes them out and gives them to RLC;        *)
(*   - MAC threads give uplink PDUs to RLC (mac_rlc_data_ind), which puts  *)
(*     SDUs into the queue pq while it holds the RLC lock;                 *)
(*   - the "PDCP data ind" thread takes them out and gives them to PDCP;   *)
(*   - the PDCP timer thread, woken by the tick of the MAC scheduler;      *)
(*   - RRC adds and removes UEs.                                           *)
(*                                                                         *)
(* An action is a critical section, or what a thread does from taking a    *)
(* lock to releasing it when it does not wait in between; releasing a lock *)
(* is part of the step before it.                                          *)
(***************************************************************************)
EXTENDS Integers, Sequences, FiniteSets, SequencesExt

CONSTANTS
  Ues,               \* RNTIs; each is added and removed once
  GtpThreads,        \* threads that call pdcp_data_req for a UE they know
  TunThreads,        \* enb_tun_read_thread: calls pdcp_data_req for the first UE
  MacThreads,        \* threads that call mac_rlc_data_ind
  RlcQueueSize,      \* RLC_DATA_REQ_QUEUE_SIZE
  PdcpQueueSize,     \* PDCP_DATA_IND_QUEUE_SIZE
  MaxSdusPerPdu,     \* SDUs one call of recv_pdu completes
  MaxDownlink,       \* bound: number of downlink SDUs
  MaxUplink,         \* bound: number of uplink SDUs
  MaxTicks           \* bound: number of ticks

ASSUME SizeAssumption ==
  /\ {RlcQueueSize, PdcpQueueSize, MaxSdusPerPdu} \subseteq Nat \ {0}
  /\ {MaxDownlink, MaxUplink, MaxTicks} \subseteq Nat

RlcQueueThread == "rlc_data_req_thread"
PdcpQueueThread == "pdcp_data_ind_thread"
TimerThread == "nr_pdcp_timer_thread"
None == "none"
Producers == GtpThreads \cup TunThreads \cup MacThreads
Threads == Producers \cup {RlcQueueThread, PdcpQueueThread, TimerThread}

ASSUME ThreadAssumption ==
  /\ Producers \cap {RlcQueueThread, PdcpQueueThread, TimerThread, None} = {}
  /\ MacThreads \cap (GtpThreads \cup TunThreads) = {}

Q == INSTANCE L2Queue WITH Size <- RlcQueueSize
PQ == INSTANCE L2Queue WITH Size <- PdcpQueueSize

VARIABLES
  pdcp,      \* nr_pdcp_ue_manager: lock, ue_list, and the UEs that have a bearer
  rlc,       \* nr_rlc_ue_manager, the same
  q,         \* from PDCP to RLC
  pq,        \* from RLC to PDCP
  th,        \* where each thread is, the UE it works for and a number
  stage,     \* how far RRC is with each UE
  time,      \* timer_thread_curtime, the timer thread's curtime, is it waiting
  downlink,  \* history: what PDCP sent to RLC and what RLC got
  uplink     \* history: what RLC sent to PDCP and what PDCP got

vars == <<pdcp, rlc, q, pq, th, stage, time, downlink, uplink>>

NoUe == "no_ue"
NoPdu == <<NoUe, 0>>
Pdu(ue, n) == <<ue, n>>
Idle == [pc |-> "idle", ue |-> NoUe, n |-> 0]
At(t, pc) == th[t].pc = pc
NoTraffic == [sent |-> <<>>, handed |-> <<>>]

Init ==
  /\ pdcp = [lock |-> None, ue_list |-> <<>>, bearers |-> {}]
  /\ rlc = [lock |-> None, ue_list |-> <<>>, bearers |-> {}]
  /\ q = Q!Empty(NoPdu) /\ pq = PQ!Empty(NoPdu)
  /\ th = [t \in Threads |-> Idle]
  /\ stage = [ue \in Ues |-> "new"]
  /\ time = [now |-> 0, curtime |-> 0, waiting |-> FALSE, applied |-> 0]
  /\ downlink = NoTraffic /\ uplink = NoTraffic

---------------------------------------------------------------------------
(* The UE managers.  A UE that is not in the list gets a context.          *)

manager_get_ue(m, ue) ==
  IF ue \in ToSet(m.ue_list) THEN m ELSE [m EXCEPT !.ue_list = Append(@, ue)]

manager_remove_ue(m, ue) ==
  [m EXCEPT !.ue_list = SelectSeq(@, LAMBDA u : u # ue), !.bearers = @ \ {ue}]

add_bearer(m, ue) ==
  LET m1 == manager_get_ue(m, ue) IN [m1 EXCEPT !.bearers = @ \cup {ue}]

\* RRC handles one UE after the other: PDCP, then RLC is configured; RLC, then PDCP
\* is removed.
Configuring == \E ue \in Ues : stage[ue] \in {"adding", "removing"}

ConfigurePdcp(ue) ==
  /\ stage[ue] = "new" /\ ~Configuring
  /\ pdcp.lock = None /\ pdcp' = add_bearer(pdcp, ue)
  /\ stage' = [stage EXCEPT ![ue] = "adding"]
  /\ UNCHANGED <<rlc, q, pq, th, time, downlink, uplink>>

ConfigureRlc(ue) ==
  /\ stage[ue] = "adding"
  /\ rlc.lock = None /\ rlc' = add_bearer(rlc, ue)
  /\ stage' = [stage EXCEPT ![ue] = "active"]
  /\ UNCHANGED <<pdcp, q, pq, th, time, downlink, uplink>>

rrc_rlc_remove_ue(ue) ==
  /\ stage[ue] = "active" /\ ~Configuring
  /\ rlc.lock = None /\ rlc' = manager_remove_ue(rlc, ue)
  /\ stage' = [stage EXCEPT ![ue] = "removing"]
  /\ UNCHANGED <<pdcp, q, pq, th, time, downlink, uplink>>

pdcp_remove_UE(ue) ==
  /\ stage[ue] = "removing"
  /\ pdcp.lock = None /\ pdcp' = manager_remove_ue(pdcp, ue)
  /\ stage' = [stage EXCEPT ![ue] = "removed"]
  /\ UNCHANGED <<rlc, q, pq, th, time, downlink, uplink>>

---------------------------------------------------------------------------
(* Downlink *)

\* The TUN thread reads the first RNTI and gives up the lock before it uses it.
ReadTun(t) ==
  /\ At(t, "idle") /\ Len(downlink.sent) < MaxDownlink
  /\ pdcp.lock = None /\ pdcp.ue_list # <<>>
  /\ th' = [th EXCEPT ![t] = [pc |-> "request", ue |-> Head(pdcp.ue_list), n |-> 0]]
  /\ UNCHANGED <<pdcp, rlc, q, pq, stage, time, downlink, uplink>>

\* recv_sdu numbers the SDU and calls deliver_pdu, all under the PDCP lock.
pdcp_data_req(t, ue) ==
  /\ pdcp.lock = None
  /\ LET m == manager_get_ue(pdcp, ue) IN
       IF ue \in m.bearers
       THEN /\ pdcp' = [m EXCEPT !.lock = t]
            /\ th' = [th EXCEPT ![t] = [pc |-> "enqueue", ue |-> ue, n |-> Len(downlink.sent) + 1]]
            /\ downlink' = [downlink EXCEPT !.sent = Append(@, Pdu(ue, Len(@) + 1))]
       ELSE pdcp' = m /\ th' = [th EXCEPT ![t] = Idle] /\ UNCHANGED downlink
  /\ UNCHANGED <<rlc, q, pq, stage, time, uplink>>

GtpRequest(t) ==
  /\ At(t, "idle") /\ Len(downlink.sent) < MaxDownlink
  /\ \E ue \in {u \in Ues : stage[u] # "new"} : pdcp_data_req(t, ue)

TunRequest(t) ==
  At(t, "request") /\ Len(downlink.sent) < MaxDownlink /\ pdcp_data_req(t, th[t].ue)

enqueue_rlc_data_req(t) ==
  /\ At(t, "enqueue") /\ t \notin q.waiting
  /\ IF Q!Full(q)
     THEN q' = Q!Wait(q, t) /\ UNCHANGED <<pdcp, th>>
     ELSE /\ q' \in Q!Signal(Q!Put(q, Pdu(th[t].ue, th[t].n)))
          /\ pdcp' = [pdcp EXCEPT !.lock = None] /\ th' = [th EXCEPT ![t] = Idle]
  /\ UNCHANGED <<rlc, pq, stage, time, downlink, uplink>>

\* rlc_data_req_thread: read the start of the queue; process that slot without the
\* queue's mutex; take it out.
RlcThreadWaits ==
  /\ At(RlcQueueThread, "idle") /\ RlcQueueThread \notin q.waiting
  /\ IF q.length = 0 THEN q' = Q!Wait(q, RlcQueueThread) /\ UNCHANGED th
     ELSE th' = [th EXCEPT ![RlcQueueThread] = [pc |-> "request", ue |-> NoUe, n |-> q.start]] /\ UNCHANGED q
  /\ UNCHANGED <<pdcp, rlc, pq, stage, time, downlink, uplink>>

rlc_data_req ==
  /\ At(RlcQueueThread, "request") /\ rlc.lock = None
  /\ LET pdu == q.q[th[RlcQueueThread].n] IN
       /\ rlc' = manager_get_ue(rlc, pdu[1])
       /\ downlink' = [downlink EXCEPT !.handed = Append(@, pdu)]
  /\ th' = [th EXCEPT ![RlcQueueThread].pc = "remove"]
  /\ UNCHANGED <<pdcp, q, pq, stage, time, uplink>>

\* Mutant: nobody is told that there is room.
RlcThreadRemovesSilently ==
  /\ At(RlcQueueThread, "remove")
  /\ q' = Q!Remove(q) /\ th' = [th EXCEPT ![RlcQueueThread] = Idle]
  /\ UNCHANGED <<pdcp, rlc, pq, stage, time, downlink, uplink>>
RlcThreadRemoves ==
  /\ At(RlcQueueThread, "remove")
  /\ q' \in Q!Signal(Q!Remove(q)) /\ th' = [th EXCEPT ![RlcQueueThread] = Idle]
  /\ UNCHANGED <<pdcp, rlc, pq, stage, time, downlink, uplink>>

---------------------------------------------------------------------------
(* Uplink *)

\* recv_pdu completes some SDUs and calls deliver_sdu for each, under the RLC lock.
mac_rlc_data_ind(t, ue, count) ==
  /\ At(t, "idle") /\ rlc.lock = None
  /\ stage[ue] # "new" /\ Len(uplink.sent) + count <= MaxUplink
  /\ LET m == manager_get_ue(rlc, ue) IN
       IF ue \in m.bearers
       THEN /\ rlc' = [m EXCEPT !.lock = t]
            /\ th' = [th EXCEPT ![t] = [pc |-> "deliver", ue |-> ue, n |-> count]]
       ELSE rlc' = m /\ UNCHANGED th
  /\ UNCHANGED <<pdcp, q, pq, stage, time, downlink, uplink>>

\* deliver_sdu calls pdcp_data_ind, which is enqueue_pdcp_data_ind.
deliver_sdu(t) ==
  /\ At(t, "deliver") /\ t \notin pq.waiting
  /\ IF PQ!Full(pq)
     THEN pq' = PQ!Wait(pq, t) /\ UNCHANGED <<rlc, th, uplink>>
     ELSE LET pdu == Pdu(th[t].ue, Len(uplink.sent) + 1)
              done == th[t].n = 1
          IN  /\ pq' \in PQ!Signal(PQ!Put(pq, pdu))
              /\ uplink' = [uplink EXCEPT !.sent = Append(@, pdu)]
              /\ th' = [th EXCEPT ![t] = IF done THEN Idle ELSE [th[t] EXCEPT !.n = @ - 1]]
              /\ rlc' = [rlc EXCEPT !.lock = IF done THEN None ELSE @]
  /\ UNCHANGED <<pdcp, q, stage, time, downlink>>

PdcpThreadWaits ==
  /\ At(PdcpQueueThread, "idle") /\ PdcpQueueThread \notin pq.waiting
  /\ IF pq.length = 0 THEN pq' = PQ!Wait(pq, PdcpQueueThread) /\ UNCHANGED th
     ELSE th' = [th EXCEPT ![PdcpQueueThread] = [pc |-> "request", ue |-> NoUe, n |-> pq.start]] /\ UNCHANGED pq
  /\ UNCHANGED <<pdcp, rlc, q, stage, time, downlink, uplink>>

\* Mutant: when the bearer is not found the lock is not released.
DoPdcpDataIndKeepsLock ==
  /\ At(PdcpQueueThread, "request") /\ pdcp.lock = None
  /\ LET pdu == pq.q[th[PdcpQueueThread].n] IN
       /\ pdcp' = [manager_get_ue(pdcp, pdu[1]) EXCEPT !.lock = IF pdu[1] \in pdcp.bearers THEN None ELSE PdcpQueueThread]
       /\ uplink' = [uplink EXCEPT !.handed = Append(@, pdu)]
  /\ th' = [th EXCEPT ![PdcpQueueThread].pc = "remove"]
  /\ UNCHANGED <<rlc, q, pq, stage, time, downlink>>
do_pdcp_data_ind ==
  /\ At(PdcpQueueThread, "request") /\ pdcp.lock = None
  /\ LET pdu == pq.q[th[PdcpQueueThread].n] IN
       /\ pdcp' = manager_get_ue(pdcp, pdu[1])
       /\ uplink' = [uplink EXCEPT !.handed = Append(@, pdu)]
  /\ th' = [th EXCEPT ![PdcpQueueThread].pc = "remove"]
  /\ UNCHANGED <<rlc, q, pq, stage, time, downlink>>

PdcpThreadRemoves ==
  /\ At(PdcpQueueThread, "remove")
  /\ pq' \in PQ!Signal(PQ!Remove(pq)) /\ th' = [th EXCEPT ![PdcpQueueThread] = Idle]
  /\ UNCHANGED <<pdcp, rlc, q, stage, time, downlink, uplink>>

---------------------------------------------------------------------------
(* Time *)

\* Mutant: the timer thread is not woken.
TickSilently ==
  /\ time.now < MaxTicks
  /\ time' = [time EXCEPT !.now = @ + 1]
  /\ UNCHANGED <<pdcp, rlc, q, pq, th, stage, downlink, uplink>>
nr_pdcp_tick ==
  /\ time.now < MaxTicks
  /\ time' = [time EXCEPT !.now = @ + 1, !.waiting = FALSE]
  /\ UNCHANGED <<pdcp, rlc, q, pq, th, stage, downlink, uplink>>

TimerThreadWaits ==
  /\ At(TimerThread, "idle") /\ ~time.waiting
  /\ IF time.curtime = time.now
     THEN time' = [time EXCEPT !.waiting = TRUE] /\ UNCHANGED th
     ELSE /\ time' = [time EXCEPT !.curtime = time.now]
          /\ th' = [th EXCEPT ![TimerThread].pc = "request"]
  /\ UNCHANGED <<pdcp, rlc, q, pq, stage, downlink, uplink>>

\* set_time of every entity.
TimerThreadSetsTime ==
  /\ At(TimerThread, "request") /\ pdcp.lock = None
  /\ time' = [time EXCEPT !.applied = time.curtime] /\ th' = [th EXCEPT ![TimerThread] = Idle]
  /\ UNCHANGED <<pdcp, rlc, q, pq, stage, downlink, uplink>>

---------------------------------------------------------------------------
Next ==
  \/ \E ue \in Ues : ConfigurePdcp(ue)
  \/ \E ue \in Ues : ConfigureRlc(ue)
  \/ \E ue \in Ues : rrc_rlc_remove_ue(ue)
  \/ \E ue \in Ues : pdcp_remove_UE(ue)
  \/ \E t \in TunThreads : ReadTun(t)
  \/ \E t \in TunThreads : TunRequest(t)
  \/ \E t \in GtpThreads : GtpRequest(t)
  \/ \E t \in GtpThreads \cup TunThreads : enqueue_rlc_data_req(t)
  \/ RlcThreadWaits \/ rlc_data_req \/ RlcThreadRemoves
  \/ \E t \in MacThreads, ue \in Ues, count \in 1..MaxSdusPerPdu : mac_rlc_data_ind(t, ue, count)
  \/ \E t \in MacThreads : deliver_sdu(t)
  \/ PdcpThreadWaits \/ do_pdcp_data_ind \/ PdcpThreadRemoves
  \/ nr_pdcp_tick \/ TimerThreadWaits \/ TimerThreadSetsTime

Spec == Init /\ [][Next]_vars

\* A thread that can run does run.  No thread is required to send, and the load is
\* bounded, so a lock that is released is free in the end for those that want it; under
\* an unbounded load the mutexes would have to be starvation-free.
FairSpec ==
  /\ Spec
  /\ \A t \in GtpThreads \cup TunThreads : WF_vars(enqueue_rlc_data_req(t))
  /\ \A t \in MacThreads : WF_vars(deliver_sdu(t))
  /\ WF_vars(RlcThreadWaits) /\ WF_vars(rlc_data_req) /\ WF_vars(RlcThreadRemoves)
  /\ WF_vars(PdcpThreadWaits) /\ WF_vars(do_pdcp_data_ind) /\ WF_vars(PdcpThreadRemoves)
  /\ WF_vars(TimerThreadWaits) /\ WF_vars(TimerThreadSetsTime)

---------------------------------------------------------------------------
AllPdus(max) == Ues \X (1..max)

\* The threads one of which must act before t can go on: the holder of the lock it
\* wants, or the consumer of the queue that is full.
WaitsFor(t) ==
  CASE t \in q.waiting \ {RlcQueueThread} -> {RlcQueueThread}
    [] t \in pq.waiting \ {PdcpQueueThread} -> {PdcpQueueThread}
    [] At(t, "request") -> (IF t = RlcQueueThread THEN {rlc.lock} ELSE {pdcp.lock}) \ {None}
    [] OTHER -> {}

\* No threads wait for each other in a circle: that is what the queues between PDCP and
\* RLC are for ("To avoid the resulting deadlock it is enough to ensure that a call to
\* lock(pdcp) will never be followed by a call to lock(rlc)").
NoCircularWait ==
  \A S \in SUBSET Threads : S # {} => \E t \in S : WaitsFor(t) \cap S = {}

Downlink == INSTANCE PduChannel WITH
  Pdus <- AllPdus(MaxDownlink), sent <- downlink.sent, handed <- downlink.handed
Uplink == INSTANCE PduChannel WITH
  Pdus <- AllPdus(MaxUplink), sent <- uplink.sent, handed <- uplink.handed

\* RLC gets the downlink PDUs in the order in which PDCP numbered them, whichever
\* threads sent them, although the slot is read outside the mutex of the queue.
DownlinkSpec == Downlink!Spec

\* PDCP gets the uplink SDUs in the order in which RLC delivered them.
UplinkSpec == Uplink!Spec

\* Nothing stays in a queue, and so no thread waits for ever for room in one: no wake-up
\* is lost, although producers and consumer share one condition variable.
EventuallyHanded ==
  /\ \A n \in 1..MaxDownlink : (Len(downlink.sent) >= n) ~> (Len(downlink.handed) >= n)
  /\ \A n \in 1..MaxUplink : (Len(uplink.sent) >= n) ~> (Len(uplink.handed) >= n)

\* Every tick reaches the PDCP entities in the end, itself or a later one.
TimeCatchesUp == \A n \in 1..MaxTicks : (time.now >= n) ~> (time.applied >= n)
=============================================================================
