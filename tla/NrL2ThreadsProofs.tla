---------------------------- MODULE NrL2ThreadsProofs ----------------------------
(***************************************************************************)
(* Proofs about NrL2Threads, for any number of threads and UEs and every   *)
(* size of the two queues: both queues implement PduChannel, and threads   *)
(* can only wait for each other in a circle while both queues are full.    *)
(***************************************************************************)
EXTENDS NrL2Threads, TLAPS

---------------------------------------------------------------------------
(* The inductive invariant.                                                *)

Senders == GtpThreads \cup TunThreads

\* A UE manager is a record whose bearers belong to UEs.
ManagerOK(m) ==
  m = [lock |-> m.lock, ue_list |-> m.ue_list, bearers |-> m.bearers] /\ m.bearers \subseteq Ues

Buffer(size) == [q : [0..(size - 1) -> (Ues \X Nat) \cup {NoPdu}], start : 0..(size - 1),
                 length : 0..size, waiting : SUBSET Threads]

Traffic(max) == [sent : Seq(AllPdus(max)), handed : Seq(AllPdus(max))]

ThreadsOK == th = [t \in Threads |-> [pc |-> th[t].pc, ue |-> th[t].ue, n |-> th[t].n]]

TypeInv ==
  /\ ManagerOK(pdcp) /\ ManagerOK(rlc)
  /\ q \in Buffer(RlcQueueSize) /\ pq \in Buffer(PdcpQueueSize)
  /\ ThreadsOK
  /\ downlink \in Traffic(MaxDownlink) /\ uplink \in Traffic(MaxUplink)

\* The program of each thread.
ProgramInv ==
  /\ \A t \in Senders : th[t].pc \in {"idle", "request", "enqueue"}
  /\ \A t \in MacThreads : th[t].pc \in {"idle", "deliver"}
  /\ \A t \in {RlcQueueThread, PdcpQueueThread} : th[t].pc \in {"idle", "request", "remove"}
  /\ th[TimerThread].pc \in {"idle", "request"}

\* The thread inside recv_sdu, and only it, holds the PDCP lock; the one inside recv_pdu of
\* RLC the RLC lock.  No other step keeps a lock.
LockInv ==
  /\ \A t \in Threads : th[t].pc = "enqueue" => pdcp.lock = t
  /\ pdcp.lock # None => pdcp.lock \in Senders /\ th[pdcp.lock].pc = "enqueue"
  /\ \A t \in Threads : th[t].pc = "deliver" => rlc.lock = t
  /\ rlc.lock # None => rlc.lock \in MacThreads /\ th[rlc.lock].pc = "deliver"

\* Who is in pthread_cond_wait.
WaitInv ==
  /\ \A t \in q.waiting \ {RlcQueueThread} : th[t].pc = "enqueue"
  /\ \A t \in pq.waiting \ {PdcpQueueThread} : th[t].pc = "deliver"

\* The items of a circular buffer are those of s that follow the first n.
Holds(f, start, length, size, s, n) ==
  \A i \in 0..(length - 1) : f[(start + i) % size] = s[n + i + 1]

\* A PDU is sent before it is in the queue, and handed over before its slot is given up.
InQueue == IF pdcp.lock = None THEN Len(downlink.sent) ELSE Len(downlink.sent) - 1
Taken(t, traffic) == IF th[t].pc = "remove" THEN Len(traffic.handed) - 1 ELSE Len(traffic.handed)

QueueInv(b, size, t, traffic, put) ==
  /\ Taken(t, traffic) \in Nat /\ b.length = put - Taken(t, traffic)
  /\ Holds(b.q, b.start, b.length, size, traffic.sent, Taken(t, traffic))
  /\ th[t].pc # "idle" => b.length > 0 /\ th[t].n = b.start

DownlinkInv ==
  /\ QueueInv(q, RlcQueueSize, RlcQueueThread, downlink, InQueue)
  /\ pdcp.lock # None => /\ Len(downlink.sent) > 0
                         /\ downlink.sent[Len(downlink.sent)] = Pdu(th[pdcp.lock].ue, th[pdcp.lock].n)

UplinkInv ==
  /\ QueueInv(pq, PdcpQueueSize, PdcpQueueThread, uplink, Len(uplink.sent))
  /\ \A t \in MacThreads : th[t].pc = "deliver" =>
       th[t].ue \in Ues /\ th[t].n \in Nat \ {0} /\ Len(uplink.sent) + th[t].n <= MaxUplink

L2Inv == TypeInv /\ ProgramInv /\ LockInv /\ WaitInv /\ DownlinkInv /\ UplinkInv

---------------------------------------------------------------------------
(* The circular buffer.                                                    *)

\* An index of a circular buffer, without the modulus.
LEMMA ModOnce ==
  ASSUME NEW size \in Nat \ {0}, NEW k \in 0..(2 * size - 1)
  PROVE  k % size = IF k < size THEN k ELSE k - size
<1>1. CASE k < size
  BY <1>1
<1>2. CASE k >= size
  <2>1. k - size \in 0..(size - 1) /\ k = 1 * size + (k - size)
    BY <1>2
  <2> QED BY <2>1
<1> QED BY <1>1, <1>2

\* The slot of the i-th item of a circular buffer.
LEMMA SlotOf ==
  ASSUME NEW size \in Nat \ {0}, NEW start \in 0..(size - 1), NEW i \in 0..size
  PROVE  /\ (start + i) % size = IF start + i < size THEN start + i ELSE start + i - size
         /\ (start + i) % size \in 0..(size - 1)
<1> DEFINE k == start + i
<1>1. k \in 0..(2 * size - 1)
  OBVIOUS
<1> HIDE DEF k
<1>2. k % size = IF k < size THEN k ELSE k - size
  BY <1>1, ModOnce
<1>3. k % size \in 0..(size - 1)
  BY <1>1, <1>2
<1> QED BY <1>2, <1>3 DEF k

\* Different items of a circular buffer are in different slots.
LEMMA SlotsDiffer ==
  ASSUME NEW size \in Nat \ {0}, NEW start \in 0..(size - 1),
         NEW i \in 0..(size - 1), NEW j \in 0..(size - 1), i # j
  PROVE  (start + i) % size # (start + j) % size
<1>0. i \in 0..size /\ j \in 0..size
  OBVIOUS
<1>1. /\ (start + i) % size = IF start + i < size THEN start + i ELSE start + i - size
      /\ (start + j) % size = IF start + j < size THEN start + j ELSE start + j - size
  BY <1>0, SlotOf
<1> QED BY <1>1

\* When the start advances the items move up by one.
LEMMA NextSlot ==
  ASSUME NEW size \in Nat \ {0}, NEW start \in 0..(size - 1), NEW i \in 0..(size - 2)
  PROVE  (((start + 1) % size) + i) % size = (start + (i + 1)) % size
<1> DEFINE next == (start + 1) % size
<1>0. 1 \in 0..size
  OBVIOUS
<1>1. next = (IF start + 1 < size THEN start + 1 ELSE start + 1 - size) /\ next \in 0..(size - 1)
  BY <1>0, SlotOf
<1> HIDE DEF next
<1>2. i \in 0..size /\ i + 1 \in 0..size
  OBVIOUS
<1>3. (next + i) % size = IF next + i < size THEN next + i ELSE next + i - size
  BY <1>1, <1>2, SlotOf
<1>4. (start + (i + 1)) % size = IF start + (i + 1) < size THEN start + (i + 1) ELSE start + (i + 1) - size
  <2> DEFINE j == i + 1
  <2> HIDE DEF j
  <2>1. (start + j) % size = IF start + j < size THEN start + j ELSE start + j - size
    BY <1>2, SlotOf DEF j
  <2> QED BY <2>1 DEF j
<1> QED BY <1>1, <1>3, <1>4 DEF next

\* A circular buffer, field by field.
LEMMA BufferRecord ==
  ASSUME NEW size, NEW f \in [0..(size - 1) -> (Ues \X Nat) \cup {NoPdu}],
         NEW start \in 0..(size - 1), NEW length \in 0..size, NEW waiting \in SUBSET Threads
  PROVE  [q |-> f, start |-> start, length |-> length, waiting |-> waiting] \in Buffer(size)
BY DEF Buffer

\* The fields of a buffer after an item is put in.
LEMMA PutFields ==
  ASSUME NEW size, NEW b \in Buffer(size), NEW x,
         NEW c, c = [b EXCEPT !.q[(b.start + b.length) % size] = x, !.length = @ + 1]
  PROVE  c = [q |-> [b.q EXCEPT ![(b.start + b.length) % size] = x], start |-> b.start,
              length |-> b.length + 1, waiting |-> b.waiting]
BY DEF Buffer

\* The fields of a buffer after an item is taken out.
LEMMA RemoveFields ==
  ASSUME NEW size, NEW b \in Buffer(size), NEW c, c = [b EXCEPT !.length = @ - 1, !.start = (@ + 1) % size]
  PROVE  c = [q |-> b.q, start |-> (b.start + 1) % size, length |-> b.length - 1, waiting |-> b.waiting]
BY DEF Buffer

\* enqueue_rlc_data_req and enqueue_pdcp_data_ind put the next PDU behind the others.
LEMMA PutHolds ==
  ASSUME NEW size \in Nat \ {0}, NEW b \in Buffer(size), b.length # size,
         NEW s, NEW n \in Nat, Holds(b.q, b.start, b.length, size, s, n),
         NEW x \in Ues \X Nat, x = s[n + b.length + 1],
         NEW c, c = [b EXCEPT !.q[(b.start + b.length) % size] = x, !.length = @ + 1]
  PROVE  /\ c \in Buffer(size) /\ c.start = b.start /\ c.length = b.length + 1 /\ c.waiting = b.waiting
         /\ Holds(c.q, c.start, c.length, size, s, n)
<1>0. /\ b.start \in 0..(size - 1) /\ b.length \in 0..(size - 1) /\ b.waiting \in SUBSET Threads
      /\ b.q \in [0..(size - 1) -> (Ues \X Nat) \cup {NoPdu}]
  BY DEF Buffer
<1> DEFINE k == (b.start + b.length) % size
<1>1. k \in 0..(size - 1)
  <2>1. b.length \in 0..size
    BY <1>0
  <2> QED BY <2>1, <1>0, SlotOf
<1>2. c = [q |-> [b.q EXCEPT ![k] = x], start |-> b.start, length |-> b.length + 1, waiting |-> b.waiting]
  BY PutFields
<1>3. c.q = [b.q EXCEPT ![k] = x] /\ c.start = b.start /\ c.length = b.length + 1 /\ c.waiting = b.waiting
  BY <1>2
<1> HIDE DEF k
<1>4. c \in Buffer(size)
  <2>1. [b.q EXCEPT ![k] = x] \in [0..(size - 1) -> (Ues \X Nat) \cup {NoPdu}] /\ b.length + 1 \in 0..size
    BY <1>0, <1>1
  <2>2. [q |-> [b.q EXCEPT ![k] = x], start |-> b.start, length |-> b.length + 1, waiting |-> b.waiting] \in Buffer(size)
    BY <2>1, <1>0, BufferRecord
  <2> QED BY <2>2, <1>2
<1>5. ASSUME NEW i \in 0..b.length PROVE c.q[(b.start + i) % size] = s[n + i + 1]
  <2>1. CASE i = b.length
    BY <2>1, <1>0, <1>1, <1>3 DEF k
  <2>2. CASE i # b.length
    <3>1. i \in 0..(b.length - 1) /\ i \in 0..(size - 1) /\ i \in 0..size
      BY <2>2, <1>0
    <3>2. (b.start + i) % size # k /\ (b.start + i) % size \in 0..(size - 1)
      BY <3>1, <1>0, <2>2, SlotsDiffer, SlotOf DEF k
    <3>3. c.q[(b.start + i) % size] = b.q[(b.start + i) % size]
      BY <3>2, <1>0, <1>1, <1>3
    <3> QED BY <3>1, <3>3 DEF Holds
  <2> QED BY <2>1, <2>2
<1>6. Holds(c.q, c.start, c.length, size, s, n)
  <2>1. c.length - 1 = b.length
    BY <1>0, <1>3
  <2> QED BY <2>1, <1>3, <1>5 DEF Holds
<1> QED BY <1>3, <1>4, <1>6

\* rlc_data_req_thread and pdcp_data_ind_thread take the oldest PDU out.
LEMMA RemoveHolds ==
  ASSUME NEW size \in Nat \ {0}, NEW b \in Buffer(size), b.length > 0,
         NEW s, NEW n \in Nat, Holds(b.q, b.start, b.length, size, s, n),
         NEW c, c = [b EXCEPT !.length = @ - 1, !.start = (@ + 1) % size]
  PROVE  /\ c \in Buffer(size) /\ c.length = b.length - 1 /\ c.waiting = b.waiting
         /\ Holds(c.q, c.start, c.length, size, s, n + 1)
<1>0. /\ b.start \in 0..(size - 1) /\ b.length \in 1..size /\ b.waiting \in SUBSET Threads
      /\ b.q \in [0..(size - 1) -> (Ues \X Nat) \cup {NoPdu}]
  BY DEF Buffer
<1>1. c = [q |-> b.q, start |-> (b.start + 1) % size, length |-> b.length - 1, waiting |-> b.waiting]
  BY RemoveFields
<1>2. /\ c.q = b.q /\ c.start = (b.start + 1) % size /\ c.length = b.length - 1 /\ c.waiting = b.waiting
  BY <1>1
<1>3. /\ c.start = (IF b.start + 1 < size THEN b.start + 1 ELSE b.start + 1 - size)
      /\ c.start \in 0..(size - 1)
  <2>1. 1 \in 0..size
    OBVIOUS
  <2> QED BY <2>1, <1>0, <1>2, SlotOf
<1>4. c \in Buffer(size)
  <2>1. b.length - 1 \in 0..size /\ (b.start + 1) % size \in 0..(size - 1)
    BY <1>0, <1>2, <1>3
  <2>2. [q |-> b.q, start |-> (b.start + 1) % size, length |-> b.length - 1, waiting |-> b.waiting] \in Buffer(size)
    BY <2>1, <1>0, BufferRecord
  <2> QED BY <2>2, <1>1
<1>5. ASSUME NEW i \in 0..(c.length - 1) PROVE c.q[(c.start + i) % size] = s[(n + 1) + i + 1]
  <2>1. i + 1 \in 0..(b.length - 1) /\ i \in 0..(size - 1) /\ i + 1 \in 0..(size - 1)
    BY <1>0, <1>2
  <2>2. (c.start + i) % size = (b.start + (i + 1)) % size
    <3>1. i \in 0..(size - 2)
      BY <1>0, <2>1
    <3> QED BY <3>1, <1>0, <1>2, NextSlot
  <2>3. b.q[(b.start + (i + 1)) % size] = s[n + (i + 1) + 1]
    BY <2>1 DEF Holds
  <2>4. n + (i + 1) + 1 = (n + 1) + i + 1
    BY <2>1
  <2> QED BY <1>2, <2>2, <2>3, <2>4
<1> QED BY <1>2, <1>4, <1>5 DEF Holds

\* pthread_cond_signal changes nothing but who waits.
LEMMA SignalKeeps ==
  ASSUME NEW size \in Nat \ {0}, NEW b \in Buffer(size),
         NEW c \in IF b.waiting = {} THEN {b} ELSE {[b EXCEPT !.waiting = @ \ {t}] : t \in b.waiting}
  PROVE  /\ c \in Buffer(size) /\ c.q = b.q /\ c.start = b.start /\ c.length = b.length
         /\ c.waiting \subseteq b.waiting
BY DEF Buffer

\* Nobody starts to wait when pthread_cond_signal is called.
LEMMA SignalWaiting ==
  ASSUME NEW f, NEW start, NEW length, NEW w,
         NEW b, b = [q |-> f, start |-> start, length |-> length, waiting |-> w],
         NEW c \in IF b.waiting = {} THEN {b} ELSE {[b EXCEPT !.waiting = @ \ {t}] : t \in b.waiting}
  PROVE  c.waiting \subseteq w
OBVIOUS

\* pthread_cond_wait adds the caller to those that wait.
LEMMA WaitKeeps ==
  ASSUME NEW size \in Nat \ {0}, NEW b \in Buffer(size), NEW t \in Threads,
         NEW c, c = [b EXCEPT !.waiting = @ \cup {t}]
  PROVE  /\ c \in Buffer(size) /\ c.q = b.q /\ c.start = b.start /\ c.length = b.length
         /\ c.waiting = b.waiting \cup {t}
BY DEF Buffer

\* Sending more does not disturb what is in the queue.
LEMMA SendHolds ==
  ASSUME NEW S, NEW s \in Seq(S), NEW x \in S, NEW f, NEW start, NEW size,
         NEW length \in Nat, NEW n \in Nat, n + length <= Len(s), Holds(f, start, length, size, s, n)
  PROVE  Holds(f, start, length, size, Append(s, x), n)
<1> SUFFICES ASSUME NEW i \in 0..(length - 1) PROVE f[(start + i) % size] = Append(s, x)[n + i + 1]
  BY DEF Holds
<1>1. n + i + 1 \in 1..Len(s)
  OBVIOUS
<1>2. Append(s, x)[n + i + 1] = s[n + i + 1]
  BY <1>1
<1> QED BY <1>2 DEF Holds

---------------------------------------------------------------------------
(* Managers and threads.                                                   *)

\* Looking up, adding and removing a UE leave the lock alone and keep the bearers those of UEs.
LEMMA ManagerSteps ==
  ASSUME NEW m, ManagerOK(m), NEW ue
  PROVE  /\ ManagerOK(manager_get_ue(m, ue)) /\ manager_get_ue(m, ue).lock = m.lock
         /\ manager_get_ue(m, ue).bearers = m.bearers
         /\ ManagerOK(manager_remove_ue(m, ue)) /\ manager_remove_ue(m, ue).lock = m.lock
         /\ ue \in Ues => ManagerOK(add_bearer(m, ue)) /\ add_bearer(m, ue).lock = m.lock
<1>1. ManagerOK(manager_get_ue(m, ue)) /\ manager_get_ue(m, ue).lock = m.lock /\ manager_get_ue(m, ue).bearers = m.bearers
  <2> DEFINE l == Append(m.ue_list, ue)
  <2>1. manager_get_ue(m, ue) = m \/ manager_get_ue(m, ue) = [m EXCEPT !.ue_list = l]
    BY DEF manager_get_ue
  <2> HIDE DEF l
  <2>2. CASE manager_get_ue(m, ue) = m
    BY <2>2
  <2>3. CASE manager_get_ue(m, ue) = [m EXCEPT !.ue_list = l]
    <3>1. manager_get_ue(m, ue) = [lock |-> m.lock, ue_list |-> l, bearers |-> m.bearers]
      BY <2>3 DEF ManagerOK
    <3> QED BY <3>1 DEF ManagerOK
  <2> QED BY <2>1, <2>2, <2>3
<1>2. ManagerOK(manager_remove_ue(m, ue)) /\ manager_remove_ue(m, ue).lock = m.lock
  <2> DEFINE l == SelectSeq(m.ue_list, LAMBDA u : u # ue)
  <2>1. manager_remove_ue(m, ue) = [m EXCEPT !.ue_list = l, !.bearers = @ \ {ue}]
    BY Zenon DEF manager_remove_ue
  <2> HIDE DEF l
  <2>2. manager_remove_ue(m, ue) = [lock |-> m.lock, ue_list |-> l, bearers |-> m.bearers \ {ue}]
    BY <2>1 DEF ManagerOK
  <2> QED BY <2>2 DEF ManagerOK
<1>3. ASSUME ue \in Ues PROVE ManagerOK(add_bearer(m, ue)) /\ add_bearer(m, ue).lock = m.lock
  <2> DEFINE g == manager_get_ue(m, ue)
  <2>1. add_bearer(m, ue) = [g EXCEPT !.bearers = @ \cup {ue}]
    BY DEF add_bearer
  <2> HIDE DEF g
  <2>2. ManagerOK(g) /\ g.lock = m.lock
    BY <1>1 DEF g
  <2>3. add_bearer(m, ue) = [lock |-> g.lock, ue_list |-> g.ue_list, bearers |-> g.bearers \cup {ue}]
    BY <2>1, <2>2 DEF ManagerOK
  <2> QED BY <2>2, <2>3, <1>3 DEF ManagerOK
<1> QED BY <1>1, <1>2, <1>3

\* Only t moves, to r.
Moves(t, r) == th'[t] = r /\ \A u \in Threads \ {t} : th'[u] = th[u]

\* A thread that moves leaves the others where they are.
LEMMA ThreadMoves ==
  ASSUME ThreadsOK, NEW t \in Threads, NEW pc, NEW ue, NEW n,
         th' = [th EXCEPT ![t] = [pc |-> pc, ue |-> ue, n |-> n]]
  PROVE  ThreadsOK' /\ Moves(t, [pc |-> pc, ue |-> ue, n |-> n])
<1>1. /\ th'[t] = [pc |-> pc, ue |-> ue, n |-> n]
      /\ \A u \in Threads \ {t} : th'[u] = th[u]
      /\ th' = [u \in Threads |-> th'[u]]
  BY DEF ThreadsOK
<1>2. ASSUME NEW u \in Threads PROVE th'[u] = [pc |-> th'[u].pc, ue |-> th'[u].ue, n |-> th'[u].n]
  BY <1>1 DEF ThreadsOK
<1>3. ThreadsOK'
  BY <1>1, <1>2, Zenon DEF ThreadsOK
<1> QED BY <1>1, <1>3 DEF Moves

\* The downlink queue does not notice the steps that neither use it nor move its threads.
LEMMA DownlinkFrame ==
  ASSUME DownlinkInv, q'.q = q.q, q'.start = q.start, q'.length = q.length, downlink' = downlink,
         pdcp'.lock = pdcp.lock, th'[RlcQueueThread] = th[RlcQueueThread],
         pdcp.lock # None => th'[pdcp.lock] = th[pdcp.lock]
  PROVE  DownlinkInv'
<1>1. Taken(RlcQueueThread, downlink)' = Taken(RlcQueueThread, downlink) /\ InQueue' = InQueue
  BY DEF Taken, InQueue
<1>2. QueueInv(q, RlcQueueSize, RlcQueueThread, downlink, InQueue)'
  BY <1>1 DEF DownlinkInv, QueueInv, Holds
<1>3. (pdcp.lock # None => /\ Len(downlink.sent) > 0
                           /\ downlink.sent[Len(downlink.sent)] = Pdu(th[pdcp.lock].ue, th[pdcp.lock].n))'
  BY DEF DownlinkInv, Pdu
<1> QED BY <1>2, <1>3 DEF DownlinkInv

\* The uplink queue likewise.
LEMMA UplinkFrame ==
  ASSUME UplinkInv, pq'.q = pq.q, pq'.start = pq.start, pq'.length = pq.length, uplink' = uplink,
         th'[PdcpQueueThread] = th[PdcpQueueThread],
         \A t \in MacThreads : th'[t] = th[t] \/ th'[t].pc = "idle"
  PROVE  UplinkInv'
<1>1. Taken(PdcpQueueThread, uplink)' = Taken(PdcpQueueThread, uplink)
  BY DEF Taken
<1>2. QueueInv(pq, PdcpQueueSize, PdcpQueueThread, uplink, Len(uplink.sent))'
  BY <1>1 DEF UplinkInv, QueueInv, Holds
<1>3. ASSUME NEW t \in MacThreads, th'[t].pc = "deliver"
      PROVE  th'[t].ue \in Ues /\ th'[t].n \in Nat \ {0} /\ Len(uplink'.sent) + th'[t].n <= MaxUplink
  BY <1>3 DEF UplinkInv
<1> QED BY <1>2, <1>3 DEF UplinkInv

\* The threads are different from each other and from None.
LEMMA ThreadFacts ==
  /\ Senders \subseteq Threads /\ MacThreads \subseteq Threads
  /\ {RlcQueueThread, PdcpQueueThread, TimerThread} \subseteq Threads
  /\ RlcQueueThread # PdcpQueueThread /\ RlcQueueThread # TimerThread /\ PdcpQueueThread # TimerThread
  /\ None \notin Threads
  /\ \A t \in Senders : t \notin MacThreads /\ t # RlcQueueThread /\ t # PdcpQueueThread /\ t # TimerThread
  /\ \A t \in MacThreads : t \notin Senders /\ t # RlcQueueThread /\ t # PdcpQueueThread /\ t # TimerThread
<1>1. /\ RlcQueueThread # PdcpQueueThread /\ RlcQueueThread # TimerThread /\ PdcpQueueThread # TimerThread
      /\ None \notin {RlcQueueThread, PdcpQueueThread, TimerThread}
  BY DEF RlcQueueThread, PdcpQueueThread, TimerThread, None
<1> QED BY <1>1, ThreadAssumption DEF Senders, Threads, Producers

\* new queues, no UE, every thread at its start.
LEMMA InitL2 == Init => L2Inv
<1> SUFFICES ASSUME Init PROVE L2Inv
  OBVIOUS
<1>0. RlcQueueSize \in Nat \ {0} /\ PdcpQueueSize \in Nat \ {0} /\ MaxDownlink \in Nat /\ MaxUplink \in Nat
  BY SizeAssumption
<1>1. \A t \in Threads : th[t] = Idle /\ th[t].pc = "idle"
  BY DEF Init, Idle
<1>2. ThreadsOK
  BY DEF Init, Idle, ThreadsOK
<1>3. q \in Buffer(RlcQueueSize) /\ pq \in Buffer(PdcpQueueSize)
  <2>1. /\ q = [q |-> [i \in 0..(RlcQueueSize - 1) |-> NoPdu], start |-> 0, length |-> 0, waiting |-> {}]
        /\ pq = [q |-> [i \in 0..(PdcpQueueSize - 1) |-> NoPdu], start |-> 0, length |-> 0, waiting |-> {}]
    BY DEF Init, Q!Empty, PQ!Empty, Q!Slots, PQ!Slots
  <2>2. /\ [i \in 0..(RlcQueueSize - 1) |-> NoPdu] \in [0..(RlcQueueSize - 1) -> (Ues \X Nat) \cup {NoPdu}]
        /\ [i \in 0..(PdcpQueueSize - 1) |-> NoPdu] \in [0..(PdcpQueueSize - 1) -> (Ues \X Nat) \cup {NoPdu}]
        /\ 0 \in 0..(RlcQueueSize - 1) /\ 0 \in 0..(PdcpQueueSize - 1)
        /\ 0 \in 0..RlcQueueSize /\ 0 \in 0..PdcpQueueSize
    BY <1>0
  <2> QED BY <2>1, <2>2 DEF Buffer
<1>4. q.length = 0 /\ pq.length = 0 /\ q.waiting = {} /\ pq.waiting = {}
  BY DEF Init, Q!Empty, PQ!Empty
<1>5. TypeInv
  BY <1>2, <1>3 DEF Init, TypeInv, ManagerOK, Traffic, NoTraffic
<1>6. ProgramInv /\ LockInv /\ WaitInv
  BY <1>1, <1>4, ThreadFacts DEF ProgramInv, LockInv, WaitInv, Init
<1>7. DownlinkInv /\ UplinkInv
  <2>1. /\ Taken(RlcQueueThread, downlink) = 0 /\ Taken(PdcpQueueThread, uplink) = 0 /\ InQueue = 0
        /\ pdcp.lock = None /\ Len(uplink.sent) = 0
    BY <1>1, ThreadFacts DEF Init, Taken, InQueue, NoTraffic
  <2> QED BY <2>1, <1>1, <1>4, ThreadFacts DEF DownlinkInv, UplinkInv, QueueInv, Holds
<1> QED BY <1>5, <1>6, <1>7 DEF L2Inv

\* A step that moves no thread and uses no queue: RRC, the tick, a request without a bearer.
LEMMA ManagerStep ==
  ASSUME L2Inv, UNCHANGED <<q, pq, th, downlink, uplink>>, ManagerOK(pdcp'), ManagerOK(rlc'),
         pdcp'.lock = pdcp.lock, rlc'.lock = rlc.lock
  PROVE  L2Inv'
<1>1. TypeInv' /\ ProgramInv' /\ LockInv' /\ WaitInv'
  BY DEF L2Inv, TypeInv, ProgramInv, LockInv, WaitInv, ThreadsOK, ManagerOK
<1>2. DownlinkInv' /\ UplinkInv'
  BY DownlinkFrame, UplinkFrame DEF L2Inv
<1> QED BY <1>1, <1>2 DEF L2Inv

\* A step in which one thread goes on without a lock and without a queue.
LEMMA ThreadStep ==
  ASSUME L2Inv, NEW t \in Threads, th[t].pc \in {"idle", "request"}, t \notin MacThreads,
         ThreadsOK', Moves(t, th'[t]), th'[t].pc \in {"idle", "request"},
         UNCHANGED <<q, pq, downlink, uplink>>, ManagerOK(pdcp'), ManagerOK(rlc'),
         pdcp'.lock = pdcp.lock, rlc'.lock = rlc.lock,
         t = RlcQueueThread => th'[t].pc = "request" /\ th[t].pc = "idle" /\ q.length > 0 /\ th'[t].n = q.start,
         t = PdcpQueueThread => th'[t].pc = "request" /\ th[t].pc = "idle" /\ pq.length > 0 /\ th'[t].n = pq.start
  PROVE  L2Inv'
<1>2. \A u \in Threads \ {t} : th'[u] = th[u]
  BY DEF Moves
<1>3. TypeInv'
  BY DEF L2Inv, TypeInv, ManagerOK
<1>4. ProgramInv' /\ LockInv' /\ WaitInv'
  BY <1>2, ThreadFacts DEF L2Inv, TypeInv, Buffer, ProgramInv, LockInv, WaitInv
<1>5. DownlinkInv'
  <2>1. pdcp.lock # None => th'[pdcp.lock] = th[pdcp.lock]
    BY <1>2, ThreadFacts DEF L2Inv, LockInv
  <2>2. CASE t # RlcQueueThread
    BY <2>1, <2>2, <1>2, ThreadFacts, DownlinkFrame DEF L2Inv
  <2>3. CASE t = RlcQueueThread
    <3>1. Taken(RlcQueueThread, downlink)' = Taken(RlcQueueThread, downlink) /\ InQueue' = InQueue
      BY <2>3, <1>2 DEF Taken, InQueue
    <3> QED BY <3>1, <2>1, <2>3, <1>2 DEF L2Inv, DownlinkInv, QueueInv, Pdu, Holds
  <2> QED BY <2>2, <2>3
<1>6. UplinkInv'
  <2>1. \A u \in MacThreads : th'[u] = th[u]
    BY <1>2, ThreadFacts
  <2>2. CASE t # PdcpQueueThread
    BY <2>1, <2>2, <1>2, ThreadFacts, UplinkFrame DEF L2Inv
  <2>3. CASE t = PdcpQueueThread
    <3>1. Taken(PdcpQueueThread, uplink)' = Taken(PdcpQueueThread, uplink)
      BY <2>3, <1>2 DEF Taken
    <3> QED BY <3>1, <2>1, <2>3, <1>2 DEF L2Inv, UplinkInv, QueueInv, Holds
  <2> QED BY <2>2, <2>3
<1> QED BY <1>3, <1>4, <1>5, <1>6 DEF L2Inv

---------------------------------------------------------------------------
(* The downlink.                                                           *)

\* What the types say of the downlink.
LEMMA DownlinkTypes ==
  ASSUME L2Inv
  PROVE  /\ downlink.sent \in Seq(AllPdus(MaxDownlink)) /\ downlink.handed \in Seq(AllPdus(MaxDownlink))
         /\ Len(downlink.sent) \in Nat /\ Len(downlink.handed) \in Nat
         /\ downlink = [sent |-> downlink.sent, handed |-> downlink.handed]
         /\ RlcQueueSize \in Nat \ {0} /\ MaxDownlink \in Nat /\ q \in Buffer(RlcQueueSize)
         /\ q.length \in 0..RlcQueueSize /\ q.waiting \subseteq Threads /\ ManagerOK(pdcp) /\ ManagerOK(rlc)
         /\ ThreadsOK
<1>1. downlink \in Traffic(MaxDownlink) /\ q \in Buffer(RlcQueueSize) /\ ManagerOK(pdcp) /\ ManagerOK(rlc) /\ ThreadsOK
  BY DEF L2Inv, TypeInv
<1>2. RlcQueueSize \in Nat \ {0} /\ MaxDownlink \in Nat
  BY SizeAssumption
<1> QED BY <1>1, <1>2 DEF Traffic, Buffer

\* pdcp_data_req for a UE with a bearer takes the PDCP lock and numbers the SDU.
LEMMA RequestStep ==
  ASSUME L2Inv, NEW t \in Senders, th[t].pc \in {"idle", "request"}, Len(downlink.sent) < MaxDownlink,
         NEW ue, pdcp_data_req(t, ue)
  PROVE  L2Inv' /\ [Downlink!Next]_(Downlink!vars)
<1> DEFINE m == manager_get_ue(pdcp, ue)
           pdu == Pdu(ue, Len(downlink.sent) + 1)
           r == [pc |-> "enqueue", ue |-> ue, n |-> Len(downlink.sent) + 1]
<1>0. /\ downlink.sent \in Seq(AllPdus(MaxDownlink)) /\ Len(downlink.sent) \in Nat
      /\ downlink = [sent |-> downlink.sent, handed |-> downlink.handed]
      /\ MaxDownlink \in Nat /\ ManagerOK(pdcp) /\ ManagerOK(rlc) /\ ThreadsOK /\ q.length \in Nat
  BY DownlinkTypes
<1>1. ManagerOK(m) /\ m.lock = pdcp.lock /\ m.bearers = pdcp.bearers /\ pdcp.lock = None
  BY <1>0, ManagerSteps DEF pdcp_data_req
<1>2. CASE ue \notin m.bearers
  <2>1. /\ pdcp' = m /\ th' = [th EXCEPT ![t] = Idle]
        /\ UNCHANGED <<rlc, q, pq, downlink, uplink>>
    BY <1>2 DEF pdcp_data_req
  <2>2. th' = [th EXCEPT ![t] = [pc |-> "idle", ue |-> NoUe, n |-> 0]]
    BY <2>1 DEF Idle
  <2>3. /\ t \in Threads /\ t \notin MacThreads /\ t # RlcQueueThread /\ t # PdcpQueueThread
        /\ ManagerOK(pdcp') /\ ManagerOK(rlc') /\ pdcp'.lock = pdcp.lock /\ rlc'.lock = rlc.lock
    BY <1>0, <1>1, <2>1, ThreadFacts
  <2>4. ThreadsOK' /\ th'[t].pc = "idle" /\ Moves(t, th'[t])
    <3>1. ThreadsOK' /\ Moves(t, [pc |-> "idle", ue |-> NoUe, n |-> 0])
      BY <2>2, <2>3, <1>0, ThreadMoves
    <3> QED BY <3>1 DEF Moves
  <2>5. L2Inv'
    BY <2>1, <2>3, <2>4, ThreadStep
  <2> QED BY <2>1, <2>5 DEF Downlink!vars
<1>3. CASE ue \in m.bearers
  <2>1. /\ pdcp' = [m EXCEPT !.lock = t] /\ th' = [th EXCEPT ![t] = r]
        /\ downlink' = [downlink EXCEPT !.sent = Append(@, Pdu(ue, Len(@) + 1))]
        /\ UNCHANGED <<rlc, q, pq, uplink>>
    BY <1>3 DEF pdcp_data_req
  <2>2. downlink'.sent = Append(downlink.sent, pdu) /\ downlink'.handed = downlink.handed
        /\ downlink' = [sent |-> downlink'.sent, handed |-> downlink'.handed]
    BY <1>0, <2>1
  <2>3. pdcp' = [lock |-> t, ue_list |-> m.ue_list, bearers |-> m.bearers]
    BY <1>1, <2>1 DEF ManagerOK
  <2>4. pdcp'.lock = t /\ ManagerOK(pdcp')
    BY <2>3, <1>1 DEF ManagerOK
  <2>5. pdu \in AllPdus(MaxDownlink)
    <3>1. ue \in Ues
      BY <1>1, <1>3 DEF ManagerOK
    <3> QED BY <3>1, <1>0 DEF AllPdus, Pdu
  <2>6. ThreadsOK' /\ Moves(t, r) /\ t \in Threads
    BY <2>1, <1>0, ThreadMoves, ThreadFacts
  <2>7. th'[t].pc = "enqueue" /\ Pdu(th'[t].ue, th'[t].n) = pdu /\ \A u \in Threads \ {t} : th'[u] = th[u]
    BY <2>6 DEF Moves
  <2> HIDE DEF pdu, m, r
  <2>8. TypeInv'
    <3>1. Append(downlink.sent, pdu) \in Seq(AllPdus(MaxDownlink))
      BY <1>0, <2>5
    <3>2. downlink' \in Traffic(MaxDownlink)
      BY <3>1, <2>2, DownlinkTypes DEF Traffic
    <3> QED BY <3>2, <1>0, <2>1, <2>4, <2>6 DEF L2Inv, TypeInv, ManagerOK
  <2>9. ProgramInv' /\ LockInv' /\ WaitInv'
    BY <2>1, <2>4, <2>7, <1>1, ThreadFacts DEF L2Inv, TypeInv, Buffer, ProgramInv, LockInv, WaitInv
  <2>10. UplinkInv'
    BY <2>1, <2>7, ThreadFacts, UplinkFrame DEF L2Inv
  <2>11. DownlinkInv'
    <3>1. Len(downlink'.sent) = Len(downlink.sent) + 1 /\ downlink'.sent[Len(downlink'.sent)] = pdu
      BY <1>0, <2>2, <2>5
    <3>2. InQueue' = InQueue /\ InQueue = Len(downlink.sent)
      <4>1. pdcp'.lock # None
        BY <2>4, ThreadFacts
      <4> QED BY <3>1, <4>1, <1>0, <1>1 DEF InQueue
    <3>3. Taken(RlcQueueThread, downlink)' = Taken(RlcQueueThread, downlink) /\ th'[RlcQueueThread] = th[RlcQueueThread]
      BY <2>2, <2>7, ThreadFacts DEF Taken
    <3>4. Taken(RlcQueueThread, downlink) \in Nat /\ q.length = InQueue - Taken(RlcQueueThread, downlink)
          /\ Holds(q.q, q.start, q.length, RlcQueueSize, downlink.sent, Taken(RlcQueueThread, downlink))
      BY DEF L2Inv, DownlinkInv, QueueInv
    <3>5. Holds(q.q, q.start, q.length, RlcQueueSize, downlink'.sent, Taken(RlcQueueThread, downlink))
      <4>1. Taken(RlcQueueThread, downlink) + q.length <= Len(downlink.sent)
        BY <3>2, <3>4, <1>0
      <4> QED BY <4>1, <3>4, <1>0, <2>2, <2>5, SendHolds
    <3>6. QueueInv(q, RlcQueueSize, RlcQueueThread, downlink, InQueue)'
      BY <3>2, <3>3, <3>4, <3>5, <2>1 DEF L2Inv, DownlinkInv, QueueInv
    <3> QED BY <3>1, <3>6, <2>4, <2>7, <1>0 DEF DownlinkInv
  <2>12. Downlink!Send(pdu)
    BY <2>2 DEF Downlink!Send
  <2> QED BY <2>5, <2>8, <2>9, <2>10, <2>11, <2>12 DEF L2Inv, Downlink!Next
<1> QED BY <1>2, <1>3

\* enqueue_rlc_data_req waits for room, or puts the PDU into the queue and releases the PDCP lock.
LEMMA EnqueueStep ==
  ASSUME L2Inv, NEW t \in Senders, enqueue_rlc_data_req(t)
  PROVE  L2Inv'
<1> DEFINE pdu == Pdu(th[t].ue, th[t].n)
           taken == Taken(RlcQueueThread, downlink)
<1>0. /\ downlink.sent \in Seq(AllPdus(MaxDownlink)) /\ Len(downlink.sent) \in Nat
      /\ RlcQueueSize \in Nat \ {0} /\ q \in Buffer(RlcQueueSize) /\ q.length \in 0..RlcQueueSize
      /\ q.waiting \subseteq Threads /\ ManagerOK(pdcp) /\ ManagerOK(rlc) /\ ThreadsOK
  BY DownlinkTypes
<1>1. t \in Threads /\ t # RlcQueueThread /\ th[t].pc = "enqueue" /\ pdcp.lock = t /\ pdcp.lock # None
      /\ UNCHANGED <<rlc, pq, downlink, uplink>>
  BY ThreadFacts DEF enqueue_rlc_data_req, At, L2Inv, LockInv
<1>2. CASE Q!Full(q)
  <2>1. q' = [q EXCEPT !.waiting = @ \cup {t}] /\ UNCHANGED <<pdcp, th>>
    BY <1>2 DEF enqueue_rlc_data_req, Q!Wait
  <2>2. /\ q' \in Buffer(RlcQueueSize) /\ q'.q = q.q /\ q'.start = q.start /\ q'.length = q.length
        /\ q'.waiting = q.waiting \cup {t}
    BY <2>1, <1>0, <1>1, WaitKeeps
  <2>3. TypeInv' /\ ProgramInv' /\ LockInv' /\ WaitInv'
    BY <1>1, <2>1, <2>2 DEF L2Inv, TypeInv, ManagerOK, ThreadsOK, ProgramInv, LockInv, WaitInv
  <2>4. DownlinkInv' /\ UplinkInv'
    BY <1>1, <2>1, <2>2, DownlinkFrame, UplinkFrame DEF L2Inv
  <2> QED BY <2>3, <2>4 DEF L2Inv
<1>3. CASE ~Q!Full(q)
  <2> DEFINE b == [q EXCEPT !.q[(q.start + q.length) % RlcQueueSize] = pdu, !.length = @ + 1]
  <2>1. /\ q' \in IF b.waiting = {} THEN {b} ELSE {[b EXCEPT !.waiting = @ \ {u}] : u \in b.waiting}
        /\ pdcp' = [pdcp EXCEPT !.lock = None] /\ th' = [th EXCEPT ![t] = Idle] /\ t \notin q.waiting
        /\ q.length # RlcQueueSize
    BY <1>3 DEF enqueue_rlc_data_req, Q!Full, Q!Put, Q!Signal
  <2>2. /\ taken \in Nat /\ q.length = (Len(downlink.sent) - 1) - taken
        /\ Holds(q.q, q.start, q.length, RlcQueueSize, downlink.sent, taken)
        /\ downlink.sent[Len(downlink.sent)] = pdu /\ Len(downlink.sent) > 0
    BY <1>1 DEF L2Inv, DownlinkInv, QueueInv, InQueue
  <2>3. pdu \in Ues \X Nat
    <3>1. Len(downlink.sent) \in 1..Len(downlink.sent)
      BY <1>0, <2>2
    <3>2. pdu \in AllPdus(MaxDownlink)
      BY <3>1, <1>0, <2>2
    <3> QED BY <3>2 DEF AllPdus
  <2>4. pdu = downlink.sent[taken + q.length + 1]
    <3>1. taken + q.length + 1 = Len(downlink.sent)
      BY <2>2, <1>0
    <3> QED BY <3>1, <2>2
  <2> HIDE DEF pdu, taken
  <2>5. /\ b \in Buffer(RlcQueueSize) /\ b.start = q.start /\ b.length = q.length + 1 /\ b.waiting = q.waiting
        /\ Holds(b.q, b.start, b.length, RlcQueueSize, downlink.sent, taken)
    BY <2>1, <2>2, <2>3, <2>4, <1>0, PutHolds
  <2> HIDE DEF b
  <2>6. /\ q' \in Buffer(RlcQueueSize) /\ q'.q = b.q /\ q'.start = b.start /\ q'.length = b.length
        /\ q'.waiting \subseteq b.waiting
    BY <2>1, <2>5, <1>0, SignalKeeps
  <2>7. pdcp' = [lock |-> None, ue_list |-> pdcp.ue_list, bearers |-> pdcp.bearers]
    BY <2>1, <1>0 DEF ManagerOK
  <2>8. pdcp'.lock = None /\ ManagerOK(pdcp')
    BY <2>7, <1>0 DEF ManagerOK
  <2>9. ThreadsOK' /\ Moves(t, [pc |-> "idle", ue |-> NoUe, n |-> 0])
    <3>1. th' = [th EXCEPT ![t] = [pc |-> "idle", ue |-> NoUe, n |-> 0]]
      BY <2>1 DEF Idle
    <3> QED BY <3>1, <1>0, <1>1, ThreadMoves
  <2>10. th'[t].pc = "idle" /\ \A u \in Threads \ {t} : th'[u] = th[u]
    BY <2>9 DEF Moves
  <2>11. TypeInv'
    BY <1>0, <1>1, <2>6, <2>8, <2>9 DEF L2Inv, TypeInv, ManagerOK
  <2>12. ProgramInv' /\ LockInv' /\ WaitInv'
    <3>1. \A u \in q'.waiting : u \in Threads /\ u # t /\ u \in q.waiting
      BY <2>1, <2>5, <2>6, <1>0
    <3>2. \A u \in Threads : u # t => th[u].pc # "enqueue"
      BY <1>1 DEF L2Inv, LockInv
    <3>3. WaitInv'
      BY <3>1, <2>10, <1>1, ThreadFacts DEF L2Inv, TypeInv, Buffer, WaitInv
    <3> QED BY <1>1, <2>8, <2>10, <3>2, <3>3, ThreadFacts DEF L2Inv, ProgramInv, LockInv
  <2>13. UplinkInv'
    BY <1>1, <2>10, ThreadFacts, UplinkFrame DEF L2Inv
  <2>14. DownlinkInv'
    <3>1. th'[RlcQueueThread] = th[RlcQueueThread]
      BY <1>1, <2>10, ThreadFacts
    <3>2. taken' = taken /\ InQueue' = Len(downlink.sent)
      BY <3>1, <1>1, <2>8 DEF Taken, InQueue, taken
    <3>3. q'.length = InQueue' - taken' /\ q'.length > 0
      BY <3>2, <2>2, <2>5, <2>6, <1>0
    <3>4. Holds(q'.q, q'.start, q'.length, RlcQueueSize, downlink'.sent, taken')
      BY <3>2, <2>5, <2>6, <1>1
    <3>5. th'[RlcQueueThread].pc # "idle" => th'[RlcQueueThread].n = q'.start
      BY <3>1, <2>5, <2>6 DEF L2Inv, DownlinkInv, QueueInv
    <3>6. QueueInv(q, RlcQueueSize, RlcQueueThread, downlink, InQueue)'
      BY <3>2, <3>3, <3>4, <3>5, <2>2 DEF QueueInv, taken
    <3> QED BY <3>6, <2>8 DEF DownlinkInv
  <2> QED BY <2>11, <2>12, <2>13, <2>14 DEF L2Inv
<1> QED BY <1>2, <1>3

\* rlc_data_req_thread finds the queue empty and waits, or reads its start.
LEMMA RlcWaitStep ==
  ASSUME L2Inv, RlcThreadWaits
  PROVE  L2Inv'
<1> DEFINE t == RlcQueueThread
<1>0. /\ RlcQueueSize \in Nat \ {0} /\ q \in Buffer(RlcQueueSize) /\ q.length \in 0..RlcQueueSize
      /\ q.waiting \subseteq Threads /\ ManagerOK(pdcp) /\ ManagerOK(rlc) /\ ThreadsOK
  BY DownlinkTypes
<1>1. t \in Threads /\ t \notin MacThreads /\ t # PdcpQueueThread /\ th[t].pc = "idle"
      /\ UNCHANGED <<pdcp, rlc, pq, downlink, uplink>>
  BY ThreadFacts DEF RlcThreadWaits, At
<1>2. CASE q.length = 0
  <2>1. q' = [q EXCEPT !.waiting = @ \cup {t}] /\ UNCHANGED th
    BY <1>2 DEF RlcThreadWaits, Q!Wait
  <2>2. /\ q' \in Buffer(RlcQueueSize) /\ q'.q = q.q /\ q'.start = q.start /\ q'.length = q.length
        /\ q'.waiting = q.waiting \cup {t}
    BY <2>1, <1>0, <1>1, WaitKeeps
  <2>3. TypeInv' /\ ProgramInv' /\ LockInv' /\ WaitInv'
    BY <1>1, <2>1, <2>2 DEF L2Inv, TypeInv, ManagerOK, ThreadsOK, ProgramInv, LockInv, WaitInv
  <2>4. DownlinkInv' /\ UplinkInv'
    BY <1>1, <2>1, <2>2, DownlinkFrame, UplinkFrame DEF L2Inv
  <2> QED BY <2>3, <2>4 DEF L2Inv
<1>3. CASE q.length # 0
  <2>1. th' = [th EXCEPT ![t] = [pc |-> "request", ue |-> NoUe, n |-> q.start]] /\ UNCHANGED q
    BY <1>3 DEF RlcThreadWaits
  <2>2. ThreadsOK' /\ Moves(t, [pc |-> "request", ue |-> NoUe, n |-> q.start])
    BY <2>1, <1>0, <1>1, ThreadMoves
  <2>3. /\ ThreadsOK' /\ Moves(t, th'[t]) /\ th'[t].pc = "request" /\ th'[t].n = q.start
        /\ q.length > 0
    BY <2>2, <1>0, <1>3 DEF Moves
  <2> QED BY <2>1, <2>3, <1>0, <1>1, ThreadStep
<1> QED BY <1>2, <1>3

\* rlc_data_req hands the oldest PDU over to RLC: the slot read outside the mutex still holds it.
LEMMA RlcHandStep ==
  ASSUME L2Inv, rlc_data_req
  PROVE  L2Inv' /\ [Downlink!Next]_(Downlink!vars)
<1> DEFINE t == RlcQueueThread
           pdu == q.q[th[t].n]
           h == Len(downlink.handed)
<1>0. /\ downlink.sent \in Seq(AllPdus(MaxDownlink)) /\ Len(downlink.sent) \in Nat
      /\ downlink.handed \in Seq(AllPdus(MaxDownlink)) /\ h \in Nat
      /\ downlink = [sent |-> downlink.sent, handed |-> downlink.handed]
      /\ RlcQueueSize \in Nat \ {0} /\ q \in Buffer(RlcQueueSize) /\ q.length \in 0..RlcQueueSize
      /\ q.waiting \subseteq Threads /\ ManagerOK(pdcp) /\ ManagerOK(rlc) /\ ThreadsOK
  BY DownlinkTypes
<1>1. /\ t \in Threads /\ t \notin MacThreads /\ t \notin Senders /\ t # PdcpQueueThread /\ t # TimerThread
      /\ th[t].pc = "request" /\ UNCHANGED <<pdcp, q, pq, uplink>>
      /\ rlc' = manager_get_ue(rlc, pdu[1])
      /\ downlink' = [downlink EXCEPT !.handed = Append(@, pdu)]
      /\ th' = [th EXCEPT ![t].pc = "remove"]
  BY ThreadFacts DEF rlc_data_req, At
<1>2. /\ Taken(t, downlink) = h /\ q.length = InQueue - h /\ q.length > 0 /\ th[t].n = q.start
      /\ Holds(q.q, q.start, q.length, RlcQueueSize, downlink.sent, h)
  BY <1>1 DEF L2Inv, DownlinkInv, QueueInv, Taken
<1>3. pdu = downlink.sent[h + 1]
  <2>1. q.start \in 0..(RlcQueueSize - 1)
    BY <1>0 DEF Buffer
  <2>2. (q.start + 0) % RlcQueueSize = q.start
    <3>1. q.start \in 0..(2 * RlcQueueSize - 1) /\ q.start + 0 = q.start /\ q.start < RlcQueueSize
      BY <2>1, <1>0
    <3> QED BY <3>1, <1>0, ModOnce
  <2>3. 0 \in 0..(q.length - 1) /\ h + 0 + 1 = h + 1
    BY <1>0, <1>2
  <2>4. q.q[(q.start + 0) % RlcQueueSize] = downlink.sent[h + 0 + 1]
    BY <1>2, <2>3 DEF Holds
  <2> QED BY <2>2, <2>3, <2>4, <1>2
<1>4. h < Len(downlink.sent)
  BY <1>0, <1>2 DEF InQueue
<1>5. pdu \in AllPdus(MaxDownlink)
  <2>1. h + 1 \in 1..Len(downlink.sent)
    BY <1>0, <1>4
  <2> QED BY <2>1, <1>0, <1>3
<1> HIDE DEF pdu
<1>6. /\ downlink'.sent = downlink.sent /\ downlink'.handed = Append(downlink.handed, pdu)
      /\ downlink' = [sent |-> downlink'.sent, handed |-> downlink'.handed]
  BY <1>0, <1>1
<1>7. Len(downlink'.handed) = h + 1 /\ downlink' \in Traffic(MaxDownlink)
  <2>1. Append(downlink.handed, pdu) \in Seq(AllPdus(MaxDownlink)) /\ Len(Append(downlink.handed, pdu)) = h + 1
    BY <1>0, <1>5
  <2> QED BY <2>1, <1>0, <1>6 DEF Traffic
<1>8. ManagerOK(rlc') /\ rlc'.lock = rlc.lock
  BY <1>0, <1>1, ManagerSteps
<1>9. /\ ThreadsOK' /\ th'[t].pc = "remove" /\ th'[t].n = th[t].n
      /\ \A u \in Threads \ {t} : th'[u] = th[u]
  <2>1. th' = [th EXCEPT ![t] = [pc |-> "remove", ue |-> th[t].ue, n |-> th[t].n]]
    <3>1. th[t] = [pc |-> th[t].pc, ue |-> th[t].ue, n |-> th[t].n]
      BY <1>0, <1>1 DEF ThreadsOK
    <3>2. [th[t] EXCEPT !.pc = "remove"] = [pc |-> "remove", ue |-> th[t].ue, n |-> th[t].n]
      BY <3>1
    <3> QED BY <3>2, <1>1
  <2>2. ThreadsOK' /\ Moves(t, [pc |-> "remove", ue |-> th[t].ue, n |-> th[t].n])
    BY <2>1, <1>0, <1>1, ThreadMoves
  <2> QED BY <2>2 DEF Moves
<1>10. TypeInv'
  BY <1>0, <1>1, <1>7, <1>8, <1>9 DEF L2Inv, TypeInv, ManagerOK
<1>11. ProgramInv' /\ LockInv' /\ WaitInv'
  BY <1>0, <1>1, <1>8, <1>9, ThreadFacts DEF L2Inv, TypeInv, Buffer, ProgramInv, LockInv, WaitInv
<1>12. UplinkInv'
  BY <1>1, <1>9, ThreadFacts, UplinkFrame DEF L2Inv
<1>13. DownlinkInv'
  <2>1. Taken(t, downlink)' = h
    BY <1>0, <1>7, <1>9 DEF Taken
  <2>2. InQueue' = InQueue
    BY <1>1, <1>6 DEF InQueue
  <2>3. pdcp.lock # None => th'[pdcp.lock] = th[pdcp.lock]
    BY <1>1, <1>9, ThreadFacts DEF L2Inv, LockInv
  <2>4. QueueInv(q, RlcQueueSize, RlcQueueThread, downlink, InQueue)'
    BY <2>1, <2>2, <1>0, <1>1, <1>2, <1>6, <1>9 DEF QueueInv
  <2> QED BY <2>3, <2>4, <1>1, <1>6 DEF L2Inv, DownlinkInv
<1>14. Downlink!Hand
  BY <1>3, <1>4, <1>6 DEF Downlink!Hand
<1> QED BY <1>10, <1>11, <1>12, <1>13, <1>14 DEF L2Inv, Downlink!Next

\* rlc_data_req_thread gives the slot up.
LEMMA RlcRemoveStep ==
  ASSUME L2Inv, RlcThreadRemoves
  PROVE  L2Inv'
<1> DEFINE t == RlcQueueThread
           h == Len(downlink.handed)
           b == [q EXCEPT !.length = @ - 1, !.start = (@ + 1) % RlcQueueSize]
<1>0. /\ downlink.sent \in Seq(AllPdus(MaxDownlink)) /\ Len(downlink.sent) \in Nat /\ h \in Nat
      /\ RlcQueueSize \in Nat \ {0} /\ q \in Buffer(RlcQueueSize) /\ q.length \in 0..RlcQueueSize
      /\ q.waiting \subseteq Threads /\ ManagerOK(pdcp) /\ ManagerOK(rlc) /\ ThreadsOK
  BY DownlinkTypes
<1>1. /\ t \in Threads /\ t \notin MacThreads /\ t \notin Senders /\ t # PdcpQueueThread /\ t # TimerThread
      /\ th[t].pc = "remove" /\ UNCHANGED <<pdcp, rlc, pq, downlink, uplink>>
      /\ q' \in IF b.waiting = {} THEN {b} ELSE {[b EXCEPT !.waiting = @ \ {u}] : u \in b.waiting}
      /\ th' = [th EXCEPT ![t] = [pc |-> "idle", ue |-> NoUe, n |-> 0]]
  BY ThreadFacts DEF RlcThreadRemoves, At, Q!Remove, Q!Signal, Idle
<1>2. /\ h - 1 \in Nat /\ q.length = InQueue - (h - 1) /\ q.length > 0
      /\ Holds(q.q, q.start, q.length, RlcQueueSize, downlink.sent, h - 1)
  BY <1>1 DEF L2Inv, DownlinkInv, QueueInv, Taken
<1>3. /\ b \in Buffer(RlcQueueSize) /\ b.length = q.length - 1 /\ b.waiting = q.waiting
      /\ Holds(b.q, b.start, b.length, RlcQueueSize, downlink.sent, (h - 1) + 1)
  BY <1>0, <1>2, RemoveHolds
<1> HIDE DEF b
<1>4. /\ q' \in Buffer(RlcQueueSize) /\ q'.q = b.q /\ q'.start = b.start /\ q'.length = b.length
      /\ q'.waiting \subseteq b.waiting
  BY <1>0, <1>1, <1>3, SignalKeeps
<1>5. ThreadsOK' /\ th'[t].pc = "idle" /\ \A u \in Threads \ {t} : th'[u] = th[u]
  <2>1. ThreadsOK' /\ Moves(t, [pc |-> "idle", ue |-> NoUe, n |-> 0])
    BY <1>0, <1>1, ThreadMoves
  <2> QED BY <2>1 DEF Moves
<1>6. TypeInv'
  BY <1>0, <1>1, <1>4, <1>5 DEF L2Inv, TypeInv, ManagerOK
<1>7. ProgramInv' /\ LockInv' /\ WaitInv'
  <2>1. \A u \in q'.waiting : u \in Threads /\ u \in q.waiting
    BY <1>0, <1>3, <1>4
  <2> QED BY <2>1, <1>1, <1>5, ThreadFacts DEF L2Inv, TypeInv, Buffer, ProgramInv, LockInv, WaitInv
<1>8. UplinkInv'
  BY <1>1, <1>5, ThreadFacts, UplinkFrame DEF L2Inv
<1>9. DownlinkInv'
  <2>1. Taken(t, downlink)' = h /\ InQueue' = InQueue /\ InQueue \in Int
    BY <1>0, <1>1, <1>5 DEF Taken, InQueue
  <2>2. pdcp.lock # None => th'[pdcp.lock] = th[pdcp.lock]
    BY <1>1, <1>5, ThreadFacts DEF L2Inv, LockInv
  <2>3. q'.length = InQueue - h /\ (h - 1) + 1 = h
    BY <2>1, <1>0, <1>2, <1>3, <1>4
  <2>4. Holds(q'.q, q'.start, q'.length, RlcQueueSize, downlink'.sent, h)
    BY <2>3, <1>1, <1>3, <1>4
  <2>5. QueueInv(q, RlcQueueSize, RlcQueueThread, downlink, InQueue)'
    BY <2>1, <2>3, <2>4, <1>0, <1>5 DEF QueueInv
  <2> QED BY <2>2, <2>5, <1>1 DEF L2Inv, DownlinkInv
<1> QED BY <1>6, <1>7, <1>8, <1>9 DEF L2Inv

---------------------------------------------------------------------------
(* The uplink.                                                             *)

\* What the types say of the uplink.
LEMMA UplinkTypes ==
  ASSUME L2Inv
  PROVE  /\ uplink.sent \in Seq(AllPdus(MaxUplink)) /\ uplink.handed \in Seq(AllPdus(MaxUplink))
         /\ Len(uplink.sent) \in Nat /\ Len(uplink.handed) \in Nat
         /\ uplink = [sent |-> uplink.sent, handed |-> uplink.handed]
         /\ PdcpQueueSize \in Nat \ {0} /\ MaxUplink \in Nat /\ pq \in Buffer(PdcpQueueSize)
         /\ pq.length \in 0..PdcpQueueSize /\ pq.waiting \subseteq Threads /\ ManagerOK(pdcp) /\ ManagerOK(rlc)
         /\ ThreadsOK
<1>1. uplink \in Traffic(MaxUplink) /\ pq \in Buffer(PdcpQueueSize) /\ ManagerOK(pdcp) /\ ManagerOK(rlc) /\ ThreadsOK
  BY DEF L2Inv, TypeInv
<1>2. PdcpQueueSize \in Nat \ {0} /\ MaxUplink \in Nat
  BY SizeAssumption
<1> QED BY <1>1, <1>2 DEF Traffic, Buffer

\* mac_rlc_data_ind for a UE with a bearer takes the RLC lock for the SDUs it completes.
LEMMA IndicationStep ==
  ASSUME L2Inv, NEW t \in MacThreads, NEW ue \in Ues, NEW count \in 1..MaxSdusPerPdu, mac_rlc_data_ind(t, ue, count)
  PROVE  L2Inv'
<1> DEFINE m == manager_get_ue(rlc, ue)
           r == [pc |-> "deliver", ue |-> ue, n |-> count]
<1>0. ManagerOK(pdcp) /\ ManagerOK(rlc) /\ ThreadsOK /\ t \in Threads /\ t # RlcQueueThread /\ t # PdcpQueueThread
      /\ t \notin Senders /\ t # TimerThread
  BY UplinkTypes, ThreadFacts
<1>1. /\ ManagerOK(m) /\ m.lock = rlc.lock /\ m.bearers = rlc.bearers /\ rlc.lock = None /\ th[t].pc = "idle"
      /\ Len(uplink.sent) + count <= MaxUplink /\ UNCHANGED <<pdcp, q, pq, downlink, uplink>>
  BY <1>0, ManagerSteps DEF mac_rlc_data_ind, At
<1>2. CASE ue \notin m.bearers
  <2>1. rlc' = m /\ UNCHANGED th
    BY <1>2 DEF mac_rlc_data_ind
  <2> QED BY <2>1, <1>0, <1>1, ManagerStep
<1>3. CASE ue \in m.bearers
  <2>1. rlc' = [m EXCEPT !.lock = t] /\ th' = [th EXCEPT ![t] = r]
    BY <1>3 DEF mac_rlc_data_ind
  <2>2. rlc' = [lock |-> t, ue_list |-> m.ue_list, bearers |-> m.bearers]
    BY <1>1, <2>1 DEF ManagerOK
  <2>3. rlc'.lock = t /\ ManagerOK(rlc')
    BY <2>2, <1>1 DEF ManagerOK
  <2>4. ThreadsOK' /\ Moves(t, r)
    BY <2>1, <1>0, ThreadMoves
  <2>5. th'[t].pc = "deliver" /\ th'[t].ue = ue /\ th'[t].n = count /\ \A u \in Threads \ {t} : th'[u] = th[u]
    BY <2>4 DEF Moves
  <2> HIDE DEF m, r
  <2>6. TypeInv'
    BY <1>0, <1>1, <2>3, <2>4 DEF L2Inv, TypeInv, ManagerOK
  <2>7. ProgramInv' /\ LockInv' /\ WaitInv'
    BY <1>0, <1>1, <2>3, <2>5, ThreadFacts DEF L2Inv, TypeInv, Buffer, ProgramInv, LockInv, WaitInv
  <2>8. DownlinkInv'
    <3>1. pdcp.lock # None => th'[pdcp.lock] = th[pdcp.lock]
      BY <1>0, <2>5, ThreadFacts DEF L2Inv, LockInv
    <3> QED BY <3>1, <1>0, <1>1, <2>5, ThreadFacts, DownlinkFrame DEF L2Inv
  <2>9. UplinkInv'
    <3>1. th'[PdcpQueueThread] = th[PdcpQueueThread]
      BY <1>0, <2>5, ThreadFacts
    <3>2. Taken(PdcpQueueThread, uplink)' = Taken(PdcpQueueThread, uplink)
      BY <3>1, <1>1 DEF Taken
    <3>3. QueueInv(pq, PdcpQueueSize, PdcpQueueThread, uplink, Len(uplink.sent))'
      BY <3>1, <3>2, <1>1 DEF L2Inv, UplinkInv, QueueInv
    <3>4. ASSUME NEW u \in MacThreads, th'[u].pc = "deliver"
          PROVE  th'[u].ue \in Ues /\ th'[u].n \in Nat \ {0} /\ Len(uplink'.sent) + th'[u].n <= MaxUplink
      <4>1. u = t
        BY <3>4, <1>1, <2>5, ThreadFacts DEF L2Inv, LockInv
      <4>2. count \in Nat \ {0}
        BY SizeAssumption
      <4> QED BY <4>1, <4>2, <1>1, <2>5
    <3> QED BY <3>3, <3>4 DEF UplinkInv
  <2> QED BY <2>6, <2>7, <2>8, <2>9 DEF L2Inv
<1> QED BY <1>2, <1>3

\* deliver_sdu waits for room, or puts an SDU into the queue to PDCP; after the last one the
\* RLC lock is released.
LEMMA DeliverStep ==
  ASSUME L2Inv, NEW t \in MacThreads, deliver_sdu(t)
  PROVE  L2Inv' /\ [Uplink!Next]_(Uplink!vars)
<1> DEFINE pdu == Pdu(th[t].ue, Len(uplink.sent) + 1)
           taken == Taken(PdcpQueueThread, uplink)
           done == th[t].n = 1
<1>0. /\ uplink.sent \in Seq(AllPdus(MaxUplink)) /\ Len(uplink.sent) \in Nat
      /\ uplink.handed \in Seq(AllPdus(MaxUplink))
      /\ uplink = [sent |-> uplink.sent, handed |-> uplink.handed] /\ MaxUplink \in Nat
      /\ PdcpQueueSize \in Nat \ {0} /\ pq \in Buffer(PdcpQueueSize) /\ pq.length \in 0..PdcpQueueSize
      /\ pq.waiting \subseteq Threads /\ ManagerOK(pdcp) /\ ManagerOK(rlc) /\ ThreadsOK
  BY UplinkTypes
<1>1. /\ t \in Threads /\ t # PdcpQueueThread /\ t # RlcQueueThread /\ t # TimerThread /\ t \notin Senders
      /\ th[t].pc = "deliver" /\ rlc.lock = t /\ rlc.lock # None /\ UNCHANGED <<pdcp, q, downlink>>
      /\ th[t].ue \in Ues /\ th[t].n \in Nat \ {0} /\ Len(uplink.sent) + th[t].n <= MaxUplink
  BY ThreadFacts DEF deliver_sdu, At, L2Inv, LockInv, UplinkInv
<1>2. CASE PQ!Full(pq)
  <2>1. pq' = [pq EXCEPT !.waiting = @ \cup {t}] /\ UNCHANGED <<rlc, th, uplink>>
    BY <1>2 DEF deliver_sdu, PQ!Wait
  <2>2. /\ pq' \in Buffer(PdcpQueueSize) /\ pq'.q = pq.q /\ pq'.start = pq.start /\ pq'.length = pq.length
        /\ pq'.waiting = pq.waiting \cup {t}
    BY <2>1, <1>0, <1>1, WaitKeeps, SMTT(30)
  <2>3. TypeInv' /\ ProgramInv' /\ LockInv' /\ WaitInv'
    BY <1>1, <2>1, <2>2 DEF L2Inv, TypeInv, ManagerOK, ThreadsOK, ProgramInv, LockInv, WaitInv
  <2>4. DownlinkInv' /\ UplinkInv'
    BY <1>1, <2>1, <2>2, DownlinkFrame, UplinkFrame DEF L2Inv
  <2> QED BY <2>1, <2>3, <2>4 DEF L2Inv, Uplink!vars
<1>3. CASE ~PQ!Full(pq)
  <2> DEFINE b == [pq EXCEPT !.q[(pq.start + pq.length) % PdcpQueueSize] = pdu, !.length = @ + 1]
  <2>1. /\ pq' \in IF b.waiting = {} THEN {b} ELSE {[b EXCEPT !.waiting = @ \ {u}] : u \in b.waiting}
        /\ uplink' = [uplink EXCEPT !.sent = Append(@, pdu)]
        /\ th' = [th EXCEPT ![t] = IF done THEN Idle ELSE [th[t] EXCEPT !.n = @ - 1]]
        /\ rlc' = [rlc EXCEPT !.lock = IF done THEN None ELSE @] /\ t \notin pq.waiting
        /\ pq.length # PdcpQueueSize
    BY <1>3 DEF deliver_sdu, PQ!Full, PQ!Put, PQ!Signal
  <2>2. /\ taken \in Nat /\ pq.length = Len(uplink.sent) - taken
        /\ Holds(pq.q, pq.start, pq.length, PdcpQueueSize, uplink.sent, taken)
    BY DEF L2Inv, UplinkInv, QueueInv
  <2>3. pdu \in Ues \X Nat /\ pdu \in AllPdus(MaxUplink)
    BY <1>0, <1>1 DEF AllPdus, Pdu
  <2> HIDE DEF pdu, taken
  <2>4. /\ uplink'.sent = Append(uplink.sent, pdu) /\ uplink'.handed = uplink.handed
        /\ uplink' = [sent |-> uplink'.sent, handed |-> uplink'.handed]
    BY <1>0, <2>1
  <2>5. /\ uplink'.sent \in Seq(AllPdus(MaxUplink)) /\ Len(uplink'.sent) = Len(uplink.sent) + 1
        /\ uplink'.sent[Len(uplink.sent) + 1] = pdu
    BY <1>0, <2>3, <2>4
  <2>6. Holds(pq.q, pq.start, pq.length, PdcpQueueSize, uplink'.sent, taken)
    <3>1. taken + pq.length <= Len(uplink.sent) /\ pq.length \in Nat
      BY <1>0, <2>2
    <3> QED BY <3>1, <1>0, <2>2, <2>3, <2>4, SendHolds
  <2>7. pdu = uplink'.sent[taken + pq.length + 1]
    <3>1. taken + pq.length + 1 = Len(uplink.sent) + 1
      BY <1>0, <2>2
    <3> QED BY <3>1, <2>5
  <2>8. /\ b \in Buffer(PdcpQueueSize) /\ b.start = pq.start /\ b.length = pq.length + 1 /\ b.waiting = pq.waiting
        /\ Holds(b.q, b.start, b.length, PdcpQueueSize, uplink'.sent, taken)
    BY <2>1, <2>2, <2>3, <2>6, <2>7, <1>0, PutHolds
  <2> HIDE DEF b
  <2>9. /\ pq' \in Buffer(PdcpQueueSize) /\ pq'.q = b.q /\ pq'.start = b.start /\ pq'.length = b.length
        /\ pq'.waiting \subseteq b.waiting
    BY <2>1, <2>8, <1>0, SignalKeeps
  <2>10. rlc' = [lock |-> IF done THEN None ELSE t, ue_list |-> rlc.ue_list, bearers |-> rlc.bearers]
    BY <2>1, <1>0, <1>1 DEF ManagerOK
  <2>11. rlc'.lock = (IF done THEN None ELSE t) /\ ManagerOK(rlc')
    BY <2>10, <1>0 DEF ManagerOK
  <2>12. /\ ThreadsOK' /\ \A u \in Threads \ {t} : th'[u] = th[u]
         /\ done => th'[t].pc = "idle"
         /\ ~done => th'[t].pc = "deliver" /\ th'[t].ue = th[t].ue /\ th'[t].n = th[t].n - 1
    <3>1. CASE done
      <4>1. th' = [th EXCEPT ![t] = [pc |-> "idle", ue |-> NoUe, n |-> 0]]
        BY <3>1, <2>1 DEF Idle
      <4>2. ThreadsOK' /\ Moves(t, [pc |-> "idle", ue |-> NoUe, n |-> 0])
        BY <4>1, <1>0, <1>1, ThreadMoves
      <4> QED BY <3>1, <4>2 DEF Moves
    <3>2. CASE ~done
      <4>1. th[t] = [pc |-> th[t].pc, ue |-> th[t].ue, n |-> th[t].n]
        BY <1>0, <1>1 DEF ThreadsOK
      <4>2. [th[t] EXCEPT !.n = @ - 1] = [pc |-> "deliver", ue |-> th[t].ue, n |-> th[t].n - 1]
        BY <4>1, <1>1
      <4>3. th' = [th EXCEPT ![t] = [pc |-> "deliver", ue |-> th[t].ue, n |-> th[t].n - 1]]
        <5>1. th' = [th EXCEPT ![t] = [th[t] EXCEPT !.n = @ - 1]]
          BY <3>2, <2>1
        <5> QED BY <5>1, <4>2
      <4>4. ThreadsOK' /\ Moves(t, [pc |-> "deliver", ue |-> th[t].ue, n |-> th[t].n - 1])
        BY <4>3, <1>0, <1>1, ThreadMoves
      <4> QED BY <3>2, <4>4 DEF Moves
    <3> QED BY <3>1, <3>2
  <2>13. TypeInv'
    <3>1. uplink' \in Traffic(MaxUplink)
      BY <1>0, <2>4, <2>5 DEF Traffic
    <3> QED BY <3>1, <1>0, <1>1, <2>9, <2>11, <2>12 DEF L2Inv, TypeInv, ManagerOK
  <2>14. ProgramInv' /\ LockInv' /\ WaitInv'
    <3>1. \A u \in pq'.waiting : u \in Threads /\ u # t /\ u \in pq.waiting
      BY <2>1, <2>8, <2>9, <1>0
    <3>2. \A u \in Threads : u # t => th[u].pc # "deliver"
      BY <1>1 DEF L2Inv, LockInv
    <3>3. WaitInv'
      BY <3>1, <2>12, <1>1, ThreadFacts DEF L2Inv, TypeInv, Buffer, WaitInv
    <3> QED BY <1>1, <2>11, <2>12, <3>2, <3>3, ThreadFacts DEF L2Inv, ProgramInv, LockInv
  <2>15. DownlinkInv'
    <3>1. pdcp.lock # None => th'[pdcp.lock] = th[pdcp.lock]
      BY <1>1, <2>12, ThreadFacts DEF L2Inv, LockInv
    <3> QED BY <3>1, <1>1, <2>12, ThreadFacts, DownlinkFrame DEF L2Inv
  <2>16. UplinkInv'
    <3>1. th'[PdcpQueueThread] = th[PdcpQueueThread]
      BY <1>1, <2>12, ThreadFacts
    <3>2. taken' = taken
      BY <3>1, <2>4 DEF Taken, taken
    <3>3. pq'.length = Len(uplink'.sent) - taken' /\ pq'.length > 0
      BY <3>2, <1>0, <2>2, <2>5, <2>8, <2>9
    <3>4. Holds(pq'.q, pq'.start, pq'.length, PdcpQueueSize, uplink'.sent, taken')
      BY <3>2, <2>8, <2>9
    <3>5. th'[PdcpQueueThread].pc # "idle" => th'[PdcpQueueThread].n = pq'.start
      BY <3>1, <2>8, <2>9 DEF L2Inv, UplinkInv, QueueInv
    <3>6. QueueInv(pq, PdcpQueueSize, PdcpQueueThread, uplink, Len(uplink.sent))'
      BY <3>2, <3>3, <3>4, <3>5, <2>2 DEF QueueInv, taken
    <3>7. ASSUME NEW u \in MacThreads, th'[u].pc = "deliver"
          PROVE  th'[u].ue \in Ues /\ th'[u].n \in Nat \ {0} /\ Len(uplink'.sent) + th'[u].n <= MaxUplink
      <4>1. u = t /\ ~done
        BY <3>7, <1>1, <2>12, ThreadFacts DEF L2Inv, LockInv
      <4>2. th'[t].ue = th[t].ue /\ th'[t].n = th[t].n - 1
        BY <4>1, <2>12
      <4> QED BY <4>1, <4>2, <1>0, <1>1, <2>5
    <3> QED BY <3>6, <3>7 DEF UplinkInv
  <2>17. Uplink!Send(pdu)
    BY <2>4 DEF Uplink!Send
  <2> QED BY <2>3, <2>13, <2>14, <2>15, <2>16, <2>17 DEF L2Inv, Uplink!Next
<1> QED BY <1>2, <1>3

\* pdcp_data_ind_thread finds the queue empty and waits, or reads its start.
LEMMA PdcpWaitStep ==
  ASSUME L2Inv, PdcpThreadWaits
  PROVE  L2Inv'
<1> DEFINE t == PdcpQueueThread
<1>0. /\ PdcpQueueSize \in Nat \ {0} /\ pq \in Buffer(PdcpQueueSize) /\ pq.length \in 0..PdcpQueueSize
      /\ pq.waiting \subseteq Threads /\ ManagerOK(rlc) /\ ManagerOK(pdcp) /\ ThreadsOK
  BY UplinkTypes
<1>1. t \in Threads /\ t \notin MacThreads /\ t # RlcQueueThread /\ th[t].pc = "idle"
      /\ UNCHANGED <<rlc, pdcp, q, uplink, downlink>>
  BY ThreadFacts DEF PdcpThreadWaits, At
<1>2. CASE pq.length = 0
  <2>1. pq' = [pq EXCEPT !.waiting = @ \cup {t}] /\ UNCHANGED th
    BY <1>2 DEF PdcpThreadWaits, PQ!Wait
  <2>2. /\ pq' \in Buffer(PdcpQueueSize) /\ pq'.q = pq.q /\ pq'.start = pq.start /\ pq'.length = pq.length
        /\ pq'.waiting = pq.waiting \cup {t}
    BY <2>1, <1>0, <1>1, WaitKeeps
  <2>3. TypeInv' /\ ProgramInv' /\ LockInv' /\ WaitInv'
    BY <1>1, <2>1, <2>2 DEF L2Inv, TypeInv, ManagerOK, ThreadsOK, ProgramInv, LockInv, WaitInv
  <2>4. UplinkInv' /\ DownlinkInv'
    BY <1>1, <2>1, <2>2, UplinkFrame, DownlinkFrame DEF L2Inv
  <2> QED BY <2>3, <2>4 DEF L2Inv
<1>3. CASE pq.length # 0
  <2>1. th' = [th EXCEPT ![t] = [pc |-> "request", ue |-> NoUe, n |-> pq.start]] /\ UNCHANGED pq
    BY <1>3 DEF PdcpThreadWaits
  <2>2. ThreadsOK' /\ Moves(t, [pc |-> "request", ue |-> NoUe, n |-> pq.start])
    BY <2>1, <1>0, <1>1, ThreadMoves
  <2>3. /\ ThreadsOK' /\ Moves(t, th'[t]) /\ th'[t].pc = "request" /\ th'[t].n = pq.start
        /\ pq.length > 0
    BY <2>2, <1>0, <1>3 DEF Moves
  <2> QED BY <2>1, <2>3, <1>0, <1>1, ThreadStep
<1> QED BY <1>2, <1>3

\* do_pdcp_data_ind hands the oldest PDU over to PDCP: the slot read outside the mutex still holds it.
LEMMA PdcpHandStep ==
  ASSUME L2Inv, do_pdcp_data_ind
  PROVE  L2Inv' /\ [Uplink!Next]_(Uplink!vars)
<1> DEFINE t == PdcpQueueThread
           pdu == pq.q[th[t].n]
           h == Len(uplink.handed)
<1>0. /\ uplink.sent \in Seq(AllPdus(MaxUplink)) /\ Len(uplink.sent) \in Nat
      /\ uplink.handed \in Seq(AllPdus(MaxUplink)) /\ h \in Nat
      /\ uplink = [sent |-> uplink.sent, handed |-> uplink.handed]
      /\ PdcpQueueSize \in Nat \ {0} /\ pq \in Buffer(PdcpQueueSize) /\ pq.length \in 0..PdcpQueueSize
      /\ pq.waiting \subseteq Threads /\ ManagerOK(rlc) /\ ManagerOK(pdcp) /\ ThreadsOK
  BY UplinkTypes
<1>1. /\ t \in Threads /\ t \notin MacThreads /\ t \notin Senders /\ t # RlcQueueThread /\ t # TimerThread
      /\ th[t].pc = "request" /\ UNCHANGED <<rlc, pq, q, downlink>>
      /\ pdcp' = manager_get_ue(pdcp, pdu[1])
      /\ uplink' = [uplink EXCEPT !.handed = Append(@, pdu)]
      /\ th' = [th EXCEPT ![t].pc = "remove"]
  BY ThreadFacts DEF do_pdcp_data_ind, At
<1>2. /\ Taken(t, uplink) = h /\ pq.length = Len(uplink.sent) - h /\ pq.length > 0 /\ th[t].n = pq.start
      /\ Holds(pq.q, pq.start, pq.length, PdcpQueueSize, uplink.sent, h)
  BY <1>1 DEF L2Inv, UplinkInv, QueueInv, Taken
<1>3. pdu = uplink.sent[h + 1]
  <2>1. pq.start \in 0..(PdcpQueueSize - 1)
    BY <1>0 DEF Buffer
  <2>2. (pq.start + 0) % PdcpQueueSize = pq.start
    <3>1. pq.start \in 0..(2 * PdcpQueueSize - 1) /\ pq.start + 0 = pq.start /\ pq.start < PdcpQueueSize
      BY <2>1, <1>0
    <3> QED BY <3>1, <1>0, ModOnce
  <2>3. 0 \in 0..(pq.length - 1) /\ h + 0 + 1 = h + 1
    BY <1>0, <1>2
  <2>4. pq.q[(pq.start + 0) % PdcpQueueSize] = uplink.sent[h + 0 + 1]
    BY <1>2, <2>3 DEF Holds
  <2> QED BY <2>2, <2>3, <2>4, <1>2
<1>4. h < Len(uplink.sent)
  BY <1>0, <1>2
<1>5. pdu \in AllPdus(MaxUplink)
  <2>1. h + 1 \in 1..Len(uplink.sent)
    BY <1>0, <1>4
  <2> QED BY <2>1, <1>0, <1>3
<1> HIDE DEF pdu
<1>6. /\ uplink'.sent = uplink.sent /\ uplink'.handed = Append(uplink.handed, pdu)
      /\ uplink' = [sent |-> uplink'.sent, handed |-> uplink'.handed]
  BY <1>0, <1>1
<1>7. Len(uplink'.handed) = h + 1 /\ uplink' \in Traffic(MaxUplink)
  <2>1. Append(uplink.handed, pdu) \in Seq(AllPdus(MaxUplink)) /\ Len(Append(uplink.handed, pdu)) = h + 1
    BY <1>0, <1>5
  <2> QED BY <2>1, <1>0, <1>6 DEF Traffic
<1>8. ManagerOK(pdcp') /\ pdcp'.lock = pdcp.lock
  BY <1>0, <1>1, ManagerSteps
<1>9. /\ ThreadsOK' /\ th'[t].pc = "remove" /\ th'[t].n = th[t].n
      /\ \A u \in Threads \ {t} : th'[u] = th[u]
  <2>1. th' = [th EXCEPT ![t] = [pc |-> "remove", ue |-> th[t].ue, n |-> th[t].n]]
    <3>1. th[t] = [pc |-> th[t].pc, ue |-> th[t].ue, n |-> th[t].n]
      BY <1>0, <1>1 DEF ThreadsOK
    <3>2. [th[t] EXCEPT !.pc = "remove"] = [pc |-> "remove", ue |-> th[t].ue, n |-> th[t].n]
      BY <3>1
    <3> QED BY <3>2, <1>1
  <2>2. ThreadsOK' /\ Moves(t, [pc |-> "remove", ue |-> th[t].ue, n |-> th[t].n])
    BY <2>1, <1>0, <1>1, ThreadMoves
  <2> QED BY <2>2 DEF Moves
<1>10. TypeInv'
  BY <1>0, <1>1, <1>7, <1>8, <1>9 DEF L2Inv, TypeInv, ManagerOK
<1>11. ProgramInv' /\ LockInv' /\ WaitInv'
  BY <1>0, <1>1, <1>8, <1>9, ThreadFacts DEF L2Inv, TypeInv, Buffer, ProgramInv, LockInv, WaitInv
<1>12. DownlinkInv'
  <2>1. pdcp.lock # None => th'[pdcp.lock] = th[pdcp.lock]
    BY <1>1, <1>9, ThreadFacts DEF L2Inv, LockInv
  <2> QED BY <2>1, <1>1, <1>8, <1>9, ThreadFacts, DownlinkFrame DEF L2Inv
<1>13. UplinkInv'
  <2>1. Taken(t, uplink)' = h
    BY <1>0, <1>7, <1>9 DEF Taken
  <2>2. Len(uplink.sent)' = Len(uplink.sent)
    BY <1>6
  <2>3. \A u \in MacThreads : th'[u] = th[u]
    BY <1>1, <1>9, ThreadFacts
  <2>4. QueueInv(pq, PdcpQueueSize, PdcpQueueThread, uplink, Len(uplink.sent))'
    BY <2>1, <2>2, <1>0, <1>1, <1>2, <1>6, <1>9 DEF QueueInv
  <2> QED BY <2>3, <2>4, <1>1, <1>6 DEF L2Inv, UplinkInv
<1>14. Uplink!Hand
  BY <1>3, <1>4, <1>6 DEF Uplink!Hand
<1> QED BY <1>10, <1>11, <1>12, <1>13, <1>14 DEF L2Inv, Uplink!Next

\* pdcp_data_ind_thread gives the slot up.
LEMMA PdcpRemoveStep ==
  ASSUME L2Inv, PdcpThreadRemoves
  PROVE  L2Inv'
<1> DEFINE t == PdcpQueueThread
           h == Len(uplink.handed)
           b == [pq EXCEPT !.length = @ - 1, !.start = (@ + 1) % PdcpQueueSize]
<1>0. /\ uplink.sent \in Seq(AllPdus(MaxUplink)) /\ Len(uplink.sent) \in Nat /\ h \in Nat
      /\ PdcpQueueSize \in Nat \ {0} /\ pq \in Buffer(PdcpQueueSize) /\ pq.length \in 0..PdcpQueueSize
      /\ pq.waiting \subseteq Threads /\ ManagerOK(rlc) /\ ManagerOK(pdcp) /\ ThreadsOK
  BY UplinkTypes
<1>1. /\ t \in Threads /\ t \notin MacThreads /\ t \notin Senders /\ t # RlcQueueThread /\ t # TimerThread
      /\ th[t].pc = "remove" /\ UNCHANGED <<rlc, pdcp, q, uplink, downlink>>
      /\ pq' \in IF b.waiting = {} THEN {b} ELSE {[b EXCEPT !.waiting = @ \ {u}] : u \in b.waiting}
      /\ th' = [th EXCEPT ![t] = [pc |-> "idle", ue |-> NoUe, n |-> 0]]
  BY ThreadFacts DEF PdcpThreadRemoves, At, PQ!Remove, PQ!Signal, Idle
<1>2. /\ h - 1 \in Nat /\ pq.length = Len(uplink.sent) - (h - 1) /\ pq.length > 0
      /\ Holds(pq.q, pq.start, pq.length, PdcpQueueSize, uplink.sent, h - 1)
  BY <1>1 DEF L2Inv, UplinkInv, QueueInv, Taken
<1>3. /\ b \in Buffer(PdcpQueueSize) /\ b.length = pq.length - 1 /\ b.waiting = pq.waiting
      /\ Holds(b.q, b.start, b.length, PdcpQueueSize, uplink.sent, (h - 1) + 1)
  BY <1>0, <1>2, RemoveHolds
<1> HIDE DEF b
<1>4. /\ pq' \in Buffer(PdcpQueueSize) /\ pq'.q = b.q /\ pq'.start = b.start /\ pq'.length = b.length
      /\ pq'.waiting \subseteq b.waiting
  BY <1>0, <1>1, <1>3, SignalKeeps
<1>5. ThreadsOK' /\ th'[t].pc = "idle" /\ \A u \in Threads \ {t} : th'[u] = th[u]
  <2>1. ThreadsOK' /\ Moves(t, [pc |-> "idle", ue |-> NoUe, n |-> 0])
    BY <1>0, <1>1, ThreadMoves
  <2> QED BY <2>1 DEF Moves
<1>6. TypeInv'
  BY <1>0, <1>1, <1>4, <1>5 DEF L2Inv, TypeInv, ManagerOK
<1>7. ProgramInv' /\ LockInv' /\ WaitInv'
  <2>1. \A u \in pq'.waiting : u \in Threads /\ u \in pq.waiting
    BY <1>0, <1>3, <1>4
  <2> QED BY <2>1, <1>1, <1>5, ThreadFacts DEF L2Inv, TypeInv, Buffer, ProgramInv, LockInv, WaitInv
<1>8. DownlinkInv'
  <2>1. pdcp.lock # None => th'[pdcp.lock] = th[pdcp.lock]
    BY <1>1, <1>5, ThreadFacts DEF L2Inv, LockInv
  <2> QED BY <2>1, <1>1, <1>5, ThreadFacts, DownlinkFrame DEF L2Inv
<1>9. UplinkInv'
  <2>1. Taken(t, uplink)' = h /\ Len(uplink.sent)' = Len(uplink.sent) /\ Len(uplink.sent) \in Int
    BY <1>0, <1>1, <1>5 DEF Taken
  <2>2. \A u \in MacThreads : th'[u] = th[u]
    BY <1>1, <1>5, ThreadFacts
  <2>3. pq'.length = Len(uplink.sent) - h /\ (h - 1) + 1 = h
    BY <2>1, <1>0, <1>2, <1>3, <1>4
  <2>4. Holds(pq'.q, pq'.start, pq'.length, PdcpQueueSize, uplink'.sent, h)
    BY <2>3, <1>1, <1>3, <1>4
  <2>5. QueueInv(pq, PdcpQueueSize, PdcpQueueThread, uplink, Len(uplink.sent))'
    BY <2>1, <2>3, <2>4, <1>0, <1>5 DEF QueueInv
  <2> QED BY <2>2, <2>5, <1>1 DEF L2Inv, UplinkInv
<1> QED BY <1>6, <1>7, <1>8, <1>9 DEF L2Inv

---------------------------------------------------------------------------
(* The theorems.                                                           *)

\* enb_tun_read_thread reads the first RNTI; the timer thread reads the time and applies it.
LEMMA ReadStep ==
  ASSUME L2Inv, NEW t \in Threads, t \notin MacThreads, t # RlcQueueThread, t # PdcpQueueThread,
         th[t].pc \in {"idle", "request"}, NEW pc \in {"idle", "request"}, NEW ue, NEW n,
         th' = [th EXCEPT ![t] = [pc |-> pc, ue |-> ue, n |-> n]],
         UNCHANGED <<pdcp, rlc, q, pq, downlink, uplink>>
  PROVE  L2Inv'
<1>1. ThreadsOK /\ ManagerOK(pdcp') /\ ManagerOK(rlc')
  BY DEF L2Inv, TypeInv
<1>2. ThreadsOK' /\ Moves(t, [pc |-> pc, ue |-> ue, n |-> n])
  BY <1>1, ThreadMoves
<1>3. th'[t].pc = pc /\ Moves(t, th'[t])
  BY <1>2 DEF Moves
<1> QED BY <1>1, <1>2, <1>3, ThreadStep

\* Every step keeps the invariant and, seen from either queue, is a step of PduChannel or none.
LEMMA L2Step ==
  ASSUME L2Inv, [Next]_vars
  PROVE  L2Inv' /\ [Downlink!Next]_(Downlink!vars) /\ [Uplink!Next]_(Uplink!vars)
<1> USE DEF Downlink!vars, Uplink!vars
<1>0. ManagerOK(pdcp) /\ ManagerOK(rlc) /\ ThreadsOK
  BY DEF L2Inv, TypeInv
<1>1. ASSUME NEW ue \in Ues, ConfigurePdcp(ue) \/ pdcp_remove_UE(ue)
      PROVE  L2Inv' /\ UNCHANGED <<downlink, uplink>>
  BY <1>0, <1>1, ManagerSteps, ManagerStep DEF ConfigurePdcp, pdcp_remove_UE
<1>2. ASSUME NEW ue \in Ues, ConfigureRlc(ue) \/ rrc_rlc_remove_ue(ue)
      PROVE  L2Inv' /\ UNCHANGED <<downlink, uplink>>
  BY <1>0, <1>2, ManagerSteps, ManagerStep, SMTT(30) DEF ConfigureRlc, rrc_rlc_remove_ue
<1>3. ASSUME nr_pdcp_tick \/ UNCHANGED vars PROVE L2Inv' /\ UNCHANGED <<downlink, uplink>>
  BY <1>0, <1>3, ManagerStep DEF nr_pdcp_tick, vars
<1>4. ASSUME NEW t \in TunThreads, ReadTun(t) PROVE L2Inv' /\ UNCHANGED <<downlink, uplink>>
  <2>1. t \in Senders /\ t \in Threads /\ t \notin MacThreads /\ t # RlcQueueThread /\ t # PdcpQueueThread
    BY ThreadFacts DEF Senders
  <2> QED BY <2>1, <1>4, ReadStep DEF ReadTun, At
<1>5. ASSUME TimerThreadWaits \/ TimerThreadSetsTime PROVE L2Inv' /\ UNCHANGED <<downlink, uplink>>
  <2> DEFINE t == TimerThread
  <2>1. t \in Threads /\ t \notin MacThreads /\ t # RlcQueueThread /\ t # PdcpQueueThread
    BY ThreadFacts
  <2>2. th[t].pc \in {"idle", "request"} /\ UNCHANGED <<pdcp, rlc, q, pq, downlink, uplink>>
    BY <1>5 DEF TimerThreadWaits, TimerThreadSetsTime, At
  <2>3. CASE UNCHANGED th
    BY <2>2, <2>3, <1>0, ManagerStep
  <2>4. CASE th' = [th EXCEPT ![t] = Idle]
    BY <2>1, <2>2, <2>4, ReadStep DEF Idle
  <2>5. CASE th' = [th EXCEPT ![t].pc = "request"]
    <3>1. th[t] = [pc |-> th[t].pc, ue |-> th[t].ue, n |-> th[t].n]
      BY <1>0, <2>1 DEF ThreadsOK
    <3>2. [th[t] EXCEPT !.pc = "request"] = [pc |-> "request", ue |-> th[t].ue, n |-> th[t].n]
      BY <3>1
    <3>3. th' = [th EXCEPT ![t] = [pc |-> "request", ue |-> th[t].ue, n |-> th[t].n]]
      BY <3>2, <2>5
    <3> QED BY <3>3, <2>1, <2>2, ReadStep
  <2> QED BY <1>5, <2>3, <2>4, <2>5 DEF TimerThreadWaits, TimerThreadSetsTime
<1>6. ASSUME NEW t \in Senders, GtpRequest(t) \/ TunRequest(t)
      PROVE  L2Inv' /\ [Downlink!Next]_(Downlink!vars) /\ UNCHANGED uplink
  <2>1. PICK ue : pdcp_data_req(t, ue)
    BY <1>6 DEF GtpRequest, TunRequest
  <2>2. th[t].pc \in {"idle", "request"} /\ Len(downlink.sent) < MaxDownlink
    BY <1>6 DEF GtpRequest, TunRequest, At
  <2>3. UNCHANGED uplink
    BY <2>1 DEF pdcp_data_req
  <2> QED BY <2>1, <2>2, <2>3, RequestStep
<1>7. ASSUME NEW t \in Senders, enqueue_rlc_data_req(t) PROVE L2Inv' /\ UNCHANGED <<downlink, uplink>>
  BY <1>7, EnqueueStep DEF enqueue_rlc_data_req
<1>8. ASSUME RlcThreadWaits \/ RlcThreadRemoves PROVE L2Inv' /\ UNCHANGED <<downlink, uplink>>
  BY <1>8, RlcWaitStep, RlcRemoveStep DEF RlcThreadWaits, RlcThreadRemoves
<1>9. ASSUME rlc_data_req PROVE L2Inv' /\ [Downlink!Next]_(Downlink!vars) /\ UNCHANGED uplink
  BY <1>9, RlcHandStep DEF rlc_data_req
<1>10. ASSUME NEW t \in MacThreads, NEW ue \in Ues, NEW count \in 1..MaxSdusPerPdu, mac_rlc_data_ind(t, ue, count)
       PROVE  L2Inv' /\ UNCHANGED <<downlink, uplink>>
  BY <1>10, IndicationStep DEF mac_rlc_data_ind
<1>11. ASSUME NEW t \in MacThreads, deliver_sdu(t)
       PROVE  L2Inv' /\ [Uplink!Next]_(Uplink!vars) /\ UNCHANGED downlink
  BY <1>11, DeliverStep DEF deliver_sdu
<1>12. ASSUME PdcpThreadWaits \/ PdcpThreadRemoves PROVE L2Inv' /\ UNCHANGED <<downlink, uplink>>
  BY <1>12, PdcpWaitStep, PdcpRemoveStep DEF PdcpThreadWaits, PdcpThreadRemoves
<1>13. ASSUME do_pdcp_data_ind PROVE L2Inv' /\ [Uplink!Next]_(Uplink!vars) /\ UNCHANGED downlink
  BY <1>13, PdcpHandStep DEF do_pdcp_data_ind
<1> QED BY <1>1, <1>2, <1>3, <1>4, <1>5, <1>6, <1>7, <1>8, <1>9, <1>10, <1>11, <1>12, <1>13 DEF Next, Senders

\* The locks, the threads and both queues are consistent in every behaviour.
THEOREM L2Invariance == Spec => []L2Inv
BY InitL2, L2Step, PTL DEF Spec

\* The queue from PDCP to RLC is a lossless channel that keeps the order in which PDCP
\* numbered the PDUs, for any number of sending threads and every queue size.
THEOREM DownlinkRefinement == Spec => DownlinkSpec
<1>1. Init => Downlink!Init
  BY DEF Init, NoTraffic, Downlink!Init
<1>2. L2Inv /\ [Next]_vars => [Downlink!Next]_(Downlink!vars)
  BY L2Step
<1> QED BY <1>1, <1>2, L2Invariance, PTL DEF Spec, DownlinkSpec, Downlink!Spec

\* The queue from RLC to PDCP likewise.
THEOREM UplinkRefinement == Spec => UplinkSpec
<1>1. Init => Uplink!Init
  BY DEF Init, NoTraffic, Uplink!Init
<1>2. L2Inv /\ [Next]_vars => [Uplink!Next]_(Uplink!vars)
  BY L2Step
<1> QED BY <1>1, <1>2, L2Invariance, PTL DEF Spec, UplinkSpec, Uplink!Spec

\* No MAC thread waits for room in the queue to PDCP.
NoUplinkWait == pq.waiting \subseteq {PdcpQueueThread}

\* While no MAC thread waits for room in the uplink queue nobody waits in a circle: a thread
\* that wants the RLC lock waits for a MAC thread, which goes on by itself; a thread that
\* holds or wants the PDCP lock waits for rlc_data_req_thread, which never wants that lock.
LEMMA WaitOrder ==
  ASSUME L2Inv, NoUplinkWait
  PROVE  NoCircularWait
<1> SUFFICES ASSUME NEW S \in SUBSET Threads, S # {} PROVE \E t \in S : WaitsFor(t) \cap S = {}
  BY DEF NoCircularWait
<1> DEFINE R == RlcQueueThread
<1>0. /\ R \in Threads /\ None \notin Threads /\ q.waiting \subseteq Threads
      /\ \A t \in Threads : t \in q.waiting \ {R} => th[t].pc = "enqueue"
      /\ \A t \in Threads : t \notin pq.waiting \ {PdcpQueueThread}
  BY ThreadFacts DEF L2Inv, TypeInv, Buffer, WaitInv, NoUplinkWait
<1>1. ASSUME NEW t \in Threads, t \in q.waiting \ {R} PROVE WaitsFor(t) = {R}
  <2>1. th[t].pc # "request"
    BY <1>0, <1>1
  <2> QED BY <1>0, <1>1, <2>1 DEF WaitsFor, At
<1>2. ASSUME NEW t \in Threads, t \notin q.waiting \ {R}, th[t].pc # "request" PROVE WaitsFor(t) = {}
  BY <1>0, <1>2 DEF WaitsFor, At
<1>3. ASSUME NEW t \in Threads, th[t].pc = "request"
      PROVE  WaitsFor(t) = (IF t = R THEN {rlc.lock} ELSE {pdcp.lock}) \ {None}
  <2>1. t \notin q.waiting \ {R}
    BY <1>0, <1>3
  <2> QED BY <1>0, <1>3, <2>1 DEF WaitsFor, At
<1>4. CASE R \in S
  <2>1. CASE rlc.lock \in S
    <3>1. th[rlc.lock].pc = "deliver" /\ rlc.lock \in Threads
      BY <2>1, <1>0 DEF L2Inv, LockInv
    <3>2. WaitsFor(rlc.lock) = {}
      BY <3>1, <1>0, <1>2
    <3> QED BY <2>1, <3>2
  <2>2. CASE rlc.lock \notin S
    <3>1. WaitsFor(R) \subseteq {rlc.lock}
      BY <1>0, <1>2, <1>3
    <3> QED BY <1>4, <2>2, <3>1
  <2> QED BY <2>1, <2>2
<1>5. CASE R \notin S
  <2>1. CASE pdcp.lock \in S
    <3>1. th[pdcp.lock].pc = "enqueue" /\ pdcp.lock \in Threads
      BY <2>1, <1>0 DEF L2Inv, LockInv
    <3>2. WaitsFor(pdcp.lock) \subseteq {R}
      BY <3>1, <1>0, <1>1, <1>2
    <3> QED BY <1>5, <2>1, <3>2
  <2>2. CASE pdcp.lock \notin S
    <3>1. PICK t \in S : TRUE
      OBVIOUS
    <3>2. t # R /\ t \in Threads
      BY <1>5
    <3>3. WaitsFor(t) \subseteq {R, pdcp.lock}
      BY <3>2, <1>1, <1>2, <1>3
    <3> QED BY <1>5, <2>2, <3>3
  <2> QED BY <2>1, <2>2
<1> QED BY <1>4, <1>5

\* Threads wait for each other in a circle only while the queue to PDCP is full and a MAC
\* thread, holding the RLC lock, waits for room in it.
THEOREM CircleNeedsUplink == Spec => [](NoUplinkWait => NoCircularWait)
<1>1. L2Inv => (NoUplinkWait => NoCircularWait)
  BY WaitOrder
<1> QED BY <1>1, L2Invariance, PTL

\* No GTP or TUN thread waits for room in the queue to RLC.
NoDownlinkWait == q.waiting \subseteq {RlcQueueThread}

\* While no sender waits for room in the queue to RLC nobody waits in a circle either: the
\* holder of the PDCP lock goes on by itself, pdcp_data_ind_thread wants no other lock, and the
\* holder of the RLC lock waits for pdcp_data_ind_thread only.
LEMMA WaitOrderUp ==
  ASSUME L2Inv, NoDownlinkWait
  PROVE  NoCircularWait
<1> SUFFICES ASSUME NEW S \in SUBSET Threads, S # {} PROVE \E t \in S : WaitsFor(t) \cap S = {}
  BY DEF NoCircularWait
<1> DEFINE P == PdcpQueueThread
<1>0. /\ P \in Threads /\ None \notin Threads /\ P # RlcQueueThread
      /\ \A t \in Threads : t \in pq.waiting \ {P} => th[t].pc = "deliver"
      /\ \A t \in Threads : t \notin q.waiting \ {RlcQueueThread}
  BY ThreadFacts DEF L2Inv, TypeInv, Buffer, WaitInv, NoDownlinkWait, RlcQueueThread, PdcpQueueThread
<1>1. ASSUME NEW t \in Threads, th[t].pc = "deliver" PROVE WaitsFor(t) \subseteq {P}
  BY <1>0, <1>1 DEF WaitsFor, At
<1>2. ASSUME NEW t \in Threads, th[t].pc \notin {"deliver", "request"} PROVE WaitsFor(t) = {}
  BY <1>0, <1>2 DEF WaitsFor, At
<1>3. ASSUME NEW t \in Threads, th[t].pc = "request"
      PROVE  WaitsFor(t) = (IF t = RlcQueueThread THEN {rlc.lock} ELSE {pdcp.lock}) \ {None}
  <2>1. t \notin pq.waiting \ {P}
    BY <1>0, <1>3
  <2> QED BY <1>0, <1>3, <2>1 DEF WaitsFor, At
<1>4. CASE pdcp.lock \in S
  <2>1. th[pdcp.lock].pc = "enqueue" /\ pdcp.lock \in Threads
    BY <1>0, <1>4 DEF L2Inv, LockInv
  <2> QED BY <1>2, <1>4, <2>1
<1>5. CASE pdcp.lock \notin S /\ P \in S
  <2>1. th[P].pc # "deliver"
    BY DEF L2Inv, ProgramInv
  <2>2. WaitsFor(P) \subseteq {pdcp.lock}
    BY <1>0, <1>2, <1>3, <2>1
  <2> QED BY <1>5, <2>2
<1>6. CASE pdcp.lock \notin S /\ P \notin S /\ rlc.lock \in S
  <2>1. th[rlc.lock].pc = "deliver" /\ rlc.lock \in Threads
    BY <1>0, <1>6 DEF L2Inv, LockInv
  <2> QED BY <1>1, <1>6, <2>1
<1>7. CASE pdcp.lock \notin S /\ P \notin S /\ rlc.lock \notin S
  <2>1. PICK t \in S : TRUE
    OBVIOUS
  <2>2. WaitsFor(t) \subseteq {P, pdcp.lock, rlc.lock}
    BY <1>1, <1>2, <1>3, <2>1
  <2> QED BY <1>7, <2>1, <2>2
<1> QED BY <1>4, <1>5, <1>6, <1>7

\* A producer waits only while the queue is full: the lock admits one producer at a time, so the
\* signal of the consumer, which does not wait itself when it makes room, cannot miss it.
RoomInv(b, size, consumer) ==
  /\ consumer \in b.waiting => th[consumer].pc = "idle"
  /\ b.waiting \ {consumer} # {} => b.length = size

\* What a thread writes about itself does not concern another one.
LEMMA OtherThread ==
  ASSUME ThreadsOK, NEW t \in Threads, NEW x \in Threads, t # x, NEW r, th' = [th EXCEPT ![t] = r]
  PROVE  th'[x] = th[x]
BY DEF ThreadsOK

\* The signal wakes the only thread that waits.
LEMMA SignalWakesOne ==
  ASSUME NEW f, NEW start, NEW length, NEW w, NEW x, w \subseteq {x},
         NEW b, b = [q |-> f, start |-> start, length |-> length, waiting |-> w],
         NEW c \in IF b.waiting = {} THEN {b} ELSE {[b EXCEPT !.waiting = @ \ {t}] : t \in b.waiting}
  PROVE  c.waiting = {}
OBVIOUS

\* Every step keeps it for the queue to RLC.
LEMMA RoomDown ==
  ASSUME L2Inv, RoomInv(q, RlcQueueSize, RlcQueueThread), [Next]_vars
  PROVE  RoomInv(q, RlcQueueSize, RlcQueueThread)'
<1> DEFINE R == RlcQueueThread
<1>0. /\ q \in Buffer(RlcQueueSize) /\ RlcQueueSize \in Nat \ {0} /\ q.waiting \subseteq Threads
      /\ R \in Threads /\ ThreadsOK /\ R \notin Producers /\ R # TimerThread /\ R # PdcpQueueThread
  BY DownlinkTypes, ThreadFacts, ThreadAssumption DEF RlcQueueThread, PdcpQueueThread, TimerThread
<1>1. q.waiting \subseteq {R, pdcp.lock}
  BY <1>0 DEF L2Inv, WaitInv, LockInv
<1>2. ASSUME q' = q, th'[R].pc = th[R].pc \/ th[R].pc # "idle"
      PROVE  RoomInv(q, RlcQueueSize, R)'
  BY <1>2 DEF RoomInv
<1>3. ASSUME NEW t \in Senders, enqueue_rlc_data_req(t) PROVE RoomInv(q, RlcQueueSize, R)'
  <2>1. pdcp.lock = t /\ t \in Threads /\ t # R
    BY <1>0, <1>3 DEF enqueue_rlc_data_req, At, L2Inv, LockInv, Senders, Threads, Producers
  <2>2. q.waiting \subseteq {R}
    BY <1>1, <1>3, <2>1 DEF enqueue_rlc_data_req
  <2>3. th'[R] = th[R]
    BY <1>0, <1>3, <2>1 DEF enqueue_rlc_data_req, ThreadsOK
  <2>4. CASE Q!Full(q)
    <3>1. q.length = RlcQueueSize /\ q' = [q EXCEPT !.waiting = @ \cup {t}]
      BY <1>3, <2>4 DEF enqueue_rlc_data_req, Q!Full, Q!Wait
    <3>2. q'.waiting = q.waiting \cup {t} /\ q'.length = RlcQueueSize
      BY <1>0, <3>1, WaitKeeps
    <3> QED BY <2>1, <2>3, <3>2 DEF RoomInv
  <2>5. CASE ~Q!Full(q)
    <3> DEFINE pdu == Pdu(th[t].ue, th[t].n)
               b == Q!Put(q, pdu)
    <3>1. q' \in Q!Signal(b)
      BY <1>3, <2>5 DEF enqueue_rlc_data_req
    <3> HIDE DEF pdu
    <3>2. b = [q |-> [q.q EXCEPT ![(q.start + q.length) % RlcQueueSize] = pdu],
               start |-> q.start, length |-> q.length + 1, waiting |-> q.waiting]
      <4>1. b = [q EXCEPT !.q[(q.start + q.length) % RlcQueueSize] = pdu, !.length = @ + 1]
        BY DEF Q!Put
      <4> HIDE DEF b
      <4> QED BY <1>0, <4>1, PutFields
    <3> HIDE DEF b
    <3>3. q'.waiting \subseteq q.waiting
      BY <3>1, <3>2, SignalWaiting DEF Q!Signal
    <3> QED BY <2>2, <2>3, <3>3 DEF RoomInv
  <2> QED BY <2>4, <2>5
<1>4. ASSUME RlcThreadWaits PROVE RoomInv(q, RlcQueueSize, R)'
  <2>1. CASE q.length = 0
    <3>1. q' = [q EXCEPT !.waiting = @ \cup {R}] /\ th' = th /\ th[R].pc = "idle"
      BY <1>4, <2>1 DEF RlcThreadWaits, Q!Wait, At
    <3>2. q'.waiting = q.waiting \cup {R} /\ q'.length = q.length
      BY <1>0, <3>1, WaitKeeps
    <3> QED BY <3>1, <3>2 DEF RoomInv
  <2>2. CASE q.length # 0
    BY <1>4, <2>2 DEF RlcThreadWaits, RoomInv
  <2> QED BY <2>1, <2>2
<1>5. ASSUME RlcThreadRemoves PROVE RoomInv(q, RlcQueueSize, R)'
  <2>1. q.waiting \subseteq {pdcp.lock}
    BY <1>1, <1>5 DEF RlcThreadRemoves, At, RoomInv
  <2> DEFINE b == Q!Remove(q)
  <2>2. q' \in Q!Signal(b)
    BY <1>5 DEF RlcThreadRemoves
  <2>3. b = [q |-> q.q, start |-> (q.start + 1) % RlcQueueSize, length |-> q.length - 1, waiting |-> q.waiting]
    <3>1. b = [q EXCEPT !.length = @ - 1, !.start = (@ + 1) % RlcQueueSize]
      BY DEF Q!Remove
    <3> HIDE DEF b
    <3> QED BY <1>0, <3>1, RemoveFields
  <2> HIDE DEF b
  <2>4. q'.waiting = {}
    BY <2>1, <2>2, <2>3, SignalWakesOne DEF Q!Signal
  <2> QED BY <2>4 DEF RoomInv
<1>6. ASSUME rlc_data_req PROVE RoomInv(q, RlcQueueSize, R)'
  BY <1>2, <1>6 DEF rlc_data_req, At
<1>7. \/ q' = q /\ th'[R] = th[R]
      \/ \E t \in Senders : enqueue_rlc_data_req(t)
      \/ RlcThreadWaits \/ RlcThreadRemoves \/ rlc_data_req
  <2>2. /\ MacThreads \cup Senders \subseteq Threads \ {R} /\ {PdcpQueueThread, TimerThread} \subseteq Threads \ {R}
        /\ TunThreads \subseteq Senders /\ GtpThreads \subseteq Senders
    BY <1>0 DEF Threads, Producers, Senders
  <2>3. ASSUME NEW t \in Threads \ {R}, NEW ue, pdcp_data_req(t, ue) PROVE q' = q /\ th'[R] = th[R]
    <3>1. q' = q /\ \E r : th' = [th EXCEPT ![t] = r]
      BY <2>3 DEF pdcp_data_req
    <3> QED BY <1>0, <3>1, OtherThread
  <2>4. ASSUME NEW t \in MacThreads, deliver_sdu(t) PROVE q' = q /\ th'[R] = th[R]
    <3>1. q' = q /\ (th' = th \/ \E r : th' = [th EXCEPT ![t] = r])
      BY <2>4 DEF deliver_sdu
    <3> QED BY <1>0, <2>2, <3>1, OtherThread
  <2>5. ASSUME NEW t \in MacThreads, NEW ue, NEW count, mac_rlc_data_ind(t, ue, count)
        PROVE  q' = q /\ th'[R] = th[R]
    <3>1. q' = q /\ (th' = th \/ \E r : th' = [th EXCEPT ![t] = r])
      BY <2>5 DEF mac_rlc_data_ind
    <3> QED BY <1>0, <2>2, <3>1, OtherThread
  <2>6. ASSUME PdcpThreadWaits \/ do_pdcp_data_ind \/ PdcpThreadRemoves \/ TimerThreadWaits \/ TimerThreadSetsTime
        PROVE  q' = q /\ th'[R] = th[R]
    <3>1. q' = q /\ (th' = th \/ \E t \in {PdcpQueueThread, TimerThread} : \E r : th' = [th EXCEPT ![t] = r])
      <4>1. CASE PdcpThreadWaits \/ PdcpThreadRemoves \/ TimerThreadSetsTime
        BY <4>1 DEF PdcpThreadWaits, PdcpThreadRemoves, TimerThreadSetsTime
      <4>2. CASE do_pdcp_data_ind
        <5>1. q' = q /\ th' = [th EXCEPT ![PdcpQueueThread] = [th[PdcpQueueThread] EXCEPT !.pc = "remove"]]
          BY <4>2 DEF do_pdcp_data_ind
        <5> QED BY <5>1
      <4>3. CASE TimerThreadWaits
        <5>1. q' = q /\ (th' = th \/ th' = [th EXCEPT ![TimerThread] = [th[TimerThread] EXCEPT !.pc = "request"]])
          BY <4>3 DEF TimerThreadWaits
        <5> QED BY <5>1
      <4> QED BY <2>6, <4>1, <4>2, <4>3
    <3> QED BY <1>0, <2>2, <3>1, OtherThread
  <2>7. ASSUME NEW t \in TunThreads, ReadTun(t) \/ TunRequest(t) PROVE q' = q /\ th'[R] = th[R]
    <3>1. CASE ReadTun(t)
      <4>1. q' = q /\ \E r : th' = [th EXCEPT ![t] = r]
        BY <3>1 DEF ReadTun
      <4> QED BY <1>0, <2>2, <4>1, OtherThread
    <3>2. CASE TunRequest(t)
      BY <2>2, <2>3, <3>2 DEF TunRequest
    <3> QED BY <2>7, <3>1, <3>2
  <2>8. ASSUME NEW t \in GtpThreads, GtpRequest(t) PROVE q' = q /\ th'[R] = th[R]
    BY <2>2, <2>3, <2>8 DEF GtpRequest
  <2> QED BY <2>4, <2>5, <2>6, <2>7, <2>8 DEF Next, vars, ConfigurePdcp, ConfigureRlc, rrc_rlc_remove_ue,
             pdcp_remove_UE, nr_pdcp_tick, Senders
<1> QED BY <1>2, <1>3, <1>4, <1>5, <1>6, <1>7

\* Every step keeps it for the queue to PDCP.
LEMMA RoomUp ==
  ASSUME L2Inv, RoomInv(pq, PdcpQueueSize, PdcpQueueThread), [Next]_vars
  PROVE  RoomInv(pq, PdcpQueueSize, PdcpQueueThread)'
<1> DEFINE P == PdcpQueueThread
<1>0. /\ pq \in Buffer(PdcpQueueSize) /\ PdcpQueueSize \in Nat \ {0} /\ pq.waiting \subseteq Threads
      /\ P \in Threads /\ ThreadsOK /\ P \notin Producers /\ P # TimerThread /\ P # RlcQueueThread
  BY UplinkTypes, ThreadFacts, ThreadAssumption DEF RlcQueueThread, PdcpQueueThread, TimerThread
<1>1. pq.waiting \subseteq {P, rlc.lock}
  BY <1>0 DEF L2Inv, WaitInv, LockInv
<1>2. ASSUME pq' = pq, th'[P].pc = th[P].pc \/ th[P].pc # "idle"
      PROVE  RoomInv(pq, PdcpQueueSize, P)'
  BY <1>2 DEF RoomInv
<1>3. ASSUME NEW t \in MacThreads, deliver_sdu(t) PROVE RoomInv(pq, PdcpQueueSize, P)'
  <2>1. rlc.lock = t /\ t \in Threads /\ t # P
    BY <1>0, <1>3 DEF deliver_sdu, At, L2Inv, LockInv, Threads, Producers
  <2>2. pq.waiting \subseteq {P}
    BY <1>1, <1>3, <2>1 DEF deliver_sdu
  <2>3. th'[P] = th[P]
    BY <1>0, <1>3, <2>1 DEF deliver_sdu, ThreadsOK
  <2>4. CASE PQ!Full(pq)
    <3>1. pq.length = PdcpQueueSize /\ pq' = [pq EXCEPT !.waiting = @ \cup {t}]
      BY <1>3, <2>4 DEF deliver_sdu, PQ!Full, PQ!Wait
    <3>2. pq'.waiting = pq.waiting \cup {t} /\ pq'.length = PdcpQueueSize
      BY <1>0, <3>1, WaitKeeps
    <3> QED BY <2>1, <2>3, <3>2 DEF RoomInv
  <2>5. CASE ~PQ!Full(pq)
    <3> DEFINE pdu == Pdu(th[t].ue, Len(uplink.sent) + 1)
               b == PQ!Put(pq, pdu)
    <3>1. pq' \in PQ!Signal(b)
      BY <1>3, <2>5 DEF deliver_sdu
    <3> HIDE DEF pdu
    <3>2. b = [q |-> [pq.q EXCEPT ![(pq.start + pq.length) % PdcpQueueSize] = pdu],
               start |-> pq.start, length |-> pq.length + 1, waiting |-> pq.waiting]
      <4>1. b = [pq EXCEPT !.q[(pq.start + pq.length) % PdcpQueueSize] = pdu, !.length = @ + 1]
        BY DEF PQ!Put
      <4> HIDE DEF b
      <4> QED BY <1>0, <4>1, PutFields
    <3> HIDE DEF b
    <3>3. pq'.waiting \subseteq pq.waiting
      BY <3>1, <3>2, SignalWaiting DEF PQ!Signal
    <3> QED BY <2>2, <2>3, <3>3 DEF RoomInv
  <2> QED BY <2>4, <2>5
<1>4. ASSUME PdcpThreadWaits PROVE RoomInv(pq, PdcpQueueSize, P)'
  <2>1. CASE pq.length = 0
    <3>1. pq' = [pq EXCEPT !.waiting = @ \cup {P}] /\ th' = th /\ th[P].pc = "idle"
      BY <1>4, <2>1 DEF PdcpThreadWaits, PQ!Wait, At
    <3>2. pq'.waiting = pq.waiting \cup {P} /\ pq'.length = pq.length
      BY <1>0, <3>1, WaitKeeps
    <3> QED BY <3>1, <3>2 DEF RoomInv
  <2>2. CASE pq.length # 0
    BY <1>4, <2>2 DEF PdcpThreadWaits, RoomInv
  <2> QED BY <2>1, <2>2
<1>5. ASSUME PdcpThreadRemoves PROVE RoomInv(pq, PdcpQueueSize, P)'
  <2>1. pq.waiting \subseteq {rlc.lock}
    BY <1>1, <1>5 DEF PdcpThreadRemoves, At, RoomInv
  <2> DEFINE b == PQ!Remove(pq)
  <2>2. pq' \in PQ!Signal(b)
    BY <1>5 DEF PdcpThreadRemoves
  <2>3. b = [q |-> pq.q, start |-> (pq.start + 1) % PdcpQueueSize, length |-> pq.length - 1, waiting |-> pq.waiting]
    <3>1. b = [pq EXCEPT !.length = @ - 1, !.start = (@ + 1) % PdcpQueueSize]
      BY DEF PQ!Remove
    <3> HIDE DEF b
    <3> QED BY <1>0, <3>1, RemoveFields
  <2> HIDE DEF b
  <2>4. pq'.waiting = {}
    BY <2>1, <2>2, <2>3, SignalWakesOne DEF PQ!Signal
  <2> QED BY <2>4 DEF RoomInv
<1>6. ASSUME do_pdcp_data_ind PROVE RoomInv(pq, PdcpQueueSize, P)'
  BY <1>2, <1>6 DEF do_pdcp_data_ind, At
<1>7. \/ pq' = pq /\ th'[P] = th[P]
      \/ \E t \in MacThreads : deliver_sdu(t)
      \/ PdcpThreadWaits \/ PdcpThreadRemoves \/ do_pdcp_data_ind
  <2>2. /\ MacThreads \cup Senders \subseteq Threads \ {P} /\ {RlcQueueThread, TimerThread} \subseteq Threads \ {P}
        /\ TunThreads \subseteq Senders /\ GtpThreads \subseteq Senders
    BY <1>0 DEF Threads, Producers, Senders
  <2>3. ASSUME NEW t \in Threads \ {P}, NEW ue, pdcp_data_req(t, ue) PROVE pq' = pq /\ th'[P] = th[P]
    <3>1. pq' = pq /\ \E r : th' = [th EXCEPT ![t] = r]
      BY <2>3 DEF pdcp_data_req
    <3> QED BY <1>0, <3>1, OtherThread
  <2>4. ASSUME NEW t \in Senders, enqueue_rlc_data_req(t) PROVE pq' = pq /\ th'[P] = th[P]
    <3>1. pq' = pq /\ (th' = th \/ \E r : th' = [th EXCEPT ![t] = r])
      BY <2>4 DEF enqueue_rlc_data_req
    <3> QED BY <1>0, <2>2, <3>1, OtherThread
  <2>5. ASSUME NEW t \in MacThreads, NEW ue, NEW count, mac_rlc_data_ind(t, ue, count)
        PROVE  pq' = pq /\ th'[P] = th[P]
    <3>1. pq' = pq /\ (th' = th \/ \E r : th' = [th EXCEPT ![t] = r])
      BY <2>5 DEF mac_rlc_data_ind
    <3> QED BY <1>0, <2>2, <3>1, OtherThread
  <2>6. ASSUME RlcThreadWaits \/ rlc_data_req \/ RlcThreadRemoves \/ TimerThreadWaits \/ TimerThreadSetsTime
        PROVE  pq' = pq /\ th'[P] = th[P]
    <3>1. pq' = pq /\ (th' = th \/ \E t \in {RlcQueueThread, TimerThread} : \E r : th' = [th EXCEPT ![t] = r])
      <4>1. CASE RlcThreadWaits \/ RlcThreadRemoves \/ TimerThreadSetsTime
        BY <4>1 DEF RlcThreadWaits, RlcThreadRemoves, TimerThreadSetsTime
      <4>2. CASE rlc_data_req
        <5>1. pq' = pq /\ th' = [th EXCEPT ![RlcQueueThread] = [th[RlcQueueThread] EXCEPT !.pc = "remove"]]
          BY <4>2 DEF rlc_data_req
        <5> QED BY <5>1
      <4>3. CASE TimerThreadWaits
        <5>1. pq' = pq /\ (th' = th \/ th' = [th EXCEPT ![TimerThread] = [th[TimerThread] EXCEPT !.pc = "request"]])
          BY <4>3 DEF TimerThreadWaits
        <5> QED BY <5>1
      <4> QED BY <2>6, <4>1, <4>2, <4>3
    <3> QED BY <1>0, <2>2, <3>1, OtherThread
  <2>7. ASSUME NEW t \in TunThreads, ReadTun(t) \/ TunRequest(t) PROVE pq' = pq /\ th'[P] = th[P]
    <3>1. CASE ReadTun(t)
      <4>1. pq' = pq /\ \E r : th' = [th EXCEPT ![t] = r]
        BY <3>1 DEF ReadTun
      <4> QED BY <1>0, <2>2, <4>1, OtherThread
    <3>2. CASE TunRequest(t)
      BY <2>2, <2>3, <3>2 DEF TunRequest
    <3> QED BY <2>7, <3>1, <3>2
  <2>8. ASSUME NEW t \in GtpThreads, GtpRequest(t) PROVE pq' = pq /\ th'[P] = th[P]
    BY <2>2, <2>3, <2>8 DEF GtpRequest
  <2> QED BY <2>4, <2>5, <2>6, <2>7, <2>8 DEF Next, vars, ConfigurePdcp, ConfigureRlc, rrc_rlc_remove_ue,
             pdcp_remove_UE, nr_pdcp_tick, Senders
<1> QED BY <1>2, <1>3, <1>4, <1>5, <1>6, <1>7

\* As long as either of the two queues between PDCP and RLC has room, no threads wait for each
\* other in a circle, whatever the traffic: a deadlock needs both queues full at once.
THEOREM NoDeadlock == Spec => [](~(Q!Full(q) /\ PQ!Full(pq)) => NoCircularWait)
<1> DEFINE Room == RoomInv(q, RlcQueueSize, RlcQueueThread) /\ RoomInv(pq, PdcpQueueSize, PdcpQueueThread)
<1>1. Init => Room
  BY DEF Init, RoomInv, Q!Empty, PQ!Empty
<1>2. L2Inv /\ Room /\ [Next]_vars => Room'
  BY RoomDown, RoomUp
<1>3. L2Inv /\ Room => (~(Q!Full(q) /\ PQ!Full(pq)) => NoCircularWait)
  <2> SUFFICES ASSUME L2Inv, Room, ~(Q!Full(q) /\ PQ!Full(pq)) PROVE NoCircularWait
    OBVIOUS
  <2>1. CASE ~PQ!Full(pq)
    BY <2>1, WaitOrder DEF PQ!Full, RoomInv, NoUplinkWait
  <2>2. CASE ~Q!Full(q)
    BY <2>2, WaitOrderUp DEF Q!Full, RoomInv, NoDownlinkWait
  <2> QED BY <2>1, <2>2
<1> HIDE DEF Room
<1> QED BY <1>1, <1>2, <1>3, L2Invariance, PTL DEF Spec
=============================================================================
