------------------------------ MODULE NrL1Pipeline ------------------------------
(***************************************************************************)
(* Layer 1 of the gNB (executables/nr-gnb.c, nr-ru.c): the RU thread gives *)
(* the single rx message to the thread pool for every slot; the rx job     *)
(* decodes the uplink, with one nested job per code block, calls the       *)
(* scheduler and launches the tx job of the slot; the tx job encodes, with *)
(* nested jobs too, and the reorder thread sends the slots to the radio.   *)
(*                                                                         *)
(* A worker is idle or holds one job, and workers are alike: "running" is  *)
(* the set of jobs held, of which at most NbThreads, and abortFlag the set *)
(* of those whose worker has abortFlag set.  Each action is one critical   *)
(* section of a queue's lock with the thread's own code that follows it.   *)
(***************************************************************************)
EXTENDS NotifiedFifo, FiniteSets, FiniteSetsExt

CONSTANTS
    NbThreads,      \* worker threads of the pool
    Plan,           \* what each slot carries: its uplink code blocks per UE (0 if their
                    \* decoding is refused), whether it is a downlink slot, its nested
                    \* encoding jobs
    ContinuousTx    \* the option continuous_tx

ASSUME PoolAssumption ==
    /\ NbThreads \in Nat \ {0}
    /\ ContinuousTx \in BOOLEAN
    /\ Plan \in Seq([ul : Seq(Nat), downlink : BOOLEAN, coding : Nat])

TxMessages == 2
Slots == 1 .. Len(Plan)
NoSlot == 0

\* Jobs.  The key of a decoding job is that of its UE and slot; no other key is ever aborted.
RxJob(s) == [key |-> <<"rx", s, 0>>, nb |-> 0]
TxJob(s) == [key |-> <<"tx", s, 0>>, nb |-> 0]
CodingJob(s, j) == [key |-> <<"dl", s, 0>>, nb |-> j]
DecodeKey(s, u) == <<"ul", s, u>>
DecodeJob(s, u, r) == [key |-> DecodeKey(s, u), nb |-> r]
Kind(job) == job.key[1]
SlotOf(job) == job.key[2]

VARIABLES
    incomingFifo,   \* the queue of the pool
    running,        \* jobs held by a worker
    abortFlag,      \* those of them that were aborted
    respDecode,     \* finished decoding jobs, each with its outcome
    nf,             \* per slot, finished encoding jobs
    ruSlot,         \* next slot of the RU thread
    resp_L1,        \* the rx message is free
    rx,             \* what the rx job is doing
    tx,             \* per slot, what its tx job is doing
    L1_tx_free,     \* free tx messages
    L1_tx_filled,   \* slots the scheduler has filled
    L1_tx_out,      \* slots whose tx job has finished
    reorder,        \* the reorder thread
    indications,    \* history: CRC indications given to MAC
    sent            \* history: slots given to the radio

pool == <<incomingFifo, running, abortFlag>>
uplink == <<respDecode, rx, indications>>
downlink == <<nf, tx>>
txQueues == <<L1_tx_free, L1_tx_filled, L1_tx_out>>
vars == <<pool, uplink, downlink, txQueues, ruSlot, resp_L1, reorder, sent>>

-----------------------------------------------------------------------------
\* The RU thread takes the rx message back and pushes the job of the next slot.
RuSlot ==
    /\ ruSlot \in Slots
    /\ resp_L1
    /\ resp_L1' = FALSE
    /\ ruSlot' = ruSlot + 1
    /\ incomingFifo' = pushNotifiedFIFO(incomingFifo, RxJob(ruSlot))
    /\ UNCHANGED <<running, abortFlag, uplink, downlink, txQueues, reorder, sent>>

\* An idle worker takes the first job and starts it.
pullNotifiedFifoRemember ==
    /\ Cardinality(running) < NbThreads
    /\ incomingFifo.outF # <<>>
    /\ LET job == Head(incomingFifo.outF) IN
        /\ running' = running \union {job}
        /\ rx' = IF Kind(job) = "rx"
                 THEN [rx EXCEPT !.pc = "detect", !.slot = SlotOf(job), !.ue = 1] ELSE rx
    /\ incomingFifo' = pullNotifiedFIFO(incomingFifo)
    /\ UNCHANGED <<abortFlag, respDecode, indications, downlink, txQueues, ruSlot, resp_L1, reorder, sent>>

\* A worker that has done its job is idle again, whether the job is returned or deleted.
Idle(job) ==
    /\ running' = running \ {job}
    /\ abortFlag' = abortFlag \ {job}
    /\ UNCHANGED incomingFifo

\* A code block was decoded or not; the answer is posted unless the job was aborted.
FinishDecode(job) ==
    /\ Kind(job) = "ul"
    /\ \E ok \in BOOLEAN :
        respDecode' = IF job \in abortFlag THEN respDecode
                      ELSE Append(respDecode, [key |-> job.key, nb |-> job.nb, ok |-> ok])
    /\ Idle(job)
    /\ UNCHANGED <<rx, indications, downlink, txQueues, ruSlot, resp_L1, reorder, sent>>

FinishCoding(job) ==
    /\ Kind(job) = "dl"
    /\ nf' = IF job \in abortFlag THEN nf ELSE [nf EXCEPT ![SlotOf(job)] = @ + 1]
    /\ Idle(job)
    /\ UNCHANGED <<uplink, tx, txQueues, ruSlot, resp_L1, reorder, sent>>

-----------------------------------------------------------------------------
(* The rx job: the UEs of the slot one after the other, then the scheduler. *)
Rx(pc) == rx.pc = pc /\ RxJob(rx.slot) \in running

Blocks == Plan[rx.slot].ul[rx.ue]
RxKey == DecodeKey(rx.slot, rx.ue)

\* A CRC indication is given to MAC, with what has been copied into the transport block.
nr_fill_indication(ack, copied) ==
    indications' = Append(indications, [slot |-> rx.slot, ue |-> rx.ue, ack |-> ack, copied |-> copied])

\* PUSCH not detected: NAK without decoding.
PuschNotDetected ==
    /\ Rx("detect")
    /\ rx.ue \in DOMAIN Plan[rx.slot].ul
    /\ nr_fill_indication(FALSE, {})
    /\ rx' = [rx EXCEPT !.ue = @ + 1]
    /\ UNCHANGED <<pool, respDecode, downlink, txQueues, ruSlot, resp_L1, reorder, sent>>

PuschDetected ==
    /\ Rx("detect")
    /\ rx.ue \in DOMAIN Plan[rx.slot].ul
    /\ Blocks > 0
    /\ rx' = [rx EXCEPT !.pc = "push", !.nbDecode = 0, !.processedSegments = 0, !.copied = {}]
    /\ UNCHANGED <<pool, respDecode, indications, downlink, txQueues, ruSlot, resp_L1, reorder, sent>>

\* The error returns of nr_ulsch_decoding (no soft bits, too many code blocks): no job is
\* pushed, no answer awaited, and MAC is told nothing of this UE.
DecodingRefused ==
    /\ Rx("detect")
    /\ rx.ue \in DOMAIN Plan[rx.slot].ul
    /\ Blocks = 0
    /\ rx' = [rx EXCEPT !.ue = @ + 1, !.nbDecode = 0, !.processedSegments = 0]
    /\ UNCHANGED <<pool, respDecode, indications, downlink, txQueues, ruSlot, resp_L1, reorder, sent>>

\* One decoding job per code block is pushed.
nr_ulsch_decoding ==
    /\ Rx("push")
    /\ incomingFifo' = pushNotifiedFIFO(incomingFifo, DecodeJob(rx.slot, rx.ue, rx.nbDecode + 1))
    /\ rx' = [rx EXCEPT !.nbDecode = @ + 1, !.pc = IF rx.nbDecode + 1 = Blocks THEN "pull" ELSE "push"]
    /\ UNCHANGED <<running, abortFlag, respDecode, indications, downlink, txQueues, ruSlot, resp_L1, reorder, sent>>

\* The loop of nr_ulsch_procedures goes on while answers are awaited, then to the next UE.
AfterDecode(r) == IF r.nbDecode > 0 THEN [r EXCEPT !.pc = "pull"]
                  ELSE [r EXCEPT !.pc = "detect", !.ue = @ + 1]

PostDecodeNoAbort ==
    /\ Rx("pull")
    /\ respDecode # <<>>
    /\ LET req == Head(respDecode)
           r == [rx EXCEPT !.processedSegments = @ + 1, !.nbDecode = @ - 1,
                           !.copied = IF req.ok THEN @ \union {req.nb} ELSE @]
       IN  /\ rx' = AfterDecode(r)
           /\ IF r.processedSegments = Blocks THEN nr_fill_indication(req.ok, r.copied) ELSE UNCHANGED indications
    /\ respDecode' = Tail(respDecode)
    /\ UNCHANGED <<pool, downlink, txQueues, ruSlot, resp_L1, reorder, sent>>

\* One answer is pulled: the block is copied, or the other blocks are aborted.
nr_postDecode ==
    /\ Rx("pull")
    /\ respDecode # <<>>
    /\ LET req == Head(respDecode)
           r == [rx EXCEPT !.processedSegments = @ + 1, !.nbDecode = @ - 1,
                           !.copied = IF req.ok THEN @ \union {req.nb} ELSE @]
           last == r.processedSegments = Blocks
       IN  /\ rx' = IF ~req.ok /\ ~last THEN [r EXCEPT !.pc = "abort"] ELSE AfterDecode(r)
           /\ IF last THEN nr_fill_indication(req.ok, r.copied) ELSE UNCHANGED indications
    /\ respDecode' = Tail(respDecode)
    /\ UNCHANGED <<pool, downlink, txQueues, ruSlot, resp_L1, reorder, sent>>

AbortTpoolQueued ==
    /\ Rx("abort")
    /\ abortFlag' = abortFlag \union {job \in running : job.key = RxKey}
    /\ rx' = [rx EXCEPT !.pc = "abortResp", !.nb = NbDeleted(incomingFifo.outF, RxKey)]
    /\ incomingFifo' = abortNotifiedFIFO(incomingFifo, RxKey)
    /\ UNCHANGED <<running, respDecode, indications, downlink, txQueues, ruSlot, resp_L1, reorder, sent>>

\* The queued jobs of the UE are deleted and the running ones are marked.
abortTpool ==
    /\ Rx("abort")
    /\ LET marked == {job \in running : job.key = RxKey} IN
        /\ abortFlag' = abortFlag \union marked
        /\ rx' = [rx EXCEPT !.pc = "abortResp", !.nb = NbDeleted(incomingFifo.outF, RxKey) + Cardinality(marked)]
    /\ incomingFifo' = abortNotifiedFIFO(incomingFifo, RxKey)
    /\ UNCHANGED <<running, respDecode, indications, downlink, txQueues, ruSlot, resp_L1, reorder, sent>>

\* The answers already posted are deleted and MAC is told that the block is lost.
abortResponses ==
    /\ Rx("abortResp")
    /\ LET nb == rx.nb + NbDeleted(respDecode, RxKey) IN
        rx' = AfterDecode([rx EXCEPT !.nb = nb, !.nbDecode = @ - nb, !.processedSegments = Blocks])
    /\ respDecode' = Kept(respDecode, RxKey)
    /\ nr_fill_indication(FALSE, rx.copied)
    /\ UNCHANGED <<pool, downlink, txQueues, ruSlot, resp_L1, reorder, sent>>

\* The scheduler fills a free tx message, if the slot has a downlink.
nr_schedule_response ==
    /\ Rx("detect")
    /\ rx.ue \notin DOMAIN Plan[rx.slot].ul
    /\ IF Plan[rx.slot].downlink
       THEN /\ L1_tx_free > 0
            /\ L1_tx_free' = L1_tx_free - 1
            /\ L1_tx_filled' = Append(L1_tx_filled, rx.slot)
       ELSE UNCHANGED <<L1_tx_free, L1_tx_filled>>
    /\ rx' = [rx EXCEPT !.pc = "launch"]
    /\ UNCHANGED <<pool, respDecode, indications, downlink, L1_tx_out, ruSlot, resp_L1, reorder, sent>>

\* The filled message becomes the tx job of the slot; with continuous_tx, the other
\* slots go to the reorder thread without a job.
LaunchTx ==
    /\ Rx("launch")
    /\ Plan[rx.slot].downlink
    /\ L1_tx_filled # <<>>
    /\ incomingFifo' = pushNotifiedFIFO(incomingFifo, TxJob(Head(L1_tx_filled)))
    /\ L1_tx_filled' = Tail(L1_tx_filled)
    /\ rx' = [rx EXCEPT !.pc = "done"]
    /\ UNCHANGED <<running, abortFlag, respDecode, indications, downlink, L1_tx_free, L1_tx_out, ruSlot, resp_L1, reorder, sent>>

LaunchEmpty ==
    /\ Rx("launch")
    /\ ~Plan[rx.slot].downlink
    /\ IF ContinuousTx
       THEN /\ L1_tx_free > 0
            /\ L1_tx_free' = L1_tx_free - 1
            /\ L1_tx_out' = Append(L1_tx_out, rx.slot)
       ELSE UNCHANGED <<L1_tx_free, L1_tx_out>>
    /\ rx' = [rx EXCEPT !.pc = "done"]
    /\ UNCHANGED <<pool, respDecode, indications, downlink, L1_tx_filled, ruSlot, resp_L1, reorder, sent>>

FinishRx(job) ==
    /\ job = RxJob(rx.slot)
    /\ Rx("done")
    /\ resp_L1' = (job \notin abortFlag)
    /\ rx' = [rx EXCEPT !.pc = "idle"]
    /\ Idle(job)
    /\ UNCHANGED <<respDecode, indications, downlink, txQueues, ruSlot, reorder, sent>>

-----------------------------------------------------------------------------
(* The tx job of a slot: push all encoding jobs, wait for all of them. *)
nr_dlsch_encoding(s) ==
    /\ TxJob(s) \in running
    /\ tx[s].pushed < Plan[s].coding
    /\ incomingFifo' = pushNotifiedFIFO(incomingFifo, CodingJob(s, tx[s].pushed))
    /\ tx' = [tx EXCEPT ![s] = [pushed |-> @.pushed + 1, nbJobs |-> @.nbJobs + 1]]
    /\ UNCHANGED <<running, abortFlag, uplink, nf, txQueues, ruSlot, resp_L1, reorder, sent>>

CollectCoding(s) ==
    /\ TxJob(s) \in running
    /\ tx[s].pushed = Plan[s].coding
    /\ nf[s] > 0
    /\ nf' = [nf EXCEPT ![s] = @ - 1]
    /\ tx' = [tx EXCEPT ![s].nbJobs = @ - 1]
    /\ UNCHANGED <<pool, uplink, txQueues, ruSlot, resp_L1, reorder, sent>>

FinishTx(job) ==
    /\ Kind(job) = "tx"
    /\ tx[SlotOf(job)] = [pushed |-> Plan[SlotOf(job)].coding, nbJobs |-> 0]
    /\ L1_tx_out' = IF job \in abortFlag THEN L1_tx_out ELSE Append(L1_tx_out, SlotOf(job))
    /\ Idle(job)
    /\ UNCHANGED <<uplink, downlink, L1_tx_free, L1_tx_filled, ruSlot, resp_L1, reorder, sent>>

-----------------------------------------------------------------------------
(* tx_reorder_thread. *)
NextTxSlot(s) ==
    IF ContinuousTx THEN s + 1
    ELSE Min({t \in s + 1 .. Len(Plan) : Plan[t].downlink} \union {Len(Plan) + 1})

TransmitKeeps(s) ==
    /\ sent' = Append(sent, s)
    /\ UNCHANGED <<pool, uplink, downlink, L1_tx_free, L1_tx_filled, ruSlot, resp_L1>>

\* The slot goes to the radio and its message is free again.
Transmit(s) ==
    /\ sent' = Append(sent, s)
    /\ L1_tx_free' = L1_tx_free + 1
    /\ UNCHANGED <<pool, uplink, downlink, L1_tx_filled, ruSlot, resp_L1>>

\* The slot that comes out first, whichever it is, is taken for the first slot.
ReorderFirst ==
    /\ reorder.pc = "first"
    /\ L1_tx_out # <<>>
    /\ reorder' = [pc |-> "loop", resL1Reserve |-> Head(L1_tx_out), next_tx_slot |-> Head(L1_tx_out)]
    /\ L1_tx_out' = Tail(L1_tx_out)
    /\ UNCHANGED <<pool, uplink, downlink, L1_tx_free, L1_tx_filled, ruSlot, resp_L1, sent>>

\* The reserved slot is the next one.
ReorderReserved ==
    /\ reorder.pc = "loop"
    /\ reorder.resL1Reserve # NoSlot
    /\ reorder.resL1Reserve = reorder.next_tx_slot
    /\ Transmit(reorder.resL1Reserve)
    /\ reorder' = [reorder EXCEPT !.resL1Reserve = NoSlot, !.next_tx_slot = NextTxSlot(@)]
    /\ UNCHANGED L1_tx_out

\* "order mistake": the reserved message is forgotten.
ReorderMistake ==
    /\ reorder.pc = "loop"
    /\ reorder.resL1Reserve \notin {NoSlot, reorder.next_tx_slot}
    /\ reorder' = [reorder EXCEPT !.resL1Reserve = NoSlot, !.pc = "pull"]
    /\ UNCHANGED <<pool, uplink, downlink, txQueues, ruSlot, resp_L1, sent>>

ReorderPullUnordered ==
    /\ reorder.pc = "loop"
    /\ reorder.resL1Reserve = NoSlot
    /\ L1_tx_out # <<>>
    /\ L1_tx_out' = Tail(L1_tx_out)
    /\ Transmit(Head(L1_tx_out))
    /\ reorder' = [reorder EXCEPT !.next_tx_slot = NextTxSlot(Head(L1_tx_out))]

\* Nothing is reserved: the next slot is sent, any other is reserved.
ReorderPull ==
    /\ reorder.pc = "loop"
    /\ reorder.resL1Reserve = NoSlot
    /\ L1_tx_out # <<>>
    /\ L1_tx_out' = Tail(L1_tx_out)
    /\ LET s == Head(L1_tx_out) IN
        IF s = reorder.next_tx_slot
        THEN /\ Transmit(s)
             /\ reorder' = [reorder EXCEPT !.next_tx_slot = NextTxSlot(s)]
        ELSE /\ reorder' = [reorder EXCEPT !.resL1Reserve = s, !.pc = "pull"]
             /\ UNCHANGED <<pool, uplink, downlink, L1_tx_free, L1_tx_filled, ruSlot, resp_L1, sent>>

\* The second pull of an iteration: whatever comes is sent.
ReorderPullAny ==
    /\ reorder.pc = "pull"
    /\ L1_tx_out # <<>>
    /\ L1_tx_out' = Tail(L1_tx_out)
    /\ Transmit(Head(L1_tx_out))
    /\ reorder' = [reorder EXCEPT !.pc = "loop", !.next_tx_slot = NextTxSlot(Head(L1_tx_out))]

-----------------------------------------------------------------------------
Init ==
    /\ incomingFifo = initNotifiedFIFO
    /\ running = {}
    /\ abortFlag = {}
    /\ respDecode = <<>>
    /\ nf = [s \in Slots |-> 0]
    /\ ruSlot = 1
    /\ resp_L1 = TRUE
    /\ rx = [pc |-> "idle", slot |-> NoSlot, ue |-> 1, nbDecode |-> 0, processedSegments |-> 0, nb |-> 0, copied |-> {}]
    /\ tx = [s \in Slots |-> [pushed |-> 0, nbJobs |-> 0]]
    /\ L1_tx_free = TxMessages
    /\ L1_tx_filled = <<>>
    /\ L1_tx_out = <<>>
    /\ reorder = [pc |-> "first", resL1Reserve |-> NoSlot, next_tx_slot |-> NoSlot]
    /\ indications = <<>>
    /\ sent = <<>>

RxStep ==
    \/ PuschNotDetected \/ PuschDetected \/ DecodingRefused
    \/ nr_ulsch_decoding \/ nr_postDecode \/ abortTpool \/ abortResponses
    \/ nr_schedule_response \/ LaunchTx \/ LaunchEmpty
    \/ \E job \in running : FinishRx(job)

TxStep(s) ==
    \/ nr_dlsch_encoding(s) \/ CollectCoding(s)
    \/ \E job \in running : job = TxJob(s) /\ FinishTx(job)

DecodeStep(job) == job \in running /\ FinishDecode(job)
CodingStep(job) == job \in running /\ FinishCoding(job)

ReorderStep == ReorderFirst \/ ReorderReserved \/ ReorderMistake \/ ReorderPull \/ ReorderPullAny

WorkerStep == \E job \in running : DecodeStep(job) \/ CodingStep(job)

Next ==
    \/ RuSlot
    \/ pullNotifiedFifoRemember
    \/ RxStep
    \/ \E s \in Slots : TxStep(s)
    \/ WorkerStep
    \/ ReorderStep

\* A thread that can go on does, and a computation ends.
Fairness ==
    /\ WF_vars(RuSlot)
    /\ WF_vars(pullNotifiedFifoRemember)
    /\ WF_vars(RxStep)
    /\ \A s \in Slots : WF_vars(TxStep(s))
    /\ WF_vars(WorkerStep)
    /\ WF_vars(ReorderStep)

Spec == Init /\ [][Next]_vars
FairSpec == Spec /\ Fairness

-----------------------------------------------------------------------------
Decoding == {"push", "pull", "abort", "abortResp"}

Queued(key) == Cardinality({job \in ToSet(incomingFifo.outF) : job.key = key})
Alive(key) == Cardinality({job \in running \ abortFlag : job.key = key})

\* "pushTpool adds a job to do in the thread pool": a job a client waits for is in the
\* queue, held by a worker that will answer, or answered.  A client that counts more jobs
\* than that waits for ever.
NoJobLost ==
    /\ rx.pc \in {"push", "pull", "abort"} => rx.nbDecode = Queued(RxKey) + Alive(RxKey) + Len(respDecode)
    /\ \A s \in Slots : tx[s].nbJobs = Queued(<<"dl", s, 0>>) + Alive(<<"dl", s, 0>>) + nf[s]
    /\ rx.pc = "idle" => (resp_L1 <=> Queued(<<"rx", ruSlot - 1, 0>>) = 0)

\* The AssertFatal of nr_postDecode: the answers processed and the jobs aborted, in the
\* queue, in a worker or answered meanwhile, are all the code blocks, each counted once;
\* and a worker that ends an aborted job late never answers into the decoding of the next
\* UE or slot.
AbortCountsEach ==
    /\ rx.pc = "abortResp" => rx.processedSegments + rx.nb + NbDeleted(respDecode, RxKey) = Blocks
    /\ \A i \in DOMAIN respDecode : rx.pc \in Decoding /\ respDecode[i].key = RxKey

IndicationsOf(s, u) == {i \in DOMAIN indications : indications[i].slot = s /\ indications[i].ue = u}

\* MAC gets at most one CRC indication for a UE of a slot, and by the time the scheduler is
\* called it has got one for each UE whose decoding was not refused, whether its PUSCH was
\* detected or not, its blocks decoded, failed or aborted; and an ACK only for a transport
\* block all of whose code blocks were decoded in this slot.
IndicatedOnce ==
    /\ \A i, j \in DOMAIN indications :
        indications[j].slot = indications[i].slot /\ indications[j].ue = indications[i].ue => i = j
    /\ rx.pc \in {"launch", "done"} =>
        \A u \in DOMAIN Plan[rx.slot].ul : Plan[rx.slot].ul[u] > 0 => IndicationsOf(rx.slot, u) # {}
    /\ \A i \in DOMAIN indications :
        LET ind == indications[i] IN ind.ack => ind.copied = 1 .. Plan[ind.slot].ul[ind.ue]

TxSlots == {s \in Slots : ContinuousTx \/ Plan[s].downlink}
StartedInOrder == sent # <<>> => sent[1] = Min(TxSlots)

\* Once the first slot came out first, slots go to the radio in order, none is left out and
\* both tx messages stay in use, whichever of two tx jobs ends first.
TransmittedInOrder ==
    StartedInOrder =>
        /\ ToSet(sent) = {s \in TxSlots : sent # <<>> /\ s <= Last(sent)}
        /\ \A i \in 1 .. Len(sent) - 1 : sent[i] < sent[i + 1]

\* Every slot is received and, when the first slot came out first, sent: workers that wait
\* for nested jobs never use up the pool.
EventuallySent == <>(ruSlot \notin Slots /\ resp_L1 /\ (StartedInOrder => ToSet(sent) = TxSlots))
=============================================================================
