---------------------------- MODULE NrL1CountProofs ----------------------------
(***************************************************************************)
(* Jobs of NrL1Pipeline are lost only through a dangling inF, which only   *)
(* an abort leaves that deletes the job pushed last and not all jobs.      *)
(***************************************************************************)
EXTENDS NrL1PipelineProofs

---------------------------------------------------------------------------
(* What the clients of the pool count.                                     *)

Live == Queue \cup (running \ abortFlag)
DlKey(s) == <<"dl", s, 0>>

DecodeCount == rx.pc \in {"push", "pull", "abort"} => rx.nbDecode = Cardinality(With(RxKey, Live)) + Len(respDecode)
AbortCount == rx.pc = "abortResp" => rx.processedSegments + rx.nb + Len(respDecode) = Blocks
CodingCount == \A s \in Slots : tx[s].nbJobs = Cardinality(With(DlKey(s), Live)) + nf[s]
RxQueued == rx.pc = "idle" /\ ~resp_L1 => RxJob(ruSlot - 1) \in Queue

WaitInv == DecodeCount /\ AbortCount /\ CodingCount /\ RxQueued

\* The jobs of a key are those in the queue and those that run and are not aborted.
LEMMA LiveFacts ==
  ASSUME PipeInv, NEW key
  PROVE  /\ Queue \subseteq Jobs /\ running \subseteq Jobs /\ Live \subseteq Jobs
         /\ IsFiniteSet(Queue) /\ IsFiniteSet(running) /\ IsFiniteSet(Live)
         /\ IsFiniteSet(With(key, Live)) /\ Cardinality(With(key, Live)) \in Nat
         /\ Queued(key) + Alive(key) = Cardinality(With(key, Live))
<1>1. /\ incomingFifo.outF \in Seq(Jobs) /\ Distinct(incomingFifo.outF) /\ running \subseteq Jobs /\ IsFiniteSet(running)
      /\ Queue \cap running = {}
  BY DEF PipeInv, TypeInv, PoolInv
<1>2. Queue \subseteq Jobs /\ IsFiniteSet(Queue)
  <2>1. Queue \subseteq Jobs
    BY <1>1, SeqElement DEF Queue, ToSet
  <2>2. IsFiniteSet(Queue)
    BY <1>1, DistinctLen DEF Queue
  <2> QED BY <2>1, <2>2
<1>3. IsFiniteSet(Live) /\ Live \subseteq Jobs
  <2>1. IsFiniteSet(running \ abortFlag)
    BY <1>1, FS_Subset
  <2> QED BY <1>1, <1>2, <2>1, FS_Union DEF Live
<1>4. IsFiniteSet(With(key, Live)) /\ Cardinality(With(key, Live)) \in Nat
  <2>1. With(key, Live) \subseteq Live
    BY DEF With
  <2> QED BY <1>3, <2>1, FS_Subset, FS_CardinalityType
<1>5. Queued(key) + Alive(key) = Cardinality(With(key, Live))
  <2> DEFINE A == With(key, Queue)
             B == With(key, running \ abortFlag)
  <2>1. A \cup B = With(key, Live) /\ A \cap B = {} /\ A \subseteq Queue /\ B \subseteq running
    BY <1>1 DEF With, Live
  <2>2. Queued(key) = Cardinality(A) /\ Alive(key) = Cardinality(B)
    BY DEF Queued, Alive, With, Queue
  <2> HIDE DEF A, B
  <2>3. IsFiniteSet(A) /\ IsFiniteSet(B)
    BY <1>1, <1>2, <2>1, FS_Subset
  <2>4. Cardinality(A \cup B) = Cardinality(A) + Cardinality(B) - Cardinality(A \cap B)
    BY <2>3, FS_Union
  <2>5. Cardinality(A \cap B) = 0 /\ Cardinality(A) \in Nat /\ Cardinality(B) \in Nat
    BY <2>1, <2>3, FS_EmptySet, FS_CardinalityType
  <2>6. Cardinality(A \cup B) = Cardinality(A) + Cardinality(B)
    BY <2>4, <2>5
  <2> QED BY <2>1, <2>2, <2>6
<1> QED BY <1>1, <1>2, <1>3, <1>4, <1>5

\* The counts are what the two properties need.
LEMMA WaitingFacts ==
  ASSUME PipeInv, WaitInv
  PROVE  NoJobLost /\ AbortCountsEach
<1>1. Len(respDecode) \in Nat /\ \A i \in DOMAIN respDecode : rx.pc \in Decoding /\ respDecode[i].key = RxKey
  BY DEF PipeInv, TypeInv, DecodeInv
<1>2. rx.pc \in {"push", "pull", "abort"} => rx.nbDecode = Queued(RxKey) + Alive(RxKey) + Len(respDecode)
  BY LiveFacts DEF WaitInv, DecodeCount
<1>3. \A s \in Slots : tx[s].nbJobs = Queued(<<"dl", s, 0>>) + Alive(<<"dl", s, 0>>) + nf[s]
  BY LiveFacts DEF WaitInv, CodingCount, DlKey
<1>4. rx.pc = "idle" => (resp_L1 <=> Queued(<<"rx", ruSlot - 1, 0>>) = 0)
  <2> SUFFICES ASSUME rx.pc = "idle" PROVE resp_L1 <=> Queued(<<"rx", ruSlot - 1, 0>>) = 0
    OBVIOUS
  <2> DEFINE Q == With(<<"rx", ruSlot - 1, 0>>, Queue)
  <2>1. Queued(<<"rx", ruSlot - 1, 0>>) = Cardinality(Q) /\ Q \subseteq Of("rx", Queue) /\ Q \subseteq Queue
    BY DEF Queued, With, Queue, Of, Kind
  <2>2. resp_L1 => Q = {}
    BY <2>1 DEF PipeInv, RxInv
  <2>3. ~resp_L1 => RxJob(ruSlot - 1) \in Q
    BY DEF WaitInv, RxQueued, RxJob, With
  <2> HIDE DEF Q
  <2>4. IsFiniteSet(Q)
    BY <2>1, LiveFacts, FS_Subset
  <2>5. Cardinality(Q) = 0 <=> Q = {}
    BY <2>4, FS_EmptySet
  <2> QED BY <2>1, <2>2, <2>3, <2>5
<1>5. rx.pc = "abortResp" => rx.processedSegments + rx.nb + NbDeleted(respDecode, RxKey) = Blocks
  <2>1. NbDeleted(respDecode, RxKey) = Len(respDecode)
    BY AnswersDistinct, AbortAll
  <2> QED BY <2>1 DEF WaitInv, AbortCount
<1> QED BY <1>1, <1>2, <1>3, <1>4, <1>5 DEF NoJobLost, AbortCountsEach

---------------------------------------------------------------------------
(* What a step changes of the jobs that will be answered.                  *)

\* The jobs of a key are of one kind.
LEMMA WithOf ==
  ASSUME NEW S, NEW T
  PROVE  /\ \A s, u : Of("ul", S) = Of("ul", T) => With(DecodeKey(s, u), S) = With(DecodeKey(s, u), T)
         /\ \A s : Of("dl", S) = Of("dl", T) => With(DlKey(s), S) = With(DlKey(s), T)
<1>1. \A s, u, e : e.key = DecodeKey(s, u) => Kind(e) = "ul"
  BY DEF DecodeKey, Kind
<1>2. \A s, e : e.key = DlKey(s) => Kind(e) = "dl"
  BY DEF DlKey, Kind
<1>3. \A kind, e : e \in Of(kind, S) <=> e \in S /\ Kind(e) = kind
  BY DEF Of
<1>4. \A kind, e : e \in Of(kind, T) <=> e \in T /\ Kind(e) = kind
  BY DEF Of
<1> QED BY <1>1, <1>2, <1>3, <1>4 DEF With

\* What does not disturb the counts of the encoder.
LEMMA CodingCountFrame ==
  ASSUME CodingCount, Of("dl", Live') = Of("dl", Live), UNCHANGED <<tx, nf>>
  PROVE  CodingCount'
<1>1. \A s : With(DlKey(s), Live') = With(DlKey(s), Live)
  BY WithOf
<1> QED BY <1>1 DEF CodingCount, Slots, DlKey

\* What does not disturb the counts of the decoder.
LEMMA DecodeCountFrame ==
  ASSUME DecodeCount, AbortCount, Of("ul", Live') = Of("ul", Live), UNCHANGED <<rx, respDecode>>
  PROVE  DecodeCount' /\ AbortCount'
<1>1. RxKey' = RxKey /\ Blocks' = Blocks
  BY DEF RxKey, Blocks, DecodeKey
<1>2. With(RxKey, Live') = With(RxKey, Live)
  BY WithOf DEF RxKey
<1> QED BY <1>1, <1>2 DEF DecodeCount, AbortCount

\* What leaves the L1 job of a slot in its queue.
LEMMA RxQueuedFrame ==
  ASSUME RxQueued, Of("rx", Queue) \subseteq Of("rx", Queue'), UNCHANGED <<rx, ruSlot, resp_L1>>
  PROVE  RxQueued'
BY KindFacts DEF RxQueued, Of, RxJob

\* A push to an intact queue adds the job and no other change.
LEMMA LivePush ==
  ASSUME PipeInv, QueueIntact, NEW msg \in Jobs, msg \notin Queue \cup running,
         incomingFifo' = pushNotifiedFIFO(incomingFifo, msg), UNCHANGED <<running, abortFlag>>
  PROVE  /\ Queue' = Queue \cup {msg} /\ Live' = Live \cup {msg} /\ QueueIntact'
         /\ incomingFifo'.outF = Append(incomingFifo.outF, msg)
         /\ \A k \in {"rx", "tx", "dl", "ul"} : k # Kind(msg) => Of(k, Live') = Of(k, Live) /\ Of(k, Queue') = Of(k, Queue)
         /\ Of("rx", Queue) \subseteq Of("rx", Queue')
<1>1. Queue' = Queue \cup {msg} /\ QueueIntact'
  BY PushPool DEF PipeInv
<1>2. Live' = Live \cup {msg}
  BY <1>1 DEF Live, PipeInv, PoolInv, Of
<1>3. incomingFifo'.outF = Append(incomingFifo.outF, msg)
  <2>1. FifoOK(incomingFifo, Jobs) /\ msg \notin ToSet(incomingFifo.outF) /\ Intact(incomingFifo)
    BY FifoInv DEF PipeInv, Queue, QueueIntact, Intact
  <2> DEFINE g == incomingFifo'
  <2>2. g = pushNotifiedFIFO(incomingFifo, msg)
    OBVIOUS
  <2> HIDE DEF g
  <2>3. g.outF = Append(incomingFifo.outF, msg)
    BY <2>1, <2>2, PushFacts
  <2> QED BY <2>3 DEF g
<1> QED BY <1>1, <1>2, <1>3 DEF Of

\* A worker that ends a job takes it out of the live ones, unless it was aborted.
LEMMA LiveIdle ==
  ASSUME PipeInv, NEW job \in running, Idle(job)
  PROVE  /\ Queue' = Queue /\ incomingFifo' = incomingFifo
         /\ Live' = Live \ {job} /\ (job \in abortFlag => job \notin Live) /\ (job \notin abortFlag => job \in Live)
         /\ \A k \in {"rx", "tx", "dl", "ul"} : k # Kind(job) => Of(k, Live') = Of(k, Live)
<1>1. /\ Queue' = Queue /\ incomingFifo' = incomingFifo /\ running' \ abortFlag' = (running \ abortFlag) \ {job}
      /\ job \notin Queue
  BY IdlePool DEF PipeInv, PoolInv
<1> QED BY <1>1 DEF Live, Of

\* The pool is left alone.
LEMMA LiveSame ==
  ASSUME UNCHANGED <<incomingFifo, running, abortFlag>>
  PROVE  Live' = Live /\ Queue' = Queue /\ (QueueIntact => QueueIntact')
BY DEF Live, Queue, QueueIntact

\* One job more of a key.
LEMMA CountAdd ==
  ASSUME NEW S, IsFiniteSet(S), NEW key, NEW e, e \notin S, e.key = key
  PROVE  Cardinality(With(key, S \cup {e})) = Cardinality(With(key, S)) + 1
<1>1. With(key, S \cup {e}) = With(key, S) \cup {e} /\ e \notin With(key, S) /\ With(key, S) \subseteq S
  BY DEF With
<1> QED BY <1>1, FS_Subset, FS_AddElement

\* One job less of a key.
LEMMA CountRemove ==
  ASSUME NEW S, IsFiniteSet(S), NEW key, NEW e \in S, e.key = key
  PROVE  Cardinality(With(key, S \ {e})) = Cardinality(With(key, S)) - 1
<1>1. With(key, S \ {e}) = With(key, S) \ {e} /\ e \in With(key, S) /\ With(key, S) \subseteq S
  BY DEF With
<1> QED BY <1>1, FS_Subset, FS_RemoveElement

---------------------------------------------------------------------------
(* The counts are kept by every step that finds the queue intact.          *)

\* The first state.
LEMMA InitWait == Init => WaitInv
<1> SUFFICES ASSUME Init PROVE WaitInv
  OBVIOUS
<1>1. PipeInv /\ rx.pc = "idle" /\ resp_L1 = TRUE /\ tx = [s \in Slots |-> [pushed |-> 0, nbJobs |-> 0]] /\ nf = [s \in Slots |-> 0]
      /\ running = {} /\ incomingFifo.outF = <<>>
  BY InitPipe DEF Init, initNotifiedFIFO
<1>2. Live = {}
  BY <1>1, EmptySet DEF Live, Queue
<1>3. \A key : With(key, Live) = {}
  BY <1>2 DEF With
<1>4. Cardinality({}) = 0
  BY FS_EmptySet
<1>5. CodingCount
  <2> SUFFICES ASSUME NEW s \in Slots PROVE tx[s].nbJobs = Cardinality(With(DlKey(s), Live)) + nf[s]
    BY DEF CodingCount
  <2>1. tx[s].nbJobs = 0 /\ nf[s] = 0
    BY <1>1
  <2> QED BY <1>3, <1>4, <2>1
<1> QED BY <1>1, <1>5 DEF WaitInv, DecodeCount, AbortCount, RxQueued

\* The RU thread pushes the L1 job of a slot.
LEMMA RuSlotCount ==
  ASSUME PipeInv, QueueIntact, WaitInv, RuSlot
  PROVE  WaitInv'
<1> DEFINE msg == RxJob(ruSlot)
<1>1. /\ ruSlot \in Slots /\ resp_L1 /\ resp_L1' = FALSE /\ ruSlot' = ruSlot + 1
      /\ incomingFifo' = pushNotifiedFIFO(incomingFifo, msg)
      /\ UNCHANGED <<running, abortFlag, respDecode, rx, nf, tx>>
  BY DEF RuSlot, uplink, downlink
<1>2. msg \in Jobs /\ Kind(msg) = "rx" /\ ruSlot \in Nat /\ ruSlot' - 1 = ruSlot
  BY <1>1, PlanFacts, JobFacts
<1>3. msg \notin Queue \cup running
  BY <1>1, <1>2 DEF PipeInv, RxInv, Of
<1> HIDE DEF msg
<1>4. Queue' = Queue \cup {msg} /\ Of("dl", Live') = Of("dl", Live) /\ Of("ul", Live') = Of("ul", Live)
  BY <1>1, <1>2, <1>3, LivePush
<1>5. RxQueued'
  BY <1>2, <1>4 DEF RxQueued, msg, RxJob
<1> QED BY <1>1, <1>4, <1>5, DecodeCountFrame, CodingCountFrame DEF WaitInv

\* A pull moves the first job from the queue to a worker.
LEMMA LivePull ==
  ASSUME PipeInv, pullNotifiedFifoRemember
  PROVE  /\ Head(incomingFifo.outF) \in Queue /\ Queue' = Queue \ {Head(incomingFifo.outF)}
         /\ running' = running \cup {Head(incomingFifo.outF)} /\ Live' = Live /\ (QueueIntact => QueueIntact')
         /\ incomingFifo.outF # <<>> /\ incomingFifo'.outF = Tail(incomingFifo.outF)
<1> DEFINE job == Head(incomingFifo.outF)
<1>1. /\ incomingFifo.outF # <<>> /\ running' = running \cup {job} /\ abortFlag' = abortFlag
      /\ incomingFifo' = pullNotifiedFIFO(incomingFifo)
  BY DEF pullNotifiedFifoRemember
<1>2. FifoOK(incomingFifo, Jobs)
  BY FifoInv DEF PipeInv
<1> DEFINE g == incomingFifo'
<1>3. g = pullNotifiedFIFO(incomingFifo)
  BY <1>1
<1> HIDE DEF g
<1>4. /\ g.outF = Tail(incomingFifo.outF) /\ job \in ToSet(incomingFifo.outF)
      /\ ToSet(g.outF) = ToSet(incomingFifo.outF) \ {job} /\ (Intact(incomingFifo) => Intact(g))
  BY <1>1, <1>2, <1>3, PullFacts
<1>5. Queue' = Queue \ {job} /\ job \in Queue /\ incomingFifo'.outF = Tail(incomingFifo.outF) /\ (QueueIntact => QueueIntact')
  BY <1>4 DEF Queue, g, Intact, QueueIntact
<1>6. Live' = Live
  BY <1>1, <1>5 DEF Live, PipeInv, PoolInv, Of
<1> QED BY <1>1, <1>5, <1>6

\* A worker takes a job: it is still alive.
LEMMA PullCount ==
  ASSUME PipeInv, WaitInv, pullNotifiedFifoRemember
  PROVE  WaitInv'
<1> DEFINE job == Head(incomingFifo.outF)
<1>1. /\ rx' = IF Kind(job) = "rx" THEN [rx EXCEPT !.pc = "detect", !.slot = SlotOf(job), !.ue = 1] ELSE rx
      /\ UNCHANGED <<respDecode, nf, tx, ruSlot, resp_L1>>
  BY DEF pullNotifiedFifoRemember, downlink
<1>2. Queue' = Queue \ {job} /\ Live' = Live
  BY LivePull
<1> HIDE DEF job
<1>3. CodingCount'
  BY <1>1, <1>2, CodingCountFrame DEF WaitInv
<1>4. CASE Kind(job) = "rx"
  <2>1. rx'.pc = "detect"
    <3>1. rx = RxFields(rx.pc, rx.slot, rx.ue, rx.nbDecode, rx.processedSegments, rx.nb, rx.copied)
      BY RxType DEF PipeInv
    <3>2. rx' = RxFields("detect", SlotOf(job), 1, rx.nbDecode, rx.processedSegments, rx.nb, rx.copied)
      BY <1>1, <1>4, <3>1 DEF RxFields
    <3> QED BY <3>2 DEF RxFields
  <2> QED BY <1>3, <2>1 DEF WaitInv, DecodeCount, AbortCount, RxQueued
<1>5. CASE Kind(job) # "rx"
  <2>1. Of("rx", Queue) \subseteq Of("rx", Queue') /\ rx' = rx
    BY <1>1, <1>2, <1>5 DEF Of
  <2> QED BY <1>1, <1>2, <1>3, <2>1, DecodeCountFrame, RxQueuedFrame DEF WaitInv
<1> QED BY <1>4, <1>5

\* A decoded segment is answered, or thrown away when it was aborted.
LEMMA FinishDecodeCount ==
  ASSUME PipeInv, WaitInv, NEW job \in running, FinishDecode(job)
  PROVE  WaitInv'
<1>1. /\ Kind(job) = "ul" /\ Idle(job) /\ UNCHANGED <<rx, nf, tx, ruSlot, resp_L1>>
      /\ \E ok \in BOOLEAN : respDecode' = IF job \in abortFlag THEN respDecode
                                          ELSE Append(respDecode, [key |-> job.key, nb |-> job.nb, ok |-> ok])
  BY DEF FinishDecode, downlink
<1>2. Queue' = Queue /\ Live' = Live \ {job} /\ Of("dl", Live') = Of("dl", Live)
  BY <1>1, LiveIdle
<1>3. CodingCount' /\ RxQueued'
  BY <1>1, <1>2, CodingCountFrame, RxQueuedFrame DEF WaitInv
<1>4. CASE job \in abortFlag
  <2>1. Live' = Live /\ respDecode' = respDecode
    BY <1>1, <1>2, <1>4, LiveIdle
  <2> QED BY <1>1, <1>3, <2>1, DecodeCountFrame DEF WaitInv
<1>5. CASE job \notin abortFlag
  <2>1. LiveJob(job) /\ job \in Live
    BY <1>1, <1>5 DEF PipeInv, DecodeInv, Of, Live
  <2>2. job.key = RxKey /\ rx.pc # "abortResp"
    BY <2>1, KeyFacts DEF LiveJob, RxKey
  <2>3. Len(respDecode') = Len(respDecode) + 1 /\ Len(respDecode) \in Nat
    <3>1. respDecode \in Seq(Answers) /\ job \in Jobs
      BY DEF PipeInv, TypeInv
    <3>2. \A ok \in BOOLEAN : [key |-> job.key, nb |-> job.nb, ok |-> ok] \in Answers
      BY <3>1 DEF Jobs, Answers
    <3>3. PICK e \in Answers : respDecode' = Append(respDecode, e)
      BY <1>1, <1>5, <3>2
    <3> QED BY <3>1, <3>3
  <2>4. Cardinality(With(RxKey, Live')) = Cardinality(With(RxKey, Live)) - 1 /\ Cardinality(With(RxKey, Live)) \in Nat
    BY <1>2, <2>1, <2>2, LiveFacts, CountRemove
  <2>5. RxKey' = RxKey
    BY <1>1 DEF RxKey, DecodeKey
  <2>6. DecodeCount' /\ AbortCount'
    <3>1. rx.pc \in {"push", "pull", "abort"} => rx.nbDecode = Cardinality(With(RxKey, Live)) + Len(respDecode)
      BY DEF WaitInv, DecodeCount
    <3>2. rx.pc \in {"push", "pull", "abort"} => rx.nbDecode = Cardinality(With(RxKey, Live')) + Len(respDecode')
      BY <2>3, <2>4, <3>1
    <3> QED BY <1>1, <2>2, <2>5, <3>2 DEF DecodeCount, AbortCount
  <2> QED BY <1>3, <2>6 DEF WaitInv
<1> QED BY <1>4, <1>5

\* An encoded code block is answered to its own caller.
LEMMA FinishCodingCount ==
  ASSUME PipeInv, WaitInv, NEW job \in running, FinishCoding(job)
  PROVE  WaitInv'
<1> DEFINE s == SlotOf(job)
<1>1. /\ Kind(job) = "dl" /\ Idle(job) /\ UNCHANGED <<rx, respDecode, tx, ruSlot, resp_L1>>
      /\ nf' = IF job \in abortFlag THEN nf ELSE [nf EXCEPT ![s] = @ + 1]
  BY DEF FinishCoding, uplink
<1>2. job \notin abortFlag
  BY <1>1 DEF PipeInv, PoolInv, Of
<1>3. Queue' = Queue /\ Live' = Live \ {job} /\ job \in Live /\ Of("ul", Live') = Of("ul", Live)
  BY <1>1, <1>2, LiveIdle
<1>4. DecodeCount' /\ AbortCount' /\ RxQueued'
  BY <1>1, <1>3, DecodeCountFrame, RxQueuedFrame DEF WaitInv
<1>5. job = CodingJob(s, job.nb) /\ s \in Slots
  BY <1>1 DEF PipeInv, CodingInv, Of, Launched, TxSlots
<1>6. job.key = DlKey(s)
  BY <1>5 DEF CodingJob, DlKey
<1> HIDE DEF s
<1>7. nf \in [Slots -> Nat] /\ nf' = [nf EXCEPT ![s] = @ + 1]
  BY <1>1, <1>2 DEF PipeInv, TypeInv
<1>8. CodingCount'
  <2> SUFFICES ASSUME NEW t \in Slots PROVE tx[t].nbJobs = Cardinality(With(DlKey(t), Live')) + nf'[t]
    BY <1>1 DEF CodingCount, Slots, DlKey
  <2>1. tx[t].nbJobs = Cardinality(With(DlKey(t), Live)) + nf[t] /\ Cardinality(With(DlKey(t), Live)) \in Nat
    BY LiveFacts DEF WaitInv, CodingCount
  <2>2. CASE t = s
    <3>1. Cardinality(With(DlKey(s), Live')) = Cardinality(With(DlKey(s), Live)) - 1
      BY <1>3, <1>6, LiveFacts, CountRemove
    <3>2. nf'[t] = nf[t] + 1 /\ nf[t] \in Nat
      BY <1>7, <2>2
    <3> QED BY <2>1, <2>2, <3>1, <3>2
  <2>3. CASE t # s
    <3>1. With(DlKey(t), Live') = With(DlKey(t), Live)
      <4>1. job.key # DlKey(t)
        BY <1>6, <2>3 DEF DlKey
      <4> QED BY <1>3, <4>1 DEF With
    <3>2. nf'[t] = nf[t]
      BY <1>7, <2>3
    <3> QED BY <2>1, <3>1, <3>2
  <2> QED BY <2>2, <2>3
<1> QED BY <1>4, <1>8 DEF WaitInv

---------------------------------------------------------------------------
(* The steps of the rx job.                                                *)

\* What nr_ulsch_decoding pushes and counts.
LEMMA DecodingFacts ==
  ASSUME PipeInv, nr_ulsch_decoding
  PROVE  \E msg \in Jobs :
           /\ Kind(msg) = "ul" /\ msg.key = RxKey /\ msg \notin Queue \cup running
           /\ incomingFifo' = pushNotifiedFIFO(incomingFifo, msg)
           /\ rx.pc = "push" /\ rx.processedSegments = 0 /\ rx.nbDecode \in Nat
           /\ rx'.pc \in {"push", "pull"} /\ rx'.slot = rx.slot /\ rx'.ue = rx.ue
           /\ rx'.nbDecode = rx.nbDecode + 1 /\ rx'.processedSegments = 0
           /\ UNCHANGED <<running, abortFlag, respDecode, nf, tx, ruSlot, resp_L1>>
<1> DEFINE msg == DecodeJob(rx.slot, rx.ue, rx.nbDecode + 1)
           pc == IF rx.nbDecode + 1 = Blocks THEN "pull" ELSE "push"
<1>1. /\ rx.pc = "push" /\ incomingFifo' = pushNotifiedFIFO(incomingFifo, msg)
      /\ rx' = [rx EXCEPT !.nbDecode = @ + 1, !.pc = pc]
      /\ UNCHANGED <<running, abortFlag, respDecode, nf, tx, ruSlot, resp_L1>>
  BY DEF nr_ulsch_decoding, Rx, downlink
<1>2. TypeInv /\ rx.processedSegments = 0 /\ rx.nbDecode \in 0 .. (Blocks - 1) /\ rx.slot \in Slots
      /\ rx.ue \in DOMAIN Plan[rx.slot].ul
  BY <1>1 DEF PipeInv, DecodeInv, ProgressInv, RxInv, Decoding
<1>3. Blocks \in Nat \ {0} /\ rx.slot \in Nat /\ rx.ue \in Nat
  BY <1>2, PlanFacts, RxType DEF Blocks
<1>4. rx.nbDecode \in Nat /\ rx.nbDecode + 1 \in Nat
  BY <1>2, <1>3
<1>5. rx' = RxFields(pc, rx.slot, rx.ue, rx.nbDecode + 1, 0, rx.nb, rx.copied)
  BY <1>1, <1>2, RxType DEF RxFields
<1>6. rx'.pc \in {"push", "pull"} /\ rx'.slot = rx.slot /\ rx'.ue = rx.ue /\ rx'.nbDecode = rx.nbDecode + 1 /\ rx'.processedSegments = 0
  BY <1>5 DEF RxFields
<1>7. msg \in Jobs /\ Kind(msg) = "ul" /\ msg.nb = rx.nbDecode + 1 /\ msg.key = RxKey
  BY <1>3, <1>4, JobFacts, SMTT(30) DEF RxKey
<1>8. msg \notin Queue \cup running
  <2>1. ASSUME msg \in Of("ul", Queue \cup (running \ abortFlag)) PROVE FALSE
    <3>1. msg.nb \in 1 .. Pushed /\ Pushed = rx.nbDecode
      BY <1>2, <1>4, <2>1 DEF PipeInv, DecodeInv, LiveJob, Pushed
    <3> QED BY <1>4, <1>7, <3>1
  <2>2. ASSUME msg \in abortFlag PROVE FALSE
    <3>1. OldJob(msg)
      BY <2>2 DEF PipeInv, DecodeInv
    <3>2. msg.key[2] = rx.slot /\ msg.key[3] = rx.ue
      BY <1>7, KeyFacts DEF RxKey
    <3> QED BY <1>1, <1>3, <3>1, <3>2 DEF OldJob, Stuck
  <2> QED BY <1>7, <2>1, <2>2 DEF Of
<1> QED BY <1>1, <1>2, <1>4, <1>6, <1>7, <1>8

\* Nobody holds a job of the UE that the rx job has not begun to decode.
LEMMA DetectedFacts ==
  ASSUME PipeInv, PuschDetected
  PROVE  /\ rx'.pc = "push" /\ rx'.slot = rx.slot /\ rx'.ue = rx.ue /\ rx'.nbDecode = 0 /\ rx'.processedSegments = 0
         /\ respDecode = <<>> /\ Of("ul", Live) = {} /\ RxKey' = RxKey /\ \A job \in running : job.key # RxKey
         /\ UNCHANGED <<incomingFifo, running, abortFlag, respDecode, nf, tx, ruSlot, resp_L1>>
<1>1. /\ rx.pc = "detect"
      /\ rx' = [rx EXCEPT !.pc = "push", !.nbDecode = 0, !.processedSegments = 0, !.copied = {}]
      /\ UNCHANGED <<incomingFifo, running, abortFlag, respDecode, nf, tx, ruSlot, resp_L1>>
  BY DEF PuschDetected, Rx, pool, downlink
<1>2. rx' = RxFields("push", rx.slot, rx.ue, 0, 0, rx.nb, {}) /\ rx.slot \in Nat /\ rx.ue \in Nat
  BY <1>1, RxType DEF RxFields, PipeInv
<1>3. rx'.pc = "push" /\ rx'.slot = rx.slot /\ rx'.ue = rx.ue /\ rx'.nbDecode = 0 /\ rx'.processedSegments = 0
  BY <1>2 DEF RxFields
<1>4. respDecode = <<>> /\ Of("ul", Live) = {}
  BY <1>1, NothingAwaited DEF Decoding, Live
<1>5. ASSUME NEW job \in running, job.key = RxKey PROVE FALSE
  <2>1. Kind(job) = "ul" /\ job.key[2] = rx.slot /\ job.key[3] = rx.ue
    BY <1>5, KeyFacts DEF Kind, RxKey
  <2>2. job \in abortFlag
    BY <1>4, <2>1 DEF Of, Live
  <2>3. OldJob(job)
    BY <2>2 DEF PipeInv, DecodeInv
  <2> QED BY <1>1, <1>2, <2>1, <2>3 DEF OldJob, Stuck
<1> QED BY <1>1, <1>3, <1>4, <1>5 DEF RxKey, DecodeKey

\* What nr_postDecode pulls and counts.
LEMMA AnswerFacts ==
  ASSUME PipeInv, nr_postDecode
  PROVE  /\ rx.pc = "pull" /\ respDecode # <<>> /\ respDecode \in Seq(Answers) /\ respDecode' = Tail(respDecode)
         /\ \/ rx'.pc \in {"pull", "abort"} /\ rx'.slot = rx.slot /\ rx'.ue = rx.ue /\ rx'.nbDecode = rx.nbDecode - 1
            \/ rx'.pc = "detect"
         /\ UNCHANGED <<incomingFifo, running, abortFlag, nf, tx, ruSlot, resp_L1>>
<1> DEFINE req == Head(respDecode)
           d == rx.nbDecode - 1
           p == rx.processedSegments + 1
           c == IF req.ok THEN rx.copied \cup {req.nb} ELSE rx.copied
           r == [rx EXCEPT !.processedSegments = @ + 1, !.nbDecode = @ - 1,
                           !.copied = IF req.ok THEN @ \union {req.nb} ELSE @]
           last == r.processedSegments = Blocks
<1>1. /\ rx.pc = "pull" /\ respDecode # <<>> /\ respDecode' = Tail(respDecode)
      /\ rx' = IF ~req.ok /\ ~last THEN [r EXCEPT !.pc = "abort"] ELSE AfterDecode(r)
      /\ UNCHANGED <<incomingFifo, running, abortFlag, nf, tx, ruSlot, resp_L1>>
  BY DEF nr_postDecode, Rx, pool, downlink
<1>2. TypeInv /\ respDecode \in Seq(Answers)
  BY DEF PipeInv, TypeInv
<1>3. r = RxFields("pull", rx.slot, rx.ue, d, p, rx.nb, c)
  <2>1. rx = RxFields("pull", rx.slot, rx.ue, rx.nbDecode, rx.processedSegments, rx.nb, rx.copied)
    BY <1>1, <1>2, RxType
  <2> DEFINE rr == r
  <2>2. rr = [rx EXCEPT !.processedSegments = p, !.nbDecode = d, !.copied = c]
    BY <2>1 DEF RxFields
  <2> HIDE DEF rr, c, d, p
  <2>3. rr = RxFields("pull", rx.slot, rx.ue, d, p, rx.nb, c)
    BY <1>1, <1>2, <2>2, RxAnswer
  <2> QED BY <2>3 DEF rr
<1> HIDE DEF r, req, d, p, c
<1>4. \/ rx' = [r EXCEPT !.pc = "abort"] \/ rx' = [r EXCEPT !.pc = "pull"] \/ rx' = [r EXCEPT !.pc = "detect", !.ue = @ + 1]
  BY <1>1 DEF AfterDecode
<1>5. ASSUME NEW pc \in {"abort", "pull"}, rx' = [r EXCEPT !.pc = pc]
      PROVE  rx'.pc = pc /\ rx'.slot = rx.slot /\ rx'.ue = rx.ue /\ rx'.nbDecode = rx.nbDecode - 1
  <2>1. rx' = RxFields(pc, rx.slot, rx.ue, d, p, rx.nb, c)
    BY <1>3, <1>5 DEF RxFields
  <2> QED BY <2>1 DEF RxFields, d
<1>6. ASSUME rx' = [r EXCEPT !.pc = "detect", !.ue = @ + 1] PROVE rx'.pc = "detect"
  <2>1. rx' = RxFields("detect", rx.slot, rx.ue + 1, d, p, rx.nb, c)
    BY <1>3, <1>6 DEF RxFields
  <2> QED BY <2>1 DEF RxFields
<1> QED BY <1>1, <1>2, <1>4, <1>5, <1>6

\* An abort takes out all jobs of the UE, and counts each of them once.
LEMMA AbortTpoolFacts ==
  ASSUME PipeInv, abortTpool
  PROVE  /\ rx.pc = "abort" /\ rx'.pc = "abortResp" /\ rx'.slot = rx.slot /\ rx'.ue = rx.ue
         /\ rx'.processedSegments = rx.processedSegments /\ rx'.nb = Cardinality(With(RxKey, Live))
         /\ rx.processedSegments + rx.nbDecode = Blocks /\ rx.processedSegments \in 1 .. (Blocks - 1)
         /\ Live' = Without(RxKey, Live) /\ Queue' = Without(RxKey, Queue)
         /\ UNCHANGED <<running, respDecode, nf, tx, ruSlot, resp_L1>>
<1> DEFINE marked == {job \in running : job.key = RxKey}
           n == NbDeleted(incomingFifo.outF, RxKey) + Cardinality(marked)
<1>1. /\ rx.pc = "abort" /\ abortFlag' = abortFlag \union marked
      /\ rx' = [rx EXCEPT !.pc = "abortResp", !.nb = n]
      /\ incomingFifo' = abortNotifiedFIFO(incomingFifo, RxKey)
      /\ UNCHANGED <<running, respDecode, nf, tx, ruSlot, resp_L1>>
  BY DEF abortTpool, Rx, downlink
<1>2. TypeInv /\ FifoOK(incomingFifo, Jobs)
  BY FifoInv DEF PipeInv
<1>3. /\ Queue' = Without(RxKey, Queue) /\ NbDeleted(incomingFifo.outF, RxKey) = Cardinality(With(RxKey, Queue))
  <2> DEFINE g == incomingFifo'
  <2>1. g = abortNotifiedFIFO(incomingFifo, RxKey)
    BY <1>1
  <2> HIDE DEF g
  <2>2. /\ ToSet(g.outF) = Without(RxKey, ToSet(incomingFifo.outF))
        /\ NbDeleted(incomingFifo.outF, RxKey) = Cardinality(With(RxKey, ToSet(incomingFifo.outF)))
    BY <1>2, <2>1, AbortFifo
  <2> USE DEF g
  <2> QED BY <2>2 DEF Queue
<1>4. marked = With(RxKey, running \ abortFlag)
  <2>1. ASSUME NEW job \in abortFlag, job.key = RxKey PROVE FALSE
    <3>1. OldJob(job) /\ job.key[2] = rx.slot /\ job.key[3] = rx.ue /\ rx.slot \in Nat /\ rx.ue \in Nat
      BY <2>1, <1>2, KeyFacts, RxType DEF PipeInv, DecodeInv, RxKey
    <3> QED BY <1>1, <3>1 DEF OldJob, Stuck
  <2> QED BY <2>1 DEF With
<1>5. n = Queued(RxKey) + Alive(RxKey)
  BY <1>3, <1>4 DEF Queued, Alive, With, Queue
<1>6. n = Cardinality(With(RxKey, Live))
  <2> HIDE DEF n
  <2> QED BY <1>5, LiveFacts
<1> HIDE DEF n
<1>7. rx' = RxFields("abortResp", rx.slot, rx.ue, rx.nbDecode, rx.processedSegments, n, rx.copied)
  BY <1>1, <1>2, RxType DEF RxFields
<1>8. Live' = Without(RxKey, Live)
  <2>1. running' \ abortFlag' = Without(RxKey, running \ abortFlag)
    BY <1>1, <1>4 DEF With, Without
  <2> QED BY <1>3, <2>1 DEF Live, Without
<1>9. rx.processedSegments + rx.nbDecode = Blocks /\ rx.processedSegments \in 1 .. (Blocks - 1)
  BY <1>1 DEF PipeInv, DecodeInv, ProgressInv, Pushed
<1> QED BY <1>1, <1>3, <1>6, <1>7, <1>8, <1>9 DEF RxFields

\* When all jobs were counted, the rx job goes on to the next UE.
LEMMA AbortResponsesFacts ==
  ASSUME PipeInv, AbortCount, abortResponses
  PROVE  /\ rx.pc = "abortResp" /\ rx'.pc = "detect"
         /\ UNCHANGED <<incomingFifo, running, abortFlag, nf, tx, ruSlot, resp_L1>>
<1> DEFINE n == rx.nb + NbDeleted(respDecode, RxKey)
           d == rx.nbDecode - n
           r == [rx EXCEPT !.nb = n, !.nbDecode = @ - n, !.processedSegments = Blocks]
<1>1. /\ rx.pc = "abortResp" /\ rx' = AfterDecode(r)
      /\ UNCHANGED <<incomingFifo, running, abortFlag, nf, tx, ruSlot, resp_L1>>
  BY DEF abortResponses, Rx, pool, downlink
<1>2. TypeInv /\ rx.nbDecode \in Int /\ rx.nb \in Nat /\ rx.processedSegments \in Nat
  BY RxType DEF PipeInv
<1>3. NbDeleted(respDecode, RxKey) = Len(respDecode) /\ Len(respDecode) \in Nat
  BY AnswersDistinct, AbortAll
<1>4. rx.processedSegments + rx.nbDecode = Blocks /\ rx.processedSegments + rx.nb + Len(respDecode) = Blocks
  BY <1>1 DEF PipeInv, DecodeInv, ProgressInv, Pushed, AbortCount
<1>5. d = 0
  BY <1>2, <1>3, <1>4
<1>6. r = RxFields("abortResp", rx.slot, rx.ue, d, Blocks, n, rx.copied)
  <2>1. rx = RxFields("abortResp", rx.slot, rx.ue, rx.nbDecode, rx.processedSegments, rx.nb, rx.copied)
    BY <1>1, <1>2, RxType
  <2> DEFINE rr == r
  <2>2. rr = [rx EXCEPT !.nb = n, !.nbDecode = d, !.processedSegments = Blocks]
    BY <2>1 DEF RxFields
  <2> HIDE DEF rr, n, d
  <2>3. rr = RxFields("abortResp", rx.slot, rx.ue, d, Blocks, n, rx.copied)
    BY <1>1, <1>2, <2>2, RxAborted
  <2> QED BY <2>3 DEF rr
<1> HIDE DEF r, n, d
<1>7. r.nbDecode = 0
  BY <1>5, <1>6 DEF RxFields
<1>8. rx' = [r EXCEPT !.pc = "detect", !.ue = @ + 1]
  BY <1>1, <1>7 DEF AfterDecode
<1>9. rx' = RxFields("detect", rx.slot, rx.ue + 1, d, Blocks, n, rx.copied)
  BY <1>6, <1>8 DEF RxFields
<1> QED BY <1>1, <1>9 DEF RxFields

\* What the launch of the transmission pushes.
LEMMA LaunchTxFacts ==
  ASSUME PipeInv, LaunchTx
  PROVE  \E msg \in Jobs :
           /\ Kind(msg) = "tx" /\ msg \notin Queue \cup running /\ incomingFifo' = pushNotifiedFIFO(incomingFifo, msg)
           /\ rx.pc = "launch" /\ rx'.pc = "done" /\ UNCHANGED <<running, abortFlag, nf, tx, respDecode>>
<1> DEFINE msg == TxJob(Head(L1_tx_filled))
<1>1. /\ rx.pc = "launch" /\ Plan[rx.slot].downlink /\ rx' = [rx EXCEPT !.pc = "done"]
      /\ incomingFifo' = pushNotifiedFIFO(incomingFifo, msg) /\ UNCHANGED <<running, abortFlag, nf, tx, respDecode>>
  BY DEF LaunchTx, Rx, downlink
<1>2. rx.slot \in Nat /\ L1_tx_filled = <<rx.slot>>
  BY <1>1, RxType DEF PipeInv, TxInv
<1>3. Head(L1_tx_filled) = rx.slot
  BY <1>2
<1>4. msg \in Jobs /\ Kind(msg) = "tx" /\ SlotOf(msg) = rx.slot
  BY <1>2, <1>3, JobFacts
<1>5. rx.slot \notin Launched
  BY <1>1, <1>2 DEF Launched
<1>6. msg \notin Queue \cup running
  BY <1>4, <1>5 DEF PipeInv, TxInv, Of
<1>7. rx'.pc = "done"
  <2>1. rx' = RxFields("done", rx.slot, rx.ue, rx.nbDecode, rx.processedSegments, rx.nb, rx.copied)
    BY <1>1, RxType DEF RxFields, PipeInv
  <2> QED BY <2>1 DEF RxFields
<1> QED BY <1>1, <1>4, <1>6, <1>7

\* Outside of the decoding nothing is counted.
LEMMA QuietCount ==
  ASSUME WaitInv, rx'.pc \notin Decoding \cup {"idle"}, Of("dl", Live') = Of("dl", Live), UNCHANGED <<tx, nf>>
  PROVE  WaitInv'
BY CodingCountFrame DEF WaitInv, DecodeCount, AbortCount, RxQueued, Decoding

\* nr_ulsch_decoding counts each segment it pushes.
LEMMA DecodingCount ==
  ASSUME PipeInv, QueueIntact, WaitInv, nr_ulsch_decoding
  PROVE  WaitInv'
<1>1. PICK msg \in Jobs :
        /\ Kind(msg) = "ul" /\ msg.key = RxKey /\ msg \notin Queue \cup running
        /\ incomingFifo' = pushNotifiedFIFO(incomingFifo, msg)
        /\ rx.pc = "push" /\ rx.nbDecode \in Nat
        /\ rx'.pc \in {"push", "pull"} /\ rx'.slot = rx.slot /\ rx'.ue = rx.ue /\ rx'.nbDecode = rx.nbDecode + 1
        /\ UNCHANGED <<running, abortFlag, respDecode, nf, tx, ruSlot, resp_L1>>
  BY DecodingFacts
<1>2. Live' = Live \cup {msg} /\ Of("dl", Live') = Of("dl", Live)
  BY <1>1, LivePush
<1>3. msg \notin Live
  BY <1>1 DEF Live
<1>4. Cardinality(With(RxKey, Live')) = Cardinality(With(RxKey, Live)) + 1 /\ Cardinality(With(RxKey, Live)) \in Nat
  BY <1>1, <1>2, <1>3, LiveFacts, CountAdd
<1>5. RxKey' = RxKey
  BY <1>1 DEF RxKey, DecodeKey
<1>6. rx.nbDecode = Cardinality(With(RxKey, Live)) + Len(respDecode) /\ Len(respDecode) \in Nat
  BY <1>1, AnswersDistinct DEF WaitInv, DecodeCount
<1>7. rx'.nbDecode = Cardinality(With(RxKey, Live')) + Len(respDecode)
  BY <1>1, <1>4, <1>6
<1>8. DecodeCount' /\ AbortCount' /\ RxQueued'
  BY <1>1, <1>5, <1>7 DEF DecodeCount, AbortCount, RxQueued
<1> QED BY <1>1, <1>2, <1>8, CodingCountFrame DEF WaitInv

\* A new transport block begins with no segment outstanding.
LEMMA DetectedCount ==
  ASSUME PipeInv, WaitInv, PuschDetected
  PROVE  WaitInv'
<1>1. /\ rx'.pc = "push" /\ rx'.nbDecode = 0 /\ respDecode = <<>> /\ Of("ul", Live) = {} /\ RxKey' = RxKey
      /\ UNCHANGED <<incomingFifo, running, abortFlag, respDecode, nf, tx>>
  BY DetectedFacts
<1>2. Live' = Live
  BY <1>1, LiveSame
<1>3. With(RxKey, Live) = {}
  BY <1>1, KeyFacts DEF With, Of, RxKey, Kind
<1>4. Cardinality({}) = 0
  BY FS_EmptySet
<1>5. DecodeCount'
  BY <1>1, <1>2, <1>3, <1>4 DEF DecodeCount
<1> QED BY <1>1, <1>2, <1>5, CodingCountFrame DEF WaitInv, AbortCount, RxQueued

\* nr_postDecode takes one answer and counts it.
LEMMA AnswerCount ==
  ASSUME PipeInv, WaitInv, nr_postDecode
  PROVE  WaitInv'
<1>1. /\ rx.pc = "pull" /\ respDecode # <<>> /\ respDecode \in Seq(Answers) /\ respDecode' = Tail(respDecode)
      /\ \/ rx'.pc \in {"pull", "abort"} /\ rx'.slot = rx.slot /\ rx'.ue = rx.ue /\ rx'.nbDecode = rx.nbDecode - 1
         \/ rx'.pc = "detect"
      /\ UNCHANGED <<incomingFifo, running, abortFlag, nf, tx, ruSlot, resp_L1>>
  BY AnswerFacts
<1>2. Live' = Live
  BY <1>1, LiveSame
<1>3. CASE rx'.pc = "detect"
  BY <1>1, <1>2, <1>3, QuietCount DEF Decoding
<1>4. CASE rx'.pc # "detect"
  <2>1. RxKey' = RxKey
    BY <1>1, <1>4 DEF RxKey, DecodeKey
  <2>2. Len(respDecode') = Len(respDecode) - 1 /\ Len(respDecode) \in Nat
    BY <1>1
  <2>3. rx.nbDecode = Cardinality(With(RxKey, Live)) + Len(respDecode) /\ Cardinality(With(RxKey, Live)) \in Nat
    BY <1>1, LiveFacts DEF WaitInv, DecodeCount
  <2>4. rx'.nbDecode = Cardinality(With(RxKey, Live)) + Len(respDecode')
    BY <1>1, <1>4, <2>2, <2>3
  <2>5. DecodeCount' /\ AbortCount' /\ RxQueued'
    BY <1>1, <1>2, <1>4, <2>1, <2>4 DEF DecodeCount, AbortCount, RxQueued
  <2> QED BY <1>1, <1>2, <2>5, CodingCountFrame DEF WaitInv
<1> QED BY <1>3, <1>4

\* abortTpool takes from the count what it deletes or flags.
LEMMA AbortTpoolCount ==
  ASSUME PipeInv, WaitInv, abortTpool
  PROVE  WaitInv'
<1>1. /\ rx.pc = "abort" /\ rx'.pc = "abortResp" /\ rx'.slot = rx.slot /\ rx'.ue = rx.ue
      /\ rx'.processedSegments = rx.processedSegments /\ rx'.nb = Cardinality(With(RxKey, Live))
      /\ rx.processedSegments + rx.nbDecode = Blocks
      /\ Live' = Without(RxKey, Live) /\ UNCHANGED <<respDecode, nf, tx>>
  BY AbortTpoolFacts
<1>2. rx.nbDecode = Cardinality(With(RxKey, Live)) + Len(respDecode) /\ Cardinality(With(RxKey, Live)) \in Nat
  BY <1>1, LiveFacts DEF WaitInv, DecodeCount
<1>3. Len(respDecode) \in Nat /\ rx.processedSegments \in Nat
  BY AnswersDistinct, RxType DEF PipeInv
<1>4. rx'.processedSegments + rx'.nb + Len(respDecode) = Blocks
  BY <1>1, <1>2, <1>3
<1>5. Blocks' = Blocks
  BY <1>1 DEF Blocks
<1>6. Of("dl", Live') = Of("dl", Live)
  BY <1>1, KeyFacts DEF Without, Of, RxKey, Kind
<1> QED BY <1>1, <1>4, <1>5, <1>6, CodingCountFrame DEF WaitInv, DecodeCount, AbortCount, RxQueued

\* The rest of the rx job: the UEs that are not decoded, the scheduler and the tx job.
LEMMA RestOfRxCount ==
  ASSUME PipeInv, QueueIntact, WaitInv,
         PuschNotDetected \/ DecodingRefused \/ abortResponses \/ nr_schedule_response \/ LaunchTx \/ LaunchEmpty
  PROVE  WaitInv' /\ QueueIntact' /\ rx'.pc \in {"detect", "launch", "done"}
<1>1. CASE PuschNotDetected
  <2>1. rx.pc = "detect" /\ rx' = [rx EXCEPT !.ue = @ + 1] /\ UNCHANGED <<incomingFifo, running, abortFlag, nf, tx>>
    BY <1>1 DEF PuschNotDetected, Rx, pool, downlink
  <2>2. rx'.pc = "detect"
    <3>1. rx' = RxFields("detect", rx.slot, rx.ue + 1, rx.nbDecode, rx.processedSegments, rx.nb, rx.copied)
      BY <2>1, RxType DEF RxFields, PipeInv
    <3> QED BY <3>1 DEF RxFields
  <2> QED BY <2>1, <2>2, LiveSame, QuietCount DEF Decoding
<1>2. CASE abortResponses
  BY <1>2, AbortResponsesFacts, LiveSame, QuietCount DEF WaitInv, Decoding
<1>3. CASE nr_schedule_response
  <2>1. rx' = [rx EXCEPT !.pc = "launch"] /\ UNCHANGED <<incomingFifo, running, abortFlag, nf, tx>>
    BY <1>3 DEF nr_schedule_response, pool, downlink
  <2>2. rx'.pc = "launch"
    <3>1. rx' = RxFields("launch", rx.slot, rx.ue, rx.nbDecode, rx.processedSegments, rx.nb, rx.copied)
      BY <2>1, RxType DEF RxFields, PipeInv
    <3> QED BY <3>1 DEF RxFields
  <2> QED BY <2>1, <2>2, LiveSame, QuietCount DEF Decoding
<1>4. CASE LaunchEmpty
  <2>1. rx' = [rx EXCEPT !.pc = "done"] /\ UNCHANGED <<incomingFifo, running, abortFlag, nf, tx>>
    BY <1>4 DEF LaunchEmpty, pool, downlink
  <2>2. rx'.pc = "done"
    <3>1. rx' = RxFields("done", rx.slot, rx.ue, rx.nbDecode, rx.processedSegments, rx.nb, rx.copied)
      BY <2>1, RxType DEF RxFields, PipeInv
    <3> QED BY <3>1 DEF RxFields
  <2> QED BY <2>1, <2>2, LiveSame, QuietCount DEF Decoding
<1>5. CASE LaunchTx
  <2>1. PICK msg \in Jobs :
          /\ Kind(msg) = "tx" /\ msg \notin Queue \cup running /\ incomingFifo' = pushNotifiedFIFO(incomingFifo, msg)
          /\ rx'.pc = "done" /\ UNCHANGED <<running, abortFlag, nf, tx>>
    BY <1>5, LaunchTxFacts
  <2>2. Of("dl", Live') = Of("dl", Live) /\ QueueIntact'
    BY <2>1, LivePush
  <2> QED BY <2>1, <2>2, QuietCount DEF Decoding
<1>6. CASE DecodingRefused
  <2>1. /\ rx.pc = "detect" /\ rx' = [rx EXCEPT !.ue = @ + 1, !.nbDecode = 0, !.processedSegments = 0]
        /\ UNCHANGED <<incomingFifo, running, abortFlag, nf, tx>>
    BY <1>6 DEF DecodingRefused, Rx, pool, downlink
  <2>2. rx'.pc = "detect"
    <3>1. rx' = RxFields("detect", rx.slot, rx.ue + 1, 0, 0, rx.nb, rx.copied)
      BY <2>1, RxType DEF RxFields, PipeInv
    <3> QED BY <3>1 DEF RxFields
  <2> QED BY <2>1, <2>2, LiveSame, QuietCount DEF Decoding
<1> QED BY <1>1, <1>2, <1>3, <1>4, <1>5, <1>6

---------------------------------------------------------------------------
(* The end of the rx job, the tx jobs and the reorder thread.              *)

\* The L1 job of the slot ends.
LEMMA FinishRxCount ==
  ASSUME PipeInv, QueueIntact, WaitInv, NEW job \in running, FinishRx(job)
  PROVE  WaitInv' /\ QueueIntact' /\ rx'.pc = "idle" /\ incomingFifo' = incomingFifo
<1>1. /\ job = RxJob(rx.slot) /\ resp_L1' = (job \notin abortFlag) /\ Idle(job)
      /\ rx' = [rx EXCEPT !.pc = "idle"] /\ UNCHANGED <<nf, tx>>
  BY DEF FinishRx, downlink
<1>2. Kind(job) = "rx"
  BY <1>1, KindFacts
<1>3. resp_L1' = TRUE
  BY <1>1, <1>2 DEF PipeInv, PoolInv, Of
<1>4. incomingFifo' = incomingFifo /\ Of("dl", Live') = Of("dl", Live)
  BY <1>1, <1>2, LiveIdle
<1>5. rx'.pc = "idle"
  <2>1. rx' = RxFields("idle", rx.slot, rx.ue, rx.nbDecode, rx.processedSegments, rx.nb, rx.copied)
    BY <1>1, RxType DEF RxFields, PipeInv
  <2> QED BY <2>1 DEF RxFields
<1> QED BY <1>1, <1>3, <1>4, <1>5, CodingCountFrame DEF WaitInv, DecodeCount, AbortCount, RxQueued, QueueIntact

\* The transmission job of the slot ends.
LEMMA FinishTxCount ==
  ASSUME PipeInv, QueueIntact, WaitInv, NEW job \in running, FinishTx(job)
  PROVE  WaitInv' /\ QueueIntact'
<1>1. Kind(job) = "tx" /\ Idle(job) /\ UNCHANGED <<rx, respDecode, nf, tx, ruSlot, resp_L1>>
  BY DEF FinishTx, uplink, downlink
<1>2. Queue' = Queue /\ incomingFifo' = incomingFifo /\ Of("dl", Live') = Of("dl", Live) /\ Of("ul", Live') = Of("ul", Live)
  BY <1>1, LiveIdle
<1> QED BY <1>1, <1>2, CodingCountFrame, DecodeCountFrame, RxQueuedFrame DEF WaitInv, QueueIntact

\* What nr_dlsch_encoding pushes and counts.
LEMMA EncodingFacts ==
  ASSUME PipeInv, NEW s \in Slots, nr_dlsch_encoding(s)
  PROVE  \E msg \in Jobs :
           /\ Kind(msg) = "dl" /\ msg.key = DlKey(s) /\ msg \notin Queue \cup running
           /\ incomingFifo' = pushNotifiedFIFO(incomingFifo, msg)
           /\ tx \in [Slots -> [pushed : Nat, nbJobs : Int]]
           /\ tx' = [tx EXCEPT ![s] = [pushed |-> @.pushed + 1, nbJobs |-> @.nbJobs + 1]]
           /\ UNCHANGED <<running, abortFlag, rx, respDecode, nf, ruSlot, resp_L1>>
<1> DEFINE msg == CodingJob(s, tx[s].pushed)
<1>1. /\ incomingFifo' = pushNotifiedFIFO(incomingFifo, msg)
      /\ tx' = [tx EXCEPT ![s] = [pushed |-> @.pushed + 1, nbJobs |-> @.nbJobs + 1]]
      /\ UNCHANGED <<running, abortFlag, rx, respDecode, nf, ruSlot, resp_L1>>
  BY DEF nr_dlsch_encoding, uplink
<1>2. s \in Nat /\ tx \in [Slots -> [pushed : Nat, nbJobs : Int]] /\ tx[s].pushed \in Nat
  BY PlanFacts DEF PipeInv, TypeInv
<1>3. msg \in Jobs /\ Kind(msg) = "dl" /\ SlotOf(msg) = s /\ msg.nb = tx[s].pushed
  BY <1>2, JobFacts
<1>4. msg.key = DlKey(s)
  BY DEF CodingJob, DlKey
<1>5. msg \notin Queue \cup running
  <2> SUFFICES ASSUME msg \in Queue \cup running PROVE FALSE
    OBVIOUS
  <2>1. msg.nb < tx[SlotOf(msg)].pushed
    BY <1>3 DEF PipeInv, CodingInv, Of
  <2> QED BY <1>2, <1>3, <2>1
<1> QED BY <1>1, <1>2, <1>3, <1>4, <1>5

\* nr_dlsch_encoding counts each code block it pushes.
LEMMA EncodingCount ==
  ASSUME PipeInv, QueueIntact, WaitInv, NEW s \in Slots, nr_dlsch_encoding(s)
  PROVE  WaitInv'
<1>1. PICK msg \in Jobs :
        /\ Kind(msg) = "dl" /\ msg.key = DlKey(s) /\ msg \notin Queue \cup running
        /\ incomingFifo' = pushNotifiedFIFO(incomingFifo, msg)
        /\ tx \in [Slots -> [pushed : Nat, nbJobs : Int]]
        /\ tx' = [tx EXCEPT ![s] = [pushed |-> @.pushed + 1, nbJobs |-> @.nbJobs + 1]]
        /\ UNCHANGED <<running, abortFlag, rx, respDecode, nf, ruSlot, resp_L1>>
  BY EncodingFacts
<1>2. /\ Live' = Live \cup {msg} /\ Of("ul", Live') = Of("ul", Live) /\ Of("rx", Queue) \subseteq Of("rx", Queue')
  BY <1>1, LivePush
<1>3. msg \notin Live
  BY <1>1 DEF Live
<1>4. DecodeCount' /\ AbortCount' /\ RxQueued'
  BY <1>1, <1>2, DecodeCountFrame, RxQueuedFrame DEF WaitInv
<1>5. CodingCount'
  <2> SUFFICES ASSUME NEW t \in Slots PROVE tx'[t].nbJobs = Cardinality(With(DlKey(t), Live')) + nf[t]
    BY <1>1 DEF CodingCount, Slots, DlKey
  <2>1. tx[t].nbJobs = Cardinality(With(DlKey(t), Live)) + nf[t] /\ Cardinality(With(DlKey(t), Live)) \in Nat /\ nf[t] \in Nat
    BY LiveFacts DEF WaitInv, CodingCount, PipeInv, TypeInv
  <2>2. CASE t = s
    <3>1. Cardinality(With(DlKey(s), Live')) = Cardinality(With(DlKey(s), Live)) + 1
      BY <1>1, <1>2, <1>3, LiveFacts, CountAdd
    <3>2. tx'[t].nbJobs = tx[t].nbJobs + 1
      BY <1>1, <2>2
    <3> QED BY <2>1, <2>2, <3>1, <3>2
  <2>3. CASE t # s
    <3>1. With(DlKey(t), Live') = With(DlKey(t), Live)
      <4>1. msg.key # DlKey(t)
        BY <1>1, <2>3 DEF DlKey
      <4> QED BY <1>2, <4>1 DEF With
    <3>2. tx'[t] = tx[t]
      BY <1>1, <2>3
    <3> QED BY <2>1, <3>1, <3>2
  <2> QED BY <2>2, <2>3
<1> QED BY <1>4, <1>5 DEF WaitInv

\* The caller collects an answer of its own.
LEMMA CollectCount ==
  ASSUME PipeInv, QueueIntact, WaitInv, NEW s \in Slots, CollectCoding(s)
  PROVE  WaitInv' /\ QueueIntact'
<1>1. /\ nf[s] > 0 /\ nf' = [nf EXCEPT ![s] = @ - 1] /\ tx' = [tx EXCEPT ![s].nbJobs = @ - 1]
      /\ UNCHANGED <<incomingFifo, running, abortFlag, rx, respDecode, ruSlot, resp_L1>>
  BY DEF CollectCoding, pool, uplink
<1>2. Live' = Live /\ Queue' = Queue /\ QueueIntact'
  BY <1>1, LiveSame
<1>3. DecodeCount' /\ AbortCount' /\ RxQueued'
  BY <1>1, <1>2, DecodeCountFrame, RxQueuedFrame DEF WaitInv
<1>4. nf \in [Slots -> Nat] /\ tx \in [Slots -> [pushed : Nat, nbJobs : Int]]
  BY DEF PipeInv, TypeInv
<1>5. CodingCount'
  <2> SUFFICES ASSUME NEW t \in Slots PROVE tx'[t].nbJobs = Cardinality(With(DlKey(t), Live)) + nf'[t]
    BY <1>2 DEF CodingCount, Slots, DlKey
  <2>1. tx[t].nbJobs = Cardinality(With(DlKey(t), Live)) + nf[t] /\ Cardinality(With(DlKey(t), Live)) \in Nat /\ nf[t] \in Nat
    BY <1>4, LiveFacts DEF WaitInv, CodingCount
  <2>2. CASE t = s
    <3>1. tx'[t].nbJobs = tx[t].nbJobs - 1 /\ nf'[t] = nf[t] - 1
      BY <1>1, <1>4, <2>2
    <3> QED BY <2>1, <3>1
  <2>3. CASE t # s
    <3>1. tx'[t] = tx[t] /\ nf'[t] = nf[t]
      BY <1>1, <1>4, <2>3
    <3> QED BY <2>1, <3>1
  <2> QED BY <2>2, <2>3
<1> QED BY <1>2, <1>3, <1>5 DEF WaitInv

\* The reorder thread does not touch the pool.
LEMMA ReorderCount ==
  ASSUME PipeInv, QueueIntact, WaitInv, ReorderStep \/ UNCHANGED vars
  PROVE  WaitInv' /\ QueueIntact' /\ UNCHANGED <<incomingFifo, running, abortFlag, rx, respDecode>>
<1>1. UNCHANGED <<incomingFifo, running, abortFlag, rx, respDecode, nf, tx, ruSlot, resp_L1>>
  <2>1. CASE ReorderFirst
    BY <2>1 DEF ReorderFirst, pool, uplink, downlink
  <2>2. CASE ReorderReserved
    BY <2>2 DEF ReorderReserved, Transmit, pool, uplink, downlink
  <2>3. CASE ReorderMistake
    BY <2>3 DEF ReorderMistake, pool, uplink, downlink
  <2>4. CASE ReorderPull
    BY <2>4 DEF ReorderPull, Transmit, pool, uplink, downlink
  <2>5. CASE ReorderPullAny
    BY <2>5 DEF ReorderPullAny, Transmit, pool, uplink, downlink
  <2>6. CASE UNCHANGED vars
    BY <2>6 DEF vars, pool, uplink, downlink
  <2> QED BY <2>1, <2>2, <2>3, <2>4, <2>5, <2>6 DEF ReorderStep
<1> QED BY <1>1, LiveSame, CodingCountFrame, DecodeCountFrame, RxQueuedFrame DEF WaitInv

\* Every step keeps the counts while the queue is intact.
LEMMA WaitNext ==
  ASSUME PipeInv, QueueIntact, WaitInv, [Next]_vars
  PROVE  WaitInv'
<1>1. CASE RuSlot
  BY <1>1, RuSlotCount
<1>2. CASE pullNotifiedFifoRemember
  BY <1>2, PullCount
<1>3. CASE RxStep
  BY <1>3, RestOfRxCount, DetectedCount, DecodingCount, AnswerCount, AbortTpoolCount, FinishRxCount DEF RxStep
<1>4. CASE \E s \in Slots : TxStep(s)
  BY <1>4, EncodingCount, CollectCount, FinishTxCount DEF TxStep
<1>5. CASE WorkerStep
  BY <1>5, FinishDecodeCount, FinishCodingCount DEF WorkerStep, DecodeStep, CodingStep
<1>6. CASE ReorderStep \/ UNCHANGED vars
  BY <1>6, ReorderCount
<1> QED BY <1>1, <1>2, <1>3, <1>4, <1>5, <1>6 DEF Next

\* pushTpool loses a job, and a client waits for ever, only when abortNotifiedFIFO has left
\* inF dangling: as long as inF is the end of the list, the jobs counted by nr_ulsch_decoding
\* and nr_dlsch_encoding are in the pool or answered, and the AssertFatal of nr_postDecode holds.
THEOREM LostOnlyByDanglingInF == Spec /\ []QueueIntact => [](NoJobLost /\ AbortCountsEach)
<1>1. Init => WaitInv
  BY InitWait
<1>2. PipeInv /\ QueueIntact /\ WaitInv /\ [Next]_vars => WaitInv'
  BY WaitNext
<1>3. PipeInv /\ WaitInv => NoJobLost /\ AbortCountsEach
  BY WaitingFacts
<1> QED BY <1>1, <1>2, <1>3, PipeInvariance, PTL DEF Spec

---------------------------------------------------------------------------
(* The aborts that leave inF in order.                                     *)

\* The abort of the UE empties the queue, or the job pushed last is not one it deletes.
SafeAbort ==
  \/ Kept(incomingFifo.outF, RxKey) = <<>>
  \/ incomingFifo.outF # <<>> /\ Last(incomingFifo.outF).key # RxKey

\* Only an abort can leave inF dangling.
LEMMA IntactStep ==
  ASSUME PipeInv, QueueIntact, WaitInv, [Next]_vars, ~abortTpool
  PROVE  QueueIntact'
<1>1. CASE RuSlot
  <2> DEFINE msg == RxJob(ruSlot)
  <2>1. /\ ruSlot \in Slots /\ resp_L1 /\ incomingFifo' = pushNotifiedFIFO(incomingFifo, msg) /\ UNCHANGED <<running, abortFlag>>
    BY <1>1 DEF RuSlot
  <2>2. msg \in Jobs /\ Kind(msg) = "rx"
    BY <2>1, PlanFacts, JobFacts
  <2>3. msg \notin Queue \cup running
    BY <2>1, <2>2 DEF PipeInv, RxInv, Of
  <2> HIDE DEF msg
  <2> QED BY <2>1, <2>2, <2>3, LivePush
<1>2. CASE pullNotifiedFifoRemember
  BY <1>2, LivePull
<1>3. CASE RxStep
  <2>1. CASE nr_ulsch_decoding
    BY <2>1, DecodingFacts, LivePush
  <2>2. CASE PuschDetected \/ nr_postDecode
    BY <2>2, DetectedFacts, AnswerFacts, LiveSame
  <2> QED BY <1>3, <2>1, <2>2, RestOfRxCount, FinishRxCount DEF RxStep
<1>4. CASE \E s \in Slots : TxStep(s)
  <2>1. ASSUME NEW s \in Slots, nr_dlsch_encoding(s) PROVE QueueIntact'
    BY <2>1, EncodingFacts, LivePush
  <2> QED BY <1>4, <2>1, CollectCount, FinishTxCount DEF TxStep
<1>5. CASE WorkerStep
  <2>1. PICK job \in running : Idle(job)
    BY <1>5 DEF WorkerStep, DecodeStep, CodingStep, FinishDecode, FinishCoding
  <2> QED BY <2>1, LiveIdle DEF QueueIntact
<1>6. CASE ReorderStep \/ UNCHANGED vars
  BY <1>6, ReorderCount
<1> QED BY <1>1, <1>2, <1>3, <1>4, <1>5, <1>6 DEF Next

\* The last element of a list stays the last when it is not deleted.
LEMMA KeptLast ==
  ASSUME NEW S, NEW list \in Seq(S), list # <<>>, NEW key, Last(list).key # key
  PROVE  Last(Kept(list, key)) = Last(list)
<1> DEFINE n == Len(list)
<1>1. n \in Nat /\ n # 0 /\ Last(list) = list[n] /\ \A k \in 1..n : list[k] \in S
  BY DEF Last
<1> HIDE DEF n
<1>2. PICK f : LoopFrom(list, key, f, n) /\ AbortLoop(list, key) = f[n]
  BY <1>1, LoopIs, Zenon DEF n
<1> DEFINE T == {k \in 0..n : f[k].kept \in Seq(S)}
<1>3. 0 \in T
  <2>1. f[0] = [kept |-> <<>>, nbDeleted |-> 0]
    BY <1>1, <1>2 DEF LoopFrom
  <2>2. f[0].kept = <<>> /\ 0 \in 0..n
    BY <1>1, <2>1
  <2>3. <<>> \in Seq(S)
    OBVIOUS
  <2> QED BY <2>2, <2>3
<1>4. ASSUME NEW k \in 1..n, k - 1 \in T PROVE k \in T
  <2>1. f[k] = LoopStep(f[k - 1], list[k], key) /\ k \in 0..n
    BY <1>1, <1>2 DEF LoopFrom
  <2>2. f[k].kept = f[k - 1].kept \/ f[k].kept = Append(f[k - 1].kept, list[k])
    BY <2>1 DEF LoopStep
  <2>3. f[k - 1].kept \in Seq(S) /\ list[k] \in S
    BY <1>1, <1>4
  <2>4. \A q \in Seq(S), e \in S : Append(q, e) \in Seq(S)
    OBVIOUS
  <2>5. f[k].kept \in Seq(S)
    BY <2>2, <2>3, <2>4
  <2> QED BY <2>1, <2>5
<1>5. \A k \in 0..n : k \in T
  <2> HIDE DEF T
  <2> QED BY <1>1, <1>3, <1>4, NatInduct
<1>6. f[n] = LoopStep(f[n - 1], list[n], key) /\ n - 1 \in 0..n
  BY <1>1, <1>2 DEF LoopFrom
<1>7. f[n].kept = Append(f[n - 1].kept, list[n]) /\ f[n - 1].kept \in Seq(S)
  BY <1>1, <1>5, <1>6 DEF LoopStep
<1>8. \A q \in Seq(S), e \in S : Last(Append(q, e)) = e
  BY DEF Last
<1>9. n \in 1..n
  BY <1>1
<1> QED BY <1>1, <1>2, <1>7, <1>8, <1>9 DEF Kept

\* An abort that empties the queue, or leaves the job pushed last, leaves inF in order.
LEMMA SafeAbortKeeps ==
  ASSUME PipeInv, QueueIntact, abortTpool, SafeAbort
  PROVE  QueueIntact'
<1> DEFINE g == incomingFifo'
           k == Kept(incomingFifo.outF, RxKey)
<1>1. g = [outF |-> k, inF |-> IF k = <<>> THEN NULL ELSE incomingFifo.inF]
  BY DEF abortTpool, abortNotifiedFIFO, ResetInF
<1>2. incomingFifo.outF \in Seq(Jobs)
  BY DEF PipeInv, TypeInv
<1>3. k # <<>> => Last(k) = Last(incomingFifo.outF) /\ incomingFifo.outF # <<>>
  BY <1>2, KeptLast DEF SafeAbort
<1> HIDE DEF g, k
<1>4. g.outF = <<>> \/ g.inF = Last(g.outF)
  BY <1>1, <1>3 DEF QueueIntact
<1> QED BY <1>4 DEF QueueIntact, g

\* The queue stays intact, and the counts hold, as long as every abort is safe.
LEMMA IntactInvariance == Spec /\ [][abortTpool => SafeAbort]_vars => [](QueueIntact /\ WaitInv)
<1>1. Init => QueueIntact /\ WaitInv
  <2>1. Init => incomingFifo.outF = <<>>
    BY DEF Init, initNotifiedFIFO
  <2> QED BY <2>1, InitWait DEF QueueIntact
<1>2. PipeInv /\ (QueueIntact /\ WaitInv) /\ [Next]_vars /\ [abortTpool => SafeAbort]_vars => (QueueIntact /\ WaitInv)'
  <2> SUFFICES ASSUME PipeInv, QueueIntact, WaitInv, [Next]_vars, [abortTpool => SafeAbort]_vars
               PROVE  QueueIntact' /\ WaitInv'
    OBVIOUS
  <2>1. WaitInv'
    BY WaitNext
  <2>2. CASE UNCHANGED vars
    BY <2>1, <2>2 DEF vars, pool, QueueIntact
  <2>3. CASE abortTpool /\ SafeAbort
    BY <2>1, <2>3, SafeAbortKeeps
  <2>4. CASE ~abortTpool
    BY <2>1, <2>4, IntactStep
  <2> QED BY <2>1, <2>2, <2>3, <2>4
<1> QED BY <1>1, <1>2, PipeInvariance, PTL DEF Spec

\* A job pushed with pushTpool is lost only after an abort (thread-pool.h l.284-316) that
\* deleted the job pushed last and left another one in the queue, whatever else is decoded,
\* encoded and aborted: what nr_ulsch_procedures, nr_dlsch_encoding and the RU thread wait for is
\* in the pool or answered.
THEOREM JobsKept == Spec /\ [][abortTpool => SafeAbort]_vars => []NoJobLost
<1>1. PipeInv /\ WaitInv => NoJobLost
  BY WaitingFacts
<1>2. Spec /\ [][abortTpool => SafeAbort]_vars => []PipeInv /\ [](QueueIntact /\ WaitInv)
  BY PipeInvariance, IntactInvariance
<1> QED BY <1>1, <1>2, PTL

\* Up to such an abort the AssertFatal of nr_postDecode holds at every abort: the answers
\* processed and the jobs deleted are all the code blocks, and no late worker answers into the
\* decoding of another UE.
THEOREM AbortsCounted == Spec /\ [][abortTpool => SafeAbort]_vars => []AbortCountsEach
<1>1. PipeInv /\ WaitInv => AbortCountsEach
  BY WaitingFacts
<1>2. Spec /\ [][abortTpool => SafeAbort]_vars => []PipeInv /\ [](QueueIntact /\ WaitInv)
  BY PipeInvariance, IntactInvariance
<1> QED BY <1>1, <1>2, PTL
=============================================================================
