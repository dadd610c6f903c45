--------------------------- MODULE NrL1PipelineProofs ---------------------------
(***************************************************************************)
(* Proofs about NrL1Pipeline, for every plan of slots and any number of    *)
(* workers: one CRC indication for each UE and slots sent in order.        *)
(***************************************************************************)
EXTENDS NrL1Pipeline, SequenceLemmas

---------------------------------------------------------------------------
(* The inductive invariant.                                                *)

Keys == {"rx", "tx", "dl", "ul"} \X Nat \X Nat
Jobs == [key : Keys, nb : Nat]
Answers == [key : Keys, nb : Nat, ok : BOOLEAN]
RxState == [pc : {"idle", "detect", "push", "pull", "abort", "abortResp", "launch", "done"},
            slot : Nat, ue : Nat \ {0}, nbDecode : Int, processedSegments : Nat, nb : Nat,
            copied : SUBSET Nat]

TypeInv ==
  /\ incomingFifo = [outF |-> incomingFifo.outF, inF |-> incomingFifo.inF]
  /\ incomingFifo.outF \in Seq(Jobs)
  /\ running \subseteq Jobs /\ IsFiniteSet(running)
  /\ respDecode \in Seq(Answers)
  /\ nf \in [Slots -> Nat]
  /\ tx \in [Slots -> [pushed : Nat, nbJobs : Int]]
  /\ rx \in RxState
  /\ ruSlot \in 1 .. (Len(Plan) + 1) /\ resp_L1 \in BOOLEAN
  /\ L1_tx_free \in Nat
  /\ L1_tx_filled \in Seq(Nat) /\ L1_tx_out \in Seq(Nat) /\ sent \in Seq(Nat)
  /\ reorder \in [pc : {"first", "loop", "pull"}, resL1Reserve : Nat, next_tx_slot : Nat]
  /\ indications \in Seq([slot : Nat, ue : Nat, ack : BOOLEAN, copied : SUBSET Nat])

Queue == ToSet(incomingFifo.outF)
Of(kind, jobs) == {job \in jobs : Kind(job) = kind}

\* A job is in the pool once; only decoding jobs are aborted.
PoolInv ==
  /\ Distinct(incomingFifo.outF)
  /\ Queue \cap running = {}
  /\ abortFlag \subseteq Of("ul", running)

\* There is one rx job, that of the slot the RU thread has just given.
RxInv ==
  /\ resp_L1 => rx.pc = "idle"
  /\ rx.slot = IF rx.pc = "idle" /\ ~resp_L1 THEN ruSlot - 2 ELSE ruSlot - 1
  /\ rx.pc # "idle" => rx.slot \in Slots
  /\ \A job \in Of("rx", Queue) : job = RxJob(ruSlot - 1) /\ rx.pc = "idle" /\ ~resp_L1
  /\ \A job \in Of("rx", running) : job = RxJob(rx.slot) /\ rx.pc # "idle"

\* The rx job waits for answers that were lost: it was told of fewer than it awaits.
Stuck == rx.pc = "pull" /\ rx.processedSegments >= Blocks

Pushed == rx.processedSegments + rx.nbDecode

\* A decoding job that will be answered is one of the code blocks pushed for this UE.
LiveJob(job) ==
  /\ rx.pc \in {"push", "pull", "abort"}
  /\ ~Stuck
  /\ job = DecodeJob(rx.slot, rx.ue, job.nb) /\ job.nb \in 1 .. Pushed

\* An aborted job belongs to an earlier UE or slot, or to this UE when it has given up.
OldJob(job) ==
  /\ job = DecodeJob(job.key[2], job.key[3], job.nb)
  /\ \/ job.key[2] < rx.slot
     \/ job.key[2] = rx.slot /\ job.key[3] < rx.ue
     \/ job.key = RxKey /\ (rx.pc = "abortResp" \/ Stuck)

\* The code block nb of this UE will still be answered.
Awaited(nb) ==
  \/ DecodeJob(rx.slot, rx.ue, nb) \in Queue \cup (running \ abortFlag)
  \/ \E i \in DOMAIN respDecode : respDecode[i].nb = nb

\* How far the decoding of the UE has come.
ProgressInv ==
  /\ rx.pc \in Decoding => rx.ue \in DOMAIN Plan[rx.slot].ul /\ Blocks # 0
  /\ rx.pc \in {"launch", "done"} => rx.ue > Len(Plan[rx.slot].ul)
  /\ rx.pc = "push" => rx.processedSegments = 0 /\ rx.copied = {} /\ rx.nbDecode \in 0 .. (Blocks - 1)
  /\ rx.pc = "pull" => \/ Stuck /\ respDecode = <<>>
                       \/ /\ Pushed = Blocks /\ rx.nbDecode > 0
                          /\ rx.copied \subseteq 1 .. Blocks
                          /\ Cardinality(rx.copied) = rx.processedSegments
  /\ rx.pc \in {"abort", "abortResp"} => Pushed = Blocks /\ rx.processedSegments \in 1 .. (Blocks - 1)

DecodeInv ==
  /\ ProgressInv
  /\ \A job \in Of("ul", Queue \cup (running \ abortFlag)) : LiveJob(job)
  /\ \A job \in abortFlag : OldJob(job)
  /\ \A i \in DOMAIN respDecode :
       /\ rx.pc \in Decoding /\ ~Stuck
       /\ respDecode[i].key = RxKey /\ respDecode[i].nb \in 1 .. Pushed
       /\ DecodeJob(rx.slot, rx.ue, respDecode[i].nb) \notin Queue \cup (running \ abortFlag)
       /\ \A j \in DOMAIN respDecode : respDecode[i].nb = respDecode[j].nb => i = j
  /\ rx.pc \in {"push", "pull"} => \A nb \in rx.copied : ~Awaited(nb)

\* Each UE of the slot has been indicated or refused up to the one the rx job is at, and none
\* has been indicated twice.
IndicationInv ==
  /\ \A i \in DOMAIN indications :
       \/ indications[i].slot < rx.slot
       \/ indications[i].slot = rx.slot /\ indications[i].ue < rx.ue
       \/ indications[i].slot = rx.slot /\ indications[i].ue = rx.ue /\ Stuck
  /\ \A i, j \in DOMAIN indications :
       indications[i].slot = indications[j].slot /\ indications[i].ue = indications[j].ue => i = j
  /\ rx.pc # "idle" =>
       \A u \in 1 .. (rx.ue - 1) : Plan[rx.slot].ul[u] = 0 \/ IndicationsOf(rx.slot, u) # {}
  /\ \A i \in DOMAIN indications :
       indications[i].ack => indications[i].copied = 1 .. Plan[indications[i].slot].ul[indications[i].ue]

\* Slots whose tx job has been launched, or that went to the reorder thread without one.
Launched == {s \in TxSlots : s < rx.slot \/ (s = rx.slot /\ rx.pc \in {"done", "idle"})}

\* Slots that have been given a tx message.
Assigned == {s \in TxSlots : s \in Launched \/ (s = rx.slot /\ rx.pc = "launch" /\ Plan[s].downlink)}

\* A launched slot is at one place: in the pool, out of it, reserved or sent.
TxInv ==
  /\ L1_tx_filled = IF rx.pc = "launch" /\ Plan[rx.slot].downlink THEN <<rx.slot>> ELSE <<>>
  /\ \A job \in Of("tx", Queue \cup running) :
       job = TxJob(SlotOf(job)) /\ SlotOf(job) \in Launched \ (ToSet(L1_tx_out) \cup {reorder.resL1Reserve} \cup ToSet(sent))
  /\ ToSet(L1_tx_out) \subseteq Launched \ ({reorder.resL1Reserve} \cup ToSet(sent))
  /\ Distinct(L1_tx_out)
  /\ reorder.resL1Reserve # NoSlot => reorder.resL1Reserve \in Launched \ ToSet(sent)
  /\ ToSet(sent) \subseteq Launched

\* The slots sent are the first ones in order; the tx messages not free belong to slots not
\* yet sent; a reserved slot waits for the one before it, or is the next one.
OrderInv ==
  StartedInOrder =>
    /\ TransmittedInOrder
    /\ L1_tx_free + Cardinality(Assigned \ ToSet(sent)) = TxMessages
    /\ reorder.pc = "first" => sent = <<>> /\ reorder.resL1Reserve = NoSlot
    /\ reorder.pc # "first" /\ sent = <<>> =>
         reorder.pc = "loop" /\ reorder.resL1Reserve # NoSlot /\ reorder.resL1Reserve = reorder.next_tx_slot
    /\ sent # <<>> =>
         /\ reorder.next_tx_slot = NextTxSlot(Last(sent))
         /\ reorder.pc = "loop" => reorder.resL1Reserve \in {NoSlot, reorder.next_tx_slot}
         /\ reorder.pc = "pull" => reorder.resL1Reserve \notin {NoSlot, reorder.next_tx_slot}

\* Encoding jobs belong to a launched slot and are numbered in the order they were pushed.
CodingInv ==
  /\ \A job \in Of("dl", Queue \cup running) :
       /\ job = CodingJob(SlotOf(job), job.nb)
       /\ SlotOf(job) \in Launched /\ job.nb < tx[SlotOf(job)].pushed
  /\ \A s \in Slots : tx[s].pushed <= Plan[s].coding

PipeInv == TypeInv /\ PoolInv /\ RxInv /\ DecodeInv /\ IndicationInv /\ TxInv /\ OrderInv /\ CodingInv

\* inF is the end of the list.
QueueIntact == incomingFifo.outF = <<>> \/ incomingFifo.inF = Last(incomingFifo.outF)

---------------------------------------------------------------------------
(* Sequences without repetition, and what the queue's operators do to them. *)

\* The loop of an abort, one element at a time.
LoopStep(r, e, key) ==
  IF e.key = key THEN [kept |-> r.kept, nbDeleted |-> r.nbDeleted + 1]
  ELSE [kept |-> Append(r.kept, e), nbDeleted |-> r.nbDeleted]

LoopFrom(list, key, f, n) ==
  f = [k \in 0..n |-> IF k = 0 THEN [kept |-> <<>>, nbDeleted |-> 0] ELSE LoopStep(f[k - 1], list[k], key)]

\* The loop over the queue has a state after each round, by induction on their number.
LEMMA LoopExists ==
  ASSUME NEW list, NEW key, NEW n \in Nat
  PROVE  \E f : LoopFrom(list, key, f, n)
<1> DEFINE T == {m \in 0..n : \E f : LoopFrom(list, key, f, m)}
           zero == [k \in 0..0 |-> [kept |-> <<>>, nbDeleted |-> 0]]
<1>1. 0 \in T
  <2>1. LoopFrom(list, key, zero, 0)
    BY DEF LoopFrom
  <2> QED BY <2>1
<1>2. ASSUME NEW m \in 1..n, m - 1 \in T PROVE m \in T
  <2>1. PICK f : LoopFrom(list, key, f, m - 1)
    BY <1>2
  <2> DEFINE g == [k \in 0..m |-> IF k < m THEN f[k] ELSE LoopStep(f[m - 1], list[m], key)]
  <2>2. ASSUME NEW k \in 0..m
        PROVE  g[k] = IF k = 0 THEN [kept |-> <<>>, nbDeleted |-> 0] ELSE LoopStep(g[k - 1], list[k], key)
    <3>1. CASE k = 0
      <4>1. g[0] = f[0] /\ 0 \in 0..(m - 1)
        BY <3>1
      <4> QED BY <2>1, <3>1, <4>1 DEF LoopFrom
    <3>2. CASE k \in 1..(m - 1)
      <4>1. g[k] = f[k] /\ g[k - 1] = f[k - 1] /\ k \in 0..(m - 1) /\ k # 0
        BY <3>2
      <4> HIDE DEF g
      <4>2. f[k] = LoopStep(f[k - 1], list[k], key)
        BY <2>1, <4>1 DEF LoopFrom
      <4> QED BY <4>1, <4>2
    <3>3. CASE k = m
      <4>1. g[m] = LoopStep(f[m - 1], list[m], key) /\ g[m - 1] = f[m - 1] /\ m # 0
        BY <3>3
      <4> HIDE DEF g
      <4> QED BY <3>3, <4>1
    <3> QED BY <3>1, <3>2, <3>3
  <2>3. LoopFrom(list, key, g, m)
    <3>1. g = [k \in 0..m |-> g[k]]
      OBVIOUS
    <3> HIDE DEF g
    <3> QED BY <2>2, <3>1, Zenon DEF LoopFrom
  <2> QED BY <2>3
<1> HIDE DEF T
<1>3. \A k \in 0..n : k \in T
  BY <1>1, <1>2, NatInduct
<1> QED BY <1>3 DEF T

\* The loop of abortNotifiedFIFO ends in the state after the last round.
LEMMA LoopIs ==
  ASSUME NEW list, NEW key, Len(list) \in Nat
  PROVE  \E f : LoopFrom(list, key, f, Len(list)) /\ AbortLoop(list, key) = f[Len(list)]
<1> DEFINE Body(f) == [k \in 0..Len(list) |-> IF k = 0 THEN [kept |-> <<>>, nbDeleted |-> 0]
                         ELSE IF list[k].key = key
                              THEN [kept |-> f[k - 1].kept, nbDeleted |-> f[k - 1].nbDeleted + 1]
                              ELSE [kept |-> Append(f[k - 1].kept, list[k]), nbDeleted |-> f[k - 1].nbDeleted]]
           loop == CHOOSE f : f = Body(f)
<1>1. AbortLoop(list, key) = loop[Len(list)]
  BY Zenon DEF AbortLoop
<1>2. \A f : f = Body(f) <=> LoopFrom(list, key, f, Len(list))
  BY Zenon DEF LoopFrom, LoopStep
<1> HIDE DEF Body
<1>3. \E f : f = Body(f)
  BY <1>2, LoopExists, Zenon
<1>4. loop = Body(loop)
  BY <1>3, Zenon
<1> QED BY <1>1, <1>2, <1>4, Zenon

\* The elements of a set with and without the key.
With(key, S) == {e \in S : e.key = key}
Without(key, S) == {e \in S : e.key # key}

\* What an abort leaves and how many elements it deletes, in a list without repetition.
LEMMA AbortFacts ==
  ASSUME NEW S, NEW list \in Seq(S), NEW key, Distinct(list)
  PROVE  /\ Kept(list, key) \in Seq(S)
         /\ ToSet(Kept(list, key)) = Without(key, ToSet(list))
         /\ Distinct(Kept(list, key))
         /\ IsFiniteSet(With(key, ToSet(list)))
         /\ NbDeleted(list, key) = Cardinality(With(key, ToSet(list)))
<1> DEFINE n == Len(list)
<1>1. n \in Nat /\ DOMAIN list = 1..n /\ \A k \in 1..n : list[k] \in S
  OBVIOUS
<1> HIDE DEF n
<1>2. PICK f : LoopFrom(list, key, f, n) /\ AbortLoop(list, key) = f[n]
  BY <1>1, LoopIs, Zenon DEF n
<1> DEFINE Before(k) == {list[i] : i \in 1..k}
           Is(k) == {e \in Before(k) : e.key = key}
           Not(k) == {e \in Before(k) : e.key # key}
           Good(k) == /\ f[k].kept \in Seq(S) /\ ToSet(f[k].kept) = Not(k) /\ Distinct(f[k].kept)
                      /\ IsFiniteSet(Is(k)) /\ f[k].nbDeleted = Cardinality(Is(k))
           T == {k \in 0..n : Good(k)}
<1>3. 0 \in T
  <2>1. f[0] = [kept |-> <<>>, nbDeleted |-> 0]
    BY <1>1, <1>2 DEF LoopFrom
  <2>2. Is(0) = {} /\ Not(0) = {}
    OBVIOUS
  <2>3. IsFiniteSet({}) /\ Cardinality({}) = 0
    BY FS_EmptySet
  <2>4. f[0].kept = <<>> /\ f[0].nbDeleted = 0
    BY <2>1
  <2> HIDE DEF Is, Not
  <2>5. <<>> \in Seq(S) /\ ToSet(<<>>) = {} /\ Distinct(<<>>)
    BY EmptySet, Zenon
  <2>6. Good(0)
    BY <2>2, <2>3, <2>4, <2>5
  <2> HIDE DEF Good
  <2> QED BY <1>1, <2>6
<1>4. ASSUME NEW k \in 1..n, k - 1 \in T PROVE k \in T
  <2>1. f[k] = LoopStep(f[k - 1], list[k], key)
    BY <1>1, <1>2 DEF LoopFrom
  <2>2. Good(k - 1) /\ list[k] \in S /\ k - 1 \in 0..n /\ k \in 0..n
    BY <1>1, <1>4
  <2>3. Before(k) = Before(k - 1) \cup {list[k]} /\ list[k] \notin Before(k - 1)
    <3>1. \A i \in 1..k : i \in 1..(k - 1) \/ i = k
      BY <1>1
    <3>2. \A i \in 1..(k - 1) : i \in 1..k /\ i # k /\ i \in DOMAIN list
      BY <1>1
    <3>3. k \in 1..k /\ k \in DOMAIN list
      BY <1>1
    <3>4. Before(k) = Before(k - 1) \cup {list[k]}
      BY <3>1, <3>2, <3>3
    <3>5. list[k] \notin Before(k - 1)
      BY <3>2, <3>3 DEF Distinct
    <3> QED BY <3>4, <3>5
  <2> HIDE DEF Before
  <2>4. CASE list[k].key = key
    <3>1. Is(k) = Is(k - 1) \cup {list[k]} /\ list[k] \notin Is(k - 1) /\ Not(k) = Not(k - 1)
      BY <2>3, <2>4
    <3>2. f[k].kept = f[k - 1].kept /\ f[k].nbDeleted = f[k - 1].nbDeleted + 1
      BY <2>1, <2>4 DEF LoopStep
    <3> HIDE DEF Is, Not
    <3>3. IsFiniteSet(Is(k)) /\ Cardinality(Is(k)) = Cardinality(Is(k - 1)) + 1
      BY <2>2, <3>1, FS_AddElement
    <3> QED BY <2>2, <3>1, <3>2, <3>3
  <2>5. CASE list[k].key # key
    <3>1. Is(k) = Is(k - 1) /\ list[k] \notin Not(k - 1) /\ Not(k) = Not(k - 1) \cup {list[k]}
      BY <2>3, <2>5
    <3>2. f[k].kept = Append(f[k - 1].kept, list[k]) /\ f[k].nbDeleted = f[k - 1].nbDeleted
      BY <2>1, <2>5 DEF LoopStep
    <3> HIDE DEF Is, Not
    <3>3. f[k].kept \in Seq(S) /\ ToSet(f[k].kept) = Not(k) /\ Distinct(f[k].kept)
      BY <2>2, <3>1, <3>2, AppendSet
    <3> QED BY <2>2, <3>1, <3>2, <3>3
  <2> QED BY <2>4, <2>5
<1>5. Good(n)
  <2> HIDE DEF Good
  <2>1. \A k \in 0..n : k \in T
    <3> HIDE DEF T
    <3> QED BY <1>1, <1>3, <1>4, NatInduct
  <2> QED BY <1>1, <2>1
<1>6. Before(n) = ToSet(list)
  BY <1>1 DEF ToSet
<1> HIDE DEF Before
<1>7. Is(n) = With(key, ToSet(list)) /\ Not(n) = Without(key, ToSet(list))
  BY <1>6 DEF With, Without
<1> HIDE DEF Is, Not
<1> QED BY <1>2, <1>5, <1>7 DEF Kept, NbDeleted

\* A list all of whose elements have the key is emptied.
LEMMA AbortAll ==
  ASSUME NEW S, NEW list \in Seq(S), NEW key, Distinct(list), \A e \in ToSet(list) : e.key = key
  PROVE  Kept(list, key) = <<>> /\ NbDeleted(list, key) = Len(list)
<1>1. Kept(list, key) \in Seq(S) /\ ToSet(Kept(list, key)) = {}
  <2>1. Kept(list, key) \in Seq(S) /\ ToSet(Kept(list, key)) = Without(key, ToSet(list))
    BY AbortFacts
  <2> QED BY <2>1 DEF Without
<1>2. Kept(list, key) = <<>>
  <2>1. \A t \in Seq(S) : ToSet(t) = {} => t = <<>>
    <3> SUFFICES ASSUME NEW t \in Seq(S), t # <<>> PROVE ToSet(t) # {}
      OBVIOUS
    <3> QED BY HeadTail
  <2> QED BY <1>1, <2>1
<1>3. With(key, ToSet(list)) = ToSet(list)
  BY DEF With
<1>4. NbDeleted(list, key) = Cardinality(With(key, ToSet(list)))
  BY AbortFacts
<1> QED BY <1>2, <1>3, <1>4, DistinctLen

FifoOK(f, S) == f = [outF |-> f.outF, inF |-> f.inF] /\ f.outF \in Seq(S) /\ Distinct(f.outF)
Intact(f) == f.outF = <<>> \/ f.inF = Last(f.outF)

\* A push adds the element, or loses it when inF is not the end of the list.
LEMMA PushFacts ==
  ASSUME NEW S, NEW f, FifoOK(f, S), NEW msg \in S, msg \notin ToSet(f.outF),
         NEW g, g = pushNotifiedFIFO(f, msg)
  PROVE  /\ FifoOK(g, S)
         /\ g.outF = f.outF \/ g.outF = Append(f.outF, msg)
         /\ ToSet(g.outF) = ToSet(f.outF) \/ ToSet(g.outF) = ToSet(f.outF) \cup {msg}
         /\ Intact(f) => Intact(g) /\ g.outF = Append(f.outF, msg) /\ ToSet(g.outF) = ToSet(f.outF) \cup {msg}
<1> DEFINE list == f.outF
<1>1. list \in Seq(S) /\ Distinct(list)
  BY DEF FifoOK
<1>2. Append(list, msg) \in Seq(S) /\ ToSet(Append(list, msg)) = ToSet(list) \cup {msg}
      /\ Distinct(Append(list, msg)) /\ Append(list, msg) # <<>> /\ Last(Append(list, msg)) = msg
  BY <1>1, AppendSet
<1>3. list = <<>> => Append(list, msg) = <<msg>>
  BY <1>1
<1>4. g = [outF |-> g.outF, inF |-> g.inF] /\ g.inF = msg
      /\ g.outF = IF list = <<>> THEN <<msg>> ELSE IF f.inF = Last(list) THEN Append(list, msg) ELSE list
  BY DEF pushNotifiedFIFO
<1> HIDE DEF list
<1>5. g.outF = list \/ g.outF = Append(list, msg)
  BY <1>3, <1>4
<1>6. list = <<>> \/ f.inF = Last(list) => g.outF = Append(list, msg)
  BY <1>3, <1>4
<1> QED BY <1>1, <1>2, <1>4, <1>5, <1>6 DEF FifoOK, Intact, list

\* pullNotifiedFIFO takes the head.
LEMMA PullFacts ==
  ASSUME NEW S, NEW f, FifoOK(f, S), f.outF # <<>>, NEW g, g = pullNotifiedFIFO(f)
  PROVE  /\ FifoOK(g, S) /\ g.outF = Tail(f.outF)
         /\ Head(f.outF) \in S /\ Head(f.outF) \in ToSet(f.outF)
         /\ ToSet(g.outF) = ToSet(f.outF) \ {Head(f.outF)}
         /\ Intact(f) => Intact(g)
<1>1. f.outF \in Seq(S) /\ Distinct(f.outF)
  BY DEF FifoOK
<1>2. g = [outF |-> g.outF, inF |-> g.inF] /\ g.outF = Tail(f.outF) /\ (g.outF # <<>> => g.inF = f.inF)
  BY DEF pullNotifiedFIFO, ResetInF
<1>3. Head(f.outF) \in S /\ Head(f.outF) \in ToSet(f.outF) /\ Tail(f.outF) \in Seq(S)
      /\ ToSet(Tail(f.outF)) = ToSet(f.outF) \ {Head(f.outF)} /\ Distinct(Tail(f.outF))
      /\ (Tail(f.outF) # <<>> => Last(Tail(f.outF)) = Last(f.outF))
  BY <1>1, HeadTail
<1> QED BY <1>2, <1>3 DEF FifoOK, Intact

\* abortNotifiedFIFO takes every message of the key, counts them, and keeps the others.
LEMMA AbortFifo ==
  ASSUME NEW S, NEW f, FifoOK(f, S), NEW key, NEW g, g = abortNotifiedFIFO(f, key)
  PROVE  /\ FifoOK(g, S) /\ ToSet(g.outF) = Without(key, ToSet(f.outF))
         /\ IsFiniteSet(With(key, ToSet(f.outF)))
         /\ NbDeleted(f.outF, key) = Cardinality(With(key, ToSet(f.outF)))
         /\ (\A e \in ToSet(f.outF) : e.key = key) => g.outF = <<>>
<1>1. f.outF \in Seq(S) /\ Distinct(f.outF)
  BY DEF FifoOK
<1>2. g = [outF |-> g.outF, inF |-> g.inF] /\ g.outF = Kept(f.outF, key)
  BY DEF abortNotifiedFIFO, ResetInF
<1>3. (\A e \in ToSet(f.outF) : e.key = key) => Kept(f.outF, key) = <<>>
  BY <1>1, AbortAll
<1>4. /\ Kept(f.outF, key) \in Seq(S) /\ Distinct(Kept(f.outF, key))
      /\ ToSet(Kept(f.outF, key)) = Without(key, ToSet(f.outF))
      /\ IsFiniteSet(With(key, ToSet(f.outF)))
      /\ NbDeleted(f.outF, key) = Cardinality(With(key, ToSet(f.outF)))
  BY <1>1, AbortFacts
<1> QED BY <1>2, <1>3, <1>4, Zenon DEF FifoOK

---------------------------------------------------------------------------
(* Jobs and plans.                                                         *)

\* What the assumption says of each slot.
LEMMA PlanFacts ==
  /\ Len(Plan) \in Nat
  /\ \A s \in Slots : /\ s \in Nat \ {0} /\ Plan[s].ul \in Seq(Nat)
                      /\ Plan[s].downlink \in BOOLEAN /\ Plan[s].coding \in Nat
  /\ \A s \in Slots : \A u \in DOMAIN Plan[s].ul : Plan[s].ul[u] \in Nat
  /\ \A s \in Slots : Len(Plan[s].ul) \in Nat /\ DOMAIN Plan[s].ul = 1 .. Len(Plan[s].ul)
<1>1. Len(Plan) \in Nat /\ \A s \in 1 .. Len(Plan) : Plan[s] \in [ul : Seq(Nat), downlink : BOOLEAN, coding : Nat]
  <2>1. \A R, p : p \in Seq(R) => Len(p) \in Nat /\ \A s \in 1 .. Len(p) : p[s] \in R
    OBVIOUS
  <2> QED BY <2>1, PoolAssumption
<1>2. \A s \in Slots : Plan[s].ul \in Seq(Nat) /\ Plan[s].downlink \in BOOLEAN /\ Plan[s].coding \in Nat
  BY <1>1 DEF Slots
<1>3. \A q \in Seq(Nat) : Len(q) \in Nat /\ DOMAIN q = 1 .. Len(q) /\ \A u \in DOMAIN q : q[u] \in Nat
  OBVIOUS
<1>4. \A s \in Slots : s \in Nat \ {0}
  BY <1>1 DEF Slots
<1> QED BY <1>1, <1>2, <1>3, <1>4

\* The jobs of a slot: their kind, slot and key.
LEMMA JobFacts ==
  ASSUME NEW s \in Nat
  PROVE  /\ RxJob(s) \in Jobs /\ Kind(RxJob(s)) = "rx" /\ SlotOf(RxJob(s)) = s
         /\ TxJob(s) \in Jobs /\ Kind(TxJob(s)) = "tx" /\ SlotOf(TxJob(s)) = s
         /\ \A j \in Nat : /\ CodingJob(s, j) \in Jobs /\ Kind(CodingJob(s, j)) = "dl"
                           /\ SlotOf(CodingJob(s, j)) = s /\ CodingJob(s, j).nb = j
         /\ \A u, r \in Nat : /\ DecodeJob(s, u, r) \in Jobs /\ Kind(DecodeJob(s, u, r)) = "ul"
                              /\ SlotOf(DecodeJob(s, u, r)) = s /\ DecodeJob(s, u, r).nb = r
                              /\ DecodeJob(s, u, r).key = DecodeKey(s, u)
BY DEF RxJob, TxJob, CodingJob, DecodeJob, DecodeKey, Kind, SlotOf, Jobs, Keys

\* The kind of a job, whatever its slot.
LEMMA KindFacts ==
  /\ \A s : Kind(RxJob(s)) = "rx" /\ Kind(TxJob(s)) = "tx"
  /\ \A s, j : Kind(CodingJob(s, j)) = "dl" /\ CodingJob(s, j).nb = j
  /\ \A s, u, r : Kind(DecodeJob(s, u, r)) = "ul" /\ DecodeJob(s, u, r).nb = r
BY DEF RxJob, TxJob, CodingJob, DecodeJob, DecodeKey, Kind

\* The parts of a key.
LEMMA KeyFacts ==
  ASSUME NEW s, NEW u
  PROVE  /\ DecodeKey(s, u)[1] = "ul" /\ DecodeKey(s, u)[2] = s /\ DecodeKey(s, u)[3] = u
         /\ \A r : DecodeJob(s, u, r).key = DecodeKey(s, u)
         /\ <<"dl", s, 0>>[1] = "dl" /\ <<"dl", s, 0>>[2] = s
         /\ <<"rx", s, 0>>[1] = "rx" /\ <<"rx", s, 0>>[2] = s
BY DEF DecodeKey, DecodeJob

\* The jobs of a kind in a set.
LEMMA OfFacts ==
  ASSUME NEW kind, NEW S, NEW T
  PROVE  /\ Of(kind, S \cup T) = Of(kind, S) \cup Of(kind, T)
         /\ \A x : x \in Of(kind, S) <=> x \in S /\ Kind(x) = kind
         /\ S \subseteq T => Of(kind, S) \subseteq Of(kind, T)
BY DEF Of

---------------------------------------------------------------------------
(* What an action leaves alone: each part of the invariant is preserved by *)
(* a step that changes little of what the part is about.                   *)

\* The rx job stays before its tx message, or does not move.
SamePhase ==
  rx'.slot = rx.slot /\ (rx'.pc = rx.pc \/ (rx.pc \notin {"launch", "done", "idle"} /\ rx'.pc \notin {"launch", "done", "idle"}))

\* Steps that leave the slot and the phase of the receiving job alone.
LEMMA PhaseFrame ==
  ASSUME SamePhase
  PROVE  Launched' = Launched /\ Assigned' = Assigned
BY DEF SamePhase, Launched, Assigned, TxSlots, Slots

\* What does not disturb the receiving jobs.
LEMMA RxFrame ==
  ASSUME RxInv, ruSlot' = ruSlot, resp_L1' = resp_L1, rx'.slot = rx.slot, rx'.pc = "idle" <=> rx.pc = "idle",
         Of("rx", Queue') \subseteq Of("rx", Queue), Of("rx", running') \subseteq Of("rx", running)
  PROVE  RxInv'
BY DEF RxInv, Slots, RxJob

\* What does not disturb the transmission jobs.
LEMMA TxFrame ==
  ASSUME TxInv, SamePhase, UNCHANGED <<L1_tx_filled, L1_tx_out, reorder, sent>>,
         Of("tx", Queue' \cup running') \subseteq Of("tx", Queue \cup running)
  PROVE  TxInv'
<1>1. Launched' = Launched
  BY PhaseFrame
<1>2. (rx'.pc = "launch") = (rx.pc = "launch") /\ rx'.slot = rx.slot
  BY DEF SamePhase
<1> QED BY <1>1, <1>2 DEF TxInv, TxJob, SlotOf

\* What does not disturb the order of transmission.
LEMMA OrderFrame ==
  ASSUME OrderInv, UNCHANGED <<L1_tx_free, sent, reorder>>, Assigned' = Assigned
  PROVE  OrderInv'
BY DEF OrderInv, StartedInOrder, TransmittedInOrder, TxSlots, Slots, NextTxSlot, TxMessages

\* What does not disturb the encoding jobs.
LEMMA CodingFrame ==
  ASSUME CodingInv, tx' = tx, Launched \subseteq Launched',
         Of("dl", Queue' \cup running') \subseteq Of("dl", Queue \cup running)
  PROVE  CodingInv'
BY DEF CodingInv, CodingJob, SlotOf, Slots

\* What does not disturb the decoding jobs.
LEMMA DecodeFrame ==
  ASSUME DecodeInv, UNCHANGED <<rx, respDecode>>, abortFlag' \subseteq abortFlag,
         Of("ul", Queue' \cup (running' \ abortFlag')) \subseteq Of("ul", Queue \cup (running \ abortFlag))
  PROVE  DecodeInv'
<1>1. ProgressInv'
  BY DEF DecodeInv, ProgressInv, Stuck, Pushed, Blocks
<1>2. \A nb : DecodeJob(rx.slot, rx.ue, nb) \in Queue' \cup (running' \ abortFlag')
              => DecodeJob(rx.slot, rx.ue, nb) \in Queue \cup (running \ abortFlag)
  BY KindFacts DEF Of
<1>3. \A job \in Of("ul", Queue' \cup (running' \ abortFlag')) : LiveJob(job)'
  BY DEF DecodeInv, LiveJob, Stuck, Pushed, Blocks
<1>4. \A job \in abortFlag' : OldJob(job)'
  BY DEF DecodeInv, OldJob, Stuck, Blocks, RxKey
<1>5. \A nb : Awaited(nb)' => Awaited(nb)
  BY <1>2 DEF Awaited
<1> QED BY <1>1, <1>2, <1>3, <1>4, <1>5 DEF DecodeInv, Stuck, Pushed, Blocks, RxKey

\* What does not disturb the indications.
LEMMA IndicationFrame ==
  ASSUME IndicationInv, indications' = indications, rx'.slot = rx.slot, rx'.ue = rx.ue,
         Stuck => Stuck', rx'.pc # "idle" => rx.pc # "idle"
  PROVE  IndicationInv'
BY DEF IndicationInv, IndicationsOf

\* The fields of an indication.
LEMMA IndicationType ==
  ASSUME TypeInv
  PROVE  \A i \in DOMAIN indications : indications[i].slot \in Nat /\ indications[i].ue \in Nat
<1>1. \A i \in DOMAIN indications : indications[i] \in [slot : Nat, ue : Nat, ack : BOOLEAN, copied : SUBSET Nat]
  BY SeqElement DEF TypeInv
<1> QED BY <1>1

\* The state of the rx job, field by field.
RxFields(pc, slot, ue, nbDecode, processedSegments, nb, copied) ==
  [pc |-> pc, slot |-> slot, ue |-> ue, nbDecode |-> nbDecode, processedSegments |-> processedSegments,
   nb |-> nb, copied |-> copied]

\* The fields of the receiving job's state.
LEMMA RxType ==
  ASSUME TypeInv
  PROVE  /\ rx = RxFields(rx.pc, rx.slot, rx.ue, rx.nbDecode, rx.processedSegments, rx.nb, rx.copied)
         /\ rx.pc \in {"idle", "detect", "push", "pull", "abort", "abortResp", "launch", "done"}
         /\ rx.slot \in Nat /\ rx.ue \in Nat \ {0} /\ rx.nbDecode \in Int
         /\ rx.processedSegments \in Nat /\ rx.nb \in Nat /\ rx.copied \in SUBSET Nat
BY DEF TypeInv, RxState, RxFields

\* The assignment for an answer.
LEMMA RxAnswer ==
  ASSUME TypeInv, NEW d, NEW p, NEW c, NEW q,
         q = [rx EXCEPT !.processedSegments = p, !.nbDecode = d, !.copied = c]
  PROVE  q = RxFields(rx.pc, rx.slot, rx.ue, d, p, rx.nb, c)
<1>1. rx = RxFields(rx.pc, rx.slot, rx.ue, rx.nbDecode, rx.processedSegments, rx.nb, rx.copied)
  BY RxType
<1> QED BY <1>1 DEF RxFields

\* The assignment for an abort.
LEMMA RxAborted ==
  ASSUME TypeInv, NEW d, NEW p, NEW n, NEW q,
         q = [rx EXCEPT !.nb = n, !.nbDecode = d, !.processedSegments = p]
  PROVE  q = RxFields(rx.pc, rx.slot, rx.ue, d, p, n, rx.copied)
<1>1. rx = RxFields(rx.pc, rx.slot, rx.ue, rx.nbDecode, rx.processedSegments, rx.nb, rx.copied)
  BY RxType
<1> QED BY <1>1 DEF RxFields

\* The queue of the pool is one of jobs.
LEMMA FifoInv == TypeInv /\ PoolInv => FifoOK(incomingFifo, Jobs)
BY DEF TypeInv, PoolInv, FifoOK

\* A push adds the job at the end, or loses it behind a dangling inF.
LEMMA PushPool ==
  ASSUME TypeInv, PoolInv, NEW msg \in Jobs, msg \notin Queue \cup running,
         incomingFifo' = pushNotifiedFIFO(incomingFifo, msg), UNCHANGED <<running, abortFlag>>
  PROVE  /\ FifoOK(incomingFifo, Jobs)' /\ PoolInv'
         /\ Queue' = Queue \/ Queue' = Queue \cup {msg}
         /\ QueueIntact => Queue' = Queue \cup {msg} /\ QueueIntact'
<1>1. FifoOK(incomingFifo, Jobs) /\ msg \notin ToSet(incomingFifo.outF)
  BY FifoInv DEF Queue
<1> DEFINE g == incomingFifo'
<1>2. g = pushNotifiedFIFO(incomingFifo, msg)
  OBVIOUS
<1> HIDE DEF g
<1>3. /\ FifoOK(g, Jobs)
      /\ ToSet(g.outF) = ToSet(incomingFifo.outF) \/ ToSet(g.outF) = ToSet(incomingFifo.outF) \cup {msg}
      /\ Intact(incomingFifo) => Intact(g) /\ ToSet(g.outF) = ToSet(incomingFifo.outF) \cup {msg}
  BY <1>1, <1>2, PushFacts
<1> USE DEF g
<1> QED BY <1>3 DEF PoolInv, Queue, FifoOK, Intact, QueueIntact, Of

---------------------------------------------------------------------------
(* The invariant: initial states and one lemma for each action.            *)

\* The first state.
LEMMA InitPipe == Init => PipeInv
<1> SUFFICES ASSUME Init PROVE PipeInv
  OBVIOUS
<1> USE DEF Init, initNotifiedFIFO, NoSlot
<1>1. incomingFifo.outF = <<>> /\ Queue = {} /\ Distinct(incomingFifo.outF)
  BY EmptySet DEF Queue
<1>2. TypeInv
  <2>1. IsFiniteSet({})
    BY FS_EmptySet
  <2>2. rx \in RxState
    BY DEF RxState
  <2>3. nf \in [Slots -> Nat] /\ tx \in [Slots -> [pushed : Nat, nbJobs : Int]]
    OBVIOUS
  <2>4. reorder \in [pc : {"first", "loop", "pull"}, resL1Reserve : Nat, next_tx_slot : Nat]
    OBVIOUS
  <2> QED BY <2>1, <2>2, <2>3, <2>4, PlanFacts DEF TypeInv, TxMessages
<1>3. PoolInv
  BY <1>1 DEF PoolInv
<1>4. RxInv
  BY <1>1 DEF RxInv, Of
<1>5. DecodeInv
  BY <1>1 DEF DecodeInv, ProgressInv, Of, Decoding
<1>6. IndicationInv
  BY DEF IndicationInv
<1>7. Launched = {} /\ Assigned = {}
  BY PlanFacts DEF Launched, Assigned, TxSlots
<1>8. TxInv
  BY <1>1, <1>7, EmptySet DEF TxInv, Of
<1>9. OrderInv
  <2>1. ToSet(sent) = {} /\ sent = <<>>
    BY EmptySet
  <2>2. TransmittedInOrder
    BY <2>1 DEF TransmittedInOrder
  <2>3. Cardinality(Assigned \ ToSet(sent)) = 0
    BY <1>7, FS_EmptySet
  <2> QED BY <2>1, <2>2, <2>3 DEF OrderInv, TxMessages
<1>10. CodingInv
  BY <1>1, PlanFacts DEF CodingInv, Of
<1> QED BY <1>2, <1>3, <1>4, <1>5, <1>6, <1>8, <1>9, <1>10 DEF PipeInv

\* The RU thread starts a slot.
LEMMA RuSlotStep ==
  ASSUME PipeInv, RuSlot
  PROVE  PipeInv'
<1> DEFINE msg == RxJob(ruSlot)
<1>1. msg \in Jobs /\ Kind(msg) = "rx" /\ ruSlot \in Nat
  BY JobFacts DEF PipeInv, TypeInv
<1>2. rx.pc = "idle" /\ Of("rx", Queue) = {} /\ Of("rx", running) = {}
  BY DEF PipeInv, RxInv, RuSlot
<1>3. msg \notin Queue \cup running
  BY <1>1, <1>2 DEF Of
<1>4. FifoOK(incomingFifo, Jobs)' /\ PoolInv' /\ (Queue' = Queue \/ Queue' = Queue \cup {msg})
  BY <1>1, <1>3, PushPool DEF PipeInv, RuSlot
<1>5. TypeInv'
  <2>1. ruSlot' \in 1 .. (Len(Plan) + 1) /\ resp_L1' \in BOOLEAN
    <3>1. Len(Plan) \in Nat
      BY PlanFacts
    <3>2. ruSlot \in 1 .. Len(Plan) /\ ruSlot' = ruSlot + 1 /\ resp_L1' = FALSE
      BY DEF RuSlot, Slots
    <3>3. ruSlot' \in 1 .. (Len(Plan) + 1)
      BY <3>1, <3>2
    <3> QED BY <3>2, <3>3
  <2>2. UNCHANGED <<running, respDecode, nf, tx, rx, L1_tx_free, L1_tx_filled, L1_tx_out, sent, reorder, indications>>
    BY DEF RuSlot, uplink, downlink, txQueues
  <2> QED BY <1>4, <2>1, <2>2 DEF PipeInv, TypeInv, FifoOK, Slots
<1>6. Of("rx", Queue') \subseteq {msg} /\ \A k \in {"ul", "tx", "dl"} : Of(k, Queue') = Of(k, Queue)
  BY <1>1, <1>2, <1>4 DEF Of
<1> HIDE DEF msg
<1>7. UNCHANGED <<rx, running, abortFlag, tx, respDecode, indications, L1_tx_free, L1_tx_filled, L1_tx_out, reorder, sent>>
  BY DEF RuSlot, uplink, downlink, txQueues
<1>8. RxInv'
  <2>1. ruSlot' = ruSlot + 1 /\ resp_L1' = FALSE /\ resp_L1
    BY DEF RuSlot
  <2>2. rx.slot = ruSlot' - 2 /\ ruSlot' - 1 = ruSlot
    BY <1>1, <1>2, <2>1 DEF PipeInv, RxInv
  <2> QED BY <1>2, <1>6, <1>7, <2>1, <2>2 DEF RxInv, msg
<1>9. DecodeInv'
  BY <1>6, <1>7, DecodeFrame, OfFacts DEF PipeInv
<1>10. IndicationInv'
  BY <1>7, IndicationFrame DEF PipeInv, Stuck, Blocks
<1>11. SamePhase
  BY <1>7 DEF SamePhase
<1>12. TxInv'
  BY <1>6, <1>7, <1>11, TxFrame, OfFacts DEF PipeInv
<1>13. OrderInv' /\ CodingInv'
  BY <1>6, <1>7, <1>11, PhaseFrame, OrderFrame, CodingFrame, OfFacts DEF PipeInv
<1> QED BY <1>4, <1>5, <1>8, <1>9, <1>10, <1>12, <1>13 DEF PipeInv

\* A worker takes the job at the head.
LEMMA PullStep ==
  ASSUME PipeInv, pullNotifiedFifoRemember
  PROVE  PipeInv'
<1> DEFINE job == Head(incomingFifo.outF)
<1>1. /\ UNCHANGED <<abortFlag, respDecode, indications, nf, tx, L1_tx_free, L1_tx_filled, L1_tx_out, ruSlot, resp_L1, reorder, sent>>
      /\ running' = running \cup {job}
      /\ rx' = IF Kind(job) = "rx" THEN [rx EXCEPT !.pc = "detect", !.slot = SlotOf(job), !.ue = 1] ELSE rx
      /\ incomingFifo' = pullNotifiedFIFO(incomingFifo) /\ incomingFifo.outF # <<>>
  BY DEF pullNotifiedFifoRemember, downlink, txQueues
<1> HIDE DEF job
<1>2. FifoOK(incomingFifo, Jobs)
  BY FifoInv DEF PipeInv
<1>3. FifoOK(incomingFifo, Jobs)' /\ job \in Jobs /\ job \in Queue /\ Queue' = Queue \ {job}
  <2> DEFINE g == incomingFifo'
  <2>1. g = pullNotifiedFIFO(incomingFifo)
    BY <1>1
  <2> HIDE DEF g
  <2>2. FifoOK(g, Jobs) /\ job \in Jobs /\ job \in ToSet(incomingFifo.outF) /\ ToSet(g.outF) = ToSet(incomingFifo.outF) \ {job}
    BY <1>1, <1>2, <2>1, PullFacts DEF job
  <2> USE DEF g
  <2> QED BY <2>2 DEF Queue, FifoOK
<1>4. job \notin running /\ job \notin abortFlag
  BY <1>3 DEF PipeInv, PoolInv, Of
<1>5. PoolInv'
  BY <1>1, <1>3, <1>4 DEF PipeInv, PoolInv, Of, FifoOK
<1>6. \A k \in {"rx", "tx", "dl", "ul"} : Of(k, Queue' \cup running') = Of(k, Queue \cup running)
  BY <1>1, <1>3 DEF Of
<1>7. Of("ul", Queue' \cup (running' \ abortFlag')) = Of("ul", Queue \cup (running \ abortFlag))
  BY <1>1, <1>3, <1>4 DEF Of
<1>8. IsFiniteSet(running') /\ running' \subseteq Jobs
  BY <1>1, <1>3, FS_AddElement DEF PipeInv, TypeInv
<1>9. CASE Kind(job) = "rx"
  <2>1. job = RxJob(ruSlot - 1) /\ rx.pc = "idle" /\ ~resp_L1 /\ rx.slot = ruSlot - 2
    BY <1>3, <1>9 DEF PipeInv, RxInv, Of
  <2>2. rx.slot \in Nat /\ rx \in RxState /\ ruSlot \in 1 .. (Len(Plan) + 1) /\ Len(Plan) \in Nat
    BY PlanFacts DEF PipeInv, TypeInv, RxState
  <2>3. ruSlot - 1 \in Slots /\ ruSlot - 1 = rx.slot + 1 /\ ruSlot - 1 \in Nat
    BY <2>1, <2>2 DEF Slots
  <2>4. SlotOf(job) = ruSlot - 1
    BY <2>1, <2>3, JobFacts
  <2>5. rx' = [rx EXCEPT !.pc = "detect", !.slot = ruSlot - 1, !.ue = 1]
    BY <1>1, <1>9, <2>4
  <2>6. rx' \in RxState /\ rx'.pc = "detect" /\ rx'.slot = ruSlot - 1 /\ rx'.ue = 1
    <3>1. TypeInv
      BY DEF PipeInv
    <3>2. rx = RxFields(rx.pc, rx.slot, rx.ue, rx.nbDecode, rx.processedSegments, rx.nb, rx.copied)
      BY <3>1, RxType
    <3>3. rx' = RxFields("detect", ruSlot - 1, 1, rx.nbDecode, rx.processedSegments, rx.nb, rx.copied)
      BY <2>5, <3>2 DEF RxFields
    <3>4. rx.nbDecode \in Int /\ rx.processedSegments \in Nat /\ rx.nb \in Nat /\ rx.copied \in SUBSET Nat
      BY <3>1, RxType
    <3> QED BY <2>3, <3>3, <3>4 DEF RxFields, RxState
  <2>7. TypeInv'
    BY <1>1, <1>3, <1>8, <2>6 DEF PipeInv, TypeInv, FifoOK, Slots
  <2>8. RxInv'
    <3>1. Of("rx", Queue') = {}
      BY <1>3, <2>1 DEF PipeInv, RxInv, Of
    <3>2. Of("rx", running') = {job}
      BY <1>1, <1>9, <2>1 DEF PipeInv, RxInv, Of
    <3> QED BY <1>1, <2>1, <2>3, <2>6, <3>1, <3>2 DEF RxInv, Slots
  <2>9. DecodeInv'
    <3>1. Of("ul", Queue' \cup (running' \ abortFlag')) = {}
      BY <1>7, <2>1 DEF PipeInv, DecodeInv, LiveJob
    <3>2. DOMAIN respDecode = {}
      BY <2>1 DEF PipeInv, DecodeInv, Decoding
    <3>3. \A j \in abortFlag' : OldJob(j)'
      <4> SUFFICES ASSUME NEW j \in abortFlag PROVE OldJob(j)'
        BY <1>1
      <4>1. OldJob(j) /\ j \in Jobs
        BY DEF PipeInv, DecodeInv, PoolInv, TypeInv, Of
      <4>2. j = DecodeJob(j.key[2], j.key[3], j.nb) /\ j.key[2] \in Nat /\ j.key[2] <= rx.slot
        BY <2>1, <2>2, <4>1, KeyFacts DEF OldJob, Stuck, Jobs, Keys, RxKey
      <4>3. j.key[2] < rx'.slot
        BY <2>2, <2>3, <2>6, <4>2
      <4> QED BY <4>2, <4>3 DEF OldJob
    <3> QED BY <1>1, <2>6, <3>1, <3>2, <3>3 DEF DecodeInv, ProgressInv, Decoding
  <2>10. IndicationInv'
    <3>1. ~Stuck /\ \A i \in DOMAIN indications : indications[i].slot \in Nat
      BY <2>1, IndicationType DEF PipeInv, Stuck
    <3>2. \A i \in DOMAIN indications : indications[i].slot < rx'.slot
      BY <2>2, <2>3, <2>6, <3>1 DEF PipeInv, IndicationInv
    <3> QED BY <1>1, <2>6, <3>2 DEF PipeInv, IndicationInv
  <2>11. Launched' = Launched /\ Assigned' = Assigned
    <3>1. \A s \in Slots : s <= rx.slot <=> s < rx'.slot
      BY <2>2, <2>3, <2>6 DEF Slots
    <3>2. \A s \in Slots : s <= rx.slot <=> s < rx.slot \/ s = rx.slot
      BY <2>2 DEF Slots
    <3>3. Launched' = Launched
      BY <2>1, <2>6, <3>1, <3>2 DEF Launched, TxSlots, Slots
    <3> QED BY <2>1, <2>6, <3>3 DEF Assigned, TxSlots, Slots
  <2>12. TxInv'
    BY <1>1, <1>6, <2>1, <2>6, <2>11 DEF PipeInv, TxInv
  <2>13. OrderInv' /\ CodingInv'
    BY <1>1, <1>6, <2>11, OrderFrame, CodingFrame DEF PipeInv
  <2> QED BY <1>5, <2>7, <2>8, <2>9, <2>10, <2>12, <2>13 DEF PipeInv
<1>10. CASE Kind(job) # "rx"
  <2>1. rx' = rx
    BY <1>1, <1>10
  <2>2. TypeInv'
    BY <1>1, <1>3, <1>8, <2>1 DEF PipeInv, TypeInv, FifoOK, Slots
  <2>3. RxInv'
    <3>1. Of("rx", Queue') = Of("rx", Queue) /\ Of("rx", running') = Of("rx", running)
      BY <1>1, <1>3, <1>10 DEF Of
    <3> QED BY <1>1, <2>1, <3>1, RxFrame DEF PipeInv
  <2>4. DecodeInv' /\ IndicationInv'
    BY <1>1, <1>7, <2>1, DecodeFrame, IndicationFrame DEF PipeInv, Stuck, Blocks
  <2>5. SamePhase
    BY <2>1 DEF SamePhase
  <2>6. TxInv' /\ OrderInv' /\ CodingInv'
    BY <1>1, <1>6, <2>5, PhaseFrame, TxFrame, OrderFrame, CodingFrame DEF PipeInv
  <2> QED BY <1>5, <2>2, <2>3, <2>4, <2>6 DEF PipeInv
<1> QED BY <1>9, <1>10

\* A worker leaves the pool with its job.
LEMMA IdlePool ==
  ASSUME PipeInv, NEW job \in running, Idle(job)
  PROVE  /\ incomingFifo' = incomingFifo /\ Queue' = Queue /\ PoolInv'
         /\ running' \subseteq running /\ job \notin running' /\ IsFiniteSet(running')
         /\ running' \ abortFlag' = (running \ abortFlag) \ {job}
         /\ abortFlag' \subseteq abortFlag
         /\ \A k \in {"rx", "tx", "dl", "ul"} : Of(k, Queue' \cup running') \subseteq Of(k, Queue \cup running)
         /\ \A k \in {"rx", "tx", "dl", "ul"} : Of(k, running') \subseteq Of(k, running)
         /\ \A k \in {"rx", "tx", "dl", "ul"} : k # Kind(job) => Of(k, running') = Of(k, running)
         /\ Of("ul", Queue' \cup (running' \ abortFlag')) \subseteq Of("ul", Queue \cup (running \ abortFlag))
<1>1. running' = running \ {job} /\ abortFlag' = abortFlag \ {job} /\ incomingFifo' = incomingFifo
  BY DEF Idle
<1>2. Queue' = Queue
  BY <1>1 DEF Queue
<1>3. IsFiniteSet(running')
  BY <1>1, FS_RemoveElement DEF PipeInv, TypeInv
<1>4. PoolInv'
  BY <1>1, <1>2 DEF PipeInv, PoolInv, Of
<1> QED BY <1>1, <1>2, <1>3, <1>4 DEF Of

\* A segment is decoded.
LEMMA FinishDecodeStep ==
  ASSUME PipeInv, NEW job \in running, FinishDecode(job)
  PROVE  PipeInv'
<1>1. /\ UNCHANGED <<rx, indications, nf, tx, L1_tx_free, L1_tx_filled, L1_tx_out, ruSlot, resp_L1, reorder, sent>>
      /\ Kind(job) = "ul" /\ Idle(job)
  BY DEF FinishDecode, downlink, txQueues
<1>2. PICK ok \in BOOLEAN :
        respDecode' = IF job \in abortFlag THEN respDecode ELSE Append(respDecode, [key |-> job.key, nb |-> job.nb, ok |-> ok])
  BY DEF FinishDecode
<1> DEFINE e == [key |-> job.key, nb |-> job.nb, ok |-> ok]
<1>3. e \in Answers /\ respDecode \in Seq(Answers) /\ e.nb = job.nb /\ e.key = job.key
  BY DEF PipeInv, TypeInv, Answers, Jobs
<1> HIDE DEF e
<1>4. Append(respDecode, e) \in Seq(Answers)
  BY <1>3, AppendSet
<1>5. TypeInv'
  <2>1. respDecode' \in Seq(Answers)
    BY <1>2, <1>3, <1>4 DEF e
  <2>2. incomingFifo' = incomingFifo /\ running' \subseteq running /\ IsFiniteSet(running')
    BY <1>1, IdlePool
  <2> QED BY <1>1, <2>1, <2>2 DEF PipeInv, TypeInv, Slots
<1>6. PoolInv' /\ RxInv'
  BY <1>1, IdlePool, RxFrame DEF PipeInv
<1>7. SamePhase
  BY <1>1 DEF SamePhase
<1>8. TxInv' /\ OrderInv' /\ CodingInv' /\ IndicationInv'
  BY <1>1, <1>7, IdlePool, PhaseFrame, TxFrame, OrderFrame, CodingFrame, IndicationFrame DEF PipeInv, Stuck, Blocks
<1>9. DecodeInv'
  <2>1. CASE job \in abortFlag
    BY <1>1, <1>2, <2>1, IdlePool, DecodeFrame DEF PipeInv
  <2>2. CASE job \notin abortFlag
    <3>1. respDecode' = Append(respDecode, e)
      BY <1>2, <2>2 DEF e
    <3>2. LiveJob(job)
      BY <1>1, <2>2 DEF PipeInv, DecodeInv, Of
    <3>3. rx.pc \in {"push", "pull", "abort"} /\ ~Stuck /\ job = DecodeJob(rx.slot, rx.ue, job.nb)
          /\ job.nb \in 1 .. Pushed /\ job.key = RxKey
      BY <3>2, KeyFacts DEF LiveJob, RxKey
    <3>4. /\ Stuck' = Stuck /\ Pushed' = Pushed /\ RxKey' = RxKey /\ rx' = rx /\ Blocks' = Blocks
      BY <1>1 DEF Stuck, Pushed, RxKey, Blocks
    <3>5. Len(respDecode) \in Nat /\ DOMAIN respDecode = 1 .. Len(respDecode)
      BY <1>3
    <3>6. /\ DOMAIN respDecode' = 1 .. (Len(respDecode) + 1)
          /\ \A i \in DOMAIN respDecode : respDecode'[i] = respDecode[i]
          /\ respDecode'[Len(respDecode) + 1] = e
          /\ \A i \in DOMAIN respDecode' : i \in DOMAIN respDecode \/ i = Len(respDecode) + 1
      BY <1>3, <3>1, <3>5
    <3>7. /\ Queue' = Queue /\ running' \ abortFlag' = (running \ abortFlag) \ {job}
          /\ job \notin Queue /\ job \in running \ abortFlag /\ abortFlag' \subseteq abortFlag
      BY <1>1, <2>2, IdlePool DEF PipeInv, PoolInv
    <3>8. ProgressInv'
      BY <3>3, <3>4 DEF PipeInv, DecodeInv, ProgressInv
    <3>9. \A j \in Of("ul", Queue' \cup (running' \ abortFlag')) : LiveJob(j)'
      BY <3>4, <3>7 DEF PipeInv, DecodeInv, LiveJob, Of
    <3>10. \A j \in abortFlag' : OldJob(j)'
      BY <3>4, <3>7 DEF PipeInv, DecodeInv, OldJob
    <3>11. \A i \in DOMAIN respDecode : respDecode[i].nb # job.nb
      BY <3>3, <3>7 DEF PipeInv, DecodeInv
    <3>12. \A i \in DOMAIN respDecode' :
             /\ rx'.pc \in Decoding /\ ~Stuck'
             /\ respDecode'[i].key = RxKey' /\ respDecode'[i].nb \in 1 .. Pushed'
             /\ DecodeJob(rx'.slot, rx'.ue, respDecode'[i].nb) \notin Queue' \cup (running' \ abortFlag')
      <4> SUFFICES ASSUME NEW i \in DOMAIN respDecode'
                   PROVE  /\ respDecode'[i].key = RxKey /\ respDecode'[i].nb \in 1 .. Pushed
                          /\ DecodeJob(rx.slot, rx.ue, respDecode'[i].nb) \notin Queue \cup ((running \ abortFlag) \ {job})
        BY <3>3, <3>4, <3>7 DEF Decoding
      <4>1. CASE i \in DOMAIN respDecode
        BY <3>6, <4>1 DEF PipeInv, DecodeInv
      <4>2. CASE i = Len(respDecode) + 1
        BY <1>3, <3>3, <3>6, <3>7, <4>2
      <4> QED BY <3>6, <4>1, <4>2
    <3>13. \A i, j \in DOMAIN respDecode' : respDecode'[i].nb = respDecode'[j].nb => i = j
      BY <1>3, <3>6, <3>11 DEF PipeInv, DecodeInv
    <3>14. \A nb : Awaited(nb)' => Awaited(nb)
      BY <1>3, <3>3, <3>4, <3>6, <3>7 DEF Awaited
    <3> QED BY <3>4, <3>8, <3>9, <3>10, <3>12, <3>13, <3>14 DEF PipeInv, DecodeInv
  <2> QED BY <2>1, <2>2
<1> QED BY <1>5, <1>6, <1>8, <1>9 DEF PipeInv

\* A code block is encoded.
LEMMA FinishCodingStep ==
  ASSUME PipeInv, NEW job \in running, FinishCoding(job)
  PROVE  PipeInv'
<1>1. /\ UNCHANGED <<respDecode, rx, indications, tx, L1_tx_free, L1_tx_filled, L1_tx_out, ruSlot, resp_L1, reorder, sent>>
      /\ Kind(job) = "dl" /\ Idle(job)
      /\ nf' = IF job \in abortFlag THEN nf ELSE [nf EXCEPT ![SlotOf(job)] = @ + 1]
  BY DEF FinishCoding, uplink, txQueues
<1>2. TypeInv'
  <2>1. nf' \in [Slots -> Nat]
    <3>1. nf \in [Slots -> Nat] /\ SlotOf(job) \in Slots
      BY <1>1 DEF PipeInv, TypeInv, CodingInv, Of, Launched, TxSlots
    <3> QED BY <1>1, <3>1
  <2>2. incomingFifo' = incomingFifo /\ running' \subseteq running /\ IsFiniteSet(running')
    BY <1>1, IdlePool
  <2> QED BY <1>1, <2>1, <2>2 DEF PipeInv, TypeInv, Slots
<1>3. PoolInv' /\ RxInv' /\ DecodeInv'
  BY <1>1, IdlePool, RxFrame, DecodeFrame DEF PipeInv
<1>4. SamePhase
  BY <1>1 DEF SamePhase
<1>5. TxInv' /\ OrderInv' /\ CodingInv' /\ IndicationInv'
  BY <1>1, <1>4, IdlePool, PhaseFrame, TxFrame, OrderFrame, CodingFrame, IndicationFrame DEF PipeInv, Stuck, Blocks
<1> QED BY <1>2, <1>3, <1>5 DEF PipeInv

\* A step of the rx job that pushes nothing but decoding jobs and stays before the tx message.
LEMMA RxQuiet ==
  ASSUME PipeInv, rx.pc # "idle", rx'.pc # "idle", SamePhase,
         UNCHANGED <<running, ruSlot, resp_L1, tx, L1_tx_free, L1_tx_filled, L1_tx_out, reorder, sent>>,
         \A k \in {"rx", "tx", "dl"} : Of(k, Queue') \subseteq Of(k, Queue)
  PROVE  RxInv' /\ TxInv' /\ OrderInv' /\ CodingInv'
<1>1. RxInv'
  BY RxFrame DEF PipeInv, SamePhase
<1>2. \A k \in {"rx", "tx", "dl"} : Of(k, Queue' \cup running') \subseteq Of(k, Queue \cup running)
  BY OfFacts
<1>3. TxInv' /\ OrderInv' /\ CodingInv'
  BY <1>2, PhaseFrame, TxFrame, OrderFrame, CodingFrame DEF PipeInv
<1> QED BY <1>1, <1>3

\* The UE the rx job is at gets its indication; the rx job goes on, or is stuck.
LEMMA IndicateStep ==
  ASSUME TypeInv, IndicationInv, rx.pc # "idle", ~Stuck, rx'.slot = rx.slot,
         rx'.ue = rx.ue + 1 \/ (rx'.ue = rx.ue /\ Stuck'), NEW ack \in BOOLEAN, NEW copied \in SUBSET Nat,
         ack => copied = 1 .. Blocks, nr_fill_indication(ack, copied)
  PROVE  /\ IndicationInv'
         /\ indications' \in Seq([slot : Nat, ue : Nat, ack : BOOLEAN, copied : SUBSET Nat])
<1> DEFINE Ind == [slot : Nat, ue : Nat, ack : BOOLEAN, copied : SUBSET Nat]
           ind == [slot |-> rx.slot, ue |-> rx.ue, ack |-> ack, copied |-> copied]
           n == Len(indications)
<1>1. rx.slot \in Nat /\ rx.ue \in Nat \ {0}
  BY RxType
<1>2. ind \in Ind /\ ind.slot = rx.slot /\ ind.ue = rx.ue /\ ind.ack = ack /\ ind.copied = copied
  BY <1>1
<1>3. indications \in Seq(Ind) /\ indications' = Append(indications, ind)
  BY DEF TypeInv, nr_fill_indication
<1> HIDE DEF ind, Ind
<1>4. /\ indications' \in Seq(Ind) /\ n \in Nat /\ DOMAIN indications = 1 .. n /\ DOMAIN indications' = 1 .. (n + 1)
      /\ indications'[n + 1] = ind /\ \A i \in 1 .. n : indications'[i] = indications[i]
  BY <1>2, <1>3
<1>5. n + 1 \in 1 .. (n + 1) /\ \A i \in 1 .. (n + 1) : i \in 1 .. n \/ i = n + 1
  BY <1>4
<1>6. \A i \in 1 .. n : i \in 1 .. (n + 1)
  BY <1>4
<1> HIDE DEF n
<1>7. \A i \in 1 .. n : /\ indications[i].slot \in Nat /\ indications[i].ue \in Nat
                        /\ \/ indications[i].slot < rx.slot
                           \/ indications[i].slot = rx.slot /\ indications[i].ue < rx.ue
  BY <1>4, IndicationType DEF IndicationInv
<1>8. \A i \in DOMAIN indications' :
        \/ indications'[i].slot < rx'.slot
        \/ indications'[i].slot = rx'.slot /\ indications'[i].ue < rx'.ue
        \/ indications'[i].slot = rx'.slot /\ indications'[i].ue = rx'.ue /\ Stuck'
  <2> SUFFICES ASSUME NEW i \in 1 .. (n + 1)
               PROVE  \/ indications'[i].slot < rx'.slot
                      \/ indications'[i].slot = rx'.slot /\ indications'[i].ue < rx'.ue
                      \/ indications'[i].slot = rx'.slot /\ indications'[i].ue = rx'.ue /\ Stuck'
    BY <1>4
  <2>1. CASE i \in 1 .. n
    BY <1>1, <1>4, <1>7, <2>1, SMTT(30)
  <2>2. CASE i = n + 1
    BY <1>1, <1>2, <1>4, <2>2
  <2> QED BY <1>5, <2>1, <2>2
<1>9. \A i, j \in DOMAIN indications' :
        indications'[i].slot = indications'[j].slot /\ indications'[i].ue = indications'[j].ue => i = j
  <2>1. \A i \in 1 .. n : ~(indications[i].slot = rx.slot /\ indications[i].ue = rx.ue)
    BY <1>1, <1>7
  <2>2. \A i, j \in 1 .. n :
          indications[i].slot = indications[j].slot /\ indications[i].ue = indications[j].ue => i = j
    BY <1>4 DEF IndicationInv
  <2> QED BY <1>2, <1>4, <1>5, <2>1, <2>2
<1>10. \A u \in 1 .. (rx'.ue - 1) : Plan[rx.slot].ul[u] = 0 \/ \E i \in DOMAIN indications' : indications'[i].slot = rx.slot /\ indications'[i].ue = u
  <2> SUFFICES ASSUME NEW u \in 1 .. (rx'.ue - 1), Plan[rx.slot].ul[u] # 0
               PROVE  \E i \in 1 .. (n + 1) : indications'[i].slot = rx.slot /\ indications'[i].ue = u
    BY <1>4
  <2>1. u \in 1 .. (rx.ue - 1) \/ u = rx.ue
    BY <1>1
  <2>2. CASE u \in 1 .. (rx.ue - 1)
    <3>1. PICK i \in 1 .. n : indications[i].slot = rx.slot /\ indications[i].ue = u
      BY <1>4, <2>2 DEF IndicationInv, IndicationsOf
    <3> QED BY <1>4, <1>6, <3>1
  <2>3. CASE u = rx.ue
    BY <1>2, <1>4, <1>5, <2>3
  <2> QED BY <2>1, <2>2, <2>3
<1>11. \A i \in DOMAIN indications' :
         indications'[i].ack => indications'[i].copied = 1 .. Plan[indications'[i].slot].ul[indications'[i].ue]
  <2>1. \A i \in 1 .. n :
          indications[i].ack => indications[i].copied = 1 .. Plan[indications[i].slot].ul[indications[i].ue]
    BY <1>4 DEF IndicationInv
  <2>2. ind.ack => ind.copied = 1 .. Plan[ind.slot].ul[ind.ue]
    BY <1>2 DEF Blocks
  <2> QED BY <1>4, <1>5, <2>1, <2>2
<1> QED BY <1>4, <1>8, <1>9, <1>10, <1>11 DEF IndicationInv, IndicationsOf, Ind

\* While the rx job is not decoding nothing is awaited.
LEMMA NothingAwaited ==
  ASSUME PipeInv, rx.pc \notin Decoding
  PROVE  /\ Of("ul", Queue \cup (running \ abortFlag)) = {} /\ respDecode = <<>> /\ DOMAIN respDecode = {}
         /\ ~Stuck /\ \A nb : ~Awaited(nb)
<1>1. Of("ul", Queue \cup (running \ abortFlag)) = {} /\ DOMAIN respDecode = {}
  BY DEF PipeInv, DecodeInv, LiveJob, Decoding
<1>2. respDecode = <<>>
  BY <1>1 DEF PipeInv, TypeInv
<1>3. \A nb : ~Awaited(nb)
  BY <1>1, KindFacts DEF Awaited, Of
<1> QED BY <1>1, <1>2, <1>3 DEF Stuck, Decoding

\* The rx job goes to the next UE, or on in its program, with nothing awaited.
LEMMA DecodeDone ==
  ASSUME DecodeInv, TypeInv, PoolInv, Of("ul", Queue' \cup (running' \ abortFlag')) = {}, respDecode' = <<>>,
         abortFlag' = abortFlag, rx'.pc \notin Decoding, rx'.slot = rx.slot, rx'.ue \in Nat,
         rx'.ue >= rx.ue, rx.pc = "abortResp" \/ Stuck => rx'.ue > rx.ue,
         rx'.pc \in {"launch", "done"} => rx'.ue > Len(Plan[rx'.slot].ul)
  PROVE  DecodeInv'
<1>1. ~Stuck' /\ rx'.pc \notin {"push", "pull", "abort", "abortResp"}
  BY DEF Stuck, Decoding
<1>2. ASSUME NEW j \in abortFlag PROVE OldJob(j)'
  <2>1. OldJob(j) /\ j \in Jobs
    BY DEF DecodeInv, PoolInv, TypeInv, Of
  <2>2. rx.ue \in Nat /\ j.key[2] \in Nat /\ j.key[3] \in Nat
    BY <2>1, RxType DEF Jobs, Keys
  <2>3. j.key = RxKey => j.key[2] = rx.slot /\ j.key[3] = rx.ue
    BY KeyFacts DEF RxKey
  <2>4. j.key[2] < rx'.slot \/ (j.key[2] = rx'.slot /\ j.key[3] < rx'.ue)
    BY <2>1, <2>2, <2>3 DEF OldJob
  <2> QED BY <2>1, <2>4 DEF OldJob
<1>3. ProgressInv'
  BY <1>1 DEF ProgressInv, Decoding
<1>4. DOMAIN respDecode' = {}
  OBVIOUS
<1> QED BY <1>1, <1>2, <1>3, <1>4 DEF DecodeInv

\* The UE sent nothing.
LEMMA PuschNotDetectedStep ==
  ASSUME PipeInv, PuschNotDetected
  PROVE  PipeInv'
<1>1. /\ rx.pc = "detect" /\ nr_fill_indication(FALSE, {}) /\ rx' = [rx EXCEPT !.ue = @ + 1]
      /\ UNCHANGED <<incomingFifo, running, abortFlag, respDecode, nf, tx, L1_tx_free, L1_tx_filled, L1_tx_out, ruSlot, resp_L1, reorder, sent>>
  BY DEF PuschNotDetected, Rx, pool, downlink, txQueues
<1>2. TypeInv /\ rx.ue \in Nat \ {0}
  BY RxType DEF PipeInv
<1>3. rx' \in RxState /\ rx'.pc = "detect" /\ rx'.slot = rx.slot /\ rx'.ue = rx.ue + 1
  <2>1. rx' = RxFields("detect", rx.slot, rx.ue + 1, rx.nbDecode, rx.processedSegments, rx.nb, rx.copied)
    BY <1>1, <1>2, RxType DEF RxFields
  <2> QED BY <1>2, <2>1, RxType DEF RxFields, RxState
<1>4. Queue' = Queue
  BY <1>1 DEF Queue
<1>5. rx.pc \notin Decoding /\ rx'.pc \notin Decoding
  BY <1>1, <1>3 DEF Decoding
<1>6. ~Stuck
  BY <1>1 DEF Stuck
<1>7. IndicationInv' /\ indications' \in Seq([slot : Nat, ue : Nat, ack : BOOLEAN, copied : SUBSET Nat])
  BY <1>1, <1>2, <1>3, <1>6, IndicateStep DEF PipeInv
<1>8. TypeInv'
  BY <1>1, <1>3, <1>7 DEF PipeInv, TypeInv, Slots
<1>9. PoolInv'
  BY <1>1, <1>4 DEF PipeInv, PoolInv
<1>10. RxInv' /\ TxInv' /\ OrderInv' /\ CodingInv'
  <2>1. SamePhase
    BY <1>1, <1>3 DEF SamePhase
  <2> QED BY <1>1, <1>3, <1>4, <2>1, RxQuiet
<1>11. DecodeInv'
  <2>1. Of("ul", Queue' \cup (running' \ abortFlag')) = {} /\ respDecode' = <<>>
    BY <1>1, <1>4, <1>5, NothingAwaited
  <2>2. rx'.ue \in Nat /\ rx'.ue >= rx.ue /\ rx'.ue > rx.ue
    BY <1>2, <1>3
  <2> QED BY <1>1, <1>3, <1>5, <2>1, <2>2, DecodeDone DEF PipeInv
<1> QED BY <1>7, <1>8, <1>9, <1>10, <1>11 DEF PipeInv

\* A transport block is to be decoded.
LEMMA PuschDetectedStep ==
  ASSUME PipeInv, PuschDetected
  PROVE  PipeInv'
<1>1. /\ rx.pc = "detect" /\ rx.ue \in DOMAIN Plan[rx.slot].ul
      /\ rx' = [rx EXCEPT !.pc = "push", !.nbDecode = 0, !.processedSegments = 0, !.copied = {}]
      /\ UNCHANGED <<incomingFifo, running, abortFlag, respDecode, indications, nf, tx, L1_tx_free, L1_tx_filled, L1_tx_out, ruSlot, resp_L1, reorder, sent>>
  BY DEF PuschDetected, Rx, pool, downlink, txQueues
<1>10. Blocks > 0
  BY DEF PuschDetected
<1>2. TypeInv
  BY DEF PipeInv
<1>3. /\ rx' \in RxState /\ rx'.pc = "push" /\ rx'.slot = rx.slot /\ rx'.ue = rx.ue
      /\ rx'.nbDecode = 0 /\ rx'.processedSegments = 0 /\ rx'.copied = {}
  <2>1. rx' = RxFields("push", rx.slot, rx.ue, 0, 0, rx.nb, {})
    BY <1>1, <1>2, RxType DEF RxFields
  <2> QED BY <1>2, <2>1, RxType DEF RxFields, RxState
<1>4. Queue' = Queue
  BY <1>1 DEF Queue
<1>5. rx.pc \notin Decoding /\ ~Stuck /\ ~Stuck'
  BY <1>1, <1>3 DEF Decoding, Stuck
<1>6. TypeInv' /\ PoolInv'
  BY <1>1, <1>3, <1>4 DEF PipeInv, TypeInv, PoolInv, Slots
<1>7. RxInv' /\ TxInv' /\ OrderInv' /\ CodingInv'
  <2>1. SamePhase
    BY <1>1, <1>3 DEF SamePhase
  <2> QED BY <1>1, <1>3, <1>4, <2>1, RxQuiet
<1>8. IndicationInv'
  BY <1>1, <1>3, <1>5, IndicationFrame DEF PipeInv
<1>9. DecodeInv'
  <2>1. /\ Of("ul", Queue' \cup (running' \ abortFlag')) = {} /\ DOMAIN respDecode' = {}
    BY <1>1, <1>4, <1>5, NothingAwaited
  <2>2. \A j \in abortFlag' : OldJob(j)'
    BY <1>1, <1>3, <1>5 DEF PipeInv, DecodeInv, OldJob
  <2>3. ProgressInv'
    <3>1. rx.slot \in Slots
      BY <1>1 DEF PipeInv, RxInv
    <3>2. Blocks' \in Nat \ {0}
      BY <1>1, <1>3, <1>10, <3>1, PlanFacts DEF Blocks
    <3>3. 0 \in 0 .. (Blocks' - 1)
      <4>1. \A b \in Nat \ {0} : 0 \in 0 .. (b - 1)
        OBVIOUS
      <4> QED BY <3>2, <4>1
    <3> QED BY <1>1, <1>3, <3>3 DEF ProgressInv, Decoding
  <2> QED BY <1>3, <2>1, <2>2, <2>3 DEF DecodeInv
<1> QED BY <1>6, <1>7, <1>8, <1>9 DEF PipeInv

\* The UE is passed over.
LEMMA RefusedStep ==
  ASSUME PipeInv, DecodingRefused
  PROVE  PipeInv'
<1>1. /\ rx.pc = "detect" /\ Blocks = 0 /\ rx' = [rx EXCEPT !.ue = @ + 1, !.nbDecode = 0, !.processedSegments = 0]
      /\ UNCHANGED <<incomingFifo, running, abortFlag, respDecode, indications, nf, tx, L1_tx_free, L1_tx_filled, L1_tx_out, ruSlot, resp_L1, reorder, sent>>
  BY DEF DecodingRefused, Rx, pool, downlink, txQueues
<1>2. TypeInv /\ rx.ue \in Nat \ {0}
  BY RxType DEF PipeInv
<1>3. rx' \in RxState /\ rx'.pc = "detect" /\ rx'.slot = rx.slot /\ rx'.ue = rx.ue + 1
  <2>1. rx' = RxFields("detect", rx.slot, rx.ue + 1, 0, 0, rx.nb, rx.copied)
    BY <1>1, <1>2, RxType DEF RxFields
  <2> QED BY <1>2, <2>1, RxType DEF RxFields, RxState
<1>4. Queue' = Queue
  BY <1>1 DEF Queue
<1>5. rx.pc \notin Decoding /\ rx'.pc \notin Decoding /\ ~Stuck
  BY <1>1, <1>3 DEF Decoding, Stuck
<1>6. IndicationInv'
  <2>1. \A i \in DOMAIN indications : indications[i].slot \in Nat /\ indications[i].ue \in Nat
    BY <1>2, IndicationType
  <2>2. \A u \in 1 .. (rx'.ue - 1) : u \in 1 .. (rx.ue - 1) \/ u = rx.ue
    BY <1>2, <1>3
  <2>3. \A u \in 1 .. (rx'.ue - 1) : Plan[rx.slot].ul[u] = 0 \/ IndicationsOf(rx.slot, u) # {}
    BY <1>1, <2>2 DEF PipeInv, IndicationInv, Blocks
  <2>4. \A s, u : IndicationsOf(s, u)' = IndicationsOf(s, u)
    BY <1>1 DEF IndicationsOf
  <2>5. \A i \in DOMAIN indications :
          \/ indications[i].slot < rx'.slot
          \/ indications[i].slot = rx'.slot /\ indications[i].ue < rx'.ue
    BY <1>2, <1>3, <1>5, <2>1 DEF PipeInv, IndicationInv
  <2> QED BY <1>1, <1>3, <2>3, <2>4, <2>5 DEF PipeInv, IndicationInv
<1>7. TypeInv' /\ PoolInv'
  BY <1>1, <1>3, <1>4 DEF PipeInv, TypeInv, PoolInv, Slots
<1>8. RxInv' /\ TxInv' /\ OrderInv' /\ CodingInv'
  <2>1. SamePhase
    BY <1>1, <1>3 DEF SamePhase
  <2> QED BY <1>1, <1>3, <1>4, <2>1, RxQuiet
<1>9. DecodeInv'
  <2>1. Of("ul", Queue' \cup (running' \ abortFlag')) = {} /\ respDecode' = <<>>
    BY <1>1, <1>4, <1>5, NothingAwaited
  <2>2. rx'.ue \in Nat /\ rx'.ue >= rx.ue /\ rx'.ue > rx.ue
    BY <1>2, <1>3
  <2> QED BY <1>1, <1>3, <1>5, <2>1, <2>2, DecodeDone DEF PipeInv
<1> QED BY <1>6, <1>7, <1>8, <1>9 DEF PipeInv

\* nr_ulsch_decoding pushes a segment.
LEMMA DecodingStep ==
  ASSUME PipeInv, nr_ulsch_decoding
  PROVE  PipeInv'
<1> DEFINE msg == DecodeJob(rx.slot, rx.ue, rx.nbDecode + 1)
<1>1. /\ rx.pc = "push"
      /\ incomingFifo' = pushNotifiedFIFO(incomingFifo, msg)
      /\ rx' = [rx EXCEPT !.nbDecode = @ + 1, !.pc = IF rx.nbDecode + 1 = Blocks THEN "pull" ELSE "push"]
      /\ UNCHANGED <<running, abortFlag, respDecode, indications, nf, tx, L1_tx_free, L1_tx_filled, L1_tx_out, ruSlot, resp_L1, reorder, sent>>
  BY DEF nr_ulsch_decoding, Rx, downlink, txQueues
<1>2. TypeInv
  BY DEF PipeInv
<1>3. /\ rx.processedSegments = 0 /\ rx.copied = {} /\ rx.nbDecode \in 0 .. (Blocks - 1) /\ rx.slot \in Slots
      /\ rx.ue \in DOMAIN Plan[rx.slot].ul
  BY <1>1 DEF PipeInv, DecodeInv, ProgressInv, RxInv, Decoding
<1>4. Blocks \in Nat \ {0} /\ rx.slot \in Nat /\ rx.ue \in Nat
  BY <1>2, <1>3, PlanFacts, RxType DEF Blocks
<1>5. rx.nbDecode + 1 \in 1 .. Blocks /\ rx.nbDecode + 1 \in Nat
  BY <1>3, <1>4
<1> DEFINE pc == IF rx.nbDecode + 1 = Blocks THEN "pull" ELSE "push"
<1>6. /\ rx' \in RxState /\ rx'.pc = pc /\ rx'.slot = rx.slot /\ rx'.ue = rx.ue
      /\ rx'.nbDecode = rx.nbDecode + 1 /\ rx'.processedSegments = 0 /\ rx'.copied = {}
  <2>1. rx' = RxFields(pc, rx.slot, rx.ue, rx.nbDecode + 1, 0, rx.nb, {})
    BY <1>1, <1>2, <1>3, RxType DEF RxFields
  <2>2. pc \in {"pull", "push"}
    OBVIOUS
  <2> QED BY <1>2, <1>5, <2>1, <2>2, RxType DEF RxFields, RxState
<1>7. msg \in Jobs /\ Kind(msg) = "ul" /\ msg.nb = rx.nbDecode + 1 /\ msg.key = RxKey
  BY <1>4, <1>5, JobFacts, SMTT(30) DEF RxKey
<1>8. ~Stuck /\ ~Stuck' /\ Blocks' = Blocks
  <2>1. ~Stuck
    BY <1>1 DEF Stuck
  <2>2. Blocks' = Blocks
    BY <1>6 DEF Blocks
  <2>3. ~Stuck'
    BY <1>4, <1>6, <2>2 DEF Stuck
  <2> QED BY <2>1, <2>2, <2>3
<1>9. Pushed = rx.nbDecode /\ Pushed' = rx.nbDecode + 1
  BY <1>3, <1>6 DEF Pushed
<1>10. msg \notin Queue \cup running
  <2>1. ASSUME msg \in Of("ul", Queue \cup (running \ abortFlag)) PROVE FALSE
    <3>1. msg.nb \in 1 .. Pushed
      BY <2>1 DEF PipeInv, DecodeInv, LiveJob
    <3> QED BY <1>3, <1>7, <1>9, <3>1
  <2>2. ASSUME msg \in abortFlag PROVE FALSE
    <3>1. OldJob(msg)
      BY <2>2 DEF PipeInv, DecodeInv
    <3>2. msg.key[2] = rx.slot /\ msg.key[3] = rx.ue
      BY <1>7, KeyFacts DEF RxKey
    <3> QED BY <1>1, <1>4, <1>8, <3>1, <3>2 DEF OldJob
  <2> QED BY <1>7, <2>1, <2>2 DEF Of
<1> HIDE DEF msg
<1>11. FifoOK(incomingFifo, Jobs)' /\ PoolInv' /\ (Queue' = Queue \/ Queue' = Queue \cup {msg})
  BY <1>1, <1>2, <1>7, <1>10, PushPool DEF PipeInv
<1>12. TypeInv'
  BY <1>1, <1>2, <1>6, <1>11 DEF TypeInv, FifoOK, Slots
<1>13. RxInv' /\ TxInv' /\ OrderInv' /\ CodingInv'
  <2>1. SamePhase /\ rx'.pc # "idle"
    BY <1>1, <1>6 DEF SamePhase
  <2>2. \A k \in {"rx", "tx", "dl"} : Of(k, Queue') \subseteq Of(k, Queue)
    BY <1>7, <1>11 DEF Of
  <2> QED BY <1>1, <2>1, <2>2, RxQuiet
<1>14. IndicationInv'
  BY <1>1, <1>6, <1>8, IndicationFrame DEF PipeInv
<1>15. DecodeInv'
  <2>1. ProgressInv'
    <3>1. rx'.pc = "push" => rx.nbDecode + 1 \in 0 .. (Blocks - 1)
      BY <1>4, <1>5, <1>6
    <3>2. rx'.pc = "pull" => Pushed' = Blocks /\ rx'.nbDecode > 0
      BY <1>3, <1>6, <1>9
    <3>3. Cardinality({}) = 0
      BY FS_EmptySet
    <3> QED BY <1>3, <1>6, <1>8, <3>1, <3>2, <3>3 DEF ProgressInv
  <2>2. rx.pc \in {"push", "pull", "abort"} /\ rx'.pc \in {"push", "pull", "abort"} /\ rx.pc \in Decoding /\ rx'.pc \in Decoding
    BY <1>1, <1>6 DEF Decoding
  <2>3. \A j \in Of("ul", Queue' \cup (running' \ abortFlag')) : LiveJob(j)'
    <3> SUFFICES ASSUME NEW j \in Of("ul", Queue' \cup (running' \ abortFlag'))
                 PROVE  j = DecodeJob(rx.slot, rx.ue, j.nb) /\ j.nb \in 1 .. (rx.nbDecode + 1)
      BY <1>6, <1>8, <1>9, <2>2 DEF LiveJob
    <3>1. CASE j = msg
      <4>1. j.nb = rx.nbDecode + 1
        BY <1>7, <3>1
      <4> QED BY <1>5, <3>1, <4>1 DEF msg
    <3>2. CASE j # msg
      <4>1. LiveJob(j)
        BY <1>1, <1>11, <3>2 DEF PipeInv, DecodeInv, Of
      <4> QED BY <1>3, <1>9, <4>1 DEF LiveJob
    <3> QED BY <3>1, <3>2
  <2>4. \A j \in abortFlag' : OldJob(j)'
    BY <1>1, <1>6, <1>8 DEF PipeInv, DecodeInv, OldJob, RxKey
  <2>5. RxKey' = RxKey /\ \A nb : DecodeJob(rx'.slot, rx'.ue, nb) = DecodeJob(rx.slot, rx.ue, nb)
    BY <1>6 DEF RxKey
  <2>6. ASSUME NEW i \in DOMAIN respDecode
        PROVE  /\ rx'.pc \in Decoding /\ ~Stuck'
               /\ respDecode[i].key = RxKey' /\ respDecode[i].nb \in 1 .. Pushed'
               /\ DecodeJob(rx'.slot, rx'.ue, respDecode[i].nb) \notin Queue' \cup (running' \ abortFlag')
               /\ \A j \in DOMAIN respDecode : respDecode[i].nb = respDecode[j].nb => i = j
    <3>1. /\ respDecode[i].key = RxKey /\ respDecode[i].nb \in 1 .. rx.nbDecode
          /\ DecodeJob(rx.slot, rx.ue, respDecode[i].nb) \notin Queue \cup (running \ abortFlag)
          /\ \A j \in DOMAIN respDecode : respDecode[i].nb = respDecode[j].nb => i = j
      BY <1>9 DEF PipeInv, DecodeInv
    <3>2. respDecode[i].nb # rx.nbDecode + 1 /\ respDecode[i].nb \in 1 .. (rx.nbDecode + 1)
      BY <1>3, <3>1
    <3>3. DecodeJob(rx.slot, rx.ue, respDecode[i].nb) # msg
      BY <1>7, <3>2, KindFacts
    <3> QED BY <1>1, <1>8, <1>9, <1>11, <2>2, <2>5, <3>1, <3>2, <3>3
  <2> QED BY <1>1, <1>6, <2>1, <2>3, <2>4, <2>6 DEF DecodeInv
<1> QED BY <1>11, <1>12, <1>13, <1>14, <1>15 DEF PipeInv

\* The answers come from different code blocks.
LEMMA AnswersDistinct ==
  ASSUME PipeInv
  PROVE  Distinct(respDecode) /\ respDecode \in Seq(Answers) /\ \A e \in ToSet(respDecode) : e.key = RxKey
<1>1. Distinct(respDecode) /\ respDecode \in Seq(Answers)
  BY DEF PipeInv, DecodeInv, Distinct, TypeInv
<1>2. \A e \in ToSet(respDecode) : e.key = RxKey
  BY DEF PipeInv, DecodeInv, ToSet
<1> QED BY <1>1, <1>2

\* A full set of code blocks leaves none that could be awaited.
LEMMA AllBlocks ==
  ASSUME NEW n \in Nat, NEW S, S \subseteq 1 .. n, Cardinality(S) = n
  PROVE  S = 1 .. n
<1>1. IsFiniteSet(1 .. n) /\ Cardinality(1 .. n) = n
  BY FS_Interval
<1> QED BY <1>1, FS_Subset

\* nr_postDecode pulls an answer.
LEMMA PostDecodeStep ==
  ASSUME PipeInv, nr_postDecode
  PROVE  PipeInv'
<1> DEFINE req == Head(respDecode)
           d == rx.nbDecode - 1
           p == rx.processedSegments + 1
           c == IF req.ok THEN rx.copied \cup {req.nb} ELSE rx.copied
           r == [rx EXCEPT !.processedSegments = @ + 1, !.nbDecode = @ - 1,
                           !.copied = IF req.ok THEN @ \union {req.nb} ELSE @]
           last == r.processedSegments = Blocks
<1>1. /\ rx.pc = "pull" /\ respDecode # <<>> /\ respDecode' = Tail(respDecode)
      /\ rx' = IF ~req.ok /\ ~last THEN [r EXCEPT !.pc = "abort"] ELSE AfterDecode(r)
      /\ IF last THEN nr_fill_indication(req.ok, r.copied) ELSE UNCHANGED indications
      /\ UNCHANGED <<incomingFifo, running, abortFlag, nf, tx, L1_tx_free, L1_tx_filled, L1_tx_out, ruSlot, resp_L1, reorder, sent>>
  BY DEF nr_postDecode, Rx, pool, downlink, txQueues
<1>2. TypeInv /\ rx.slot \in Nat /\ rx.ue \in Nat \ {0} /\ rx.nbDecode \in Int /\ rx.processedSegments \in Nat
      /\ rx.nb \in Nat /\ rx.copied \in SUBSET Nat
  BY RxType DEF PipeInv
<1>3. /\ req \in Answers /\ Tail(respDecode) \in Seq(Answers) /\ Len(respDecode) \in Nat \ {0}
      /\ req = respDecode[1] /\ 1 \in DOMAIN respDecode
      /\ \A i \in DOMAIN Tail(respDecode) : i + 1 \in DOMAIN respDecode /\ Tail(respDecode)[i] = respDecode[i + 1]
  BY <1>1, AnswersDistinct, HeadTail
<1>4. req.ok \in BOOLEAN /\ req.nb \in Nat
  BY <1>3 DEF Answers
<1> HIDE DEF req
<1>5. /\ ~Stuck /\ req.nb \in 1 .. Pushed /\ rx.ue \in DOMAIN Plan[rx.slot].ul
      /\ rx.pc \in {"push", "pull", "abort"} /\ rx.slot \in Slots /\ Blocks # 0
  BY <1>1, <1>3 DEF PipeInv, DecodeInv, ProgressInv, RxInv, Decoding
<1>6. Blocks \in Nat \ {0}
  BY <1>5, PlanFacts DEF Blocks
<1>7. Pushed = Blocks /\ rx.nbDecode > 0 /\ rx.copied \subseteq 1 .. Blocks /\ Cardinality(rx.copied) = rx.processedSegments
  BY <1>1, <1>5 DEF PipeInv, DecodeInv, ProgressInv
<1>8. d \in Nat /\ p \in Nat \ {0} /\ p + d = Blocks /\ p <= Blocks /\ (p = Blocks <=> d = 0)
  BY <1>2, <1>6, <1>7 DEF Pushed
<1>9. c \in SUBSET Nat /\ c \subseteq 1 .. Blocks
  BY <1>2, <1>4, <1>5, <1>7
<1>10. /\ r = RxFields("pull", rx.slot, rx.ue, d, p, rx.nb, c)
       /\ r.processedSegments = p /\ r.nbDecode = d /\ r.copied = c
  <2>1. rx = RxFields("pull", rx.slot, rx.ue, rx.nbDecode, rx.processedSegments, rx.nb, rx.copied)
    BY <1>1, <1>2, RxType
  <2> DEFINE rr == r
  <2>2. rr = [rx EXCEPT !.processedSegments = p, !.nbDecode = d, !.copied = c]
    BY <2>1 DEF RxFields
  <2> HIDE DEF rr, c, d, p
  <2>3. rr = RxFields("pull", rx.slot, rx.ue, d, p, rx.nb, c)
    BY <1>1, <1>2, <2>2, RxAnswer
  <2>4. rr.processedSegments = p /\ rr.nbDecode = d /\ rr.copied = c
    BY <2>3 DEF RxFields
  <2> QED BY <2>3, <2>4 DEF rr
<1> HIDE DEF r
<1>11. last <=> p = Blocks
  BY <1>10
<1>12. rx.copied \cup {req.nb} \subseteq 1 .. Blocks /\ Cardinality(rx.copied \cup {req.nb}) = p
  <2>1. req.nb \notin rx.copied
    BY <1>1, <1>3 DEF PipeInv, DecodeInv, Awaited
  <2>2. IsFiniteSet(rx.copied)
    <3>1. IsFiniteSet(1 .. Blocks)
      BY <1>6, FS_Interval
    <3> QED BY <1>7, <3>1, FS_Subset
  <2>3. Cardinality(rx.copied \cup {req.nb}) = Cardinality(rx.copied) + 1
    BY <2>1, <2>2, FS_AddElement
  <2> QED BY <1>5, <1>7, <2>3
<1>13. Queue' = Queue
  BY <1>1 DEF Queue
<1>14. PoolInv'
  BY <1>1, <1>13 DEF PipeInv, PoolInv
<1>15. last \/ (~last /\ ~req.ok) \/ (~last /\ req.ok)
  OBVIOUS
<1>16. CASE last
  <2>1. p = Blocks /\ d = 0
    BY <1>8, <1>11, <1>16
  <2>2. rx.copied \cup {req.nb} = 1 .. Blocks
    BY <1>6, <1>12, <2>1, AllBlocks
  <2>3. \A nb \in 1 .. Blocks : nb # req.nb => ~Awaited(nb)
    BY <1>1, <2>2 DEF PipeInv, DecodeInv
  <2>4. Of("ul", Queue' \cup (running' \ abortFlag')) = {}
    <3> SUFFICES ASSUME NEW j \in Of("ul", Queue \cup (running \ abortFlag)) PROVE FALSE
      BY <1>1, <1>13
    <3>1. LiveJob(j) /\ j \in Queue \cup (running \ abortFlag)
      BY DEF PipeInv, DecodeInv, Of
    <3>2. j = DecodeJob(rx.slot, rx.ue, j.nb) /\ j.nb \in 1 .. Blocks /\ Awaited(j.nb)
      BY <1>7, <3>1 DEF LiveJob, Awaited
    <3>3. j.nb = req.nb
      BY <2>3, <3>2
    <3> QED BY <1>3, <3>1, <3>2, <3>3 DEF PipeInv, DecodeInv
  <2>5. respDecode' = <<>>
    <3> SUFFICES ASSUME Tail(respDecode) # <<>> PROVE FALSE
      BY <1>1
    <3>1. 2 \in DOMAIN respDecode
      BY <1>3
    <3>2. respDecode[2].nb \in 1 .. Blocks /\ respDecode[2].nb # respDecode[1].nb
      BY <1>3, <1>7, <3>1 DEF PipeInv, DecodeInv
    <3>3. Awaited(respDecode[2].nb)
      BY <3>1 DEF Awaited
    <3> QED BY <1>3, <2>3, <3>2, <3>3
  <2>6. rx' \in RxState /\ rx'.pc = "detect" /\ rx'.slot = rx.slot /\ rx'.ue = rx.ue + 1
    <3>1. rx' = [r EXCEPT !.pc = "detect", !.ue = @ + 1]
      BY <1>1, <1>10, <1>16, <2>1 DEF AfterDecode
    <3> HIDE DEF c, d, p
    <3>2. rx' = RxFields("detect", rx.slot, rx.ue + 1, d, p, rx.nb, c)
      BY <1>10, <3>1 DEF RxFields
    <3> QED BY <1>2, <1>8, <1>9, <3>2 DEF RxFields, RxState
  <2>7. IndicationInv' /\ indications' \in Seq([slot : Nat, ue : Nat, ack : BOOLEAN, copied : SUBSET Nat])
    <3>1. nr_fill_indication(req.ok, c)
      BY <1>1, <1>10, <1>16
    <3>2. req.ok => c = 1 .. Blocks
      BY <2>2
    <3> HIDE DEF c
    <3> QED BY <1>1, <1>2, <1>4, <1>5, <1>9, <2>6, <3>1, <3>2, IndicateStep DEF PipeInv
  <2>8. TypeInv'
    BY <1>1, <1>2, <1>3, <2>6, <2>7 DEF TypeInv, Slots
  <2>9. RxInv' /\ TxInv' /\ OrderInv' /\ CodingInv'
    <3>1. SamePhase /\ rx'.pc # "idle"
      BY <1>1, <2>6 DEF SamePhase
    <3> QED BY <1>1, <1>13, <3>1, RxQuiet
  <2>10. DecodeInv'
    <3>1. rx'.ue \in Nat /\ rx'.ue >= rx.ue /\ rx'.ue > rx.ue
      BY <1>2, <2>6
    <3>2. rx'.pc \notin Decoding
      BY <2>6 DEF Decoding
    <3> QED BY <1>1, <2>4, <2>5, <2>6, <3>1, <3>2, DecodeDone DEF PipeInv
  <2> QED BY <1>14, <2>7, <2>8, <2>9, <2>10 DEF PipeInv
<1>17. CASE ~last
  <2>1. p < Blocks /\ d > 0 /\ p \in 1 .. (Blocks - 1)
    BY <1>6, <1>8, <1>11, <1>17
  <2> DEFINE pc == IF req.ok THEN "pull" ELSE "abort"
  <2>2. /\ rx' \in RxState /\ rx'.pc = pc /\ rx'.slot = rx.slot /\ rx'.ue = rx.ue
        /\ rx'.nbDecode = d /\ rx'.processedSegments = p /\ rx'.copied = c
    <3>1. rx' = [r EXCEPT !.pc = pc]
      BY <1>1, <1>10, <1>17, <2>1 DEF AfterDecode
    <3>2. pc \in {"pull", "abort"}
      OBVIOUS
    <3> HIDE DEF c, d, p, pc
    <3>3. rx' = RxFields(pc, rx.slot, rx.ue, d, p, rx.nb, c)
      BY <1>10, <3>1 DEF RxFields
    <3> QED BY <1>2, <1>8, <1>9, <3>2, <3>3 DEF RxFields, RxState
  <2>3. Blocks' = Blocks /\ RxKey' = RxKey /\ Pushed' = Pushed
    <3>1. Blocks' = Blocks /\ RxKey' = RxKey
      BY <2>2 DEF Blocks, RxKey
    <3>2. Pushed' = Pushed
      BY <1>2, <2>2 DEF Pushed
    <3> QED BY <3>1, <3>2
  <2>4. ~Stuck'
    <3>1. ~(p >= Blocks)
      BY <1>6, <1>8, <2>1
    <3> QED BY <2>2, <2>3, <3>1 DEF Stuck
  <2>5. indications' = indications
    BY <1>1, <1>17
  <2>6. TypeInv'
    BY <1>1, <1>2, <1>3, <2>2, <2>5 DEF TypeInv, Slots
  <2>7. RxInv' /\ TxInv' /\ OrderInv' /\ CodingInv'
    <3>1. SamePhase /\ rx'.pc # "idle"
      BY <1>1, <2>2 DEF SamePhase
    <3> QED BY <1>1, <1>13, <3>1, RxQuiet
  <2>8. IndicationInv'
    BY <1>1, <1>5, <2>2, <2>5, IndicationFrame DEF PipeInv
  <2>9. DecodeInv'
    <3>1. rx'.pc \in {"push", "pull", "abort"} /\ rx'.pc \in Decoding
      BY <2>2 DEF Decoding
    <3>2. ProgressInv'
      <4>1. rx'.pc = "pull" => Cardinality(c) = p
        BY <1>12, <2>2
      <4>2. rx'.pc \in {"abort", "abortResp"} => rx'.processedSegments \in 1 .. (Blocks' - 1)
        BY <2>1, <2>2, <2>3
      <4> HIDE DEF c, d, p
      <4> QED BY <1>5, <1>7, <1>9, <2>1, <2>2, <2>3, <3>1, <4>1, <4>2 DEF ProgressInv
    <3>3. \A j \in Of("ul", Queue' \cup (running' \ abortFlag')) : LiveJob(j)'
      BY <1>1, <1>13, <2>2, <2>3, <2>4, <3>1 DEF PipeInv, DecodeInv, LiveJob
    <3>4. \A j \in abortFlag' : OldJob(j)'
      BY <1>1, <1>5, <2>2, <2>3 DEF PipeInv, DecodeInv, OldJob
    <3>5. \A i \in DOMAIN respDecode' :
            /\ rx'.pc \in Decoding /\ ~Stuck'
            /\ respDecode'[i].key = RxKey' /\ respDecode'[i].nb \in 1 .. Pushed'
            /\ DecodeJob(rx'.slot, rx'.ue, respDecode'[i].nb) \notin Queue' \cup (running' \ abortFlag')
      <4> SUFFICES ASSUME NEW i \in DOMAIN Tail(respDecode)
                   PROVE  /\ Tail(respDecode)[i].key = RxKey /\ Tail(respDecode)[i].nb \in 1 .. Pushed
                          /\ DecodeJob(rx.slot, rx.ue, Tail(respDecode)[i].nb) \notin Queue \cup (running \ abortFlag)
        BY <1>1, <1>13, <2>2, <2>3, <2>4, <3>1
      <4> QED BY <1>3 DEF PipeInv, DecodeInv
    <3>6. \A i, j \in DOMAIN respDecode' : respDecode'[i].nb = respDecode'[j].nb => i = j
      <4> SUFFICES ASSUME NEW i \in DOMAIN Tail(respDecode), NEW j \in DOMAIN Tail(respDecode),
                          Tail(respDecode)[i].nb = Tail(respDecode)[j].nb
                   PROVE  i = j
        BY <1>1
      <4>1. i + 1 = j + 1
        BY <1>3 DEF PipeInv, DecodeInv
      <4>2. i \in Nat /\ j \in Nat
        BY <1>3
      <4> QED BY <4>1, <4>2
    <3>7. \A nb : Awaited(nb)' => Awaited(nb) /\ nb # req.nb
      <4> SUFFICES ASSUME NEW nb, Awaited(nb)' PROVE Awaited(nb) /\ nb # req.nb
        OBVIOUS
      <4>1. CASE DecodeJob(rx.slot, rx.ue, nb) \in Queue \cup (running \ abortFlag)
        BY <1>3, <4>1 DEF Awaited, PipeInv, DecodeInv
      <4>2. CASE \E i \in DOMAIN Tail(respDecode) : Tail(respDecode)[i].nb = nb
        <5>1. PICK i \in DOMAIN Tail(respDecode) : Tail(respDecode)[i].nb = nb
          BY <4>2
        <5>2. i + 1 \in DOMAIN respDecode /\ respDecode[i + 1].nb = nb /\ i \in Nat /\ i # 0
          BY <1>3, <5>1
        <5>3. i + 1 # 1
          BY <5>2
        <5> QED BY <1>3, <5>2, <5>3 DEF Awaited, PipeInv, DecodeInv
      <4> QED BY <1>1, <1>13, <2>2, <4>1, <4>2 DEF Awaited
    <3>8. rx'.pc \in {"push", "pull"} => \A nb \in rx'.copied : ~Awaited(nb)'
      <4>1. \A nb \in c : nb \in rx.copied \/ nb = req.nb
        OBVIOUS
      <4> QED BY <1>1, <2>2, <3>7, <4>1 DEF PipeInv, DecodeInv
    <3> QED BY <3>2, <3>3, <3>4, <3>5, <3>6, <3>8 DEF DecodeInv
  <2> QED BY <1>14, <2>6, <2>7, <2>8, <2>9 DEF PipeInv
<1> QED BY <1>16, <1>17

\* The jobs of the block are deleted or flagged.
LEMMA AbortTpoolStep ==
  ASSUME PipeInv, abortTpool
  PROVE  PipeInv'
<1> DEFINE marked == {job \in running : job.key = RxKey}
           n == NbDeleted(incomingFifo.outF, RxKey) + Cardinality(marked)
<1>1. /\ rx.pc = "abort" /\ abortFlag' = abortFlag \union marked
      /\ rx' = [rx EXCEPT !.pc = "abortResp", !.nb = n]
      /\ incomingFifo' = abortNotifiedFIFO(incomingFifo, RxKey)
      /\ UNCHANGED <<running, respDecode, indications, nf, tx, L1_tx_free, L1_tx_filled, L1_tx_out, ruSlot, resp_L1, reorder, sent>>
  BY DEF abortTpool, Rx, downlink, txQueues
<1>2. TypeInv /\ FifoOK(incomingFifo, Jobs)
  BY FifoInv DEF PipeInv
<1>3. FifoOK(incomingFifo, Jobs)' /\ Queue' = Without(RxKey, Queue) /\ NbDeleted(incomingFifo.outF, RxKey) \in Nat
  <2> DEFINE g == incomingFifo'
  <2>1. g = abortNotifiedFIFO(incomingFifo, RxKey)
    BY <1>1
  <2> HIDE DEF g
  <2>2. /\ FifoOK(g, Jobs) /\ ToSet(g.outF) = Without(RxKey, ToSet(incomingFifo.outF))
        /\ IsFiniteSet(With(RxKey, ToSet(incomingFifo.outF)))
        /\ NbDeleted(incomingFifo.outF, RxKey) = Cardinality(With(RxKey, ToSet(incomingFifo.outF)))
    BY <1>2, <2>1, AbortFifo
  <2> USE DEF g
  <2> QED BY <2>2, FS_CardinalityType DEF Queue, FifoOK
<1>4. n \in Nat
  <2>1. IsFiniteSet(marked)
    BY <1>2, FS_Subset DEF TypeInv
  <2> QED BY <1>3, <2>1, FS_CardinalityType
<1> HIDE DEF n
<1>5. /\ rx' \in RxState /\ rx'.pc = "abortResp" /\ rx'.slot = rx.slot /\ rx'.ue = rx.ue
      /\ rx'.nbDecode = rx.nbDecode /\ rx'.processedSegments = rx.processedSegments /\ rx'.copied = rx.copied
  <2>1. rx' = RxFields("abortResp", rx.slot, rx.ue, rx.nbDecode, rx.processedSegments, n, rx.copied)
    BY <1>1, <1>2, RxType DEF RxFields
  <2> QED BY <1>2, <1>4, <2>1, RxType DEF RxFields, RxState
<1>6. \A k : Of(k, Queue') \subseteq Of(k, Queue)
  BY <1>3 DEF Of, Without
<1>7. \A job \in marked : Kind(job) = "ul"
  BY KeyFacts DEF RxKey, Kind
<1>8. PoolInv'
  BY <1>1, <1>3, <1>7 DEF PipeInv, PoolInv, Of, Without, FifoOK
<1>9. TypeInv'
  BY <1>1, <1>2, <1>3, <1>5 DEF TypeInv, FifoOK, Slots
<1>10. RxInv' /\ TxInv' /\ OrderInv' /\ CodingInv'
  <2>1. SamePhase
    BY <1>1, <1>5 DEF SamePhase
  <2> QED BY <1>1, <1>5, <1>6, <2>1, RxQuiet
<1>11. ~Stuck /\ ~Stuck' /\ Blocks' = Blocks /\ RxKey' = RxKey /\ Pushed' = Pushed
  BY <1>1, <1>5 DEF Stuck, Blocks, RxKey, Pushed
<1>12. IndicationInv'
  BY <1>1, <1>5, <1>11, IndicationFrame DEF PipeInv
<1>13. DecodeInv'
  <2>1. ProgressInv'
    BY <1>1, <1>5, <1>11 DEF PipeInv, DecodeInv, ProgressInv, Decoding
  <2>2. \A job \in Of("ul", Queue \cup (running \ abortFlag)) : job.key = RxKey /\ job = DecodeJob(rx.slot, rx.ue, job.nb)
    BY KeyFacts DEF PipeInv, DecodeInv, LiveJob, RxKey
  <2>3. Of("ul", Queue' \cup (running' \ abortFlag')) = {}
    BY <1>1, <1>3, <2>2 DEF Of, Without
  <2>4. \A job \in abortFlag' : OldJob(job)'
    <3> SUFFICES ASSUME NEW job \in abortFlag \cup marked PROVE OldJob(job)'
      BY <1>1
    <3>1. CASE job \in abortFlag
      BY <1>1, <1>5, <1>11, <3>1 DEF PipeInv, DecodeInv, OldJob
    <3>2. CASE job \in marked /\ job \notin abortFlag
      <4>1. job.key = RxKey /\ job = DecodeJob(rx.slot, rx.ue, job.nb)
        BY <1>7, <2>2, <3>2 DEF Of
      <4>2. job.key[2] = rx.slot /\ job.key[3] = rx.ue
        BY <4>1, KeyFacts DEF RxKey
      <4> QED BY <1>5, <1>11, <4>1, <4>2 DEF OldJob
    <3> QED BY <3>1, <3>2
  <2>5. \A i \in DOMAIN respDecode :
          DecodeJob(rx'.slot, rx'.ue, respDecode[i].nb) \notin Queue' \cup (running' \ abortFlag')
    BY <2>3, KindFacts DEF Of
  <2> QED BY <1>1, <1>5, <1>11, <2>1, <2>3, <2>4, <2>5 DEF PipeInv, DecodeInv, Decoding
<1> QED BY <1>8, <1>9, <1>10, <1>12, <1>13 DEF PipeInv

\* The answers of the block are deleted.
LEMMA AbortResponsesStep ==
  ASSUME PipeInv, abortResponses
  PROVE  PipeInv'
<1> DEFINE n == rx.nb + NbDeleted(respDecode, RxKey)
           d == rx.nbDecode - n
           r == [rx EXCEPT !.nb = n, !.nbDecode = @ - n, !.processedSegments = Blocks]
<1>1. /\ rx.pc = "abortResp" /\ rx' = AfterDecode(r)
      /\ respDecode' = Kept(respDecode, RxKey) /\ nr_fill_indication(FALSE, rx.copied)
      /\ UNCHANGED <<incomingFifo, running, abortFlag, nf, tx, L1_tx_free, L1_tx_filled, L1_tx_out, ruSlot, resp_L1, reorder, sent>>
  BY DEF abortResponses, Rx, pool, downlink, txQueues
<1>2. TypeInv /\ rx.slot \in Nat /\ rx.ue \in Nat \ {0} /\ rx.nbDecode \in Int /\ rx.nb \in Nat /\ rx.copied \in SUBSET Nat
  BY RxType DEF PipeInv
<1>3. respDecode' = <<>> /\ NbDeleted(respDecode, RxKey) = Len(respDecode) /\ Len(respDecode) \in Nat
  BY <1>1, AnswersDistinct, AbortAll
<1>4. n \in Nat /\ d \in Int
  <2>1. NbDeleted(respDecode, RxKey) \in Nat
    BY <1>3
  <2>2. n \in Nat
    BY <1>2, <2>1
  <2> HIDE DEF n
  <2> QED BY <1>2, <2>2
<1>5. rx.slot \in Slots /\ rx.ue \in DOMAIN Plan[rx.slot].ul /\ Blocks # 0
  BY <1>1 DEF PipeInv, RxInv, DecodeInv, ProgressInv, Decoding
<1>6. Blocks \in Nat \ {0}
  BY <1>5, PlanFacts DEF Blocks
<1>7. r = RxFields("abortResp", rx.slot, rx.ue, d, Blocks, n, rx.copied) /\ r.nbDecode = d
  <2>1. rx = RxFields("abortResp", rx.slot, rx.ue, rx.nbDecode, rx.processedSegments, rx.nb, rx.copied)
    BY <1>1, <1>2, RxType
  <2> DEFINE rr == r
  <2>2. rr = [rx EXCEPT !.nb = n, !.nbDecode = d, !.processedSegments = Blocks]
    BY <2>1 DEF RxFields
  <2> HIDE DEF rr, n, d
  <2>3. rr = RxFields("abortResp", rx.slot, rx.ue, d, Blocks, n, rx.copied)
    BY <1>1, <1>2, <2>2, RxAborted
  <2>4. rr.nbDecode = d
    BY <2>3 DEF RxFields
  <2> QED BY <2>3, <2>4 DEF rr
<1> HIDE DEF r, n, d
<1>8. Queue' = Queue /\ PoolInv'
  BY <1>1 DEF Queue, PipeInv, PoolInv
<1>9. ~Stuck
  BY <1>1 DEF Stuck
<1>10. Of("ul", Queue' \cup (running' \ abortFlag')) = {}
  BY <1>1, <1>8 DEF PipeInv, DecodeInv, LiveJob
<1>11. CASE d > 0
  <2>1. /\ rx' \in RxState /\ rx'.pc = "pull" /\ rx'.slot = rx.slot /\ rx'.ue = rx.ue
        /\ rx'.processedSegments = Blocks
    <3>1. rx' = [r EXCEPT !.pc = "pull"]
      BY <1>1, <1>7, <1>11 DEF AfterDecode
    <3>2. rx' = RxFields("pull", rx.slot, rx.ue, d, Blocks, n, rx.copied)
      BY <1>7, <3>1 DEF RxFields
    <3> HIDE DEF Blocks
    <3> QED BY <1>2, <1>4, <1>6, <3>2 DEF RxFields, RxState
  <2>2. Blocks' = Blocks /\ RxKey' = RxKey
    BY <2>1 DEF Blocks, RxKey
  <2>3. Stuck'
    BY <1>6, <2>1, <2>2 DEF Stuck
  <2>4. IndicationInv' /\ indications' \in Seq([slot : Nat, ue : Nat, ack : BOOLEAN, copied : SUBSET Nat])
    BY <1>1, <1>2, <1>9, <2>1, <2>3, IndicateStep DEF PipeInv
  <2>5. TypeInv'
    BY <1>1, <1>2, <1>3, <2>1, <2>4, SMTT(30) DEF TypeInv, Slots
  <2>6. RxInv' /\ TxInv' /\ OrderInv' /\ CodingInv'
    <3>1. SamePhase
      BY <1>1, <2>1 DEF SamePhase
    <3> QED BY <1>1, <1>8, <2>1, <3>1, RxQuiet
  <2>7. DecodeInv'
    <3>1. ProgressInv'
      BY <1>3, <1>5, <2>1, <2>2, <2>3 DEF ProgressInv
    <3>2. \A job \in abortFlag' : OldJob(job)'
      BY <1>1, <2>1, <2>2, <2>3 DEF PipeInv, DecodeInv, OldJob
    <3>3. DOMAIN respDecode' = {}
      BY <1>3
    <3>4. \A nb : ~Awaited(nb)'
      BY <1>10, <3>3, KindFacts DEF Awaited, Of
    <3> QED BY <1>10, <3>1, <3>2, <3>3, <3>4 DEF DecodeInv
  <2> QED BY <1>8, <2>4, <2>5, <2>6, <2>7 DEF PipeInv
<1>12. CASE ~(d > 0)
  <2>1. rx' \in RxState /\ rx'.pc = "detect" /\ rx'.slot = rx.slot /\ rx'.ue = rx.ue + 1
    <3>1. rx' = [r EXCEPT !.pc = "detect", !.ue = @ + 1]
      BY <1>1, <1>7, <1>12 DEF AfterDecode
    <3>2. rx' = RxFields("detect", rx.slot, rx.ue + 1, d, Blocks, n, rx.copied)
      BY <1>7, <3>1 DEF RxFields
    <3> HIDE DEF Blocks
    <3> QED BY <1>2, <1>4, <1>6, <3>2 DEF RxFields, RxState
  <2>2. IndicationInv' /\ indications' \in Seq([slot : Nat, ue : Nat, ack : BOOLEAN, copied : SUBSET Nat])
    BY <1>1, <1>2, <1>9, <2>1, IndicateStep DEF PipeInv
  <2>3. TypeInv'
    BY <1>1, <1>2, <1>3, <2>1, <2>2, SMTT(30) DEF TypeInv, Slots
  <2>4. RxInv' /\ TxInv' /\ OrderInv' /\ CodingInv'
    <3>1. SamePhase
      BY <1>1, <2>1 DEF SamePhase
    <3> QED BY <1>1, <1>8, <2>1, <3>1, RxQuiet
  <2>5. DecodeInv'
    <3>1. rx'.ue \in Nat /\ rx'.ue >= rx.ue /\ rx'.ue > rx.ue
      BY <1>2, <2>1
    <3>2. rx'.pc \notin Decoding
      BY <2>1 DEF Decoding
    <3> QED BY <1>1, <1>3, <1>10, <2>1, <3>1, <3>2, DecodeDone DEF PipeInv
  <2> QED BY <1>8, <2>2, <2>3, <2>4, <2>5 DEF PipeInv
<1> QED BY <1>11, <1>12

\* There are finitely many slots.
LEMMA AssignedFinite ==
  ASSUME NEW S, S \subseteq Slots
  PROVE  IsFiniteSet(S) /\ Cardinality(S) \in Nat
<1>1. IsFiniteSet(Slots)
  <2>1. PICK n : n = Len(Plan)
    OBVIOUS
  <2>2. n \in Int /\ 1 \in Int
    BY <2>1, PlanFacts
  <2>3. IsFiniteSet(1 .. n)
    BY <2>2, FS_Interval
  <2> QED BY <2>1, <2>3 DEF Slots
<1> QED BY <1>1, FS_Subset, FS_CardinalityType

\* A tx message is taken for a slot.
LEMMA TakeMessage ==
  ASSUME PipeInv, NEW s \in Slots, s \notin Assigned, s \notin ToSet(sent), Assigned' = Assigned \cup {s},
         L1_tx_free > 0, L1_tx_free' = L1_tx_free - 1, UNCHANGED <<sent, reorder>>
  PROVE  OrderInv'
<1> DEFINE A == Assigned \ ToSet(sent)
           B == Assigned' \ ToSet(sent')
<1>1. B = A \cup {s} /\ s \notin A
  OBVIOUS
<1>2. IsFiniteSet(A)
  BY AssignedFinite DEF Assigned, TxSlots
<1>3. Cardinality(B) = Cardinality(A) + 1 /\ Cardinality(A) \in Nat
  BY <1>1, <1>2, FS_AddElement, FS_CardinalityType
<1>4. L1_tx_free \in Nat
  BY DEF PipeInv, TypeInv
<1> HIDE DEF A, B
<1>5. L1_tx_free + Cardinality(A) = TxMessages => L1_tx_free' + Cardinality(B) = TxMessages
  BY <1>3, <1>4 DEF TxMessages
<1> USE DEF A, B
<1>6. StartedInOrder' = StartedInOrder /\ TransmittedInOrder' = TransmittedInOrder
  BY DEF StartedInOrder, TransmittedInOrder, TxSlots, Slots
<1> QED BY <1>5, <1>6 DEF PipeInv, OrderInv, NextTxSlot, TxMessages

\* The scheduler assigns a transmission message to the slot.
LEMMA ScheduleStep ==
  ASSUME PipeInv, nr_schedule_response
  PROVE  PipeInv'
<1>1. /\ rx.pc = "detect" /\ rx.ue \notin DOMAIN Plan[rx.slot].ul /\ rx' = [rx EXCEPT !.pc = "launch"]
      /\ IF Plan[rx.slot].downlink
         THEN L1_tx_free > 0 /\ L1_tx_free' = L1_tx_free - 1 /\ L1_tx_filled' = Append(L1_tx_filled, rx.slot)
         ELSE UNCHANGED <<L1_tx_free, L1_tx_filled>>
      /\ UNCHANGED <<incomingFifo, running, abortFlag, respDecode, indications, nf, tx, L1_tx_out, ruSlot, resp_L1, reorder, sent>>
  BY DEF nr_schedule_response, Rx, pool, downlink
<1>2. TypeInv /\ rx.slot \in Nat /\ rx.ue \in Nat \ {0} /\ rx.slot \in Slots
  BY <1>1, RxType DEF PipeInv, RxInv
<1>3. rx' \in RxState /\ rx'.pc = "launch" /\ rx'.slot = rx.slot /\ rx'.ue = rx.ue
  <2>1. rx' = RxFields("launch", rx.slot, rx.ue, rx.nbDecode, rx.processedSegments, rx.nb, rx.copied)
    BY <1>1, <1>2, RxType DEF RxFields
  <2> QED BY <1>2, <2>1, RxType DEF RxFields, RxState
<1>4. Queue' = Queue /\ PoolInv'
  BY <1>1 DEF Queue, PipeInv, PoolInv
<1>5. L1_tx_filled = <<>> /\ Plan[rx.slot].downlink \in BOOLEAN
  BY <1>1, <1>2, PlanFacts DEF PipeInv, TxInv
<1>6. L1_tx_filled' = IF Plan[rx.slot].downlink THEN <<rx.slot>> ELSE <<>>
  BY <1>1, <1>5
<1>7. TypeInv'
  <2>1. L1_tx_filled' \in Seq(Nat)
    BY <1>2, <1>6
  <2>2. L1_tx_free' \in Nat
    BY <1>1, <1>2, SMTT(30) DEF TypeInv
  <2> QED BY <1>1, <1>2, <1>3, <2>1, <2>2 DEF TypeInv, Slots
<1>8. RxInv'
  BY <1>1, <1>3, <1>4, RxFrame DEF PipeInv
<1>9. DecodeInv'
  <2>1. Of("ul", Queue' \cup (running' \ abortFlag')) = {} /\ respDecode' = <<>>
    BY <1>1, <1>4, NothingAwaited DEF Decoding
  <2>2. rx'.ue > Len(Plan[rx'.slot].ul)
    <3>1. Len(Plan[rx.slot].ul) \in Nat /\ DOMAIN Plan[rx.slot].ul = 1 .. Len(Plan[rx.slot].ul)
      BY <1>2, PlanFacts
    <3> QED BY <1>1, <1>2, <1>3, <3>1
  <2>3. rx'.ue \in Nat /\ rx'.ue >= rx.ue /\ ~Stuck /\ rx'.pc \notin Decoding
    BY <1>1, <1>2, <1>3 DEF Stuck, Decoding
  <2> QED BY <1>1, <1>3, <2>1, <2>2, <2>3, DecodeDone DEF PipeInv
<1>10. IndicationInv'
  BY <1>1, <1>3, IndicationFrame DEF PipeInv, Stuck
<1>11. Launched' = Launched /\ rx.slot \notin Launched /\ rx.slot \notin Assigned
       /\ Assigned' = IF Plan[rx.slot].downlink THEN Assigned \cup {rx.slot} ELSE Assigned
  <2>1. Launched' = Launched /\ rx.slot \notin Launched
    BY <1>1, <1>2, <1>3 DEF Launched, TxSlots, Slots
  <2>2. rx.slot \notin Assigned /\ Assigned = Launched
    BY <1>1, <2>1 DEF Assigned, Launched
  <2>3. Plan[rx.slot].downlink => rx.slot \in TxSlots
    BY <1>2 DEF TxSlots
  <2>4. TxSlots' = TxSlots
    BY DEF TxSlots, Slots
  <2>5. Launched \subseteq TxSlots
    BY DEF Launched
  <2> QED BY <1>3, <2>1, <2>2, <2>3, <2>4, <2>5 DEF Assigned
<1>12. TxInv'
  BY <1>1, <1>3, <1>4, <1>6, <1>11 DEF PipeInv, TxInv
<1>13. CodingInv'
  BY <1>1, <1>4, <1>11, CodingFrame DEF PipeInv
<1>14. OrderInv'
  <2>1. rx.slot \notin ToSet(sent)
    BY <1>11 DEF PipeInv, TxInv
  <2>2. CASE Plan[rx.slot].downlink
    BY <1>1, <1>2, <1>11, <2>1, <2>2, TakeMessage
  <2>3. CASE ~Plan[rx.slot].downlink
    BY <1>1, <1>11, <2>3, OrderFrame DEF PipeInv
  <2> QED BY <2>2, <2>3
<1> QED BY <1>4, <1>7, <1>8, <1>9, <1>10, <1>12, <1>13, <1>14 DEF PipeInv

\* The rx job goes from "launch" to "done": what both ways of doing so have in common.
LEMMA LaunchCommon ==
  ASSUME PipeInv, rx.pc = "launch", rx' = [rx EXCEPT !.pc = "done"],
         UNCHANGED <<running, abortFlag, respDecode, indications, ruSlot, resp_L1>>,
         \A k \in {"rx", "ul"} : Of(k, Queue') \subseteq Of(k, Queue)
  PROVE  /\ rx' \in RxState /\ rx'.pc = "done" /\ rx'.slot = rx.slot /\ rx'.ue = rx.ue
         /\ RxInv' /\ DecodeInv' /\ IndicationInv'
<1>1. TypeInv /\ rx.ue \in Nat
  BY RxType DEF PipeInv
<1>2. rx' \in RxState /\ rx'.pc = "done" /\ rx'.slot = rx.slot /\ rx'.ue = rx.ue
  <2>1. rx' = RxFields("done", rx.slot, rx.ue, rx.nbDecode, rx.processedSegments, rx.nb, rx.copied)
    BY <1>1, RxType DEF RxFields
  <2> QED BY <1>1, <2>1, RxType DEF RxFields, RxState
<1>3. RxInv'
  BY <1>2, RxFrame DEF PipeInv
<1>4. DecodeInv'
  <2>1. Of("ul", Queue \cup (running \ abortFlag)) = {} /\ respDecode' = <<>>
    BY NothingAwaited DEF Decoding
  <2>2. Of("ul", Queue' \cup (running' \ abortFlag')) = {}
    BY <2>1 DEF Of
  <2>3. rx.ue > Len(Plan[rx.slot].ul)
    BY DEF PipeInv, DecodeInv, ProgressInv
  <2>4. rx'.ue \in Nat /\ rx'.ue >= rx.ue /\ ~Stuck /\ rx'.pc \notin Decoding
    BY <1>1, <1>2 DEF Stuck, Decoding
  <2> QED BY <1>2, <2>1, <2>2, <2>3, <2>4, DecodeDone DEF PipeInv
<1>5. IndicationInv'
  BY <1>2, IndicationFrame DEF PipeInv, Stuck
<1> QED BY <1>2, <1>3, <1>4, <1>5

\* The transmission of the slot is launched.
LEMMA LaunchTxStep ==
  ASSUME PipeInv, LaunchTx
  PROVE  PipeInv'
<1> DEFINE msg == TxJob(rx.slot)
<1>1. /\ rx.pc = "launch" /\ Plan[rx.slot].downlink /\ rx' = [rx EXCEPT !.pc = "done"]
      /\ incomingFifo' = pushNotifiedFIFO(incomingFifo, TxJob(Head(L1_tx_filled)))
      /\ L1_tx_filled' = Tail(L1_tx_filled)
      /\ UNCHANGED <<running, abortFlag, respDecode, indications, nf, tx, L1_tx_free, L1_tx_out, ruSlot, resp_L1, reorder, sent>>
  BY DEF LaunchTx, Rx, downlink
<1>2. TypeInv /\ rx.slot \in Nat /\ rx.slot \in Slots /\ rx.slot \in TxSlots
  BY <1>1, RxType DEF PipeInv, RxInv, TxSlots
<1>3. L1_tx_filled = <<rx.slot>>
  BY <1>1 DEF PipeInv, TxInv
<1>4. Head(L1_tx_filled) = rx.slot /\ L1_tx_filled' = <<>>
  BY <1>1, <1>3
<1>5. msg \in Jobs /\ Kind(msg) = "tx" /\ SlotOf(msg) = rx.slot
  BY <1>2, JobFacts
<1>6. rx.slot \notin Launched
  BY <1>1, <1>2 DEF Launched
<1>7. msg \notin Queue \cup running
  BY <1>5, <1>6 DEF PipeInv, TxInv, Of
<1> HIDE DEF msg
<1>8. FifoOK(incomingFifo, Jobs)' /\ PoolInv' /\ (Queue' = Queue \/ Queue' = Queue \cup {msg})
  BY <1>1, <1>2, <1>4, <1>5, <1>7, PushPool DEF PipeInv, msg
<1>9. \A k \in {"rx", "ul", "dl"} : Of(k, Queue') \subseteq Of(k, Queue)
  BY <1>5, <1>8 DEF Of
<1>10. rx' \in RxState /\ rx'.pc = "done" /\ rx'.slot = rx.slot /\ RxInv' /\ DecodeInv' /\ IndicationInv'
  BY <1>1, <1>9, LaunchCommon
<1>11. TypeInv'
  <2>1. L1_tx_filled' \in Seq(Nat)
    BY <1>4
  <2> QED BY <1>1, <1>2, <1>8, <1>10, <2>1 DEF TypeInv, FifoOK, Slots
<1>12. Launched' = Launched \cup {rx.slot} /\ Assigned' = Assigned
  <2>1. Launched' = Launched \cup {rx.slot} /\ TxSlots' = TxSlots
    BY <1>1, <1>2, <1>10 DEF Launched, TxSlots, Slots
  <2>2. Launched \subseteq TxSlots
    BY DEF Launched
  <2> QED BY <1>1, <1>2, <1>10, <2>1, <2>2 DEF Assigned
<1>13. TxInv'
  <2>1. rx.slot \notin ToSet(L1_tx_out) \cup ToSet(sent) /\ rx.slot # reorder.resL1Reserve
    BY <1>2, <1>6, PlanFacts DEF PipeInv, TxInv, NoSlot
  <2>2. \A job \in Of("tx", Queue' \cup running') : job \in Of("tx", Queue \cup running) \/ job = msg
    BY <1>1, <1>8 DEF Of
  <2>3. \A job \in Of("tx", Queue' \cup running') :
          job = TxJob(SlotOf(job)) /\ SlotOf(job) \in Launched' \ (ToSet(L1_tx_out) \cup {reorder.resL1Reserve} \cup ToSet(sent))
    BY <1>5, <1>12, <2>1, <2>2 DEF PipeInv, TxInv, msg
  <2> QED BY <1>1, <1>4, <1>10, <1>12, <2>3 DEF PipeInv, TxInv
<1>14. OrderInv' /\ CodingInv'
  <2>1. Of("dl", Queue' \cup running') \subseteq Of("dl", Queue \cup running)
    BY <1>1, <1>9 DEF Of
  <2> QED BY <1>1, <1>12, <2>1, OrderFrame, CodingFrame DEF PipeInv
<1> QED BY <1>8, <1>10, <1>11, <1>13, <1>14 DEF PipeInv

\* The slot has no downlink.
LEMMA LaunchEmptyStep ==
  ASSUME PipeInv, LaunchEmpty
  PROVE  PipeInv'
<1>1. /\ rx.pc = "launch" /\ ~Plan[rx.slot].downlink /\ rx' = [rx EXCEPT !.pc = "done"]
      /\ IF ContinuousTx
         THEN L1_tx_free > 0 /\ L1_tx_free' = L1_tx_free - 1 /\ L1_tx_out' = Append(L1_tx_out, rx.slot)
         ELSE UNCHANGED <<L1_tx_free, L1_tx_out>>
      /\ UNCHANGED <<incomingFifo, running, abortFlag, respDecode, indications, nf, tx, L1_tx_filled, ruSlot, resp_L1, reorder, sent>>
  BY DEF LaunchEmpty, Rx, pool, downlink
<1>2. TypeInv /\ rx.slot \in Nat /\ rx.slot \in Slots
  BY <1>1, RxType DEF PipeInv, RxInv
<1>3. Queue' = Queue /\ PoolInv'
  BY <1>1 DEF Queue, PipeInv, PoolInv
<1>4. rx' \in RxState /\ rx'.pc = "done" /\ rx'.slot = rx.slot /\ RxInv' /\ DecodeInv' /\ IndicationInv'
  BY <1>1, <1>3, LaunchCommon
<1>5. rx.slot \notin Launched /\ rx.slot \notin Assigned /\ rx.slot \notin ToSet(sent) \cup ToSet(L1_tx_out)
      /\ rx.slot # reorder.resL1Reserve
  <2>1. rx.slot \notin Launched
    BY <1>1, <1>2 DEF Launched
  <2> QED BY <1>1, <1>2, <2>1, PlanFacts DEF PipeInv, TxInv, Assigned, NoSlot
<1>6. L1_tx_filled = <<>>
  BY <1>1 DEF PipeInv, TxInv
<1>7. TxSlots' = TxSlots /\ Launched \subseteq TxSlots /\ (rx.slot \in TxSlots <=> ContinuousTx)
  BY <1>1, <1>2 DEF TxSlots, Slots, Launched
<1>8. Launched' = IF ContinuousTx THEN Launched \cup {rx.slot} ELSE Launched
  BY <1>1, <1>2, <1>4, <1>7 DEF Launched
<1>9. Assigned = Launched /\ Assigned' = Launched'
  <2>1. Assigned = Launched
    BY <1>1, <1>7 DEF Assigned
  <2>2. Assigned' = Launched'
    BY <1>4, <1>7, <1>8 DEF Assigned
  <2> QED BY <2>1, <2>2
<1>10. L1_tx_out \in Seq(Nat) /\ Distinct(L1_tx_out)
  BY DEF PipeInv, TypeInv, TxInv
<1>11. /\ Append(L1_tx_out, rx.slot) \in Seq(Nat) /\ Distinct(Append(L1_tx_out, rx.slot))
       /\ ToSet(Append(L1_tx_out, rx.slot)) = ToSet(L1_tx_out) \cup {rx.slot}
  BY <1>2, <1>5, <1>10, AppendSet
<1>12. ContinuousTx \in BOOLEAN
  BY PoolAssumption
<1>13. CASE ContinuousTx
  <2>1. TypeInv'
    <3>1. L1_tx_free' \in Nat
      BY <1>1, <1>2, <1>13 DEF TypeInv
    <3> QED BY <1>1, <1>2, <1>4, <1>11, <1>13, <3>1 DEF TypeInv, Slots
  <2>2. TxInv'
    <3>1. \A job \in Of("tx", Queue \cup running) : SlotOf(job) # rx.slot
      BY <1>5 DEF PipeInv, TxInv
    <3>2. ToSet(L1_tx_out') = ToSet(L1_tx_out) \cup {rx.slot} /\ Distinct(L1_tx_out')
      BY <1>1, <1>11, <1>13
    <3> QED BY <1>1, <1>3, <1>4, <1>5, <1>6, <1>8, <1>13, <3>1, <3>2 DEF PipeInv, TxInv
  <2>3. OrderInv'
    BY <1>1, <1>2, <1>5, <1>8, <1>9, <1>13, TakeMessage
  <2>4. CodingInv'
    BY <1>1, <1>3, <1>8, <1>13, CodingFrame DEF PipeInv
  <2> QED BY <1>3, <1>4, <2>1, <2>2, <2>3, <2>4 DEF PipeInv
<1>14. CASE ~ContinuousTx
  <2>1. TypeInv'
    BY <1>1, <1>2, <1>4, <1>14 DEF TypeInv, Slots
  <2>2. TxInv'
    BY <1>1, <1>3, <1>4, <1>6, <1>8, <1>14 DEF PipeInv, TxInv
  <2>3. OrderInv' /\ CodingInv'
    BY <1>1, <1>3, <1>8, <1>9, <1>14, OrderFrame, CodingFrame DEF PipeInv
  <2> QED BY <1>3, <1>4, <2>1, <2>2, <2>3 DEF PipeInv
<1> QED BY <1>12, <1>13, <1>14

\* The receiving job ends.
LEMMA FinishRxStep ==
  ASSUME PipeInv, NEW job \in running, FinishRx(job)
  PROVE  PipeInv'
<1>1. /\ rx.pc = "done" /\ job = RxJob(rx.slot) /\ resp_L1' = (job \notin abortFlag)
      /\ rx' = [rx EXCEPT !.pc = "idle"] /\ Idle(job)
      /\ UNCHANGED <<respDecode, indications, nf, tx, L1_tx_free, L1_tx_filled, L1_tx_out, ruSlot, reorder, sent>>
  BY DEF FinishRx, Rx, downlink, txQueues
<1>2. TypeInv /\ rx.ue \in Nat
  BY RxType DEF PipeInv
<1>3. rx' \in RxState /\ rx'.pc = "idle" /\ rx'.slot = rx.slot /\ rx'.ue = rx.ue
  <2>1. rx' = RxFields("idle", rx.slot, rx.ue, rx.nbDecode, rx.processedSegments, rx.nb, rx.copied)
    BY <1>1, <1>2, RxType DEF RxFields
  <2> QED BY <1>2, <2>1, RxType DEF RxFields, RxState
<1>4. Kind(job) = "rx" /\ job \notin abortFlag /\ abortFlag' = abortFlag /\ resp_L1' = TRUE
  <2>1. Kind(job) = "rx"
    BY <1>1, KindFacts
  <2> QED BY <1>1, <2>1 DEF PipeInv, PoolInv, Of, Idle
<1>5. TypeInv'
  <2>1. incomingFifo' = incomingFifo /\ running' \subseteq running /\ IsFiniteSet(running')
    BY <1>1, IdlePool
  <2> QED BY <1>1, <1>2, <1>3, <1>4, <2>1 DEF TypeInv, Slots
<1>6. PoolInv'
  BY <1>1, IdlePool
<1>7. RxInv'
  <2>1. Of("rx", running') = {}
    <3>1. running' \subseteq running /\ job \notin running'
      BY <1>1, IdlePool
    <3> QED BY <1>1, <3>1 DEF PipeInv, RxInv, Of
  <2>2. Of("rx", Queue') = {}
    <3>1. Queue' = Queue
      BY <1>1, IdlePool
    <3> QED BY <1>1, <3>1 DEF PipeInv, RxInv
  <2>3. rx.slot = ruSlot - 1
    BY <1>1 DEF PipeInv, RxInv
  <2> QED BY <1>1, <1>3, <1>4, <2>1, <2>2, <2>3 DEF RxInv
<1>8. DecodeInv'
  <2>1. Of("ul", Queue \cup (running \ abortFlag)) = {} /\ respDecode' = <<>>
    BY <1>1, NothingAwaited DEF Decoding
  <2>2. Of("ul", Queue' \cup (running' \ abortFlag')) = {}
    BY <1>1, <2>1, IdlePool
  <2>3. rx'.ue \in Nat /\ rx'.ue >= rx.ue /\ ~Stuck /\ rx'.pc \notin Decoding /\ rx.pc # "abortResp"
    BY <1>1, <1>2, <1>3 DEF Stuck, Decoding
  <2> QED BY <1>3, <1>4, <2>1, <2>2, <2>3, DecodeDone DEF PipeInv
<1>9. IndicationInv'
  BY <1>1, <1>3, IndicationFrame DEF PipeInv, Stuck
<1>10. Launched' = Launched /\ Assigned' = Assigned
  <2>1. Launched' = Launched /\ TxSlots' = TxSlots
    BY <1>1, <1>3 DEF Launched, TxSlots, Slots
  <2> QED BY <1>1, <1>3, <2>1 DEF Assigned
<1>11. TxInv'
  <2>1. Of("tx", Queue' \cup running') \subseteq Of("tx", Queue \cup running)
    BY <1>1, IdlePool
  <2> QED BY <1>1, <1>3, <1>10, <2>1 DEF PipeInv, TxInv
<1>12. OrderInv' /\ CodingInv'
  BY <1>1, <1>10, IdlePool, OrderFrame, CodingFrame DEF PipeInv
<1> QED BY <1>5, <1>6, <1>7, <1>8, <1>9, <1>11, <1>12 DEF PipeInv

\* nr_dlsch_encoding pushes a code block.
LEMMA EncodingStep ==
  ASSUME PipeInv, NEW s \in Slots, nr_dlsch_encoding(s)
  PROVE  PipeInv'
<1> DEFINE msg == CodingJob(s, tx[s].pushed)
<1>1. /\ TxJob(s) \in running /\ tx[s].pushed < Plan[s].coding
      /\ incomingFifo' = pushNotifiedFIFO(incomingFifo, msg)
      /\ tx' = [tx EXCEPT ![s] = [pushed |-> @.pushed + 1, nbJobs |-> @.nbJobs + 1]]
      /\ UNCHANGED <<running, abortFlag, respDecode, rx, indications, nf, L1_tx_free, L1_tx_filled, L1_tx_out, ruSlot, resp_L1, reorder, sent>>
  BY DEF nr_dlsch_encoding, uplink, txQueues
<1>2. TypeInv /\ s \in Nat /\ tx \in [Slots -> [pushed : Nat, nbJobs : Int]] /\ tx[s].pushed \in Nat /\ tx[s].nbJobs \in Int
  BY PlanFacts DEF PipeInv, TypeInv
<1>3. s \in Launched
  <2>1. TxJob(s) \in Of("tx", Queue \cup running) /\ SlotOf(TxJob(s)) = s
    BY <1>1, <1>2, JobFacts DEF Of
  <2> QED BY <2>1 DEF PipeInv, TxInv
<1>4. msg \in Jobs /\ Kind(msg) = "dl" /\ SlotOf(msg) = s /\ msg.nb = tx[s].pushed
  BY <1>2, JobFacts
<1>5. msg \notin Queue \cup running
  <2> SUFFICES ASSUME msg \in Queue \cup running PROVE FALSE
    OBVIOUS
  <2>1. msg.nb < tx[SlotOf(msg)].pushed
    BY <1>4 DEF PipeInv, CodingInv, Of
  <2> QED BY <1>2, <1>4, <2>1
<1>6. tx' \in [Slots -> [pushed : Nat, nbJobs : Int]] /\ tx'[s].pushed = tx[s].pushed + 1
      /\ \A t \in Slots : t # s => tx'[t] = tx[t]
  BY <1>1, <1>2
<1> HIDE DEF msg
<1>7. FifoOK(incomingFifo, Jobs)' /\ PoolInv' /\ (Queue' = Queue \/ Queue' = Queue \cup {msg})
  BY <1>1, <1>2, <1>4, <1>5, PushPool DEF PipeInv
<1>8. \A k \in {"rx", "ul", "tx"} : Of(k, Queue') = Of(k, Queue)
  BY <1>4, <1>7 DEF Of
<1>9. TypeInv'
  BY <1>1, <1>2, <1>6, <1>7 DEF TypeInv, FifoOK, Slots
<1>10. RxInv' /\ DecodeInv' /\ IndicationInv'
  <2>1. Of("ul", Queue' \cup (running' \ abortFlag')) \subseteq Of("ul", Queue \cup (running \ abortFlag))
    BY <1>1, <1>8 DEF Of
  <2> QED BY <1>1, <1>8, <2>1, RxFrame, DecodeFrame, IndicationFrame DEF PipeInv, Stuck, Blocks
<1>11. SamePhase /\ Launched' = Launched
  <2>1. SamePhase
    BY <1>1 DEF SamePhase
  <2> QED BY <2>1, PhaseFrame
<1>12. TxInv' /\ OrderInv'
  <2>1. Of("tx", Queue' \cup running') \subseteq Of("tx", Queue \cup running)
    BY <1>1, <1>8 DEF Of
  <2> QED BY <1>1, <1>11, <2>1, PhaseFrame, TxFrame, OrderFrame DEF PipeInv
<1>13. CodingInv'
  <2>1. \A t \in Slots : tx'[t].pushed <= Plan[t].coding
    <3> SUFFICES ASSUME NEW t \in Slots PROVE tx'[t].pushed <= Plan[t].coding
      OBVIOUS
    <3>1. CASE t = s
      BY <1>1, <1>2, <1>6, <3>1, PlanFacts
    <3>2. CASE t # s
      BY <1>6, <3>2 DEF PipeInv, CodingInv
    <3> QED BY <3>1, <3>2
  <2>2. ASSUME NEW job \in Of("dl", Queue' \cup running')
        PROVE  job = CodingJob(SlotOf(job), job.nb) /\ SlotOf(job) \in Launched /\ job.nb < tx'[SlotOf(job)].pushed
    <3>1. CASE job = msg
      <4>1. job.nb < tx'[s].pushed
        BY <1>2, <1>4, <1>6, <3>1
      <4> QED BY <1>3, <1>4, <3>1, <4>1 DEF msg
    <3>2. CASE job # msg
      <4>0. Queue \subseteq Jobs /\ running \subseteq Jobs
        <5>1. incomingFifo.outF \in Seq(Jobs) /\ running \subseteq Jobs
          BY <1>2 DEF TypeInv
        <5> QED BY <5>1, SeqElement DEF Queue, ToSet
      <4>1. job \in Of("dl", Queue \cup running) /\ job \in Jobs
        <5>1. job \in Of("dl", Queue \cup running)
          BY <1>1, <1>7, <3>2 DEF Of
        <5> QED BY <4>0, <5>1 DEF Of
      <4>2. job = CodingJob(SlotOf(job), job.nb) /\ SlotOf(job) \in Launched /\ job.nb < tx[SlotOf(job)].pushed /\ job.nb \in Nat
        BY <4>1 DEF PipeInv, CodingInv, Jobs
      <4>3. SlotOf(job) \in Slots
        BY <4>2 DEF Launched, TxSlots
      <4>4. CASE SlotOf(job) = s
        <5>1. job.nb < tx[s].pushed
          BY <4>2, <4>4
        <5>2. job.nb < tx[s].pushed + 1
          BY <1>2, <4>2, <5>1
        <5> QED BY <1>6, <4>2, <4>4, <5>2
      <4>5. CASE SlotOf(job) # s
        BY <1>6, <4>2, <4>3, <4>5
      <4> QED BY <4>4, <4>5
    <3> QED BY <3>1, <3>2
  <2> QED BY <1>11, <2>1, <2>2 DEF CodingInv, Slots
<1> QED BY <1>7, <1>9, <1>10, <1>12, <1>13 DEF PipeInv

\* The caller collects an answer.
LEMMA CollectStep ==
  ASSUME PipeInv, NEW s \in Slots, CollectCoding(s)
  PROVE  PipeInv'
<1>1. /\ nf[s] > 0 /\ nf' = [nf EXCEPT ![s] = @ - 1] /\ tx' = [tx EXCEPT ![s].nbJobs = @ - 1]
      /\ UNCHANGED <<incomingFifo, running, abortFlag, respDecode, rx, indications, L1_tx_free, L1_tx_filled, L1_tx_out, ruSlot, resp_L1, reorder, sent>>
  BY DEF CollectCoding, pool, uplink, txQueues
<1>2. TypeInv /\ nf \in [Slots -> Nat] /\ tx \in [Slots -> [pushed : Nat, nbJobs : Int]]
  BY DEF PipeInv, TypeInv
<1>3. nf' \in [Slots -> Nat]
  BY <1>1, <1>2
<1>4. tx' \in [Slots -> [pushed : Nat, nbJobs : Int]] /\ \A t \in Slots : tx'[t].pushed = tx[t].pushed
  BY <1>1, <1>2
<1>5. Queue' = Queue /\ PoolInv'
  BY <1>1 DEF Queue, PipeInv, PoolInv
<1>6. TypeInv'
  BY <1>1, <1>2, <1>3, <1>4 DEF TypeInv, Slots
<1>7. RxInv' /\ DecodeInv' /\ IndicationInv'
  BY <1>1, <1>5, RxFrame, DecodeFrame, IndicationFrame DEF PipeInv, Stuck, Blocks
<1>8. SamePhase
  BY <1>1 DEF SamePhase
<1>9. TxInv' /\ OrderInv' /\ Launched' = Launched
  BY <1>1, <1>5, <1>8, PhaseFrame, TxFrame, OrderFrame DEF PipeInv
<1>10. CodingInv'
  <2>1. Launched \subseteq Slots
    BY DEF Launched, TxSlots
  <2> QED BY <1>1, <1>4, <1>5, <1>9, <2>1 DEF PipeInv, CodingInv, Slots
<1> QED BY <1>5, <1>6, <1>7, <1>9, <1>10 DEF PipeInv

\* The transmission job ends.
LEMMA FinishTxStep ==
  ASSUME PipeInv, NEW job \in running, FinishTx(job)
  PROVE  PipeInv'
<1> DEFINE s == SlotOf(job)
<1>1. /\ Kind(job) = "tx" /\ Idle(job)
      /\ L1_tx_out' = IF job \in abortFlag THEN L1_tx_out ELSE Append(L1_tx_out, s)
      /\ UNCHANGED <<respDecode, rx, indications, nf, tx, L1_tx_free, L1_tx_filled, ruSlot, resp_L1, reorder, sent>>
  BY DEF FinishTx, uplink, downlink
<1>2. job \notin abortFlag /\ TypeInv
  BY <1>1 DEF PipeInv, PoolInv, Of
<1>3. job = TxJob(s) /\ s \in Launched \ (ToSet(L1_tx_out) \cup {reorder.resL1Reserve} \cup ToSet(sent))
  BY <1>1 DEF PipeInv, TxInv, Of
<1>4. s \in Nat
  BY <1>3, PlanFacts DEF Launched, TxSlots
<1> HIDE DEF s
<1>5. L1_tx_out' \in Seq(Nat) /\ Distinct(L1_tx_out') /\ ToSet(L1_tx_out') = ToSet(L1_tx_out) \cup {s}
  <2>1. L1_tx_out' = Append(L1_tx_out, s)
    BY <1>1, <1>2
  <2>2. L1_tx_out \in Seq(Nat) /\ Distinct(L1_tx_out) /\ s \notin ToSet(L1_tx_out)
    BY <1>3 DEF PipeInv, TypeInv, TxInv
  <2>3. Append(L1_tx_out, s) \in Seq(Nat) /\ Distinct(Append(L1_tx_out, s)) /\ ToSet(Append(L1_tx_out, s)) = ToSet(L1_tx_out) \cup {s}
    BY <1>4, <2>2, AppendSet
  <2> QED BY <2>1, <2>3
<1>6. TypeInv'
  <2>1. incomingFifo' = incomingFifo /\ running' \subseteq running /\ IsFiniteSet(running')
    BY <1>1, IdlePool
  <2> QED BY <1>1, <1>2, <1>5, <2>1 DEF TypeInv, Slots
<1>7. PoolInv' /\ RxInv' /\ DecodeInv'
  BY <1>1, IdlePool, RxFrame, DecodeFrame DEF PipeInv
<1>8. SamePhase
  BY <1>1 DEF SamePhase
<1>9. OrderInv' /\ CodingInv' /\ IndicationInv' /\ Launched' = Launched
  BY <1>1, <1>8, IdlePool, PhaseFrame, OrderFrame, CodingFrame, IndicationFrame DEF PipeInv, Stuck, Blocks
<1>10. TxInv'
  <2>1. Of("tx", Queue' \cup running') \subseteq Of("tx", Queue \cup running) \ {job}
    <3>1. Queue' = Queue /\ running' \subseteq running /\ job \notin running' /\ job \notin Queue
      BY <1>1, IdlePool DEF PipeInv, PoolInv
    <3> QED BY <3>1 DEF Of
  <2>2. \A j \in Of("tx", Queue' \cup running') : SlotOf(j) # s
    BY <1>3, <2>1 DEF PipeInv, TxInv
  <2> QED BY <1>1, <1>3, <1>5, <1>9, <2>1, <2>2 DEF PipeInv, TxInv
<1> QED BY <1>6, <1>7, <1>9, <1>10 DEF PipeInv

---------------------------------------------------------------------------
(* The reorder thread.                                                     *)

\* The next slot after l is the first one to transmit that follows it.
LEMMA NextFacts ==
  ASSUME NEW l \in Slots, NEW x \in TxSlots, x > l
  PROVE  NextTxSlot(l) \in TxSlots /\ NextTxSlot(l) > l /\ \A t \in TxSlots : t > l => NextTxSlot(l) <= t
<1>1. l \in Nat /\ x \in Nat /\ Len(Plan) \in Nat /\ x <= Len(Plan) /\ TxSlots \subseteq Slots /\ Slots \subseteq Nat
  BY PlanFacts DEF TxSlots, Slots
<1>2. CASE ContinuousTx
  <2>1. NextTxSlot(l) = l + 1 /\ TxSlots = Slots
    BY <1>2 DEF NextTxSlot, TxSlots
  <2>2. l + 1 \in Slots
    BY <1>1 DEF Slots
  <2> QED BY <1>1, <2>1, <2>2
<1>3. CASE ~ContinuousTx
  <2> DEFINE M == {t \in l + 1 .. Len(Plan) : Plan[t].downlink} \union {Len(Plan) + 1}
  <2>1. M \subseteq Nat /\ M # {} /\ NextTxSlot(l) = Min(M)
    BY <1>1, <1>3 DEF NextTxSlot
  <2>2. \A t \in TxSlots : t > l => t \in M
    BY <1>1, <1>3 DEF TxSlots, Slots
  <2>3. \A t \in M : t <= Len(Plan) => t \in TxSlots /\ t > l
    BY <1>1 DEF TxSlots, Slots
  <2> HIDE DEF M
  <2>4. Min(M) \in M /\ \A t \in M : Min(M) <= t
    BY <2>1, MinNat
  <2>5. Min(M) <= Len(Plan)
    <3>1. x \in M /\ Min(M) \in Nat /\ Min(M) <= x
      BY <2>1, <2>2, <2>4
    <3> QED BY <1>1, <3>1
  <2> QED BY <2>1, <2>2, <2>3, <2>4, <2>5
<1> QED BY <1>2, <1>3

\* Slots are given a tx message in order.
LEMMA AssignedClosed ==
  ASSUME PipeInv
  PROVE  /\ Launched \subseteq Assigned /\ Assigned \subseteq TxSlots /\ TxSlots \subseteq Slots /\ Slots \subseteq Nat \ {0}
         /\ \A s \in Assigned : \A t \in TxSlots : t < s => t \in Assigned
<1>1. Launched \subseteq Assigned /\ Assigned \subseteq TxSlots /\ TxSlots \subseteq Slots /\ Slots \subseteq Nat \ {0}
  BY PlanFacts DEF Launched, Assigned, TxSlots
<1>2. rx.slot \in Nat
  BY RxType DEF PipeInv
<1>3. ASSUME NEW s \in Assigned, NEW t \in TxSlots, t < s PROVE t \in Assigned
  <2>1. s <= rx.slot /\ s \in Nat /\ t \in Nat
    BY <1>1, <1>2 DEF Assigned, Launched
  <2>2. t < rx.slot
    BY <1>2, <1>3, <2>1
  <2> QED BY <2>2 DEF Assigned, Launched
<1> QED BY <1>1, <1>3

\* When slots are sent in order and one has its message, so has the next one.
LEMMA NextAssigned ==
  ASSUME PipeInv, NEW q \in Seq(Nat), q # <<>>, ToSet(q) = {s \in TxSlots : s <= Last(q)}, Last(q) \in Slots,
         NEW x \in Assigned \ ToSet(q)
  PROVE  NextTxSlot(Last(q)) \in Assigned \ ToSet(q)
<1>1. x \in TxSlots /\ x \in Nat /\ Last(q) \in Nat
  BY AssignedClosed
<1>2. x > Last(q)
  BY <1>1
<1>3. NextTxSlot(Last(q)) \in TxSlots /\ NextTxSlot(Last(q)) > Last(q) /\ NextTxSlot(Last(q)) <= x
  BY <1>1, <1>2, NextFacts
<1>4. NextTxSlot(Last(q)) \in Nat
  BY <1>3, AssignedClosed
<1>5. NextTxSlot(Last(q)) \in Assigned
  BY <1>1, <1>3, <1>4, AssignedClosed
<1> QED BY <1>1, <1>3, <1>4, <1>5

\* The slot sent last was launched.
LEMMA LastSent ==
  ASSUME PipeInv, sent # <<>>
  PROVE  Last(sent) \in Launched /\ Last(sent) \in ToSet(sent) /\ Last(sent) = sent[Len(sent)] /\ Len(sent) \in Nat \ {0}
<1>1. sent \in Seq(Nat)
  BY DEF PipeInv, TypeInv
<1>2. Len(sent) \in Nat \ {0} /\ DOMAIN sent = 1 .. Len(sent) /\ Last(sent) = sent[Len(sent)]
  BY <1>1 DEF Last
<1>3. Last(sent) \in ToSet(sent)
  <2>1. Len(sent) \in DOMAIN sent
    BY <1>2
  <2> QED BY <1>2, <2>1 DEF ToSet
<1> QED BY <1>2, <1>3 DEF PipeInv, TxInv

\* The next slot is sent and its message is free again.
LEMMA SendNext ==
  ASSUME PipeInv, StartedInOrder', NEW s \in Launched \ ToSet(sent), sent' = Append(sent, s),
         L1_tx_free' = L1_tx_free + 1, rx' = rx, sent # <<>> => s = NextTxSlot(Last(sent))
  PROVE  /\ StartedInOrder /\ TransmittedInOrder' /\ Last(sent') = s /\ sent' # <<>>
         /\ ToSet(sent') = ToSet(sent) \cup {s} /\ Assigned' = Assigned /\ Launched' = Launched
         /\ L1_tx_free' + Cardinality(Assigned' \ ToSet(sent')) = TxMessages
<1>1. sent \in Seq(Nat) /\ L1_tx_free \in Nat /\ s \in TxSlots /\ s \in Nat
  BY AssignedClosed DEF PipeInv, TypeInv
<1>2. /\ Append(sent, s) \in Seq(Nat) /\ ToSet(Append(sent, s)) = ToSet(sent) \cup {s}
      /\ Append(sent, s) # <<>> /\ Last(Append(sent, s)) = s
  BY <1>1, AppendSet
<1>3. sent' # <<>> /\ ToSet(sent') = ToSet(sent) \cup {s} /\ Last(sent') = s
  BY <1>2
<1>4. Len(sent) \in Nat /\ Len(sent') = Len(sent) + 1 /\ sent'[Len(sent) + 1] = s /\ \A i \in 1 .. Len(sent) : sent'[i] = sent[i]
  BY <1>1
<1>5. Assigned' = Assigned /\ Launched' = Launched /\ TxSlots' = TxSlots
  BY DEF Assigned, Launched, TxSlots, Slots
<1>6. sent'[1] = Min(TxSlots)
  BY <1>3, <1>5 DEF StartedInOrder
<1>7. StartedInOrder
  <2>1. sent # <<>> => 1 \in 1 .. Len(sent)
    BY <1>1
  <2> QED BY <1>4, <1>6, <2>1 DEF StartedInOrder
<1>8. OrderInv /\ TransmittedInOrder
  BY <1>7 DEF PipeInv, OrderInv
<1>9. TransmittedInOrder'
  <2>1. CASE sent = <<>>
    <3>1. s = Min(TxSlots) /\ Len(sent) = 0 /\ ToSet(sent) = {}
      BY <1>1, <1>4, <1>6, <2>1, EmptySet
    <3>2. \A t \in TxSlots : s <= t /\ t \in Nat
      BY <1>1, <3>1, MinNat, AssignedClosed
    <3>3. ToSet(sent') = {t \in TxSlots : sent' # <<>> /\ t <= Last(sent')}
      <4>1. \A t \in TxSlots : t <= s <=> t = s
        BY <1>1, <3>2
      <4>2. ToSet(sent') = {s}
        BY <1>3, <3>1
      <4> QED BY <1>1, <1>3, <4>1, <4>2
    <3> QED BY <1>4, <1>5, <3>1, <3>3 DEF TransmittedInOrder
  <2>2. CASE sent # <<>>
    <3> DEFINE l == Last(sent)
    <3>1. l \in Slots /\ l \in Nat /\ l = sent[Len(sent)] /\ Len(sent) \in Nat \ {0}
      BY <2>2, LastSent, AssignedClosed
    <3>2. ToSet(sent) = {t \in TxSlots : t <= l} /\ \A i \in 1 .. Len(sent) - 1 : sent[i] < sent[i + 1]
      BY <1>7, <1>8, <2>2 DEF TransmittedInOrder
    <3>3. s = NextTxSlot(l)
      BY <2>2
    <3> HIDE DEF l
    <3>4. s > l
      BY <1>1, <3>1, <3>2
    <3>5. \A t \in TxSlots : t > l => s <= t
      BY <1>1, <3>1, <3>3, <3>4, NextFacts
    <3>6. \A t \in TxSlots : t \in Nat
      BY AssignedClosed
    <3>7. ToSet(sent') = {t \in TxSlots : sent' # <<>> /\ t <= Last(sent')}
      <4>1. \A t \in TxSlots : t <= s <=> (t <= l \/ t = s)
        BY <1>1, <3>1, <3>4, <3>5, <3>6
      <4> QED BY <1>1, <1>3, <3>2, <4>1
    <3>8. \A i \in 1 .. Len(sent') - 1 : sent'[i] < sent'[i + 1]
      <4> SUFFICES ASSUME NEW i \in 1 .. Len(sent) PROVE sent'[i] < sent'[i + 1]
        BY <1>4
      <4>1. CASE i = Len(sent)
        BY <1>4, <3>1, <3>4, <4>1
      <4>2. CASE i # Len(sent)
        <5>1. i \in 1 .. Len(sent) - 1 /\ i + 1 \in 1 .. Len(sent)
          BY <1>4, <4>2
        <5> QED BY <1>4, <3>2, <5>1
      <4> QED BY <4>1, <4>2
    <3> QED BY <1>5, <3>7, <3>8 DEF TransmittedInOrder
  <2> QED BY <2>1, <2>2
<1>10. L1_tx_free' + Cardinality(Assigned' \ ToSet(sent')) = TxMessages
  <2> DEFINE A == Assigned \ ToSet(sent)
             B == Assigned' \ ToSet(sent')
  <2>1. B = A \ {s} /\ s \in A
    BY <1>3, <1>5, AssignedClosed
  <2>2. IsFiniteSet(A) /\ Cardinality(A) \in Nat
    BY AssignedClosed, AssignedFinite
  <2>3. L1_tx_free + Cardinality(A) = TxMessages
    BY <1>7, <1>8 DEF OrderInv
  <2> HIDE DEF A, B
  <2>4. Cardinality(B) = Cardinality(A) - 1
    BY <2>1, <2>2, FS_RemoveElement
  <2>5. L1_tx_free' + Cardinality(B) = TxMessages
    BY <1>1, <2>2, <2>3, <2>4 DEF TxMessages
  <2> QED BY <2>5 DEF B
<1> QED BY <1>3, <1>5, <1>7, <1>9, <1>10

\* There are two transmission messages and no third.
LEMMA TwoElements ==
  ASSUME NEW S, IsFiniteSet(S), Cardinality(S) <= 2, NEW a \in S, NEW b \in S, a # b
  PROVE  S = {a, b}
<1>1. IsFiniteSet({a, b}) /\ Cardinality({a, b}) = 2
  <2>1. IsFiniteSet({a}) /\ Cardinality({a}) = 1
    BY FS_Singleton
  <2>2. {a, b} = {a} \cup {b} /\ b \notin {a}
    OBVIOUS
  <2>3. Cardinality({a} \cup {b}) = Cardinality({a}) + 1 /\ IsFiniteSet({a} \cup {b})
    BY <2>1, <2>2, FS_AddElement
  <2> QED BY <2>1, <2>2, <2>3
<1>2. Cardinality(S) \in Nat /\ {a, b} \subseteq S
  BY FS_CardinalityType
<1> QED BY <1>1, <1>2, FS_Subset

\* The next slot to send.
LEMMA NextNat ==
  ASSUME NEW l \in Nat
  PROVE  NextTxSlot(l) \in Nat
<1>1. Len(Plan) \in Nat
  BY PlanFacts
<1> DEFINE M == {t \in l + 1 .. Len(Plan) : Plan[t].downlink} \union {Len(Plan) + 1}
<1>2. M \subseteq Nat /\ M # {}
  BY <1>1
<1>3. NextTxSlot(l) = IF ContinuousTx THEN l + 1 ELSE Min(M)
  BY DEF NextTxSlot
<1> HIDE DEF M
<1>4. Min(M) \in Nat
  BY <1>2, MinNat
<1> QED BY <1>3, <1>4

ReorderState == [pc : {"first", "loop", "pull"}, resL1Reserve : Nat, next_tx_slot : Nat]

\* The places of the slots that are out of the pool.
Out == ToSet(L1_tx_out) \cup ({reorder.resL1Reserve} \ {NoSlot}) \cup ToSet(sent)

\* The reorder thread moves slots from one place to another.
LEMMA ReorderMove ==
  ASSUME PipeInv, UNCHANGED <<pool, uplink, downlink, L1_tx_filled, ruSlot, resp_L1>>,
         L1_tx_free' \in Nat, L1_tx_out' \in Seq(Nat), sent' \in Seq(Nat), reorder' \in ReorderState,
         Distinct(L1_tx_out'), Out' \subseteq Out,
         ToSet(L1_tx_out') \cap ({reorder'.resL1Reserve} \cup ToSet(sent')) = {},
         reorder'.resL1Reserve \notin ToSet(sent'), OrderInv'
  PROVE  PipeInv'
<1>1. /\ UNCHANGED <<incomingFifo, running, abortFlag, respDecode, rx, indications, nf, tx>>
      /\ UNCHANGED <<L1_tx_filled, ruSlot, resp_L1>>
  BY DEF pool, uplink, downlink
<1>2. Queue' = Queue /\ PoolInv'
  BY <1>1 DEF Queue, PipeInv, PoolInv
<1>3. SamePhase
  BY <1>1 DEF SamePhase
<1>4. RxInv' /\ DecodeInv' /\ IndicationInv' /\ CodingInv' /\ Launched' = Launched
  BY <1>1, <1>2, <1>3, PhaseFrame, RxFrame, DecodeFrame, IndicationFrame, CodingFrame DEF PipeInv, Stuck, Blocks
<1>5. TypeInv'
  BY <1>1 DEF PipeInv, TypeInv, Slots, ReorderState
<1>6. Out \subseteq Launched
  BY DEF Out, PipeInv, TxInv
<1>7. TxInv'
  <2>1. \A job \in Of("tx", Queue \cup running) : job = TxJob(SlotOf(job)) /\ SlotOf(job) \in Launched \ Out /\ SlotOf(job) # NoSlot
    BY AssignedClosed DEF PipeInv, TxInv, Out, NoSlot
  <2>2. ToSet(L1_tx_out') \subseteq Out' /\ ToSet(sent') \subseteq Out' /\ (reorder'.resL1Reserve # NoSlot => reorder'.resL1Reserve \in Out')
    BY DEF Out
  <2>3. L1_tx_filled' = IF rx'.pc = "launch" /\ Plan[rx'.slot].downlink THEN <<rx'.slot>> ELSE <<>>
    BY <1>1 DEF PipeInv, TxInv
  <2> QED BY <1>1, <1>2, <1>4, <1>6, <2>1, <2>2, <2>3 DEF TxInv
<1> QED BY <1>2, <1>4, <1>5, <1>7 DEF PipeInv

\* The message tx_reorder_thread pulls is new to it.
LEMMA HeadOut ==
  ASSUME PipeInv, L1_tx_out # <<>>
  PROVE  /\ Head(L1_tx_out) \in Launched \ ({reorder.resL1Reserve} \cup ToSet(sent)) /\ Head(L1_tx_out) \in Nat \ {0}
         /\ Tail(L1_tx_out) \in Seq(Nat) /\ Distinct(Tail(L1_tx_out))
         /\ ToSet(Tail(L1_tx_out)) = ToSet(L1_tx_out) \ {Head(L1_tx_out)} /\ Head(L1_tx_out) \in ToSet(L1_tx_out)
<1>1. L1_tx_out \in Seq(Nat) /\ Distinct(L1_tx_out)
  BY DEF PipeInv, TypeInv, TxInv
<1>2. /\ Head(L1_tx_out) \in ToSet(L1_tx_out) /\ Tail(L1_tx_out) \in Seq(Nat) /\ Distinct(Tail(L1_tx_out))
      /\ ToSet(Tail(L1_tx_out)) = ToSet(L1_tx_out) \ {Head(L1_tx_out)}
  BY <1>1, HeadTail
<1> QED BY <1>2, AssignedClosed DEF PipeInv, TxInv

\* The state of tx_reorder_thread.
LEMMA ReorderTyped ==
  ASSUME PipeInv
  PROVE  /\ reorder = [pc |-> reorder.pc, resL1Reserve |-> reorder.resL1Reserve, next_tx_slot |-> reorder.next_tx_slot]
         /\ reorder.pc \in {"first", "loop", "pull"} /\ reorder.resL1Reserve \in Nat /\ reorder.next_tx_slot \in Nat
         /\ L1_tx_free \in Nat /\ L1_tx_out \in Seq(Nat) /\ sent \in Seq(Nat) /\ Distinct(L1_tx_out)
BY DEF PipeInv, TypeInv, TxInv

\* Before the first slot is taken out, nothing is reserved.
LEMMA ReorderFirstStep ==
  ASSUME PipeInv, ReorderFirst
  PROVE  PipeInv'
<1> DEFINE s == Head(L1_tx_out)
<1>1. /\ reorder.pc = "first" /\ L1_tx_out # <<>> /\ reorder' = [pc |-> "loop", resL1Reserve |-> s, next_tx_slot |-> s]
      /\ L1_tx_out' = Tail(L1_tx_out) /\ UNCHANGED <<L1_tx_free, sent>>
      /\ UNCHANGED <<pool, uplink, downlink, L1_tx_filled, ruSlot, resp_L1>>
  BY DEF ReorderFirst
<1>2. /\ s \in Launched \ ({reorder.resL1Reserve} \cup ToSet(sent)) /\ s \in Nat \ {0} /\ s \in ToSet(L1_tx_out)
      /\ L1_tx_out' \in Seq(Nat) /\ Distinct(L1_tx_out') /\ ToSet(L1_tx_out') = ToSet(L1_tx_out) \ {s}
  BY <1>1, HeadOut
<1> HIDE DEF s
<1>3. reorder'.pc = "loop" /\ reorder'.resL1Reserve = s /\ reorder'.next_tx_slot = s /\ reorder' \in ReorderState
  BY <1>1, <1>2 DEF ReorderState
<1>4. ToSet(L1_tx_out) \cap ToSet(sent) = {}
  BY DEF PipeInv, TxInv
<1>5. Out' \subseteq Out
  BY <1>1, <1>2, <1>3 DEF Out
<1>6. OrderInv'
  <2>1. StartedInOrder' = StartedInOrder /\ TransmittedInOrder' = TransmittedInOrder /\ Assigned' = Assigned
    BY <1>1 DEF StartedInOrder, TransmittedInOrder, Assigned, Launched, TxSlots, Slots, uplink
  <2> QED BY <1>1, <1>2, <1>3, <2>1 DEF PipeInv, OrderInv, NoSlot, TxMessages
<1> QED BY <1>1, <1>2, <1>3, <1>4, <1>5, <1>6, ReorderTyped, ReorderMove

\* "order mistake" is not reached once the first slot came out first.
LEMMA ReorderMistakeStep ==
  ASSUME PipeInv, ReorderMistake
  PROVE  PipeInv'
<1>1. /\ reorder.pc = "loop" /\ reorder.resL1Reserve # NoSlot /\ reorder.resL1Reserve # reorder.next_tx_slot
      /\ reorder' = [reorder EXCEPT !.resL1Reserve = NoSlot, !.pc = "pull"]
      /\ UNCHANGED <<L1_tx_free, L1_tx_out, sent>>
      /\ UNCHANGED <<pool, uplink, downlink, L1_tx_filled, ruSlot, resp_L1>>
  BY DEF ReorderMistake, txQueues
<1>2. reorder' = [pc |-> "pull", resL1Reserve |-> NoSlot, next_tx_slot |-> reorder.next_tx_slot]
  BY <1>1, ReorderTyped
<1>3. reorder'.resL1Reserve = NoSlot /\ reorder' \in ReorderState
  BY <1>2, ReorderTyped DEF ReorderState, NoSlot
<1>4. NoSlot \notin ToSet(L1_tx_out) \cup ToSet(sent) /\ ToSet(L1_tx_out) \cap ToSet(sent) = {}
  BY AssignedClosed DEF PipeInv, TxInv, NoSlot
<1>5. Out' \subseteq Out
  BY <1>1, <1>3 DEF Out
<1>6. ~StartedInOrder
  BY <1>1 DEF PipeInv, OrderInv
<1>7. OrderInv'
  BY <1>1, <1>6 DEF OrderInv, StartedInOrder, TxSlots, Slots
<1> QED BY <1>1, <1>3, <1>4, <1>5, <1>7, ReorderTyped, ReorderMove

\* tx_reorder_thread sends the message it held back.
LEMMA ReorderReservedStep ==
  ASSUME PipeInv, ReorderReserved
  PROVE  PipeInv'
<1> DEFINE s == reorder.resL1Reserve
<1>1. /\ reorder.pc = "loop" /\ s # NoSlot /\ s = reorder.next_tx_slot
      /\ sent' = Append(sent, s) /\ L1_tx_free' = L1_tx_free + 1 /\ L1_tx_out' = L1_tx_out /\ rx' = rx
      /\ UNCHANGED <<pool, uplink, downlink, L1_tx_filled, ruSlot, resp_L1>>
      /\ reorder' = [reorder EXCEPT !.resL1Reserve = NoSlot, !.next_tx_slot = NextTxSlot(@)]
  BY DEF ReorderReserved, Transmit, uplink
<1>2. s \in Launched \ ToSet(sent) /\ s \in Nat /\ s \notin ToSet(L1_tx_out) /\ ToSet(L1_tx_out) \cap ToSet(sent) = {}
  BY <1>1, ReorderTyped DEF PipeInv, TxInv
<1>3. reorder' = [pc |-> "loop", resL1Reserve |-> NoSlot, next_tx_slot |-> NextTxSlot(s)]
  BY <1>1, ReorderTyped
<1>4. Append(sent, s) \in Seq(Nat) /\ ToSet(Append(sent, s)) = ToSet(sent) \cup {s}
  BY <1>2, ReorderTyped, AppendSet
<1> HIDE DEF s
<1>5. reorder'.pc = "loop" /\ reorder'.resL1Reserve = NoSlot /\ reorder'.next_tx_slot = NextTxSlot(s) /\ reorder' \in ReorderState
  BY <1>2, <1>3, NextNat DEF ReorderState, NoSlot
<1>6. NoSlot \notin ToSet(L1_tx_out) \cup ToSet(sent')
  BY <1>1, <1>2, <1>4, AssignedClosed DEF PipeInv, TxInv, NoSlot
<1>7. Out' \subseteq Out
  BY <1>1, <1>4, <1>5 DEF Out, s
<1>8. OrderInv'
  <2> SUFFICES ASSUME StartedInOrder' PROVE OrderInv'
    BY DEF OrderInv
  <2>1. sent # <<>> => s = NextTxSlot(Last(sent))
    <3> SUFFICES ASSUME sent # <<>> PROVE s = NextTxSlot(Last(sent))
      OBVIOUS
    <3>1. StartedInOrder
      <4>1. sent' # <<>> /\ sent'[1] = sent[1]
        BY <1>1, <1>2, ReorderTyped
      <4> QED BY <4>1 DEF StartedInOrder, TxSlots, Slots
    <3> QED BY <1>1, <3>1 DEF PipeInv, OrderInv
  <2>2. /\ TransmittedInOrder' /\ Last(sent') = s /\ sent' # <<>>
        /\ L1_tx_free' + Cardinality(Assigned' \ ToSet(sent')) = TxMessages
    BY <1>1, <1>2, <2>1, SendNext
  <2> QED BY <1>5, <2>2 DEF OrderInv, NoSlot, TxMessages, NextTxSlot
<1>9. ToSet(L1_tx_out') \cap ({reorder'.resL1Reserve} \cup ToSet(sent')) = {}
  BY <1>1, <1>2, <1>4, <1>5, <1>6
<1>10. L1_tx_free' \in Nat /\ L1_tx_out' \in Seq(Nat) /\ sent' \in Seq(Nat) /\ Distinct(L1_tx_out')
  BY <1>1, <1>4, ReorderTyped
<1> QED BY <1>1, <1>5, <1>6, <1>7, <1>8, <1>9, <1>10, ReorderMove

\* The slot at the head of L1_tx_out is sent.
LEMMA SendHead ==
  ASSUME PipeInv, L1_tx_out # <<>>, L1_tx_out' = Tail(L1_tx_out), Transmit(Head(L1_tx_out)),
         reorder' \in ReorderState, reorder'.resL1Reserve = reorder.resL1Reserve, OrderInv'
  PROVE  PipeInv'
<1> DEFINE s == Head(L1_tx_out)
<1>1. /\ sent' = Append(sent, s) /\ L1_tx_free' = L1_tx_free + 1
      /\ UNCHANGED <<pool, uplink, downlink, L1_tx_filled, ruSlot, resp_L1>>
  BY DEF Transmit
<1>2. /\ s \in Launched \ ({reorder.resL1Reserve} \cup ToSet(sent)) /\ s \in Nat \ {0} /\ s \in ToSet(L1_tx_out)
      /\ L1_tx_out' \in Seq(Nat) /\ Distinct(L1_tx_out') /\ ToSet(L1_tx_out') = ToSet(L1_tx_out) \ {s}
  BY HeadOut
<1> HIDE DEF s
<1>3. Append(sent, s) \in Seq(Nat) /\ ToSet(Append(sent, s)) = ToSet(sent) \cup {s}
  BY <1>2, ReorderTyped, AppendSet, SMTT(30)
<1>4. Out' \subseteq Out
  BY <1>1, <1>2, <1>3 DEF Out
<1>5. reorder.resL1Reserve \notin ToSet(L1_tx_out) \cup ToSet(sent) /\ ToSet(L1_tx_out) \cap ToSet(sent) = {}
  BY AssignedClosed DEF PipeInv, TxInv, NoSlot
<1>6. /\ ToSet(L1_tx_out') \cap ({reorder'.resL1Reserve} \cup ToSet(sent')) = {}
      /\ reorder'.resL1Reserve \notin ToSet(sent')
  BY <1>1, <1>2, <1>3, <1>5
<1>7. L1_tx_free' \in Nat /\ sent' \in Seq(Nat)
  BY <1>1, <1>3, ReorderTyped
<1> QED BY <1>1, <1>2, <1>4, <1>6, <1>7, ReorderMove

\* Sending a slot does not change which one was the first.
LEMMA StartedBefore ==
  ASSUME PipeInv, StartedInOrder', NEW s \in Nat, sent' = Append(sent, s)
  PROVE  StartedInOrder
<1>1. sent # <<>> => sent' # <<>> /\ sent'[1] = sent[1]
  BY ReorderTyped
<1> QED BY <1>1 DEF StartedInOrder, TxSlots, Slots

\* tx_reorder_thread pulls a message: it sends it or holds it back.
LEMMA ReorderPullStep ==
  ASSUME PipeInv, ReorderPull
  PROVE  PipeInv'
<1> DEFINE s == Head(L1_tx_out)
<1>1. /\ reorder.pc = "loop" /\ reorder.resL1Reserve = NoSlot /\ L1_tx_out # <<>> /\ L1_tx_out' = Tail(L1_tx_out)
      /\ IF s = reorder.next_tx_slot
         THEN Transmit(s) /\ reorder' = [reorder EXCEPT !.next_tx_slot = NextTxSlot(s)]
         ELSE /\ reorder' = [reorder EXCEPT !.resL1Reserve = s, !.pc = "pull"]
              /\ UNCHANGED <<pool, uplink, downlink, L1_tx_free, L1_tx_filled, ruSlot, resp_L1, sent>>
  BY DEF ReorderPull
<1>2. /\ s \in Launched \ ({reorder.resL1Reserve} \cup ToSet(sent)) /\ s \in Nat \ {0} /\ s \in ToSet(L1_tx_out)
      /\ L1_tx_out' \in Seq(Nat) /\ Distinct(L1_tx_out') /\ ToSet(L1_tx_out') = ToSet(L1_tx_out) \ {s}
  BY <1>1, HeadOut
<1>3. StartedInOrder => sent # <<>> /\ reorder.next_tx_slot = NextTxSlot(Last(sent))
  BY <1>1 DEF PipeInv, OrderInv
<1>4. CASE s = reorder.next_tx_slot
  <2>1. /\ Transmit(s) /\ sent' = Append(sent, s) /\ L1_tx_free' = L1_tx_free + 1 /\ rx' = rx
        /\ reorder' = [reorder EXCEPT !.next_tx_slot = NextTxSlot(s)]
    BY <1>1, <1>4 DEF Transmit, uplink
  <2> HIDE DEF s
  <2>2. reorder' = [pc |-> "loop", resL1Reserve |-> NoSlot, next_tx_slot |-> NextTxSlot(s)]
    BY <1>1, <2>1, ReorderTyped
  <2>3. reorder'.pc = "loop" /\ reorder'.resL1Reserve = NoSlot /\ reorder'.next_tx_slot = NextTxSlot(s) /\ reorder' \in ReorderState
    BY <1>2, <2>2, NextNat DEF ReorderState, NoSlot
  <2>4. OrderInv'
    <3> SUFFICES ASSUME StartedInOrder' PROVE OrderInv'
      BY DEF OrderInv
    <3>1. StartedInOrder
      BY <1>2, <2>1, StartedBefore
    <3>2. /\ TransmittedInOrder' /\ Last(sent') = s /\ sent' # <<>>
          /\ L1_tx_free' + Cardinality(Assigned' \ ToSet(sent')) = TxMessages
      BY <1>2, <1>3, <1>4, <2>1, <3>1, SendNext
    <3> QED BY <2>3, <3>2 DEF OrderInv, NoSlot, TxMessages, NextTxSlot
  <2> USE DEF s
  <2> QED BY <1>1, <2>1, <2>3, <2>4, SendHead
<1>5. CASE s # reorder.next_tx_slot
  <2>1. /\ reorder' = [reorder EXCEPT !.resL1Reserve = s, !.pc = "pull"] /\ UNCHANGED <<L1_tx_free, sent>> /\ rx' = rx
        /\ UNCHANGED <<pool, uplink, downlink, L1_tx_filled, ruSlot, resp_L1>>
    BY <1>1, <1>5 DEF uplink
  <2> HIDE DEF s
  <2>2. reorder' = [pc |-> "pull", resL1Reserve |-> s, next_tx_slot |-> reorder.next_tx_slot]
    BY <1>1, <2>1, ReorderTyped
  <2>3. reorder'.pc = "pull" /\ reorder'.resL1Reserve = s /\ reorder'.next_tx_slot = reorder.next_tx_slot /\ reorder' \in ReorderState
    BY <1>2, <2>2, ReorderTyped DEF ReorderState
  <2>4. StartedInOrder' = StartedInOrder /\ TransmittedInOrder' = TransmittedInOrder /\ Assigned' = Assigned
    BY <2>1 DEF StartedInOrder, TransmittedInOrder, Assigned, Launched, TxSlots, Slots
  <2>5. OrderInv'
    BY <1>2, <1>3, <1>5, <2>1, <2>3, <2>4 DEF PipeInv, OrderInv, NoSlot, TxMessages, NextTxSlot
  <2>6. Out' \subseteq Out
    BY <1>2, <2>1, <2>3 DEF Out
  <2>7. ToSet(L1_tx_out) \cap ToSet(sent) = {}
    BY DEF PipeInv, TxInv
  <2> QED BY <1>2, <2>1, <2>3, <2>5, <2>6, <2>7, ReorderTyped, ReorderMove
<1> QED BY <1>4, <1>5

\* With two tx messages, the slot that comes out while one is reserved is the next one, and
\* the reserved one follows it.
LEMMA ReorderPullAnyStep ==
  ASSUME PipeInv, ReorderPullAny
  PROVE  PipeInv'
<1> DEFINE s == Head(L1_tx_out)
           r == reorder.resL1Reserve
           A == Assigned \ ToSet(sent)
<1>1. /\ reorder.pc = "pull" /\ L1_tx_out # <<>> /\ L1_tx_out' = Tail(L1_tx_out)
      /\ Transmit(s) /\ sent' = Append(sent, s) /\ L1_tx_free' = L1_tx_free + 1 /\ rx' = rx
      /\ reorder' = [reorder EXCEPT !.pc = "loop", !.next_tx_slot = NextTxSlot(s)]
  BY DEF ReorderPullAny, Transmit, uplink
<1>2. s \in Launched \ ({r} \cup ToSet(sent)) /\ s \in Nat \ {0}
  BY <1>1, HeadOut
<1> HIDE DEF s
<1>3. reorder' = [pc |-> "loop", resL1Reserve |-> r, next_tx_slot |-> NextTxSlot(s)]
  BY <1>1, ReorderTyped
<1>4. reorder'.pc = "loop" /\ reorder'.resL1Reserve = r /\ reorder'.next_tx_slot = NextTxSlot(s) /\ reorder' \in ReorderState
  BY <1>2, <1>3, ReorderTyped, NextNat DEF ReorderState
<1>5. OrderInv'
  <2> SUFFICES ASSUME StartedInOrder' PROVE OrderInv'
    BY DEF OrderInv
  <2>1. StartedInOrder
    BY <1>1, <1>2, StartedBefore
  <2>2. /\ sent # <<>> /\ reorder.next_tx_slot = NextTxSlot(Last(sent)) /\ r \notin {NoSlot, NextTxSlot(Last(sent))}
        /\ L1_tx_free + Cardinality(A) = TxMessages /\ TransmittedInOrder
    BY <1>1, <2>1 DEF PipeInv, OrderInv
  <2>3. s \in A /\ r \in A /\ s # r
    BY <1>2, <2>2, AssignedClosed DEF PipeInv, TxInv
  <2>4. IsFiniteSet(A) /\ Cardinality(A) \in Nat /\ A \subseteq Slots
    BY AssignedClosed, AssignedFinite
  <2>5. Cardinality(A) <= 2
    BY <2>2, <2>4, ReorderTyped DEF TxMessages
  <2>6. A = {s, r}
    <3> HIDE DEF A
    <3> QED BY <2>3, <2>4, <2>5, TwoElements
  <2>7. NextTxSlot(Last(sent)) \in A
    <3>1. ToSet(sent) = {t \in TxSlots : t <= Last(sent)} /\ Last(sent) \in Slots
      BY <2>1, <2>2, LastSent, AssignedClosed DEF TransmittedInOrder
    <3> QED BY <2>2, <2>3, <3>1, ReorderTyped, NextAssigned
  <2>8. s = NextTxSlot(Last(sent))
    BY <2>2, <2>6, <2>7
  <2>9. /\ TransmittedInOrder' /\ Last(sent') = s /\ sent' # <<>> /\ ToSet(sent') = ToSet(sent) \cup {s}
        /\ L1_tx_free' + Cardinality(Assigned' \ ToSet(sent')) = TxMessages
    BY <1>1, <1>2, <2>8, SendNext
  <2>10. r = NextTxSlot(s)
    <3> DEFINE q == Append(sent, s)
    <3>1. q \in Seq(Nat) /\ q # <<>> /\ Last(q) = s /\ ToSet(q) = ToSet(sent) \cup {s}
      BY <1>1, <1>2, <2>9, ReorderTyped, AppendSet
    <3>2. TxSlots' = TxSlots
      BY DEF TxSlots, Slots
    <3>3. ToSet(q) = {t \in TxSlots : t <= Last(q)}
      BY <1>1, <2>9, <3>2 DEF TransmittedInOrder
    <3>4. s \in Slots /\ r \in Assigned \ ToSet(q)
      BY <2>3, <2>4, <3>1
    <3> HIDE DEF q
    <3>5. NextTxSlot(Last(q)) \in Assigned \ ToSet(q)
      BY <3>1, <3>3, <3>4, NextAssigned
    <3> QED BY <2>6, <3>1, <3>5
  <2> QED BY <1>4, <2>9, <2>10 DEF OrderInv, TxMessages, NextTxSlot
<1> USE DEF s
<1> QED BY <1>1, <1>4, <1>5, SendHead

---------------------------------------------------------------------------
(* The invariant holds, and what follows from it.                          *)

\* Nothing changes.
LEMMA PipeStutter ==
  ASSUME PipeInv, UNCHANGED vars
  PROVE  PipeInv'
<1>1. /\ UNCHANGED <<incomingFifo, running, abortFlag, respDecode, rx, indications, nf, tx>>
      /\ UNCHANGED <<L1_tx_free, L1_tx_filled, L1_tx_out, ruSlot, resp_L1, reorder, sent>>
  BY DEF vars, pool, uplink, downlink, txQueues
<1>2. Queue' = Queue /\ PoolInv' /\ SamePhase
  BY <1>1 DEF Queue, PipeInv, PoolInv, SamePhase
<1>3. TypeInv'
  BY <1>1 DEF PipeInv, TypeInv, Slots
<1>4. RxInv' /\ DecodeInv' /\ IndicationInv' /\ CodingInv' /\ OrderInv' /\ TxInv'
  BY <1>1, <1>2, PhaseFrame, RxFrame, DecodeFrame, IndicationFrame, CodingFrame, OrderFrame, TxFrame DEF PipeInv, Stuck, Blocks
<1> QED BY <1>2, <1>3, <1>4 DEF PipeInv

\* Every step.
LEMMA PipeNext ==
  ASSUME PipeInv, [Next]_vars
  PROVE  PipeInv'
<1>1. CASE RuSlot
  BY <1>1, RuSlotStep
<1>2. CASE pullNotifiedFifoRemember
  BY <1>2, PullStep
<1>3. CASE RxStep
  BY <1>3, PuschNotDetectedStep, PuschDetectedStep, RefusedStep, DecodingStep, PostDecodeStep, AbortTpoolStep, AbortResponsesStep,
     ScheduleStep, LaunchTxStep, LaunchEmptyStep, FinishRxStep DEF RxStep
<1>4. CASE \E s \in Slots : TxStep(s)
  BY <1>4, EncodingStep, CollectStep, FinishTxStep DEF TxStep
<1>5. CASE WorkerStep
  BY <1>5, FinishDecodeStep, FinishCodingStep DEF WorkerStep, DecodeStep, CodingStep
<1>6. CASE ReorderStep
  BY <1>6, ReorderFirstStep, ReorderReservedStep, ReorderMistakeStep, ReorderPullStep, ReorderPullAnyStep DEF ReorderStep
<1>7. CASE UNCHANGED vars
  BY <1>7, PipeStutter
<1> QED BY <1>1, <1>2, <1>3, <1>4, <1>5, <1>6, <1>7 DEF Next

\* For every plan of slots and any number of workers, what the L1 threads share stays
\* consistent: a job is in the pool once, there is one rx job, only decoding jobs of a UE the
\* rx job has done with are aborted, and a launched slot is at one place on its way to the radio.
THEOREM PipeInvariance == Spec => []PipeInv
<1>1. Init => PipeInv
  BY InitPipe
<1>2. PipeInv /\ [Next]_vars => PipeInv'
  BY PipeNext
<1> QED BY <1>1, <1>2, PTL DEF Spec

\* nr_fill_indication is called at most once for a UE of a slot, has been called before
\* gNB_dlsch_ulsch_scheduler runs unless nr_ulsch_decoding refused the transport block, and with
\* an ACK only when every code block was decoded, also when jobs were aborted or lost.
THEOREM OneIndication == Spec => []IndicatedOnce
<1>1. PipeInv => IndicatedOnce
  <2> SUFFICES ASSUME PipeInv PROVE IndicatedOnce
    OBVIOUS
  <2>1. ASSUME rx.pc \in {"launch", "done"}, NEW u \in DOMAIN Plan[rx.slot].ul, Plan[rx.slot].ul[u] > 0
        PROVE  IndicationsOf(rx.slot, u) # {}
    <3>1. rx.slot \in Slots /\ rx.ue > Len(Plan[rx.slot].ul) /\ rx.ue \in Nat
      BY <2>1, RxType DEF PipeInv, RxInv, DecodeInv, ProgressInv
    <3>2. u \in 1 .. (rx.ue - 1) /\ Plan[rx.slot].ul[u] # 0
      BY <2>1, <3>1, PlanFacts
    <3> QED BY <2>1, <3>2 DEF PipeInv, IndicationInv
  <2> QED BY <2>1 DEF IndicatedOnce, PipeInv, IndicationInv
<1> QED BY <1>1, PipeInvariance, PTL

\* tx_reorder_thread gives the slots to the radio in order and leaves none out, once the
\* first slot came out first, whichever tx job ends first: it needs that there are only two
\* tx messages.
THEOREM InOrderTransmission == Spec => []TransmittedInOrder
<1>1. PipeInv => TransmittedInOrder
  BY DEF PipeInv, OrderInv, TransmittedInOrder
<1> QED BY <1>1, PipeInvariance, PTL
=============================================================================
