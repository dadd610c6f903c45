----------------------------- MODULE NrDlHarqProofs -----------------------------
(***************************************************************************)
(* Proofs about NrDlHarq, for any number of processes, rounds and slots,   *)
(* any PUCCH configuration and whatever UCI indications are lost or late:  *)
(* each process is in one list, and the NDI tells new blocks from repeated *)
(* ones.                                                                   *)
(***************************************************************************)
EXTENDS NrDlHarq, SequenceLemmas, SequenceTheorems

---------------------------------------------------------------------------
(* The inductive invariant.  h is a record of lists and procs, ndis the    *)
(* NDIs of the last transmissions.                                         *)

Proc(round, ndi, feedback, is_waiting) ==
  [round |-> round, ndi |-> ndi, feedback |-> feedback, is_waiting |-> is_waiting]
Lists(available, feedback, retrans) ==
  [available |-> available, feedback |-> feedback, retrans |-> retrans]
Harqs(lists_, procs_) == [lists |-> lists_, procs |-> procs_]

Shape(h) ==
  /\ h = Harqs(Lists(h.lists.available, h.lists.feedback, h.lists.retrans), h.procs)
  /\ h.procs = [p \in Pids |-> h.procs[p]]
  /\ \A p \in Pids : h.procs[p] = Proc(h.procs[p].round, h.procs[p].ndi, h.procs[p].feedback, h.procs[p].is_waiting)

Listed(list) == list \in Seq(Pids) /\ Distinct(list)

\* The three lists divide the processes among them.
Placed(lists_) ==
  /\ Listed(lists_.available) /\ Listed(lists_.feedback) /\ Listed(lists_.retrans)
  /\ ToSet(lists_.available) \cap ToSet(lists_.feedback) = {}
  /\ ToSet(lists_.available) \cap ToSet(lists_.retrans) = {}
  /\ ToSet(lists_.feedback) \cap ToSet(lists_.retrans) = {}
  /\ Pids \subseteq ToSet(lists_.available) \cup ToSet(lists_.feedback) \cup ToSet(lists_.retrans)

\* What the fields of a process say about the list it is in.
ProcOK(h, ndis, p) ==
  /\ h.procs[p].round \in 0 .. (HarqRoundMax - 1) /\ h.procs[p].ndi \in {0, 1}
  /\ h.procs[p].is_waiting \in BOOLEAN
  /\ h.procs[p].is_waiting <=> p \in ToSet(h.lists.feedback)
  /\ p \in ToSet(h.lists.available) => h.procs[p].round = 0
  /\ p \in ToSet(h.lists.retrans) => h.procs[p].round > 0
  /\ ndis[p] \in {-1, 0, 1}
  /\ ndis[p] # -1 => (h.procs[p].ndi # ndis[p] <=> p \in ToSet(h.lists.available))

HarqInv(h, ndis) == Shape(h) /\ Placed(h.lists) /\ \A p \in Pids : ProcOK(h, ndis, p)

---------------------------------------------------------------------------
(* What the operators do to the fields.                                    *)

\* g is h with other lists and one process assigned to.
Becomes(g, h, lists_, p, proc) ==
  /\ Shape(g) /\ g.lists = lists_ /\ g.procs[p] = proc
  /\ \A q \in Pids \ {p} : g.procs[q] = h.procs[q]

\* What an assignment to one process and to the lists leaves as it was.
LEMMA BecomesIs ==
  ASSUME NEW h, Shape(h), NEW p \in Pids, NEW a, NEW f, NEW r, NEW ro, NEW nd, NEW fb, NEW w,
         NEW g, g = Harqs(Lists(a, f, r), [h.procs EXCEPT ![p] = Proc(ro, nd, fb, w)])
  PROVE  Becomes(g, h, Lists(a, f, r), p, Proc(ro, nd, fb, w))
<1>1. /\ g.lists = Lists(a, f, r) /\ g.procs = [h.procs EXCEPT ![p] = Proc(ro, nd, fb, w)]
      /\ g.lists.available = a /\ g.lists.feedback = f /\ g.lists.retrans = r
      /\ g = Harqs(Lists(g.lists.available, g.lists.feedback, g.lists.retrans), g.procs)
  BY DEF Harqs, Lists
<1>2. g.procs[p] = Proc(ro, nd, fb, w) /\ \A q \in Pids \ {p} : g.procs[q] = h.procs[q]
  BY <1>1 DEF Shape
<1>3. g.procs = [q \in Pids |-> g.procs[q]]
  BY <1>1 DEF Shape
<1>4. ASSUME NEW q \in Pids
      PROVE  g.procs[q] = Proc(g.procs[q].round, g.procs[q].ndi, g.procs[q].feedback, g.procs[q].is_waiting)
  <2>1. CASE q = p
    BY <1>2, <2>1 DEF Proc
  <2>2. CASE q # p
    BY <1>2, <2>2 DEF Shape
  <2> QED BY <2>1, <2>2
<1> QED BY <1>1, <1>2, <1>3, <1>4, Zenon DEF Becomes, Shape

IsProc(q) == q = Proc(q.round, q.ndi, q.feedback, q.is_waiting)

\* The assignments to the fields of one process.
LEMMA ProcFields ==
  /\ \A q : IsProc(q) => [q EXCEPT !.round = 0, !.ndi = 1 - @] = Proc(0, 1 - q.ndi, q.feedback, q.is_waiting)
  /\ \A q : IsProc(q) => [q EXCEPT !.feedback = NoFeedback, !.is_waiting = FALSE] = Proc(q.round, q.ndi, NoFeedback, FALSE)
  /\ \A q : IsProc(q) => [q EXCEPT !.round = @ + 1] = Proc(q.round + 1, q.ndi, q.feedback, q.is_waiting)
  /\ \A q, at : IsProc(q) => [q EXCEPT !.feedback = at, !.is_waiting = TRUE] = Proc(q.round, q.ndi, at, TRUE)
<1>1. ASSUME NEW q, IsProc(q), NEW z, z = [q EXCEPT !.round = 0, !.ndi = 1 - @]
      PROVE  z = Proc(0, 1 - q.ndi, q.feedback, q.is_waiting)
  BY <1>1 DEF IsProc, Proc
<1>2. ASSUME NEW q, IsProc(q), NEW z, z = [q EXCEPT !.feedback = NoFeedback, !.is_waiting = FALSE]
      PROVE  z = Proc(q.round, q.ndi, NoFeedback, FALSE)
  BY <1>2 DEF IsProc, Proc
<1>3. ASSUME NEW q, IsProc(q), NEW z, z = [q EXCEPT !.round = @ + 1]
      PROVE  z = Proc(q.round + 1, q.ndi, q.feedback, q.is_waiting)
  BY <1>3 DEF IsProc, Proc
<1>4. ASSUME NEW q, NEW at, IsProc(q), NEW z, z = [q EXCEPT !.feedback = at, !.is_waiting = TRUE]
      PROVE  z = Proc(q.round, q.ndi, at, TRUE)
  BY <1>4 DEF IsProc, Proc
<1> QED BY <1>1, <1>2, <1>3, <1>4, Zenon

\* Release appends the process to available_dl_harq, resets its round and toggles its NDI.
LEMMA ReleaseIs ==
  ASSUME NEW h, Shape(h), NEW p \in Pids, NEW g, g = Release(h, p)
  PROVE  Becomes(g, h, Lists(Append(h.lists.available, p), h.lists.feedback, h.lists.retrans), p,
                 Proc(0, 1 - h.procs[p].ndi, h.procs[p].feedback, h.procs[p].is_waiting))
<1> DEFINE A == h.lists.available F == h.lists.feedback R == h.lists.retrans P == h.procs
           q == P[p]
<1>0. q = Proc(q.round, q.ndi, q.feedback, q.is_waiting) /\ p \in DOMAIN P /\ P = [x \in Pids |-> P[x]]
  BY Zenon DEF Shape
<1>1. h = Harqs(Lists(A, F, R), P)
  BY DEF Shape
<1> HIDE DEF A, F, R, P
<1>2. g.lists = Lists(Append(A, p), F, R) /\ g = Harqs(g.lists, g.procs)
  BY <1>1 DEF Release, Harqs, Lists
<1>3. g.procs = [P EXCEPT ![p].round = 0, ![p].ndi = 1 - @]
  BY <1>1 DEF Release, Harqs, Lists
<1> DEFINE z == [q EXCEPT !.round = 0, !.ndi = 1 - @]
<1>4. g.procs = [P EXCEPT ![p] = z]
  BY <1>3, <1>0
<1>6. z = Proc(0, 1 - q.ndi, q.feedback, q.is_waiting)
  BY <1>0, ProcFields, Zenon DEF IsProc
<1> QED BY <1>0, <1>2, <1>4, <1>6, BecomesIs DEF A, F, R, P

\* What handle_dl_harq does first.
Closed(h, p) == [h EXCEPT !.procs[p].feedback = NoFeedback, !.procs[p].is_waiting = FALSE]

\* The process waits no longer; nothing else changes.
LEMMA ClosedIs ==
  ASSUME NEW h, Shape(h), NEW p \in Pids, NEW g, g = Closed(h, p)
  PROVE  Becomes(g, h, Lists(h.lists.available, h.lists.feedback, h.lists.retrans), p,
                 Proc(h.procs[p].round, h.procs[p].ndi, NoFeedback, FALSE))
<1> DEFINE P == h.procs q == P[p] L == Lists(h.lists.available, h.lists.feedback, h.lists.retrans)
<1>0. IsProc(q) /\ p \in DOMAIN P /\ P = [x \in Pids |-> P[x]]
  BY Zenon DEF Shape, IsProc
<1>1. h = Harqs(L, P)
  BY DEF Shape
<1> HIDE DEF L, P
<1>2. g.lists = L
  BY <1>1 DEF Harqs, Closed
<1>3. g = Harqs(g.lists, g.procs)
  BY <1>1 DEF Harqs, Closed
<1>4. g.procs = [P EXCEPT ![p].feedback = NoFeedback, ![p].is_waiting = FALSE]
  BY <1>1 DEF Harqs, Closed
<1> DEFINE z == [q EXCEPT !.feedback = NoFeedback, !.is_waiting = FALSE]
<1>5. g.procs = [P EXCEPT ![p] = z]
  BY <1>4, <1>0
<1>6. z = Proc(q.round, q.ndi, NoFeedback, FALSE)
  BY <1>0, ProcFields, Zenon
<1>7. g = Harqs(L, [h.procs EXCEPT ![p] = Proc(q.round, q.ndi, NoFeedback, FALSE)])
  BY <1>2, <1>3, <1>5, <1>6 DEF P
<1> QED BY <1>7, BecomesIs DEF L, P

\* What it does last to a block that will be repeated.
Repeat(h, p) == [h EXCEPT !.lists.retrans = Append(@, p), !.procs[p].round = @ + 1]

\* A repetition is appended to retrans_dl_harq with the next round.
LEMMA RepeatIs ==
  ASSUME NEW h, Shape(h), NEW p \in Pids, NEW g, g = Repeat(h, p)
  PROVE  Becomes(g, h, Lists(h.lists.available, h.lists.feedback, Append(h.lists.retrans, p)), p,
                 Proc(h.procs[p].round + 1, h.procs[p].ndi, h.procs[p].feedback, h.procs[p].is_waiting))
<1> DEFINE A == h.lists.available F == h.lists.feedback R == h.lists.retrans P == h.procs
           q == P[p]
<1>0. IsProc(q) /\ p \in DOMAIN P /\ P = [x \in Pids |-> P[x]]
  BY Zenon DEF Shape, IsProc
<1>1. h = Harqs(Lists(A, F, R), P)
  BY DEF Shape
<1> HIDE DEF A, F, R, P
<1>2. g.lists = Lists(A, F, Append(R, p))
  BY <1>1 DEF Harqs, Lists, Repeat
<1>3. g = Harqs(g.lists, g.procs)
  BY <1>1 DEF Harqs, Lists, Repeat
<1>4. g.procs = [P EXCEPT ![p].round = @ + 1]
  BY <1>1 DEF Harqs, Lists, Repeat
<1> DEFINE z == [q EXCEPT !.round = @ + 1]
<1>5. g.procs = [P EXCEPT ![p] = z]
  BY <1>4, <1>0
<1>6. z = Proc(q.round + 1, q.ndi, q.feedback, q.is_waiting)
  BY <1>0, ProcFields, Zenon
<1>7. g = Harqs(Lists(A, F, Append(R, p)), [h.procs EXCEPT ![p] = Proc(q.round + 1, q.ndi, q.feedback, q.is_waiting)])
  BY <1>2, <1>3, <1>5, <1>6 DEF P
<1> QED BY <1>7, BecomesIs DEF A, F, R, P

\* remove_front_nr_list on feedback_dl_harq.
LEMMA FrontIs ==
  ASSUME NEW h, Shape(h), NEW f, f = RemoveFront(h)
  PROVE  /\ Shape(f) /\ f.procs = h.procs
         /\ f.lists = Lists(h.lists.available, Tail(h.lists.feedback), h.lists.retrans)
<1> DEFINE A == h.lists.available F == h.lists.feedback R == h.lists.retrans P == h.procs
<1>1. h = Harqs(Lists(A, F, R), P)
  BY DEF Shape
<1> HIDE DEF A, F, R, P
<1>2. f = Harqs(Lists(A, Tail(F), R), P)
  BY <1>1 DEF RemoveFront, Harqs, Lists
<1>3. f.procs = P /\ f.lists = Lists(A, Tail(F), R) /\ f.lists.available = A /\ f.lists.feedback = Tail(F) /\ f.lists.retrans = R
  BY <1>2 DEF Harqs, Lists
<1> QED BY <1>2, <1>3 DEF A, F, R, P, Shape

\* handle_dl_harq on the process at the head of feedback_dl_harq.
HandledAs(g, h, p) ==
  \/ Becomes(g, h, Lists(Append(h.lists.available, p), Tail(h.lists.feedback), h.lists.retrans), p,
             Proc(0, 1 - h.procs[p].ndi, NoFeedback, FALSE))
  \/ /\ ~(h.procs[p].round >= HarqRoundMax - 1)
     /\ Becomes(g, h, Lists(h.lists.available, Tail(h.lists.feedback), Append(h.lists.retrans, p)), p,
                Proc(h.procs[p].round + 1, h.procs[p].ndi, NoFeedback, FALSE))

\* handle_dl_harq releases the process or repeats it, as its round says.
LEMMA HandleIs ==
  ASSUME NEW h, Shape(h), NEW p \in Pids, NEW success, NEW g, g = handle_dl_harq(RemoveFront(h), p, success)
  PROVE  HandledAs(g, h, p)
<1> PICK f : f = RemoveFront(h)
  OBVIOUS
<1>0. /\ Shape(f) /\ f.procs = h.procs
      /\ f.lists = Lists(h.lists.available, Tail(h.lists.feedback), h.lists.retrans)
  BY FrontIs
<1> PICK r : r = Closed(f, p)
  OBVIOUS
<1>1. \/ g = Release(r, p)
      \/ g = Repeat(r, p) /\ ~(h.procs[p].round >= HarqRoundMax - 1)
  BY <1>0 DEF handle_dl_harq, abort_nr_dl_harq, Closed, Repeat
<1>2. Becomes(r, f, Lists(f.lists.available, f.lists.feedback, f.lists.retrans), p,
              Proc(f.procs[p].round, f.procs[p].ndi, NoFeedback, FALSE))
  BY <1>0, ClosedIs
<1>3. /\ Shape(r) /\ r.lists.available = h.lists.available /\ r.lists.feedback = Tail(h.lists.feedback)
      /\ r.lists.retrans = h.lists.retrans
      /\ r.procs[p].round = h.procs[p].round /\ r.procs[p].ndi = h.procs[p].ndi
      /\ r.procs[p].feedback = NoFeedback /\ r.procs[p].is_waiting = FALSE
      /\ \A q \in Pids \ {p} : r.procs[q] = h.procs[q]
  BY <1>0, <1>2 DEF Becomes, Lists, Proc
<1>4. CASE g = Release(r, p)
  <2>1. Becomes(g, r, Lists(Append(r.lists.available, p), r.lists.feedback, r.lists.retrans), p,
                 Proc(0, 1 - r.procs[p].ndi, r.procs[p].feedback, r.procs[p].is_waiting))
    BY <1>3, <1>4, ReleaseIs
  <2> QED BY <1>3, <2>1 DEF Becomes, HandledAs
<1>5. CASE g = Repeat(r, p) /\ ~(h.procs[p].round >= HarqRoundMax - 1)
  <2>1. Becomes(g, r, Lists(r.lists.available, r.lists.feedback, Append(r.lists.retrans, p)), p,
                Proc(r.procs[p].round + 1, r.procs[p].ndi, r.procs[p].feedback, r.procs[p].is_waiting))
    BY <1>3, <1>5, RepeatIs
  <2> QED BY <1>3, <1>5, <2>1 DEF Becomes, HandledAs
<1> QED BY <1>1, <1>4, <1>5

---------------------------------------------------------------------------
(* Moving a process from one list to another.                              *)

\* The other processes stay in their lists.
OnlyMoves(old, new, p) ==
  \A q \in Pids \ {p} :
    /\ q \in ToSet(new.available) <=> q \in ToSet(old.available)
    /\ q \in ToSet(new.feedback) <=> q \in ToSet(old.feedback)
    /\ q \in ToSet(new.retrans) <=> q \in ToSet(old.retrans)

\* The invariant is kept when one process moves and its fields fit the new list.
LEMMA MoveInv ==
  ASSUME NEW h, NEW g, NEW ndis, NEW ndis2, HarqInv(h, ndis), NEW p \in Pids, NEW new, NEW proc,
         Becomes(g, h, new, p, proc), Placed(new), OnlyMoves(h.lists, new, p),
         ProcOK(g, ndis2, p), \A q \in Pids \ {p} : ndis2[q] = ndis[q]
  PROVE  HarqInv(g, ndis2)
<1>1. Shape(g) /\ g.lists = new /\ \A q \in Pids \ {p} : g.procs[q] = h.procs[q]
  BY DEF Becomes
<1>2. ASSUME NEW q \in Pids \ {p} PROVE ProcOK(g, ndis2, q)
  <2>1. /\ q \in ToSet(g.lists.available) <=> q \in ToSet(h.lists.available)
        /\ q \in ToSet(g.lists.feedback) <=> q \in ToSet(h.lists.feedback)
        /\ q \in ToSet(g.lists.retrans) <=> q \in ToSet(h.lists.retrans)
    BY <1>1 DEF OnlyMoves
  <2>2. ProcOK(h, ndis, q) /\ g.procs[q] = h.procs[q] /\ ndis2[q] = ndis[q]
    BY <1>1 DEF HarqInv
  <2> QED BY <2>1, <2>2, Zenon DEF ProcOK
<1> QED BY <1>1, <1>2 DEF HarqInv

\* A list is not what it is after an append.
LEMMA NotAppend ==
  ASSUME NEW s \in Seq(Pids), NEW p \in Pids
  PROVE  s # Append(s, p) /\ (s # <<>> => Tail(s) # Append(s, p))
<1>1. Len(s) \in Nat /\ Len(Append(s, p)) = Len(s) + 1 /\ (s # <<>> => Len(Tail(s)) = Len(s) - 1)
  OBVIOUS
<1>2. Len(s) # Len(s) + 1 /\ Len(s) - 1 # Len(s) + 1
  BY <1>1
<1> QED BY <1>1, <1>2

\* p leaves the head of feedback, retrans or available and is added to another list.
HeadMoves(l, p, a, f, r) ==
  \/ l.feedback # <<>> /\ p = Head(l.feedback) /\ f = Tail(l.feedback)
     /\ \/ a = Append(l.available, p) /\ r = l.retrans
        \/ a = l.available /\ r = Append(l.retrans, p)
  \/ l.retrans # <<>> /\ p = Head(l.retrans) /\ r = Tail(l.retrans)
     /\ \/ a = Append(l.available, p) /\ f = l.feedback
        \/ a = l.available /\ f = Append(l.feedback, p)
  \/ l.available # <<>> /\ p = Head(l.available) /\ a = Tail(l.available)
     /\ f = Append(l.feedback, p) /\ r = l.retrans

\* The lists still divide the processes when one moves from a head to another list.
LEMMA MovePlaced ==
  ASSUME NEW l, Placed(l), NEW p \in Pids, NEW a, NEW f, NEW r, HeadMoves(l, p, a, f, r)
  PROVE  /\ Placed(Lists(a, f, r)) /\ OnlyMoves(l, Lists(a, f, r), p)
         /\ p \in ToSet(a) <=> a = Append(l.available, p)
         /\ p \in ToSet(f) <=> f = Append(l.feedback, p)
         /\ p \in ToSet(r) <=> r = Append(l.retrans, p)
<1> DEFINE A == l.available F == l.feedback R == l.retrans
<1>1. /\ A \in Seq(Pids) /\ Distinct(A) /\ F \in Seq(Pids) /\ Distinct(F) /\ R \in Seq(Pids) /\ Distinct(R)
      /\ ToSet(A) \cap ToSet(F) = {} /\ ToSet(A) \cap ToSet(R) = {} /\ ToSet(F) \cap ToSet(R) = {}
      /\ Pids \subseteq ToSet(A) \cup ToSet(F) \cup ToSet(R)
  BY DEF Placed, Listed
<1>2. ASSUME NEW s \in Seq(Pids), Distinct(s), s # <<>>, p = Head(s)
      PROVE  /\ Tail(s) \in Seq(Pids) /\ Distinct(Tail(s)) /\ p \in ToSet(s) /\ ToSet(Tail(s)) = ToSet(s) \ {p}
             /\ Tail(s) # Append(s, p) /\ s # Append(s, p)
  <2>1. Tail(s) \in Seq(Pids) /\ Distinct(Tail(s)) /\ p \in ToSet(s) /\ ToSet(Tail(s)) = ToSet(s) \ {p} /\ Len(Tail(s)) = Len(s) - 1
    BY <1>2, HeadTail
  <2>2. Len(s) \in Nat /\ Len(Append(s, p)) = Len(s) + 1
    BY <1>2
  <2>3. Len(s) # Len(s) + 1 /\ Len(s) - 1 # Len(s) + 1
    BY <2>2
  <2> QED BY <2>1, <2>2, <2>3
<1>3. ASSUME NEW s \in Seq(Pids), Distinct(s), p \notin ToSet(s)
      PROVE  /\ Append(s, p) \in Seq(Pids) /\ Distinct(Append(s, p)) /\ ToSet(Append(s, p)) = ToSet(s) \cup {p}
             /\ s # Append(s, p)
  <2>1. Append(s, p) \in Seq(Pids) /\ Distinct(Append(s, p)) /\ ToSet(Append(s, p)) = ToSet(s) \cup {p}
    BY <1>3, AppendSet
  <2> QED BY <2>1, <1>3
<1>4. Lists(a, f, r).available = a /\ Lists(a, f, r).feedback = f /\ Lists(a, f, r).retrans = r
  BY DEF Lists
<1> DEFINE new == Lists(a, f, r)
<1> HIDE DEF A, F, R, new
<1>5. /\ a \in Seq(Pids) /\ Distinct(a) /\ f \in Seq(Pids) /\ Distinct(f) /\ r \in Seq(Pids) /\ Distinct(r)
      /\ ToSet(a) \cap ToSet(f) = {} /\ ToSet(a) \cap ToSet(r) = {} /\ ToSet(f) \cap ToSet(r) = {}
      /\ Pids \subseteq ToSet(a) \cup ToSet(f) \cup ToSet(r)
      /\ \A q \in Pids \ {p} : /\ q \in ToSet(a) <=> q \in ToSet(A)
                               /\ q \in ToSet(f) <=> q \in ToSet(F)
                               /\ q \in ToSet(r) <=> q \in ToSet(R)
      /\ p \in ToSet(a) <=> a = Append(A, p)
      /\ p \in ToSet(f) <=> f = Append(F, p)
      /\ p \in ToSet(r) <=> r = Append(R, p)
  <2>1. CASE F # <<>> /\ p = Head(F) /\ f = Tail(F) /\ a = Append(A, p) /\ r = R
    BY <1>1, <1>2, <1>3, <2>1
  <2>2. CASE F # <<>> /\ p = Head(F) /\ f = Tail(F) /\ a = A /\ r = Append(R, p)
    BY <1>1, <1>2, <1>3, <2>2
  <2>3. CASE R # <<>> /\ p = Head(R) /\ r = Tail(R) /\ a = Append(A, p) /\ f = F
    <3>1. /\ r \in Seq(Pids) /\ Distinct(r) /\ p \in ToSet(R) /\ ToSet(r) = ToSet(R) \ {p} /\ r # Append(R, p)
      BY <1>1, <1>2, <2>3
    <3>2. a \in Seq(Pids) /\ Distinct(a) /\ ToSet(a) = ToSet(A) \cup {p} /\ p \notin ToSet(F)
      BY <1>1, <1>3, <2>3, <3>1
    <3>3. f # Append(F, p)
      BY <1>1, <1>3, <2>3, <3>2
    <3> QED BY <1>1, <2>3, <3>1, <3>2, <3>3
  <2>4. CASE R # <<>> /\ p = Head(R) /\ r = Tail(R) /\ a = A /\ f = Append(F, p)
    BY <1>1, <1>2, <1>3, <2>4
  <2>5. CASE A # <<>> /\ p = Head(A) /\ a = Tail(A) /\ f = Append(F, p) /\ r = R
    BY <1>1, <1>2, <1>3, <2>5
  <2> QED BY <2>1, <2>2, <2>3, <2>4, <2>5 DEF A, F, R, HeadMoves
<1> QED BY <1>4, <1>5 DEF new, A, F, R, Placed, Listed, OnlyMoves

\* The two ways out of feedback_dl_harq.
LEMMA FeedbackLeaves ==
  ASSUME NEW l, Placed(l), l.feedback # <<>>, NEW p \in Pids, p = Head(l.feedback), NEW n1, NEW n2,
         n1 = Lists(Append(l.available, p), Tail(l.feedback), l.retrans),
         n2 = Lists(l.available, Tail(l.feedback), Append(l.retrans, p))
  PROVE  /\ Placed(n1) /\ OnlyMoves(l, n1, p)
         /\ p \in ToSet(n1.available) /\ p \notin ToSet(n1.feedback) /\ p \notin ToSet(n1.retrans)
         /\ Placed(n2) /\ OnlyMoves(l, n2, p)
         /\ p \notin ToSet(n2.available) /\ p \notin ToSet(n2.feedback) /\ p \in ToSet(n2.retrans)
<1>1. /\ Tail(l.feedback) # Append(l.feedback, p) /\ l.available # Append(l.available, p)
      /\ l.retrans # Append(l.retrans, p)
  BY NotAppend DEF Placed, Listed
<1>2. ASSUME NEW a, NEW f, NEW r, HeadMoves(l, p, a, f, r), f = Tail(l.feedback)
      PROVE  LET n == Lists(a, f, r) IN
             /\ Placed(n) /\ OnlyMoves(l, n, p) /\ p \notin ToSet(n.feedback)
             /\ p \in ToSet(n.available) <=> a = Append(l.available, p)
             /\ p \in ToSet(n.retrans) <=> r = Append(l.retrans, p)
  <2>1. Lists(a, f, r).available = a /\ Lists(a, f, r).feedback = f /\ Lists(a, f, r).retrans = r
    BY DEF Lists
  <2>2. /\ Placed(Lists(a, f, r)) /\ OnlyMoves(l, Lists(a, f, r), p)
        /\ p \in ToSet(a) <=> a = Append(l.available, p)
        /\ p \in ToSet(f) <=> f = Append(l.feedback, p)
        /\ p \in ToSet(r) <=> r = Append(l.retrans, p)
    BY <1>2, MovePlaced
  <2> QED BY <1>1, <1>2, <2>1, <2>2
<1>3. HeadMoves(l, p, Append(l.available, p), Tail(l.feedback), l.retrans)
  BY DEF HeadMoves
<1>4. HeadMoves(l, p, l.available, Tail(l.feedback), Append(l.retrans, p))
  BY DEF HeadMoves
<1> QED BY <1>1, <1>2, <1>3, <1>4

\* handle_dl_harq keeps the invariant.
LEMMA HandleInv ==
  ASSUME NEW h, NEW ndis, HarqInv(h, ndis), h.lists.feedback # <<>>, NEW success,
         NEW p, p = Head(h.lists.feedback), NEW g, g = handle_dl_harq(RemoveFront(h), p, success)
  PROVE  /\ HarqInv(g, ndis) /\ g.lists.feedback = Tail(h.lists.feedback)
         /\ p \in Pids /\ h.procs[p].is_waiting
<1> PICK l : l = h.lists
  OBVIOUS
<1> DEFINE A == l.available F == l.feedback R == l.retrans
<1>1. Shape(h) /\ Placed(l) /\ F \in Seq(Pids) /\ F # <<>>
  BY DEF HarqInv, Placed, Listed
<1>2. p \in Pids /\ p \in ToSet(F)
  BY <1>1, HeadTail
<1> PICK n1, n2 : n1 = Lists(Append(A, p), Tail(F), R) /\ n2 = Lists(A, Tail(F), Append(R, p))
  OBVIOUS
<1>7. /\ Placed(n1) /\ OnlyMoves(l, n1, p)
      /\ p \in ToSet(n1.available) /\ p \notin ToSet(n1.feedback) /\ p \notin ToSet(n1.retrans)
      /\ Placed(n2) /\ OnlyMoves(l, n2, p)
      /\ p \notin ToSet(n2.available) /\ p \notin ToSet(n2.feedback) /\ p \in ToSet(n2.retrans)
  BY <1>1, <1>2, FeedbackLeaves
<1>8. /\ n1.available = Append(A, p) /\ n1.feedback = Tail(F) /\ n1.retrans = R
      /\ n2.available = A /\ n2.feedback = Tail(F) /\ n2.retrans = Append(R, p)
  BY DEF Lists
<1>3. ProcOK(h, ndis, p) /\ p \notin ToSet(A)
  BY <1>1, <1>2 DEF HarqInv, Placed
<1>4. HandledAs(g, h, p)
  BY <1>1, <1>2, HandleIs
<1> HIDE DEF A, F, R
<1>9. /\ h.procs[p].round \in 0 .. (HarqRoundMax - 1) /\ h.procs[p].ndi \in {0, 1}
      /\ ndis[p] \in {-1, 0, 1} /\ (ndis[p] # -1 => h.procs[p].ndi = ndis[p]) /\ h.procs[p].is_waiting
  BY <1>2, <1>3 DEF ProcOK, A, F
<1>5. CASE Becomes(g, h, n1, p, Proc(0, 1 - h.procs[p].ndi, NoFeedback, FALSE))
  <2>1. g.lists = n1 /\ g.procs[p] = Proc(0, 1 - h.procs[p].ndi, NoFeedback, FALSE)
    BY <1>5, Zenon DEF Becomes
  <2>2. g.procs[p].round = 0 /\ g.procs[p].ndi = 1 - h.procs[p].ndi /\ g.procs[p].is_waiting = FALSE
    BY <2>1 DEF Proc
  <2>3. 1 - h.procs[p].ndi \in {0, 1} /\ (ndis[p] # -1 => 1 - h.procs[p].ndi # ndis[p]) /\ 0 \in 0 .. (HarqRoundMax - 1)
    BY <1>9, HarqAssumption
  <2>4. ProcOK(g, ndis, p)
    BY <1>7, <1>9, <2>1, <2>2, <2>3, Zenon DEF ProcOK
  <2>5. HarqInv(g, ndis)
    BY <1>2, <1>5, <1>7, <2>4, MoveInv
  <2> QED BY <1>2, <1>8, <1>9, <2>1, <2>5 DEF F
<1>6. CASE /\ ~(h.procs[p].round >= HarqRoundMax - 1)
           /\ Becomes(g, h, n2, p, Proc(h.procs[p].round + 1, h.procs[p].ndi, NoFeedback, FALSE))
  <2>1. g.lists = n2 /\ g.procs[p] = Proc(h.procs[p].round + 1, h.procs[p].ndi, NoFeedback, FALSE)
    BY <1>6, Zenon DEF Becomes
  <2>2. g.procs[p].round = h.procs[p].round + 1 /\ g.procs[p].ndi = h.procs[p].ndi /\ g.procs[p].is_waiting = FALSE
    BY <2>1 DEF Proc
  <2>3. h.procs[p].round + 1 \in 0 .. (HarqRoundMax - 1) /\ h.procs[p].round + 1 > 0
    <3>1. ~(h.procs[p].round >= HarqRoundMax - 1)
      BY <1>6
    <3> QED BY <1>9, <3>1, HarqAssumption, SMTT(30)
  <2>4. ProcOK(g, ndis, p)
    BY <1>7, <1>9, <2>1, <2>2, <2>3, Zenon DEF ProcOK
  <2>5. HarqInv(g, ndis)
    BY <1>2, <1>6, <1>7, <2>4, MoveInv
  <2> QED BY <1>2, <1>8, <1>9, <2>1, <2>5 DEF F
<1> QED BY <1>4, <1>5, <1>6 DEF HandledAs, A, F, R

---------------------------------------------------------------------------
(* The loops of find_harq, of the handling of a UCI and of the PHY's       *)
(* indications: f[k] is the state after k rounds.                          *)

IndicationStep(inds, pdu, acks) ==
  IF pdu.dai_c > 0 THEN Append(inds, [at |-> now, bits |-> Bits(pdu, acks)]) ELSE inds

Round(loop, r, e, x) ==
  IF loop = "find" THEN handle_dl_harq(RemoveFront(r), e, FALSE)
  ELSE IF loop = "uci" THEN ApplyBit(r, e, x)
  ELSE IndicationStep(r, e, x)

LoopFrom(loop, begin, list, x, f, n) ==
  f = [k \in 0..n |-> IF k = 0 THEN begin ELSE Round(loop, f[k - 1], list[k], x)]

\* A loop has a state after each of its rounds, by induction on their number.
LEMMA LoopExists ==
  ASSUME NEW loop, NEW begin, NEW list, NEW x, NEW n \in Nat
  PROVE  \E f : LoopFrom(loop, begin, list, x, f, n)
<1> DEFINE T == {m \in 0..n : \E f : LoopFrom(loop, begin, list, x, f, m)}
           zero == [k \in 0..0 |-> begin]
<1>1. 0 \in T
  <2>1. LoopFrom(loop, begin, list, x, zero, 0)
    BY DEF LoopFrom
  <2> QED BY <2>1
<1>2. ASSUME NEW m \in 1..n, m - 1 \in T PROVE m \in T
  <2>1. PICK f : LoopFrom(loop, begin, list, x, f, m - 1)
    BY <1>2
  <2> DEFINE g == [k \in 0..m |-> IF k < m THEN f[k] ELSE Round(loop, f[m - 1], list[m], x)]
  <2>2. ASSUME NEW k \in 0..m
        PROVE  g[k] = IF k = 0 THEN begin ELSE Round(loop, g[k - 1], list[k], x)
    <3>1. CASE k = 0
      <4>1. g[0] = f[0] /\ 0 \in 0..(m - 1)
        BY <3>1
      <4> QED BY <2>1, <3>1, <4>1 DEF LoopFrom
    <3>2. CASE k \in 1..(m - 1)
      <4>1. g[k] = f[k] /\ g[k - 1] = f[k - 1] /\ k \in 0..(m - 1) /\ k # 0
        BY <3>2
      <4> HIDE DEF g
      <4>2. f[k] = Round(loop, f[k - 1], list[k], x)
        BY <2>1, <4>1 DEF LoopFrom
      <4> QED BY <4>1, <4>2
    <3>3. CASE k = m
      <4>1. g[m] = Round(loop, f[m - 1], list[m], x) /\ g[m - 1] = f[m - 1] /\ m # 0
        BY <3>3
      <4> HIDE DEF g
      <4> QED BY <3>3, <4>1
    <3> QED BY <3>1, <3>2, <3>3
  <2>3. LoopFrom(loop, begin, list, x, g, m)
    <3>1. g = [k \in 0..m |-> g[k]]
      OBVIOUS
    <3> HIDE DEF g
    <3> QED BY <2>2, <3>1, Zenon DEF LoopFrom
  <2> QED BY <2>3
<1> HIDE DEF T
<1>3. \A k \in 0..n : k \in T
  BY <1>1, <1>2, NatInduct
<1> QED BY <1>3 DEF T

\* How many processes find_harq gives up.
Old(h, at, k) ==
  /\ \A j \in 1 .. k : Past(h, h.lists.feedback[j], at)
  /\ k < Len(h.lists.feedback) => ~Past(h, h.lists.feedback[k + 1], at)

\* find_harq stops giving up processes, at the end of the list at the latest.
LEMMA OldExists ==
  ASSUME NEW h, NEW at, Len(h.lists.feedback) \in Nat
  PROVE  \E k \in 0 .. Len(h.lists.feedback) : Old(h, at, k)
<1> DEFINE fb == h.lists.feedback
           S == {k \in 0 .. Len(fb) : k < Len(fb) => ~Past(h, fb[k + 1], at)}
<1>1. Len(fb) \in S /\ S \subseteq Nat
  OBVIOUS
<1>2. S # {}
  BY <1>1
<1>3. Min(S) \in S /\ \A y \in S : Min(S) <= y
  <2> HIDE DEF S
  <2> QED BY <1>1, <1>2, MinNat
<1> DEFINE k == Min(S)
<1> HIDE DEF k
<1>4. k \in S /\ \A y \in S : k <= y
  BY <1>3 DEF k
<1>5. ASSUME NEW j \in 1 .. k PROVE Past(h, fb[j], at)
  <2>1. j - 1 \in 0 .. Len(fb) /\ j - 1 < Len(fb) /\ ~(k <= j - 1) /\ (j - 1) + 1 = j
    BY <1>4
  <2>2. j - 1 \notin S
    BY <1>4, <2>1
  <2> QED BY <2>1, <2>2
<1> QED BY <1>4, <1>5 DEF Old

\* find_harq gives up the processes before some place and names the one at that place.
LEMMA FindIs ==
  ASSUME NEW h, NEW at, Len(h.lists.feedback) \in Nat
  PROVE  LET fb == h.lists.feedback IN
         \E old \in 0 .. Len(fb) : \E f :
           /\ LoopFrom("find", h, fb, 0, f, old)
           /\ find_harq(h, at).h = f[old]
           /\ find_harq(h, at).pid # None => old # Len(fb) /\ find_harq(h, at).pid = fb[old + 1]
<1> DEFINE fb == h.lists.feedback
           old == CHOOSE k \in 0 .. Len(fb) :
                    /\ \A j \in 1 .. k : Past(h, fb[j], at)
                    /\ k < Len(fb) => ~Past(h, fb[k + 1], at)
           Body(f) == [k \in 0 .. old |-> IF k = 0 THEN h ELSE handle_dl_harq(RemoveFront(f[k - 1]), fb[k], FALSE)]
           skip == CHOOSE f : f = Body(f)
           pid == IF old = Len(fb) THEN None
                  ELSE IF Slot(h.procs[fb[old + 1]].feedback) > Slot(at) THEN None
                  ELSE fb[old + 1]
<1>1. find_harq(h, at) = [h |-> skip[old], pid |-> pid]
  BY Zenon DEF find_harq
<1>2. old \in 0 .. Len(fb)
  BY OldExists, Zenon DEF Old
<1> HIDE DEF old
<1>3. \A f : f = Body(f) <=> LoopFrom("find", h, fb, 0, f, old)
  BY Zenon DEF LoopFrom, Round
<1> HIDE DEF Body
<1>4. \E f : f = Body(f)
  <2>1. old \in Nat
    BY <1>2
  <2> QED BY <1>3, <2>1, LoopExists, Zenon
<1>5. skip = Body(skip)
  BY <1>4, Zenon
<1>6. LoopFrom("find", h, fb, 0, skip, old)
  BY <1>3, <1>5, Zenon
<1> HIDE DEF skip
<1>7. find_harq(h, at).h = skip[old] /\ find_harq(h, at).pid = pid
  <2> HIDE DEF pid
  <2> QED BY <1>1
<1>8. pid # None => old # Len(fb) /\ pid = fb[old + 1]
  OBVIOUS
<1> HIDE DEF pid
<1> QED BY <1>2, <1>6, <1>7, <1>8

\* A sequence without its first k elements.
LEMMA DropTail ==
  ASSUME NEW S, NEW s \in Seq(S), NEW k \in 0 .. (Len(s) - 1), NEW t \in Seq(S),
         Len(t) = Len(s) - k, \A i \in 1 .. Len(t) : t[i] = s[i + k]
  PROVE  /\ t # <<>> /\ Head(t) = s[k + 1] /\ Tail(t) \in Seq(S) /\ Len(Tail(t)) = Len(s) - (k + 1)
         /\ \A i \in 1 .. Len(Tail(t)) : Tail(t)[i] = s[i + (k + 1)]
<1>1. Len(s) \in Nat /\ Len(t) \in Nat /\ Len(t) > 0 /\ 1 \in 1 .. Len(t)
  OBVIOUS
<1>2. t # <<>> /\ Head(t) = t[1] /\ t[1] = s[1 + k] /\ 1 + k = k + 1
  BY <1>1
<1>3. Tail(t) \in Seq(S) /\ Len(Tail(t)) = Len(t) - 1 /\ \A i \in 1 .. (Len(t) - 1) : Tail(t)[i] = t[i + 1]
  BY <1>1, <1>2
<1>4. \A i \in 1 .. (Len(t) - 1) : i + 1 \in 1 .. Len(t) /\ (i + 1) + k = i + (k + 1)
  BY <1>1
<1>5. Len(t) - 1 = Len(s) - (k + 1)
  BY <1>1
<1> QED BY <1>2, <1>3, <1>4, <1>5

\* find_harq keeps the invariant and gives the process at the head of the list.
LEMMA FindInv ==
  ASSUME NEW h, NEW ndis, HarqInv(h, ndis), NEW at, NEW r, r = find_harq(h, at)
  PROVE  /\ HarqInv(r.h, ndis)
         /\ r.pid # None => r.h.lists.feedback # <<>> /\ r.pid = Head(r.h.lists.feedback)
<1> DEFINE fb == h.lists.feedback
<1>1. fb \in Seq(Pids) /\ Len(fb) \in Nat
  BY DEF HarqInv, Placed, Listed
<1>2. PICK old, f :
           /\ old \in 0 .. Len(fb)
           /\ LoopFrom("find", h, fb, 0, f, old)
           /\ find_harq(h, at).h = f[old]
           /\ find_harq(h, at).pid # None => old # Len(fb) /\ find_harq(h, at).pid = fb[old + 1]
  BY <1>1, FindIs
<1> HIDE DEF fb
<1> DEFINE Good(k) == /\ HarqInv(f[k], ndis) /\ f[k].lists.feedback \in Seq(Pids)
                      /\ Len(f[k].lists.feedback) = Len(fb) - k
                      /\ \A i \in 1 .. Len(f[k].lists.feedback) : f[k].lists.feedback[i] = fb[i + k]
           T == {k \in 0 .. old : Good(k)}
<1>3. 0 \in T
  <2>1. f[0] = h
    BY <1>2 DEF LoopFrom
  <2>2. Good(0)
    BY <1>1, <2>1 DEF fb
  <2> QED BY <1>2, <2>2
<1>4. ASSUME NEW k \in 1 .. old, k - 1 \in T PROVE k \in T
  <2>1. f[k] = handle_dl_harq(RemoveFront(f[k - 1]), fb[k], FALSE)
    BY <1>2 DEF LoopFrom, Round
  <2>2. Good(k - 1) /\ k - 1 \in 0 .. (Len(fb) - 1) /\ (k - 1) + 1 = k /\ k \in 0 .. old
    <3>1. k - 1 \in 0 .. (Len(fb) - 1) /\ (k - 1) + 1 = k /\ k \in 0 .. old
      BY <1>1, <1>2
    <3> HIDE DEF Good
    <3> QED BY <1>4, <3>1
  <2> PICK t, g : t = f[k - 1].lists.feedback /\ g = f[k - 1]
    OBVIOUS
  <2>3. /\ t # <<>> /\ Head(t) = fb[k] /\ Tail(t) \in Seq(Pids) /\ Len(Tail(t)) = Len(fb) - k
        /\ \A i \in 1 .. Len(Tail(t)) : Tail(t)[i] = fb[i + k]
    <3>1. t \in Seq(Pids) /\ Len(t) = Len(fb) - (k - 1) /\ \A i \in 1 .. Len(t) : t[i] = fb[i + (k - 1)]
      BY <2>2
    <3>2. /\ t # <<>> /\ Head(t) = fb[(k - 1) + 1] /\ Tail(t) \in Seq(Pids) /\ Len(Tail(t)) = Len(fb) - ((k - 1) + 1)
          /\ \A i \in 1 .. Len(Tail(t)) : Tail(t)[i] = fb[i + ((k - 1) + 1)]
      BY <1>1, <2>2, <3>1, DropTail
    <3> QED BY <2>2, <3>2
  <2>4. HarqInv(f[k], ndis) /\ f[k].lists.feedback = Tail(t)
    <3>1. HarqInv(g, ndis) /\ g.lists.feedback = t /\ f[k] = handle_dl_harq(RemoveFront(g), Head(t), FALSE)
      BY <2>1, <2>2, <2>3
    <3> PICK failure, p, u : failure = FALSE /\ p = Head(t) /\ u = f[k]
      OBVIOUS
    <3>2. HarqInv(g, ndis) /\ g.lists.feedback # <<>> /\ p = Head(g.lists.feedback) /\ u = handle_dl_harq(RemoveFront(g), p, failure)
      BY <2>3, <3>1
    <3>3. HarqInv(u, ndis) /\ u.lists.feedback = Tail(g.lists.feedback)
      BY <3>2, HandleInv
    <3> QED BY <3>1, <3>3
  <2> QED BY <2>2, <2>3, <2>4
<1>5. Good(old)
  <2> HIDE DEF Good
  <2>1. \A k \in 0 .. old : k \in T
    <3> HIDE DEF T
    <3>1. old \in Nat
      BY <1>1, <1>2
    <3> QED BY <1>3, <1>4, <3>1, NatInduct
  <2> QED BY <1>1, <1>2, <2>1
<1>6. r.pid # None => r.h.lists.feedback # <<>> /\ r.pid = Head(r.h.lists.feedback)
  <2> SUFFICES ASSUME r.pid # None PROVE r.h.lists.feedback # <<>> /\ r.pid = Head(r.h.lists.feedback)
    OBVIOUS
  <2>1. old \in 0 .. (Len(fb) - 1) /\ r.pid = fb[old + 1]
    BY <1>1, <1>2
  <2> QED BY <1>1, <1>2, <1>5, <2>1, DropTail
<1> QED BY <1>2, <1>5, <1>6

---------------------------------------------------------------------------
(* The bits of a UCI.                                                      *)

UciState(h, stop, waited, misread_) == [h |-> h, stop |-> stop, waited |-> waited, misread |-> misread_]

\* The assertion that the process was waiting has held so far.
UciInv(u, ndis) ==
  u = UciState(u.h, u.stop, u.waited, u.misread) /\ HarqInv(u.h, ndis) /\ u.waited = TRUE

\* One bit of the UCI: the process it is given to was waiting.
LEMMA BitInv ==
  ASSUME NEW u, NEW ndis, UciInv(u, ndis), NEW bit, NEW at, NEW v, v = ApplyBit(u, bit, at)
  PROVE  UciInv(v, ndis)
<1> PICK f : f = find_harq(u.h, at)
  OBVIOUS
<1>1. /\ HarqInv(f.h, ndis)
      /\ f.pid # None => f.h.lists.feedback # <<>> /\ f.pid = Head(f.h.lists.feedback)
  <2>1. HarqInv(u.h, ndis)
    BY DEF UciInv
  <2> PICK h : h = u.h
    OBVIOUS
  <2> QED BY <2>1, FindInv
<1>2. u = UciState(u.h, u.stop, u.waited, u.misread) /\ u.waited = TRUE /\ HarqInv(u.h, ndis)
  BY Zenon DEF UciInv
<1>3. CASE u.stop
  <2>1. v = [u EXCEPT !.misread = @ \/ bit.ack]
    BY <1>3 DEF ApplyBit
  <2>2. v = UciState(u.h, u.stop, u.waited, u.misread \/ bit.ack)
    BY <1>2, <2>1 DEF UciState
  <2>3. v.h = u.h /\ v.waited = u.waited /\ v = UciState(v.h, v.stop, v.waited, v.misread)
    BY <2>2 DEF UciState
  <2> QED BY <1>2, <2>3 DEF UciInv
<1>4. CASE ~u.stop /\ f.pid = None
  <2>1. v = [u EXCEPT !.h = f.h, !.stop = TRUE, !.misread = @ \/ bit.ack]
    BY <1>4 DEF ApplyBit
  <2>2. v = UciState(f.h, TRUE, u.waited, u.misread \/ bit.ack)
    BY <1>2, <2>1 DEF UciState
  <2>3. v.h = f.h /\ v.waited = u.waited /\ v = UciState(v.h, v.stop, v.waited, v.misread)
    BY <2>2 DEF UciState
  <2> QED BY <1>1, <1>2, <2>3 DEF UciInv
<1>5. CASE ~u.stop /\ f.pid # None
  <2> PICK g : g = handle_dl_harq(RemoveFront(f.h), f.pid, bit.ack)
    OBVIOUS
  <2> DEFINE m == u.misread \/ (bit.pid # None /\ bit.pid # f.pid)
             w == u.waited /\ f.h.procs[f.pid].is_waiting
  <2>1. v = UciState(g, FALSE, w, m)
    BY <1>5 DEF ApplyBit, UciState
  <2>2. HarqInv(g, ndis) /\ f.h.procs[f.pid].is_waiting
    <3> PICK h, p, ack : h = f.h /\ p = f.pid /\ ack = bit.ack
      OBVIOUS
    <3>1. HarqInv(h, ndis) /\ h.lists.feedback # <<>> /\ p = Head(h.lists.feedback) /\ g = handle_dl_harq(RemoveFront(h), p, ack)
      BY <1>1, <1>5
    <3>2. HarqInv(g, ndis) /\ h.procs[p].is_waiting
      BY <3>1, HandleInv
    <3> QED BY <3>2
  <2>3. w = TRUE
    BY <1>2, <2>2
  <2> HIDE DEF w, m
  <2>4. v.h = g /\ v.waited = w /\ v = UciState(v.h, v.stop, v.waited, v.misread)
    BY <2>1 DEF UciState
  <2> QED BY <2>2, <2>3, <2>4 DEF UciInv
<1> QED BY <1>3, <1>4, <1>5

\* All bits of a UCI, by induction on their number.
LEMMA HandleUciInv ==
  ASSUME NEW ind, Len(ind.bits) \in Nat, NEW h, h = [lists |-> lists, procs |-> procs],
         NEW ndis, HarqInv(h, ndis)
  PROVE  UciInv(handle_nr_uci(ind), ndis)
<1> DEFINE n == Len(ind.bits)
           begin == [h |-> [lists |-> lists, procs |-> procs], stop |-> FALSE, waited |-> TRUE, misread |-> misread]
           Body(f) == [i \in 0 .. Len(ind.bits) |-> IF i = 0 THEN begin ELSE ApplyBit(f[i - 1], ind.bits[i], ind.at)]
           after == CHOOSE f : f = Body(f)
<1>1. handle_nr_uci(ind) = after[n]
  BY Zenon DEF handle_nr_uci
<1>2. UciInv(begin, ndis)
  <2>1. begin.h = h /\ begin.waited = TRUE /\ begin = UciState(begin.h, begin.stop, begin.waited, begin.misread)
    BY DEF UciState
  <2> QED BY <2>1, Zenon DEF UciInv
<1> HIDE DEF begin
<1>3. \A f : f = Body(f) <=> LoopFrom("uci", begin, ind.bits, ind.at, f, n)
  BY Zenon DEF LoopFrom, Round
<1> HIDE DEF Body
<1>4. \E f : f = Body(f)
  BY <1>3, LoopExists, Zenon
<1>5. LoopFrom("uci", begin, ind.bits, ind.at, after, n)
  BY <1>3, <1>4, Zenon
<1> HIDE DEF after, n
<1>6. n \in Nat
  BY DEF n
<1> DEFINE T == {k \in 0 .. n : UciInv(after[k], ndis)}
<1>7. 0 \in T
  <2>1. after[0] = begin
    BY <1>5, <1>6 DEF LoopFrom
  <2> QED BY <1>2, <1>6, <2>1
<1>8. ASSUME NEW k \in 1 .. n, k - 1 \in T PROVE k \in T
  <2>1. after[k] = ApplyBit(after[k - 1], ind.bits[k], ind.at)
    BY <1>5, <1>6 DEF LoopFrom, Round
  <2>2. UciInv(after[k - 1], ndis) /\ k \in 0 .. n
    BY <1>6, <1>8
  <2> QED BY <2>1, <2>2, BitInv
<1>9. \A k \in 0 .. n : k \in T
  <2> HIDE DEF T
  <2> QED BY <1>6, <1>7, <1>8, NatInduct
<1> QED BY <1>1, <1>6, <1>9

---------------------------------------------------------------------------
(* The PUCCHs: bits are counted, and handed to the PHY as they were        *)
(* counted.                                                                *)

Sched(pucch, csi, vrb, failed, ahead) ==
  [pucch |-> pucch, csi |-> csi, vrb |-> vrb, failed |-> failed, ahead |-> ahead]
Pucch(at, dai_c, sr_flag) == [at |-> at, dai_c |-> dai_c, sr_flag |-> sr_flag]
CsiPucch(at, dai_c, bits) == [at |-> at, dai_c |-> dai_c, bits |-> bits]
Pdus == [format : {"harq", "csi"}, dai_c : Nat]
Slots == 0 .. (SlotsPerFrame - 1)

SchedOK(st) ==
  /\ st = Sched(st.pucch, st.csi, st.vrb, st.failed, st.ahead)
  /\ st.pucch = Pucch(st.pucch.at, st.pucch.dai_c, st.pucch.sr_flag) /\ st.pucch.dai_c \in 0 .. 2
  /\ st.csi = CsiPucch(st.csi.at, st.csi.dai_c, st.csi.bits) /\ st.csi.dai_c \in Nat
  /\ st.ahead \in [Slots -> Seq(Pdus)]
  /\ "is_waiting" \notin st.failed

\* An assertion other than the one on is_waiting.
LEMMA CheckOK ==
  ASSUME NEW st, SchedOK(st), NEW holds, NEW what, what # "is_waiting", NEW z, z = Check(st, holds, what)
  PROVE  SchedOK(z) /\ z.pucch = st.pucch /\ z.csi = st.csi /\ z.ahead = st.ahead
<1> DEFINE x == IF holds THEN st.failed ELSE st.failed \cup {what}
<1>1. "is_waiting" \notin x
  BY DEF SchedOK
<1>2. z = [st EXCEPT !.failed = x]
  BY DEF Check
<1> HIDE DEF x
<1>3. z = Sched(st.pucch, st.csi, st.vrb, x, st.ahead)
  BY <1>2 DEF SchedOK, Sched
<1>4. z.pucch = st.pucch /\ z.csi = st.csi /\ z.ahead = st.ahead /\ z.vrb = st.vrb /\ z.failed = x
  BY <1>3 DEF Sched
<1> QED BY <1>1, <1>3, <1>4 DEF SchedOK

\* nr_fill_nfapi_pucch hands a PUCCH to the PHY.
LEMMA FillOK ==
  ASSUME NEW st, SchedOK(st), NEW at, NEW pdu, pdu.dai_c \in Nat, pdu.format \in {"harq", "csi"},
         NEW z, z = Fill(st, at, pdu)
  PROVE  SchedOK(z) /\ z.pucch = st.pucch /\ z.csi = st.csi
<1> DEFINE s == Slot(pdu.at)
           e == [format |-> pdu.format, dai_c |-> pdu.dai_c]
           x == [st.ahead EXCEPT ![s] = Append(@, e)]
<1>9. PICK y : y = [st EXCEPT !.ahead[Slot(pdu.at)] = Append(@, [format |-> pdu.format, dai_c |-> pdu.dai_c])]
  OBVIOUS
<1>1. e \in Pdus
  BY DEF Pdus
<1> HIDE DEF e, s
<1>2. x \in [Slots -> Seq(Pdus)]
  <2>1. st.ahead \in [Slots -> Seq(Pdus)]
    BY DEF SchedOK
  <2>2. \A i \in Slots : Append(st.ahead[i], e) \in Seq(Pdus)
    BY <1>1, <2>1
  <2> QED BY <2>1, <2>2
<1>3. y = Sched(st.pucch, st.csi, st.vrb, st.failed, x)
  BY <1>9 DEF SchedOK, Sched, e, s
<1> HIDE DEF x
<1>4. y.pucch = st.pucch /\ y.csi = st.csi /\ y.ahead = x /\ y.vrb = st.vrb /\ y.failed = st.failed
  BY <1>3 DEF Sched
<1>5. SchedOK(y)
  BY <1>2, <1>3, <1>4 DEF SchedOK
<1>8. PICK holds, what : holds = ((pdu.at - at) % Cycle < SlotsPerFrame) /\ what = "UL_tti_req_ahead"
  OBVIOUS
<1>6. z = Check(y, holds, what) /\ what # "is_waiting"
  BY <1>8, <1>9 DEF Fill
<1>7. SchedOK(z) /\ z.pucch = y.pucch /\ z.csi = y.csi
  BY <1>5, <1>6, CheckOK
<1> QED BY <1>4, <1>7

\* Assigning to one of the two PUCCHs, or to vrb_map_UL.
LEMMA AssignOK ==
  ASSUME NEW st, SchedOK(st)
  PROVE  /\ \A z, at, dai_c, sr_flag : z = Sched(Pucch(at, dai_c, sr_flag), st.csi, st.vrb, st.failed, st.ahead) /\ dai_c \in 0 .. 2
              => SchedOK(z) /\ z.pucch.dai_c = dai_c /\ z.csi = st.csi
         /\ \A z, at, dai_c, bits : z = Sched(st.pucch, CsiPucch(at, dai_c, bits), st.vrb, st.failed, st.ahead) /\ dai_c \in Nat
              => SchedOK(z) /\ z.pucch = st.pucch
         /\ \A z, vrb : z = Sched(st.pucch, st.csi, vrb, st.failed, st.ahead)
              => SchedOK(z) /\ z.pucch = st.pucch /\ z.csi = st.csi
         /\ \A z, vrb, ahead : z = Sched(st.pucch, st.csi, vrb, st.failed, ahead) /\ ahead \in [Slots -> Seq(Pdus)]
              => SchedOK(z) /\ z.pucch = st.pucch /\ z.csi = st.csi
<1>1. ASSUME NEW z, NEW at, NEW dai_c, NEW sr_flag, dai_c \in 0 .. 2,
             z = Sched(Pucch(at, dai_c, sr_flag), st.csi, st.vrb, st.failed, st.ahead)
      PROVE  SchedOK(z) /\ z.pucch.dai_c = dai_c /\ z.csi = st.csi
  <2>1. z.pucch = Pucch(at, dai_c, sr_flag) /\ z.csi = st.csi /\ z.ahead = st.ahead /\ z.vrb = st.vrb /\ z.failed = st.failed
    BY <1>1 DEF Sched
  <2>2. z.pucch.at = at /\ z.pucch.dai_c = dai_c /\ z.pucch.sr_flag = sr_flag
    BY <2>1 DEF Pucch
  <2> QED BY <1>1, <2>1, <2>2 DEF SchedOK
<1>2. ASSUME NEW z, NEW at, NEW dai_c, NEW bits, dai_c \in Nat,
             z = Sched(st.pucch, CsiPucch(at, dai_c, bits), st.vrb, st.failed, st.ahead)
      PROVE  SchedOK(z) /\ z.pucch = st.pucch
  <2>1. z.csi = CsiPucch(at, dai_c, bits) /\ z.pucch = st.pucch /\ z.ahead = st.ahead /\ z.vrb = st.vrb /\ z.failed = st.failed
    BY <1>2 DEF Sched
  <2>2. z.csi.at = at /\ z.csi.dai_c = dai_c /\ z.csi.bits = bits
    BY <2>1 DEF CsiPucch
  <2> QED BY <1>2, <2>1, <2>2 DEF SchedOK
<1>3. ASSUME NEW z, NEW vrb, NEW ahead, z = Sched(st.pucch, st.csi, vrb, st.failed, ahead), ahead \in [Slots -> Seq(Pdus)]
      PROVE  SchedOK(z) /\ z.pucch = st.pucch /\ z.csi = st.csi
  <2>1. z.csi = st.csi /\ z.pucch = st.pucch /\ z.ahead = ahead /\ z.vrb = vrb /\ z.failed = st.failed
    BY <1>3 DEF Sched
  <2> QED BY <1>3, <2>1 DEF SchedOK
<1>4. st.ahead \in [Slots -> Seq(Pdus)]
  BY DEF SchedOK
<1> QED BY <1>1, <1>2, <1>3, <1>4

\* A PUCCH handed to the PHY before another one is begun.
LEMMA FillsOK ==
  ASSUME NEW st, SchedOK(st), NEW at
  PROVE  /\ SchedOK(Fill(st, at, Harq(st.pucch))) /\ Fill(st, at, Harq(st.pucch)).pucch = st.pucch
         /\ SchedOK(FillUnlessCsi(st, at)) /\ FillUnlessCsi(st, at).pucch = st.pucch
         /\ SchedOK(FillCsi(st, at)) /\ FillCsi(st, at).pucch = st.pucch
<1>1. st.pucch.dai_c \in Nat /\ st.csi.dai_c \in Nat
  BY DEF SchedOK
<1> PICK pdu : pdu = Harq(st.pucch)
  OBVIOUS
<1>2. pdu.dai_c \in Nat /\ pdu.format \in {"harq", "csi"}
  BY <1>1 DEF Harq
<1> PICK y : y = Fill(st, at, Harq(st.pucch))
  OBVIOUS
<1>3. SchedOK(y) /\ y.pucch = st.pucch
  BY <1>2, FillOK
<1>4. SchedOK(FillUnlessCsi(st, at)) /\ FillUnlessCsi(st, at).pucch = st.pucch
  BY <1>3 DEF FillUnlessCsi
<1> PICK cpdu : cpdu = Csi(st.csi)
  OBVIOUS
<1>5. cpdu.dai_c \in Nat /\ cpdu.format \in {"harq", "csi"}
  BY <1>1 DEF Csi
<1> PICK c : c = Fill(st, at, Csi(st.csi))
  OBVIOUS
<1>6. SchedOK(c) /\ c.pucch = st.pucch
  BY <1>5, FillOK
<1> PICK d : d = FillCsi(st, at)
  OBVIOUS
<1>7. d = [c EXCEPT !.csi = NoCsi]
  BY DEF FillCsi
<1>8. d = Sched(c.pucch, CsiPucch(0, 0, 0), c.vrb, c.failed, c.ahead)
  BY <1>6, <1>7 DEF SchedOK, Sched, NoCsi, CsiPucch
<1>9. SchedOK(d) /\ d.pucch = c.pucch
  <2>1. 0 \in Nat
    OBVIOUS
  <2> QED BY <1>6, <1>8, <2>1, AssignOK
<1> QED BY <1>3, <1>4, <1>6, <1>9

\* A new PUCCH has no bit yet.
LEMMA MoveToOK ==
  ASSUME NEW st, SchedOK(st), NEW o, NEW z, z = MoveTo(st, o)
  PROVE  SchedOK(z) /\ z.pucch.dai_c = 0
<1> PICK p : p = [NoPucch EXCEPT !.at = o]
  OBVIOUS
<1> PICK no : no = FALSE
  OBVIOUS
<1>1. p = Pucch(o, 0, no)
  BY DEF NoPucch, Pucch
<1>2. z = [st EXCEPT !.pucch = p]
  BY DEF MoveTo
<1>3. z = Sched(Pucch(o, 0, no), st.csi, st.vrb, st.failed, st.ahead)
  BY <1>1, <1>2 DEF SchedOK, Sched
<1>4. 0 \in 0 .. 2
  OBVIOUS
<1> QED BY <1>3, <1>4, AssignOK

\* A PUCCH with two bits is closed before a third one comes.
LEMMA MakeRoomOK ==
  ASSUME NEW st, SchedOK(st), NEW at, NEW z, z = MakeRoom(st, at)
  PROVE  SchedOK(z) /\ z.pucch.dai_c \in 0 .. 1
<1> DEFINE next == NextUplink(st.pucch.at)
<1>1. CASE st.pucch.dai_c # 2
  <2>1. z = st /\ st.pucch.dai_c \in 0 .. 2
    BY <1>1 DEF MakeRoom, SchedOK
  <2> QED BY <1>1, <2>1
<1>2. CASE st.pucch.dai_c = 2
  <2> PICK f : f = FillUnlessCsi(st, at)
    OBVIOUS
  <2> PICK c : c = FillCsi(f, at)
    OBVIOUS
  <2>1. SchedOK(f)
    BY FillsOK
  <2>2. SchedOK(c)
    BY <2>1, FillsOK
  <2>3. z = MoveTo(c, NextUplink(next)) \/ z = MoveTo(f, next)
    BY <1>2 DEF MakeRoom
  <2> HIDE DEF next
  <2>4. SchedOK(z) /\ z.pucch.dai_c = 0
    BY <2>1, <2>2, <2>3, MoveToOK
  <2> QED BY <2>4
<1> QED BY <1>1, <1>2

\* A bit more, on a PUCCH that has room.
LEMMA AddBitOK ==
  ASSUME NEW st, SchedOK(st), st.pucch.dai_c \in 0 .. 1, NEW z, z = AddBit(st)
  PROVE  SchedOK(z)
<1>a. PICK n : n = IF SameSlot(st.csi, st.pucch.at) THEN st.csi.dai_c + 1 ELSE st.csi.dai_c
  OBVIOUS
<1>1. n \in Nat /\ st.pucch.dai_c + 1 \in 0 .. 2
  BY <1>a DEF SchedOK
<1>2. z = [st EXCEPT !.pucch.dai_c = @ + 1, !.csi.dai_c = n]
  BY <1>a DEF AddBit
<1>b. PICK p, c, m : p = st.pucch /\ c = st.csi /\ m = st.pucch.dai_c + 1
  OBVIOUS
<1>3. st = Sched(p, c, st.vrb, st.failed, st.ahead) /\ p = Pucch(p.at, p.dai_c, p.sr_flag) /\ c = CsiPucch(c.at, c.dai_c, c.bits)
  BY <1>b DEF SchedOK
<1>4. z = Sched([p EXCEPT !.dai_c = @ + 1], [c EXCEPT !.dai_c = n], st.vrb, st.failed, st.ahead)
  BY <1>b, <1>2, <1>3 DEF Sched
<1>5. [p EXCEPT !.dai_c = @ + 1] = Pucch(p.at, p.dai_c + 1, p.sr_flag)
  BY <1>3 DEF Pucch
<1>6. [c EXCEPT !.dai_c = n] = CsiPucch(c.at, n, c.bits)
  BY <1>3 DEF CsiPucch
<1>c. PICK y : y = Sched(Pucch(p.at, p.dai_c + 1, p.sr_flag), st.csi, st.vrb, st.failed, st.ahead)
  OBVIOUS
<1>7. SchedOK(y)
  <2>1. PICK k : k = p.dai_c + 1
    OBVIOUS
  <2>2. k \in 0 .. 2 /\ y = Sched(Pucch(p.at, k, p.sr_flag), st.csi, st.vrb, st.failed, st.ahead)
    BY <1>b, <1>c, <1>1, <2>1
  <2> QED BY <2>2, AssignOK
<1>8. z = Sched(y.pucch, CsiPucch(c.at, n, c.bits), y.vrb, y.failed, y.ahead)
  BY <1>c, <1>4, <1>5, <1>6 DEF Sched
<1> QED BY <1>1, <1>7, <1>8, AssignOK

SetAt(st, o) == [st EXCEPT !.pucch.at = o]

\* A PUCCH moved to another occasion keeps its bits.
LEMMA AtOK ==
  ASSUME NEW st, SchedOK(st), NEW o, NEW z, z = SetAt(st, o)
  PROVE  SchedOK(z) /\ z.pucch.dai_c = st.pucch.dai_c
<1>1. PICK p : p = st.pucch
  OBVIOUS
<1>2. st = Sched(p, st.csi, st.vrb, st.failed, st.ahead) /\ p = Pucch(p.at, p.dai_c, p.sr_flag) /\ p.dai_c \in 0 .. 2
  BY <1>1 DEF SchedOK
<1>3. z = Sched([p EXCEPT !.at = o], st.csi, st.vrb, st.failed, st.ahead)
  BY <1>2 DEF Sched, SetAt
<1>4. [p EXCEPT !.at = o] = Pucch(o, p.dai_c, p.sr_flag)
  BY <1>2 DEF Pucch
<1>5. z = Sched(Pucch(o, p.dai_c, p.sr_flag), st.csi, st.vrb, st.failed, st.ahead)
  BY <1>3, <1>4
<1> QED BY <1>1, <1>2, <1>5, AssignOK

\* A PUCCH of the past is moved, with the bits it has.
LEMMA RenewOK ==
  ASSUME NEW st, SchedOK(st), NEW at, NEW z, z = Renew(st, at)
  PROVE  SchedOK(z) /\ z.pucch.dai_c = st.pucch.dai_c
<1>1. CASE Outdated(at, st.pucch)
  <2>1. PICK holds, what : holds = (~st.pucch.sr_flag) /\ what = "expected no SR/AckNack"
    OBVIOUS
  <2>2. PICK c : c = Check(st, holds, what)
    OBVIOUS
  <2>3. z = [c EXCEPT !.pucch.at = FirstUplink(at)] /\ what # "is_waiting"
    BY <1>1, <2>1, <2>2 DEF Renew
  <2>4. SchedOK(c) /\ c.pucch = st.pucch
    BY <2>2, <2>3, CheckOK
  <2>5. PICK o : o = FirstUplink(at)
    OBVIOUS
  <2>6. z = SetAt(c, o)
    BY <2>3, <2>5 DEF SetAt
  <2>7. SchedOK(z) /\ z.pucch.dai_c = c.pucch.dai_c
    BY <2>4, <2>6, AtOK
  <2> QED BY <2>4, <2>7
<1>2. CASE ~Outdated(at, st.pucch)
  BY <1>2 DEF Renew
<1> QED BY <1>1, <1>2

\* The search for an occasion keeps the bits.
LEMMA SearchOK ==
  ASSUME NEW st, SchedOK(st), NEW at, NEW others, NEW r, r = Search(st, at, others)
  PROVE  SchedOK(r.st) /\ r.st.pucch.dai_c = st.pucch.dai_c
<1>1. \E o : r.st = [Renew(st, at) EXCEPT !.pucch.at = o]
  BY Zenon DEF Search
<1>2. PICK o, b, z : b = Renew(st, at) /\ z = r.st /\ z = SetAt(b, o)
  BY <1>1 DEF SetAt
<1>3. SchedOK(b) /\ b.pucch.dai_c = st.pucch.dai_c
  BY <1>2, RenewOK
<1>4. SchedOK(z) /\ z.pucch.dai_c = b.pucch.dai_c
  BY <1>2, <1>3, AtOK
<1> QED BY <1>2, <1>3, <1>4

\* A bit is added to the PUCCH that was found.
LEMMA TookOK ==
  ASSUME NEW st, SchedOK(st), st.pucch.dai_c \in 0 .. 1, NEW both, NEW z,
         z = [AddBit(st) EXCEPT !.vrb = IF both THEN @ ELSE @ \cup {Slot(st.pucch.at)}]
  PROVE  SchedOK(z)
<1>1. PICK a : a = AddBit(st)
  OBVIOUS
<1>2. PICK v : v = IF both THEN a.vrb ELSE a.vrb \cup {Slot(st.pucch.at)}
  OBVIOUS
<1>3. z = [a EXCEPT !.vrb = v]
  BY <1>1, <1>2
<1>4. SchedOK(a)
  BY <1>1, AddBitOK
<1>5. z = Sched(a.pucch, a.csi, v, a.failed, a.ahead)
  BY <1>3, <1>4 DEF SchedOK, Sched
<1> QED BY <1>4, <1>5, AssignOK

\* The search, with the PUCCH that carries CSI in its way.
LEMMA FindOK ==
  ASSUME NEW st, SchedOK(st), st.pucch.dai_c \in 0 .. 1, NEW at, NEW others, NEW r, r = Find(st, at, others)
  PROVE  SchedOK(r.st)
<1>1. PICK s : s = Search(st, at, others)
  OBVIOUS
<1>2. SchedOK(s.st) /\ s.st.pucch.dai_c \in 0 .. 1
  BY <1>1, SearchOK
<1>3. PICK c : c = FillCsi(s.st, at)
  OBVIOUS
<1>4. SchedOK(c)
  BY <1>2, <1>3, FillsOK
<1>5. PICK m : m = MoveTo(c, NextUplink(s.st.pucch.at))
  OBVIOUS
<1>6. SchedOK(m) /\ m.pucch.dai_c = 0
  BY <1>4, <1>5, MoveToOK
<1>7. PICK l : l = Search(m, at, others)
  OBVIOUS
<1>8. SchedOK(l.st) /\ l.st.pucch.dai_c \in 0 .. 1
  <2>1. SchedOK(l.st) /\ l.st.pucch.dai_c = m.pucch.dai_c
    BY <1>6, <1>7, SearchOK
  <2> QED BY <1>6, <2>1
<1>9. PICK sh : sh = (SameSlot(s.st.csi, s.st.pucch.at) /\ Multiplexed(s.st.csi))
  OBVIOUS
<1> DEFINE took(x) == [AddBit(x) EXCEPT !.vrb = IF sh THEN @ ELSE @ \cup {Slot(x.pucch.at)}]
<1>10. SchedOK(took(s.st)) /\ SchedOK(took(l.st))
  BY <1>2, <1>8, TookOK
<1>11. r = s \/ r = l \/ r.st = took(s.st) \/ r.st = took(l.st)
  BY <1>1, <1>3, <1>5, <1>7, <1>9, Zenon DEF Find
<1> QED BY <1>2, <1>8, <1>10, <1>11

\* nr_acknack_scheduling keeps at most two bits on a PUCCH.
LEMMA AckNackOK ==
  ASSUME NEW st, SchedOK(st), NEW at, NEW others, NEW r, r = nr_acknack_scheduling(st, at, others)
  PROVE  SchedOK(r.st)
<1>1. PICK room : room = MakeRoom(st, at)
  OBVIOUS
<1>2. SchedOK(room) /\ room.pucch.dai_c \in 0 .. 1
  BY <1>1, MakeRoomOK
<1>3. PICK a : a = AddBit(room)
  OBVIOUS
<1>4. SchedOK(a)
  BY <1>2, <1>3, AddBitOK
<1>5. PICK f : f = FillUnlessCsi(room, at)
  OBVIOUS
<1>6. SchedOK(f)
  BY <1>2, <1>5, FillsOK
<1>7. PICK m : m = MoveTo(f, NextUplink(room.pucch.at))
  OBVIOUS
<1>8. SchedOK(m) /\ m.pucch.dai_c \in 0 .. 1
  <2>1. SchedOK(m) /\ m.pucch.dai_c = 0
    BY <1>6, <1>7, MoveToOK
  <2> QED BY <2>1
<1>9. r = Find(room, at, others) \/ r.st = a \/ r = Find(m, at, others)
  BY <1>1, <1>3, <1>5, <1>7, Zenon DEF nr_acknack_scheduling
<1>10. r = Find(room, at, others) => SchedOK(r.st)
  BY <1>2, FindOK
<1>11. r = Find(m, at, others) => SchedOK(r.st)
  BY <1>8, FindOK
<1> QED BY <1>4, <1>9, <1>10, <1>11

\* The slot that has passed is cleared.
LEMMA NewSlotOK ==
  ASSUME NEW st, SchedOK(st), NEW at, NEW z, z = NewSlot(st, at)
  PROVE  SchedOK(z)
<1>1. PICK last : last = (Slot(at) + SlotsPerFrame - 1) % SlotsPerFrame
  OBVIOUS
<1>2. PICK x, v : x = [st.ahead EXCEPT ![last] = <<>>] /\ v = st.vrb \ {last}
  OBVIOUS
<1>3. x \in [Slots -> Seq(Pdus)]
  <2>1. st.ahead \in [Slots -> Seq(Pdus)] /\ <<>> \in Seq(Pdus)
    BY EmptySet DEF SchedOK
  <2> QED BY <1>2, <2>1
<1>4. z = [st EXCEPT !.ahead[last] = <<>>, !.vrb = @ \ {last}]
  BY <1>1 DEF NewSlot
<1>5. z = Sched(st.pucch, st.csi, v, st.failed, x)
  BY <1>2, <1>4 DEF SchedOK, Sched
<1> QED BY <1>3, <1>5, AssignOK

\* nr_csi_meas_reporting begins a PUCCH with CSI, or clears it.
LEMMA CsiReportOK ==
  ASSUME NEW st, SchedOK(st), NEW at, NEW paused, NEW taken, NEW z,
         z = nr_csi_meas_reporting(st, at, paused, taken)
  PROVE  SchedOK(z)
<1>1. CASE ~paused /\ CsiDue(at)
  <2>1. PICK holds, what : holds = (st.csi.bits = 0 /\ st.csi.dai_c = 0) /\ what = "PUCCH not free at index 1"
    OBVIOUS
  <2>2. PICK c : c = Check(st, holds, what)
    OBVIOUS
  <2>3. PICK o, bits : /\ o = IF taken THEN 0 ELSE At(Frame(at), CsiSlot)
                       /\ bits = IF taken THEN 0 ELSE CsiBits
    OBVIOUS
  <2>4. PICK p : p = CsiPucch(o, 0, bits)
    OBVIOUS
  <2>5. z = [c EXCEPT !.csi = p] /\ what # "is_waiting"
    <3>1. CASE taken
      BY <1>1, <2>1, <2>2, <2>3, <2>4, <3>1 DEF nr_csi_meas_reporting, CsiPucch, NoCsi
    <3>2. CASE ~taken
      BY <1>1, <2>1, <2>2, <2>3, <2>4, <3>2 DEF nr_csi_meas_reporting, CsiPucch
    <3> QED BY <3>1, <3>2
  <2>6. SchedOK(c)
    BY <2>2, <2>5, CheckOK
  <2>7. z = Sched(c.pucch, CsiPucch(o, 0, bits), c.vrb, c.failed, c.ahead)
    BY <2>4, <2>5, <2>6 DEF SchedOK, Sched
  <2>8. 0 \in Nat
    OBVIOUS
  <2> QED BY <2>6, <2>7, <2>8, AssignOK
<1>2. CASE paused \/ ~CsiDue(at)
  BY <1>2 DEF nr_csi_meas_reporting
<1> QED BY <1>1, <1>2

\* nr_schedule_pucch hands over what is due.
LEMMA SchedulePucchOK ==
  ASSUME NEW st, SchedOK(st), NEW at, NEW z, z = nr_schedule_pucch(st, at)
  PROVE  SchedOK(z)
<1>1. PICK f : f = Fill(st, at, Harq(st.pucch))
  OBVIOUS
<1>2. SchedOK(f)
  BY <1>1, FillsOK
<1>3. PICK e : e = [f EXCEPT !.pucch = NoPucch]
  OBVIOUS
<1>4. SchedOK(e)
  <2>1. PICK no : no = FALSE
    OBVIOUS
  <2>2. NoPucch = Pucch(0, 0, no)
    BY <2>1 DEF NoPucch, Pucch
  <2>3. e = Sched(Pucch(0, 0, no), f.csi, f.vrb, f.failed, f.ahead)
    BY <1>2, <1>3, <2>2 DEF SchedOK, Sched
  <2>4. 0 \in 0 .. 2
    OBVIOUS
  <2> QED BY <1>2, <2>3, <2>4, AssignOK
<1>5. z \in {st, FillCsi(st, at), e, FillCsi(e, at)}
  BY <1>1, <1>3 DEF nr_schedule_pucch
<1>6. SchedOK(FillCsi(st, at)) /\ SchedOK(FillCsi(e, at))
  BY <1>4, FillsOK
<1> QED BY <1>4, <1>5, <1>6

\* nr_sr_reporting adds the SR to a PUCCH or makes one for it.
LEMMA SrReportOK ==
  ASSUME NEW st, SchedOK(st), NEW at, NEW paused, NEW z, z = nr_sr_reporting(st, at, paused)
  PROVE  SchedOK(z)
<1>1. PICK y : y = [st EXCEPT !.pucch.sr_flag = TRUE]
  OBVIOUS
<1>2. SchedOK(y)
  <2>1. PICK p, yes : p = st.pucch /\ yes = TRUE
    OBVIOUS
  <2>2. st = Sched(p, st.csi, st.vrb, st.failed, st.ahead) /\ p = Pucch(p.at, p.dai_c, p.sr_flag) /\ p.dai_c \in 0 .. 2
    BY <2>1 DEF SchedOK
  <2>3. y = Sched([p EXCEPT !.sr_flag = yes], st.csi, st.vrb, st.failed, st.ahead)
    BY <1>1, <2>1, <2>2 DEF Sched
  <2>4. [p EXCEPT !.sr_flag = yes] = Pucch(p.at, p.dai_c, yes)
    BY <2>2 DEF Pucch
  <2>5. y = Sched(Pucch(p.at, p.dai_c, yes), st.csi, st.vrb, st.failed, st.ahead)
    BY <2>3, <2>4
  <2> QED BY <2>2, <2>5, AssignOK
<1>3. PICK pdu : pdu = Harq([NoPucch EXCEPT !.at = at])
  OBVIOUS
<1>4. pdu.dai_c \in Nat /\ pdu.format \in {"harq", "csi"}
  BY <1>3 DEF Harq, NoPucch
<1>5. PICK f : f = Fill(st, at, pdu)
  OBVIOUS
<1>6. SchedOK(f)
  BY <1>4, <1>5, FillOK
<1>7. z = st \/ z = y \/ z = f
  BY <1>1, <1>3, <1>5 DEF nr_sr_reporting
<1> QED BY <1>2, <1>6, <1>7

\* What every slot begins with.
LEMMA BeginOK ==
  ASSUME SchedOK(sched), NEW c
  PROVE  SchedOK(Begin(c))
<1>1. PICK s, paused, taken : s = NewSlot(sched, now) /\ paused = c.paused /\ taken = c.taken
  OBVIOUS
<1>2. SchedOK(s)
  BY <1>1, NewSlotOK
<1>3. Begin(c) = nr_csi_meas_reporting(s, now, paused, taken)
  BY <1>1 DEF Begin
<1> QED BY <1>2, <1>3, CsiReportOK

---------------------------------------------------------------------------
(* The indications on their way.                                           *)

BitSet == [pid : Pids \cup {None}, ack : BOOLEAN]
Inds == [at : Nat, bits : Seq(BitSet)]

\* A slot number is one of the frame.
LEMMA SlotIs == ASSUME NEW o \in Nat PROVE Slot(o) \in Slots
<1>1. SlotsPerFrame \in Nat \ {0}
  BY PucchAssumption
<1> QED BY <1>1 DEF Slot, Slots

\* The bits the PHY indicates for a PDU are one for each bit the MAC announced.
LEMMA BitsOK ==
  ASSUME NEW pdu \in Pdus, now \in Nat, reports \in [Slots -> Seq(Pids)],
         NEW acks \in [DOMAIN reports[Slot(now)] -> BOOLEAN]
  PROVE  Bits(pdu, acks) \in Seq(BitSet)
<1>1. PICK r : r = reports[Slot(now)]
  OBVIOUS
<1>2. r \in Seq(Pids) /\ acks \in [DOMAIN r -> BOOLEAN]
  BY <1>1, SlotIs
<1>3. PICK uses : uses = ((pdu.format = "csi") = UeUsesCsi)
  OBVIOUS
<1>4. PICK n : n = pdu.dai_c
  OBVIOUS
<1>5. n \in Nat
  BY <1>4 DEF Pdus
<1> DEFINE bit(i) == IF uses /\ i \in DOMAIN acks THEN [pid |-> r[i], ack |-> acks[i]] ELSE [pid |-> None, ack |-> FALSE]
<1>6. ASSUME NEW i PROVE bit(i) \in BitSet
  <2>1. i \in DOMAIN acks => r[i] \in Pids /\ acks[i] \in BOOLEAN
    BY <1>2, SeqElement
  <2>2. i \in DOMAIN acks => [pid |-> r[i], ack |-> acks[i]] \in BitSet
    BY <2>1, Zenon DEF BitSet
  <2>3. [pid |-> None, ack |-> FALSE] \in BitSet
    BY Zenon DEF BitSet
  <2> QED BY <2>2, <2>3
<1>7. Bits(pdu, acks) = [i \in 1 .. n |-> bit(i)]
  BY <1>1, <1>3, <1>4 DEF Bits
<1> HIDE DEF bit
<1>8. Bits(pdu, acks) \in [1 .. n -> BitSet]
  BY <1>6, <1>7
<1> QED BY <1>5, <1>8

\* The PHY indicates no more than the PDUs it was given.
LEMMA IndicationsOK ==
  ASSUME NEW pdus \in Seq(Pdus), now \in Nat, reports \in [Slots -> Seq(Pids)],
         NEW acks \in [DOMAIN reports[Slot(now)] -> BOOLEAN]
  PROVE  Indications(pdus, acks) \in Seq(Inds)
<1> DEFINE n == Len(pdus)
           Body(f) == [j \in 0 .. Len(pdus) |->
                         IF j = 0 THEN <<>>
                         ELSE IF pdus[j].dai_c > 0 THEN Append(f[j - 1], [at |-> now, bits |-> Bits(pdus[j], acks)])
                         ELSE f[j - 1]]
           ind == CHOOSE f : f = Body(f)
<1>1. Indications(pdus, acks) = ind[n]
  BY Zenon DEF Indications
<1>3. \A f : f = Body(f) <=> LoopFrom("ind", <<>>, pdus, acks, f, n)
  BY Zenon DEF LoopFrom, Round, IndicationStep
<1> HIDE DEF Body
<1>9. n \in Nat
  OBVIOUS
<1>4. \E f : f = Body(f)
  BY <1>3, <1>9, LoopExists, Zenon
<1>5. LoopFrom("ind", <<>>, pdus, acks, ind, n)
  BY <1>3, <1>4, Zenon
<1> HIDE DEF ind
<1> DEFINE T == {k \in 0 .. n : ind[k] \in Seq(Inds)}
<1>6. 0 \in T
  <2>1. ind[0] = <<>>
    BY <1>5, <1>9 DEF LoopFrom
  <2>2. ind[0] \in Seq(Inds)
    BY <2>1, EmptySet
  <2>3. 0 \in 0 .. n
    BY <1>9
  <2> QED BY <2>2, <2>3, Zenon
<1>7. ASSUME NEW k \in 1 .. n, k - 1 \in T PROVE k \in T
  <2>0. k \in 0 .. n /\ k # 0
    BY <1>9
  <2>1. ind[k] = IndicationStep(ind[k - 1], pdus[k], acks)
    <3>1. ind[k] = Round("ind", ind[k - 1], pdus[k], acks)
      <4> HIDE DEF n
      <4> QED BY <1>5, <2>0, Zenon DEF LoopFrom
    <3> QED BY <3>1, Zenon DEF Round
  <2>2. ind[k - 1] \in Seq(Inds) /\ k \in 0 .. n /\ pdus[k] \in Pdus
    BY <1>9, <1>7
  <2>3. Bits(pdus[k], acks) \in Seq(BitSet)
    BY <2>2, BitsOK
  <2>4. [at |-> now, bits |-> Bits(pdus[k], acks)] \in Inds
    BY <2>3, Zenon DEF Inds
  <2>5. PICK a, i : a = [at |-> now, bits |-> Bits(pdus[k], acks)] /\ i = ind[k - 1]
    OBVIOUS
  <2>6. Append(i, a) \in Seq(Inds)
    BY <2>2, <2>4, <2>5
  <2> QED BY <2>1, <2>2, <2>5, <2>6 DEF IndicationStep
<1>8. \A k \in 0 .. n : k \in T
  <2> HIDE DEF T, n
  <2> QED BY <1>9, <1>6, <1>7, NatInduct
<1> QED BY <1>1, <1>9, <1>8

---------------------------------------------------------------------------
(* The steps.                                                              *)

DlInv ==
  /\ now \in Nat /\ reports \in [Slots -> Seq(Pids)] /\ uci \in Seq(Inds)
  /\ sent = [p \in Pids |-> sent[p]]
  /\ SchedOK(sched)
  /\ HarqInv([lists |-> lists, procs |-> procs], sent)

\* The next slot is a natural number.
LEMMA TickIs == ASSUME NEW o \in Nat PROVE Tick(o) \in Nat
<1>1. Cycle \in Nat \ {0}
  <2>1. SlotsPerFrame \in Nat \ {0} /\ Frames \in Nat \ {0}
    BY PucchAssumption
  <2>2. \A a, b \in Nat \ {0} : a * b \in Nat \ {0}
    OBVIOUS
  <2> QED BY <2>1, <2>2 DEF Cycle
<1> QED BY <1>1 DEF Tick

\* The first state.
LEMMA InitInv == Init => DlInv
<1> SUFFICES ASSUME Init PROVE DlInv
  OBVIOUS
<1>0. NrofHARQ \in Nat \ {0} /\ HarqRoundMax \in Nat \ {0} /\ SlotsPerFrame \in Nat \ {0}
  BY HarqAssumption, PucchAssumption
<1>1. now \in Nat /\ uci \in Seq(Inds)
  BY EmptySet DEF Init
<1>2. reports \in [Slots -> Seq(Pids)] /\ sched.ahead \in [Slots -> Seq(Pdus)]
  BY EmptySet DEF Init, Slots
<1>3. sent = [p \in Pids |-> sent[p]] /\ \A p \in Pids : sent[p] = -1
  BY DEF Init, None
<1>4. SchedOK(sched)
  <2>1. sched = Sched(sched.pucch, sched.csi, sched.vrb, sched.failed, sched.ahead)
    BY DEF Init, Sched
  <2>2. sched.pucch = NoPucch /\ sched.csi = NoCsi /\ sched.failed = {}
    BY DEF Init
  <2>3. /\ sched.pucch = Pucch(sched.pucch.at, sched.pucch.dai_c, sched.pucch.sr_flag)
        /\ sched.csi = CsiPucch(sched.csi.at, sched.csi.dai_c, sched.csi.bits)
        /\ sched.pucch.dai_c = 0 /\ sched.csi.dai_c = 0
    BY <2>2 DEF NoPucch, NoCsi, Pucch, CsiPucch
  <2> QED BY <1>2, <2>1, <2>2, <2>3 DEF SchedOK
<1>5. PICK h, a, e : h = [lists |-> lists, procs |-> procs] /\ a = [p \in Pids |-> p] /\ e = <<>>
  OBVIOUS
<1>6. a \in Seq(Pids) /\ Distinct(a) /\ ToSet(a) = Pids
  <2>1. a \in Seq(Pids) /\ DOMAIN a = Pids /\ \A p \in Pids : a[p] = p
    BY <1>0, <1>5 DEF Pids
  <2> QED BY <2>1 DEF Distinct, ToSet
<1>7. lists = Lists(a, e, e) /\ procs = [p \in Pids |-> Proc(0, 0, NoFeedback, FALSE)]
  BY <1>5 DEF Init, Lists, Proc
<1>8. h.lists.available = a /\ h.lists.feedback = e /\ h.lists.retrans = e /\ h.lists = lists /\ h.procs = procs
  BY <1>5, <1>7 DEF Lists
<1>9. e \in Seq(Pids) /\ Distinct(e) /\ ToSet(e) = {}
  BY <1>5, EmptySet
<1>10. Placed(h.lists)
  BY <1>6, <1>8, <1>9 DEF Placed, Listed
<1>11. \A p \in Pids : h.procs[p] = Proc(0, 0, NoFeedback, FALSE)
  BY <1>7, <1>8
<1>12. \A p \in Pids : h.procs[p].round = 0 /\ h.procs[p].ndi = 0 /\ h.procs[p].feedback = NoFeedback
                       /\ h.procs[p].is_waiting = FALSE
  BY <1>11 DEF Proc
<1>13. Shape(h)
  <2>1. h = Harqs(Lists(h.lists.available, h.lists.feedback, h.lists.retrans), h.procs)
    BY <1>5, <1>7, <1>8 DEF Harqs
  <2>2. h.procs = [p \in Pids |-> h.procs[p]]
    BY <1>7, <1>8
  <2> QED BY <1>11, <1>12, <2>1, <2>2, Zenon DEF Shape
<1>14. ASSUME NEW p \in Pids PROVE ProcOK(h, sent, p)
  <2>1. 0 \in 0 .. (HarqRoundMax - 1)
    BY <1>0
  <2> QED BY <1>3, <1>6, <1>8, <1>9, <1>12, <2>1, Zenon DEF ProcOK
<1>15. HarqInv(h, sent)
  BY <1>10, <1>13, <1>14, Zenon DEF HarqInv
<1> QED BY <1>1, <1>2, <1>3, <1>4, <1>5, <1>15 DEF DlInv

\* remove_nr_list of the first entry leaves the rest.
LEMMA RemoveHead ==
  ASSUME NEW S, NEW s \in Seq(S), s # <<>>, Distinct(s), NEW p, p = Head(s)
  PROVE  remove_nr_list(s, p) = Tail(s)
<1>1. 1 \in DOMAIN s /\ s[1] = p /\ Len(s) \in Nat \ {0}
  BY HeadTail
<1>2. PICK i : i = CHOOSE j \in DOMAIN s : s[j] = p
  OBVIOUS
<1>3. i \in DOMAIN s /\ s[i] = p
  BY <1>1, <1>2, Zenon
<1>4. i = 1
  BY <1>1, <1>3 DEF Distinct
<1>5. remove_nr_list(s, p) = SubSeq(s, 1, 1 - 1) \o SubSeq(s, 1 + 1, Len(s))
  BY <1>2, <1>4, Zenon DEF remove_nr_list, RemoveAt
<1>6. PICK a, b : a = SubSeq(s, 1, 1 - 1) /\ b = SubSeq(s, 1 + 1, Len(s))
  OBVIOUS
<1>7. a \in Seq(S) /\ Len(a) = 0
  BY <1>1, <1>6
<1>8. b \in Seq(S)
  BY <1>1, <1>6
<1>9. b = Tail(s)
  <2>1. b = SubSeq(s, 2, Len(s))
    BY <1>6
  <2> QED BY <2>1, TailIsSubSeq
<1>10. a \o b = b
  BY <1>7, <1>8
<1> QED BY <1>5, <1>6, <1>9, <1>10

\* An assertion that holds leaves no trace.
LEMMA CheckHolds ==
  ASSUME NEW st, SchedOK(st), NEW holds, holds, NEW what
  PROVE  SchedOK(Check(st, holds, what))
<1>1. PICK z : z = Check(st, holds, what)
  OBVIOUS
<1>2. z = [st EXCEPT !.failed = st.failed]
  BY <1>1 DEF Check
<1>3. z = Sched(st.pucch, st.csi, st.vrb, st.failed, st.ahead)
  BY <1>2 DEF SchedOK, Sched
<1>4. SchedOK(z)
  BY <1>3, AssignOK
<1> QED BY <1>1, <1>4

\* handle_nr_uci: the lists, and the assertion that the process is waiting.
LEMMA HandleUciStep == DlInv /\ HandleUci => DlInv'
<1> SUFFICES ASSUME DlInv, HandleUci PROVE DlInv'
  OBVIOUS
<1>1. PICK h, u : h = [lists |-> lists, procs |-> procs] /\ u = handle_nr_uci(Head(uci))
  OBVIOUS
<1>2. HarqInv(h, sent) /\ SchedOK(sched) /\ uci \in Seq(Inds)
  BY <1>1 DEF DlInv
<1>3. uci # <<>> /\ uci' = Tail(uci)
  BY DEF HandleUci, Arrive
<1>4. Head(uci) \in Inds /\ uci' \in Seq(Inds)
  BY <1>2, <1>3, HeadTail
<1>5. Len(Head(uci).bits) \in Nat
  <2>1. Head(uci).bits \in Seq(BitSet)
    BY <1>4 DEF Inds
  <2> QED BY <2>1
<1>6. UciInv(u, sent)
  <2>1. PICK ind : ind = Head(uci)
    OBVIOUS
  <2>2. Len(ind.bits) \in Nat /\ u = handle_nr_uci(ind)
    BY <1>1, <1>5, <2>1
  <2> QED BY <1>1, <1>2, <2>2, HandleUciInv
<1>7. HarqInv(u.h, sent) /\ u.waited
  BY <1>6 DEF UciInv
<1>8. lists' = u.h.lists /\ procs' = u.h.procs /\ sched' = Check(sched, u.waited, "is_waiting")
  BY <1>1 DEF HandleUci
<1>9. SchedOK(sched')
  BY <1>2, <1>7, <1>8, CheckHolds
<1>10. [lists |-> lists', procs |-> procs'] = u.h
  BY <1>7, <1>8 DEF HarqInv, Shape, Harqs
<1>11. now' = now /\ reports' = reports /\ sent' = sent
  BY DEF HandleUci
<1> QED BY <1>4, <1>7, <1>9, <1>10, <1>11 DEF DlInv

\* An indication is lost.
LEMMA LoseUciStep == DlInv /\ LoseUci => DlInv'
<1> SUFFICES ASSUME DlInv, LoseUci PROVE DlInv'
  OBVIOUS
<1>1. uci \in Seq(Inds)
  BY DEF DlInv
<1>2. uci' \in Seq(Inds)
  BY <1>1, HeadTail DEF LoseUci, Arrive
<1> QED BY <1>2 DEF LoseUci, DlInv

\* The end of a slot: the PHY is told what to receive and indicates it.
LEMMA EndOK ==
  ASSUME DlInv, NEW c, NEW st, SchedOK(st), NEW asked, asked \in [Slots -> Seq(Pids)], End(c, st, asked)
  PROVE  SchedOK(sched') /\ now' \in Nat /\ uci' \in Seq(Inds) /\ reports' \in [Slots -> Seq(Pids)]
<1>1. SchedOK(sched')
  <2>1. PICK s, paused : s = nr_schedule_pucch(st, now) /\ paused = c.paused
    OBVIOUS
  <2>2. SchedOK(s)
    BY <2>1, SchedulePucchOK
  <2>3. PICK z : z = nr_sr_reporting(s, now, paused)
    OBVIOUS
  <2>4. SchedOK(z)
    BY <2>2, <2>3, SrReportOK
  <2>5. sched' = z
    BY <2>1, <2>3 DEF End
  <2> QED BY <2>4, <2>5
<1>2. now \in Nat /\ now' \in Nat /\ reports \in [Slots -> Seq(Pids)] /\ uci \in Seq(Inds)
  BY TickIs DEF DlInv, End, Advance
<1>3. PICK pdus : pdus = sched'.ahead[Slot(now)]
  OBVIOUS
<1>4. pdus \in Seq(Pdus)
  <2>1. sched'.ahead \in [Slots -> Seq(Pdus)] /\ Slot(now) \in Slots
    BY <1>1, <1>2, SlotIs DEF SchedOK
  <2> QED BY <1>3, <2>1
<1>5. PICK acks \in [DOMAIN reports[Slot(now)] -> BOOLEAN] : uci' = uci \o Indications(pdus, acks)
  BY <1>3 DEF End
<1>6. Indications(pdus, acks) \in Seq(Inds)
  BY <1>2, <1>4, IndicationsOK
<1>7. uci' \in Seq(Inds)
  <2>1. PICK i : i = Indications(pdus, acks)
    OBVIOUS
  <2> QED BY <1>2, <1>5, <1>6, <2>1
<1>8. reports' \in [Slots -> Seq(Pids)]
  <2>1. reports' = [asked EXCEPT ![Slot(now)] = <<>>] /\ <<>> \in Seq(Pids)
    BY EmptySet DEF End
  <2> QED BY <2>1
<1> QED BY <1>1, <1>2, <1>7, <1>8

\* A slot in which nothing is sent.
LEMMA EndBeginOK ==
  ASSUME DlInv, NEW c, End(c, Begin(c), reports)
  PROVE  SchedOK(sched') /\ now' \in Nat /\ uci' \in Seq(Inds) /\ reports' \in [Slots -> Seq(Pids)]
<1>1. PICK st, asked : st = Begin(c) /\ asked = reports
  OBVIOUS
<1>2. SchedOK(st) /\ asked \in [Slots -> Seq(Pids)]
  BY <1>1, BeginOK DEF DlInv
<1>3. End(c, st, asked)
  BY <1>1
<1> QED BY <1>2, <1>3, EndOK

\* Nothing is sent: a slot without downlink, or one without a block for the UE.
LEMMA IdleStep ==
  ASSUME DlInv, NEW c, DownlinkIdle(c) \/ Uplink(c)
  PROVE  DlInv'
<1>1. SchedOK(sched') /\ now' \in Nat /\ uci' \in Seq(Inds) /\ reports' \in [Slots -> Seq(Pids)]
  BY EndBeginOK DEF DownlinkIdle, Uplink
<1>2. lists' = lists /\ procs' = procs /\ sent' = sent
  BY DEF DownlinkIdle, Uplink
<1> QED BY <1>1, <1>2 DEF DlInv

\* The head of retrans_dl_harq is given up.
LEMMA AbortStep ==
  ASSUME DlInv, NEW c, DownlinkAbort(c)
  PROVE  DlInv'
<1>1. PICK h, p : h = [lists |-> lists, procs |-> procs] /\ p = Head(lists.retrans)
  OBVIOUS
<1>2. PICK g : g = Release(h, p)
  OBVIOUS
<1>3. HarqInv(h, sent) /\ h.lists = lists /\ h.procs = procs /\ lists.retrans # <<>>
  BY <1>1 DEF DlInv, DownlinkAbort
<1>4. Shape(h) /\ Placed(lists)
  BY <1>3 DEF HarqInv
<1>5. lists.retrans \in Seq(Pids) /\ p \in Pids /\ p \in ToSet(lists.retrans) /\ p \notin ToSet(lists.feedback)
  <2>1. lists.retrans \in Seq(Pids) /\ ToSet(lists.feedback) \cap ToSet(lists.retrans) = {}
    BY <1>4 DEF Placed, Listed
  <2> QED BY <1>1, <1>3, <2>1, HeadTail
<1>6. PICK a, f, r : a = Append(lists.available, p) /\ f = lists.feedback /\ r = Tail(lists.retrans)
  OBVIOUS
<1>7. PICK proc : proc = Proc(0, 1 - procs[p].ndi, procs[p].feedback, procs[p].is_waiting)
  OBVIOUS
<1>8. Becomes(g, h, Lists(a, f, lists.retrans), p, proc)
  BY <1>2, <1>3, <1>4, <1>5, <1>6, <1>7, ReleaseIs
<1>9. g.lists = Lists(a, f, lists.retrans) /\ g.procs = [q \in Pids |-> g.procs[q]]
      /\ g.procs[p] = proc /\ \A q \in Pids : IsProc(g.procs[q])
  BY <1>8, Zenon DEF Becomes, Shape, IsProc
<1>10. lists' = [g.lists EXCEPT !.retrans = Tail(@)] /\ procs' = g.procs
  BY <1>1, <1>2 DEF DownlinkAbort, abort_nr_dl_harq
<1>11. lists' = Lists(a, f, r)
  <2>1. PICK l : l = g.lists
    OBVIOUS
  <2>2. l = Lists(a, f, lists.retrans) /\ lists' = [l EXCEPT !.retrans = Tail(l.retrans)]
    BY <1>9, <1>10, <2>1
  <2>3. l.retrans = lists.retrans
    BY <2>2 DEF Lists
  <2>4. lists' = [l EXCEPT !.retrans = r]
    BY <1>6, <2>2, <2>3
  <2> QED BY <2>2, <2>4 DEF Lists
<1>12. PICK h2 : h2 = [lists |-> lists', procs |-> procs']
  OBVIOUS
<1>13. h2.lists = Lists(a, f, r) /\ h2.procs = g.procs /\ h2.lists.available = a /\ h2.lists.feedback = f /\ h2.lists.retrans = r
  BY <1>10, <1>11, <1>12 DEF Lists
<1>14. Shape(h2)
  <2>1. h2 = Harqs(Lists(h2.lists.available, h2.lists.feedback, h2.lists.retrans), h2.procs)
    BY <1>11, <1>12, <1>13 DEF Harqs
  <2> QED BY <1>9, <1>13, <2>1, Zenon DEF Shape, IsProc
<1>15. Becomes(h2, h, Lists(a, f, r), p, proc)
  BY <1>8, <1>13, <1>14, Zenon DEF Becomes
<1>16. HeadMoves(lists, p, a, f, r)
  BY <1>1, <1>3, <1>6 DEF HeadMoves
<1>17. /\ Placed(Lists(a, f, r)) /\ OnlyMoves(lists, Lists(a, f, r), p)
       /\ p \in ToSet(a) /\ (p \in ToSet(f) <=> f = Append(lists.feedback, p)) /\ (p \in ToSet(r) <=> r = Append(lists.retrans, p))
  BY <1>4, <1>5, <1>6, <1>16, MovePlaced
<1>18. p \notin ToSet(f) /\ p \notin ToSet(r)
  <2>1. lists.feedback \in Seq(Pids)
    BY <1>4 DEF Placed, Listed
  <2>2. f # Append(lists.feedback, p) /\ r # Append(lists.retrans, p)
    BY <1>3, <1>5, <1>6, <2>1, NotAppend
  <2> QED BY <1>17, <2>2
<1>19. ProcOK(h2, sent, p)
  <2>1. h2.procs[p] = Proc(0, 1 - procs[p].ndi, procs[p].feedback, procs[p].is_waiting)
    BY <1>7, <1>9, <1>13
  <2>2. h2.procs[p].round = 0 /\ h2.procs[p].ndi = 1 - procs[p].ndi /\ h2.procs[p].is_waiting = procs[p].is_waiting
    BY <2>1 DEF Proc
  <2>3. ProcOK(h, sent, p)
    BY <1>3, <1>5 DEF HarqInv
  <2>4. /\ procs[p].ndi \in {0, 1} /\ sent[p] \in {-1, 0, 1} /\ procs[p].is_waiting = FALSE
        /\ sent[p] # -1 => procs[p].ndi = sent[p]
    <3>1. p \notin ToSet(lists.available)
      BY <1>4, <1>5 DEF Placed
    <3> QED BY <1>3, <1>5, <2>3, <3>1, Zenon DEF ProcOK
  <2>5. 1 - procs[p].ndi \in {0, 1} /\ (sent[p] # -1 => 1 - procs[p].ndi # sent[p])
    BY <2>4
  <2>6. 0 \in 0 .. (HarqRoundMax - 1)
    BY HarqAssumption
  <2> QED BY <1>13, <1>17, <1>18, <2>2, <2>4, <2>5, <2>6, Zenon DEF ProcOK
<1>20. HarqInv(h2, sent)
  <2>1. PICK new : new = Lists(a, f, r)
    OBVIOUS
  <2>2. Becomes(h2, h, new, p, proc) /\ Placed(new) /\ OnlyMoves(h.lists, new, p)
    BY <1>3, <1>15, <1>17, <2>1
  <2> QED BY <1>3, <1>5, <1>19, <2>2, MoveInv
<1>21. SchedOK(sched') /\ now' \in Nat /\ uci' \in Seq(Inds) /\ reports' \in [Slots -> Seq(Pids)]
  BY EndBeginOK DEF DownlinkAbort
<1>22. sent' = sent
  BY DEF DownlinkAbort
<1> QED BY <1>12, <1>20, <1>21, <1>22 DEF DlInv

\* The process that is sent is at the head of the list its round says it is in.
Sendable(l, p) ==
  \/ l.retrans # <<>> /\ p = Head(l.retrans)
  \/ l.available # <<>> /\ p = Head(l.available)

\* nr_schedule_ue_spec moves the process from the list its round names to feedback_dl_harq.
LEMMA TakeIs ==
  ASSUME NEW h, h = [lists |-> lists, procs |-> procs], HarqInv(h, sent), NEW p, Sendable(lists, p)
  PROVE  /\ p \in Pids /\ p \notin ToSet(lists.feedback)
         /\ \E a, r : /\ Take(p) = Lists(a, Append(lists.feedback, p), r)
                      /\ HeadMoves(lists, p, a, Append(lists.feedback, p), r)
                      /\ p \notin ToSet(a) /\ p \notin ToSet(r)
<1> DEFINE A == lists.available F == lists.feedback R == lists.retrans
<1>1. h.lists = lists /\ h.procs = procs
  OBVIOUS
<1>2. Placed(lists) /\ lists = Lists(A, F, R)
  BY <1>1 DEF HarqInv, Shape, Harqs
<1>3. /\ A \in Seq(Pids) /\ Distinct(A) /\ F \in Seq(Pids) /\ R \in Seq(Pids) /\ Distinct(R)
      /\ ToSet(A) \cap ToSet(F) = {} /\ ToSet(A) \cap ToSet(R) = {} /\ ToSet(F) \cap ToSet(R) = {}
  BY <1>2 DEF Placed, Listed
<1>4. \A q \in Pids : /\ q \in ToSet(A) => procs[q].round = 0
                      /\ q \in ToSet(R) => procs[q].round > 0
  BY <1>1 DEF HarqInv, ProcOK
<1>5. PICK f : f = Append(F, p)
  OBVIOUS
<1>6. Take(p) = [lists EXCEPT !.available = IF procs[p].round = 0 THEN remove_nr_list(@, p) ELSE @,
                              !.retrans = IF procs[p].round = 0 THEN @ ELSE remove_nr_list(@, p),
                              !.feedback = f]
  BY <1>5 DEF Take
<1> HIDE DEF A, F, R
<1>7. CASE R # <<>> /\ p = Head(R)
  <2>1. p \in Pids /\ p \in ToSet(R) /\ ToSet(Tail(R)) = ToSet(R) \ {p}
    BY <1>3, <1>7, HeadTail
  <2>2. ~(procs[p].round = 0) /\ p \notin ToSet(F) /\ p \notin ToSet(A)
    BY <1>3, <1>4, <2>1
  <2>3. remove_nr_list(R, p) = Tail(R)
    BY <1>3, <1>7, RemoveHead
  <2>4. Take(p) = [lists EXCEPT !.retrans = remove_nr_list(R, p), !.feedback = f]
    BY <1>2, <1>6, <2>2 DEF Lists
  <2>5. PICK r : r = Tail(R)
    OBVIOUS
  <2>6. Take(p) = [lists EXCEPT !.retrans = r, !.feedback = f]
    BY <2>3, <2>4, <2>5
  <2>7. Take(p) = Lists(A, f, r)
    BY <1>2, <2>6 DEF Lists
  <2>8. HeadMoves(lists, p, A, f, r)
    BY <1>5, <1>7, <2>5 DEF HeadMoves, A, F, R
  <2>9. p \notin ToSet(r)
    BY <2>1, <2>5
  <2> QED BY <1>5, <2>1, <2>2, <2>7, <2>8, <2>9 DEF F
<1>8. CASE A # <<>> /\ p = Head(A)
  <2>1. p \in Pids /\ p \in ToSet(A) /\ ToSet(Tail(A)) = ToSet(A) \ {p}
    BY <1>3, <1>8, HeadTail
  <2>2. procs[p].round = 0 /\ p \notin ToSet(F) /\ p \notin ToSet(R)
    BY <1>3, <1>4, <2>1
  <2>3. remove_nr_list(A, p) = Tail(A)
    BY <1>3, <1>8, RemoveHead
  <2>4. Take(p) = [lists EXCEPT !.available = remove_nr_list(A, p), !.feedback = f]
    BY <1>2, <1>6, <2>2 DEF Lists
  <2>5. PICK a : a = Tail(A)
    OBVIOUS
  <2>6. Take(p) = [lists EXCEPT !.available = a, !.feedback = f]
    BY <2>3, <2>4, <2>5
  <2>7. Take(p) = Lists(a, f, R)
    BY <1>2, <2>6 DEF Lists
  <2>8. HeadMoves(lists, p, a, f, R)
    BY <1>5, <1>8, <2>5 DEF HeadMoves, A, F, R
  <2>9. p \notin ToSet(a)
    BY <2>1, <2>5
  <2> QED BY <1>5, <2>1, <2>2, <2>7, <2>8, <2>9 DEF F
<1> QED BY <1>7, <1>8 DEF Sendable, A, R

\* What nr_schedule_ue_spec assigns.
Sends(g, ndis, p, at) ==
  /\ g = [lists |-> Take(p), procs |-> [procs EXCEPT ![p].feedback = at, ![p].is_waiting = TRUE]]
  /\ ndis = [sent EXCEPT ![p] = procs[p].ndi]

\* A block is sent: the process waits, and the UE has seen its NDI.
LEMMA SendInv ==
  ASSUME NEW h, h = [lists |-> lists, procs |-> procs], HarqInv(h, sent), sent = [q \in Pids |-> sent[q]],
         NEW p, Sendable(lists, p), NEW at, NEW g, NEW ndis, Sends(g, ndis, p, at)
  PROVE  /\ HarqInv(g, ndis) /\ ~procs[p].is_waiting /\ p \in Pids
         /\ ndis = [q \in Pids |-> ndis[q]]
<1>1. h.lists = lists /\ h.procs = procs
  OBVIOUS
<1>2. PICK f : f = Append(lists.feedback, p)
  OBVIOUS
<1>3. PICK a, r : /\ Take(p) = Lists(a, f, r) /\ HeadMoves(lists, p, a, f, r)
                  /\ p \notin ToSet(a) /\ p \notin ToSet(r)
  BY <1>2, TakeIs
<1>4. p \in Pids /\ p \notin ToSet(lists.feedback)
  BY TakeIs
<1>5. Shape(h) /\ Placed(lists) /\ ProcOK(h, sent, p)
  BY <1>1, <1>4 DEF HarqInv
<1>6. PICK q : q = procs[p]
  OBVIOUS
<1>7. IsProc(q) /\ procs = [x \in Pids |-> procs[x]]
  BY <1>1, <1>4, <1>5, <1>6, Zenon DEF Shape, IsProc
<1>8. PICK yes : yes = TRUE
  OBVIOUS
<1>9. PICK proc : proc = Proc(q.round, q.ndi, at, yes)
  OBVIOUS
<1>10. [q EXCEPT !.feedback = at, !.is_waiting = yes] = proc
  BY <1>7, <1>8, <1>9, ProcFields, Zenon
<1>11. [procs EXCEPT ![p].feedback = at, ![p].is_waiting = yes] = [procs EXCEPT ![p] = [q EXCEPT !.feedback = at, !.is_waiting = yes]]
  BY <1>4, <1>6, <1>7
<1>12. g = Harqs(Lists(a, f, r), [h.procs EXCEPT ![p] = Proc(q.round, q.ndi, at, yes)])
  BY <1>1, <1>3, <1>8, <1>9, <1>10, <1>11, Zenon DEF Harqs, Sends
<1>13. Becomes(g, h, Lists(a, f, r), p, proc)
  BY <1>4, <1>5, <1>9, <1>12, BecomesIs
<1>14. Placed(Lists(a, f, r)) /\ OnlyMoves(lists, Lists(a, f, r), p) /\ p \in ToSet(f)
  <2>1. PICK l : l = lists
    OBVIOUS
  <2>2. Placed(l) /\ HeadMoves(l, p, a, f, r) /\ p \in Pids
    BY <1>3, <1>4, <1>5, <2>1
  <2>3. Placed(Lists(a, f, r)) /\ OnlyMoves(l, Lists(a, f, r), p)
    BY <2>2, MovePlaced
  <2>4. p \in ToSet(f)
    <3>1. lists.feedback \in Seq(Pids)
      BY <1>5 DEF Placed, Listed
    <3> QED BY <1>2, <1>4, <3>1, AppendSet
  <2> QED BY <2>1, <2>3, <2>4
<1>15. g.lists = Lists(a, f, r) /\ g.procs[p] = proc
  BY <1>13, Zenon DEF Becomes
<1>16. g.lists.available = a /\ g.lists.feedback = f /\ g.lists.retrans = r
  BY <1>15 DEF Lists
<1>17. g.procs[p].round = q.round /\ g.procs[p].ndi = q.ndi /\ g.procs[p].is_waiting = TRUE
  <2>1. g.procs[p].round = q.round /\ g.procs[p].ndi = q.ndi /\ g.procs[p].is_waiting = yes
    BY <1>9, <1>15 DEF Proc
  <2> QED BY <1>8, <2>1, Zenon
<1>18. ndis[p] = q.ndi /\ (\A x \in Pids \ {p} : ndis[x] = sent[x]) /\ ndis = [x \in Pids |-> ndis[x]]
  BY <1>4, <1>6 DEF Sends
<1>19. q.round \in 0 .. (HarqRoundMax - 1) /\ q.ndi \in {0, 1} /\ ~procs[p].is_waiting
  BY <1>1, <1>4, <1>5, <1>6, Zenon DEF ProcOK
<1>20. q.ndi \in {-1, 0, 1}
  BY <1>19
<1>21. ProcOK(g, ndis, p)
  BY <1>3, <1>14, <1>16, <1>17, <1>18, <1>19, <1>20, Zenon DEF ProcOK
<1>22. HarqInv(g, ndis)
  <2>1. PICK new : new = Lists(a, f, r)
    OBVIOUS
  <2>2. Becomes(g, h, new, p, proc) /\ Placed(new) /\ OnlyMoves(h.lists, new, p)
    BY <1>1, <1>13, <1>14, <2>1
  <2> QED BY <1>4, <1>18, <1>21, <2>2, MoveInv
<1> QED BY <1>4, <1>18, <1>19, <1>22

\* A downlink slot in which a block is sent, or left out for want of a PUCCH occasion.
LEMMA TransmitStep ==
  ASSUME DlInv, NEW c, NEW p, Sendable(lists, p), Transmit(c, p)
  PROVE  DlInv'
<1>1. PICK others \in OtherUsers :
        LET r == nr_acknack_scheduling(Begin(c), now, others) IN
        \/ nr_schedule_ue_spec(c, p, r)
        \/ End(c, r.st, reports) /\ UNCHANGED <<lists, procs, sent>>
  BY Zenon DEF Transmit
<1>2. PICK r, st : r = nr_acknack_scheduling(Begin(c), now, others) /\ st = r.st
  OBVIOUS
<1>3. SchedOK(st)
  <2>1. SchedOK(Begin(c))
    BY BeginOK DEF DlInv
  <2>2. PICK b : b = Begin(c)
    OBVIOUS
  <2> QED BY <1>2, <2>1, <2>2, AckNackOK
<1>5. CASE nr_schedule_ue_spec(c, p, r)
  <2>1. PICK h, at, g, ndis :
          /\ h = [lists |-> lists, procs |-> procs] /\ at = st.pucch.at
          /\ g = [lists |-> Take(p), procs |-> [procs EXCEPT ![p].feedback = at, ![p].is_waiting = TRUE]]
          /\ ndis = [sent EXCEPT ![p] = procs[p].ndi]
    OBVIOUS
  <2>0. Sends(g, ndis, p, at)
    BY <2>1 DEF Sends
  <2>2. HarqInv(h, sent) /\ sent = [q \in Pids |-> sent[q]]
    BY <2>1 DEF DlInv
  <2>3. HarqInv(g, ndis) /\ ~procs[p].is_waiting /\ p \in Pids /\ ndis = [q \in Pids |-> ndis[q]]
    BY <2>0, <2>1, <2>2, SendInv
  <2>4. lists' = Take(p) /\ procs' = [procs EXCEPT ![p].feedback = at, ![p].is_waiting = TRUE] /\ sent' = ndis
    BY <1>2, <1>5, <2>1 DEF nr_schedule_ue_spec
  <2>5. g = [lists |-> lists', procs |-> procs']
    BY <2>1, <2>4
  <2>6. PICK ue, s, asked :
          /\ s = Check(st, ~procs[p].is_waiting, "is_waiting") /\ asked = [reports EXCEPT ![ue] = Append(@, p)]
          /\ End(c, s, asked)
    BY <1>2, <1>5, Zenon DEF nr_schedule_ue_spec
  <2>7. SchedOK(s)
    <3>1. PICK holds : holds = ~procs[p].is_waiting
      OBVIOUS
    <3> QED BY <1>3, <2>3, <2>6, <3>1, CheckHolds
  <2>8. asked \in [Slots -> Seq(Pids)]
    <3>1. reports \in [Slots -> Seq(Pids)]
      BY DEF DlInv
    <3>2. \A x \in Slots : Append(reports[x], p) \in Seq(Pids)
      BY <2>3, <3>1
    <3> QED BY <2>6, <3>1, <3>2
  <2>9. SchedOK(sched') /\ now' \in Nat /\ uci' \in Seq(Inds) /\ reports' \in [Slots -> Seq(Pids)]
    BY <2>6, <2>7, <2>8, EndOK
  <2> QED BY <2>3, <2>4, <2>5, <2>9 DEF DlInv
<1>6. CASE End(c, st, reports) /\ UNCHANGED <<lists, procs, sent>>
  <2>1. PICK asked : asked = reports
    OBVIOUS
  <2>2. asked \in [Slots -> Seq(Pids)] /\ End(c, st, asked)
    BY <1>6, <2>1 DEF DlInv
  <2>3. SchedOK(sched') /\ now' \in Nat /\ uci' \in Seq(Inds) /\ reports' \in [Slots -> Seq(Pids)]
    BY <1>3, <2>2, EndOK
  <2> QED BY <1>6, <2>3 DEF DlInv
<1> QED BY <1>1, <1>2, <1>5, <1>6

---------------------------------------------------------------------------
(* The theorems.                                                           *)

\* The lists, the processes, the NDIs last sent and the PUCCHs fit together in every state.
THEOREM DlInvariance == Spec => []DlInv
<1>1. ASSUME DlInv, [Next]_vars PROVE DlInv'
  <2>1. CASE HandleUci
    BY <1>1, <2>1, HandleUciStep
  <2>2. CASE LoseUci
    BY <1>1, <2>2, LoseUciStep
  <2>3. CASE NextSlot
    <3>1. PICK c \in Conditions :
            DownlinkIdle(c) \/ DownlinkAbort(c) \/ DownlinkRetransmit(c) \/ DownlinkNew(c) \/ Uplink(c)
      BY <2>3 DEF NextSlot
    <3>2. CASE DownlinkIdle(c) \/ Uplink(c)
      BY <1>1, <3>2, IdleStep
    <3>3. CASE DownlinkAbort(c)
      BY <1>1, <3>3, AbortStep
    <3>4. CASE DownlinkRetransmit(c)
      <4>1. PICK p : p = Head(lists.retrans)
        OBVIOUS
      <4>2. Sendable(lists, p) /\ Transmit(c, p)
        BY <3>4, <4>1 DEF DownlinkRetransmit, Sendable
      <4> QED BY <1>1, <4>2, TransmitStep
    <3>5. CASE DownlinkNew(c)
      <4>1. PICK p : p = Head(lists.available)
        OBVIOUS
      <4>2. Sendable(lists, p) /\ Transmit(c, p)
        BY <3>5, <4>1 DEF DownlinkNew, Sendable
      <4> QED BY <1>1, <4>2, TransmitStep
    <3> QED BY <3>1, <3>2, <3>3, <3>4, <3>5
  <2>4. CASE UNCHANGED vars
    BY <1>1, <2>4 DEF vars, DlInv
  <2> QED BY <1>1, <2>1, <2>2, <2>3, <2>4 DEF Next
<1> QED BY <1>1, InitInv, PTL DEF Spec

\* Two sequences one after the other.
LEMMA ConcatSet ==
  ASSUME NEW S, NEW s \in Seq(S), NEW t \in Seq(S), Distinct(s), Distinct(t), ToSet(s) \cap ToSet(t) = {}
  PROVE  s \o t \in Seq(S) /\ ToSet(s \o t) = ToSet(s) \cup ToSet(t) /\ Distinct(s \o t)
<1>1. PICK c : c = s \o t
  OBVIOUS
<1>2. /\ c \in Seq(S) /\ Len(s) \in Nat /\ Len(t) \in Nat /\ Len(c) = Len(s) + Len(t)
      /\ DOMAIN c = 1 .. (Len(s) + Len(t)) /\ DOMAIN s = 1 .. Len(s) /\ DOMAIN t = 1 .. Len(t)
  BY <1>1
<1>3. /\ \A i \in 1 .. Len(s) : c[i] = s[i]
      /\ \A i \in 1 .. (Len(s) + Len(t)) : i > Len(s) => c[i] = t[i - Len(s)]
  BY <1>1
<1>4. ASSUME NEW i \in DOMAIN c
      PROVE  \/ i \in DOMAIN s /\ c[i] = s[i]
             \/ i > Len(s) /\ i - Len(s) \in DOMAIN t /\ c[i] = t[i - Len(s)]
  BY <1>2, <1>3
<1>5. (\A i \in DOMAIN s : s[i] \in ToSet(s)) /\ (\A i \in DOMAIN t : t[i] \in ToSet(t))
  BY DEF ToSet
<1>6. Distinct(c)
  <2>1. ASSUME NEW i \in DOMAIN c, NEW j \in DOMAIN c, c[i] = c[j] PROVE i = j
    <3>1. CASE i \in DOMAIN s /\ c[i] = s[i] /\ j \in DOMAIN s /\ c[j] = s[j]
      BY <2>1, <3>1 DEF Distinct
    <3>2. CASE /\ i > Len(s) /\ i - Len(s) \in DOMAIN t /\ c[i] = t[i - Len(s)]
               /\ j > Len(s) /\ j - Len(s) \in DOMAIN t /\ c[j] = t[j - Len(s)]
      <4>1. i - Len(s) = j - Len(s)
        BY <2>1, <3>2, Zenon DEF Distinct
      <4> QED BY <1>2, <4>1
    <3>3. CASE i \in DOMAIN s /\ c[i] = s[i] /\ j - Len(s) \in DOMAIN t /\ c[j] = t[j - Len(s)]
      BY <1>5, <2>1, <3>3
    <3>4. CASE j \in DOMAIN s /\ c[j] = s[j] /\ i - Len(s) \in DOMAIN t /\ c[i] = t[i - Len(s)]
      BY <1>5, <2>1, <3>4
    <3> QED BY <1>4, <3>1, <3>2, <3>3, <3>4
  <2> QED BY <2>1, Zenon DEF Distinct
<1>7. ToSet(c) = ToSet(s) \cup ToSet(t)
  <2>1. ToSet(c) \subseteq ToSet(s) \cup ToSet(t)
    BY <1>4, <1>5 DEF ToSet
  <2>2. ASSUME NEW x \in ToSet(s) PROVE x \in ToSet(c)
    <3>1. PICK i \in DOMAIN s : x = s[i]
      BY DEF ToSet
    <3>2. i \in DOMAIN c /\ c[i] = x
      BY <1>2, <1>3, <3>1
    <3> QED BY <3>2 DEF ToSet
  <2>3. ASSUME NEW x \in ToSet(t) PROVE x \in ToSet(c)
    <3>1. PICK i \in DOMAIN t : x = t[i]
      BY DEF ToSet
    <3>2. PICK j : j = i + Len(s)
      OBVIOUS
    <3>3. j \in 1 .. (Len(s) + Len(t)) /\ j > Len(s) /\ j - Len(s) = i
      BY <1>2, <3>2
    <3>4. j \in DOMAIN c /\ c[j] = x
      BY <1>2, <1>3, <3>1, <3>3
    <3> QED BY <3>4 DEF ToSet
  <2> QED BY <2>1, <2>2, <2>3
<1> QED BY <1>1, <1>2, <1>6, <1>7

\* Each process is in exactly one list, once, and is_waiting and round say in which.
THEOREM EachProcessListed == Spec => []EachInOneList
<1>1. DlInv => EachInOneList
  <2> SUFFICES ASSUME DlInv PROVE EachInOneList
    OBVIOUS
  <2>1. PICK h : h = [lists |-> lists, procs |-> procs]
    OBVIOUS
  <2>2. h.lists = lists /\ h.procs = procs /\ HarqInv(h, sent)
    BY <2>1 DEF DlInv
  <2>3. Placed(lists) /\ \A p \in Pids : ProcOK(h, sent, p)
    BY <2>2 DEF HarqInv
  <2>4. PICK a, f, r : a = lists.available /\ f = lists.feedback /\ r = lists.retrans
    OBVIOUS
  <2>5. /\ a \in Seq(Pids) /\ Distinct(a) /\ f \in Seq(Pids) /\ Distinct(f) /\ r \in Seq(Pids) /\ Distinct(r)
        /\ ToSet(a) \cap ToSet(f) = {} /\ ToSet(a) \cap ToSet(r) = {} /\ ToSet(f) \cap ToSet(r) = {}
        /\ Pids \subseteq ToSet(a) \cup ToSet(f) \cup ToSet(r)
    BY <2>3, <2>4 DEF Placed, Listed
  <2>6. PICK af : af = a \o f
    OBVIOUS
  <2>7. af \in Seq(Pids) /\ ToSet(af) = ToSet(a) \cup ToSet(f) /\ Distinct(af)
    BY <2>5, <2>6, ConcatSet
  <2>8. PICK all : all = af \o r
    OBVIOUS
  <2>9. all \in Seq(Pids) /\ ToSet(all) = ToSet(af) \cup ToSet(r) /\ Distinct(all)
    BY <2>5, <2>7, <2>8, ConcatSet
  <2>10. ToSet(all) = Pids
    <3>1. ToSet(all) \subseteq Pids
      BY <2>9, SeqElement DEF ToSet
    <3> QED BY <2>5, <2>7, <2>9, <3>1
  <2>11. Len(all) = NrofHARQ
    <3>1. Cardinality(Pids) = Len(all)
      BY <2>9, <2>10, DistinctLen
    <3>2. NrofHARQ \in Nat \ {0} /\ 1 \in Int
      BY HarqAssumption
    <3>3. Cardinality(1 .. NrofHARQ) = IF 1 > NrofHARQ THEN 0 ELSE NrofHARQ - 1 + 1
      BY <3>2, FS_Interval
    <3> QED BY <3>1, <3>2, <3>3 DEF Pids
  <2>12. ASSUME NEW p \in Pids
         PROVE  /\ procs[p].is_waiting <=> p \in ToSet(f)
                /\ p \in ToSet(a) => procs[p].round = 0
                /\ p \in ToSet(r) => procs[p].round > 0
    BY <2>2, <2>3, <2>4, Zenon DEF ProcOK
  <2>13. ToSet(a) \subseteq Pids /\ ToSet(r) \subseteq Pids
    BY <2>7, <2>9, <2>10
  <2>14. (\A p \in ToSet(a) : procs[p].round = 0) /\ (\A p \in ToSet(r) : procs[p].round > 0)
    BY <2>12, <2>13
  <2>15. (lists.available \o lists.feedback) \o lists.retrans = all
    BY <2>4, <2>6, <2>8
  <2> QED BY <2>4, <2>10, <2>11, <2>12, <2>14, <2>15, Zenon DEF EachInOneList
<1> QED BY <1>1, DlInvariance, PTL

\* The NDI of a process differs from the one last sent exactly when its next block is new,
\* however many indications are lost and however a block is given up.
THEOREM NewBlocksTold == Spec => []NdiTellsNewBlock
<1>1. DlInv => NdiTellsNewBlock
  <2> SUFFICES ASSUME DlInv PROVE NdiTellsNewBlock
    OBVIOUS
  <2>1. PICK h : h = [lists |-> lists, procs |-> procs]
    OBVIOUS
  <2>2. h.lists = lists /\ h.procs = procs /\ HarqInv(h, sent)
    BY <2>1 DEF DlInv
  <2> QED BY <2>2, Zenon DEF HarqInv, ProcOK, NdiTellsNewBlock
<1> QED BY <1>1, DlInvariance, PTL

\* What find_harq's callers and nr_schedule_ue_spec assert of is_waiting, and the two bits
\* a PUCCH has room for.
WaitingAsserted == "is_waiting" \notin sched.failed
TwoBits == sched.pucch.dai_c \in 0 .. 2

\* Feedback is applied to waiting processes only, only processes that do not wait are sent,
\* and nr_acknack_scheduling never puts a third HARQ bit on a PUCCH.
THEOREM AssertedWaiting == Spec => [](WaitingAsserted /\ TwoBits)
<1>1. DlInv => WaitingAsserted /\ TwoBits
  BY DEF DlInv, SchedOK, WaitingAsserted, TwoBits
<1> QED BY <1>1, DlInvariance, PTL
=============================================================================
