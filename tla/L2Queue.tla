--------------------------------- MODULE L2Queue ---------------------------------
(***************************************************************************)
(* The bounded queues of nr_pdcp_oai_api.c, rlc_data_req_queue and         *)
(* pdcp_data_ind_queue: a circular buffer of Size items, a mutex and one   *)
(* condition variable, on which producers wait while the queue is full and *)
(* the consumer waits while it is empty.                                   *)
(*                                                                         *)
(* A critical section of the mutex is one step of the specification that   *)
(* uses these operators.                                                   *)
(***************************************************************************)
EXTENDS Naturals, Sequences

CONSTANT Size    \* RLC_DATA_REQ_QUEUE_SIZE, PDCP_DATA_IND_QUEUE_SIZE

Slots == 0 .. (Size - 1)

\* waiting: the threads in pthread_cond_wait
Empty(item) == [q |-> [i \in Slots |-> item], start |-> 0, length |-> 0, waiting |-> {}]

\* Mutant: one item too many is let in.
FullLate(b) == b.length > Size
Full(b) == b.length = Size

Put(b, item) == [b EXCEPT !.q[(b.start + b.length) % Size] = item, !.length = @ + 1]

\* Mutant: the start does not advance.
RemoveSame(b) == [b EXCEPT !.length = @ - 1]
Remove(b) == [b EXCEPT !.length = @ - 1, !.start = (@ + 1) % Size]

Wait(b, t) == [b EXCEPT !.waiting = @ \cup {t}]

\* pthread_cond_signal wakes one of the threads that wait, any of them.
Signal(b) ==
  IF b.waiting = {} THEN {b} ELSE {[b EXCEPT !.waiting = @ \ {t}] : t \in b.waiting}
=============================================================================
