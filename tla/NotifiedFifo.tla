------------------------------ MODULE NotifiedFifo ------------------------------
(***************************************************************************)
(* The queue of common/utils/threadPool/thread-pool.h: a linked list with  *)
(* a pointer outF to its first element and a pointer inF to the element    *)
(* pushed last.  The list reachable from outF is a sequence; inF is kept   *)
(* apart from it, because a push links the new element to *inF and not to  *)
(* the end of the list.  An element is a record with a field "key".        *)
(* Every operator is the body of one critical section of the queue's lock. *)
(***************************************************************************)
EXTENDS Naturals, Sequences, SequencesExt

NULL == [key |-> <<"NULL", 0, 0>>, nb |-> 0]

initNotifiedFIFO == [outF |-> <<>>, inF |-> NULL]

\* The element is found again only when inF is still the end of the list.
pushNotifiedFIFO(f, msg) ==
    [outF |-> IF f.outF = <<>> THEN <<msg>>
              ELSE IF f.inF = Last(f.outF) THEN Append(f.outF, msg)
              ELSE f.outF,
     inF  |-> msg]

ResetInFAlways(f, list) == [outF |-> list, inF |-> NULL]

\* inF after elements were taken out: cleared when the list is empty, else kept.
ResetInF(f, list) == [outF |-> list, inF |-> IF list = <<>> THEN NULL ELSE f.inF]

\* The caller has waited until the list is not empty, and takes its head.
pullNotifiedFIFO(f) == ResetInF(f, Tail(f.outF))

\* The loop of an abort over the list: what it leaves and how many elements it deletes.
AbortLoop(list, key) ==
    LET loop[n \in 0 .. Len(list)] ==
            IF n = 0 THEN [kept |-> <<>>, nbDeleted |-> 0]
            ELSE IF list[n].key = key
                 THEN [kept |-> loop[n - 1].kept, nbDeleted |-> loop[n - 1].nbDeleted + 1]
                 ELSE [kept |-> Append(loop[n - 1].kept, list[n]), nbDeleted |-> loop[n - 1].nbDeleted]
    IN  loop[Len(list)]

Kept(list, key) == AbortLoop(list, key).kept
NbDeleted(list, key) == AbortLoop(list, key).nbDeleted

\* The elements with the key are deleted; the number of them is returned to the caller.
abortNotifiedFIFO(f, key) == ResetInF(f, Kept(f.outF, key))
=============================================================================
