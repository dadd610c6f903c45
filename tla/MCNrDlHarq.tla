------------------------------- MODULE MCNrDlHarq -------------------------------
(* A view of the states of NrDlHarq for the model checker. *)
EXTENDS NrDlHarq

\* Of the NDI of a process only matters whether it is the one last sent: inverting both, the
\* steps of every action are the same, and no invariant, fairness condition or liveness
\* property tells the states apart.  States that differ in nothing else are taken as one.
Told(p) ==
  [round |-> procs[p].round, feedback |-> procs[p].feedback, is_waiting |-> procs[p].is_waiting,
   never |-> sent[p] = -1, same |-> procs[p].ndi = sent[p]]
NdiView == <<now, lists, [p \in Pids |-> Told(p)], sched, reports, idle, uci, lost, misread>>
=============================================================================
