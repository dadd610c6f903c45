----------------------------- MODULE MCNrL1Pipeline -----------------------------
(* Plans for the model checker. *)
EXTENDS NrL1Pipeline

Slot(ul, downlinkSlot, coding) == [ul |-> ul, downlink |-> downlinkSlot, coding |-> coding]

\* An uplink slot with three UEs, of which the second is refused, while no encoding is
\* under way, then slots that decode and encode at the same time.
PlanMixed == <<Slot(<<>>, TRUE, 0), Slot(<<2, 0, 2>>, FALSE, 0), Slot(<<1>>, TRUE, 2), Slot(<<1>>, TRUE, 2)>>

\* A downlink slot is encoded while the next slot is decoded.
PlanOverlap == <<Slot(<<>>, TRUE, 2), Slot(<<3>>, TRUE, 1)>>
=============================================================================
