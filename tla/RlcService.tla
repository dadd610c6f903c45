------------------------------- MODULE RlcService -------------------------------
(***************************************************************************)
(* What an RLC entity promises PDCP, in one direction: every SDU accepted  *)
(* is delivered at most once, and then all its bytes and no others; SDUs   *)
(* may be lost and may overtake each other.  An entity in acknowledged     *)
(* mode also confirms SDUs, and confirms none that was not delivered.      *)
(*                                                                         *)
(* An SDU is named by its place in "accepted", which holds the sizes; the  *)
(* byte at offset b of SDU id is the pair <<id, b>>.                       *)
(***************************************************************************)
EXTENDS Naturals, Sequences

CONSTANT Sizes

VARIABLES
    accepted,    \* sizes of the SDUs taken from PDCP
    delivered,   \* SDUs given to the peer's PDCP, as sequences of bytes
    confirmed    \* SDUs reported as received by the peer

vars == <<accepted, delivered, confirmed>>

Content(id) == [b \in 1 .. accepted[id] |-> <<id, b - 1>>]
IsDelivered(id) == \E i \in DOMAIN delivered : delivered[i] = Content(id)

Init == accepted = <<>> /\ delivered = <<>> /\ confirmed = {}

Accept(size) ==
    /\ accepted' = Append(accepted, size)
    /\ UNCHANGED <<delivered, confirmed>>

Deliver(id) ==
    /\ ~IsDelivered(id)
    /\ delivered' = Append(delivered, Content(id))
    /\ UNCHANGED <<accepted, confirmed>>

Confirm ==
    /\ confirmed \subseteq confirmed' /\ confirmed' \subseteq DOMAIN accepted
    /\ \A id \in confirmed' \ confirmed : IsDelivered(id)
    /\ UNCHANGED <<accepted, delivered>>

Next ==
    \/ \E size \in Sizes : Accept(size)
    \/ \E id \in DOMAIN accepted : Deliver(id)
    \/ Confirm

Spec == Init /\ [][Next]_vars
=============================================================================
