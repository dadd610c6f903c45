------------------------------- MODULE PduChannel -------------------------------
(***************************************************************************)
(* What the queue between PDCP and RLC promises, in one direction: PDUs    *)
(* are handed over in the order they were sent, none twice and none left   *)
(* out.                                                                    *)
(***************************************************************************)
EXTENDS Naturals, Sequences

CONSTANT Pdus

VARIABLES sent, handed

vars == <<sent, handed>>

Init == sent = <<>> /\ handed = <<>>

Send(pdu) == sent' = Append(sent, pdu) /\ UNCHANGED handed

Hand ==
  /\ Len(handed) < Len(sent)
  /\ handed' = Append(handed, sent[Len(handed) + 1])
  /\ UNCHANGED sent

Next == (\E pdu \in Pdus : Send(pdu)) \/ Hand

Spec == Init /\ [][Next]_vars
=============================================================================
