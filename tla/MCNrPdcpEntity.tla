----------------------------- MODULE MCNrPdcpEntity -----------------------------
(* Calls of set_security for the model checker. *)
EXTENDS NrPdcpEntity

CONSTANTS k1, k2

Set(ia, ik, ca, ck) == [integrity |-> [algorithm |-> ia, key |-> ik], ciphering |-> [algorithm |-> ca, key |-> ck]]

\* An SRB created without security, a security mode command with k1, and ciphering renewed
\* with k2 while integrity is left alone.
ThreeCalls == {Set(0, NoKey, 0, NoKey), Set(2, k1, 2, k1), Set(-1, k2, 2, k2)}
=============================================================================
