-------------------------- MODULE MCRatchetChannel --------------------------
(* RatchetChannel for TLC: the initiator sends more than the skip limit.   *)
EXTENDS RatchetChannel

MCMaxMessages == [p \in Parties |-> IF p = "I" THEN 4 ELSE 1]
=============================================================================
