----------------------------- MODULE MCNodeLoop -----------------------------
(* Small instances of NodeLoop for TLC. *)
EXTENDS NodeLoop
=============================================================================
