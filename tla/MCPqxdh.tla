------------------------------ MODULE MCPqxdh ------------------------------
(* Small instances of Pqxdh for TLC. *)
EXTENDS Pqxdh, TLC

\* Responders differ in their names only.
Symmetry == Permutations(Responders)
=============================================================================
