------------------------------ MODULE Options ------------------------------
(* Rust's Option: a value, or None.  Also no row, no file and no key. *)

CONSTANT None

=============================================================================
