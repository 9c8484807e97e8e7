------------------------------- MODULE Sqleet -------------------------------
(***************************************************************************)
(* The values that go into and come out of statements (presidium-sqleet,   *)
(* lib.rs): bound parameters and the columns of a row.                     *)
(***************************************************************************)
EXTENDS Integers, Options

CONSTANTS Conns \* the connections to a database

Null == [type |-> "null"]
I64(v) == [type |-> "i64", v |-> v]
Text(v) == [type |-> "text", v |-> v]
Blob(v) == [type |-> "blob", v |-> v]

FromBool(b) == I64(IF b THEN 1 ELSE 0)

\* An optional number.
FromOption(v) == IF v = None THEN Null ELSE I64(v)

\* SQLite reads the integer of a NULL column as 0.
ColumnI64(c) == IF c.type = "i64" THEN c.v ELSE 0

GetBool(c) == ColumnI64(c) # 0
GetOption(c) == IF c.type = "null" THEN None ELSE ColumnI64(c)

\* Text and bytes have no value for NULL: the call fails.
Readable(c) == c.type # "null"
GetOwned(c) == c.v

\* A comparison with NULL selects no row.
SqlEq(a, b) == a # Null /\ b # Null /\ a = b
=============================================================================
