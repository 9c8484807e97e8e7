----------------------------- MODULE PrekeyPool -----------------------------
(***************************************************************************)
(* What the store of prekeys does (presidium-storage, store.rs), with      *)
(* every operation as one step on the table.                               *)
(*                                                                         *)
(* take_one_time_prekey takes the least key id (ORDER BY key_id).  Its     *)
(* documentation says "the oldest one-time prekey": the two differ when    *)
(* ids are not given in increasing order (TakesOldest in Prekeys).         *)
(***************************************************************************)
EXTENDS Sqleet

CONSTANTS Ids,     \* the key ids callers use
          MaxKeys  \* bound: prekeys saved

ASSUME IdsAssumption == Ids \subseteq Nat
ASSUME MaxKeysAssumption == MaxKeys \in Nat

VARIABLES
    table, \* the row of each key id
    made,  \* number of prekeys saved; a prekey is named by its number
    taken  \* the prekeys that were taken

poolVars == <<table, made, taken>>

Kinds == {"Signed", "OneTime"}
Keys == 1..MaxKeys
Rows == [kind : Kinds, key : Keys]

Tables == [Ids -> Rows \cup {None}]

ASSUME NoneAssumption == None \notin Rows /\ None \notin Tables

\* id is the least key id of a one-time prekey of table t.
Lowest(t, id) ==
    /\ t[id] # None /\ t[id].kind = "OneTime"
    /\ \A other \in Ids : t[other] # None /\ t[other].kind = "OneTime" => id <= other

Without(t, id) == [t EXCEPT ![id] = None]

-----------------------------------------------------------------------------
PoolInit == table = [id \in Ids |-> None] /\ made = 0 /\ taken = {}

Save(id, kind) ==
    /\ made < MaxKeys
    /\ made' = made + 1
    /\ table' = [table EXCEPT ![id] = [kind |-> kind, key |-> made + 1]]
    /\ UNCHANGED taken

Delete(id) ==
    /\ table' = Without(table, id)
    /\ UNCHANGED <<made, taken>>

Take(id) ==
    /\ Lowest(table, id)
    /\ table' = Without(table, id)
    /\ taken' = taken \cup {table[id].key}
    /\ UNCHANGED made

PoolNext ==
    \E id \in Ids : (\E kind \in Kinds : Save(id, kind)) \/ Delete(id) \/ Take(id)

PoolSpec == PoolInit /\ [][PoolNext]_poolVars
=============================================================================
