------------------------------ MODULE Prekeys ------------------------------
(***************************************************************************)
(* The prekeys table (presidium-storage, store.rs) used through several    *)
(* connections (presidium-sqleet, lib.rs).                                 *)
(*                                                                         *)
(* take_one_time_prekey is a transaction of three statements, and the      *)
(* statements of different connections interleave.  The other operations   *)
(* are single statements, which SQLite runs in a transaction of their own. *)
(*                                                                         *)
(* SQLite (external) in WAL mode: BEGIN takes no lock; the first SELECT    *)
(* fixes the snapshot the transaction reads; the first write needs the     *)
(* only write lock and a snapshot that is still the newest state, and      *)
(* fails at once otherwise; a COMMIT that fails has rolled back.           *)
(***************************************************************************)
EXTENDS PrekeyPool

\* What the SELECT of take_one_time_prekey finds.
Found == [id : Ids, key : Keys]

ASSUME ConnsAssumption == None \notin Conns /\ None \notin Found

VARIABLES
    lock,   \* the connection that holds the write lock
    conn,   \* the transaction and the running call of each connection
    handed  \* history: how often each prekey was returned to a caller

vars == <<table, made, taken, lock, conn, handed>>

-----------------------------------------------------------------------------
\* pc: next statement of take_one_time_prekey; open: inside a transaction;
\* snap: the state it reads; stale: someone committed since; got: the id and
\* the key the SELECT found.
Idle == [pc |-> "idle", open |-> FALSE, snap |-> None, stale |-> FALSE, got |-> None]

Init ==
    /\ PoolInit
    /\ lock = None
    /\ conn = [c \in Conns |-> Idle]
    /\ handed = [k \in Keys |-> 0]

\* Variant for mutation: the journal mode SQLite has by itself.
JournalMode_Default == "DELETE"

JournalMode == "WAL"

\* A commit makes the snapshots of the other connections stale.
Aged(c) == [d \in Conns |-> IF d # c /\ conn[d].snap # None
                            THEN [conn[d] EXCEPT !.stale = TRUE] ELSE conn[d]]

\* A single statement waits for the write lock; when the busy timeout ends
\* the wait, nothing has changed.
CanWrite(c) == conn[c].pc = "idle" /\ lock = None

\* INSERT OR REPLACE: a row of the same id, of either kind, gives way.
SavePrekey(c) ==
    /\ CanWrite(c)
    /\ \E id \in Ids, kind \in Kinds : Save(id, kind)
    /\ conn' = Aged(c)
    /\ UNCHANGED <<lock, handed>>

DeletePrekey(c) ==
    /\ CanWrite(c)
    /\ \E id \in Ids : Delete(id)
    /\ conn' = Aged(c)
    /\ UNCHANGED <<lock, handed>>

-----------------------------------------------------------------------------
(* take_one_time_prekey. *)

\* Variant for mutation: no transaction around the statements.
Begin_None(c) ==
    /\ conn[c].pc = "idle"
    /\ conn' = [conn EXCEPT ![c].pc = "select"]
    /\ UNCHANGED <<table, made, taken, lock, handed>>

Begin(c) ==
    /\ conn[c].pc = "idle" /\ ~conn[c].open
    /\ conn' = [conn EXCEPT ![c].pc = "select", ![c].open = TRUE]
    /\ UNCHANGED <<table, made, taken, lock, handed>>

\* Variant for mutation: the kind is not asked for.
Select_AnyKind(c) ==
    /\ conn[c].pc = "select"
    /\ \/ \E id \in Ids :
             /\ table[id] # None
             /\ \A other \in Ids : table[other] # None => id <= other
             /\ conn' = [conn EXCEPT ![c].pc = "delete", ![c].snap = table,
                                     ![c].got = [id |-> id, key |-> table[id].key]]
       \/ /\ \A id \in Ids : table[id] = None
          /\ conn' = [conn EXCEPT ![c].pc = "commit", ![c].snap = table]
    /\ UNCHANGED <<table, made, taken, lock, handed>>

\* query_row: the first row of the result, if there is one.
QueryRow(t) == {id \in Ids : Lowest(t, id)}

Select(c) ==
    /\ conn[c].pc = "select"
    /\ \/ \E id \in QueryRow(table) :
             conn' = [conn EXCEPT ![c].pc = "delete", ![c].snap = table,
                                  ![c].got = [id |-> id, key |-> table[id].key]]
       \/ /\ QueryRow(table) = {}
          /\ conn' = [conn EXCEPT ![c].pc = "commit", ![c].snap = table]
    /\ UNCHANGED <<table, made, taken, lock, handed>>

\* The write lock is to be had, on the newest state: SQLite refuses to write
\* on an older snapshot, and takes a new one outside a transaction.
CanUpgrade(c) == lock = None /\ (conn[c].open => ~conn[c].stale)

\* The error drops the transaction, which sends ROLLBACK.
Drop(c) == conn' = [conn EXCEPT ![c] = Idle]

DeleteRow(c) ==
    /\ conn[c].pc = "delete"
    /\ \/ /\ CanUpgrade(c)
          /\ lock' = c
          /\ conn' = [conn EXCEPT ![c].pc = "commit"]
       \/ ~CanUpgrade(c) /\ Drop(c) /\ UNCHANGED lock
    /\ UNCHANGED <<table, made, taken, handed>>

\* Nothing was found: COMMIT ends the transaction and the call.
CommitEmpty(c) ==
    /\ conn[c].pc = "commit" /\ conn[c].got = None
    /\ conn' = [conn EXCEPT ![c] = Idle]
    /\ UNCHANGED <<table, made, taken, lock, handed>>

Commit(c) ==
    /\ conn[c].pc = "commit" /\ conn[c].got # None
    /\ table' = Without(table, conn[c].got.id)
    /\ taken' = taken \cup {conn[c].got.key}
    /\ lock' = None
    /\ conn' = [Aged(c) EXCEPT ![c] = [Idle EXCEPT !.pc = "return", !.got = conn[c].got]]
    /\ UNCHANGED <<made, handed>>

\* COMMIT fails and the call returns the error.  In WAL mode SQLite has rolled
\* back.  With a rollback journal a reader is enough to refuse a COMMIT, and
\* the transaction stays open: commit has marked it as done, so dropping it
\* sends no ROLLBACK.
CommitFails(c) ==
    /\ conn[c].pc = "commit" /\ conn[c].got # None
    /\ IF JournalMode = "WAL"
       THEN conn' = [conn EXCEPT ![c] = Idle] /\ lock' = None
       ELSE conn' = [conn EXCEPT ![c].pc = "idle"] /\ UNCHANGED lock
    /\ UNCHANGED <<table, made, taken, handed>>

Return(c) ==
    /\ conn[c].pc = "return"
    /\ handed' = [handed EXCEPT ![conn[c].got.key] = @ + 1]
    /\ conn' = [conn EXCEPT ![c] = Idle]
    /\ UNCHANGED <<table, made, taken, lock>>

\* The process of a connection dies; it may connect again.
Kill(c) ==
    /\ conn[c].pc # "idle"
    /\ conn' = [conn EXCEPT ![c] = Idle]
    /\ lock' = IF lock = c THEN None ELSE lock
    /\ UNCHANGED <<table, made, taken, handed>>

Next ==
    \E c \in Conns :
        \/ SavePrekey(c) \/ DeletePrekey(c)
        \/ Begin(c) \/ Select(c) \/ DeleteRow(c)
        \/ CommitEmpty(c) \/ Commit(c) \/ CommitFails(c)
        \/ Return(c) \/ Kill(c)

Spec == Init /\ [][Next]_vars

-----------------------------------------------------------------------------
\* Type invariant of the table and the connections (Database, Transaction).
TypeOK ==
    /\ table \in Tables /\ made \in 0..MaxKeys /\ taken \subseteq Keys
    /\ lock \in Conns \cup {None}
    /\ conn \in [Conns -> [pc : {"idle", "select", "delete", "commit", "return"},
                           open : BOOLEAN, snap : Tables \cup {None},
                           stale : BOOLEAN, got : Found \cup {None}]]
    /\ handed \in [Keys -> Nat]

\* take_one_time_prekey hands a prekey to one caller only, whatever other
\* connections do between its statements, and never a prekey that is still
\* in the table: a call that fails has handed out nothing.
HandedOutOnce ==
    \A k \in Keys :
        /\ handed[k] <= 1
        /\ handed[k] = 1 => k \in taken /\ \A id \in Ids : table[id] # None => table[id].key # k

\* A connection without a running call has no open transaction and no lock
\* (Transaction's drop rolls back what was not committed), so no failed call
\* keeps later calls, of this or of other connections, from working.
NothingLeftOpen ==
    \A c \in Conns : conn[c].pc = "idle" => ~conn[c].open /\ lock # c

\* take_one_time_prekey is atomic: its statements, interleaved with those of
\* other connections, act as one step that takes the one-time prekey of the
\* least key id in the table at that moment, or as none.
ImplementsPool == PoolSpec

\* "Atomically take (consume) the oldest one-time prekey": what
\* take_one_time_prekey takes was saved before every other one-time prekey in
\* the table.  A prekey's number is the order in which it was saved.
TakesOldest ==
    [][\A k \in taken' \ taken, id \in Ids :
           table[id] # None /\ table[id].kind = "OneTime" => k <= table[id].key]_vars
=============================================================================
