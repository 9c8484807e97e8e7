--------------------------- MODULE StorageProofs ---------------------------
(***************************************************************************)
(* Proofs about Prekeys and Messages, for any number of connections, key   *)
(* ids and prekeys; and of conversations, rows and attachments, and any    *)
(* page size.                                                              *)
(*                                                                         *)
(* Prekeys: take_one_time_prekey is atomic, hands a prekey to one caller   *)
(* and leaves no transaction open.  PrekeysInv says where a prekey is and  *)
(* what each connection knows at each statement.                           *)
(*                                                                         *)
(* Messages: MessagesInv says what the rows of each table decode to, that  *)
(* no two rows are the same message, which row the id a caller holds       *)
(* names, and which rows the pages of a listing hold.  Its parts about     *)
(* callers are stated for any list of rows that keeps the ids and keys of  *)
(* the old one, so that an insert or a change of status keeps them at      *)
(* once.                                                                   *)
(***************************************************************************)
EXTENDS Prekeys, Messages, FiniteSetTheorems, TLAPS

-----------------------------------------------------------------------------
(* PREKEYS *)

\* A prekey has one place: one row of the table, or it was taken.
KeyInv ==
    /\ \A id \in Ids :
           table[id] # None => table[id].key <= made /\ table[id].key \notin taken
    /\ \A i, j \in Ids :
           table[i] # None /\ table[j] # None /\ table[i].key = table[j].key => i = j
    /\ \A k \in taken : k <= made

\* What the SELECT of connection c found is still the oldest one-time prekey.
StillLowest(c) ==
    /\ Lowest(table, conn[c].got.id)
    /\ table[conn[c].got.id].key = conn[c].got.key

\* What each connection knows at each statement: a snapshot that is not stale
\* shows the table as it is, and so does the snapshot of the lock's holder.
ConnInv ==
    \A c \in Conns :
        /\ conn[c].pc = "idle" => ~conn[c].open /\ conn[c].snap = None /\ conn[c].got = None
        /\ conn[c].pc = "select" => conn[c].open /\ conn[c].snap = None /\ conn[c].got = None
        /\ conn[c].pc = "delete" =>
               /\ conn[c].open /\ conn[c].snap # None /\ conn[c].got # None
               /\ ~conn[c].stale => StillLowest(c)
        /\ conn[c].pc = "commit" /\ conn[c].got # None => lock = c /\ StillLowest(c)
        /\ conn[c].pc = "return" =>
               /\ conn[c].snap = None /\ conn[c].got # None
               /\ conn[c].got.key \in taken /\ handed[conn[c].got.key] = 0

\* The lock belongs to a connection that is about to commit.
LockInv == \A c \in Conns : lock = c => conn[c].pc = "commit" /\ conn[c].got # None

\* No two calls are about to return the same prekey.
ReturnInv ==
    \A c, d \in Conns :
        conn[c].pc = "return" /\ conn[d].pc = "return" /\ c # d
            => conn[c].got.key # conn[d].got.key

\* A prekey that was handed out was taken before.
HandedInv == \A k \in Keys : handed[k] = 0 \/ (handed[k] = 1 /\ k \in taken)

PrekeysInv == TypeOK /\ KeyInv /\ ConnInv /\ LockInv /\ ReturnInv /\ HandedInv

Calls == [pc : {"idle", "select", "delete", "commit", "return"},
          open : BOOLEAN, snap : Tables \cup {None},
          stale : BOOLEAN, got : Found \cup {None}]

-----------------------------------------------------------------------------
\* A commit changes other connections only by making their snapshots stale.
LEMMA AgedKeeps ==
    ASSUME TypeOK, NEW c \in Conns
    PROVE  /\ Aged(c) \in [Conns -> Calls]
           /\ \A d \in Conns :
                  /\ Aged(c)[d].pc = conn[d].pc /\ Aged(c)[d].open = conn[d].open
                  /\ Aged(c)[d].snap = conn[d].snap /\ Aged(c)[d].got = conn[d].got
                  /\ d # c /\ conn[d].snap # None => Aged(c)[d].stale
           /\ Aged(c)[c] = conn[c]
  BY Zenon DEF TypeOK, Aged, Calls

\* The first state has no rows, calls or locks.
LEMMA PrekeysInitEstablishes == Init => PrekeysInv
<1> SUFFICES ASSUME Init PROVE PrekeysInv
  BY Zenon
<1> USE NoneAssumption, ConnsAssumption, MaxKeysAssumption DEF Init, PoolInit, Idle
<1>1. TypeOK
  BY DEF TypeOK, Tables, Keys
<1>2. KeyInv /\ LockInv /\ HandedInv
  BY Zenon DEF KeyInv, LockInv, HandedInv, Keys
<1>3. ConnInv /\ ReturnInv
  BY Zenon DEF ConnInv, ReturnInv
<1> QED
  BY <1>1, <1>2, <1>3, Zenon DEF PrekeysInv

\* Taking or releasing the lock changes nothing for the other connections.
LEMMA LockOfOthers ==
    ASSUME NEW c \in Conns, NEW d \in Conns, d # c,
           lock' = lock \/ (lock' = None /\ lock = c) \/ (lock' = c /\ lock = None)
    PROVE  (lock = d) <=> (lock' = d)
<1>1. d # None BY ConnsAssumption, Zenon
<1> QED BY <1>1, Zenon

\* What the connection c knows in the call new, when l holds the lock, is true.
CallFits(c, new, l) ==
    /\ new.pc # "return"
    /\ new.pc = "idle" => ~new.open /\ new.snap = None /\ new.got = None
    /\ new.pc = "select" => new.open /\ new.snap = None /\ new.got = None
    /\ new.pc = "delete" =>
           /\ new.open /\ new.snap # None /\ new.got # None
           /\ Lowest(table, new.got.id) /\ table[new.got.id].key = new.got.key
    /\ new.pc = "commit" /\ new.got # None =>
           /\ l = c
           /\ Lowest(table, new.got.id) /\ table[new.got.id].key = new.got.key
    /\ l = c => new.pc = "commit" /\ new.got # None

\* A step that leaves the table alone and changes the call of one connection
\* keeps what the other connections know.
LEMMA LocalStep ==
    ASSUME PrekeysInv, NEW c \in Conns, NEW new \in Calls,
           conn' = [conn EXCEPT ![c] = new],
           UNCHANGED <<table, made, taken, handed>>,
           lock' = lock \/ (lock' = None /\ lock = c) \/ (lock' = c /\ lock = None),
           CallFits(c, new, lock')
    PROVE  PrekeysInv'
<1>1. /\ conn'[c] = new
      /\ \A d \in Conns : d # c => conn'[d] = conn[d]
  BY Zenon DEF PrekeysInv, TypeOK
<1>2. TypeOK'
  BY Zenon DEF PrekeysInv, TypeOK, Calls
<1>3. KeyInv' /\ HandedInv'
  BY Zenon DEF PrekeysInv, KeyInv, HandedInv
<1>4. ASSUME NEW d \in Conns, d # c PROVE (lock = d) <=> (lock' = d)
  BY <1>4, LockOfOthers, Zenon
<1>5. ConnInv'
  <2>1. ConnInv!(c)'
    BY <1>1, Zenon DEF CallFits, StillLowest, Lowest
  <2>2. ASSUME NEW d \in Conns, d # c PROVE ConnInv!(d)'
    <3>1. ConnInv!(d) /\ conn'[d] = conn[d] /\ ((lock = d) <=> (lock' = d))
      BY <1>1, <1>4, <2>2, Zenon DEF PrekeysInv, ConnInv
    <3>2. StillLowest(d)' <=> StillLowest(d)
      BY <3>1, Zenon DEF StillLowest, Lowest
    <3>3. taken' = taken /\ handed' = handed
      BY Zenon
    <3> QED BY <3>1, <3>2, <3>3, Zenon
  <2> QED BY <2>1, <2>2, Zenon DEF ConnInv
<1>6. LockInv'
  BY <1>1, <1>4 DEF PrekeysInv, LockInv, CallFits
<1>7. ReturnInv'
  BY <1>1 DEF PrekeysInv, ReturnInv, CallFits
<1> QED BY <1>2, <1>3, <1>5, <1>6, <1>7, Zenon DEF PrekeysInv

\* BEGIN keeps the invariant: it reads and locks nothing.
LEMMA BeginPreserves == ASSUME PrekeysInv, NEW c \in Conns, Begin(c) PROVE PrekeysInv'
<1> DEFINE new == [conn[c] EXCEPT !.pc = "select", !.open = TRUE]
<1>1. new \in Calls /\ conn' = [conn EXCEPT ![c] = new] /\ new.pc = "select" /\ new.open
  BY Zenon DEF PrekeysInv, TypeOK, Begin, Calls
<1>2. new.snap = None /\ new.got = None /\ lock # c
  BY Zenon DEF PrekeysInv, TypeOK, ConnInv, LockInv, Begin, Calls
<1> HIDE DEF new
<1> QED BY <1>1, <1>2, LocalStep, Zenon DEF Begin, CallFits

\* The SELECT keeps the invariant: what it found is the oldest row by now.
LEMMA SelectPreserves == ASSUME PrekeysInv, NEW c \in Conns, Select(c) PROVE PrekeysInv'
<1>1. table # None /\ lock # c /\ conn[c] \in Calls /\ table \in Tables
  BY NoneAssumption, Zenon DEF PrekeysInv, TypeOK, LockInv, Select, Calls
<1>2. CASE QueryRow(table) = {}
  <2> DEFINE new == [conn[c] EXCEPT !.pc = "commit", !.snap = table]
  <2>1. conn' = [conn EXCEPT ![c] = new]
    BY <1>2, Zenon DEF Select, PrekeysInv, TypeOK
  <2>2. new \in Calls /\ new.pc = "commit" /\ new.got = None
    BY <1>1, Zenon DEF PrekeysInv, ConnInv, Select, Calls
  <2> HIDE DEF new
  <2> QED BY <1>1, <2>1, <2>2, LocalStep, Zenon DEF Select, CallFits
<1>3. ASSUME NEW id \in QueryRow(table),
             conn' = [conn EXCEPT ![c].pc = "delete", ![c].snap = table,
                                  ![c].got = [id |-> id, key |-> table[id].key]]
      PROVE  PrekeysInv'
  <2> DEFINE found == [id |-> id, key |-> table[id].key]
             new == [conn[c] EXCEPT !.pc = "delete", !.snap = table, !.got = found]
  <2>0. id \in Ids /\ Lowest(table, id)
    BY Zenon DEF QueryRow
  <2>1. found \in Found /\ found # None
    BY <1>1, <2>0, ConnsAssumption DEF Found, Tables, Rows, Lowest
  <2>2. conn' = [conn EXCEPT ![c] = new]
    BY <1>3, Zenon DEF PrekeysInv, TypeOK
  <2>3. new \in Calls /\ new.pc = "delete" /\ new.snap = table /\ new.got = found /\ new.open
    BY <1>1, <2>1, Zenon DEF PrekeysInv, ConnInv, Select, Calls
  <2>4. found.id = id /\ found.key = table[id].key
    BY Zenon
  <2> HIDE DEF new, found
  <2> QED BY <1>1, <2>0, <2>1, <2>2, <2>3, <2>4, LocalStep, Zenon DEF Select, CallFits
<1> QED BY <1>2, <1>3, Zenon DEF Select

\* A connection that gives up its transaction, and the lock if it had it,
\* keeps the invariant: failed statements, failed commits and kills.
LEMMA GiveUp ==
    ASSUME PrekeysInv, NEW c \in Conns,
           conn' = [conn EXCEPT ![c] = Idle],
           lock' = IF lock = c THEN None ELSE lock,
           UNCHANGED <<table, made, taken, handed>>
    PROVE  PrekeysInv'
<1>1. /\ Idle \in Calls /\ Idle.pc = "idle" /\ ~Idle.open
      /\ Idle.snap = None /\ Idle.got = None
  BY Zenon DEF Idle, Calls
<1>2. lock' # c
  BY ConnsAssumption, Zenon
<1> QED BY <1>1, <1>2, LocalStep, Zenon DEF CallFits

\* The DELETE keeps the invariant: it gets the lock only while the snapshot
\* shows the table as it is.
LEMMA DeleteRowPreserves == ASSUME PrekeysInv, NEW c \in Conns, DeleteRow(c) PROVE PrekeysInv'
<1>1. conn[c] \in Calls /\ lock # c
  BY Zenon DEF PrekeysInv, TypeOK, LockInv, DeleteRow, Calls
<1>2. CASE CanUpgrade(c) /\ lock' = c /\ conn' = [conn EXCEPT ![c].pc = "commit"]
  <2> DEFINE new == [conn[c] EXCEPT !.pc = "commit"]
  <2>1. conn' = [conn EXCEPT ![c] = new]
    BY <1>2, Zenon DEF PrekeysInv, TypeOK
  <2>2. new \in Calls /\ new.pc = "commit" /\ new.got = conn[c].got
    BY <1>1, Zenon DEF Calls
  <2>3. conn[c].got # None /\ StillLowest(c) /\ lock = None
    BY <1>2, Zenon DEF PrekeysInv, ConnInv, DeleteRow, CanUpgrade
  <2> HIDE DEF new
  <2> QED BY <1>2, <2>1, <2>2, <2>3, LocalStep, Zenon DEF DeleteRow, StillLowest, CallFits
<1>3. CASE Drop(c) /\ UNCHANGED lock
  BY <1>1, <1>3, GiveUp, Zenon DEF Drop, DeleteRow
<1> QED BY <1>2, <1>3, Zenon DEF DeleteRow

\* A COMMIT without a prekey, a COMMIT that fails in WAL mode and a kill keep
\* the invariant.
LEMMA EndsPreserve ==
    ASSUME PrekeysInv, NEW c \in Conns, CommitEmpty(c) \/ CommitFails(c) \/ Kill(c)
    PROVE  PrekeysInv'
<1>1. CASE CommitEmpty(c)
  BY <1>1, GiveUp, Zenon DEF PrekeysInv, LockInv, CommitEmpty
<1>2. CASE CommitFails(c)
  BY <1>2, GiveUp, Zenon DEF PrekeysInv, ConnInv, CommitFails, JournalMode
<1>3. CASE Kill(c)
  BY <1>3, GiveUp, Zenon DEF Kill
<1> QED BY <1>1, <1>2, <1>3, Zenon

\* Returning a prekey keeps the invariant: nobody else is about to return it.
LEMMA ReturnPreserves == ASSUME PrekeysInv, NEW c \in Conns, Return(c) PROVE PrekeysInv'
<1> DEFINE k == conn[c].got.key
<1>1. /\ k \in Keys /\ k \in taken /\ handed[k] = 0 /\ lock # c
      /\ handed \in [Keys -> Nat]
  BY Zenon DEF PrekeysInv, TypeOK, ConnInv, LockInv, Return
<1>2. /\ handed'[k] = 1 /\ \A j \in Keys : j # k => handed'[j] = handed[j]
      /\ handed' \in [Keys -> Nat]
  BY <1>1 DEF Return
<1>3. /\ conn'[c] = Idle
      /\ \A d \in Conns : d # c => conn'[d] = conn[d]
  BY Zenon DEF PrekeysInv, TypeOK, Return
<1>4. TypeOK'
  BY <1>2, Zenon DEF PrekeysInv, TypeOK, Return, Idle
<1>5. KeyInv'
  BY Zenon DEF PrekeysInv, KeyInv, Return
<1>6. HandedInv'
  BY <1>1, <1>2, Zenon DEF PrekeysInv, HandedInv, Return
<1>7. ASSUME NEW d \in Conns, d # c, conn[d].pc = "return"
      PROVE  conn[d].got.key \in Keys /\ conn[d].got.key # k
  BY <1>7, Zenon DEF PrekeysInv, TypeOK, ConnInv, ReturnInv, Return
<1> HIDE DEF k
<1>8. ConnInv'
  <2> SUFFICES ASSUME NEW d \in Conns, d # c PROVE ConnInv!(d)'
    BY <1>3 DEF ConnInv, Idle
  <2> QED BY <1>2, <1>3, <1>7 DEF PrekeysInv, ConnInv, Return, StillLowest, Lowest
<1>9. LockInv' /\ ReturnInv'
  BY <1>1, <1>3 DEF PrekeysInv, LockInv, ReturnInv, Return, Idle
<1> QED BY <1>4, <1>5, <1>6, <1>8, <1>9, Zenon DEF PrekeysInv

-----------------------------------------------------------------------------
\* A statement that writes while nobody holds the lock keeps what the other
\* connections know: their snapshots are stale from then on, and nobody
\* stands before a COMMIT of its own.
LEMMA WriteAges ==
    ASSUME PrekeysInv, NEW c \in Conns, CanWrite(c), conn' = Aged(c),
           UNCHANGED <<taken, lock, handed>>
    PROVE  ConnInv' /\ LockInv' /\ ReturnInv' /\ HandedInv'
<1>1. \A d \in Conns :
          /\ conn'[d].pc = conn[d].pc /\ conn'[d].open = conn[d].open
          /\ conn'[d].snap = conn[d].snap /\ conn'[d].got = conn[d].got
          /\ d # c /\ conn[d].snap # None => conn'[d].stale
  BY AgedKeeps DEF PrekeysInv
<1>2. lock = None /\ conn[c].pc = "idle" /\ \A d \in Conns : lock # d
  BY ConnsAssumption, Zenon DEF CanWrite
<1>3. ConnInv'
  BY <1>1, <1>2 DEF PrekeysInv, ConnInv
<1>4. LockInv' /\ ReturnInv' /\ HandedInv'
  BY <1>1, <1>2 DEF PrekeysInv, LockInv, ReturnInv, HandedInv
<1> QED BY <1>3, <1>4, Zenon

\* save_prekey keeps the invariant: the new prekey is in one row only.
LEMMA SavePrekeyPreserves == ASSUME PrekeysInv, NEW c \in Conns, SavePrekey(c) PROVE PrekeysInv'
<1> PICK id \in Ids, kind \in Kinds : Save(id, kind)
  BY Zenon DEF SavePrekey
<1> DEFINE row == [kind |-> kind, key |-> made + 1]
<1>1. /\ row \in Rows /\ row # None /\ row.key = made + 1
      /\ made \in Nat /\ made + 1 \in Keys /\ made' = made + 1 /\ made' \in 0..MaxKeys
  BY NoneAssumption, MaxKeysAssumption DEF Save, PrekeysInv, TypeOK, Rows, Keys
<1>2. /\ table'[id] = row /\ \A i \in Ids : i # id => table'[i] = table[i]
      /\ table' \in Tables /\ taken' = taken
  BY <1>1, Zenon DEF Save, PrekeysInv, TypeOK, Tables
<1>3. /\ \A i \in Ids : table[i] # None => table[i].key \in Nat /\ table[i].key <= made
      /\ \A k \in taken : k \in Nat /\ k <= made
  <2>1. \A k \in Keys : k \in Nat
    BY MaxKeysAssumption DEF Keys
  <2>2. \A r \in Rows : r.key \in Keys
    BY DEF Rows
  <2>3. (\A i \in Ids : table[i] # None => table[i] \in Rows) /\ taken \subseteq Keys
    BY Zenon DEF PrekeysInv, TypeOK, Tables
  <2> QED BY <2>1, <2>2, <2>3, Zenon DEF PrekeysInv, KeyInv
<1> HIDE DEF row
<1>4. KeyInv'
  BY <1>1, <1>2, <1>3 DEF PrekeysInv, KeyInv
<1>5. conn' \in [Conns -> Calls]
  BY AgedKeeps, Zenon DEF PrekeysInv, SavePrekey
<1>6. TypeOK'
  BY <1>1, <1>2, <1>5, Zenon DEF PrekeysInv, TypeOK, SavePrekey, Calls
<1>7. ConnInv' /\ LockInv' /\ ReturnInv' /\ HandedInv'
  BY <1>2, WriteAges, Zenon DEF SavePrekey
<1> QED BY <1>4, <1>6, <1>7, Zenon DEF PrekeysInv

\* Removing a row keeps one place for every prekey.
LEMMA WithoutKeeps ==
    ASSUME NEW id \in Ids, table \in Tables, table' = Without(table, id)
    PROVE  /\ table' \in Tables /\ table'[id] = None
           /\ \A i \in Ids : i # id => table'[i] = table[i]
  BY Zenon DEF Without, Tables

\* delete_prekey keeps the invariant.
LEMMA DeletePrekeyPreserves == ASSUME PrekeysInv, NEW c \in Conns, DeletePrekey(c) PROVE PrekeysInv'
<1> PICK id \in Ids : Delete(id)
  BY Zenon DEF DeletePrekey
<1>1. /\ table' \in Tables /\ table'[id] = None
      /\ \A i \in Ids : i # id => table'[i] = table[i]
  BY WithoutKeeps, Zenon DEF Delete, PrekeysInv, TypeOK
<1>2. KeyInv'
  BY <1>1, Zenon DEF PrekeysInv, KeyInv, Delete
<1>3. conn' \in [Conns -> Calls]
  BY AgedKeeps, Zenon DEF PrekeysInv, DeletePrekey
<1>4. TypeOK'
  BY <1>1, <1>3, Zenon DEF PrekeysInv, TypeOK, DeletePrekey, Delete, Calls
<1>5. ConnInv' /\ LockInv' /\ ReturnInv' /\ HandedInv'
  BY WriteAges, Zenon DEF DeletePrekey, Delete
<1> QED BY <1>2, <1>4, <1>5, Zenon DEF PrekeysInv

\* COMMIT keeps the invariant: the prekey leaves its only row, it was not
\* taken before, and the snapshots of the others become stale.
LEMMA CommitPreserves == ASSUME PrekeysInv, NEW c \in Conns, Commit(c) PROVE PrekeysInv'
<1> DEFINE got == conn[c].got
           new == [Idle EXCEPT !.pc = "return", !.got = got]
<1>1. /\ got \in Found /\ got # None /\ got.id \in Ids /\ got.key \in Keys
      /\ lock = c /\ table[got.id] # None /\ table[got.id].key = got.key
  BY Zenon DEF PrekeysInv, TypeOK, ConnInv, StillLowest, Lowest, Commit, Found
<1>2. /\ new \in Calls /\ new.pc = "return" /\ new.got = got
      /\ new.snap = None /\ ~new.open
  BY <1>1, Zenon DEF Idle, Calls
<1>3. /\ conn'[c] = new /\ conn' \in [Conns -> Calls]
      /\ \A d \in Conns : d # c =>
             /\ conn'[d].pc = conn[d].pc /\ conn'[d].open = conn[d].open
             /\ conn'[d].snap = conn[d].snap /\ conn'[d].got = conn[d].got
             /\ conn[d].snap # None => conn'[d].stale
  BY <1>2, AgedKeeps, Zenon DEF PrekeysInv, Commit
<1>4. /\ table' \in Tables /\ table'[got.id] = None
      /\ \A i \in Ids : i # got.id => table'[i] = table[i]
  BY <1>1, WithoutKeeps, Zenon DEF PrekeysInv, TypeOK, Commit
<1>5. /\ taken' = taken \cup {got.key} /\ got.key \notin taken /\ got.key <= made
      /\ \A i \in Ids : table[i] # None /\ table[i].key = got.key => i = got.id
  BY <1>1, Zenon DEF PrekeysInv, KeyInv, Commit
<1>6. \A d \in Conns : lock' # d /\ (d # c => lock # d)
  BY <1>1, ConnsAssumption, Zenon DEF Commit
<1>7. made' = made /\ handed' = handed /\ handed[got.key] = 0
  BY <1>1, <1>5, Zenon DEF PrekeysInv, HandedInv, Commit
<1> HIDE DEF got, new
<1>8. TypeOK'
  BY <1>1, <1>3, <1>4, <1>5, <1>7 DEF PrekeysInv, TypeOK, Commit, Calls
<1>9. KeyInv'
  BY <1>4, <1>5, <1>7, Zenon DEF PrekeysInv, KeyInv
<1>10. ConnInv'
  <2>1. ConnInv!(c)'
    BY <1>1, <1>2, <1>3, <1>5, <1>7, Zenon
  <2>2. ASSUME NEW d \in Conns, d # c PROVE ConnInv!(d)'
    <3>1. /\ ConnInv!(d) /\ lock # d
          /\ conn'[d].pc = conn[d].pc /\ conn'[d].open = conn[d].open
          /\ conn'[d].snap = conn[d].snap /\ conn'[d].got = conn[d].got
          /\ conn[d].snap # None => conn'[d].stale
      BY <2>2, <1>3, <1>6, Zenon DEF PrekeysInv, ConnInv
    <3>2. \A k \in taken : k \in taken' /\ handed'[k] = handed[k]
      BY <1>5, <1>7, Zenon
    <3> QED BY <3>1, <3>2, Zenon
  <2> QED BY <2>1, <2>2, Zenon DEF ConnInv
<1>11. LockInv' /\ HandedInv'
  BY <1>5, <1>6, <1>7, Zenon DEF PrekeysInv, LockInv, HandedInv
<1>12. ReturnInv'
  BY <1>2, <1>3, <1>5 DEF PrekeysInv, ReturnInv, ConnInv
<1> QED BY <1>8, <1>9, <1>10, <1>11, <1>12, Zenon DEF PrekeysInv

\* Every step keeps the invariant.
LEMMA PrekeysNextPreserves == PrekeysInv /\ [Next]_vars => PrekeysInv'
<1> SUFFICES ASSUME PrekeysInv, [Next]_vars PROVE PrekeysInv'
  BY Zenon
<1>1. CASE UNCHANGED vars
  BY <1>1 DEF vars, PrekeysInv, TypeOK, KeyInv, ConnInv, StillLowest, Lowest, LockInv, ReturnInv,
      HandedInv
<1>2. ASSUME NEW c \in Conns,
             \/ SavePrekey(c) \/ DeletePrekey(c)
             \/ Begin(c) \/ Select(c) \/ DeleteRow(c)
             \/ CommitEmpty(c) \/ Commit(c) \/ CommitFails(c)
             \/ Return(c) \/ Kill(c)
      PROVE  PrekeysInv'
  BY <1>2, SavePrekeyPreserves, DeletePrekeyPreserves, BeginPreserves, SelectPreserves,
     DeleteRowPreserves, EndsPreserve, CommitPreserves, ReturnPreserves, Zenon
<1> QED BY <1>1, <1>2, Zenon DEF Next

\* The invariant holds in every state.
LEMMA PrekeysInvariant == Spec => []PrekeysInv
  BY PrekeysInitEstablishes, PrekeysNextPreserves, PTL DEF Spec

-----------------------------------------------------------------------------
\* Type correctness of the table and the connections (Database, Transaction).
THEOREM PrekeyTypes == Spec => []TypeOK
<1>1. PrekeysInv => TypeOK
  BY Zenon DEF PrekeysInv
<1> QED BY <1>1, PrekeysInvariant, PTL

\* take_one_time_prekey hands a prekey to one caller only, and never one that
\* is still in the table.
THEOREM PrekeyHandedOutOnce == Spec => []HandedOutOnce
<1>1. PrekeysInv => HandedOutOnce
  BY DEF PrekeysInv, HandedInv, KeyInv, HandedOutOnce
<1> QED BY <1>1, PrekeysInvariant, PTL

\* A connection without a running call has no open transaction and no lock.
THEOREM TransactionsEnd == Spec => []NothingLeftOpen
<1>1. PrekeysInv => NothingLeftOpen
  BY Zenon DEF PrekeysInv, ConnInv, LockInv, NothingLeftOpen
<1> QED BY <1>1, PrekeysInvariant, PTL

\* take_one_time_prekey is atomic: the statements of any number of connections
\* do what one step of the pool does at the COMMIT, and nothing otherwise.
THEOREM TakeIsAtomic == Spec => ImplementsPool
<1>1. Init => PoolInit
  BY Zenon DEF Init
<1>2. PrekeysInv /\ [Next]_vars => [PoolNext]_poolVars
  <2> SUFFICES ASSUME PrekeysInv, Next PROVE PoolNext \/ UNCHANGED poolVars
    BY Zenon DEF vars, poolVars
  <2> PICK c \in Conns :
             \/ SavePrekey(c) \/ DeletePrekey(c)
             \/ Begin(c) \/ Select(c) \/ DeleteRow(c)
             \/ CommitEmpty(c) \/ Commit(c) \/ CommitFails(c)
             \/ Return(c) \/ Kill(c)
    BY Zenon DEF Next
  <2>1. CASE SavePrekey(c) \/ DeletePrekey(c)
    BY <2>1, Zenon DEF SavePrekey, DeletePrekey, PoolNext
  <2>2. CASE Commit(c)
    <3>1. conn[c].got.id \in Ids /\ StillLowest(c)
      BY <2>2, Zenon DEF PrekeysInv, TypeOK, ConnInv, Commit, Found
    <3>2. Take(conn[c].got.id)
      BY <2>2, <3>1, Zenon DEF Commit, Take, StillLowest
    <3> QED BY <3>1, <3>2, Zenon DEF PoolNext
  <2>3. CASE Begin(c) \/ Select(c) \/ DeleteRow(c) \/ CommitEmpty(c) \/ CommitFails(c)
             \/ Return(c) \/ Kill(c)
    BY <2>3, Zenon DEF Begin, Select, DeleteRow, CommitEmpty, CommitFails, Return, Kill, poolVars
  <2> QED BY <2>1, <2>2, <2>3, Zenon
<1> QED BY <1>1, <1>2, PrekeysInvariant, PTL DEF Spec, PoolSpec, ImplementsPool

-----------------------------------------------------------------------------
(* MESSAGES *)

-----------------------------------------------------------------------------
(* ORDER BY id DESC LIMIT *)


AtLeast(ids, i) == {j \in ids : j >= i}
Rank(ids, i) == Cardinality(AtLeast(ids, i))
PageLength(ids, limit) == IF Cardinality(ids) < limit THEN Cardinality(ids) ELSE limit

\* A row has the smaller rank the newer it is.
LEMMA RankOrders ==
    ASSUME NEW ids, ids \subseteq Nat, IsFiniteSet(ids)
    PROVE  /\ \A i \in ids : Rank(ids, i) \in 1..Cardinality(ids)
           /\ \A i, j \in ids : i < j => Rank(ids, j) < Rank(ids, i)
           /\ \A i, j \in ids : Rank(ids, i) = Rank(ids, j) => i = j
<1>1. ASSUME NEW i \in ids
      PROVE  IsFiniteSet(AtLeast(ids, i)) /\ Rank(ids, i) \in 1..Cardinality(ids)
  <2>1. AtLeast(ids, i) \in SUBSET ids /\ i \in AtLeast(ids, i)
    BY DEF AtLeast
  <2>2. /\ IsFiniteSet(AtLeast(ids, i)) /\ Cardinality(AtLeast(ids, i)) <= Cardinality(ids)
        /\ Cardinality(AtLeast(ids, i)) \in Nat /\ Cardinality(ids) \in Nat
    BY <2>1, FS_Subset, FS_CardinalityType, Zenon
  <2>3. Cardinality(AtLeast(ids, i)) # 0
    BY <2>1, <2>2, FS_EmptySet, Zenon
  <2> QED BY <2>2, <2>3 DEF Rank
<1>2. ASSUME NEW i \in ids, NEW j \in ids, i < j
      PROVE  Rank(ids, j) < Rank(ids, i)
  <2>1. AtLeast(ids, j) \in SUBSET AtLeast(ids, i) /\ i \in AtLeast(ids, i) /\ i \notin AtLeast(ids, j)
    <3>1. i \in Nat /\ j \in Nat /\ ids \subseteq Nat
      BY Zenon
    <3>2. \A k \in Nat : k >= j => k >= i
      BY <1>2, <3>1
    <3>3. i >= i /\ ~(i >= j)
      BY <1>2, <3>1
    <3> QED BY <3>1, <3>2, <3>3, Zenon DEF AtLeast
  <2>2. Rank(ids, j) <= Rank(ids, i) /\ Rank(ids, j) # Rank(ids, i)
    BY <1>1, <2>1, FS_Subset, Zenon DEF Rank
  <2>3. Rank(ids, i) \in Nat /\ Rank(ids, j) \in Nat
    BY <1>1
  <2> QED BY <2>2, <2>3
<1>3. \A i, j \in ids : Rank(ids, i) = Rank(ids, j) => i = j
  <2> SUFFICES ASSUME NEW i \in ids, NEW j \in ids, Rank(ids, i) = Rank(ids, j) PROVE i = j
    BY Zenon
  <2>1. Rank(ids, i) \in Nat /\ ~(i < j) /\ ~(j < i)
    BY <1>1, <1>2
  <2> QED BY <2>1
<1> QED BY <1>1, <1>2, <1>3, Zenon

\* Every rank up to the number of rows is some row's.
LEMMA RanksTaken ==
    ASSUME NEW ids, ids \subseteq Nat, IsFiniteSet(ids), NEW n \in 1..Cardinality(ids)
    PROVE  \E i \in ids : Rank(ids, i) = n
<1> DEFINE c == Cardinality(ids)
           f == [i \in ids |-> Rank(ids, i)]
<1>1. c \in Nat
  BY FS_CardinalityType, Zenon
<1>2. f \in Injection(ids, 1..c)
  BY RankOrders, Zenon DEF Injection, IsInjective
<1>3. IsFiniteSet(1..c) /\ Cardinality(1..c) = c
  BY <1>1, FS_Interval
<1>4. f \in Surjection(ids, 1..c)
  BY <1>2, <1>3, FS_Injection, Zenon
<1> QED BY <1>4, Zenon DEF Surjection

\* A page: its length, its order, and that what it leaves out is older.
IsPage(page, ids, limit) ==
    /\ page \in Seq(ids)
    /\ Len(page) = PageLength(ids, limit)
    /\ \A m, n \in 1..Len(page) : m < n => page[m] > page[n]
    /\ \A i \in ids : i \in {page[n] : n \in 1..Len(page)} \/ \A n \in 1..Len(page) : i < page[n]
    /\ Len(page) < limit => \A i \in ids : i \in {page[n] : n \in 1..Len(page)}

\* list_messages gives the newest rows, newest first, and all of them if they
\* fit on the page.
LEMMA NewestIsPage ==
    ASSUME NEW ids, ids \subseteq Nat, IsFiniteSet(ids), NEW limit \in Nat
    PROVE  IsPage(Newest(ids, limit), ids, limit)
<1> DEFINE page == Newest(ids, limit)
           c == Cardinality(ids)
           size == PageLength(ids, limit)
<1>1. c \in Nat /\ size \in Nat /\ size <= c /\ size <= limit /\ (size < limit => size = c)
  BY FS_CardinalityType DEF PageLength
<1>2. page = [n \in 1..size |-> CHOOSE i \in ids : Rank(ids, i) = n]
  BY DEF Newest, Rank, AtLeast, PageLength
<1> HIDE DEF page, size, c
<1>3. \A n \in 1..size : page[n] \in ids /\ Rank(ids, page[n]) = n
  <2> TAKE n \in 1..size
  <2>1. n \in 1..c
    BY <1>1
  <2>2. \E i \in ids : Rank(ids, i) = n
    BY <2>1, RanksTaken, Zenon DEF c
  <2> QED BY <1>2, <2>2, Zenon
<1>4. page \in Seq(ids) /\ Len(page) = size
  <2>1. page \in [1..size -> ids]
    BY <1>2, <1>3, Zenon
  <2> QED BY <1>1, <2>1
<1>5. \A m, n \in 1..size : m < n => page[m] > page[n]
  <2> SUFFICES ASSUME NEW m \in 1..size, NEW n \in 1..size, m < n PROVE page[m] > page[n]
    BY Zenon
  <2>1. page[m] \in Nat /\ page[n] \in Nat /\ page[m] # page[n] /\ ~(page[m] < page[n])
    <3>1. page[m] \in ids /\ page[n] \in ids /\ Rank(ids, page[m]) = m /\ Rank(ids, page[n]) = n
      BY <1>3, Zenon
    <3>2. m \in Nat /\ n \in Nat /\ m # n /\ ~(n < m)
      BY <1>1
    <3>3. page[m] < page[n] => Rank(ids, page[n]) < Rank(ids, page[m])
      BY <3>1, RankOrders, Zenon
    <3> QED BY <3>1, <3>2, <3>3, Zenon
  <2> QED BY <2>1
<1>6. ASSUME NEW i \in ids
      PROVE  /\ i \in {page[n] : n \in 1..size} \/ \A n \in 1..size : i < page[n]
             /\ size = c => i \in {page[n] : n \in 1..size}
  <2> DEFINE r == Rank(ids, i)
  <2>1. r \in 1..c
    BY RankOrders, Zenon DEF c
  <2>2. CASE r \in 1..size
    <3>1. page[r] = i
      BY <1>3, <2>2, RankOrders, Zenon
    <3> QED BY <2>2, <3>1, Zenon
  <2>3. CASE r \notin 1..size
    <3>1. r > size /\ size # c
      BY <1>1, <2>1, <2>3
    <3>2. ASSUME NEW n \in 1..size PROVE i < page[n]
      <4>1. page[n] \in ids /\ Rank(ids, page[n]) < r
        BY <1>1, <1>3, <2>1, <3>1
      <4>2. i \in Nat /\ page[n] \in Nat /\ i # page[n] /\ ~(page[n] < i)
        <5>1. r \in Nat /\ Rank(ids, page[n]) \in Nat /\ ~(r < Rank(ids, page[n])) /\ r # Rank(ids, page[n])
          BY <1>3, <2>1, <4>1
        <5> QED BY <4>1, <5>1, RankOrders, Zenon
      <4> QED BY <4>2
    <3> QED BY <3>1, <3>2, Zenon
  <2> QED BY <2>2, <2>3, Zenon
<1>7. IsPage(page, ids, limit)
  BY <1>1, <1>4, <1>5, <1>6, Zenon DEF IsPage, size
<1> QED BY <1>7, Zenon DEF page

-----------------------------------------------------------------------------
(* Records, rows and upserts *)

StatusNames == {"Pending", "Sent", "Delivered", "Read", "Failed"}

ConversationRecords == [peer_classical : Nat, peer_pq : Nat, is_group : BOOLEAN, created_at : Nat]
SessionRecords == [is_initiator : BOOLEAN, session_keys : Nat, ratchet : Nat \cup {None},
                   last_used : Nat]
SenderKeyRecords == [chain_key : Nat, message_index : Nat, key_id : Nat, updated_at : Nat]
DeviceRecords == [classical : Nat, pq : Nat, last_seen : Nat \cup {None}]
MessageRecords == [conversation_id : Conversations, message_id : Uids,
                   direction : Directions, status : StatusNames]

\* A status and a direction survive their way through the row.
LEMMA CodesRoundTrip ==
    /\ {Statuses[i] : i \in DOMAIN Statuses} = StatusNames
    /\ \A s \in StatusNames : StatusCode(s) \in 0..4 /\ StatusFrom(StatusCode(s)) = s
    /\ \A d \in Directions : /\ DirectionCode(d) \in {0, 1}
                             /\ (IF DirectionCode(d) = 0 THEN "Incoming" ELSE "Outgoing") = d
<1>1. /\ DOMAIN Statuses = 1..5
      /\ Statuses[1] = "Pending" /\ Statuses[2] = "Sent" /\ Statuses[3] = "Delivered"
      /\ Statuses[4] = "Read" /\ Statuses[5] = "Failed"
  BY DEF Statuses
<1>2. \A i \in 1..5 : i = 1 \/ i = 2 \/ i = 3 \/ i = 4 \/ i = 5
  OBVIOUS
<1>3. {Statuses[i] : i \in DOMAIN Statuses} = StatusNames
  BY <1>1, <1>2 DEF StatusNames
<1>4. ASSUME NEW n \in 1..5 PROVE (CHOOSE i \in DOMAIN Statuses : Statuses[i] = Statuses[n]) = n
  BY <1>1, <1>2, Zenon
<1>5. ASSUME NEW s \in StatusNames PROVE StatusCode(s) \in 0..4 /\ StatusFrom(StatusCode(s)) = s
  <2>1. PICK n \in 1..5 : Statuses[n] = s
    BY <1>1 DEF StatusNames
  <2>2. StatusCode(s) = n - 1
    BY <1>4, <2>1, Zenon DEF StatusCode
  <2>3. n - 1 \in 0..4 /\ (n - 1) + 1 = n /\ (n - 1 \in 0..3 \/ n = 5)
    OBVIOUS
  <2> QED BY <1>1, <2>1, <2>2, <2>3, Zenon DEF StatusFrom
<1>6. \A d \in Directions : /\ DirectionCode(d) \in {0, 1}
                             /\ (IF DirectionCode(d) = 0 THEN "Incoming" ELSE "Outgoing") = d
  BY DEF Directions, DirectionCode
<1> QED BY <1>3, <1>5, <1>6, Zenon

\* What is bound to a statement comes out of the row again.
LEMMA RowsLoad ==
    /\ \A r \in ConversationRecords :
          ConversationRow(r) \in ConversationRows /\ load_conversation(ConversationRow(r)) = r
    /\ \A r \in SessionRecords :
          SessionRow(r) \in SessionRows /\ load_session(SessionRow(r)) = r
    /\ \A r \in SenderKeyRecords :
          SenderKeyRow(r) \in SenderKeyRows /\ load_sender_key(SenderKeyRow(r)) = r
    /\ \A r \in DeviceRecords :
          DeviceRow(r) \in DeviceRows /\ list_devices(DeviceRow(r)) = r
    /\ \A m \in MessageRecords :
          MessageRow(m) \in MessageRows /\ message_from_row(MessageRow(m)) = m
<1> USE DEF Column, Text, Blob, I64, GetOwned, ColumnI64
<1>1. ASSUME NEW r \in ConversationRecords
      PROVE  ConversationRow(r) \in ConversationRows /\ load_conversation(ConversationRow(r)) = r
  <2>1. FromBool(r.is_group) \in Column("i64", {0, 1}) /\ GetBool(FromBool(r.is_group)) = r.is_group
    BY DEF ConversationRecords, FromBool, GetBool
  <2> QED BY <2>1, Zenon DEF ConversationRecords, ConversationRow, ConversationRows, load_conversation
<1>2. ASSUME NEW r \in SessionRecords
      PROVE  SessionRow(r) \in SessionRows /\ load_session(SessionRow(r)) = r
  <2> DEFINE row == SessionRow(r)
  <2>1. /\ row.is_initiator \in Column("i64", {0, 1}) /\ GetBool(row.is_initiator) = r.is_initiator
        /\ row.session_keys \in Column("text", Nat) /\ GetOwned(row.session_keys) = r.session_keys
        /\ row.last_used \in Column("i64", Nat) /\ ColumnI64(row.last_used) = r.last_used
    BY DEF SessionRow, SessionRecords, FromBool, GetBool
  <2>2. /\ row.ratchet_state \in Column("text", Nat) \cup {Null}
        /\ (IF Readable(row.ratchet_state) THEN GetOwned(row.ratchet_state) ELSE None) = r.ratchet
    <3>1. CASE r.ratchet = None
      BY <3>1, Zenon DEF SessionRow, SessionRecords, Null, Readable
    <3>2. CASE r.ratchet # None
      BY <3>2, Zenon DEF SessionRow, SessionRecords, Null, Readable
    <3> QED BY <3>1, <3>2, Zenon
  <2>3. row \in SessionRows
    <3>1. row = [is_initiator |-> row.is_initiator, session_keys |-> row.session_keys,
                 ratchet_state |-> row.ratchet_state, last_used |-> row.last_used]
      BY Zenon DEF SessionRow
    <3> HIDE DEF row
    <3> QED BY <2>1, <2>2, <3>1, Zenon DEF SessionRows
  <2>4. load_session(row) = r
    <3> HIDE DEF row
    <3> QED BY <2>1, <2>2, Zenon DEF load_session, SessionRecords
  <2> QED BY <2>3, <2>4, Zenon
<1>3. ASSUME NEW r \in SenderKeyRecords
      PROVE  SenderKeyRow(r) \in SenderKeyRows /\ load_sender_key(SenderKeyRow(r)) = r
  BY Zenon DEF SenderKeyRecords, SenderKeyRow, SenderKeyRows, load_sender_key
<1>4. ASSUME NEW r \in DeviceRecords
      PROVE  DeviceRow(r) \in DeviceRows /\ list_devices(DeviceRow(r)) = r
  <2>1. /\ FromOption(r.last_seen) \in Column("i64", Nat) \cup {Null}
        /\ GetOption(FromOption(r.last_seen)) = r.last_seen
    BY Zenon DEF DeviceRecords, FromOption, GetOption, Null
  <2> QED BY <2>1, Zenon DEF DeviceRecords, DeviceRow, DeviceRows, list_devices
<1>5. ASSUME NEW m \in MessageRecords
      PROVE  MessageRow(m) \in MessageRows /\ message_from_row(MessageRow(m)) = m
  <2>1. /\ DirectionCode(m.direction) \in {0, 1} /\ StatusCode(m.status) \in 0..4
        /\ StatusFrom(StatusCode(m.status)) = m.status
        /\ (IF DirectionCode(m.direction) = 0 THEN "Incoming" ELSE "Outgoing") = m.direction
    BY CodesRoundTrip, Zenon DEF MessageRecords
  <2> QED BY <2>1, Zenon DEF MessageRecords, MessageRow, MessageRows, message_from_row
<1> QED BY <1>1, <1>2, <1>3, <1>4, <1>5, Zenon

\* An upsert that sets every column puts the new row in the place of the old.
LEMMA UpsertReplaces ==
    ASSUME NEW rows, NEW k \in DOMAIN rows, NEW row, NEW cols,
           row = [col \in DOMAIN row |-> row[col]], DOMAIN row \subseteq cols
    PROVE  Upserted(rows, k, row, cols) = [rows EXCEPT ![k] = row]
<1>1. [col \in DOMAIN row |-> IF col \in cols THEN row[col] ELSE rows[k][col]] = row
  BY Zenon
<1> QED BY <1>1, Zenon DEF Upserted

\* The three tables whose upserts do.
LEMMA WholeUpserts ==
    /\ \A k \in Conversations, r \in SessionRecords, rows \in [Conversations -> SessionRows \cup {None}] :
          Upserted(rows, k, SessionRow(r), {"is_initiator", "session_keys", "ratchet_state", "last_used"})
             = [rows EXCEPT ![k] = SessionRow(r)]
    /\ \A k \in Conversations, r \in SenderKeyRecords, rows \in [Conversations -> SenderKeyRows \cup {None}] :
          Upserted(rows, k, SenderKeyRow(r), SenderKeyColumns)
             = [rows EXCEPT ![k] = SenderKeyRow(r)]
    /\ \A d \in Devices, r \in DeviceRecords, rows \in [Devices -> DeviceRows \cup {None}] :
          Upserted(rows, d, DeviceRow(r), {"classical", "pq", "last_seen"})
             = [rows EXCEPT ![d] = DeviceRow(r)]
<1>1. ASSUME NEW r
      PROVE  /\ SessionRow(r) = [col \in DOMAIN SessionRow(r) |-> SessionRow(r)[col]]
             /\ DOMAIN SessionRow(r) = {"is_initiator", "session_keys", "ratchet_state", "last_used"}
  BY Zenon DEF SessionRow
<1>2. ASSUME NEW r
      PROVE  /\ SenderKeyRow(r) = [col \in DOMAIN SenderKeyRow(r) |-> SenderKeyRow(r)[col]]
             /\ DOMAIN SenderKeyRow(r) = SenderKeyColumns
  BY Zenon DEF SenderKeyRow, SenderKeyColumns
<1>3. ASSUME NEW r
      PROVE  /\ DeviceRow(r) = [col \in DOMAIN DeviceRow(r) |-> DeviceRow(r)[col]]
             /\ DOMAIN DeviceRow(r) = {"classical", "pq", "last_seen"}
  BY Zenon DEF DeviceRow
<1> QED BY <1>1, <1>2, <1>3, UpsertReplaces

\* An upsert of a conversation keeps the date of a row that is there.
LEMMA ConversationUpserts ==
    ASSUME NEW k \in Conversations, NEW r \in ConversationRecords,
           NEW rows \in [Conversations -> ConversationRows \cup {None}],
           NEW after, after = Upserted(rows, k, ConversationRow(r), ConversationColumns)
    PROVE  /\ after \in [Conversations -> ConversationRows \cup {None}]
           /\ after[k] # None
           /\ rows[k] = None => load_conversation(after[k]) = r
           /\ rows[k] # None => load_conversation(after[k]) =
                  [r EXCEPT !.created_at = load_conversation(rows[k]).created_at]
           /\ \A l \in Conversations \ {k} : after[l] = rows[l]
<1> DEFINE row == ConversationRow(r)
           new == IF rows[k] = None THEN row
                  ELSE [col \in DOMAIN row |-> IF col \in ConversationColumns THEN row[col] ELSE rows[k][col]]
<1>1. after = [rows EXCEPT ![k] = new]
  BY Zenon DEF Upserted
<1>2. /\ DOMAIN row = {"peer_classical", "peer_pq", "is_group", "created_at"}
      /\ row \in ConversationRows /\ row # None /\ load_conversation(row) = r
  <2>1. DOMAIN row = {"peer_classical", "peer_pq", "is_group", "created_at"}
    BY Zenon DEF ConversationRow
  <2>2. row \in ConversationRows /\ load_conversation(row) = r
    BY RowsLoad, Zenon
  <2>3. \A x \in ConversationRows : x # None
    BY RowsAssumption
  <2> QED BY <2>1, <2>2, <2>3, Zenon
<1>3. CASE rows[k] = None
  BY <1>1, <1>2, <1>3, Zenon
<1>4. CASE rows[k] # None
  <2>1. new = [peer_classical |-> row.peer_classical, peer_pq |-> row.peer_pq,
               is_group |-> row.is_group, created_at |-> rows[k].created_at]
    <3> HIDE DEF row
    <3> QED BY <1>2, <1>4 DEF ConversationColumns
  <2>2. /\ row.peer_classical \in Column("blob", Nat) /\ row.peer_pq \in Column("blob", Nat)
        /\ row.is_group \in Column("i64", {0, 1}) /\ rows[k].created_at \in Column("i64", Nat)
    BY <1>2, <1>4, Zenon DEF ConversationRows
  <2> HIDE DEF row, new
  <2>3. new \in ConversationRows /\ new # None
    BY <2>1, <2>2, RowsAssumption DEF ConversationRows
  <2>4. load_conversation(new) = [r EXCEPT !.created_at = load_conversation(rows[k]).created_at]
    <3>1. load_conversation(new) =
             [peer_classical |-> load_conversation(row).peer_classical,
              peer_pq |-> load_conversation(row).peer_pq,
              is_group |-> load_conversation(row).is_group,
              created_at |-> load_conversation(rows[k]).created_at]
      BY <2>1, Zenon DEF load_conversation
    <3>2. r = [peer_classical |-> r.peer_classical, peer_pq |-> r.peer_pq, is_group |-> r.is_group,
               created_at |-> r.created_at]
      BY Zenon DEF ConversationRecords
    <3>3. [r EXCEPT !.created_at = load_conversation(rows[k]).created_at] =
             [peer_classical |-> r.peer_classical, peer_pq |-> r.peer_pq, is_group |-> r.is_group,
              created_at |-> load_conversation(rows[k]).created_at]
      BY <3>2
    <3> QED BY <1>2, <3>1, <3>3, Zenon
  <2> QED BY <1>1, <1>4, <2>3, <2>4, Zenon
<1> QED BY <1>3, <1>4, Zenon

Given == [conversations : [Conversations -> ConversationRecords \cup {None}],
          sessions      : [Conversations -> SessionRecords \cup {None}],
          sender_keys   : [Conversations -> SenderKeyRecords \cup {None}],
          devices       : [Devices -> DeviceRecords \cup {None}],
          messages      : Seq(MessageRecords)]

\* The history is its five fields; changing one leaves the others alone.
LEMMA GivenFields ==
    ASSUME NEW g \in Given
    PROVE  g = [conversations |-> g.conversations, sessions |-> g.sessions,
                sender_keys |-> g.sender_keys, devices |-> g.devices, messages |-> g.messages]
  BY Zenon DEF Given

\* given after an upsert of a conversation.
LEMMA GivenConversation ==
    ASSUME NEW g \in Given, NEW k, NEW r
    PROVE  [g EXCEPT !.conversations[k] = r] =
             [conversations |-> [g.conversations EXCEPT ![k] = r], sessions |-> g.sessions,
              sender_keys |-> g.sender_keys, devices |-> g.devices, messages |-> g.messages]
  BY GivenFields

\* given after a change of a session.
LEMMA GivenSession ==
    ASSUME NEW g \in Given, NEW k, NEW r
    PROVE  [g EXCEPT !.sessions[k] = r] =
             [conversations |-> g.conversations, sessions |-> [g.sessions EXCEPT ![k] = r],
              sender_keys |-> g.sender_keys, devices |-> g.devices, messages |-> g.messages]
  BY GivenFields

\* given after an upsert of a sender key.
LEMMA GivenSenderKey ==
    ASSUME NEW g \in Given, NEW k, NEW r
    PROVE  [g EXCEPT !.sender_keys[k] = r] =
             [conversations |-> g.conversations, sessions |-> g.sessions,
              sender_keys |-> [g.sender_keys EXCEPT ![k] = r], devices |-> g.devices, messages |-> g.messages]
  BY GivenFields

\* given after an upsert of a device.
LEMMA GivenDevice ==
    ASSUME NEW g \in Given, NEW k, NEW r
    PROVE  [g EXCEPT !.devices[k] = r] =
             [conversations |-> g.conversations, sessions |-> g.sessions,
              sender_keys |-> g.sender_keys, devices |-> [g.devices EXCEPT ![k] = r], messages |-> g.messages]
  BY GivenFields

\* given after an INSERT of a message.
LEMMA GivenMessage ==
    ASSUME NEW g \in Given, NEW m
    PROVE  [g EXCEPT !.messages = Append(@, m)] =
             [conversations |-> g.conversations, sessions |-> g.sessions,
              sender_keys |-> g.sender_keys, devices |-> g.devices, messages |-> Append(g.messages, m)]
  BY GivenFields

\* given after an update of a status.
LEMMA GivenStatus ==
    ASSUME NEW g \in Given, NEW i, NEW s
    PROVE  [g EXCEPT !.messages[i].status = s] =
             [conversations |-> g.conversations, sessions |-> g.sessions,
              sender_keys |-> g.sender_keys, devices |-> g.devices, messages |-> [g.messages EXCEPT ![i] = [@ EXCEPT !.status = s]]]
  BY GivenFields

-----------------------------------------------------------------------------
(* The inductive invariant *)

\* Row i is the message uid of conversation k.
RowIs(rows, i, k, uid) ==
    /\ i \in 1..Len(rows)
    /\ rows[i].conversation_id = Text(k) /\ rows[i].message_id = Blob(uid)

InConversation(rows, k, upto) == {i \in 1..upto : GetOwned(rows[i].conversation_id) = k}

Left(all, seen) == all \ {seen[n] : n \in DOMAIN seen}

\* The pages put together so far are the newest of the rows "all".
PagesSound(all, seen, done) ==
    /\ \A n \in DOMAIN seen : seen[n] \in all /\ \A i \in Left(all, seen) : i < seen[n]
    /\ \A m, n \in DOMAIN seen : m < n => seen[m] > seen[n]
    /\ done => Left(all, seen) = {}

\* What a caller in the middle of something may rely on.
JobOK(j, rows) ==
    /\ j.pc = "inserted" => RowIs(rows, j.rowid, j.conversation, j.uid)
    /\ j.pc = "holds" => RowIs(rows, j.id, j.conversation, j.uid)
    /\ j.pc = "listing" =>
           /\ j.upto <= Len(rows) /\ (j.done \/ j.seen # <<>>)
           /\ PagesSound(InConversation(rows, j.conversation, j.upto), j.seen, j.done)

\* An attachment is of no message, or of the one its row id names.
MediaOK(m, rows) ==
    \/ m.message_id = Null /\ m.of = None
    \/ \E k \in Conversations, uid \in Uids, i \in 1..Len(rows) :
          m.message_id = I64(i) /\ m.of = <<k, uid>> /\ RowIs(rows, i, k, uid)

CountInv == writes \in 0..MaxWrites /\ Len(messages) <= writes

TableInv ==
    /\ conversations \in [Conversations -> ConversationRows \cup {None}]
    /\ sessions \in [Conversations -> SessionRows \cup {None}]
    /\ sender_keys \in [Conversations -> SenderKeyRows \cup {None}]
    /\ devices \in [Devices -> DeviceRows \cup {None}]
    /\ given \in Given
    /\ \A k \in Conversations :
           /\ sessions[k] # None => conversations[k] # None
           /\ conversations[k] # None => load_conversation(conversations[k]) = given.conversations[k]
           /\ sessions[k] # None => load_session(sessions[k]) = given.sessions[k]
           /\ sender_keys[k] # None => load_sender_key(sender_keys[k]) = given.sender_keys[k]
    /\ \A d \in Devices : devices[d] # None => list_devices(devices[d]) = given.devices[d]

\* No two rows are the same message of a conversation.
UidsUnique ==
    \A i, j \in 1..Len(messages) :
        /\ messages[i].conversation_id = messages[j].conversation_id
        /\ messages[i].message_id = messages[j].message_id
        => i = j

RowInv ==
    /\ messages \in Seq(MessageRows)
    /\ Len(given.messages) = Len(messages)
    /\ \A i \in 1..Len(messages) :
           /\ message_from_row(messages[i]) = given.messages[i]
           /\ conversations[GetOwned(messages[i].conversation_id)] # None
    /\ UidsUnique

JobInv ==
    /\ job \in [Conns -> Jobs \cup {None}]
    /\ \A c \in Conns : job[c] # None => JobOK(job[c], messages)

MediaInv ==
    /\ media \in [MediaIds -> MediaRows \cup {None}]
    /\ \A a \in MediaIds : media[a] # None => MediaOK(media[a], messages)

MessagesInv == CountInv /\ TableInv /\ RowInv /\ JobInv /\ MediaInv

-----------------------------------------------------------------------------
(* Pages *)

\* One more page, the newest of what is left, goes at the end of the list.
LEMMA PageGoesOn ==
    ASSUME NEW all, all \subseteq Nat, NEW seen \in Seq(Nat), PagesSound(all, seen, FALSE),
           NEW page, IsPage(page, Left(all, seen), PageSize)
    PROVE  /\ PagesSound(all, seen \o page, Len(page) < PageSize)
           /\ seen \o page \in Seq(all)
           /\ Len(page) < PageSize \/ seen \o page # <<>>
<1> DEFINE left == Left(all, seen)
           t == seen \o page
           rest == Left(all, t)
<1>1. /\ page \in Seq(left) /\ Len(page) \in Nat /\ Len(seen) \in Nat
      /\ DOMAIN page = 1..Len(page) /\ DOMAIN seen = 1..Len(seen)
      /\ left \subseteq all
  BY DEF IsPage, Left
<1>2. seen \in Seq(all) /\ page \in Seq(all)
  <2>1. seen \in [1..Len(seen) -> all]
    BY <1>1 DEF PagesSound
  <2>2. page \in [1..Len(page) -> all]
    BY <1>1
  <2> QED BY <1>1, <2>1, <2>2
<1>3. /\ t \in Seq(all) /\ Len(t) = Len(seen) + Len(page) /\ DOMAIN t = 1..(Len(seen) + Len(page))
      /\ \A n \in 1..Len(seen) : t[n] = seen[n]
      /\ \A n \in 1..Len(page) : t[Len(seen) + n] = page[n]
      /\ \A n \in DOMAIN t : n \in 1..Len(seen) \/ \E m \in 1..Len(page) : n = Len(seen) + m
  <2>1. /\ t \in Seq(all) /\ Len(t) = Len(seen) + Len(page)
        /\ \A n \in 1..(Len(seen) + Len(page)) :
              t[n] = IF n <= Len(seen) THEN seen[n] ELSE page[n - Len(seen)]
    BY <1>2
  <2>2. DOMAIN t = 1..(Len(seen) + Len(page))
    BY <2>1
  <2>3. \A n \in 1..(Len(seen) + Len(page)) :
           n \in 1..Len(seen) \/ (n - Len(seen) \in 1..Len(page) /\ n = Len(seen) + (n - Len(seen)))
    BY <1>1
  <2> HIDE DEF t
  <2>4. \A n \in 1..Len(page) : t[Len(seen) + n] = page[n]
    <3> TAKE n \in 1..Len(page)
    <3>1. /\ Len(seen) + n \in 1..(Len(seen) + Len(page)) /\ ~(Len(seen) + n <= Len(seen))
          /\ (Len(seen) + n) - Len(seen) = n
      BY <1>1
    <3> QED BY <2>1, <3>1, Zenon
  <2>5. \A n \in 1..Len(seen) : t[n] = seen[n]
    <3> TAKE n \in 1..Len(seen)
    <3>1. n \in 1..(Len(seen) + Len(page)) /\ n <= Len(seen)
      BY <1>1
    <3> QED BY <2>1, <3>1, Zenon
  <2>6. \A n \in DOMAIN t : n \in 1..Len(seen) \/ \E m \in 1..Len(page) : n = Len(seen) + m
    BY <2>2, <2>3, Zenon
  <2> QED BY <2>1, <2>2, <2>4, <2>5, <2>6, Zenon
<1> HIDE DEF t
<1>4. ASSUME NEW i \in rest
      PROVE  /\ i \in left
             /\ \A n \in 1..Len(page) : i # page[n]
  <2>1. i \in all /\ \A n \in DOMAIN t : i # t[n]
    BY Zenon DEF Left
  <2>2. \A n \in 1..Len(seen) : n \in DOMAIN t
    BY <1>1, <1>3
  <2>3. \A n \in 1..Len(page) : Len(seen) + n \in DOMAIN t
    BY <1>1, <1>3
  <2> QED BY <1>1, <1>3, <2>1, <2>2, <2>3, Zenon DEF Left
<1>5. ASSUME NEW n \in DOMAIN t
      PROVE  t[n] \in all /\ \A i \in rest : i < t[n]
  <2>1. CASE n \in 1..Len(seen)
    BY <1>1, <1>3, <1>4, <2>1, Zenon DEF PagesSound
  <2>2. ASSUME NEW m \in 1..Len(page), n = Len(seen) + m
        PROVE  t[n] \in all /\ \A i \in rest : i < t[n]
    <3>1. t[n] = page[m] /\ page[m] \in all
      BY <1>1, <1>2, <1>3, <2>2
    <3>2. \A i \in rest : i < page[m]
      BY <1>4, Zenon DEF IsPage
    <3> QED BY <3>1, <3>2, Zenon
  <2> QED BY <1>3, <2>1, <2>2, Zenon
<1>6. ASSUME NEW m \in DOMAIN t, NEW n \in DOMAIN t, m < n
      PROVE  t[m] > t[n]
  <2>1. CASE m \in 1..Len(seen) /\ n \in 1..Len(seen)
    BY <1>1, <1>3, <1>6, <2>1, Zenon DEF PagesSound
  <2>2. ASSUME m \in 1..Len(seen), NEW b \in 1..Len(page), n = Len(seen) + b
        PROVE  t[m] > t[n]
    <3>1. t[m] = seen[m] /\ t[n] = page[b] /\ page[b] \in left /\ seen[m] \in all
      BY <1>1, <1>2, <1>3, <2>2
    <3>2. page[b] < seen[m]
      BY <1>1, <2>2, <3>1, Zenon DEF PagesSound
    <3>3. page[b] \in Nat /\ seen[m] \in Nat
      BY <1>1, <3>1, Zenon
    <3> QED BY <3>1, <3>2, <3>3, Zenon
  <2>3. ASSUME NEW a \in 1..Len(page), m = Len(seen) + a, n \in 1..Len(seen)
        PROVE  FALSE
    BY <1>1, <1>6, <2>3
  <2>4. ASSUME NEW a \in 1..Len(page), m = Len(seen) + a, NEW b \in 1..Len(page), n = Len(seen) + b
        PROVE  t[m] > t[n]
    <3>1. a < b
      BY <1>1, <1>6, <2>4
    <3> QED BY <1>3, <2>4, <3>1, Zenon DEF IsPage
  <2> QED BY <1>3, <2>1, <2>2, <2>3, <2>4, Zenon
<1>7. Len(page) < PageSize => rest = {}
  BY <1>4, Zenon DEF IsPage
<1>8. Len(page) < PageSize \/ t # <<>>
  <2>1. CASE t = <<>>
    <3>1. Len(page) = 0
      BY <1>1, <1>3, <2>1
    <3> QED BY <3>1, BoundsAssumption
  <2> QED BY <2>1, Zenon
<1> QED BY <1>3, <1>5, <1>6, <1>7, <1>8, Zenon DEF PagesSound, t

-----------------------------------------------------------------------------
(* Steps *)

\* Rows stay, and stay the messages they are.
KeepsRows(rows, after) ==
    /\ Len(rows) \in Nat /\ Len(after) \in Nat /\ Len(rows) <= Len(after)
    /\ \A i \in 1..Len(rows) : /\ after[i].conversation_id = rows[i].conversation_id
                               /\ after[i].message_id = rows[i].message_id

\* What callers and attachments rely on survives.
LEMMA RowsKept ==
    ASSUME NEW rows, NEW after, KeepsRows(rows, after)
    PROVE  /\ \A j \in Jobs : JobOK(j, rows) => JobOK(j, after)
           /\ \A m : MediaOK(m, rows) => MediaOK(m, after)
           /\ \A i, k, uid : RowIs(rows, i, k, uid) => RowIs(after, i, k, uid)
<1>1. \A i \in 1..Len(rows) : i \in 1..Len(after)
  BY DEF KeepsRows
<1>2. ASSUME NEW i, NEW k, NEW uid, RowIs(rows, i, k, uid) PROVE RowIs(after, i, k, uid)
  BY <1>1, <1>2, Zenon DEF RowIs, KeepsRows
<1>3. ASSUME NEW m, MediaOK(m, rows) PROVE MediaOK(m, after)
  BY <1>1, <1>2, <1>3, Zenon DEF MediaOK
<1>4. ASSUME NEW j \in Jobs, JobOK(j, rows) PROVE JobOK(j, after)
  <2>1. j.pc = "inserted" => RowIs(after, j.rowid, j.conversation, j.uid)
    BY <1>2, <1>4, Zenon DEF JobOK
  <2>2. j.pc = "holds" => RowIs(after, j.id, j.conversation, j.uid)
    BY <1>2, <1>4, Zenon DEF JobOK
  <2>3. ASSUME j.pc = "listing"
        PROVE  /\ j.upto <= Len(after) /\ (j.done \/ j.seen # <<>>)
               /\ PagesSound(InConversation(after, j.conversation, j.upto), j.seen, j.done)
    <3>1. j.upto \in Nat /\ j.upto <= Len(rows)
      BY <1>4, <2>3 DEF JobOK, Jobs
    <3>2. \A i \in 1..j.upto : i \in 1..Len(rows)
      BY <3>1 DEF KeepsRows
    <3>3. InConversation(after, j.conversation, j.upto) = InConversation(rows, j.conversation, j.upto)
      BY <3>2, Zenon DEF InConversation, KeepsRows
    <3>4. j.upto <= Len(after)
      BY <3>1 DEF KeepsRows
    <3> QED BY <1>4, <2>3, <3>3, <3>4, Zenon DEF JobOK
  <2> QED BY <2>1, <2>2, <2>3, Zenon DEF JobOK
<1> QED BY <1>2, <1>3, <1>4, Zenon

\* A statement on the tables of conversations, sessions, sender keys, devices.
LEMMA TableStep ==
    ASSUME MessagesInv, UNCHANGED <<messages, job, media>>, TableInv',
           given'.messages = given.messages, writes' = writes + 1, writes < MaxWrites,
           \A k \in Conversations : conversations[k] # None => conversations'[k] # None
    PROVE  MessagesInv'
<1>1. CountInv'
  BY BoundsAssumption DEF MessagesInv, CountInv, RowInv
<1>2. \A i \in 1..Len(messages) : GetOwned(messages[i].conversation_id) \in Conversations
  <2> TAKE i \in 1..Len(messages)
  <2>1. messages[i] \in MessageRows
    BY DEF MessagesInv, RowInv
  <2>2. messages[i].conversation_id \in Column("text", Conversations)
    BY <2>1, Zenon DEF MessageRows
  <2> QED BY <2>2, Zenon DEF Column, GetOwned
<1>3. RowInv'
  BY <1>2, Zenon DEF MessagesInv, RowInv, UidsUnique
<1>4. JobInv' /\ MediaInv'
  BY Zenon DEF MessagesInv, JobInv, MediaInv
<1> QED BY <1>1, <1>3, <1>4, Zenon DEF MessagesInv

\* Types of the tables and of the history.
LEMMA InvTypes ==
    ASSUME MessagesInv
    PROVE  /\ conversations \in [Conversations -> ConversationRows \cup {None}]
           /\ sessions \in [Conversations -> SessionRows \cup {None}]
           /\ sender_keys \in [Conversations -> SenderKeyRows \cup {None}]
           /\ devices \in [Devices -> DeviceRows \cup {None}]
           /\ given \in Given
  BY Zenon DEF MessagesInv, TableInv

\* The number a write puts into a record.
LEMMA NowIsNat == ASSUME MessagesInv PROVE now \in Nat
  BY DEF MessagesInv, CountInv, now

\* INSERT ... ON CONFLICT DO UPDATE on conversations.
LEMMA UpsertConversationKeeps ==
    ASSUME MessagesInv, NEW c \in Conns, UpsertConversation(c) PROVE MessagesInv'
<1>1. PICK k \in Conversations, is_group \in BOOLEAN :
         LET r == [peer_classical |-> now, peer_pq |-> now, is_group |-> is_group, created_at |-> now]
         IN  /\ conversations' = Upserted(conversations, k, ConversationRow(r), ConversationColumns)
             /\ given' = [given EXCEPT !.conversations[k] = Dated(r, k)]
  BY Zenon DEF UpsertConversation
<1> DEFINE r == [peer_classical |-> now, peer_pq |-> now, is_group |-> is_group, created_at |-> now]
           d == Dated(r, k)
<1>2. r \in ConversationRecords
  BY NowIsNat, Zenon DEF ConversationRecords
<1>u. /\ conversations' = Upserted(conversations, k, ConversationRow(r), ConversationColumns)
      /\ given' = [given EXCEPT !.conversations[k] = d]
  BY <1>1, Zenon
<1> HIDE DEF r
<1>3. /\ conversations' \in [Conversations -> ConversationRows \cup {None}]
      /\ conversations'[k] # None
      /\ conversations[k] = None => load_conversation(conversations'[k]) = r
      /\ conversations[k] # None => load_conversation(conversations'[k]) =
             [r EXCEPT !.created_at = load_conversation(conversations[k]).created_at]
      /\ \A l \in Conversations \ {k} : conversations'[l] = conversations[l]
  BY <1>u, <1>2, InvTypes, ConversationUpserts
<1>d. load_conversation(conversations'[k]) = d /\ d \in ConversationRecords
  <2>1. conversations[k] # None => load_conversation(conversations[k]) = given.conversations[k]
    BY Zenon DEF MessagesInv, TableInv
  <2>2. load_conversation(conversations'[k]) = d
    BY <1>3, <2>1, Zenon DEF Dated
  <2>3. \A row \in ConversationRows : load_conversation(row) \in ConversationRecords
    BY DEF ConversationRows, ConversationRecords, load_conversation, Column, GetOwned, GetBool, ColumnI64
  <2> QED BY <1>3, <2>2, <2>3, Zenon
<1> HIDE DEF d
<1>4. given' = [conversations |-> [given.conversations EXCEPT ![k] = d], sessions |-> given.sessions,
                sender_keys |-> given.sender_keys, devices |-> given.devices, messages |-> given.messages]
  BY <1>u, InvTypes, GivenConversation, Zenon
<1>5. given' \in Given /\ given'.conversations[k] = d
      /\ \A l \in Conversations \ {k} : given'.conversations[l] = given.conversations[l]
  BY <1>d, <1>4, Zenon DEF Given, MessagesInv, TableInv
<1>6. /\ given'.sessions = given.sessions /\ given'.sender_keys = given.sender_keys
      /\ given'.devices = given.devices /\ given'.messages = given.messages
  BY <1>4, Zenon
<1>7. /\ UNCHANGED <<sessions, sender_keys, devices, media, messages, job>>
      /\ writes' = writes + 1 /\ writes < MaxWrites
  BY Zenon DEF UpsertConversation, Write, now
<1>8. TableInv'
  BY <1>3, <1>d, <1>5, <1>6, <1>7 DEF MessagesInv, TableInv
<1> QED BY <1>3, <1>6, <1>7, <1>8, TableStep, Zenon

\* save_session and delete_session.
LEMMA SessionsKeep ==
    ASSUME MessagesInv, NEW c \in Conns, SaveSession(c) \/ DeleteSession(c) PROVE MessagesInv'
<1>0. \E k \in Conversations : \E row, r :
         /\ sessions' = [sessions EXCEPT ![k] = row]
         /\ given' = [given EXCEPT !.sessions[k] = r]
         /\ \/ row = None /\ r = None
            \/ r \in SessionRecords /\ row = SessionRow(r) /\ conversations[k] # None
  <2>1. CASE SaveSession(c)
    <3>1. PICK k \in Conversations, is_initiator \in BOOLEAN, ratchet \in {now, None} :
             LET r == [is_initiator |-> is_initiator, session_keys |-> now, ratchet |-> ratchet,
                       last_used |-> now]
             IN  /\ ForeignKey(k)
                 /\ sessions' = Upserted(sessions, k, SessionRow(r),
                                       {"is_initiator", "session_keys", "ratchet_state", "last_used"})
                 /\ given' = [given EXCEPT !.sessions[k] = r]
      BY <2>1, Zenon DEF SaveSession
    <3> DEFINE r == [is_initiator |-> is_initiator, session_keys |-> now, ratchet |-> ratchet,
                       last_used |-> now]
    <3>2. r \in SessionRecords
      BY NowIsNat, Zenon DEF SessionRecords
    <3> HIDE DEF r
    <3>3. sessions' = [sessions EXCEPT ![k] = SessionRow(r)]
      BY <3>1, <3>2, InvTypes, WholeUpserts, Zenon DEF r
    <3> QED BY <3>1, <3>2, <3>3, Zenon DEF ForeignKey, r
  <2>2. CASE DeleteSession(c)
    BY <2>2, Zenon DEF DeleteSession
  <2> QED BY <2>1, <2>2, Zenon
<1>k. PICK k \in Conversations : \E row, r :
         /\ sessions' = [sessions EXCEPT ![k] = row]
         /\ given' = [given EXCEPT !.sessions[k] = r]
         /\ \/ row = None /\ r = None
            \/ r \in SessionRecords /\ row = SessionRow(r) /\ conversations[k] # None
  BY <1>0, Zenon
<1>1. PICK row, r :
         /\ sessions' = [sessions EXCEPT ![k] = row]
         /\ given' = [given EXCEPT !.sessions[k] = r]
         /\ \/ row = None /\ r = None
            \/ r \in SessionRecords /\ row = SessionRow(r) /\ conversations[k] # None
  BY <1>k, Zenon
<1>2. /\ row \in SessionRows \cup {None} /\ r \in SessionRecords \cup {None}
      /\ row # None => conversations[k] # None /\ load_session(row) = r
  BY <1>1, RowsLoad, Zenon
<1>3. given' = [conversations |-> given.conversations, sessions |-> [given.sessions EXCEPT ![k] = r],
                sender_keys |-> given.sender_keys, devices |-> given.devices, messages |-> given.messages]
  <2>1. given \in Given
    BY InvTypes, Zenon
  <2> QED BY <1>1, <2>1, GivenSession, Zenon
<1>4. /\ given' \in Given /\ given'.sessions[k] = r
      /\ \A l \in Conversations \ {k} : given'.sessions[l] = given.sessions[l]
  BY <1>2, <1>3, Zenon DEF Given, MessagesInv, TableInv
<1>5. /\ given'.conversations = given.conversations /\ given'.sender_keys = given.sender_keys
      /\ given'.devices = given.devices /\ given'.messages = given.messages
  BY <1>3, Zenon
<1>6. /\ UNCHANGED <<conversations, sender_keys, devices, media, messages, job>>
      /\ writes' = writes + 1 /\ writes < MaxWrites
  BY Zenon DEF SaveSession, DeleteSession, Write, now
<1>7. /\ sessions' \in [Conversations -> SessionRows \cup {None}] /\ sessions'[k] = row
      /\ \A l \in Conversations \ {k} : sessions'[l] = sessions[l]
  BY <1>1, <1>2, Zenon DEF MessagesInv, TableInv
<1>8. TableInv'
  BY <1>2, <1>4, <1>5, <1>6, <1>7 DEF MessagesInv, TableInv
<1> QED BY <1>5, <1>6, <1>8, TableStep, Zenon

\* upsert_sender_key.
LEMMA UpsertSenderKeyKeeps ==
    ASSUME MessagesInv, NEW c \in Conns, UpsertSenderKey(c) PROVE MessagesInv'
<1> DEFINE r == [chain_key |-> now, message_index |-> now, key_id |-> now, updated_at |-> now]
<1>1. PICK k \in Conversations :
         /\ sender_keys' = Upserted(sender_keys, k, SenderKeyRow(r), SenderKeyColumns)
         /\ given' = [given EXCEPT !.sender_keys[k] = r]
  BY Zenon DEF UpsertSenderKey
<1>2. r \in SenderKeyRecords
  BY NowIsNat, Zenon DEF SenderKeyRecords
<1> HIDE DEF r
<1>3. sender_keys' = [sender_keys EXCEPT ![k] = SenderKeyRow(r)]
  BY <1>1, <1>2, InvTypes, WholeUpserts, Zenon
<1>4. SenderKeyRow(r) \in SenderKeyRows /\ load_sender_key(SenderKeyRow(r)) = r
  BY <1>2, RowsLoad, Zenon
<1>5. given' = [conversations |-> given.conversations, sessions |-> given.sessions,
                sender_keys |-> [given.sender_keys EXCEPT ![k] = r], devices |-> given.devices,
                messages |-> given.messages]
  BY <1>1, InvTypes, GivenSenderKey, Zenon
<1>6. /\ given' \in Given /\ given'.sender_keys[k] = r
      /\ \A l \in Conversations \ {k} : given'.sender_keys[l] = given.sender_keys[l]
  BY <1>2, <1>5, Zenon DEF Given, MessagesInv, TableInv
<1>7. /\ given'.conversations = given.conversations /\ given'.sessions = given.sessions
      /\ given'.devices = given.devices /\ given'.messages = given.messages
  BY <1>5, Zenon
<1>8. /\ UNCHANGED <<conversations, sessions, devices, media, messages, job>>
      /\ writes' = writes + 1 /\ writes < MaxWrites
  BY Zenon DEF UpsertSenderKey, Write, now
<1>9. /\ sender_keys' \in [Conversations -> SenderKeyRows \cup {None}] /\ sender_keys'[k] = SenderKeyRow(r)
      /\ \A l \in Conversations \ {k} : sender_keys'[l] = sender_keys[l]
  BY <1>3, <1>4, Zenon DEF MessagesInv, TableInv
<1>10. TableInv'
  BY <1>4, <1>6, <1>7, <1>8, <1>9 DEF MessagesInv, TableInv
<1> QED BY <1>7, <1>8, <1>10, TableStep, Zenon

\* upsert_device.
LEMMA UpsertDeviceKeeps ==
    ASSUME MessagesInv, NEW c \in Conns, UpsertDevice(c) PROVE MessagesInv'
<1>1. PICK d \in Devices, last_seen \in {now, None} :
         LET r == [classical |-> now, pq |-> now, last_seen |-> last_seen]
         IN  /\ devices' = Upserted(devices, d, DeviceRow(r), {"classical", "pq", "last_seen"})
             /\ given' = [given EXCEPT !.devices[d] = r]
  BY Zenon DEF UpsertDevice
<1> DEFINE r == [classical |-> now, pq |-> now, last_seen |-> last_seen]
<1>2. r \in DeviceRecords
  BY NowIsNat, Zenon DEF DeviceRecords
<1> HIDE DEF r
<1>3. devices' = [devices EXCEPT ![d] = DeviceRow(r)]
  BY <1>1, <1>2, InvTypes, WholeUpserts, Zenon DEF r
<1>4. DeviceRow(r) \in DeviceRows /\ list_devices(DeviceRow(r)) = r
  BY <1>2, RowsLoad, Zenon
<1>5. given' = [conversations |-> given.conversations, sessions |-> given.sessions,
                sender_keys |-> given.sender_keys, devices |-> [given.devices EXCEPT ![d] = r],
                messages |-> given.messages]
  BY <1>1, InvTypes, GivenDevice, Zenon DEF r
<1>6. /\ given' \in Given /\ given'.devices[d] = r
      /\ \A e \in Devices \ {d} : given'.devices[e] = given.devices[e]
  BY <1>2, <1>5, Zenon DEF Given, MessagesInv, TableInv
<1>7. /\ given'.conversations = given.conversations /\ given'.sessions = given.sessions
      /\ given'.sender_keys = given.sender_keys /\ given'.messages = given.messages
  BY <1>5, Zenon
<1>8. /\ UNCHANGED <<conversations, sessions, sender_keys, media, messages, job>>
      /\ writes' = writes + 1 /\ writes < MaxWrites
  BY Zenon DEF UpsertDevice, Write, now
<1>9. /\ devices' \in [Devices -> DeviceRows \cup {None}] /\ devices'[d] = DeviceRow(r)
      /\ \A e \in Devices \ {d} : devices'[e] = devices[e]
  BY <1>3, <1>4, Zenon DEF MessagesInv, TableInv
<1>10. TableInv'
  BY <1>4, <1>6, <1>7, <1>8, <1>9 DEF MessagesInv, TableInv
<1> QED BY <1>7, <1>8, <1>10, TableStep, Zenon

\* A caller goes on, and no table changes.
LEMMA JobStep ==
    ASSUME MessagesInv, NEW c \in Conns, NEW j, j = None \/ (j \in Jobs /\ JobOK(j, messages)),
           job' = [job EXCEPT ![c] = j],
           UNCHANGED <<conversations, sessions, sender_keys, devices, media, messages, writes, given>>
    PROVE  MessagesInv'
<1>1. CountInv' /\ TableInv' /\ RowInv' /\ MediaInv'
  BY Zenon DEF MessagesInv, CountInv, TableInv, RowInv, UidsUnique, MediaInv
<1>2. JobInv'
  BY Zenon DEF MessagesInv, JobInv
<1> QED BY <1>1, <1>2, Zenon DEF MessagesInv

\* What a WHERE on conversation and uid selects.
LEMMA WithUidSelects ==
    ASSUME MessagesInv, NEW k, NEW uid, NEW i
    PROVE  i \in WithUid(k, uid) <=> RowIs(messages, i, k, uid)
<1>1. Text(k) # Null /\ Blob(uid) # Null
  <2>1. Text(k).type = "text" /\ Blob(uid).type = "blob" /\ Null.type = "null"
    BY Zenon DEF Text, Blob, Null
  <2> QED BY <2>1, Zenon
<1>2. DOMAIN messages = 1..Len(messages)
  BY DEF MessagesInv, RowInv
<1> QED BY <1>1, <1>2, Zenon DEF WithUid, RowIs, SqlEq

\* insert_message returns, load_message_by_uid, the end of a caller's work.
LEMMA IdStepsKeep ==
    ASSUME MessagesInv, NEW c \in Conns, ReturnRowId(c) \/ LoadMessageByUid(c) \/ EndJob(c)
    PROVE  MessagesInv'
<1>0. job[c] # None => job[c] \in Jobs /\ JobOK(job[c], messages)
  BY Zenon DEF MessagesInv, JobInv
<1>1. ASSUME NEW k \in Conversations, NEW uid \in Uids, NEW i, RowIs(messages, i, k, uid)
      PROVE  Holds(k, uid, i) \in Jobs /\ JobOK(Holds(k, uid, i), messages)
  <2>1. i \in 1..MaxWrites
    BY <1>1, BoundsAssumption DEF RowIs, MessagesInv, CountInv, RowInv
  <2>2. Holds(k, uid, i) \in Jobs
    BY <2>1, Zenon DEF Holds, Jobs
  <2> QED BY <1>1, <2>2, Zenon DEF Holds, JobOK
<1>2. CASE ReturnRowId(c)
  <2>1. /\ job[c] \in Jobs /\ job[c].pc = "inserted"
        /\ RowIs(messages, job[c].rowid, job[c].conversation, job[c].uid)
    BY <1>0, <1>2, Zenon DEF ReturnRowId, JobOK
  <2>2. job[c].conversation \in Conversations /\ job[c].uid \in Uids
    BY <2>1, Zenon DEF Jobs
  <2> DEFINE j == Holds(job[c].conversation, job[c].uid, job[c].rowid)
  <2>3. j \in Jobs /\ JobOK(j, messages)
    BY <1>1, <2>1, <2>2, Zenon
  <2>4. job' = [job EXCEPT ![c] = j]
    BY <1>2, Zenon DEF ReturnRowId, LastInsertRowid
  <2> HIDE DEF j
  <2> QED BY <1>2, <2>3, <2>4, JobStep, Zenon DEF ReturnRowId
<1>3. CASE LoadMessageByUid(c)
  <2>0. PICK k \in Conversations, uid \in Uids :
           \E i \in WithUid(k, uid) : job' = [job EXCEPT ![c] = Holds(k, uid, i)]
    BY <1>3, Zenon DEF LoadMessageByUid
  <2>1. PICK i \in WithUid(k, uid) : job' = [job EXCEPT ![c] = Holds(k, uid, i)]
    BY <2>0, Zenon
  <2>2. Holds(k, uid, i) \in Jobs /\ JobOK(Holds(k, uid, i), messages)
    BY <1>1, <2>1, WithUidSelects, Zenon
  <2> QED BY <1>3, <2>1, <2>2, JobStep, Zenon DEF LoadMessageByUid
<1>4. CASE EndJob(c)
  BY <1>4, JobStep, Zenon DEF EndJob
<1> QED BY <1>2, <1>3, <1>4, Zenon

\* The INSERT of insert_message.
LEMMA InsertMessageKeeps ==
    ASSUME MessagesInv, NEW c \in Conns, InsertMessage(c) PROVE MessagesInv'
<1>1. PICK k \in Conversations, uid \in Uids, direction \in Directions :
         LET m == [conversation_id |-> k, message_id |-> uid, direction |-> direction,
                   status |-> IF direction = "Incoming" THEN "Delivered" ELSE "Sent"]
         IN  /\ ForeignKey(k) /\ WithUid(k, uid) = {}
             /\ messages' = Append(messages, MessageRow(m))
             /\ given' = [given EXCEPT !.messages = Append(@, m)]
             /\ job' = [job EXCEPT ![c] = [pc |-> "inserted", conversation |-> k, uid |-> uid,
                                           rowid |-> Len(messages) + 1]]
  BY Zenon DEF InsertMessage
<1> DEFINE m == [conversation_id |-> k, message_id |-> uid, direction |-> direction,
                 status |-> IF direction = "Incoming" THEN "Delivered" ELSE "Sent"]
           row == MessageRow(m)
           n == Len(messages) + 1
           j == [pc |-> "inserted", conversation |-> k, uid |-> uid, rowid |-> n]
<1>2. m \in MessageRecords
  BY Zenon DEF MessageRecords, StatusNames
<1>3. /\ row \in MessageRows /\ message_from_row(row) = m
      /\ row.conversation_id = Text(k) /\ row.message_id = Blob(uid)
  BY <1>2, RowsLoad, Zenon DEF MessageRow
<1>4. /\ conversations[k] # None /\ WithUid(k, uid) = {}
      /\ messages' = Append(messages, row)
      /\ given' = [given EXCEPT !.messages = Append(@, m)]
      /\ job' = [job EXCEPT ![c] = j]
      /\ UNCHANGED <<conversations, sessions, sender_keys, devices, media>>
      /\ writes < MaxWrites /\ writes' = writes + 1
  BY <1>1, Zenon DEF ForeignKey, InsertMessage, Write, now
<1> HIDE DEF m, row
<1>5. /\ messages' \in Seq(MessageRows) /\ Len(messages') = n /\ messages'[n] = row
      /\ \A i \in 1..Len(messages) : messages'[i] = messages[i]
      /\ Len(messages) \in Nat /\ n \in Nat
      /\ \A i \in 1..n : i \in 1..Len(messages) \/ i = n
  BY <1>3, <1>4 DEF MessagesInv, RowInv
<1>6. given' = [conversations |-> given.conversations, sessions |-> given.sessions,
                sender_keys |-> given.sender_keys, devices |-> given.devices,
                messages |-> Append(given.messages, m)]
  BY <1>4, InvTypes, GivenMessage, Zenon
<1>7. /\ given'.conversations = given.conversations /\ given'.sessions = given.sessions
      /\ given'.sender_keys = given.sender_keys /\ given'.devices = given.devices
      /\ given'.messages = Append(given.messages, m)
  BY <1>6, Zenon
<1>8. Append(given.messages, m) \in Seq(MessageRecords)
  BY <1>2, InvTypes DEF Given
<1>9. given' \in Given
  BY <1>6, <1>8, InvTypes, Zenon DEF Given
<1>10. CountInv'
  BY <1>4, <1>5, BoundsAssumption DEF MessagesInv, CountInv
<1>11. TableInv'
  BY <1>4, <1>7, <1>9, Zenon DEF MessagesInv, TableInv
<1>12. RowInv'
  <2>1. /\ Len(given'.messages) = n /\ given'.messages[n] = m
        /\ \A i \in 1..Len(messages) : given'.messages[i] = given.messages[i]
    <3>1. given.messages \in Seq(MessageRecords) /\ Len(given.messages) = Len(messages)
      BY InvTypes, Zenon DEF Given, MessagesInv, RowInv
    <3> QED BY <1>2, <1>7, <3>1
  <2>2. \A i \in 1..n : /\ message_from_row(messages'[i]) = given'.messages[i]
                        /\ conversations[GetOwned(messages'[i].conversation_id)] # None
    <3>1. conversations[GetOwned(row.conversation_id)] # None
      BY <1>3, <1>4 DEF Text, GetOwned
    <3> QED BY <1>3, <1>5, <2>1, <3>1, Zenon DEF MessagesInv, RowInv
  <2>3. ASSUME NEW i \in 1..Len(messages)
        PROVE  ~(messages[i].conversation_id = row.conversation_id /\ messages[i].message_id = row.message_id)
    <3>1. ~RowIs(messages, i, k, uid)
      BY <1>4, WithUidSelects, Zenon
    <3> QED BY <1>3, <3>1, Zenon DEF RowIs
  <2>4. UidsUnique'
    <3> SUFFICES ASSUME NEW i \in 1..n, NEW l \in 1..n,
                        messages'[i].conversation_id = messages'[l].conversation_id,
                        messages'[i].message_id = messages'[l].message_id
                 PROVE  i = l
      BY <1>5, Zenon DEF UidsUnique
    <3>1. CASE i \in 1..Len(messages) /\ l \in 1..Len(messages)
      BY <1>5, <3>1, Zenon DEF MessagesInv, RowInv, UidsUnique
    <3>2. CASE i = n /\ l \in 1..Len(messages)
      BY <1>5, <2>3, <3>2, Zenon
    <3>3. CASE i \in 1..Len(messages) /\ l = n
      BY <1>5, <2>3, <3>3, Zenon
    <3> QED BY <1>5, <3>1, <3>2, <3>3, Zenon
  <2> QED BY <1>4, <1>5, <2>1, <2>2, <2>4, Zenon DEF RowInv
<1>13. KeepsRows(messages, messages')
  BY <1>5 DEF KeepsRows
<1>14. MediaInv'
  BY <1>4, <1>13, RowsKept, Zenon DEF MessagesInv, MediaInv
<1>15. JobInv'
  <2>1. n \in 1..MaxWrites
    BY <1>4, <1>5, BoundsAssumption DEF MessagesInv, CountInv
  <2>2. j \in Jobs
    BY <2>1, Zenon DEF Jobs
  <2>3. n \in 1..Len(messages')
    BY <1>5
  <2>4. JobOK(j, messages')
    BY <1>3, <1>5, <2>3, Zenon DEF JobOK, RowIs
  <2> HIDE DEF j
  <2> QED BY <1>4, <1>13, <2>2, <2>4, RowsKept, Zenon DEF MessagesInv, JobInv
<1> QED BY <1>10, <1>11, <1>12, <1>14, <1>15, Zenon DEF MessagesInv

\* UPDATE messages SET status changes the status a load returns, no more.
LEMMA StatusSet ==
    ASSUME NEW row \in MessageRows, NEW s \in StatusNames,
           NEW after, after = [row EXCEPT !.status = I64(StatusCode(s))]
    PROVE  /\ after \in MessageRows
           /\ after.conversation_id = row.conversation_id /\ after.message_id = row.message_id
           /\ message_from_row(after) = [message_from_row(row) EXCEPT !.status = s]
           /\ message_from_row(row) \in MessageRecords => message_from_row(after) \in MessageRecords
<1>1. StatusCode(s) \in 0..4 /\ StatusFrom(StatusCode(s)) = s
  BY CodesRoundTrip, Zenon
<1>2. after = [conversation_id |-> row.conversation_id, message_id |-> row.message_id,
               direction |-> row.direction, status |-> I64(StatusCode(s))]
  BY Zenon DEF MessageRows
<1>3. I64(StatusCode(s)) \in Column("i64", 0..4) /\ ColumnI64(I64(StatusCode(s))) = StatusCode(s)
  BY <1>1, Zenon DEF I64, Column, ColumnI64
<1>4. after \in MessageRows
  BY <1>2, <1>3, Zenon DEF MessageRows
<1>5. message_from_row(after) = [message_from_row(row) EXCEPT !.status = s]
  BY <1>1, <1>2, <1>3 DEF message_from_row
<1>6. message_from_row(row) \in MessageRecords => message_from_row(after) \in MessageRecords
  BY <1>5, Zenon DEF MessageRecords
<1> QED BY <1>2, <1>4, <1>5, <1>6, Zenon

\* update_message_status, by the row id the caller holds.
LEMMA UpdateStatusKeeps ==
    ASSUME MessagesInv, NEW c \in Conns, UpdateMessageStatus(c) PROVE MessagesInv'
<1> DEFINE i == job[c].id
<1>1. i \in 1..Len(messages)
  BY Zenon DEF UpdateMessageStatus, HoldsId, MessagesInv, JobInv, JobOK, RowIs
<1>2. PICK s \in StatusNames :
         /\ messages' = [messages EXCEPT ![i] = [@ EXCEPT !.status = I64(StatusCode(s))]]
         /\ given' = [given EXCEPT !.messages[i].status = s]
  BY CodesRoundTrip, Zenon DEF UpdateMessageStatus
<1>3. /\ job' = [job EXCEPT ![c] = None]
      /\ UNCHANGED <<conversations, sessions, sender_keys, devices, media>>
      /\ writes < MaxWrites /\ writes' = writes + 1
  BY Zenon DEF UpdateMessageStatus, now
<1> HIDE DEF i
<1>4. /\ messages \in Seq(MessageRows) /\ given.messages \in Seq(MessageRecords)
      /\ Len(given.messages) = Len(messages) /\ Len(messages) \in Nat
      /\ message_from_row(messages[i]) = given.messages[i]
  BY <1>1, InvTypes DEF Given, MessagesInv, RowInv
<1> DEFINE row == [messages[i] EXCEPT !.status = I64(StatusCode(s))]
           m == [given.messages[i] EXCEPT !.status = s]
<1>5. /\ row \in MessageRows /\ m \in MessageRecords /\ message_from_row(row) = m
      /\ row.conversation_id = messages[i].conversation_id /\ row.message_id = messages[i].message_id
  <2>1. messages[i] \in MessageRows /\ given.messages[i] \in MessageRecords
    BY <1>1, <1>4
  <2> QED BY <1>4, <2>1, StatusSet
<1>6. messages' = [messages EXCEPT ![i] = row]
  BY <1>2, Zenon
<1>7. given' = [conversations |-> given.conversations, sessions |-> given.sessions,
                sender_keys |-> given.sender_keys, devices |-> given.devices,
                messages |-> [given.messages EXCEPT ![i] = m]]
  <2>1. [given EXCEPT !.messages[i].status = s] =
             [conversations |-> given.conversations, sessions |-> given.sessions,
              sender_keys |-> given.sender_keys, devices |-> given.devices,
              messages |-> [given.messages EXCEPT ![i] = [@ EXCEPT !.status = s]]]
    BY InvTypes, GivenStatus, Zenon
  <2> QED BY <1>2, <2>1, Zenon
<1> HIDE DEF row, m
<1>8. /\ messages' \in Seq(MessageRows) /\ Len(messages') = Len(messages) /\ messages'[i] = row
      /\ \A l \in 1..Len(messages) : l # i => messages'[l] = messages[l]
  BY <1>1, <1>4, <1>5, <1>6
<1>9. /\ given'.conversations = given.conversations /\ given'.sessions = given.sessions
      /\ given'.sender_keys = given.sender_keys /\ given'.devices = given.devices
      /\ given'.messages = [given.messages EXCEPT ![i] = m]
  BY <1>7, Zenon
<1>10. /\ given'.messages \in Seq(MessageRecords) /\ Len(given'.messages) = Len(messages)
       /\ given'.messages[i] = m
       /\ \A l \in 1..Len(messages) : l # i => given'.messages[l] = given.messages[l]
  BY <1>1, <1>4, <1>5, <1>9
<1>11. given' \in Given
  BY <1>7, <1>9, <1>10, InvTypes, Zenon DEF Given
<1>12. CountInv'
  <2>1. CountInv BY Zenon DEF MessagesInv
  <2> QED BY <1>3, <1>8, <2>1, BoundsAssumption DEF CountInv
<1>13. TableInv'
  BY <1>3, <1>9, <1>11 DEF MessagesInv, TableInv
<1>14. KeepsRows(messages, messages')
  BY <1>4, <1>5, <1>8 DEF KeepsRows
<1>15. RowInv'
  <2>1. \A l \in 1..Len(messages) : /\ message_from_row(messages'[l]) = given'.messages[l]
                                    /\ conversations[GetOwned(messages'[l].conversation_id)] # None
    BY <1>1, <1>5, <1>8, <1>10, Zenon DEF MessagesInv, RowInv
  <2>2. UidsUnique'
    BY <1>8, <1>14, Zenon DEF MessagesInv, RowInv, UidsUnique, KeepsRows
  <2> QED BY <1>3, <1>8, <1>10, <2>1, <2>2, Zenon DEF RowInv
<1>16. MediaInv'
  BY <1>3, <1>14, RowsKept, Zenon DEF MessagesInv, MediaInv
<1>17. JobInv'
  BY <1>3, <1>14, RowsKept, Zenon DEF MessagesInv, JobInv
<1> QED BY <1>12, <1>13, <1>15, <1>16, <1>17, Zenon DEF MessagesInv

\* insert_media, with a row id the caller holds or without one.
LEMMA InsertMediaKeeps ==
    ASSUME MessagesInv, NEW c \in Conns, InsertMedia(c) PROVE MessagesInv'
<1>1. PICK a \in MediaIds, row \in MediaRows :
         media' = [media EXCEPT ![a] = row] /\ MediaOK(row, messages)
  <2>1. PICK a \in MediaIds :
           \/ /\ HoldsId(c)
              /\ media' = [media EXCEPT ![a] = MediaRow(job[c].id, <<job[c].conversation, job[c].uid>>)]
           \/ /\ job[c] = None
              /\ media' = [media EXCEPT ![a] = MediaRow(None, None)]
    BY Zenon DEF InsertMedia
  <2>2. CASE HoldsId(c) /\ media' = [media EXCEPT ![a] = MediaRow(job[c].id, <<job[c].conversation, job[c].uid>>)]
    <3> DEFINE i == job[c].id
               k == job[c].conversation
               uid == job[c].uid
               row == MediaRow(i, <<k, uid>>)
    <3>1. job[c] \in Jobs /\ RowIs(messages, i, k, uid)
      BY <2>2, Zenon DEF HoldsId, MessagesInv, JobInv, JobOK
    <3>2. i \in Nat /\ i \in 1..Len(messages) /\ k \in Conversations /\ uid \in Uids
      BY <2>2, <3>1 DEF HoldsId, Jobs, RowIs
    <3> HIDE DEF i, k, uid
    <3>3. i # None
      BY <3>2, RowsAssumption, Zenon
    <3>4. row = [message_id |-> I64(i), of |-> <<k, uid>>]
      BY <3>3, Zenon DEF MediaRow, FromOption
    <3>5. I64(i) \in Column("i64", Nat) /\ <<k, uid>> \in Conversations \X Uids
      BY <3>2, Zenon DEF I64, Column
    <3> HIDE DEF row
    <3>6. row \in MediaRows
      BY <3>4, <3>5, Zenon DEF MediaRows
    <3>7. MediaOK(row, messages)
      BY <3>1, <3>2, <3>4, Zenon DEF MediaOK
    <3> QED BY <2>2, <3>6, <3>7, Zenon DEF row, i, k, uid
  <2>3. CASE job[c] = None /\ media' = [media EXCEPT ![a] = MediaRow(None, None)]
    <3>1. MediaRow(None, None) = [message_id |-> Null, of |-> None]
      BY Zenon DEF MediaRow, FromOption
    <3>2. MediaRow(None, None) \in MediaRows
      BY <3>1 DEF MediaRows
    <3>3. MediaOK(MediaRow(None, None), messages)
      BY <3>1 DEF MediaOK
    <3> QED BY <2>3, <3>2, <3>3, Zenon
  <2> QED BY <2>1, <2>2, <2>3, Zenon
<1>2. /\ job' = [job EXCEPT ![c] = None]
      /\ UNCHANGED <<conversations, sessions, sender_keys, devices, messages, given>>
      /\ writes < MaxWrites /\ writes' = writes + 1
  BY Zenon DEF InsertMedia, now
<1>3. CountInv'
  BY <1>2, BoundsAssumption DEF MessagesInv, CountInv, RowInv
<1>4. TableInv' /\ RowInv'
  BY <1>2, Zenon DEF MessagesInv, TableInv, RowInv, UidsUnique
<1>5. JobInv' /\ MediaInv'
  BY <1>1, <1>2, Zenon DEF MessagesInv, JobInv, MediaInv
<1> QED BY <1>3, <1>4, <1>5, Zenon DEF MessagesInv

\* The rows a page is taken from.
LEMMA PageRows ==
    ASSUME MessagesInv, NEW k
    PROVE  /\ list_messages(k, None, PageSize) =
                Newest(InConversation(messages, k, Len(messages)), PageSize)
           /\ \A b \in Nat : list_messages(k, b, PageSize) =
                Newest({i \in InConversation(messages, k, Len(messages)) : i < b}, PageSize)
<1>1. DOMAIN messages = 1..Len(messages)
  BY DEF MessagesInv, RowInv
<1>2. ASSUME NEW i \in 1..Len(messages)
      PROVE  SqlEq(messages[i].conversation_id, Text(k)) <=> GetOwned(messages[i].conversation_id) = k
  <2>1. messages[i].conversation_id \in Column("text", Conversations)
    <3>1. messages[i] \in MessageRows
      BY DEF MessagesInv, RowInv
    <3> QED BY <3>1, Zenon DEF MessageRows
  <2>2. PICK l \in Conversations : messages[i].conversation_id = Text(l)
    BY <2>1, Zenon DEF Column, Text
  <2>3. \A x : Text(x) # Null
    <3> TAKE x
    <3>1. Text(x).type = "text" /\ Null.type = "null"
      BY Zenon DEF Text, Null
    <3> QED BY <3>1, Zenon
  <2>4. GetOwned(Text(l)) = l /\ (Text(l) = Text(k) <=> l = k)
    <3>1. Text(l).v = l /\ Text(k).v = k
      BY Zenon DEF Text
    <3> QED BY <3>1, Zenon DEF GetOwned
  <2> QED BY <2>2, <2>3, <2>4, Zenon DEF SqlEq
<1>3. \A i : Before(i, FromOption(None))
  BY Zenon DEF Before, FromOption, Readable, Null
<1>4. ASSUME NEW b \in Nat, NEW i PROVE Before(i, FromOption(b)) <=> i < b
  <2>1. b # None
    BY RowsAssumption, Zenon
  <2> QED BY <2>1, Zenon DEF Before, FromOption, Readable, I64, ColumnI64
<1>5. {i \in DOMAIN messages : SqlEq(messages[i].conversation_id, Text(k)) /\ Before(i, FromOption(None))}
         = InConversation(messages, k, Len(messages))
  BY <1>1, <1>2, <1>3, Zenon DEF InConversation
<1>6. ASSUME NEW b \in Nat
      PROVE  {i \in DOMAIN messages : SqlEq(messages[i].conversation_id, Text(k)) /\ Before(i, FromOption(b))}
                = {i \in InConversation(messages, k, Len(messages)) : i < b}
  BY <1>1, <1>2, <1>4, Zenon DEF InConversation
<1> QED BY <1>5, <1>6, Zenon DEF list_messages

\* The rows of a conversation are finitely many row ids.
LEMMA RowsFinite ==
    ASSUME MessagesInv, NEW k, NEW upto \in Nat, upto <= Len(messages)
    PROVE  /\ InConversation(messages, k, upto) \subseteq 1..upto
           /\ IsFiniteSet(InConversation(messages, k, upto))
           /\ 1..upto \subseteq 1..MaxWrites
           /\ upto \in 0..MaxWrites
<1>1. InConversation(messages, k, upto) \subseteq 1..upto
  BY Zenon DEF InConversation
<1>2. IsFiniteSet(1..upto)
  BY FS_Interval
<1>3. Len(messages) \in Nat /\ Len(messages) <= MaxWrites
  BY BoundsAssumption DEF MessagesInv, RowInv, CountInv
<1> QED BY <1>1, <1>2, <1>3, FS_Subset, BoundsAssumption

\* Sequences over a larger set.
LEMMA SubsetSequences ==
    ASSUME NEW S, NEW T, S \subseteq T, NEW s \in Seq(S) PROVE s \in Seq(T)
  OBVIOUS

\* Both steps of a listing.
LEMMA ListingStep ==
    ASSUME MessagesInv, NEW c \in Conns, NEW k \in Conversations, NEW seen \in Seq(Nat),
           NEW upto \in Nat, upto <= Len(messages), NEW page,
           PagesSound(InConversation(messages, k, upto), seen, FALSE),
           page = Newest(Left(InConversation(messages, k, upto), seen), PageSize),
           job' = [job EXCEPT ![c] = Listing(k, seen, page, upto)],
           UNCHANGED <<conversations, sessions, sender_keys, devices, media, messages, writes, given>>
    PROVE  MessagesInv'
<1> DEFINE all == InConversation(messages, k, upto)
           j == Listing(k, seen, page, upto)
<1>1. all \subseteq 1..upto /\ IsFiniteSet(all) /\ 1..upto \subseteq 1..MaxWrites /\ upto \in 0..MaxWrites
  BY RowsFinite, Zenon
<1>2. all \subseteq Nat /\ Left(all, seen) \in SUBSET all
  BY <1>1 DEF Left
<1>3. IsFiniteSet(Left(all, seen)) /\ Left(all, seen) \subseteq Nat
  BY <1>1, <1>2, FS_Subset, Zenon
<1>4. IsPage(page, Left(all, seen), PageSize)
  BY <1>3, NewestIsPage, BoundsAssumption, Zenon
<1>5. /\ PagesSound(all, seen \o page, Len(page) < PageSize)
      /\ seen \o page \in Seq(all)
      /\ Len(page) < PageSize \/ seen \o page # <<>>
  BY <1>2, <1>4, PageGoesOn, Zenon
<1>6. seen \o page \in Seq(1..MaxWrites)
  <2> DEFINE s == seen \o page
  <2>1. s \in Seq(all) /\ all \subseteq 1..MaxWrites
    BY <1>1, <1>5, Zenon
  <2> HIDE DEF all, s
  <2>2. s \in Seq(1..MaxWrites)
    BY <2>1, SubsetSequences, Zenon
  <2> QED BY <2>2, Zenon DEF s
<1>7. /\ j.pc = "listing" /\ j.conversation = k /\ j.seen = seen \o page
      /\ j.done = (Len(page) < PageSize) /\ j.upto = upto
      /\ j \in Jobs
  <2>1. (Len(page) < PageSize) \in BOOLEAN
    OBVIOUS
  <2> QED BY <1>1, <1>6, <2>1, Zenon DEF Listing, Jobs
<1> HIDE DEF j, all
<1>8. JobOK(j, messages)
  BY <1>5, <1>7, Zenon DEF JobOK, all
<1> QED BY <1>7, <1>8, JobStep, Zenon DEF j

\* The first page.
LEMMA StartListingKeeps ==
    ASSUME MessagesInv, NEW c \in Conns, StartListing(c) PROVE MessagesInv'
<1>1. PICK k \in Conversations :
         job' = [job EXCEPT ![c] = Listing(k, <<>>, list_messages(k, None, PageSize), Len(messages))]
  BY Zenon DEF StartListing
<1> DEFINE all == InConversation(messages, k, Len(messages))
<1>2. Left(all, <<>>) = all /\ PagesSound(all, <<>>, FALSE)
  BY DEF Left, PagesSound
<1>3. Len(messages) \in Nat /\ Len(messages) <= Len(messages) /\ <<>> \in Seq(Nat)
  BY DEF MessagesInv, RowInv
<1>4. list_messages(k, None, PageSize) = Newest(Left(all, <<>>), PageSize)
  BY <1>2, PageRows, Zenon
<1>5. UNCHANGED <<conversations, sessions, sender_keys, devices, media, messages, writes, given>>
  BY Zenon DEF StartListing
<1> QED BY <1>1, <1>2, <1>3, <1>4, <1>5, ListingStep, Zenon

\* What is before the last id of a list is what is left.
LEMMA BeforeLast ==
    ASSUME NEW all, all \subseteq Nat, NEW seen \in Seq(Nat), seen # <<>>, PagesSound(all, seen, FALSE)
    PROVE  /\ seen[Len(seen)] \in all
           /\ {i \in all : i < seen[Len(seen)]} = Left(all, seen)
<1> DEFINE last == seen[Len(seen)]
<1>1. Len(seen) \in Nat \ {0} /\ Len(seen) \in DOMAIN seen /\ DOMAIN seen = 1..Len(seen)
  OBVIOUS
<1>2. last \in all /\ \A i \in Left(all, seen) : i < last
  BY <1>1, Zenon DEF PagesSound
<1>3. \A n \in DOMAIN seen : seen[n] \in Nat /\ ~(seen[n] < last)
  <2> TAKE n \in DOMAIN seen
  <2>1. CASE n = Len(seen)
    BY <1>1, <2>1
  <2>2. CASE n < Len(seen)
    <3>1. seen[n] > last
      BY <1>1, <2>2, Zenon DEF PagesSound
    <3> QED BY <1>1, <3>1
  <2> QED BY <1>1, <2>1, <2>2
<1>4. \A i \in all : i < last => i \in Left(all, seen)
  BY <1>3, Zenon DEF Left
<1>5. Left(all, seen) \subseteq all
  BY Zenon DEF Left
<1> QED BY <1>2, <1>4, <1>5, Zenon

\* The next page.
LEMMA NextPageKeeps ==
    ASSUME MessagesInv, NEW c \in Conns, NextPage(c) PROVE MessagesInv'
<1> DEFINE j == job[c]
           k == j.conversation
           seen == j.seen
           upto == j.upto
           all == InConversation(messages, k, upto)
           every == InConversation(messages, k, Len(messages))
<1>1. /\ j \in Jobs /\ j.pc = "listing" /\ ~j.done /\ JobOK(j, messages)
      /\ job' = [job EXCEPT ![c] =
                   Listing(k, seen, list_messages(k, seen[Len(seen)], PageSize), upto)]
      /\ UNCHANGED <<conversations, sessions, sender_keys, devices, media, messages, writes, given>>
  BY Zenon DEF NextPage, IsListing, MessagesInv, JobInv
<1>2. /\ k \in Conversations /\ upto \in Nat /\ seen \in Seq(1..MaxWrites)
      /\ upto <= Len(messages) /\ seen # <<>> /\ PagesSound(all, seen, j.done)
  BY <1>1, BoundsAssumption DEF Jobs, JobOK
<1> HIDE DEF j, k, seen, upto
<1>3. seen \in Seq(Nat) /\ PagesSound(all, seen, FALSE) /\ all \subseteq Nat
  <2>1. all \subseteq 1..upto
    BY <1>2, RowsFinite, Zenon
  <2>2. 1..MaxWrites \subseteq Nat /\ 1..upto \subseteq Nat
    OBVIOUS
  <2> QED BY <1>2, <2>1, <2>2 DEF PagesSound
<1>4. seen[Len(seen)] \in all /\ {i \in all : i < seen[Len(seen)]} = Left(all, seen)
  BY <1>2, <1>3, BeforeLast, Zenon
<1>5. {i \in every : i < seen[Len(seen)]} = {i \in all : i < seen[Len(seen)]}
  <2>1. seen[Len(seen)] \in 1..upto /\ Len(messages) \in Nat
    BY <1>4 DEF InConversation, MessagesInv, RowInv
  <2>2. \A i \in 1..Len(messages) : i < seen[Len(seen)] => i \in 1..upto
    BY <1>2, <2>1
  <2>3. \A i \in 1..upto : i \in 1..Len(messages)
    BY <1>2, <2>1
  <2> QED BY <2>2, <2>3, Zenon DEF InConversation
<1>6. list_messages(k, seen[Len(seen)], PageSize) = Newest(Left(all, seen), PageSize)
  <2>1. seen[Len(seen)] \in Nat
    BY <1>3, <1>4, Zenon
  <2>2. list_messages(k, seen[Len(seen)], PageSize) = Newest({i \in every : i < seen[Len(seen)]}, PageSize)
    BY <2>1, PageRows, Zenon
  <2> QED BY <1>4, <1>5, <2>2, Zenon
<1> QED BY <1>1, <1>2, <1>3, <1>6, ListingStep, Zenon

-----------------------------------------------------------------------------
(* The theorems *)

\* An empty database satisfies the invariant.
LEMMA MessagesInitEstablishes == MessagesInit => MessagesInv
<1> SUFFICES ASSUME MessagesInit PROVE MessagesInv
  BY Zenon
<1>1. CountInv
  BY BoundsAssumption DEF MessagesInit, CountInv
<1>2. given \in Given /\ Len(given.messages) = Len(messages)
  BY DEF MessagesInit, Given
<1>3. TableInv
  BY <1>2, Zenon DEF MessagesInit, TableInv
<1>4. RowInv
  <2>1. messages = <<>> /\ messages \in Seq(MessageRows) /\ DOMAIN messages = {}
    BY DEF MessagesInit
  <2>2. Len(messages) \in Nat /\ DOMAIN messages = 1..Len(messages)
    BY <2>1
  <2> QED BY <1>2, <2>1, <2>2, Zenon DEF RowInv, UidsUnique
<1>5. JobInv /\ MediaInv
  BY Zenon DEF MessagesInit, JobInv, MediaInv
<1> QED BY <1>1, <1>3, <1>4, <1>5, Zenon DEF MessagesInv

\* Every step of every connection keeps it.
LEMMA MessagesNextPreserves == MessagesInv /\ [MessagesNext]_msgVars => MessagesInv'
<1> SUFFICES ASSUME MessagesInv, [MessagesNext]_msgVars PROVE MessagesInv'
  BY Zenon
<1>1. CASE UNCHANGED msgVars
  BY <1>1, Zenon DEF msgVars, MessagesInv, CountInv, TableInv, RowInv, UidsUnique, JobInv, MediaInv
<1>2. CASE MessagesNext
  <2>1. PICK c \in Conns :
            \/ UpsertConversation(c) \/ SaveSession(c) \/ DeleteSession(c)
            \/ UpsertSenderKey(c) \/ UpsertDevice(c)
            \/ InsertMessage(c) \/ ReturnRowId(c) \/ LoadMessageByUid(c)
            \/ UpdateMessageStatus(c) \/ InsertMedia(c)
            \/ StartListing(c) \/ NextPage(c) \/ EndJob(c)
    BY <1>2, Zenon DEF MessagesNext
  <2> QED
    BY <2>1, UpsertConversationKeeps, SessionsKeep, UpsertSenderKeyKeeps, UpsertDeviceKeeps,
       InsertMessageKeeps, IdStepsKeep, UpdateStatusKeeps, InsertMediaKeeps,
       StartListingKeeps, NextPageKeeps, Zenon
<1> QED BY <1>1, <1>2, Zenon

\* The invariant holds in every reachable state.
LEMMA MessagesInvariant == MessagesSpec => []MessagesInv
  BY MessagesInitEstablishes, MessagesNextPreserves, PTL DEF MessagesSpec

\* PRAGMA foreign_keys: messages and sessions refer to a conversation that is
\* there and attachments to a message that is there, for any number of
\* connections, rows and pages.
THEOREM ReferencesHold == MessagesSpec => []MessagesTypeOK
<1>1. MessagesInv => MessagesTypeOK
  <2> SUFFICES ASSUME MessagesInv PROVE MessagesTypeOK
    BY Zenon
  <2>1. DOMAIN messages = 1..Len(messages)
    BY DEF MessagesInv, RowInv
  <2>n. Null.type = "null" /\ \A i : ColumnI64(I64(i)) = i
    BY Zenon DEF Null, I64, ColumnI64
  <2>2. ASSUME NEW a \in MediaIds, media[a] # None, Readable(media[a].message_id)
        PROVE  ColumnI64(media[a].message_id) \in DOMAIN messages
    <3>1. MediaOK(media[a], messages)
      BY <2>2, Zenon DEF MessagesInv, MediaInv
    <3>2. media[a].message_id # Null
      BY <2>n, <2>2, Zenon DEF Readable
    <3>3. PICK i \in 1..Len(messages) : media[a].message_id = I64(i)
      BY <3>1, <3>2, Zenon DEF MediaOK
    <3> QED BY <2>n, <2>1, <3>3, Zenon
  <2> QED
    BY <2>1, <2>2, Zenon DEF MessagesInv, CountInv, TableInv, RowInv, JobInv, MediaInv, MessagesTypeOK
<1> QED BY <1>1, MessagesInvariant, PTL

\* What any load of store.rs returns is the record given last, whole, for any
\* number of connections that write.
THEOREM LoadsReturnLastSave == MessagesSpec => []LoadsLastSave
<1>1. MessagesInv => LoadsLastSave
  <2> SUFFICES ASSUME MessagesInv PROVE LoadsLastSave
    BY Zenon
  <2>1. DOMAIN messages = 1..Len(messages)
    BY DEF MessagesInv, RowInv
  <2> QED BY <2>1, Zenon DEF MessagesInv, TableInv, RowInv, LoadsLastSave
<1> QED BY <1>1, MessagesInvariant, PTL

\* A row id that insert_message or load_message_by_uid gave a caller is the
\* row of the caller's own message for as long as the caller holds it, and an
\* attachment is listed under the message it was inserted for.
THEOREM RowIdsAreOwn == MessagesSpec => []RowIdsOwn
<1>1. MessagesInv => RowIdsOwn
  <2> SUFFICES ASSUME MessagesInv PROVE RowIdsOwn
    BY Zenon
  <2>1. ASSUME NEW c \in Conns, HoldsId(c)
        PROVE  WithUid(job[c].conversation, job[c].uid) = {job[c].id}
    <3> DEFINE k == job[c].conversation
               uid == job[c].uid
               i == job[c].id
    <3>1. RowIs(messages, i, k, uid)
      BY <2>1, Zenon DEF HoldsId, MessagesInv, JobInv, JobOK
    <3> HIDE DEF k, uid, i
    <3>2. \A l : RowIs(messages, l, k, uid) => l = i
      BY <3>1, Zenon DEF RowIs, MessagesInv, RowInv, UidsUnique
    <3>3. \A l : l \in WithUid(k, uid) <=> RowIs(messages, l, k, uid)
      BY WithUidSelects, Zenon
    <3>4. WithUid(k, uid) = {i}
      BY <3>1, <3>2, <3>3, Zenon
    <3> QED BY <3>4, Zenon DEF k, uid, i
  <2>2. ASSUME NEW a \in MediaIds, media[a] # None
        PROVE  \/ media[a].message_id = Null /\ media[a].of = None
               \/ \E i \in 1..Len(messages) :
                     /\ media[a].message_id = I64(i)
                     /\ media[a].of = <<GetOwned(messages[i].conversation_id), GetOwned(messages[i].message_id)>>
                     /\ media[a].of # None
    <3>1. MediaOK(media[a], messages)
      BY <2>2, Zenon DEF MessagesInv, MediaInv
    <3>2. ASSUME NEW k \in Conversations, NEW uid \in Uids, NEW i \in 1..Len(messages),
                 media[a].message_id = I64(i), media[a].of = <<k, uid>>, RowIs(messages, i, k, uid)
          PROVE  /\ media[a].of = <<GetOwned(messages[i].conversation_id), GetOwned(messages[i].message_id)>>
                 /\ media[a].of # None
      <4>1. GetOwned(messages[i].conversation_id) = k /\ GetOwned(messages[i].message_id) = uid
        BY <3>2 DEF RowIs, Text, Blob, GetOwned
      <4>2. <<k, uid>> # None
        BY RowsAssumption
      <4> QED BY <3>2, <4>1, <4>2, Zenon
    <3> QED BY <3>1, <3>2, Zenon DEF MediaOK
  <2>3. \A i, l : I64(i) # Null /\ (I64(i) = I64(l) => i = l)
    <3> TAKE i, l
    <3>1. I64(i).type = "i64" /\ Null.type = "null" /\ I64(i).v = i /\ I64(l).v = l
      BY Zenon DEF I64, Null
    <3> QED BY <3>1, Zenon
  <2>4. ASSUME NEW i \in DOMAIN messages, NEW a \in list_media_for_message(i)
        PROVE  media[a].of = <<GetOwned(messages[i].conversation_id), GetOwned(messages[i].message_id)>>
    <3>1. a \in MediaIds /\ media[a] # None /\ media[a].message_id = I64(i)
      BY Zenon DEF list_media_for_message, SqlEq
    <3> QED BY <2>2, <2>3, <3>1, Zenon
  <2>5. ASSUME NEW a \in MediaIds, media[a] # None
        PROVE  load_media(media[a]).message_id = None <=> media[a].of = None
    <3>1. CASE media[a].message_id = Null /\ media[a].of = None
      BY <3>1 DEF load_media, GetOption, Null
    <3>2. ASSUME NEW i \in 1..Len(messages), media[a].message_id = I64(i), media[a].of # None
          PROVE  load_media(media[a]).message_id # None
      <4>1. i \in Nat /\ i # None
        BY RowsAssumption DEF MessagesInv, RowInv
      <4> QED BY <3>2, <4>1 DEF load_media, GetOption, I64, ColumnI64
    <3> QED BY <2>2, <2>5, <3>1, <3>2, Zenon
  <2> QED BY <2>1, <2>4, <2>5, Zenon DEF RowIdsOwn
<1> QED BY <1>1, MessagesInvariant, PTL

\* The pages a caller of list_messages puts together are exactly the messages
\* there were when it began, each once, newest first, for every page size and
\* any number of connections that insert meanwhile.
THEOREM PagesAreWhole == MessagesSpec => []PagesWhole
<1>1. MessagesInv => PagesWhole
  <2> SUFFICES ASSUME MessagesInv, NEW c \in Conns, IsListing(c)
               PROVE  PagesSound(InConversation(messages, job[c].conversation, job[c].upto),
                                 job[c].seen, job[c].done)
    BY Zenon DEF PagesWhole, PagesSound, InConversation, Left
  <2> QED BY Zenon DEF IsListing, MessagesInv, JobInv, JobOK
<1> QED BY <1>1, MessagesInvariant, PTL
=============================================================================
