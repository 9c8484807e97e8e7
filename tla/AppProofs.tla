---------------------------- MODULE AppProofs -----------------------------
(***************************************************************************)
(* Proofs about Boot, GroupChat and Documents.                             *)
(*                                                                         *)
(* Boot, for any number of processes and starts: unless first starts met,  *)
(* a process that is not alone in starting finds an installation and only  *)
(* reads.  So nobody disturbs the one process that makes the installation. *)
(*                                                                         *)
(* GroupChat, for any number of sender keys and messages: the sender       *)
(* stands behind the last text it published, and a reader with a key       *)
(* behind the last text it was shown.                                      *)
(*                                                                         *)
(* Documents, for any number of processes, databases, edits and exported   *)
(* states: DocumentsInv speaks of the states of the document that exist    *)
(* anywhere: an edit is named by its client and clock in all of them, what *)
(* they hold of a client has no gap, and the Doc that makes a client's     *)
(* edits has all of them.  Merging is then the union.                      *)
(***************************************************************************)
EXTENDS Boot, GroupChat, Documents, TLAPS

\* The steps after the database was opened, and after it has its tables.
Migrating == {"version", "migrate", "set_version", "commit"}
Migrated == {"identity", "save_identity", "prekey", "create_bundle", "write_bundle", "up"}
Signing == {"prekey", "create_bundle", "write_bundle"}

\* What each step of a process has behind it, whoever else is running.
PcInv(p) ==
    /\ Booting(p) => proc[p].run \in Runs
    /\ At(p, "read_salt") => salt # None
    /\ At(p, "open") => proc[p].key # None
    /\ proc[p].pc \in Migrating \cup Migrated => db.key # None
    /\ proc[p].pc \in Migrated => db.tables
    /\ proc[p].pc \in Signing => proc[p].identity # None

\* A transaction has the lock, and stages nothing but the migration.
LockInv(p) ==
    proc[p].pc \in {"set_version", "commit"} =>
        /\ lock = p /\ ~db.tables
        /\ proc[p].staged \in Database /\ proc[p].staged.tables
        /\ proc[p].staged.key = db.key /\ proc[p].staged.identity = db.identity
        /\ At(p, "commit") => proc[p].staged.version = 1

\* The process that makes something finds that it is not there.
FirstInv(p) ==
    /\ proc[p].pc \in {"create_salt", "write_salt"} => db.key = None
    /\ At(p, "open") => proc[p].key = DeriveDbKey(salt)
    /\ At(p, "migrate") => ~db.tables
    /\ At(p, "save_identity") => db.identity = None
    /\ proc[p].pc \in {"create_bundle", "write_bundle"} => ~Whole(bundle)

UsesInstalled(p) ==
    /\ proc[p].identity # None => proc[p].identity = db.identity
    /\ proc[p].prekey # None => proc[p].prekey = bundle

ProcInv(p) ==
    /\ PcInv(p) /\ LockInv(p)
    /\ ~raced => FirstInv(p) /\ UsesInstalled(p)
    /\ At(p, "failed") => torn \/ raced

\* What is on disk fits together.
DiskInv ==
    /\ SchemaWhole /\ (db.identity # None => db.tables /\ db.key # None)
    /\ DatabaseOpens
    /\ ~raced => (Whole(bundle) => bundle.by = db.identity)

\* Two processes start at once only on an installation that is complete.
AloneInv ==
    ~raced => \A p, q \in Procs : p # q /\ Booting(p) /\ Booting(q) => Installed

\* A file that is short is being filled.
FileInv ==
    ~raced /\ ~torn =>
        /\ salt = Short => \E p \in Procs : At(p, "write_salt")
        /\ bundle = Short => \E p \in Procs : At(p, "write_bundle")

IInv == TypeOK /\ DiskInv /\ AloneInv /\ FileInv /\ \A p \in Procs : ProcInv(p)

-----------------------------------------------------------------------------
(* Types, and what does not depend on raced *)

ProcRec == [pc : Pcs, run : 0..MaxStarts, key : DbKeys \cup {None},
            identity : Runs \cup {None}, prekey : Prekeys \cup {None},
            staged : Database \cup {None}]

LEMMA Values ==
    /\ Runs \subseteq 0..MaxStarts
    /\ \A s \in Runs : DeriveDbKey(s) \in DbKeys
    /\ \A s, t : DeriveDbKey(s) = DeriveDbKey(t) => s = t
    /\ None # Short /\ None \notin Runs /\ Short \notin Runs /\ None \notin DbKeys
    /\ None \notin Prekeys /\ Short \notin Prekeys
<1>1. Runs \subseteq 0..MaxStarts
    BY BoundsAssumption DEF Runs
<1>2. \A s \in Runs : DeriveDbKey(s) \in DbKeys
    BY Zenon DEF DeriveDbKey, DbKeys
<1>3. \A s, t : DeriveDbKey(s) = DeriveDbKey(t) => s = t
    BY Zenon DEF DeriveDbKey
<1>4. /\ None # Short /\ None \notin Runs /\ Short \notin Runs /\ None \notin DbKeys
      /\ None \notin Prekeys /\ Short \notin Prekeys
    BY NoneAssumption, Zenon
<1> QED BY <1>1, <1>2, <1>3, <1>4, Zenon

LEMMA FreshType == \A pc \in Pcs, n \in 0..MaxStarts : Fresh(pc, n) \in ProcRec
BY Zenon DEF Fresh, ProcRec

\* What an action of p does to proc, whatever the action is.
Moves(p) == proc' \in [Procs -> ProcRec] /\ \A q \in Procs \ {p} : proc'[q] = proc[q]

LEMMA ProcMoves ==
    ASSUME proc \in [Procs -> ProcRec], NEW p \in Procs, NEW r \in ProcRec,
           proc' = [proc EXCEPT ![p] = r]
    PROVE  Moves(p) /\ proc'[p] = r
BY Zenon DEF Moves

LEMMA GotoMoves ==
    ASSUME proc \in [Procs -> ProcRec], NEW p \in Procs, NEW pc \in Pcs, Goto(p, pc)
    PROVE  Moves(p) /\ proc'[p] = [proc[p] EXCEPT !.pc = pc]
BY DEF Moves, Goto, ProcRec

LEMMA EndsMoves ==
    ASSUME proc \in [Procs -> ProcRec], NEW p \in Procs, NEW pc \in Pcs, Ends(p, pc)
    PROVE  Moves(p) /\ proc'[p] = Fresh(pc, 0)
<1>1. 0 \in 0..MaxStarts
    BY BoundsAssumption
<1>2. Fresh(pc, 0) \in ProcRec
    BY <1>1, FreshType, Zenon
<1> QED BY <1>2, ProcMoves, Zenon DEF Ends

LEMMA StagedMoves ==
    ASSUME proc \in [Procs -> ProcRec], NEW p \in Procs, NEW pc \in Pcs,
           NEW S \in Database \cup {None}, proc' = [proc EXCEPT ![p].staged = S, ![p].pc = pc]
    PROVE  /\ Moves(p) /\ proc'[p].pc = pc /\ proc'[p].staged = S
           /\ proc'[p].run = proc[p].run /\ proc'[p].identity = proc[p].identity
           /\ proc'[p].prekey = proc[p].prekey
<1> DEFINE r == [[proc[p] EXCEPT !.staged = S] EXCEPT !.pc = pc]
<1>1. r \in ProcRec
    BY Zenon DEF ProcRec
<1>2. proc' = [proc EXCEPT ![p] = r]
    BY Zenon DEF ProcRec
<1>3. /\ r.pc = pc /\ r.staged = S /\ r.run = proc[p].run
      /\ r.identity = proc[p].identity /\ r.prekey = proc[p].prekey
    BY Zenon DEF ProcRec
<1> HIDE DEF r
<1> QED BY <1>1, <1>2, <1>3, ProcMoves, Zenon

LEMMA KeyMoves ==
    ASSUME proc \in [Procs -> ProcRec], NEW p \in Procs, NEW k \in DbKeys,
           proc' = [proc EXCEPT ![p].key = k, ![p].pc = "open"]
    PROVE  /\ Moves(p) /\ proc'[p].pc = "open" /\ proc'[p].key = k
           /\ proc'[p].run = proc[p].run /\ proc'[p].identity = proc[p].identity
           /\ proc'[p].prekey = proc[p].prekey
<1> DEFINE r == [[proc[p] EXCEPT !.key = k] EXCEPT !.pc = "open"]
<1>0. "open" \in Pcs /\ "up" \in Pcs
    BY Zenon DEF Pcs
<1>1. r \in ProcRec
    BY <1>0, Zenon DEF ProcRec
<1>2. proc' = [proc EXCEPT ![p] = r]
    BY Zenon DEF ProcRec
<1>3. /\ r.pc = "open" /\ r.key = k /\ r.run = proc[p].run
      /\ r.identity = proc[p].identity /\ r.prekey = proc[p].prekey
    BY Zenon DEF ProcRec
<1> HIDE DEF r
<1> QED BY <1>1, <1>2, <1>3, ProcMoves, Zenon

LEMMA IdentityMoves ==
    ASSUME proc \in [Procs -> ProcRec], NEW p \in Procs, NEW id \in Runs, HasIdentity(p, id)
    PROVE  /\ Moves(p) /\ proc'[p].pc \in {"prekey", "up"} /\ proc'[p].identity = id
           /\ proc'[p].run = proc[p].run /\ proc'[p].prekey = proc[p].prekey
<1>1. PICK pc \in {"prekey", "up"} : proc' = [proc EXCEPT ![p].identity = id, ![p].pc = pc]
    BY Zenon DEF HasIdentity
<1> DEFINE r == [[proc[p] EXCEPT !.identity = id] EXCEPT !.pc = pc]
<1>0. "prekey" \in Pcs /\ "up" \in Pcs
    BY Zenon DEF Pcs
<1>2. r \in ProcRec
    BY <1>0, <1>1, Zenon DEF ProcRec
<1>3. proc' = [proc EXCEPT ![p] = r]
    BY <1>1, Zenon DEF ProcRec
<1>4. r.pc = pc /\ r.identity = id /\ r.run = proc[p].run /\ r.prekey = proc[p].prekey
    BY Zenon DEF ProcRec
<1> HIDE DEF r
<1> QED BY <1>1, <1>2, <1>3, <1>4, ProcMoves, Zenon

LEMMA PrekeyMoves ==
    ASSUME proc \in [Procs -> ProcRec], NEW p \in Procs, NEW k \in Prekeys,
           proc' = [proc EXCEPT ![p].prekey = k, ![p].pc = "up"]
    PROVE  /\ Moves(p) /\ proc'[p].pc = "up" /\ proc'[p].prekey = k
           /\ proc'[p].run = proc[p].run /\ proc'[p].identity = proc[p].identity
<1> DEFINE r == [[proc[p] EXCEPT !.prekey = k] EXCEPT !.pc = "up"]
<1>0. "open" \in Pcs /\ "up" \in Pcs
    BY Zenon DEF Pcs
<1>1. r \in ProcRec
    BY <1>0, Zenon DEF ProcRec
<1>2. proc' = [proc EXCEPT ![p] = r]
    BY Zenon DEF ProcRec
<1>3. r.pc = "up" /\ r.prekey = k /\ r.run = proc[p].run /\ r.identity = proc[p].identity
    BY Zenon DEF ProcRec
<1> HIDE DEF r
<1> QED BY <1>1, <1>2, <1>3, ProcMoves, Zenon

LEMMA Types == TypeOK => proc \in [Procs -> ProcRec]
BY Zenon DEF TypeOK, ProcRec

disk == <<salt, db, bundle, lock, starts, raced, torn>>

\* A step that only reads the directory: it matters what the process itself
\* knows afterwards.
LEMMA Reads ==
    ASSUME IInv, NEW p \in Procs, Moves(p), Booting(p), UNCHANGED disk,
           ~At(p, "write_salt"), ~At(p, "write_bundle"), ProcInv(p)'
    PROVE  IInv'
<1>0. TypeOK /\ DiskInv /\ AloneInv /\ FileInv /\ \A q \in Procs : ProcInv(q)
    BY Zenon DEF IInv
<1>1. \A q \in Procs \ {p} : proc'[q] = proc[q]
    BY Zenon DEF Moves
<1>2. TypeOK'
    BY <1>0, Zenon DEF TypeOK, Moves, ProcRec, disk
<1>3. DiskInv'
    BY <1>0, Zenon DEF DiskInv, SchemaWhole, DatabaseOpens, disk
<1>4. ASSUME NEW q \in Procs PROVE ProcInv(q)'
  <2>1. CASE q = p
      BY <2>1, Zenon
  <2>2. CASE q # p
    <3>1. proc'[q] = proc[q] /\ ProcInv(q)
        BY <2>2, <1>0, <1>1, Zenon
    <3> QED BY <3>1 DEF ProcInv, PcInv, LockInv, FirstInv, UsesInstalled, At, Booting, Ended, disk
  <2> QED BY <2>1, <2>2, Zenon
<1>5. AloneInv'
    BY <1>0, <1>1, Zenon DEF AloneInv, Installed, Booting, Ended, At, disk
<1>6. FileInv'
    BY <1>0, <1>1, Zenon DEF FileInv, At, disk
<1> QED BY <1>2, <1>3, <1>4, <1>5, <1>6, Zenon DEF IInv

\* Whoever makes something is the only process that is starting.
Making == {"create_salt", "write_salt", "migrate", "set_version", "commit",
           "save_identity", "create_bundle", "write_bundle"}

LEMMA MakesAlone ==
    ASSUME IInv, ~raced, NEW p \in Procs, proc[p].pc \in Making
    PROVE  /\ Booting(p)
           /\ \A q \in Procs \ {p} : ~Booting(q)
<1>1. Booting(p)
    BY Zenon DEF Making, Booting, Ended, At
<1>2. ASSUME NEW q \in Procs \ {p}, Booting(q) PROVE FALSE
  <2>1. Installed
      BY <1>1, <1>2, Zenon DEF IInv, AloneInv
  <2>2. db.identity # None /\ Whole(bundle) /\ db.tables /\ db.key # None
      BY <2>1, Zenon DEF Installed, IInv, DiskInv
  <2>3. FirstInv(p) /\ LockInv(p)
      BY Zenon DEF IInv, ProcInv
  <2> QED BY <2>2, <2>3, Zenon DEF FirstInv, LockInv, Making, At
<1> QED BY <1>1, <1>2, Zenon

LEMMA CheckSaltKeeps == ASSUME IInv, NEW p \in Procs, CheckSalt(p) PROVE IInv'
<1> DEFINE pc == IF salt = None THEN "create_salt" ELSE "read_salt"
<1>1. At(p, "salt") /\ Goto(p, pc) /\ UNCHANGED disk
    BY Zenon DEF CheckSalt, disk
<1>2. proc \in [Procs -> ProcRec] /\ ProcInv(p) /\ DiskInv /\ TypeOK
    BY Types, Zenon DEF IInv
<1>3. Moves(p) /\ proc'[p] = [proc[p] EXCEPT !.pc = pc]
    BY <1>1, <1>2, GotoMoves, Zenon DEF Pcs
<1>4. /\ proc'[p].pc = pc /\ proc'[p].run = proc[p].run /\ proc'[p].identity = proc[p].identity
      /\ proc'[p].prekey = proc[p].prekey /\ proc[p].run \in Runs
    BY <1>1, <1>2, <1>3 DEF ProcRec, ProcInv, PcInv, Booting, Ended, At
<1>5. ~raced /\ salt = None => db.key = None
    BY <1>2, Values DEF DiskInv, DatabaseOpens, TypeOK, Database, DbKeys, DeriveDbKey
<1>6. ProcInv(p)'
    BY <1>1, <1>2, <1>4, <1>5, Zenon
       DEF ProcInv, PcInv, LockInv, FirstInv, UsesInstalled, At, disk, Migrating, Migrated, Signing
<1> QED BY <1>1, <1>3, <1>6, Reads, Zenon DEF At, Booting, Ended

LEMMA ReadSaltKeeps == ASSUME IInv, NEW p \in Procs, ReadSalt(p) PROVE IInv'
<1>1. /\ At(p, "read_salt") /\ UNCHANGED disk
      /\ \/ salt = Short /\ Ends(p, "failed")
         \/ salt # Short /\ proc' = [proc EXCEPT ![p].key = DeriveDbKey(salt), ![p].pc = "open"]
    BY Zenon DEF ReadSalt, disk
<1>2. proc \in [Procs -> ProcRec] /\ ProcInv(p) /\ DiskInv /\ TypeOK /\ FileInv
    BY Types, Zenon DEF IInv
<1>3. Booting(p) /\ ~At(p, "write_salt") /\ ~At(p, "write_bundle")
    BY <1>1, Zenon DEF At, Booting, Ended
<1>4. CASE salt = Short
  <2>1. Moves(p) /\ proc'[p] = Fresh("failed", 0)
      BY <1>1, <1>2, <1>4, EndsMoves, Zenon DEF Pcs
  <2>2. raced \/ torn
    <3>1. SUFFICES ASSUME ~raced, ~torn PROVE FALSE
        BY Zenon DEF IInv, TypeOK
    <3>2. PICK q \in Procs : At(q, "write_salt")
        BY <1>2, <1>4, <3>1, Zenon DEF FileInv
    <3>3. p # q /\ proc[q].pc \in Making
        BY <1>1, <3>2, Zenon DEF At, Making
    <3> QED BY <1>3, <3>1, <3>3, MakesAlone, Zenon
  <2>3. ProcInv(p)'
      BY <1>1, <2>1, <2>2
         DEF Fresh, ProcInv, PcInv, LockInv, FirstInv, UsesInstalled, At, Booting, Ended, disk,
             Migrating, Migrated, Signing
  <2> QED BY <1>1, <1>3, <2>1, <2>3, Reads, Zenon
<1>5. CASE salt # Short
  <2>1. salt \in Runs /\ DeriveDbKey(salt) \in DbKeys
      BY <1>1, <1>2, <1>5, Values, Zenon DEF TypeOK, ProcInv, PcInv
  <2>2. /\ Moves(p) /\ proc'[p].pc = "open" /\ proc'[p].key = DeriveDbKey(salt)
        /\ proc'[p].run = proc[p].run /\ proc'[p].identity = proc[p].identity
        /\ proc'[p].prekey = proc[p].prekey
      BY <1>1, <1>2, <1>5, <2>1, KeyMoves, Zenon
  <2>3. proc[p].run \in Runs
      BY <1>2, <1>3, Zenon DEF ProcInv, PcInv
  <2>4. ProcInv(p)'
      BY <1>1, <1>2, <2>1, <2>2, <2>3, Values, Zenon
         DEF ProcInv, PcInv, LockInv, FirstInv, UsesInstalled, At, disk, Migrating, Migrated, Signing
  <2> QED BY <1>1, <1>3, <2>2, <2>4, Reads, Zenon
<1> QED BY <1>4, <1>5, Zenon

LEMMA ReadVersionKeeps == ASSUME IInv, NEW p \in Procs, ReadVersion(p) PROVE IInv'
<1> DEFINE pc == IF Pending(db.version) THEN "migrate" ELSE "identity"
<1>1. At(p, "version") /\ Goto(p, pc) /\ UNCHANGED disk
    BY Zenon DEF ReadVersion, disk
<1>2. proc \in [Procs -> ProcRec] /\ ProcInv(p) /\ DiskInv /\ TypeOK
    BY Types, Zenon DEF IInv
<1>3. Moves(p) /\ proc'[p] = [proc[p] EXCEPT !.pc = pc]
    BY <1>1, <1>2, GotoMoves, Zenon DEF Pcs
<1>4. /\ proc'[p].pc = pc /\ proc'[p].run = proc[p].run /\ proc'[p].identity = proc[p].identity
      /\ proc'[p].prekey = proc[p].prekey /\ proc[p].run \in Runs
    BY <1>1, <1>2, <1>3 DEF ProcRec, ProcInv, PcInv, Booting, Ended, At
<1>5. db.tables <=> ~Pending(db.version)
    BY <1>2 DEF DiskInv, SchemaWhole, TypeOK, Database, Pending
<1>6. ProcInv(p)'
    BY <1>1, <1>2, <1>4, <1>5, Zenon
       DEF ProcInv, PcInv, LockInv, FirstInv, UsesInstalled, At, disk, Migrating, Migrated, Signing
<1> QED BY <1>1, <1>3, <1>6, Reads, Zenon DEF At, Booting, Ended

LEMMA SetVersionKeeps == ASSUME IInv, NEW p \in Procs, SetVersion(p) PROVE IInv'
<1>1. /\ At(p, "set_version") /\ UNCHANGED disk
      /\ proc' = [proc EXCEPT ![p].staged = [@ EXCEPT !.version = 1], ![p].pc = "commit"]
    BY Zenon DEF SetVersion, disk
<1>2. proc \in [Procs -> ProcRec] /\ ProcInv(p) /\ DiskInv /\ TypeOK
    BY Types, Zenon DEF IInv
<1>3. LockInv(p) /\ proc[p].staged \in Database
    BY <1>1, <1>2, Zenon DEF ProcInv, LockInv, At
<1>4. /\ [proc[p].staged EXCEPT !.version = 1] \in Database
      /\ [proc[p].staged EXCEPT !.version = 1].tables = proc[p].staged.tables
      /\ [proc[p].staged EXCEPT !.version = 1].key = proc[p].staged.key
      /\ [proc[p].staged EXCEPT !.version = 1].identity = proc[p].staged.identity
      /\ [proc[p].staged EXCEPT !.version = 1].version = 1
    BY <1>3 DEF Database
<1>5. /\ Moves(p) /\ proc'[p].pc = "commit"
      /\ proc'[p].staged = [proc[p].staged EXCEPT !.version = 1]
      /\ proc'[p].run = proc[p].run /\ proc'[p].identity = proc[p].identity
      /\ proc'[p].prekey = proc[p].prekey
  <2> DEFINE S == [proc[p].staged EXCEPT !.version = 1]
  <2>1. S \in Database /\ proc' = [proc EXCEPT ![p].staged = S, ![p].pc = "commit"]
      BY <1>1, <1>4, Zenon
  <2> HIDE DEF S
  <2>2. /\ Moves(p) /\ proc'[p].pc = "commit" /\ proc'[p].staged = S
        /\ proc'[p].run = proc[p].run /\ proc'[p].identity = proc[p].identity
        /\ proc'[p].prekey = proc[p].prekey
      BY <1>2, <2>1, StagedMoves, Zenon DEF Pcs
  <2> QED BY <2>2, Zenon DEF S
<1>6. proc[p].run \in Runs
    BY <1>1, <1>2, Zenon DEF ProcInv, PcInv, Booting, Ended, At
<1>7. ProcInv(p)'
    BY <1>1, <1>2, <1>3, <1>4, <1>5, <1>6, Zenon
       DEF ProcInv, PcInv, LockInv, FirstInv, UsesInstalled, At, disk, Migrating, Migrated, Signing
<1> QED BY <1>1, <1>5, <1>7, Reads, Zenon DEF At, Booting, Ended

LEMMA LoadIdentityKeeps == ASSUME IInv, NEW p \in Procs, LoadIdentity(p) PROVE IInv'
<1>1. /\ At(p, "identity") /\ UNCHANGED disk
      /\ \/ db.identity # None /\ HasIdentity(p, db.identity)
         \/ db.identity = None /\ Goto(p, "save_identity")
    BY Zenon DEF LoadIdentity, StoredIdentity, disk
<1>2. proc \in [Procs -> ProcRec] /\ ProcInv(p) /\ DiskInv /\ TypeOK
    BY Types, Zenon DEF IInv
<1>3. proc[p].run \in Runs /\ db.key # None /\ db.tables
    BY <1>1, <1>2, Zenon DEF ProcInv, PcInv, Booting, Ended, At, Migrated
<1>4. CASE db.identity # None
  <2>1. db.identity \in Runs
      BY <1>2, <1>4, Zenon DEF TypeOK, Database
  <2>2. /\ Moves(p) /\ proc'[p].pc \in {"prekey", "up"} /\ proc'[p].identity = db.identity
        /\ proc'[p].run = proc[p].run /\ proc'[p].prekey = proc[p].prekey
      BY <1>1, <1>2, <1>4, <2>1, IdentityMoves, Zenon
  <2>3. ProcInv(p)'
      BY <1>1, <1>2, <1>3, <1>4, <2>2, Zenon
         DEF ProcInv, PcInv, LockInv, FirstInv, UsesInstalled, At, disk, Migrating, Migrated, Signing
  <2> QED BY <1>1, <2>2, <2>3, Reads, Zenon DEF At, Booting, Ended
<1>5. CASE db.identity = None
  <2>1. Moves(p) /\ proc'[p] = [proc[p] EXCEPT !.pc = "save_identity"]
      BY <1>1, <1>2, <1>5, GotoMoves, Zenon DEF Pcs
  <2>2. /\ proc'[p].pc = "save_identity" /\ proc'[p].run = proc[p].run
        /\ proc'[p].identity = proc[p].identity /\ proc'[p].prekey = proc[p].prekey
      BY <1>2, <2>1, Zenon DEF ProcRec
  <2>3. ProcInv(p)'
      BY <1>1, <1>2, <1>3, <1>5, <2>2, Zenon
         DEF ProcInv, PcInv, LockInv, FirstInv, UsesInstalled, At, disk, Migrating, Migrated, Signing
  <2> QED BY <1>1, <2>1, <2>3, Reads, Zenon DEF At, Booting, Ended
<1> QED BY <1>4, <1>5, Zenon

LEMMA LoadPrekeyKeeps == ASSUME IInv, NEW p \in Procs, LoadPrekey(p) PROVE IInv'
<1>1. /\ At(p, "prekey") /\ UNCHANGED disk
      /\ \/ bundle = None /\ Goto(p, "create_bundle")
         \/ bundle = Short /\ Ends(p, "failed")
         \/ Whole(bundle) /\ proc' = [proc EXCEPT ![p].prekey = bundle, ![p].pc = "up"]
    BY Zenon DEF LoadPrekey, disk
<1>2. proc \in [Procs -> ProcRec] /\ ProcInv(p) /\ DiskInv /\ TypeOK /\ FileInv
    BY Types, Zenon DEF IInv
<1>3. proc[p].run \in Runs /\ db.key # None /\ db.tables /\ proc[p].identity # None
    BY <1>1, <1>2, Zenon DEF ProcInv, PcInv, Booting, Ended, At, Migrated, Signing
<1>4. Booting(p) /\ ~At(p, "write_salt") /\ ~At(p, "write_bundle")
    BY <1>1, Zenon DEF At, Booting, Ended
<1>5. CASE bundle = None /\ Goto(p, "create_bundle")
  <2>1. Moves(p) /\ proc'[p] = [proc[p] EXCEPT !.pc = "create_bundle"]
      BY <1>2, <1>5, GotoMoves, Zenon DEF Pcs
  <2>2. /\ proc'[p].pc = "create_bundle" /\ proc'[p].run = proc[p].run
        /\ proc'[p].identity = proc[p].identity /\ proc'[p].prekey = proc[p].prekey
      BY <1>2, <2>1, Zenon DEF ProcRec
  <2>3. ProcInv(p)'
      BY <1>1, <1>2, <1>3, <1>5, <2>2, Zenon
         DEF ProcInv, PcInv, LockInv, FirstInv, UsesInstalled, At, disk, Migrating, Migrated, Signing,
             Whole
  <2> QED BY <1>1, <1>4, <2>1, <2>3, Reads, Zenon
<1>6. CASE bundle = Short /\ Ends(p, "failed")
  <2>1. Moves(p) /\ proc'[p] = Fresh("failed", 0)
      BY <1>2, <1>6, EndsMoves, Zenon DEF Pcs
  <2>2. raced \/ torn
    <3>1. SUFFICES ASSUME ~raced, ~torn PROVE FALSE
        BY Zenon DEF IInv, TypeOK
    <3>2. PICK q \in Procs : At(q, "write_bundle")
        BY <1>2, <1>6, <3>1, Zenon DEF FileInv
    <3>3. p # q /\ proc[q].pc \in Making
        BY <1>1, <3>2, Zenon DEF At, Making
    <3> QED BY <1>4, <3>1, <3>3, MakesAlone, Zenon
  <2>3. ProcInv(p)'
      BY <1>1, <2>1, <2>2
         DEF Fresh, ProcInv, PcInv, LockInv, FirstInv, UsesInstalled, At, Booting, Ended, disk,
             Migrating, Migrated, Signing
  <2> QED BY <1>1, <1>4, <2>1, <2>3, Reads, Zenon
<1>7. CASE Whole(bundle) /\ proc' = [proc EXCEPT ![p].prekey = bundle, ![p].pc = "up"]
  <2>1. bundle \in Prekeys
      BY <1>2, <1>7, Zenon DEF TypeOK, Whole
  <2>2. /\ Moves(p) /\ proc'[p].pc = "up" /\ proc'[p].prekey = bundle
        /\ proc'[p].run = proc[p].run /\ proc'[p].identity = proc[p].identity
      BY <1>2, <1>7, <2>1, PrekeyMoves, Zenon
  <2>3. ProcInv(p)'
      BY <1>1, <1>2, <1>3, <2>2, Zenon
         DEF ProcInv, PcInv, LockInv, FirstInv, UsesInstalled, At, disk, Migrating, Migrated, Signing
  <2> QED BY <1>1, <1>4, <2>2, <2>3, Reads, Zenon
<1> QED BY <1>1, <1>5, <1>6, <1>7, Zenon

-----------------------------------------------------------------------------
(* Steps that write.  Unless first starts met, the others are up or ended. *)

LEMMA Writes ==
    ASSUME IInv, NEW p \in Procs, Moves(p), UNCHANGED <<starts, raced, torn>>,
           ~raced => \A q \in Procs \ {p} : ~Booting(q),
           salt # None => salt' # None,
           db.key # None => db'.key # None, db.tables => db'.tables,
           \/ UNCHANGED <<db, lock>>
           \/ \A q \in Procs \ {p} : proc[q].pc \notin {"set_version", "commit"},
           ~raced => /\ db'.identity = db.identity \/ db.identity = None
                     /\ bundle' = bundle \/ ~Whole(bundle),
           salt' \in Runs \cup {None, Short}, db' \in Database,
           bundle' \in Prekeys \cup {None, Short}, lock' \in Procs \cup {None},
           DiskInv', FileInv', ProcInv(p)'
    PROVE  IInv'
<1>0. TypeOK /\ \A q \in Procs : ProcInv(q)
    BY Zenon DEF IInv
<1>1. \A q \in Procs \ {p} : proc'[q] = proc[q]
    BY Zenon DEF Moves
<1>2. TypeOK'
    BY <1>0, Zenon DEF TypeOK, Moves, ProcRec
<1>3. AloneInv'
    BY <1>1 DEF AloneInv, Booting, Ended, At
<1>4. ASSUME NEW q \in Procs \ {p} PROVE ProcInv(q)'
  <2>0. ProcInv(q) /\ proc'[q] = proc[q]
      BY <1>0, <1>1, Zenon
  <2>1. PcInv(q)'
      BY <2>0, Zenon DEF ProcInv, PcInv, Booting, Ended, At
  <2>2. LockInv(q)'
    <3>1. CASE UNCHANGED <<db, lock>>
        BY <2>0, <3>1, Zenon DEF ProcInv, LockInv, At
    <3>2. CASE proc[q].pc \notin {"set_version", "commit"}
        BY <2>0, <3>2, Zenon DEF LockInv
    <3> QED BY <3>1, <3>2, Zenon
  <2>3. ASSUME ~raced PROVE FirstInv(q)'
    <3>1. ~Booting(q)
        BY <2>3, Zenon
    <3>2. proc[q].pc \in {"off", "failed", "busy", "up"}
        BY <3>1, Zenon DEF Booting, Ended, At
    <3> QED BY <2>0, <3>2, Zenon DEF FirstInv, At
  <2>4. ASSUME ~raced PROVE UsesInstalled(q)'
    <3>1. UsesInstalled(q)
        BY <2>0, <2>4, Zenon DEF ProcInv
    <3>2. proc[q].prekey \in Prekeys \cup {None} /\ \A k \in Prekeys : Whole(k)
        BY <1>0, Types, Values, Zenon DEF ProcRec, Whole
    <3> QED BY <2>0, <2>4, <3>1, <3>2, Zenon DEF UsesInstalled
  <2>5. At(q, "failed")' => torn' \/ raced'
      BY <2>0, Zenon DEF ProcInv, At
  <2> QED BY <2>1, <2>2, <2>3, <2>4, <2>5, Zenon DEF ProcInv
<1> QED BY <1>2, <1>3, <1>4, Zenon DEF IInv

LEMMA CreateSaltKeeps == ASSUME IInv, NEW p \in Procs, CreateSalt(p) PROVE IInv'
<1>1. /\ At(p, "create_salt") /\ salt' = Short /\ Goto(p, "write_salt")
      /\ UNCHANGED <<db, bundle, lock, starts, raced, torn>>
    BY Zenon DEF CreateSalt
<1>2. proc \in [Procs -> ProcRec] /\ ProcInv(p) /\ DiskInv /\ TypeOK /\ FileInv
    BY Types, Zenon DEF IInv
<1>3. Moves(p) /\ proc'[p] = [proc[p] EXCEPT !.pc = "write_salt"]
    BY <1>1, <1>2, GotoMoves, Zenon DEF Pcs
<1>4. /\ proc'[p].pc = "write_salt" /\ proc'[p].run = proc[p].run
      /\ proc'[p].identity = proc[p].identity /\ proc'[p].prekey = proc[p].prekey
    BY <1>2, <1>3, Zenon DEF ProcRec
<1>5. Booting(p) /\ (~raced => db.key = None /\ \A q \in Procs \ {p} : ~Booting(q))
    BY <1>1, <1>2, MakesAlone, Zenon DEF ProcInv, FirstInv, At, Booting, Ended, Making
<1>6. ProcInv(p)'
    BY <1>1, <1>2, <1>4, <1>5, Zenon
       DEF ProcInv, PcInv, LockInv, FirstInv, UsesInstalled, At, Migrating, Migrated, Signing
<1>7. DiskInv'
    BY <1>1, <1>2, <1>5, Zenon DEF DiskInv, SchemaWhole, DatabaseOpens
<1>8. FileInv'
    BY <1>1, <1>2, <1>3, <1>4, Zenon DEF FileInv, At, Moves
<1> QED BY <1>1, <1>2, <1>3, <1>5, <1>6, <1>7, <1>8, Values, Writes, Zenon DEF TypeOK

LEMMA WriteSaltKeeps == ASSUME IInv, NEW p \in Procs, WriteSalt(p) PROVE IInv'
<1>1. /\ At(p, "write_salt") /\ salt' = proc[p].run
      /\ proc' = [proc EXCEPT ![p].key = DeriveDbKey(proc[p].run), ![p].pc = "open"]
      /\ UNCHANGED <<db, bundle, lock, starts, raced, torn>>
    BY Zenon DEF WriteSalt
<1>2. proc \in [Procs -> ProcRec] /\ ProcInv(p) /\ DiskInv /\ TypeOK /\ FileInv
    BY Types, Zenon DEF IInv
<1>3. Booting(p) /\ (~raced => db.key = None /\ \A q \in Procs \ {p} : ~Booting(q))
    BY <1>1, <1>2, MakesAlone, Zenon DEF ProcInv, FirstInv, At, Booting, Ended, Making
<1>4. proc[p].run \in Runs /\ DeriveDbKey(proc[p].run) \in DbKeys
    BY <1>2, <1>3, Values, Zenon DEF ProcInv, PcInv
<1>5. /\ Moves(p) /\ proc'[p].pc = "open" /\ proc'[p].key = DeriveDbKey(proc[p].run)
      /\ proc'[p].run = proc[p].run /\ proc'[p].identity = proc[p].identity
      /\ proc'[p].prekey = proc[p].prekey
    BY <1>1, <1>2, <1>4, KeyMoves, Zenon
<1>6. ProcInv(p)'
    BY <1>1, <1>2, <1>3, <1>4, <1>5, Values, Zenon
       DEF ProcInv, PcInv, LockInv, FirstInv, UsesInstalled, At, Migrating, Migrated, Signing
<1>7. DiskInv'
    BY <1>1, <1>2, <1>3, Zenon DEF DiskInv, SchemaWhole, DatabaseOpens
<1>8. FileInv'
    BY <1>1, <1>2, <1>4, <1>5, Values, Zenon DEF FileInv, At, Moves
<1> QED BY <1>1, <1>2, <1>3, <1>4, <1>5, <1>6, <1>7, <1>8, Values, Writes, Zenon DEF TypeOK

LEMMA OpenKeeps == ASSUME IInv, NEW p \in Procs, Open(p) PROVE IInv'
<1>1. /\ At(p, "open") /\ UNCHANGED <<salt, bundle, lock, starts, raced, torn>>
      /\ \/ KeyFits(proc[p].key) /\ db' = Opened(proc[p].key) /\ Goto(p, "version")
         \/ ~KeyFits(proc[p].key) /\ Ends(p, "failed") /\ UNCHANGED db
         \/ Ends(p, "busy") /\ UNCHANGED db
    BY Zenon DEF Open
<1>2. proc \in [Procs -> ProcRec] /\ ProcInv(p) /\ DiskInv /\ TypeOK /\ FileInv
    BY Types, Zenon DEF IInv
<1>3. Booting(p) /\ ~At(p, "write_salt") /\ ~At(p, "write_bundle")
    BY <1>1, Zenon DEF At, Booting, Ended
<1>4. proc[p].key \in DbKeys /\ proc[p].run \in Runs
    BY <1>1, <1>2, <1>3, Zenon DEF ProcInv, PcInv, ProcRec
<1>5. CASE KeyFits(proc[p].key) /\ db' = Opened(proc[p].key) /\ Goto(p, "version")
  <2>1. Moves(p) /\ proc'[p] = [proc[p] EXCEPT !.pc = "version"]
      BY <1>2, <1>5, GotoMoves, Zenon DEF Pcs
  <2>2. /\ proc'[p].pc = "version" /\ proc'[p].run = proc[p].run
        /\ proc'[p].identity = proc[p].identity /\ proc'[p].prekey = proc[p].prekey
      BY <1>2, <2>1, Zenon DEF ProcRec
  <2>3. /\ db' \in Database /\ db'.key = proc[p].key /\ db'.key # None
        /\ db'.tables = db.tables /\ db'.version = db.version /\ db'.identity = db.identity
      BY <1>2, <1>4, <1>5, Values, Zenon DEF Opened, TypeOK, Database
  <2>4. ProcInv(p)'
      BY <1>1, <1>2, <1>4, <2>2, <2>3, Zenon
         DEF ProcInv, PcInv, LockInv, FirstInv, UsesInstalled, At, Migrating, Migrated, Signing
  <2>5. CASE db.key = None
    <3>1. ~raced => \A q \in Procs \ {p} : ~Booting(q)
      <4>1. ~Installed
          BY <1>2, <2>5, Zenon DEF Installed, DiskInv
      <4> QED BY <1>3, <4>1, Zenon DEF IInv, AloneInv
    <3>2. DiskInv'
      <4>1. ~raced => proc[p].key = DeriveDbKey(salt)
          BY <1>1, <1>2, Zenon DEF ProcInv, FirstInv
      <4> QED BY <1>1, <1>2, <2>3, <4>1, Zenon DEF DiskInv, SchemaWhole, DatabaseOpens
    <3>3. FileInv'
        BY <1>1, <1>2, <1>3, <2>1, Zenon DEF FileInv, At, Moves
    <3>4. \A q \in Procs : proc[q].pc \notin {"set_version", "commit"}
        BY <2>5, Zenon DEF IInv, ProcInv, PcInv, Migrating
    <3> QED BY <1>1, <1>2, <2>1, <2>3, <2>4, <3>1, <3>2, <3>3, <3>4, Writes, Zenon DEF TypeOK
  <2>6. CASE db.key # None
    <3>1. db' = db
        BY <1>2, <1>5, <2>6, Zenon DEF Opened, KeyFits, TypeOK, Database
    <3> QED BY <1>1, <1>3, <2>1, <2>4, <3>1, Reads, Zenon DEF disk
  <2> QED BY <2>5, <2>6, Zenon
<1>6. CASE /\ UNCHANGED db
           /\ (~KeyFits(proc[p].key) /\ Ends(p, "failed")) \/ Ends(p, "busy")
  <2>1. PICK how \in {"failed", "busy"} :
            Ends(p, how) /\ (how = "failed" => ~KeyFits(proc[p].key))
      BY <1>6, Zenon
  <2>2. Moves(p) /\ proc'[p] = Fresh(how, 0)
      BY <1>2, <2>1, EndsMoves, Zenon DEF Pcs
  <2>3. ~raced => KeyFits(proc[p].key)
      BY <1>1, <1>2, Zenon DEF ProcInv, FirstInv, DiskInv, DatabaseOpens, KeyFits
  <2>4. ProcInv(p)'
      BY <1>1, <2>1, <2>2, <2>3
         DEF Fresh, ProcInv, PcInv, LockInv, FirstInv, UsesInstalled, At, Booting, Ended,
             Migrating, Migrated, Signing
  <2> QED BY <1>1, <1>3, <1>6, <2>2, <2>4, Reads, Zenon DEF disk
<1> QED BY <1>1, <1>5, <1>6, Zenon

LEMMA MigrateKeeps == ASSUME IInv, NEW p \in Procs, Migrate(p) PROVE IInv'
<1>1. /\ At(p, "migrate") /\ UNCHANGED <<salt, db, bundle, starts, raced, torn>>
      /\ \/ /\ lock = None /\ ~db.tables /\ lock' = p
            /\ proc' = [proc EXCEPT ![p].staged = [db EXCEPT !.tables = TRUE],
                                    ![p].pc = "set_version"]
         \/ lock = None /\ db.tables /\ Ends(p, "failed") /\ UNCHANGED lock
         \/ lock # None /\ Ends(p, "busy") /\ UNCHANGED lock
    BY Zenon DEF Migrate
<1>2. proc \in [Procs -> ProcRec] /\ ProcInv(p) /\ DiskInv /\ TypeOK /\ FileInv
    BY Types, Zenon DEF IInv
<1>3. /\ Booting(p) /\ ~At(p, "write_salt") /\ ~At(p, "write_bundle")
      /\ proc[p].run \in Runs /\ db.key # None
      /\ ~raced => ~db.tables /\ \A q \in Procs \ {p} : ~Booting(q)
    BY <1>1, <1>2, MakesAlone, Zenon DEF ProcInv, PcInv, FirstInv, At, Booting, Ended, Making, Migrating
<1>4. CASE /\ lock = None /\ ~db.tables /\ lock' = p
           /\ proc' = [proc EXCEPT ![p].staged = [db EXCEPT !.tables = TRUE],
                                   ![p].pc = "set_version"]
  <2> DEFINE S == [db EXCEPT !.tables = TRUE]
  <2>1. /\ S \in Database /\ S.tables /\ S.key = db.key /\ S.identity = db.identity
      BY <1>2, Zenon DEF TypeOK, Database
  <2>2. proc' = [proc EXCEPT ![p].staged = S, ![p].pc = "set_version"]
      BY <1>4, Zenon
  <2> HIDE DEF S
  <2>3. /\ Moves(p) /\ proc'[p].pc = "set_version" /\ proc'[p].staged = S
        /\ proc'[p].run = proc[p].run /\ proc'[p].identity = proc[p].identity
        /\ proc'[p].prekey = proc[p].prekey
      BY <1>2, <2>1, <2>2, StagedMoves, Zenon DEF Pcs
  <2>4. ProcInv(p)'
      BY <1>1, <1>2, <1>3, <1>4, <2>1, <2>3, Zenon
         DEF ProcInv, PcInv, LockInv, FirstInv, UsesInstalled, At, Migrating, Migrated, Signing
  <2>5. DiskInv' /\ FileInv'
      BY <1>1, <1>2, <1>3, <2>3, Zenon DEF DiskInv, SchemaWhole, DatabaseOpens, FileInv, At, Moves
  <2>6. \A q \in Procs \ {p} : proc[q].pc \notin {"set_version", "commit"}
      BY <1>4, ProcsAssumption, Zenon DEF IInv, ProcInv, LockInv
  <2> QED BY <1>1, <1>2, <1>3, <1>4, <2>3, <2>4, <2>5, <2>6, Writes, Zenon DEF TypeOK
<1>5. CASE /\ UNCHANGED lock
           /\ (db.tables /\ Ends(p, "failed")) \/ Ends(p, "busy")
  <2>1. PICK how \in {"failed", "busy"} : Ends(p, how) /\ (how = "failed" => db.tables)
      BY <1>5, Zenon
  <2>2. Moves(p) /\ proc'[p] = Fresh(how, 0)
      BY <1>2, <2>1, EndsMoves, Zenon DEF Pcs
  <2>3. ProcInv(p)'
      BY <1>1, <1>3, <2>1, <2>2
         DEF Fresh, ProcInv, PcInv, LockInv, FirstInv, UsesInstalled, At, Booting, Ended,
             Migrating, Migrated, Signing
  <2> QED BY <1>1, <1>3, <1>5, <2>2, <2>3, Reads, Zenon DEF disk
<1> QED BY <1>1, <1>4, <1>5, Zenon

LEMMA CommitKeeps == ASSUME IInv, NEW p \in Procs, Commit(p) PROVE IInv'
<1>1. /\ At(p, "commit") /\ db' = proc[p].staged /\ lock' = None
      /\ proc' = [proc EXCEPT ![p].staged = None, ![p].pc = "identity"]
      /\ UNCHANGED <<salt, bundle, starts, raced, torn>>
    BY Zenon DEF Commit
<1>2. proc \in [Procs -> ProcRec] /\ ProcInv(p) /\ DiskInv /\ TypeOK /\ FileInv
    BY Types, Zenon DEF IInv
<1>3. /\ proc[p].run \in Runs /\ db.key # None /\ ~At(p, "write_salt") /\ ~At(p, "write_bundle")
      /\ ~raced => \A q \in Procs \ {p} : ~Booting(q)
    BY <1>1, <1>2, MakesAlone, Zenon DEF ProcInv, PcInv, At, Booting, Ended, Making, Migrating
<1>4. /\ lock = p /\ db' \in Database /\ db'.tables /\ db'.version = 1
      /\ db'.key = db.key /\ db'.identity = db.identity
    BY <1>1, <1>2, Zenon DEF ProcInv, LockInv, At
<1>5. /\ Moves(p) /\ proc'[p].pc = "identity"
      /\ proc'[p].run = proc[p].run /\ proc'[p].identity = proc[p].identity
      /\ proc'[p].prekey = proc[p].prekey
    BY <1>1, <1>2, StagedMoves, Zenon DEF Pcs
<1>6. ProcInv(p)'
    BY <1>1, <1>2, <1>3, <1>4, <1>5, Zenon
       DEF ProcInv, PcInv, LockInv, FirstInv, UsesInstalled, At, Migrating, Migrated, Signing
<1>7. DiskInv'
    BY <1>1, <1>2, <1>4, Zenon DEF DiskInv, SchemaWhole, DatabaseOpens
<1>8. FileInv'
    BY <1>1, <1>2, <1>3, <1>5, Zenon DEF FileInv, At, Moves
<1>9. \A q \in Procs \ {p} : proc[q].pc \notin {"set_version", "commit"}
    BY <1>4, Zenon DEF IInv, ProcInv, LockInv
<1> QED BY <1>1, <1>2, <1>3, <1>4, <1>5, <1>6, <1>7, <1>8, <1>9, Writes, Zenon DEF TypeOK

LEMMA SaveIdentityKeeps == ASSUME IInv, NEW p \in Procs, SaveIdentity(p) PROVE IInv'
<1>1. /\ At(p, "save_identity") /\ db' = [db EXCEPT !.identity = proc[p].run]
      /\ HasIdentity(p, proc[p].run) /\ UNCHANGED <<salt, bundle, lock, starts, raced, torn>>
    BY Zenon DEF SaveIdentity, WithIdentity
<1>2. proc \in [Procs -> ProcRec] /\ ProcInv(p) /\ DiskInv /\ TypeOK /\ FileInv
    BY Types, Zenon DEF IInv
<1>3. /\ proc[p].run \in Runs /\ db.key # None /\ db.tables
      /\ ~At(p, "write_salt") /\ ~At(p, "write_bundle")
      /\ ~raced => db.identity = None /\ \A q \in Procs \ {p} : ~Booting(q)
    BY <1>1, <1>2, MakesAlone, Zenon DEF ProcInv, PcInv, FirstInv, At, Booting, Ended, Making, Migrated
<1>4. /\ db' \in Database /\ db'.identity = proc[p].run /\ db'.tables = db.tables
      /\ db'.version = db.version /\ db'.key = db.key
    BY <1>1, <1>2, <1>3, Zenon DEF TypeOK, Database
<1>5. /\ Moves(p) /\ proc'[p].pc \in {"prekey", "up"} /\ proc'[p].identity = proc[p].run
      /\ proc'[p].run = proc[p].run /\ proc'[p].prekey = proc[p].prekey
    BY <1>1, <1>2, <1>3, IdentityMoves, Zenon
<1>6. ProcInv(p)'
    BY <1>1, <1>2, <1>3, <1>4, <1>5, Values, Zenon
       DEF ProcInv, PcInv, LockInv, FirstInv, UsesInstalled, At, Migrating, Migrated, Signing
<1>7. DiskInv'
  <2>1. Whole(bundle) => bundle.by # None
      BY <1>2, Values, Zenon DEF TypeOK, Whole, Prekeys
  <2>2. ~raced => ~Whole(bundle)
      BY <1>2, <1>3, <2>1, Zenon DEF DiskInv
  <2> QED BY <1>1, <1>2, <1>3, <1>4, <2>2, Zenon DEF DiskInv, SchemaWhole, DatabaseOpens
<1>8. FileInv'
    BY <1>1, <1>2, <1>3, <1>5, Zenon DEF FileInv, At, Moves
<1>9. \A q \in Procs \ {p} : proc[q].pc \notin {"set_version", "commit"}
    BY <1>3, Zenon DEF IInv, ProcInv, LockInv
<1> QED BY <1>1, <1>2, <1>3, <1>4, <1>5, <1>6, <1>7, <1>8, <1>9, Writes, Zenon DEF TypeOK

LEMMA CreateBundleKeeps == ASSUME IInv, NEW p \in Procs, CreateBundle(p) PROVE IInv'
<1>1. /\ At(p, "create_bundle") /\ bundle' = Short /\ Goto(p, "write_bundle")
      /\ UNCHANGED <<salt, db, lock, starts, raced, torn>>
    BY Zenon DEF CreateBundle
<1>2. proc \in [Procs -> ProcRec] /\ ProcInv(p) /\ DiskInv /\ TypeOK /\ FileInv
    BY Types, Zenon DEF IInv
<1>3. Moves(p) /\ proc'[p] = [proc[p] EXCEPT !.pc = "write_bundle"]
    BY <1>1, <1>2, GotoMoves, Zenon DEF Pcs
<1>4. /\ proc'[p].pc = "write_bundle" /\ proc'[p].run = proc[p].run
      /\ proc'[p].identity = proc[p].identity /\ proc'[p].prekey = proc[p].prekey
    BY <1>2, <1>3, Zenon DEF ProcRec
<1>5. Booting(p) /\ (~raced => ~Whole(bundle) /\ \A q \in Procs \ {p} : ~Booting(q))
    BY <1>1, <1>2, MakesAlone, Zenon DEF ProcInv, FirstInv, At, Booting, Ended, Making
<1>6. \A k \in Prekeys : Whole(k)
    BY Values, Zenon DEF Whole
<1>7. ~raced => proc[p].prekey = None
    BY <1>2, <1>5, <1>6, Zenon DEF ProcInv, UsesInstalled, ProcRec
<1>8. ~Whole(bundle')
    BY <1>1, Zenon DEF Whole
<1>9. ProcInv(p)'
    BY <1>1, <1>2, <1>4, <1>5, <1>7, <1>8, Zenon
       DEF ProcInv, PcInv, LockInv, FirstInv, UsesInstalled, At, Migrating, Migrated, Signing
<1>10. DiskInv'
    BY <1>1, <1>2, <1>8, Zenon DEF DiskInv, SchemaWhole, DatabaseOpens
<1>11. FileInv'
    BY <1>1, <1>2, <1>3, <1>4, Zenon DEF FileInv, At, Moves
<1> QED BY <1>1, <1>2, <1>3, <1>5, <1>9, <1>10, <1>11, Writes, Zenon DEF TypeOK

LEMMA WriteBundleKeeps == ASSUME IInv, NEW p \in Procs, WriteBundle(p) PROVE IInv'
<1> DEFINE k == Generate(p)
<1>1. /\ At(p, "write_bundle") /\ bundle' = k
      /\ proc' = [proc EXCEPT ![p].prekey = k, ![p].pc = "up"]
      /\ UNCHANGED <<salt, db, lock, starts, raced, torn>>
    BY Zenon DEF WriteBundle
<1>2. proc \in [Procs -> ProcRec] /\ ProcInv(p) /\ DiskInv /\ TypeOK /\ FileInv
    BY Types, Zenon DEF IInv
<1>3. /\ Booting(p) /\ proc[p].run \in Runs /\ db.key # None /\ db.tables
      /\ proc[p].identity \in Runs
      /\ ~raced => ~Whole(bundle) /\ \A q \in Procs \ {p} : ~Booting(q)
    BY <1>1, <1>2, MakesAlone, Zenon
       DEF ProcInv, PcInv, FirstInv, At, Booting, Ended, Making, Migrated, Signing, ProcRec
<1>4. k \in Prekeys /\ k.by = proc[p].identity
    BY <1>3, Zenon DEF Generate, Prekeys
<1> HIDE DEF k
<1>5. /\ Moves(p) /\ proc'[p].pc = "up" /\ proc'[p].prekey = k
      /\ proc'[p].run = proc[p].run /\ proc'[p].identity = proc[p].identity
    BY <1>1, <1>2, <1>4, PrekeyMoves, Zenon
<1>6. ProcInv(p)'
    BY <1>1, <1>2, <1>3, <1>5, Zenon
       DEF ProcInv, PcInv, LockInv, FirstInv, UsesInstalled, At, Booting, Ended, Migrating, Migrated,
           Signing
<1>7. ~raced => proc[p].identity = db.identity
    BY <1>2, <1>3, Values, Zenon DEF ProcInv, UsesInstalled
<1>8. DiskInv'
    BY <1>1, <1>2, <1>4, <1>7, Zenon DEF DiskInv, SchemaWhole, DatabaseOpens
<1>9. FileInv'
    BY <1>1, <1>2, <1>4, <1>5, Values, Zenon DEF FileInv, At, Moves
<1> QED BY <1>1, <1>2, <1>3, <1>4, <1>5, <1>6, <1>8, <1>9, Writes, Zenon DEF TypeOK

-----------------------------------------------------------------------------
(* Starts and kills *)

LEMMA StartKeeps == ASSUME IInv, NEW p \in Procs, Start(p) PROVE IInv'
<1>1. /\ Ended(p) /\ starts < MaxStarts /\ starts' = starts + 1
      /\ proc' = [proc EXCEPT ![p] = Fresh("salt", starts + 1)]
      /\ raced' = (raced \/ (~Installed /\ \E q \in Procs : Booting(q)))
      /\ UNCHANGED <<salt, db, bundle, lock, torn>>
    BY Zenon DEF Start
<1>2. /\ proc \in [Procs -> ProcRec] /\ DiskInv /\ TypeOK /\ FileInv /\ AloneInv
      /\ \A q \in Procs : ProcInv(q)
    BY Types, Zenon DEF IInv
<1>3. starts + 1 \in Runs /\ starts + 1 \in 0..MaxStarts
    BY <1>1, <1>2, BoundsAssumption DEF TypeOK, Runs
<1>4. Fresh("salt", starts + 1) \in ProcRec
    BY <1>3, FreshType, Zenon DEF Pcs
<1>5. Moves(p) /\ proc'[p] = Fresh("salt", starts + 1)
    BY <1>1, <1>2, <1>4, ProcMoves, Zenon
<1>6. /\ proc'[p].pc = "salt" /\ proc'[p].run = starts + 1
      /\ proc'[p].identity = None /\ proc'[p].prekey = None
    BY <1>5 DEF Fresh
<1>7. raced' \in BOOLEAN /\ (~raced' => ~raced)
    BY <1>1, <1>2, Zenon DEF TypeOK
<1>8. TypeOK'
    BY <1>1, <1>2, <1>3, <1>5, <1>7, Zenon DEF TypeOK, Moves, ProcRec
<1>9. DiskInv'
    BY <1>1, <1>2, <1>7, Zenon DEF DiskInv, SchemaWhole, DatabaseOpens
<1>10. FileInv'
    BY <1>1, <1>2, <1>5, <1>7, Zenon DEF FileInv, At, Moves, Ended
<1>11. ASSUME NEW q \in Procs PROVE ProcInv(q)'
  <2>1. CASE q = p
      BY <2>1, <1>3, <1>6, Zenon
         DEF ProcInv, PcInv, LockInv, FirstInv, UsesInstalled, At, Migrating, Migrated, Signing
  <2>2. CASE q # p
    <3>1. proc'[q] = proc[q] /\ ProcInv(q)
        BY <2>2, <1>2, <1>5, Zenon DEF Moves
    <3>2. PcInv(q)' /\ LockInv(q)'
        BY <1>1, <3>1, Zenon DEF ProcInv, PcInv, LockInv, At, Booting, Ended
    <3>3. ~raced' => FirstInv(q)' /\ UsesInstalled(q)'
        BY <1>1, <1>7, <3>1, Zenon DEF ProcInv, FirstInv, UsesInstalled, At
    <3>4. At(q, "failed")' => torn' \/ raced'
        BY <1>1, <1>7, <3>1, Zenon DEF ProcInv, At
    <3> QED BY <3>2, <3>3, <3>4, Zenon DEF ProcInv
  <2> QED BY <2>1, <2>2, Zenon
<1>12. AloneInv'
  <2> SUFFICES ASSUME ~raced', NEW q \in Procs, NEW r \in Procs, q # r, Booting(q)', Booting(r)'
               PROVE  Installed
      BY <1>1, Zenon DEF AloneInv, Installed
  <2>1. Booting(q) \/ Booting(r)
      BY <1>5, Zenon DEF Moves, Booting, Ended, At
  <2> QED BY <1>1, <2>1, Zenon
<1> QED BY <1>8, <1>9, <1>10, <1>11, <1>12, Zenon DEF IInv

LEMMA KillKeeps == ASSUME IInv, NEW p \in Procs, Kill(p) PROVE IInv'
<1>1. /\ proc' = [proc EXCEPT ![p] = Fresh("off", 0)]
      /\ lock' = IF lock = p THEN None ELSE lock
      /\ torn' = (torn \/ proc[p].pc \in {"write_salt", "write_bundle"})
      /\ UNCHANGED <<salt, db, bundle, starts, raced>>
    BY Zenon DEF Kill, Off
<1>2. /\ proc \in [Procs -> ProcRec] /\ DiskInv /\ TypeOK /\ FileInv /\ AloneInv
      /\ \A q \in Procs : ProcInv(q)
    BY Types, Zenon DEF IInv
<1>3. 0 \in 0..MaxStarts
    BY BoundsAssumption
<1>4. Fresh("off", 0) \in ProcRec
    BY <1>3, FreshType, Zenon DEF Pcs
<1>5. Moves(p) /\ proc'[p] = Fresh("off", 0)
    BY <1>1, <1>2, <1>4, ProcMoves, Zenon
<1>6. proc'[p].pc = "off" /\ proc'[p].identity = None /\ proc'[p].prekey = None
    BY <1>5 DEF Fresh
<1>7. torn' \in BOOLEAN /\ (~torn' => ~torn /\ proc[p].pc \notin {"write_salt", "write_bundle"})
    BY <1>1, <1>2, Zenon DEF TypeOK
<1>8. TypeOK'
    BY <1>1, <1>2, <1>5, <1>7, Zenon DEF TypeOK, Moves, ProcRec
<1>9. DiskInv'
    BY <1>1, <1>2, Zenon DEF DiskInv, SchemaWhole, DatabaseOpens
<1>10. FileInv'
    BY <1>1, <1>2, <1>5, <1>7, Zenon DEF FileInv, At, Moves
<1>11. ASSUME NEW q \in Procs PROVE ProcInv(q)'
  <2>1. CASE q = p
      BY <2>1, <1>6, Zenon
         DEF ProcInv, PcInv, LockInv, FirstInv, UsesInstalled, At, Booting, Ended, Migrating, Migrated,
             Signing
  <2>2. CASE q # p
    <3>1. proc'[q] = proc[q] /\ ProcInv(q)
        BY <2>2, <1>2, <1>5, Zenon DEF Moves
    <3>2. PcInv(q)' /\ LockInv(q)'
        BY <2>2, <1>1, <3>1, Zenon DEF ProcInv, PcInv, LockInv, At, Booting, Ended
    <3>3. ~raced' => FirstInv(q)' /\ UsesInstalled(q)'
        BY <1>1, <3>1, Zenon DEF ProcInv, FirstInv, UsesInstalled, At
    <3>4. At(q, "failed")' => torn' \/ raced'
        BY <1>1, <1>7, <3>1, Zenon DEF ProcInv, At
    <3> QED BY <3>2, <3>3, <3>4, Zenon DEF ProcInv
  <2> QED BY <2>1, <2>2, Zenon
<1>12. AloneInv'
    BY <1>1, <1>2, <1>5, <1>6, Zenon DEF AloneInv, Installed, Moves, Booting, Ended, At
<1> QED BY <1>8, <1>9, <1>10, <1>11, <1>12, Zenon DEF IInv

-----------------------------------------------------------------------------
LEMMA InitInv == Init => IInv
<1> SUFFICES ASSUME Init PROVE IInv
    BY Zenon
<1>1. 0 \in 0..MaxStarts
    BY BoundsAssumption
<1>2. Fresh("off", 0) \in ProcRec
    BY <1>1, FreshType, Zenon DEF Pcs
<1>3. \A p \in Procs : proc[p] = Fresh("off", 0)
    BY Zenon DEF Init, Off
<1>4. TypeOK
  <2>1. proc \in [Procs -> ProcRec]
      BY <1>2, Zenon DEF Init, Off
  <2>2. db \in Database
      BY DEF Init, Database
  <2> QED BY <1>1, <2>1, <2>2, Zenon DEF Init, TypeOK, ProcRec
<1>5. DiskInv /\ FileInv
    BY Values DEF Init, DiskInv, FileInv, SchemaWhole, DatabaseOpens, Whole
<1>6. ASSUME NEW p \in Procs PROVE ProcInv(p) /\ ~Booting(p)
  <2>1. proc[p].pc = "off" /\ proc[p].identity = None /\ proc[p].prekey = None
      BY <1>3 DEF Fresh
  <2> QED
    BY <2>1, Zenon DEF ProcInv, PcInv, LockInv, FirstInv, UsesInstalled, At, Booting, Ended,
                Migrating, Migrated, Signing
<1> QED BY <1>4, <1>5, <1>6, Zenon DEF IInv, AloneInv

LEMMA StutterKeeps == ASSUME IInv, UNCHANGED vars PROVE IInv'
<1>1. TypeOK' /\ DiskInv' /\ AloneInv' /\ FileInv'
    BY DEF IInv, vars, TypeOK, DiskInv, SchemaWhole, DatabaseOpens, AloneInv, Installed, FileInv,
           Booting, Ended, At
<1>2. ASSUME NEW p \in Procs PROVE ProcInv(p)'
    BY Zenon DEF IInv, vars, ProcInv, PcInv, LockInv, FirstInv, UsesInstalled, Booting, Ended, At
<1> QED BY <1>1, <1>2, Zenon DEF IInv

LEMMA Invariant == Spec => []IInv
<1>1. IInv /\ [Next]_vars => IInv'
  <2> SUFFICES ASSUME IInv, [Next]_vars PROVE IInv'
      BY Zenon
  <2>1. CASE UNCHANGED vars
      BY <2>1, StutterKeeps, Zenon
  <2>2. CASE Next
    <3>1. PICK p \in Procs :
              \/ Start(p) \/ Kill(p)
              \/ CheckSalt(p) \/ ReadSalt(p) \/ CreateSalt(p) \/ WriteSalt(p)
              \/ Open(p) \/ ReadVersion(p) \/ Migrate(p) \/ SetVersion(p) \/ Commit(p)
              \/ LoadIdentity(p) \/ SaveIdentity(p)
              \/ LoadPrekey(p) \/ CreateBundle(p) \/ WriteBundle(p)
        BY <2>2, Zenon DEF Next
    <3>2. CASE Start(p) \/ Kill(p)
        BY <3>2, StartKeeps, KillKeeps, Zenon
    <3>3. CASE CheckSalt(p) \/ ReadSalt(p) \/ CreateSalt(p) \/ WriteSalt(p)
        BY <3>3, CheckSaltKeeps, ReadSaltKeeps, CreateSaltKeeps, WriteSaltKeeps, Zenon
    <3>4. CASE Open(p) \/ ReadVersion(p) \/ Migrate(p) \/ SetVersion(p) \/ Commit(p)
        BY <3>4, OpenKeeps, ReadVersionKeeps, MigrateKeeps, SetVersionKeeps, CommitKeeps, Zenon
    <3>5. CASE LoadIdentity(p) \/ SaveIdentity(p)
        BY <3>5, LoadIdentityKeeps, SaveIdentityKeeps, Zenon
    <3>6. CASE LoadPrekey(p) \/ CreateBundle(p) \/ WriteBundle(p)
        BY <3>6, LoadPrekeyKeeps, CreateBundleKeeps, WriteBundleKeeps, Zenon
    <3> QED BY <3>1, <3>2, <3>3, <3>4, <3>5, <3>6, Zenon
  <2> QED BY <2>1, <2>2, Zenon
<1> QED BY <1>1, InitInv, PTL DEF Spec

-----------------------------------------------------------------------------
(* The theorems *)

\* The types of the files, the database and the processes (NodeStore::open).
THEOREM BootTypes == Spec => []TypeOK
<1>1. IInv => TypeOK
    BY Zenon DEF IInv
<1> QED BY <1>1, Invariant, PTL

\* run_migrations leaves tables and version in step, for any number of
\* processes that open the database and are killed.
THEOREM SchemaAlwaysWhole == Spec => []SchemaWhole
<1>1. IInv => SchemaWhole
    BY Zenon DEF IInv, DiskInv
<1> QED BY <1>1, Invariant, PTL

\* db_key: no kill leaves a database under a salt that is not on disk.
THEOREM SaltFitsDatabase == Spec => []DatabaseOpens
<1>1. IInv => DatabaseOpens
    BY Zenon DEF IInv, DiskInv
<1> QED BY <1>1, Invariant, PTL

\* load_or_create_identity and prekey: all processes use the saved identity
\* and the saved prekey.
THEOREM OneInstallation == Spec => []OneIdentity
<1>1. IInv => OneIdentity
    BY Zenon DEF IInv, DiskInv, ProcInv, UsesInstalled, OneIdentity
<1> QED BY <1>1, Invariant, PTL

\* db_key, run_migrations, prekey: only a file cut short, or first starts that
\* met, make a start fail for good.
THEOREM StartsRecover == Spec => []BootRecovers
<1>1. IInv => BootRecovers
    BY Zenon DEF IInv, ProcInv, BootRecovers
<1> QED BY <1>1, Invariant, PTL

\* A step that replaces the identity row or the bundle finds none.
LEMMA KeepsInstalled ==
    ASSUME IInv, [Next]_vars, ~raced'
    PROVE  /\ db.identity # None => db'.identity = db.identity
           /\ Whole(bundle) => bundle' = bundle
<1>1. CASE UNCHANGED vars
    BY <1>1, Zenon DEF vars
<1>2. CASE Next
  <2>1. PICK p \in Procs :
            \/ Start(p) \/ Kill(p)
            \/ CheckSalt(p) \/ ReadSalt(p) \/ CreateSalt(p) \/ WriteSalt(p)
            \/ Open(p) \/ ReadVersion(p) \/ Migrate(p) \/ SetVersion(p) \/ Commit(p)
            \/ LoadIdentity(p) \/ SaveIdentity(p)
            \/ LoadPrekey(p) \/ CreateBundle(p) \/ WriteBundle(p)
      BY <1>2, Zenon DEF Next
  <2>2. ProcInv(p) /\ db \in Database
      BY Zenon DEF IInv, TypeOK
  <2>3. CASE Open(p)
    <3>1. bundle' = bundle /\ (db' = Opened(proc[p].key) \/ db' = db)
        BY <2>3, Zenon DEF Open
    <3> QED BY <2>2, <3>1, Zenon DEF Opened, Database
  <2>4. CASE Commit(p)
      BY <2>2, <2>4, Zenon DEF Commit, ProcInv, LockInv, At
  <2>5. CASE SaveIdentity(p) \/ CreateBundle(p) \/ WriteBundle(p)
    <3>1. ~raced
        BY <2>5, Zenon DEF SaveIdentity, CreateBundle, WriteBundle
    <3>2. CASE SaveIdentity(p)
        BY <2>2, <3>1, <3>2, Zenon DEF SaveIdentity, ProcInv, FirstInv, At
    <3>3. CASE CreateBundle(p) \/ WriteBundle(p)
        BY <2>2, <3>1, <3>3, Zenon DEF CreateBundle, WriteBundle, ProcInv, FirstInv, At
    <3> QED BY <2>5, <3>2, <3>3, Zenon
  <2>6. CASE \/ Start(p) \/ Kill(p) \/ CheckSalt(p) \/ ReadSalt(p) \/ CreateSalt(p) \/ WriteSalt(p)
             \/ ReadVersion(p) \/ Migrate(p) \/ SetVersion(p) \/ LoadIdentity(p) \/ LoadPrekey(p)
    <3>1. UNCHANGED <<db, bundle>>
        BY <2>6, Zenon DEF Start, Kill, CheckSalt, ReadSalt, CreateSalt, WriteSalt, ReadVersion, Migrate,
                    SetVersion, LoadIdentity, LoadPrekey
    <3> QED BY <3>1, Zenon
  <2> QED BY <2>1, <2>3, <2>4, <2>5, <2>6, Zenon
<1> QED BY <1>1, <1>2, Zenon

\* load_or_create_identity and prekey never replace what an earlier start has
\* saved.
THEOREM InstallationKept == Spec => InstallKept
<1>1. IInv /\ [Next]_vars
      => [~raced' => /\ db.identity # None => db'.identity = db.identity
                     /\ Whole(bundle) => bundle' = bundle]_vars
    BY KeepsInstalled, Zenon
<1> QED BY <1>1, Invariant, PTL DEF Spec, InstallKept

-----------------------------------------------------------------------------
(* THE SENDER KEYS OF A GROUP *)

\* A key that was not created yet has no history.
Unused ==
    \A k \in KeyNames : k > created => published[k] = <<>> /\ displayed[k] = <<>>

\* The sender stands behind the last text it published.
SenderPos ==
    sender # Nothing =>
        /\ sender.chain_key.name <= created
        /\ sender.chain_key.steps = Len(published[sender.chain_key.name])

\* The reader stands behind the last text it was shown.
ReceiverPos ==
    receiver # Nothing =>
        /\ receiver.chain_key.name <= created
        /\ receiver.chain_key.steps = Len(displayed[receiver.chain_key.name])

\* A key on its way was not used by the reader.
DirectFresh ==
    \A d \in direct :
        /\ d.chain_key.name <= created
        /\ d = NewSenderKeys(d.chain_key.name)
        /\ displayed[d.chain_key.name] = <<>>
        /\ receiver # Nothing => receiver.chain_key.name # d.chain_key.name

\* A message on its way holds the text published at its position.
GossipGenuine ==
    \A m \in gossip :
        LET ck == m.ciphertext.chain_key
        IN  /\ ck.steps < Len(published[ck.name])
            /\ m.ciphertext.text = published[ck.name][ck.steps + 1]

GroupInv ==
    /\ GroupTypeOK /\ ShownIsPrefix
    /\ Unused /\ SenderPos /\ ReceiverPos /\ DirectFresh /\ GossipGenuine

-----------------------------------------------------------------------------
\* New keys and advanced keys are sender keys (SenderKeys::new, advance).
LEMMA KeysTyped ==
    /\ \A name \in KeyNames : NewSenderKeys(name) \in SenderKeys
    /\ \A keys \in SenderKeys : Advanced(keys) \in SenderKeys
  BY DEF NewSenderKeys, Advanced, SenderKeys, ChainKeys

\* The first state has no keys, messages or texts.
LEMMA GroupInitEstablishes == GroupInit => GroupInv
  BY MaxSenderKeysAssumption
  DEF GroupInit, GroupInv, GroupTypeOK, ShownIsPrefix, Unused, SenderPos, ReceiverPos, DirectFresh,
      GossipGenuine, KeyNames

\* create_sender keeps the invariant: the new key has no history.
LEMMA CreateSenderPreserves == GroupInv /\ CreateSender => GroupInv'
<1> SUFFICES ASSUME GroupInv, CreateSender PROVE GroupInv'
  BY Zenon
<1> DEFINE new == NewSenderKeys(created + 1)
<1>1. created + 1 \in KeyNames /\ created' = created + 1
  BY MaxSenderKeysAssumption DEF GroupInv, GroupTypeOK, CreateSender, KeyNames
<1>2. new \in SenderKeys /\ new.chain_key.name = created + 1 /\ new.chain_key.steps = 0
  BY <1>1, KeysTyped, Zenon DEF NewSenderKeys
<1>3. GroupTypeOK'
  BY <1>1, <1>2 DEF GroupInv, GroupTypeOK, CreateSender, KeyNames
<1>4. ShownIsPrefix' /\ Unused' /\ GossipGenuine'
  BY <1>1 DEF GroupInv, GroupTypeOK, CreateSender, ShownIsPrefix, Unused, GossipGenuine, KeyNames
<1>5. SenderPos'
  BY <1>1, <1>2 DEF GroupInv, GroupTypeOK, CreateSender, SenderPos, Unused, KeyNames
<1>6. ReceiverPos'
  BY <1>1 DEF GroupInv, GroupTypeOK, CreateSender, ReceiverPos, SenderKeys, ChainKeys, KeyNames
<1>7. DirectFresh'
  <2> SUFFICES ASSUME NEW d \in direct'
               PROVE  /\ d.chain_key.name <= created'
                      /\ d = NewSenderKeys(d.chain_key.name)
                      /\ displayed'[d.chain_key.name] = <<>>
                      /\ receiver' # Nothing => receiver'.chain_key.name # d.chain_key.name
    BY Zenon DEF DirectFresh
  <2>1. CASE d \in direct
    BY <2>1, <1>1 DEF GroupInv, GroupTypeOK, CreateSender, DirectFresh, SenderKeys, ChainKeys, KeyNames
  <2>2. CASE d = new
    BY <2>2, <1>1, <1>2
    DEF GroupInv, GroupTypeOK, CreateSender, Unused, ReceiverPos, SenderKeys, ChainKeys, KeyNames
  <2> QED BY <2>1, <2>2, Zenon DEF CreateSender
<1> QED BY <1>3, <1>4, <1>5, <1>6, <1>7, Zenon DEF GroupInv

\* apply_group_key keeps the invariant: the key was not used before.
LEMMA ApplyGroupKeyPreserves ==
    ASSUME GroupInv, NEW d \in direct, ApplyGroupKey(d) PROVE GroupInv'
<1>1. GroupTypeOK' /\ ShownIsPrefix' /\ Unused' /\ SenderPos' /\ GossipGenuine'
  BY Zenon DEF GroupInv, GroupTypeOK, ApplyGroupKey, ShownIsPrefix, Unused, SenderPos, GossipGenuine
<1>2. ReceiverPos'
  BY DEF GroupInv, GroupTypeOK, ApplyGroupKey, ReceiverPos, DirectFresh, NewSenderKeys
<1>3. DirectFresh'
  <2>1. \A e \in direct \ {d} : e.chain_key.name # d.chain_key.name
    BY Zenon DEF GroupInv, DirectFresh
  <2> QED BY <2>1, Zenon DEF GroupInv, GroupTypeOK, ApplyGroupKey, DirectFresh
<1> QED BY <1>1, <1>2, <1>3, Zenon DEF GroupInv

\* publish keeps the invariant: the message holds the text that was appended
\* at the sender's position, and every older position keeps its text.
LEMMA PublishPreserves ==
    ASSUME GroupInv, NEW text \in Texts, NEW taken \in BOOLEAN, Publish(text, taken)
    PROVE  GroupInv'
<1> DEFINE k == sender.chain_key.name
           new == [message_index |-> Advanced(sender).message_index - 1,
                   ciphertext    |-> SealWith(sender, text)]
<1>1. /\ sender \in SenderKeys /\ sender' = Advanced(sender) /\ sender' \in SenderKeys
      /\ k \in KeyNames /\ k \in Nat /\ created \in Nat
  BY KeysTyped, MaxSenderKeysAssumption
  DEF GroupInv, GroupTypeOK, Publish, SenderReady, SenderKeys, ChainKeys, KeyNames
<1>2. /\ published[k] \in Seq(Texts) /\ published'[k] = Append(published[k], text)
      /\ \A j \in KeyNames \ {k} : published'[j] = published[j]
      /\ published' \in [KeyNames -> Seq(Texts)]
  BY <1>1 DEF GroupInv, GroupTypeOK, Publish
<1>3. /\ Len(published'[k]) = Len(published[k]) + 1
      /\ \A i \in 1..Len(published[k]) : published'[k][i] = published[k][i]
      /\ published'[k][Len(published[k]) + 1] = text
      /\ Len(published[k]) \in Nat
  BY <1>2
<1>4. /\ Advanced(sender).chain_key.name = k
      /\ Advanced(sender).chain_key.steps = sender.chain_key.steps + 1
      /\ Advanced(sender).message_index - 1 \in Nat
  BY <1>1 DEF Advanced, SenderKeys
<1>5. /\ new \in Messages /\ new.ciphertext.chain_key = sender.chain_key
      /\ new.ciphertext.text = text
  BY <1>1, <1>4, Zenon DEF Messages, SealWith, SenderKeys
<1>6. gossip' \subseteq gossip \union {new}
  BY Zenon DEF Publish
<1> HIDE DEF k, new
<1>7. GroupTypeOK'
  BY <1>1, <1>2, <1>5, <1>6, Zenon DEF GroupInv, GroupTypeOK, Publish
<1>8. ShownIsPrefix'
  <2> SUFFICES ASSUME NEW j \in KeyNames
               PROVE  /\ Len(displayed[j]) <= Len(published'[j])
                      /\ \A i \in 1..Len(displayed[j]) : displayed[j][i] = published'[j][i]
    BY Zenon DEF ShownIsPrefix, Publish
  <2>1. /\ Len(displayed[j]) \in Nat /\ Len(displayed[j]) <= Len(published[j])
        /\ \A i \in 1..Len(displayed[j]) : displayed[j][i] = published[j][i]
    BY DEF GroupInv, GroupTypeOK, ShownIsPrefix
  <2>2. CASE j = k
    BY <2>1, <2>2, <1>3
  <2>3. CASE j # k
    BY <2>1, <2>3, <1>2, Zenon
  <2> QED BY <2>2, <2>3, Zenon
<1>9. Unused'
  <2>1. k <= created
    BY Zenon DEF GroupInv, SenderPos, Publish, SenderReady, k
  <2> QED BY <2>1, <1>1, <1>2 DEF GroupInv, Unused, Publish, KeyNames
<1>10. SenderPos'
  BY <1>1, <1>3, <1>4, Zenon DEF GroupInv, SenderPos, Publish, SenderReady, k
<1>11. ReceiverPos' /\ DirectFresh'
  BY Zenon DEF GroupInv, ReceiverPos, DirectFresh, Publish
<1>12. GossipGenuine'
  <2> SUFFICES ASSUME NEW m \in gossip'
               PROVE  LET ck == m.ciphertext.chain_key
                      IN  /\ ck.steps < Len(published'[ck.name])
                          /\ m.ciphertext.text = published'[ck.name][ck.steps + 1]
    BY Zenon DEF GossipGenuine
  <2>1. CASE m = new
    BY <2>1, <1>1, <1>3, <1>5 DEF GroupInv, SenderPos, Publish, SenderReady, k, SenderKeys, ChainKeys
  <2>2. CASE m \in gossip
    <3> DEFINE ck == m.ciphertext.chain_key
    <3>1. /\ ck \in ChainKeys /\ ck.steps < Len(published[ck.name])
          /\ m.ciphertext.text = published[ck.name][ck.steps + 1]
      BY <2>2, Zenon DEF GroupInv, GroupTypeOK, Messages, GossipGenuine
    <3>2. ck.name \in KeyNames /\ ck.steps \in Nat
      BY <3>1, Zenon DEF ChainKeys
    <3> HIDE DEF ck
    <3>3. CASE ck.name = k
      <4>1. /\ ck.steps < Len(published'[ck.name])
            /\ m.ciphertext.text = published'[ck.name][ck.steps + 1]
        BY <3>1, <3>2, <3>3, <1>3
      <4> QED BY <4>1, Zenon DEF ck
    <3>4. CASE ck.name # k
      BY <3>1, <3>2, <3>4, <1>2, Zenon DEF ck
    <3> QED BY <3>3, <3>4, Zenon
  <2> QED BY <2>1, <2>2, <1>6, Zenon
<1> QED BY <1>7, <1>8, <1>9, <1>10, <1>11, <1>12, Zenon DEF GroupInv

\* Handling a group message keeps the invariant: it opens only at the
\* reader's position, which is where the next text to show was published.
LEMMA OnGossipPreserves ==
    ASSUME GroupInv, NEW m \in gossip, OnGossip(m) PROVE GroupInv'
<1>1. CASE ~Decrypts(m)
  BY <1>1
  DEF GroupInv, GroupTypeOK, OnGossip, ShownIsPrefix, Unused, SenderPos, ReceiverPos, DirectFresh,
      GossipGenuine
<1>2. CASE Decrypts(m)
  <2> DEFINE k == receiver.chain_key.name
             text == m.ciphertext.text
  <2>1. /\ receiver \in SenderKeys /\ receiver' = Advanced(receiver)
        /\ receiver' \in SenderKeys
        /\ k \in KeyNames /\ k \in Nat /\ created \in Nat
    BY <1>2, KeysTyped, MaxSenderKeysAssumption
    DEF GroupInv, GroupTypeOK, OnGossip, Decrypts, SenderKeys, ChainKeys, KeyNames
  <2>2. /\ text \in Texts
        /\ Len(displayed[k]) < Len(published[k])
        /\ text = published[k][Len(displayed[k]) + 1]
    BY <1>2, Zenon DEF GroupInv, GroupTypeOK, Messages, GossipGenuine, ReceiverPos, Decrypts, OpensWith
  <2>a. displayed' = [displayed EXCEPT ![k] = Append(@, text)]
    BY <1>2, Zenon DEF OnGossip
  <2>b. displayed \in [KeyNames -> Seq(Texts)]
    BY Zenon DEF GroupInv, GroupTypeOK
  <2> HIDE DEF k, text
  <2>3. /\ displayed[k] \in Seq(Texts) /\ displayed'[k] = Append(displayed[k], text)
        /\ \A j \in KeyNames \ {k} : displayed'[j] = displayed[j]
        /\ displayed' \in [KeyNames -> Seq(Texts)]
    BY <2>1, <2>2, <2>a, <2>b
  <2>4. /\ Len(displayed'[k]) = Len(displayed[k]) + 1
        /\ \A i \in 1..Len(displayed[k]) : displayed'[k][i] = displayed[k][i]
        /\ displayed'[k][Len(displayed[k]) + 1] = text
        /\ Len(displayed[k]) \in Nat
    BY <2>3
  <2>5. /\ Advanced(receiver).chain_key.name = k
        /\ Advanced(receiver).chain_key.steps = receiver.chain_key.steps + 1
    BY Zenon DEF Advanced, k
  <2>6. GroupTypeOK'
    BY <2>1, <2>3, Zenon DEF GroupInv, GroupTypeOK, OnGossip
  <2>7. ShownIsPrefix'
    <3> SUFFICES ASSUME NEW j \in KeyNames
                 PROVE  /\ Len(displayed'[j]) <= Len(published[j])
                        /\ \A i \in 1..Len(displayed'[j]) : displayed'[j][i] = published[j][i]
      BY Zenon DEF ShownIsPrefix, OnGossip
    <3>1. /\ Len(displayed[j]) \in Nat /\ Len(published[j]) \in Nat
          /\ Len(displayed[j]) <= Len(published[j])
          /\ \A i \in 1..Len(displayed[j]) : displayed[j][i] = published[j][i]
      BY DEF GroupInv, GroupTypeOK, ShownIsPrefix
    <3>2. CASE j = k
      BY <3>1, <3>2, <2>2, <2>4
    <3>3. CASE j # k
      BY <3>1, <3>3, <2>3, Zenon
    <3> QED BY <3>2, <3>3, Zenon
  <2>8. k <= created
    BY <1>2, Zenon DEF GroupInv, ReceiverPos, Decrypts, k
  <2>9. Unused'
    BY <2>1, <2>3, <2>8 DEF GroupInv, Unused, OnGossip, KeyNames
  <2>10. ReceiverPos'
    BY <1>2, <2>1, <2>4, <2>5, <2>8, Zenon DEF GroupInv, ReceiverPos, OnGossip, Decrypts, k
  <2>11. DirectFresh'
    <3>1. \A d \in direct : d.chain_key.name \in KeyNames \ {k}
      BY <1>2, Zenon DEF GroupInv, GroupTypeOK, DirectFresh, Decrypts, SenderKeys, ChainKeys, k
    <3> QED BY <3>1, <2>1, <2>3, <2>5, Zenon DEF GroupInv, DirectFresh, OnGossip
  <2>12. SenderPos' /\ GossipGenuine'
    BY Zenon DEF GroupInv, SenderPos, GossipGenuine, OnGossip
  <2> QED BY <2>6, <2>7, <2>9, <2>10, <2>11, <2>12, Zenon DEF GroupInv
<1> QED BY <1>1, <1>2, Zenon

\* Losing messages, losing keys in memory and restarting keep the invariant.
LEMMA LossPreserves ==
    ASSUME GroupInv,
           \/ \E m \in gossip : LoseGossip(m)
           \/ \E d \in direct : LoseDirect(d)
           \/ RestartPublisher
           \/ RestartReader
           \/ UNCHANGED groupVars
    PROVE  GroupInv'
<1> USE DEF GroupInv, GroupTypeOK, ShownIsPrefix, Unused, SenderPos, ReceiverPos, DirectFresh,
            GossipGenuine
<1>1. CASE \E m \in gossip : LoseGossip(m)
  <2>1. /\ gossip' \subseteq gossip
        /\ UNCHANGED <<sender, receiver, direct, created, published, displayed>>
    BY <1>1, Zenon DEF LoseGossip
  <2> QED BY <2>1, Zenon
<1>2. CASE \E d \in direct : LoseDirect(d)
  <2>1. /\ direct' \subseteq direct
        /\ UNCHANGED <<sender, receiver, gossip, created, published, displayed>>
    BY <1>2, Zenon DEF LoseDirect
  <2> QED BY <2>1, Zenon
<1>3. CASE RestartPublisher
  BY <1>3, Zenon DEF RestartPublisher
<1>4. CASE RestartReader
  BY <1>4, Zenon DEF RestartReader
<1>5. CASE UNCHANGED groupVars
  BY <1>5, Zenon DEF groupVars
<1> QED BY <1>1, <1>2, <1>3, <1>4, <1>5, Zenon

\* Every step of the group chat keeps the invariant.
LEMMA StepPreserves == GroupInv /\ [GroupNext]_groupVars => GroupInv'
<1> SUFFICES ASSUME GroupInv, [GroupNext]_groupVars PROVE GroupInv'
  BY Zenon
<1>1. CASE CreateSender
  BY <1>1, CreateSenderPreserves, Zenon
<1>2. CASE \E d \in direct : ApplyGroupKey(d)
  BY <1>2, ApplyGroupKeyPreserves, Zenon
<1>3. CASE \E text \in Texts, taken \in BOOLEAN : Publish(text, taken)
  BY <1>3, PublishPreserves, Zenon
<1>4. CASE \E m \in gossip : OnGossip(m)
  BY <1>4, OnGossipPreserves, Zenon
<1> QED BY <1>1, <1>2, <1>3, <1>4, LossPreserves, Zenon DEF GroupNext

\* The state of the group chat keeps its type (group.rs, keys.rs).
THEOREM GroupTypes == GroupSpec => []GroupTypeOK
<1>1. GroupInv => GroupTypeOK
  BY Zenon DEF GroupInv
<1> QED BY <1>1, GroupInitEstablishes, StepPreserves, PTL DEF GroupSpec

\* However gossip loses, delays and reorders messages, and whichever side
\* restarts, what GroupChat::decrypt lets a reader see under a sender key is
\* a prefix of what GroupChat::publish encrypted under it.
THEOREM GroupShowsPrefix == GroupSpec => []ShownIsPrefix
<1>1. GroupInv => ShownIsPrefix
  BY Zenon DEF GroupInv
<1> QED BY <1>1, GroupInitEstablishes, StepPreserves, PTL DEF GroupSpec

-----------------------------------------------------------------------------
(* DOCUMENTS *)

\* What a state holds of every client has no gap.
NoGaps(s) == \A c \in Clients : \E n \in 0..MaxEdits : Clocks(s, c) = 0..(n - 1)

\* The edits of a state, given the clients u in use and w texts written.
Sound(s, u, w) ==
    /\ s \subseteq Edits
    /\ \A e \in s : e.client \in u /\ e.clock < e.text /\ e.text <= w
    /\ NoGaps(s)

\* No client makes two edits of one clock.
SameName(s, t) ==
    \A e \in s, f \in t : e.client = f.client /\ e.clock = f.clock => e = f

DocumentsTypes ==
    /\ replica \in [Openers -> Docs \cup {None}]
    /\ docs \in [Databases -> [edits : SUBSET Edits] \cup {None}]
    /\ blobs \subseteq SUBSET Edits
    /\ written \in 0..MaxEdits
    /\ used \subseteq Clients
    /\ shared \subseteq Databases

StatesInv ==
    /\ \A s \in States : Sound(s, used, written)
    /\ \A s, t \in States : SameName(s, t)

\* A Doc's own edits are in it, wherever else they are.
OwnInv ==
    /\ \A p \in Openers : IsOpen(p) =>
           /\ replica[p].client \in used
           /\ \A s \in States : \A e \in s :
                  e.client = replica[p].client => e \in replica[p].edits
    /\ \A p, q \in Openers :
           IsOpen(p) /\ IsOpen(q) /\ replica[p].client = replica[q].client => p = q

\* Unless the document was shared, its one replica has what is stored.
HomeInv ==
    \A p \in Openers : IsOpen(p) /\ Home[p] \notin shared =>
        /\ docs[Home[p]] # None => docs[Home[p]].edits \subseteq replica[p].edits
        /\ \A q \in Openers : IsOpen(q) /\ Home[q] = Home[p] => q = p

DocumentsInv == DocumentsTypes /\ StatesInv /\ OwnInv /\ HomeInv

-----------------------------------------------------------------------------
(* Merging *)

\* Applying an update (import) adds what is missing, and that is all of it.
LEMMA MergeIsUnion ==
    ASSUME NEW s, NEW t, SameName(s, t)
    PROVE  Merge(s, t) = s \cup t
<1>1. ASSUME NEW e \in t, e \notin s  PROVE <<e.client, e.clock>> \notin Seen(s)
    BY <1>1, Zenon DEF Seen, SameName
<1> QED BY <1>1, Zenon DEF Merge

\* The union of two states without gaps has none.
LEMMA UnionNoGaps ==
    ASSUME NEW s, NEW t, NoGaps(s), NoGaps(t)
    PROVE  NoGaps(s \cup t)
<1> SUFFICES ASSUME NEW c \in Clients
             PROVE  \E n \in 0..MaxEdits : Clocks(s \cup t, c) = 0..(n - 1)
    BY Zenon DEF NoGaps
<1>1. PICK m \in 0..MaxEdits : Clocks(s, c) = 0..(m - 1)
    BY Zenon DEF NoGaps
<1>2. PICK n \in 0..MaxEdits : Clocks(t, c) = 0..(n - 1)
    BY Zenon DEF NoGaps
<1>3. Clocks(s \cup t, c) = Clocks(s, c) \cup Clocks(t, c)
    BY Zenon DEF Clocks
<1>4. m \in Nat /\ n \in Nat
    BY MaxEditsAssumption
<1>5. CASE m <= n
  <2>1. (0..(m - 1)) \cup (0..(n - 1)) = 0..(n - 1)
      BY <1>4, <1>5
  <2> QED BY <1>1, <1>2, <1>3, <2>1, Zenon
<1>6. CASE n < m
  <2>1. (0..(m - 1)) \cup (0..(n - 1)) = 0..(m - 1)
      BY <1>4, <1>6
  <2> QED BY <1>1, <1>2, <1>3, <2>1, Zenon
<1>7. m <= n \/ n < m
    BY <1>4
<1> QED BY <1>5, <1>6, <1>7, Zenon

\* The clock of the next edit (append_text) is the number of clocks used.
LEMMA ClockIsNext ==
    ASSUME NEW s \in SUBSET Edits, NEW c \in Clients, NEW n \in Nat,
           Clocks(s, c) = 0..(n - 1)
    PROVE  Clock(s, c) = n
<1> DEFINE S == {0} \cup {e.clock + 1 : e \in {f \in s : f.client = c}}
           P(m) == \A e \in s : e.client = c => e.clock < m
<1>1. n \in S
  <2>1. CASE n = 0  BY <2>1, Zenon
  <2>2. CASE n # 0
    <3>1. n - 1 \in Clocks(s, c)  BY <2>2
    <3>2. PICK e \in s : e.client = c /\ e.clock = n - 1  BY <3>1, Zenon DEF Clocks
    <3> QED BY <3>2, <2>2
  <2> QED BY <2>1, <2>2, Zenon
<1>2. P(n)
  <2> SUFFICES ASSUME NEW e \in s, e.client = c  PROVE e.clock < n
      BY Zenon
  <2>1. e.clock \in Clocks(s, c)  BY Zenon DEF Clocks
  <2> QED BY <2>1
<1>3. ASSUME NEW m \in S, P(m)  PROVE m = n
  <2>1. m \in Nat /\ m <= n
    <3>1. CASE m = 0  BY <3>1
    <3>2. CASE m # 0
      <4>1. PICK e \in s : e.client = c /\ m = e.clock + 1  BY <3>2, Zenon
      <4>2. e.clock \in Clocks(s, c)  BY <4>1, Zenon DEF Clocks
      <4> QED BY <4>1, <4>2
    <3> QED BY <3>1, <3>2, Zenon
  <2>2. n <= m
    <3>1. CASE n = 0  BY <3>1, <2>1
    <3>2. CASE n # 0
      <4>1. n - 1 \in Clocks(s, c)  BY <3>2
      <4>2. PICK e \in s : e.client = c /\ e.clock = n - 1  BY <4>1, Zenon DEF Clocks
      <4>3. n - 1 < m  BY <4>2, <1>3, Zenon
      <4> QED BY <4>3, <2>1
    <3> QED BY <3>1, <3>2, Zenon
  <2> QED BY <2>1, <2>2
<1>4. Clock(s, c) = CHOOSE m \in S : P(m)
    BY Zenon DEF Clock
<1> HIDE DEF S, P
<1>5. (CHOOSE m \in S : P(m)) \in S /\ P(CHOOSE m \in S : P(m))
    BY <1>1, <1>2, Zenon
<1> QED BY <1>3, <1>4, <1>5, Zenon

-----------------------------------------------------------------------------
(* States of the document *)

\* The merge of two states that exist is sound and names edits alike
\* (CrdtDocument::import).
LEMMA MergedSound ==
    ASSUME StatesInv, NEW s \in States, NEW t \in States
    PROVE  /\ Merge(s, t) = s \cup t
           /\ Sound(s \cup t, used, written)
           /\ \A r \in States : SameName(s \cup t, r) /\ SameName(r, s \cup t)
           /\ SameName(s \cup t, s \cup t)
<1>1. Sound(s, used, written) /\ Sound(t, used, written)
    BY Zenon DEF StatesInv
<1>2. \A a, b \in States : SameName(a, b)
    BY Zenon DEF StatesInv
<1>3. Merge(s, t) = s \cup t
    BY <1>2, MergeIsUnion, Zenon
<1>4. Sound(s \cup t, used, written)
    BY <1>1, UnionNoGaps, Zenon DEF Sound
<1> QED BY <1>2, <1>3, <1>4, Zenon DEF SameName

\* Soundness does not get lost when clients and texts are added.
LEMMA SoundGrows ==
    ASSUME NEW s, NEW u, NEW v, NEW w \in Nat, NEW x \in Nat,
           u \subseteq v, w <= x, Sound(s, u, w)
    PROVE  Sound(s, v, x)
<1> SUFFICES ASSUME NEW e \in s  PROVE e.text <= x
    BY Zenon DEF Sound
<1>1. e \in Edits /\ e.text <= w
    BY Zenon DEF Sound
<1>2. e.text \in Int
    BY <1>1, MaxEditsAssumption DEF Edits
<1> QED BY <1>1, <1>2

LEMMA EmptySound == ASSUME NEW u, NEW w PROVE Sound({}, u, w)
<1>1. \A c \in Clients : Clocks({}, c) = 0..(0 - 1)
    BY DEF Clocks
<1> QED BY <1>1, MaxEditsAssumption DEF Sound, NoGaps

\* Where a state is found.
LEMMA Places ==
    ASSUME DocumentsTypes
    PROVE  /\ \A p \in Openers : IsOpen(p) =>
                  replica[p] \in Docs /\ replica[p].edits \in States
           /\ \A h \in Databases : docs[h] # None => docs[h].edits \in States
           /\ blobs \subseteq States
           /\ \A p \in Openers : Home[p] \in Databases
BY Zenon DEF DocumentsTypes, States, IsOpen, Databases

\* One new state x, sound and with the names of the others, keeps StatesInv.
LEMMA StatesKept ==
    ASSUME DocumentsTypes, StatesInv, NEW x,
           Sound(x, used', written'), SameName(x, x),
           \A s \in States : SameName(x, s) /\ SameName(s, x),
           States' \subseteq States \cup {x},
           used \subseteq used', written' \in Nat, written <= written'
    PROVE  StatesInv'
<1>1. \A s \in States : Sound(s, used', written')
    BY SoundGrows DEF StatesInv, DocumentsTypes
<1>2. \A s, t \in States \cup {x} : SameName(s, t)
    BY Zenon DEF StatesInv
<1>3. \A s \in States' : Sound(s, used', written')
    BY <1>1, Zenon
<1>4. \A s, t \in States' : SameName(s, t)
    BY <1>2, Zenon
<1> QED BY <1>3, <1>4, Zenon DEF StatesInv

-----------------------------------------------------------------------------
(* The steps *)

LEMMA DocumentsInitEstablishes == DocumentsInit => DocumentsInv
<1> SUFFICES ASSUME DocumentsInit PROVE DocumentsInv
    BY Zenon
<1>1. DocumentsTypes
    BY MaxEditsAssumption DEF DocumentsInit, DocumentsTypes
<1>2. States = {} /\ \A p \in Openers : ~IsOpen(p)
    BY Zenon DEF DocumentsInit, States, IsOpen
<1> QED BY <1>1, <1>2, Zenon DEF DocumentsInv, StatesInv, OwnInv, HomeInv

LEMMA OpenDocKeeps == ASSUME DocumentsInv, NEW p \in Openers, OpenDoc(p) PROVE DocumentsInv'
<1> DEFINE x == Stored(Home[p])
<1>0. DocumentsTypes /\ StatesInv /\ OwnInv /\ HomeInv
    BY Zenon DEF DocumentsInv
<1>1. PICK c \in NewClient :
          /\ replica' = [replica EXCEPT ![p] = [client |-> c, edits |-> x]]
          /\ used' = used \cup {c}
    BY Zenon DEF OpenDoc
<1>2. c \in Clients /\ c \notin used
    BY Zenon DEF NewClient
<1>3. UNCHANGED <<docs, blobs, written>> /\ ~IsOpen(p)
    BY Zenon DEF OpenDoc
<1>4. x = {} \/ x \in States
    BY <1>0, Places, Zenon DEF Stored
<1>5. Sound(x, used, written)
    BY <1>0, <1>4, EmptySound, Zenon DEF StatesInv
<1>6. SameName(x, x) /\ \A s \in States : SameName(x, s) /\ SameName(s, x)
    BY <1>0, <1>4, Zenon DEF StatesInv, SameName
<1>7. [client |-> c, edits |-> x] \in Docs
    BY <1>2, <1>5, Zenon DEF Sound, Docs
<1>8. DocumentsTypes'
    BY <1>0, <1>1, <1>2, <1>3, <1>7, Places, Zenon DEF DocumentsTypes, OpenDoc
<1>9. /\ replica'[p] = [client |-> c, edits |-> x]
      /\ \A q \in Openers \ {p} : replica'[q] = replica[q]
    BY <1>0, <1>1, Zenon DEF DocumentsTypes
<1>10. IsOpen(p)' /\ \A q \in Openers \ {p} : IsOpen(q)' <=> IsOpen(q)
    BY <1>7, <1>9, NoDocumentAssumption, Zenon DEF IsOpen
<1>11. States' \subseteq States \cup {x}
    BY <1>3, <1>9, <1>10 DEF States
<1>12. StatesInv'
  <2>1. written' \in Nat /\ written <= written' /\ written \in Nat
      BY <1>0, <1>3, MaxEditsAssumption DEF DocumentsTypes
  <2>2. Sound(x, used', written')
      BY <1>1, <1>5, <2>1, SoundGrows, Zenon
  <2> QED BY <1>0, <1>1, <1>6, <1>11, <2>1, <2>2, StatesKept, Zenon
<1>13. \A s \in States' : \A e \in s : e.client \in used
    BY <1>0, <1>5, <1>11, Zenon DEF StatesInv, Sound
<1>14. OwnInv'
  <2>1. ASSUME NEW q \in Openers, IsOpen(q)'
        PROVE  /\ replica'[q].client \in used'
               /\ \A s \in States' : \A e \in s :
                      e.client = replica'[q].client => e \in replica'[q].edits
    <3>1. CASE q = p
        BY <3>1, <1>1, <1>2, <1>9, <1>13
    <3>2. CASE q # p
      <4>1. IsOpen(q) /\ replica'[q] = replica[q]
          BY <2>1, <3>2, <1>9, <1>10, Zenon
      <4>2. \A s \in States' : \A e \in s : \E t \in States : e \in t
          BY <1>4, <1>11, Zenon
      <4> QED BY <4>1, <4>2, <1>0, <1>1 DEF OwnInv
    <3> QED BY <3>1, <3>2, Zenon
  <2>2. ASSUME NEW q \in Openers, NEW r \in Openers, IsOpen(q)', IsOpen(r)',
               replica'[q].client = replica'[r].client
        PROVE  q = r
    <3>1. \A z \in Openers \ {p} : IsOpen(z) => replica'[z].client \in used
        BY <1>0, <1>9, Zenon DEF OwnInv
    <3> QED BY <2>2, <3>1, <1>0, <1>2, <1>9, <1>10 DEF OwnInv
  <2> QED BY <2>1, <2>2, Zenon DEF OwnInv
<1>15. HomeInv'
  <2>1. shared \subseteq shared'
      BY Zenon DEF OpenDoc
  <2>2. (\E q \in Openers \ {p} : Home[q] = Home[p] /\ IsOpen(q)) => Home[p] \in shared'
      BY Zenon DEF OpenDoc
  <2>3. docs[Home[p]] # None => docs[Home[p]].edits = x
      BY Zenon DEF Stored
  <2> QED BY <2>1, <2>2, <2>3, <1>0, <1>3, <1>9, <1>10 DEF HomeInv
<1> QED BY <1>8, <1>12, <1>14, <1>15, Zenon DEF DocumentsInv

LEMMA AppendEditKeeps == ASSUME DocumentsInv, NEW p \in Openers, AppendEdit(p) PROVE DocumentsInv'
<1> DEFINE d == replica[p]
           k == Clock(d.edits, d.client)
           new == [client |-> d.client, clock |-> k, text |-> written + 1]
           x == d.edits \cup {new}
<1>0. DocumentsTypes /\ StatesInv /\ OwnInv /\ HomeInv
    BY Zenon DEF DocumentsInv
<1>1. /\ IsOpen(p) /\ written < MaxEdits /\ written' = written + 1
      /\ replica' = [replica EXCEPT ![p] = AppendText(d, written + 1)]
      /\ UNCHANGED <<docs, blobs, used, shared>>
    BY Zenon DEF AppendEdit
<1>2. d \in Docs /\ d.edits \in States /\ d.client \in used
    BY <1>0, <1>1, Places, Zenon DEF OwnInv
<1>3. d.client \in Clients /\ d.edits \subseteq Edits /\ written \in Nat
    BY <1>2, <1>0, MaxEditsAssumption DEF Docs, DocumentsTypes
<1>4. PICK n \in 0..MaxEdits : Clocks(d.edits, d.client) = 0..(n - 1)
    BY <1>0, <1>2, <1>3, Zenon DEF StatesInv, Sound, NoGaps
<1>5. n \in Nat /\ k = n
    BY <1>3, <1>4, ClockIsNext, MaxEditsAssumption
<1>6. n <= written
  <2>1. CASE n = 0  BY <2>1, <1>3
  <2>2. CASE n # 0
    <3>1. n - 1 \in Clocks(d.edits, d.client)  BY <2>2, <1>4, <1>5
    <3>2. PICK e \in d.edits : e.clock = n - 1  BY <3>1, Zenon DEF Clocks
    <3>3. e.clock < e.text /\ e.text <= written
        BY <1>0, <1>2, Zenon DEF StatesInv, Sound
    <3>4. e.text \in Int  BY <1>3, MaxEditsAssumption DEF Edits
    <3> QED BY <3>2, <3>3, <3>4, <1>3, <1>5
  <2> QED BY <2>1, <2>2, Zenon
<1> HIDE DEF k
<1>7. new \in Edits
    BY <1>1, <1>3, <1>5, MaxEditsAssumption DEF Edits
<1>8. AppendText(d, written + 1) = [client |-> d.client, edits |-> x]
  <2>1. AppendText(d, written + 1) = [d EXCEPT !.edits = x]
      BY Zenon DEF AppendText, k
  <2>2. \A y : [d EXCEPT !.edits = y] = [client |-> d.client, edits |-> y]
      BY <1>2 DEF Docs
  <2> QED BY <2>1, <2>2, Zenon
<1>9. [client |-> d.client, edits |-> x] \in Docs
    BY <1>3, <1>7, Zenon DEF Docs
<1>10. DocumentsTypes'
    BY <1>0, <1>1, <1>8, <1>9, MaxEditsAssumption DEF DocumentsTypes
<1>11. /\ replica'[p] = [client |-> d.client, edits |-> x]
       /\ \A q \in Openers \ {p} : replica'[q] = replica[q]
    BY <1>0, <1>1, <1>8, Zenon DEF DocumentsTypes
<1>12. IsOpen(p)' /\ \A q \in Openers \ {p} : IsOpen(q)' <=> IsOpen(q)
    BY <1>9, <1>11, NoDocumentAssumption, Zenon DEF IsOpen
<1>13. States' \subseteq States \cup {x}
    BY <1>1, <1>11, <1>12 DEF States
<1>14. \A s \in States : \A e \in s : e.client = d.client => e \in d.edits /\ e.clock < n
  <2> SUFFICES ASSUME NEW s \in States, NEW e \in s, e.client = d.client
               PROVE  e \in d.edits /\ e.clock < n
      BY Zenon
  <2>1. e \in d.edits
      BY <1>0, <1>1, Zenon DEF OwnInv
  <2>2. e.clock \in Clocks(d.edits, d.client)
      BY <2>1, Zenon DEF Clocks
  <2> QED BY <2>1, <2>2, <1>4, <1>5
<1>15. Sound(x, used', written')
  <2>1. Sound(d.edits, used', written')
      BY <1>0, <1>1, <1>2, <1>3, SoundGrows DEF StatesInv
  <2>2. new.client \in used' /\ new.clock < new.text /\ new.text <= written'
    <3>1. new.client = d.client /\ new.clock = n /\ new.text = written + 1
        BY <1>5, Zenon
    <3>2. n < written + 1 /\ written + 1 <= written + 1
        BY <1>3, <1>5, <1>6
    <3>3. used' = used /\ written' = written + 1
        BY <1>1, Zenon
    <3> HIDE DEF new
    <3> QED BY <1>2, <3>1, <3>2, <3>3, Zenon
  <2>3. \A c \in Clients \ {d.client} : Clocks(x, c) = Clocks(d.edits, c)
      BY DEF Clocks
  <2>4. Clocks(x, d.client) = 0..((n + 1) - 1)
    <3>1. new.client = d.client /\ new.clock = n
        BY <1>5, Zenon
    <3>2. Clocks(x, d.client) = Clocks(d.edits, d.client) \cup {n}
      <4> HIDE DEF new
      <4> QED BY <3>1, Zenon DEF Clocks
    <3>3. (0..(n - 1)) \cup {n} = 0..((n + 1) - 1)
        BY <1>5
    <3> QED BY <3>2, <3>3, <1>4, Zenon
  <2>5. n + 1 \in 0..MaxEdits
      BY <1>1, <1>3, <1>5, <1>6, MaxEditsAssumption
  <2>6. NoGaps(x)
      BY <2>1, <2>3, <2>4, <2>5, Zenon DEF Sound, NoGaps
  <2> QED BY <2>1, <2>2, <2>6, <1>7, Zenon DEF Sound
<1>16. \A s \in States : SameName(x, s) /\ SameName(s, x)
  <2>1. \A s \in States : \A e \in s : ~(e.client = new.client /\ e.clock = new.clock)
      BY <1>5, <1>14
  <2>2. \A s \in States : SameName(d.edits, s) /\ SameName(s, d.edits)
      BY <1>0, <1>2, Zenon DEF StatesInv
  <2> QED BY <2>1, <2>2, Zenon DEF SameName
<1>17. SameName(x, x)
    BY <1>16, <1>2, Zenon DEF SameName
<1>18. StatesInv'
  <2>1. used \subseteq used' /\ written' \in Nat /\ written <= written'
      BY <1>1, <1>3
  <2> HIDE DEF x
  <2> QED BY <1>0, <1>13, <1>15, <1>16, <1>17, <2>1, StatesKept, Zenon
<1>19. OwnInv'
  <2>1. ASSUME NEW q \in Openers, IsOpen(q)'
        PROVE  /\ IsOpen(q) /\ replica'[q].client = replica[q].client
               /\ replica[q].edits \subseteq replica'[q].edits
      BY <2>1, <1>1, <1>11, <1>12
  <2>2. ASSUME NEW q \in Openers, IsOpen(q)', NEW s \in States', NEW e \in s,
               e.client = replica'[q].client
        PROVE  e \in replica'[q].edits
    <3>1. CASE \E t \in States : e \in t
        BY <3>1, <2>1, <2>2, <1>0, Zenon DEF OwnInv
    <3>2. CASE e = new
        BY <3>2, <2>1, <2>2, <1>0, <1>1, <1>11 DEF OwnInv
    <3> QED BY <3>1, <3>2, <1>2, <1>13
  <2> QED BY <2>1, <2>2, <1>0, <1>1 DEF OwnInv
<1>20. HomeInv'
    BY <1>0, <1>1, <1>11, <1>12 DEF HomeInv
<1> QED BY <1>10, <1>18, <1>19, <1>20, Zenon DEF DocumentsInv

\* Replicas that take over all or nothing of the union of two states
\* (import, merge_from, sync) keep the invariant.
LEMMA GrowthKeeps ==
    ASSUME DocumentsInv, NEW s \in States, NEW t \in States,
           replica' \in [Openers -> Docs \cup {None}],
           \A q \in Openers : IsOpen(q)' <=> IsOpen(q),
           \A q \in Openers : IsOpen(q) =>
               /\ replica'[q].client = replica[q].client
               /\ replica[q].edits \subseteq replica'[q].edits
               /\ replica'[q].edits \in States \cup {s \cup t},
           UNCHANGED <<docs, blobs, written, used, shared>>
    PROVE  DocumentsInv'
<1>0. DocumentsTypes /\ StatesInv /\ OwnInv /\ HomeInv
    BY Zenon DEF DocumentsInv
<1>1. DocumentsTypes'
    BY <1>0, Zenon DEF DocumentsTypes
<1>2. States' \subseteq States \cup {s \cup t}
    BY DEF States
<1>3. StatesInv'
  <2>1. used \subseteq used' /\ written' \in Nat /\ written <= written'
      BY <1>0, MaxEditsAssumption DEF DocumentsTypes
  <2>2. Sound(s \cup t, used', written')
      BY <1>0, MergedSound, Zenon
  <2>3. /\ SameName(s \cup t, s \cup t)
        /\ \A r \in States : SameName(s \cup t, r) /\ SameName(r, s \cup t)
      BY <1>0, MergedSound, Zenon
  <2> QED BY <1>0, <1>2, <2>1, <2>2, <2>3, StatesKept, Zenon
<1>4. \A r \in States' : \A e \in r : \E z \in States : e \in z
    BY <1>2, Zenon
<1>5. OwnInv'
    BY <1>0, <1>4, Zenon DEF OwnInv
<1>6. HomeInv'
    BY <1>0, Zenon DEF HomeInv
<1> QED BY <1>1, <1>3, <1>5, <1>6, Zenon DEF DocumentsInv

\* import into an open replica (CrdtDocument::import).
LEMMA Imported ==
    ASSUME DocumentsInv, NEW p \in Openers, IsOpen(p), NEW t \in States
    PROVE  /\ ImportInto(replica[p], t) \in Docs
           /\ ImportInto(replica[p], t).client = replica[p].client
           /\ ImportInto(replica[p], t).edits = replica[p].edits \cup t
<1>1. DocumentsTypes /\ StatesInv
    BY Zenon DEF DocumentsInv
<1>2. replica[p] \in Docs /\ replica[p].edits \in States
    BY <1>1, Places, Zenon
<1>3. Merge(replica[p].edits, t) = replica[p].edits \cup t
    BY <1>1, <1>2, MergedSound, Zenon
<1>4. replica[p].edits \cup t \subseteq Edits
    BY <1>1, <1>2, MergedSound, Zenon DEF Sound
<1> QED BY <1>2, <1>3, <1>4, Zenon DEF ImportInto, Docs

\* One replica imports a state.
LEMMA OneImport ==
    ASSUME DocumentsInv, NEW p \in Openers, IsOpen(p), NEW t \in States,
           replica' = [replica EXCEPT ![p] = ImportInto(replica[p], t)],
           UNCHANGED <<docs, blobs, written, used, shared>>
    PROVE  DocumentsInv'
<1> DEFINE d == ImportInto(replica[p], t)
<1>1. /\ d \in Docs /\ d.client = replica[p].client
      /\ d.edits = replica[p].edits \cup t
    BY Imported, Zenon
<1>2. DocumentsTypes /\ replica[p].edits \in States
    BY Places, Zenon DEF DocumentsInv
<1> HIDE DEF d
<1>3. replica' = [replica EXCEPT ![p] = d]
    BY Zenon DEF d
<1>4. replica'[p] = d /\ \A q \in Openers \ {p} : replica'[q] = replica[q]
    BY <1>2, <1>3, Zenon DEF DocumentsTypes
<1>5. replica' \in [Openers -> Docs \cup {None}]
    BY <1>1, <1>2, <1>3, Zenon DEF DocumentsTypes
<1>6. \A q \in Openers : IsOpen(q)' <=> IsOpen(q)
    BY <1>1, <1>4, NoDocumentAssumption, Zenon DEF IsOpen
<1>7. \A q \in Openers : IsOpen(q) => replica[q].edits \in States
    BY <1>2, Places, Zenon
<1> QED BY <1>1, <1>2, <1>4, <1>5, <1>6, <1>7, GrowthKeeps

LEMMA ImportKeeps == ASSUME DocumentsInv, NEW p \in Openers, Import(p) PROVE DocumentsInv'
BY OneImport, Places, Zenon DEF Import, DocumentsInv

LEMMA MergeFromKeeps ==
    ASSUME DocumentsInv, NEW p \in Openers, NEW q \in Openers, MergeFrom(p, q) PROVE DocumentsInv'
BY OneImport, Places, Zenon DEF MergeFrom, DocumentsInv

\* What sync does to the two replicas.
LEMMA SyncResult ==
    ASSUME DocumentsInv, NEW p \in Openers, NEW q \in Openers, Sync(p, q)
    PROVE  /\ replica'[p] \in Docs /\ replica'[q] \in Docs
           /\ replica'[p].client = replica[p].client
           /\ replica'[q].client = replica[q].client
           /\ replica'[p].edits = replica[p].edits \cup replica[q].edits
           /\ replica'[q].edits = replica[p].edits \cup replica[q].edits
           /\ replica' \in [Openers -> Docs \cup {None}]
           /\ \A r \in Openers \ {p, q} : replica'[r] = replica[r]
<1> DEFINE d == ImportInto(replica[p], replica[q].edits)
           f == ImportInto(replica[q], replica[p].edits)
<1>1. /\ p # q /\ IsOpen(p) /\ IsOpen(q)
      /\ replica' = [replica EXCEPT ![p] = d, ![q] = f]
    BY Zenon DEF Sync
<1>2. DocumentsTypes /\ replica[p].edits \in States /\ replica[q].edits \in States
    BY <1>1, Places, Zenon DEF DocumentsInv
<1>3. /\ d \in Docs /\ d.client = replica[p].client
      /\ d.edits = replica[p].edits \cup replica[q].edits
    BY <1>1, <1>2, Imported, Zenon
<1>4. /\ f \in Docs /\ f.client = replica[q].client
      /\ f.edits = replica[q].edits \cup replica[p].edits
    BY <1>1, <1>2, Imported, Zenon
<1> HIDE DEF d, f
<1> QED BY <1>1, <1>2, <1>3, <1>4, Zenon DEF DocumentsTypes

LEMMA SyncKeeps ==
    ASSUME DocumentsInv, NEW p \in Openers, NEW q \in Openers, Sync(p, q) PROVE DocumentsInv'
<1>1. DocumentsTypes /\ IsOpen(p) /\ IsOpen(q) /\ UNCHANGED <<docs, blobs, written, used, shared>>
    BY Zenon DEF Sync, DocumentsInv
<1>2. \A r \in Openers : IsOpen(r) => replica[r].edits \in States
    BY <1>1, Places, Zenon
<1>3. \A r \in Openers : IsOpen(r)' <=> IsOpen(r)
    BY <1>1, SyncResult, NoDocumentAssumption DEF IsOpen
<1> DEFINE x == replica[p].edits \cup replica[q].edits
<1>4. replica' \in [Openers -> Docs \cup {None}]
    BY SyncResult, Zenon
<1>5. ASSUME NEW r \in Openers, IsOpen(r)
      PROVE  /\ replica'[r].client = replica[r].client
             /\ replica[r].edits \subseteq replica'[r].edits
             /\ replica'[r].edits \in States \cup {x}
  <2>1. CASE r \in {p, q}
      BY <2>1, SyncResult
  <2>2. CASE r \notin {p, q}
      BY <2>2, <1>2, <1>5, SyncResult
  <2> QED BY <2>1, <2>2, Zenon
<1>6. replica[p].edits \in States /\ replica[q].edits \in States
    BY <1>1, <1>2, Zenon
<1> QED BY <1>1, <1>3, <1>4, <1>5, <1>6, GrowthKeeps, Zenon

\* Steps that leave the replicas alone or close one, and add no state.
LEMMA ExportKeeps == ASSUME DocumentsInv, NEW p \in Openers, Export(p) PROVE DocumentsInv'
<1>0. DocumentsTypes /\ StatesInv /\ OwnInv /\ HomeInv
    BY Zenon DEF DocumentsInv
<1>1. /\ IsOpen(p) /\ blobs' = blobs \cup {replica[p].edits}
      /\ UNCHANGED <<replica, docs, written, used, shared>>
    BY Zenon DEF Export
<1>2. replica[p].edits \in States /\ replica[p].edits \subseteq Edits
    BY <1>0, <1>1, Places, Zenon DEF Docs
<1>3. DocumentsTypes'
    BY <1>0, <1>1, <1>2, Zenon DEF DocumentsTypes
<1>4. States' \subseteq States
    BY <1>1, <1>2, Zenon DEF States, IsOpen
<1>5. StatesInv' /\ OwnInv'
    BY <1>0, <1>1, <1>4, Zenon DEF StatesInv, OwnInv, IsOpen
<1>6. HomeInv'
    BY <1>0, <1>1, Zenon DEF HomeInv, IsOpen
<1> QED BY <1>3, <1>5, <1>6, Zenon DEF DocumentsInv

LEMMA SaveDocKeeps == ASSUME DocumentsInv, NEW p \in Openers, SaveDoc(p) PROVE DocumentsInv'
<1> DEFINE row == [edits |-> replica[p].edits]
<1>0. DocumentsTypes /\ StatesInv /\ OwnInv /\ HomeInv
    BY Zenon DEF DocumentsInv
<1>1. /\ IsOpen(p) /\ docs' = [docs EXCEPT ![Home[p]] = row]
      /\ UNCHANGED <<replica, blobs, written, used, shared>>
    BY Zenon DEF SaveDoc
<1>2. /\ replica[p].edits \in States /\ replica[p].edits \subseteq Edits
      /\ Home[p] \in Databases
    BY <1>0, <1>1, Places, Zenon DEF Docs
<1>3. DocumentsTypes'
    BY <1>0, <1>1, <1>2, Zenon DEF DocumentsTypes
<1>4. docs'[Home[p]] = row /\ \A h \in Databases \ {Home[p]} : docs'[h] = docs[h]
    BY <1>0, <1>1, <1>2, Zenon DEF DocumentsTypes
<1>5. States' \subseteq States
    BY <1>1, <1>2, <1>4 DEF States, IsOpen
<1>6. StatesInv' /\ OwnInv'
    BY <1>0, <1>1, <1>5, Zenon DEF StatesInv, OwnInv, IsOpen
<1>7. HomeInv'
  <2>1. \A q \in Openers : Home[q] \in Databases
      BY <1>0, Places, Zenon
  <2> QED BY <1>0, <1>1, <1>4, <2>1 DEF HomeInv, IsOpen
<1> QED BY <1>3, <1>6, <1>7, Zenon DEF DocumentsInv

LEMMA DeleteDocKeeps == ASSUME DocumentsInv, NEW p \in Openers, DeleteDoc(p) PROVE DocumentsInv'
<1>0. DocumentsTypes /\ StatesInv /\ OwnInv /\ HomeInv /\ \A q \in Openers : Home[q] \in Databases
    BY Places, Zenon DEF DocumentsInv
<1>1. /\ docs' = [docs EXCEPT ![Home[p]] = None]
      /\ UNCHANGED <<replica, blobs, written, used, shared>>
    BY Zenon DEF DeleteDoc
<1>2. docs'[Home[p]] = None /\ \A h \in Databases \ {Home[p]} : docs'[h] = docs[h]
    BY <1>0, <1>1, Zenon DEF DocumentsTypes
<1>3. DocumentsTypes'
    BY <1>0, <1>1, Zenon DEF DocumentsTypes
<1>4. States' \subseteq States
    BY <1>1, <1>2, Zenon DEF States, IsOpen
<1>5. StatesInv' /\ OwnInv'
    BY <1>0, <1>1, <1>4, Zenon DEF StatesInv, OwnInv, IsOpen
<1>6. HomeInv'
    BY <1>0, <1>1, <1>2, Zenon DEF HomeInv, IsOpen
<1> QED BY <1>3, <1>5, <1>6, Zenon DEF DocumentsInv

LEMMA CloseKeeps == ASSUME DocumentsInv, NEW p \in Openers, Close(p) PROVE DocumentsInv'
<1>0. DocumentsTypes /\ StatesInv /\ OwnInv /\ HomeInv
    BY Zenon DEF DocumentsInv
<1>1. /\ replica' = [replica EXCEPT ![p] = None]
      /\ UNCHANGED <<docs, blobs, written, used, shared>>
    BY Zenon DEF Close
<1>2. replica'[p] = None /\ \A q \in Openers \ {p} : replica'[q] = replica[q]
    BY <1>0, <1>1, Zenon DEF DocumentsTypes
<1>3. DocumentsTypes'
    BY <1>0, <1>1, Zenon DEF DocumentsTypes
<1>4. \A q \in Openers : IsOpen(q)' => IsOpen(q) /\ replica'[q] = replica[q]
    BY <1>2, Zenon DEF IsOpen
<1>5. States' \subseteq States
    BY <1>1, <1>4, Zenon DEF States
<1>6. StatesInv' /\ OwnInv'
    BY <1>0, <1>1, <1>4, <1>5 DEF StatesInv, OwnInv
<1>7. HomeInv'
    BY <1>0, <1>1, <1>4, Zenon DEF HomeInv
<1> QED BY <1>3, <1>6, <1>7, Zenon DEF DocumentsInv

LEMMA DocumentsNextPreserves == DocumentsInv /\ [DocumentsNext]_docVars => DocumentsInv'
<1> SUFFICES ASSUME DocumentsInv, [DocumentsNext]_docVars PROVE DocumentsInv'
    BY Zenon
<1>1. CASE UNCHANGED docVars
  <2>1. States' = States /\ \A p : IsOpen(p)' = IsOpen(p)
    BY <1>1, Zenon DEF docVars, States, IsOpen
  <2>2. DocumentsTypes' /\ HomeInv'
    BY <1>1, <2>1, Zenon DEF docVars, DocumentsInv, DocumentsTypes, HomeInv
  <2>3. StatesInv' /\ OwnInv'
    BY <1>1, <2>1, Zenon DEF docVars, DocumentsInv, StatesInv, OwnInv
  <2> QED BY <2>2, <2>3, Zenon DEF DocumentsInv
<1>2. CASE DocumentsNext
    BY <1>2, OpenDocKeeps, AppendEditKeeps, ExportKeeps, ImportKeeps, MergeFromKeeps,
       SyncKeeps, SaveDocKeeps, DeleteDocKeeps, CloseKeeps, Zenon DEF DocumentsNext
<1> QED BY <1>1, <1>2, Zenon

LEMMA DocumentsInvariant == DocumentsSpec => []DocumentsInv
BY DocumentsInitEstablishes, DocumentsNextPreserves, PTL DEF DocumentsSpec

-----------------------------------------------------------------------------
(* The results *)

\* Type correctness of the replicas, rows and exported states, and no gap in
\* what any of them holds of a client (CrdtDocument).
THEOREM DocumentTypes == DocumentsSpec => []DocumentsTypeOK
<1>1. DocumentsInv => DocumentsTypeOK
    BY Zenon DEF DocumentsInv, DocumentsTypes, StatesInv, Sound, NoGaps, DocumentsTypeOK
<1> QED BY <1>1, DocumentsInvariant, PTL

\* Any two states of a document merge to the same document in either order
\* (crdt.rs, import), for any number of replicas, restarts and edits.
THEOREM UpdatesCommute == DocumentsSpec => []MergeCommutes
<1>1. DocumentsInv => MergeCommutes
  <2> SUFFICES ASSUME DocumentsInv, NEW s \in States, NEW t \in States
               PROVE  Merge(s, t) = Merge(t, s)
      BY Zenon DEF MergeCommutes
  <2>1. Merge(s, t) = s \cup t /\ Merge(t, s) = t \cup s
      BY MergedSound, Zenon DEF DocumentsInv
  <2> QED BY <2>1, Zenon
<1> QED BY <1>1, DocumentsInvariant, PTL

\* One sync of two replicas leaves both with the same document (crdt.rs).
THEOREM OneSyncConverges == DocumentsSpec => SyncConverges
<1>1. DocumentsInv /\ [DocumentsNext]_docVars =>
          [\A p, q \in Openers : Sync(p, q) => replica'[p].edits = replica'[q].edits]_docVars
  <2> SUFFICES ASSUME DocumentsInv, NEW p \in Openers, NEW q \in Openers, Sync(p, q)
               PROVE  replica'[p].edits = replica'[q].edits
      BY Zenon
  <2>1. /\ replica'[p].edits = replica[p].edits \cup replica[q].edits
        /\ replica'[q].edits = replica[p].edits \cup replica[q].edits
      BY SyncResult, Zenon
  <2> QED BY <2>1, Zenon
<1> QED BY <1>1, DocumentsInvariant, PTL DEF DocumentsSpec, SyncConverges

\* save_doc loses nothing that was saved while one process at a time has the
\* document of a database open (store.rs).
THEOREM SavesKeepEdits == DocumentsSpec => SavedKept
<1> DEFINE Kept == \A h \in Databases :
                       h \notin shared' /\ docs[h] # None /\ docs'[h] # None
                           => docs[h].edits \subseteq docs'[h].edits
<1>1. DocumentsInv /\ [DocumentsNext]_docVars => [Kept]_docVars
  <2> SUFFICES ASSUME DocumentsInv, DocumentsNext PROVE Kept
      BY Zenon
  <2>1. CASE UNCHANGED docs
      BY <2>1, Zenon
  <2>2. ASSUME NEW p \in Openers, SaveDoc(p)  PROVE Kept
    <3>1. DocumentsTypes /\ HomeInv /\ Home[p] \in Databases
        BY Places, Zenon DEF DocumentsInv
    <3>2. /\ IsOpen(p) /\ shared' = shared
          /\ docs' = [docs EXCEPT ![Home[p]] = [edits |-> replica[p].edits]]
        BY <2>2, Zenon DEF SaveDoc
    <3> QED BY <3>1, <3>2, Zenon DEF DocumentsTypes, HomeInv
  <2>3. ASSUME NEW p \in Openers, DeleteDoc(p)  PROVE Kept
    <3>1. DocumentsTypes /\ Home[p] \in Databases
        BY Places, Zenon DEF DocumentsInv
    <3> QED BY <2>3, <3>1, Zenon DEF DocumentsTypes, DeleteDoc
  <2> QED BY <2>1, <2>2, <2>3, Zenon DEF DocumentsNext, OpenDoc, AppendEdit, Export, Import,
             MergeFrom, Sync, Close
<1> QED BY <1>1, DocumentsInvariant, PTL DEF DocumentsSpec, SavedKept

=============================================================================
