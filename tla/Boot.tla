-------------------------------- MODULE Boot --------------------------------
(***************************************************************************)
(* The start of a process on its data directory (presidium-demo,           *)
(* store.rs): the salt file, the encrypted database with its migration,    *)
(* the identity row and the file of the signed prekey.                     *)
(*                                                                         *)
(* A process may be killed between any two steps, and several processes    *)
(* may be started on the same directory.  A file is written in two steps,  *)
(* as std::fs::write does: it is created empty, then filled.               *)
(*                                                                         *)
(* A fresh salt or identity is named by the number of the start that made  *)
(* it.  The passphrase is a constant.                                      *)
(***************************************************************************)
EXTENDS Naturals, Options

CONSTANTS Procs,     \* processes that use the directory
          MaxStarts, \* bound: starts of all processes together
          Short      \* a file that was created and not filled

\* A start, a prekey with the start that made it and its signer, a key of the
\* database with its salt.
Runs == 1..MaxStarts
Prekeys == [of : Runs, by : Runs]
DbKeys == {"argon2id"} \X Runs

ASSUME BoundsAssumption == MaxStarts \in Nat
ASSUME NoneAssumption ==
    None # Short /\ {None, Short} \cap (Runs \cup Prekeys \cup DbKeys) = {}
ASSUME ProcsAssumption == None \notin Procs

VARIABLES
    salt,   \* the file db.salt
    db,     \* the database file: its key, schema and identity row
    bundle, \* the file bundle.json
    lock,   \* the process that holds SQLite's write lock
    proc,   \* the state of each process
    starts, \* number of starts
    raced,  \* history: two starts met before the directory was complete
    torn    \* history: a process was killed while it filled a file

vars == <<salt, db, bundle, lock, proc, starts, raced, torn>>

-----------------------------------------------------------------------------
\* A process that has read nothing yet.
Fresh(pc, run) == [pc |-> pc, run |-> run, key |-> None, identity |-> None,
                   prekey |-> None, staged |-> None]
Off == Fresh("off", 0)

Init ==
    /\ salt = None /\ bundle = None /\ lock = None
    /\ db = [key |-> None, tables |-> FALSE, version |-> 0, identity |-> None]
    /\ proc = [p \in Procs |-> Off]
    /\ starts = 0 /\ raced = FALSE /\ torn = FALSE

At(p, pc) == proc[p].pc = pc

Goto(p, pc) == proc' = [proc EXCEPT ![p].pc = pc]

\* An error leaves demo_main and so ends the process: "failed", or "busy"
\* when another process held a lock and a later start may succeed.
Ends(p, how) == proc' = [proc EXCEPT ![p] = Fresh(how, 0)]

Ended(p) == proc[p].pc \in {"off", "failed", "busy"}

Booting(p) == ~Ended(p) /\ ~At(p, "up")

Whole(file) == file \notin {None, Short}

Installed == db.identity # None /\ Whole(bundle)

Start(p) ==
    /\ Ended(p) /\ starts < MaxStarts
    /\ starts' = starts + 1
    /\ proc' = [proc EXCEPT ![p] = Fresh("salt", starts + 1)]
    /\ raced' = (raced \/ (~Installed /\ \E q \in Procs : Booting(q)))
    /\ UNCHANGED <<salt, db, bundle, lock, torn>>

-----------------------------------------------------------------------------
(* db_key: read the salt, or make one and save it. *)

\* Argon2id of the passphrase: other salts give other keys.
DeriveDbKey(s) == <<"argon2id", s>>

\* Variant for mutation: the existing file is not looked for.
CheckSalt_Always(p) ==
    /\ At(p, "salt")
    /\ Goto(p, "create_salt")
    /\ UNCHANGED <<salt, db, bundle, lock, starts, raced, torn>>

CheckSalt(p) ==
    /\ At(p, "salt")
    /\ Goto(p, IF salt = None THEN "create_salt" ELSE "read_salt")
    /\ UNCHANGED <<salt, db, bundle, lock, starts, raced, torn>>

ReadSalt(p) ==
    /\ At(p, "read_salt")
    /\ \/ salt = Short /\ Ends(p, "failed")
       \/ salt # Short /\ proc' = [proc EXCEPT ![p].key = DeriveDbKey(salt), ![p].pc = "open"]
    /\ UNCHANGED <<salt, db, bundle, lock, starts, raced, torn>>

CreateSalt(p) ==
    /\ At(p, "create_salt")
    /\ salt' = Short
    /\ Goto(p, "write_salt")
    /\ UNCHANGED <<db, bundle, lock, starts, raced, torn>>

WriteSalt(p) ==
    /\ At(p, "write_salt")
    /\ salt' = proc[p].run
    /\ proc' = [proc EXCEPT ![p].key = DeriveDbKey(proc[p].run), ![p].pc = "open"]
    /\ UNCHANGED <<db, bundle, lock, starts, raced, torn>>

-----------------------------------------------------------------------------
(* Database::open and run_migrations. *)

\* A missing file is created; the first page written fixes its key.
Opened(key) == [db EXCEPT !.key = key]

\* A database can only be read with the key it was created with.
KeyFits(key) == db.key \in {None, key}

\* Switching to WAL writes the first page of a new file, under the key set
\* before.  The busy timeout is set only afterwards, so two processes in this
\* step at once may see an error.
Open(p) ==
    /\ At(p, "open")
    /\ \/ /\ KeyFits(proc[p].key)
          /\ db' = Opened(proc[p].key)
          /\ Goto(p, "version")
       \/ /\ ~KeyFits(proc[p].key)
          /\ Ends(p, "failed")
          /\ UNCHANGED db
       \/ /\ \E q \in Procs \ {p} : At(q, "open")
          /\ Ends(p, "busy")
          /\ UNCHANGED db
    /\ UNCHANGED <<salt, bundle, lock, starts, raced, torn>>

\* Variant for mutation: a migration that was applied is applied again.
Pending_Again(current) == 1 >= current

\* There is one migration, whose target is version 1.
Pending(current) == 1 > current

ReadVersion(p) ==
    /\ At(p, "version")
    /\ Goto(p, IF Pending(db.version) THEN "migrate" ELSE "identity")
    /\ UNCHANGED <<salt, db, bundle, lock, starts, raced, torn>>

\* Variant for mutation: the migration runs outside a transaction.
Migrate_NoTransaction(p) ==
    /\ At(p, "migrate") /\ lock = None
    /\ IF db.tables
       THEN Ends(p, "failed") /\ UNCHANGED <<db, lock>>
       ELSE /\ db' = [db EXCEPT !.tables = TRUE]
            /\ lock' = p
            /\ proc' = [proc EXCEPT ![p].staged = db', ![p].pc = "set_version"]
    /\ UNCHANGED <<salt, bundle, starts, raced, torn>>

\* BEGIN and the CREATE TABLE statements, which fail on a table that exists.
\* The changes are staged in the transaction.  A process that waits for the
\* write lock gives up after the busy timeout.
Migrate(p) ==
    /\ At(p, "migrate")
    /\ \/ /\ lock = None /\ ~db.tables
          /\ lock' = p
          /\ proc' = [proc EXCEPT ![p].staged = [db EXCEPT !.tables = TRUE],
                                  ![p].pc = "set_version"]
       \/ lock = None /\ db.tables /\ Ends(p, "failed") /\ UNCHANGED lock
       \/ lock # None /\ Ends(p, "busy") /\ UNCHANGED lock
    /\ UNCHANGED <<salt, db, bundle, starts, raced, torn>>

SetVersion(p) ==
    /\ At(p, "set_version")
    /\ proc' = [proc EXCEPT ![p].staged = [@ EXCEPT !.version = 1], ![p].pc = "commit"]
    /\ UNCHANGED <<salt, db, bundle, lock, starts, raced, torn>>

Commit(p) ==
    /\ At(p, "commit")
    /\ db' = proc[p].staged
    /\ lock' = None
    /\ proc' = [proc EXCEPT ![p].staged = None, ![p].pc = "identity"]
    /\ UNCHANGED <<salt, bundle, starts, raced, torn>>

-----------------------------------------------------------------------------
(* load_or_create_identity. *)

\* The single row of the identity table, and its replacement.
StoredIdentity == db.identity
WithIdentity(id) == [db EXCEPT !.identity = id]

\* With its identity an initiator is ready; a responder needs its prekey.
HasIdentity(p, id) ==
    \E pc \in {"prekey", "up"} :
        proc' = [proc EXCEPT ![p].identity = id, ![p].pc = pc]

\* Variant for mutation: a new identity is used without being saved.
LoadIdentity_Unsaved(p) ==
    /\ At(p, "identity")
    /\ HasIdentity(p, IF db.identity = None THEN proc[p].run ELSE db.identity)
    /\ UNCHANGED <<salt, db, bundle, lock, starts, raced, torn>>

LoadIdentity(p) ==
    /\ At(p, "identity")
    /\ \/ StoredIdentity # None /\ HasIdentity(p, StoredIdentity)
       \/ StoredIdentity = None /\ Goto(p, "save_identity")
    /\ UNCHANGED <<salt, db, bundle, lock, starts, raced, torn>>

\* save_identity replaces a row that has appeared since.
SaveIdentity(p) ==
    /\ At(p, "save_identity")
    /\ db' = WithIdentity(proc[p].run)
    /\ HasIdentity(p, proc[p].run)
    /\ UNCHANGED <<salt, bundle, lock, starts, raced, torn>>

-----------------------------------------------------------------------------
(* NodeStore::prekey. *)

\* Variant for mutation: a new prekey is made at every start.
LoadPrekey_Fresh(p) ==
    /\ At(p, "prekey")
    /\ Goto(p, "create_bundle")
    /\ UNCHANGED <<salt, db, bundle, lock, starts, raced, torn>>

LoadPrekey(p) ==
    /\ At(p, "prekey")
    /\ \/ bundle = None /\ Goto(p, "create_bundle")
       \/ bundle = Short /\ Ends(p, "failed")
       \/ Whole(bundle) /\ proc' = [proc EXCEPT ![p].prekey = bundle, ![p].pc = "up"]
    /\ UNCHANGED <<salt, db, bundle, lock, starts, raced, torn>>

CreateBundle(p) ==
    /\ At(p, "create_bundle")
    /\ bundle' = Short
    /\ Goto(p, "write_bundle")
    /\ UNCHANGED <<salt, db, lock, starts, raced, torn>>

\* PrekeyMaterial::generate: a key pair of this start, signed by the identity.
Generate(p) == [of |-> proc[p].run, by |-> proc[p].identity]

WriteBundle(p) ==
    /\ At(p, "write_bundle")
    /\ bundle' = Generate(p)
    /\ proc' = [proc EXCEPT ![p].prekey = Generate(p), ![p].pc = "up"]
    /\ UNCHANGED <<salt, db, lock, starts, raced, torn>>

-----------------------------------------------------------------------------
\* A kill, or the quit of a process that is up.  SQLite drops what an open
\* transaction has staged.
Kill(p) ==
    /\ ~Ended(p)
    /\ proc' = [proc EXCEPT ![p] = Off]
    /\ lock' = IF lock = p THEN None ELSE lock
    /\ torn' = (torn \/ proc[p].pc \in {"write_salt", "write_bundle"})
    /\ UNCHANGED <<salt, db, bundle, starts, raced>>

Next ==
    \E p \in Procs :
        \/ Start(p) \/ Kill(p)
        \/ CheckSalt(p) \/ ReadSalt(p) \/ CreateSalt(p) \/ WriteSalt(p)
        \/ Open(p) \/ ReadVersion(p) \/ Migrate(p) \/ SetVersion(p) \/ Commit(p)
        \/ LoadIdentity(p) \/ SaveIdentity(p)
        \/ LoadPrekey(p) \/ CreateBundle(p) \/ WriteBundle(p)

Spec == Init /\ [][Next]_vars

-----------------------------------------------------------------------------
Database == [key : DbKeys \cup {None}, tables : BOOLEAN, version : 0..1,
             identity : Runs \cup {None}]
Pcs == {"off", "failed", "busy", "salt", "read_salt", "create_salt", "write_salt",
        "open", "version", "migrate", "set_version", "commit", "identity",
        "save_identity", "prekey", "create_bundle", "write_bundle", "up"}

\* Type invariant of the directory and of the processes (NodeStore::open).
TypeOK ==
    /\ salt \in Runs \cup {None, Short}
    /\ db \in Database
    /\ bundle \in Prekeys \cup {None, Short}
    /\ lock \in Procs \cup {None}
    /\ proc \in [Procs -> [pc : Pcs, run : 0..MaxStarts, key : DbKeys \cup {None},
                           identity : Runs \cup {None}, prekey : Prekeys \cup {None},
                           staged : Database \cup {None}]]
    /\ starts \in 0..MaxStarts /\ raced \in BOOLEAN /\ torn \in BOOLEAN

\* The schema and its version go together (run_migrations commits both or
\* neither), whoever else opens the database and whenever a process dies.
SchemaWhole == db.tables <=> db.version = 1

\* Unless first starts met, the salt on disk is the one the database was
\* created with (db_key saves the salt before the database is opened): no
\* kill leaves a database that cannot be opened again.
DatabaseOpens == ~raced /\ db.key # None => db.key = DeriveDbKey(salt)

\* Unless first starts met, an installation has one identity (the migration
\* says "exactly one identity per install"): every process uses the identity
\* of the row, and every prekey, in the file or in use, is signed by it.
OneIdentity ==
    ~raced =>
        /\ Whole(bundle) => bundle.by = db.identity
        /\ \A p \in Procs :
               /\ proc[p].identity # None => proc[p].identity = db.identity
               /\ proc[p].prekey # None => proc[p].prekey = bundle

\* Unless first starts met, a start fails for good only after a kill in the
\* middle of writing a file (db_key, prekey): kills anywhere else, a migration
\* cut short and processes that already run do no lasting damage.
BootRecovers == (\E p \in Procs : At(p, "failed")) => torn \/ raced

\* Unless first starts met, the identity and the prekey never change once
\* they are saved (load_or_create_identity, prekey): peers keep a bundle that
\* stays valid over restarts.
InstallKept ==
    [][~raced' => /\ db.identity # None => db'.identity = db.identity
                  /\ Whole(bundle) => bundle' = bundle]_vars
=============================================================================
