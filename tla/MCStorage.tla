----------------------------- MODULE MCStorage -----------------------------
(* Small instances of Prekeys, Messages and Documents for TLC.  The three   *)
(* use different tables, so a behaviour works on one of them only.          *)
EXTENDS Prekeys, Messages, Documents, TLC

VARIABLE work \* the tables in use

storageVars == <<vars, msgVars, docVars, work>>

StorageInit ==
    /\ work \in {"prekeys", "messages", "documents"}
    /\ Init /\ MessagesInit /\ DocumentsInit

StorageNext ==
    /\ \/ work = "prekeys" /\ Next /\ UNCHANGED <<msgVars, docVars>>
       \/ work = "messages" /\ MessagesNext /\ UNCHANGED <<vars, docVars>>
       \/ work = "documents" /\ DocumentsNext /\ UNCHANGED <<vars, msgVars>>
    /\ UNCHANGED work

StorageSpec == StorageInit /\ [][StorageNext]_storageVars

\* Two processes of one device and one of another.
TwoDevices == [p \in Openers |-> IF p = "tablet" THEN "db2" ELSE "db1"]

Symmetry == Permutations(Conns) \cup Permutations(Conversations) \cup Permutations(Clients)
=============================================================================
