----------------------------- MODULE Documents -----------------------------
(***************************************************************************)
(* Replicated documents (presidium-storage, crdt.rs) and the docs table    *)
(* that keeps them (store.rs).                                             *)
(*                                                                         *)
(* A document is the set of its edits.  Yrs (external) names an edit by    *)
(* the client that made it and the client's clock, gives every Doc that is *)
(* created a new client number, encodes the whole state, and skips the     *)
(* edits it already has when it applies an update.  The order of the text  *)
(* is a function of that set and is left out.                              *)
(***************************************************************************)
EXTENDS Sqleet, FiniteSets

CONSTANTS Openers,  \* processes that open the document
          Home,     \* the database of each process
          Clients,  \* the numbers Yrs gives to Docs
          MaxEdits, \* bound: edits made
          MaxBlobs  \* bound: exported states in transit

Databases == {Home[p] : p \in Openers}
Edits == [client : Clients, clock : Nat, text : 1..MaxEdits]
Docs == [client : Clients, edits : SUBSET Edits]

ASSUME MaxEditsAssumption == MaxEdits \in Nat
ASSUME NoDocumentAssumption ==
    None \notin Docs /\ None \notin [edits : SUBSET Edits]

VARIABLES
    replica, \* the Doc each process has in memory, or None
    docs,    \* the row of the document in each database, or None
    blobs,   \* exported states, delivered late, twice or never
    written, \* number of edits made; an edit's text is its number
    used,    \* the client numbers given out
    shared   \* history: databases where two processes had the document open

docVars == <<replica, docs, blobs, written, used, shared>>

-----------------------------------------------------------------------------
(* The operations of a Doc. *)

\* The state vector of a state: the edits it has seen, without their text.
Seen(s) == {<<e.client, e.clock>> : e \in s}

\* apply_update: the edits of t that s has not seen.
Merge(s, t) == s \cup {e \in t : <<e.client, e.clock>> \notin Seen(s)}

\* The next clock of client c: 0, or one more than its newest edit's.
Clock(s, c) ==
    CHOOSE n \in {0} \cup {e.clock + 1 : e \in {f \in s : f.client = c}} :
        \A e \in s : e.client = c => e.clock < n

\* append_text.
AppendText(d, text) ==
    [d EXCEPT !.edits = @ \cup {[client |-> d.client, clock |-> Clock(@, d.client),
                                 text |-> text]}]

\* import of a state.
ImportInto(d, s) == [d EXCEPT !.edits = Merge(@, s)]

-----------------------------------------------------------------------------
DocumentsInit ==
    /\ replica = [p \in Openers |-> None]
    /\ docs = [h \in Databases |-> None]
    /\ blobs = {} /\ written = 0 /\ used = {} /\ shared = {}

IsOpen(p) == replica[p] # None

\* Variant for mutation: the first Doc's number is used again.
NewClient_Kept == IF used = {} THEN Clients ELSE used

\* The numbers a Doc may get.
NewClient == Clients \ used

\* Variant for mutation: the stored state is not read.
Stored_Ignored(h) == {}

\* load_doc: the stored edits.
Stored(h) == IF docs[h] = None THEN {} ELSE docs[h].edits

\* load_doc, then from_bytes or new: either way a new Doc.
OpenDoc(p) ==
    /\ ~IsOpen(p)
    /\ \E c \in NewClient :
           /\ replica' = [replica EXCEPT ![p] = [client |-> c, edits |-> Stored(Home[p])]]
           /\ used' = used \cup {c}
    /\ shared' = IF \E q \in Openers \ {p} : Home[q] = Home[p] /\ IsOpen(q)
                 THEN shared \cup {Home[p]} ELSE shared
    /\ UNCHANGED <<docs, blobs, written>>

AppendEdit(p) ==
    /\ IsOpen(p) /\ written < MaxEdits
    /\ written' = written + 1
    /\ replica' = [replica EXCEPT ![p] = AppendText(@, written + 1)]
    /\ UNCHANGED <<docs, blobs, used, shared>>

Export(p) ==
    /\ IsOpen(p) /\ Cardinality(blobs) < MaxBlobs
    /\ blobs' = blobs \cup {replica[p].edits}
    /\ UNCHANGED <<replica, docs, written, used, shared>>

Import(p) ==
    /\ IsOpen(p)
    /\ \E s \in blobs : replica' = [replica EXCEPT ![p] = ImportInto(@, s)]
    /\ UNCHANGED <<docs, blobs, written, used, shared>>

\* merge_from: p imports what q exports at that moment.
MergeFrom(p, q) ==
    /\ p # q /\ IsOpen(p) /\ IsOpen(q)
    /\ replica' = [replica EXCEPT ![p] = ImportInto(@, replica[q].edits)]
    /\ UNCHANGED <<docs, blobs, written, used, shared>>

\* Variant for mutation: only the first replica imports.
Sync_OneWay(p, q) == MergeFrom(p, q)

\* sync: both states are exported before either is imported.
Sync(p, q) ==
    /\ p # q /\ IsOpen(p) /\ IsOpen(q)
    /\ replica' = [replica EXCEPT ![p] = ImportInto(@, replica[q].edits),
                                  ![q] = ImportInto(@, replica[p].edits)]
    /\ UNCHANGED <<docs, blobs, written, used, shared>>

\* save_doc: the whole state replaces the row.
SaveDoc(p) ==
    /\ IsOpen(p)
    /\ docs' = [docs EXCEPT ![Home[p]] = [edits |-> replica[p].edits]]
    /\ UNCHANGED <<replica, blobs, written, used, shared>>

DeleteDoc(p) ==
    /\ docs[Home[p]] # None
    /\ docs' = [docs EXCEPT ![Home[p]] = None]
    /\ UNCHANGED <<replica, blobs, written, used, shared>>

\* The process ends, saved or not.
Close(p) ==
    /\ IsOpen(p)
    /\ replica' = [replica EXCEPT ![p] = None]
    /\ UNCHANGED <<docs, blobs, written, used, shared>>

DocumentsNext ==
    \E p \in Openers :
        \/ OpenDoc(p) \/ AppendEdit(p) \/ Export(p) \/ Import(p)
        \/ \E q \in Openers : MergeFrom(p, q) \/ Sync(p, q)
        \/ SaveDoc(p) \/ DeleteDoc(p) \/ Close(p)

DocumentsSpec == DocumentsInit /\ [][DocumentsNext]_docVars

-----------------------------------------------------------------------------
\* The states of the document that exist anywhere.
States ==
    {replica[p].edits : p \in {q \in Openers : IsOpen(q)}}
        \cup {docs[h].edits : h \in {g \in Databases : docs[g] # None}} \cup blobs

Clocks(s, c) == {e.clock : e \in {f \in s : f.client = c}}

\* Type invariant of the replicas, rows and exported states (CrdtDocument).
\* What a state holds of a client is the edits before some clock, which is
\* what lets a state vector describe it.
DocumentsTypeOK ==
    /\ replica \in [Openers -> Docs \cup {None}]
    /\ docs \in [Databases -> [edits : SUBSET Edits] \cup {None}]
    /\ blobs \subseteq SUBSET Edits
    /\ written \in 0..MaxEdits
    /\ used \subseteq Clients
    /\ shared \subseteq Databases
    /\ \A s \in States, c \in Clients : \E n \in 0..MaxEdits : Clocks(s, c) = 0..(n - 1)

\* "updates merge deterministically regardless of order" (CrdtDocument,
\* crdt.rs:13-14): whatever was saved, exported late, or lost with a process
\* that had sent its edits before it saved them, any two states merge to the
\* same document in either order.
MergeCommutes == \A s, t \in States : Merge(s, t) = Merge(t, s)

\* sync leaves both replicas with the same document: one exchange is enough.
SyncConverges ==
    [][\A p, q \in Openers : Sync(p, q) => replica'[p].edits = replica'[q].edits]_docVars

\* save_doc overwrites the whole row, and still loses no edit that was saved,
\* as long as no two processes have the document of one database open.
SavedKept ==
    [][\A h \in Databases :
           h \notin shared' /\ docs[h] # None /\ docs'[h] # None
               => docs[h].edits \subseteq docs'[h].edits]_docVars
=============================================================================
