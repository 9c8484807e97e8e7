------------------------------ MODULE Messages ------------------------------
(***************************************************************************)
(* The tables of conversations, sessions, messages, media, sender keys and *)
(* devices (presidium-storage, store.rs; 0001_init.sql) used through       *)
(* several connections.                                                    *)
(*                                                                         *)
(* Every statement is atomic (SQLite, external); what takes several calls  *)
(* is not: insert_message reads the row id after its INSERT, a caller uses *)
(* the id later, and a listing is read page by page.  A statement that     *)
(* breaks a constraint fails and changes nothing.  Records hold the number *)
(* of the write that made them in place of their contents.                 *)
(***************************************************************************)
EXTENDS Sqleet, Sequences, FiniteSets

CONSTANTS Conversations, \* conversation and group ids
          Uids,          \* ids senders give to messages
          MediaIds, Devices,
          PageSize,      \* the limit given to list_messages
          MaxWrites      \* bound: statements that write

VARIABLES
    conversations, sessions, sender_keys, devices, media, \* rows by primary key
    messages,  \* rows by id, which AUTOINCREMENT counts up from 1
    job,       \* what the caller on each connection is in the middle of
    writes,    \* number of writes, which is also the time
    given      \* history: the record last given for each row, with the date of the
               \* first one for a conversation

msgVars == <<conversations, sessions, sender_keys, devices, media, messages,
             job, writes, given>>

-----------------------------------------------------------------------------
(* Records and rows. *)

Statuses == <<"Pending", "Sent", "Delivered", "Read", "Failed">>
Directions == {"Incoming", "Outgoing"}

StatusCode(s) == (CHOOSE i \in DOMAIN Statuses : Statuses[i] = s) - 1
DirectionCode(d) == IF d = "Incoming" THEN 0 ELSE 1

StatusFrom(code) == IF code \in 0..3 THEN Statuses[code + 1] ELSE "Failed"

\* The columns that only the INSERT writes (sender, ciphertext, header, content
\* type, date) are left out.
MessageRow(m) ==
    [conversation_id |-> Text(m.conversation_id), message_id |-> Blob(m.message_id),
     direction |-> I64(DirectionCode(m.direction)), status |-> I64(StatusCode(m.status))]

message_from_row(row) ==
    [conversation_id |-> GetOwned(row.conversation_id), message_id |-> GetOwned(row.message_id),
     direction |-> IF ColumnI64(row.direction) = 0 THEN "Incoming" ELSE "Outgoing",
     status |-> StatusFrom(ColumnI64(row.status))]

ConversationRow(r) ==
    [peer_classical |-> Blob(r.peer_classical), peer_pq |-> Blob(r.peer_pq),
     is_group |-> FromBool(r.is_group), created_at |-> I64(r.created_at)]
load_conversation(row) ==
    [peer_classical |-> GetOwned(row.peer_classical), peer_pq |-> GetOwned(row.peer_pq),
     is_group |-> GetBool(row.is_group), created_at |-> ColumnI64(row.created_at)]

\* A session may have no ratchet yet.
SessionRow(r) ==
    [is_initiator |-> FromBool(r.is_initiator), session_keys |-> Text(r.session_keys),
     ratchet_state |-> IF r.ratchet = None THEN Null ELSE Text(r.ratchet),
     last_used |-> I64(r.last_used)]
load_session(row) ==
    [is_initiator |-> GetBool(row.is_initiator), session_keys |-> GetOwned(row.session_keys),
     ratchet |-> IF Readable(row.ratchet_state) THEN GetOwned(row.ratchet_state) ELSE None,
     last_used |-> ColumnI64(row.last_used)]

\* A key of the table stands for group_id and sender_classical.
SenderKeyRow(r) ==
    [chain_key |-> Blob(r.chain_key), message_index |-> I64(r.message_index),
     key_id |-> I64(r.key_id), updated_at |-> I64(r.updated_at)]
load_sender_key(row) ==
    [chain_key |-> GetOwned(row.chain_key), message_index |-> ColumnI64(row.message_index),
     key_id |-> ColumnI64(row.key_id), updated_at |-> ColumnI64(row.updated_at)]

DeviceRow(r) ==
    [classical |-> Blob(r.classical), pq |-> Blob(r.pq), last_seen |-> FromOption(r.last_seen)]
list_devices(row) ==
    [classical |-> GetOwned(row.classical), pq |-> GetOwned(row.pq),
     last_seen |-> GetOption(row.last_seen)]

-----------------------------------------------------------------------------
MessagesInit ==
    /\ conversations = [k \in Conversations |-> None]
    /\ sessions = [k \in Conversations |-> None]
    /\ sender_keys = [k \in Conversations |-> None]
    /\ devices = [d \in Devices |-> None]
    /\ media = [m \in MediaIds |-> None]
    /\ messages = <<>>
    /\ job = [c \in Conns |-> None]
    /\ writes = 0
    /\ given = [conversations |-> conversations, sessions |-> sessions,
                sender_keys |-> sender_keys, devices |-> devices, messages |-> messages]

now == writes + 1

\* A statement that writes, on a connection whose caller is between calls.
Write(c) == job[c] = None /\ writes < MaxWrites /\ writes' = now

\* INSERT ... ON CONFLICT DO UPDATE SET of the columns cols.
Upserted(rows, k, row, cols) ==
    [rows EXCEPT ![k] = IF @ = None THEN row
                        ELSE [col \in DOMAIN row |-> IF col \in cols THEN row[col] ELSE @[col]]]

\* The columns an upsert of a conversation overwrites: created_at stays.
ConversationColumns == {"peer_classical", "peer_pq", "is_group"}

\* History: record r of conversation k, with the date of the first one.
Dated(r, k) ==
    IF conversations[k] = None THEN r
    ELSE [r EXCEPT !.created_at = given.conversations[k].created_at]

UpsertConversation(c) ==
    /\ Write(c)
    /\ \E k \in Conversations, is_group \in BOOLEAN :
           LET r == [peer_classical |-> now, peer_pq |-> now, is_group |-> is_group,
                     created_at |-> now]
           IN  /\ conversations' = Upserted(conversations, k, ConversationRow(r), ConversationColumns)
               /\ given' = [given EXCEPT !.conversations[k] = Dated(r, k)]
    /\ UNCHANGED <<sessions, sender_keys, devices, media, messages, job>>

\* Variant for mutation: SQLite's default, no enforcement.
ForeignKey_Off(k) == TRUE

\* REFERENCES conversations(id), with PRAGMA foreign_keys = ON.
ForeignKey(k) == conversations[k] # None

SaveSession(c) ==
    /\ Write(c)
    /\ \E k \in Conversations, is_initiator \in BOOLEAN, ratchet \in {now, None} :
           LET r == [is_initiator |-> is_initiator, session_keys |-> now, ratchet |-> ratchet,
                     last_used |-> now]
           IN  /\ ForeignKey(k)
               /\ sessions' = Upserted(sessions, k, SessionRow(r),
                                       {"is_initiator", "session_keys", "ratchet_state", "last_used"})
               /\ given' = [given EXCEPT !.sessions[k] = r]
    /\ UNCHANGED <<conversations, sender_keys, devices, media, messages, job>>

DeleteSession(c) ==
    /\ Write(c)
    /\ \E k \in Conversations :
           /\ sessions' = [sessions EXCEPT ![k] = None]
           /\ given' = [given EXCEPT !.sessions[k] = None]
    /\ UNCHANGED <<conversations, sender_keys, devices, media, messages, job>>

\* Variant for mutation: a rotated chain keeps the id of the old one.
SenderKeyColumns_NoKeyId == {"chain_key", "message_index", "updated_at"}

SenderKeyColumns == {"chain_key", "message_index", "key_id", "updated_at"}

\* The chain key and its position are one record.
UpsertSenderKey(c) ==
    /\ Write(c)
    /\ \E k \in Conversations :
           LET r == [chain_key |-> now, message_index |-> now, key_id |-> now, updated_at |-> now]
           IN  /\ sender_keys' = Upserted(sender_keys, k, SenderKeyRow(r), SenderKeyColumns)
               /\ given' = [given EXCEPT !.sender_keys[k] = r]
    /\ UNCHANGED <<conversations, sessions, devices, media, messages, job>>

UpsertDevice(c) ==
    /\ Write(c)
    /\ \E d \in Devices, last_seen \in {now, None} :
           LET r == [classical |-> now, pq |-> now, last_seen |-> last_seen]
           IN  /\ devices' = Upserted(devices, d, DeviceRow(r), {"classical", "pq", "last_seen"})
               /\ given' = [given EXCEPT !.devices[d] = r]
    /\ UNCHANGED <<conversations, sessions, sender_keys, media, messages, job>>

-----------------------------------------------------------------------------
(* Messages and what callers do with their row ids. *)

\* Row ids of the messages a WHERE on conversation and uid selects.
WithUid(k, uid) ==
    {i \in DOMAIN messages : /\ SqlEq(messages[i].conversation_id, Text(k))
                             /\ SqlEq(messages[i].message_id, Blob(uid))}

\* The INSERT of insert_message.  UNIQUE INDEX: the conversation has no message
\* with this uid.
InsertMessage(c) ==
    /\ Write(c)
    /\ \E k \in Conversations, uid \in Uids, direction \in Directions :
           LET m == [conversation_id |-> k, message_id |-> uid, direction |-> direction,
                     status |-> IF direction = "Incoming" THEN "Delivered" ELSE "Sent"]
           IN  /\ ForeignKey(k) /\ WithUid(k, uid) = {}
               /\ messages' = Append(messages, MessageRow(m))
               /\ given' = [given EXCEPT !.messages = Append(@, m)]
               /\ job' = [job EXCEPT ![c] = [pc |-> "inserted", conversation |-> k, uid |-> uid,
                                             rowid |-> Len(messages) + 1]]
    /\ UNCHANGED <<conversations, sessions, sender_keys, devices, media>>

\* Variant for mutation: the newest row of the table.
LastInsertRowid_Newest(c) == Len(messages)

\* last_insert_rowid is the connection's own.
LastInsertRowid(c) == job[c].rowid

Holds(k, uid, id) == [pc |-> "holds", conversation |-> k, uid |-> uid, id |-> id]

\* insert_message returns the row id to its caller.
ReturnRowId(c) ==
    /\ job[c] # None /\ job[c].pc = "inserted"
    /\ job' = [job EXCEPT ![c] = Holds(@.conversation, @.uid, LastInsertRowid(c))]
    /\ UNCHANGED <<conversations, sessions, sender_keys, devices, media, messages, writes, given>>

\* load_message_by_uid: a caller whose INSERT the unique index refused finds
\* the row of its earlier try.
LoadMessageByUid(c) ==
    /\ job[c] = None
    /\ \E k \in Conversations, uid \in Uids : \E i \in WithUid(k, uid) :
           job' = [job EXCEPT ![c] = Holds(k, uid, i)]
    /\ UNCHANGED <<conversations, sessions, sender_keys, devices, media, messages, writes, given>>

HoldsId(c) == job[c] # None /\ job[c].pc = "holds"

UpdateMessageStatus(c) ==
    /\ HoldsId(c) /\ writes < MaxWrites /\ writes' = now
    /\ \E s \in {Statuses[i] : i \in DOMAIN Statuses} :
           /\ messages' = [messages EXCEPT ![job[c].id].status = I64(StatusCode(s))]
           /\ given' = [given EXCEPT !.messages[job[c].id].status = s]
    /\ job' = [job EXCEPT ![c] = None]
    /\ UNCHANGED <<conversations, sessions, sender_keys, devices, media>>

load_media(row) == [message_id |-> GetOption(row.message_id)]
MediaRow(id, of) == [message_id |-> FromOption(id), of |-> of]

\* insert_media, for the message whose row id the caller holds, or for none
\* yet.  "of" is a history: the message the attachment is meant for.
InsertMedia(c) ==
    /\ writes < MaxWrites /\ writes' = now
    /\ \E a \in MediaIds :
           /\ media[a] = None
           /\ \/ /\ HoldsId(c)
                 /\ media' = [media EXCEPT ![a] = MediaRow(job[c].id,
                                                           <<job[c].conversation, job[c].uid>>)]
              \/ /\ job[c] = None
                 /\ media' = [media EXCEPT ![a] = MediaRow(None, None)]
    /\ job' = [job EXCEPT ![c] = None]
    /\ UNCHANGED <<conversations, sessions, sender_keys, devices, messages, given>>

list_media_for_message(id) == {a \in MediaIds : media[a] # None /\ SqlEq(media[a].message_id, I64(id))}

-----------------------------------------------------------------------------
(* Listing a conversation page by page. *)

\* Variant for mutation: the message at the end of a page begins the next one.
Before_Inclusive(id, before) == ~Readable(before) \/ id <= ColumnI64(before)

\* ?2 IS NULL OR id < ?2
Before(id, before) == ~Readable(before) \/ id < ColumnI64(before)

\* ORDER BY id DESC LIMIT ?3
Newest(ids, limit) ==
    LET rank(i) == Cardinality({j \in ids : j >= i})
        size == IF Cardinality(ids) < limit THEN Cardinality(ids) ELSE limit
    IN  [n \in 1..size |-> CHOOSE i \in ids : rank(i) = n]

list_messages(k, before, limit) ==
    Newest({i \in DOMAIN messages : /\ SqlEq(messages[i].conversation_id, Text(k))
                                   /\ Before(i, FromOption(before))}, limit)

\* A caller lists conversation k until a page is not full.  seen: the ids so
\* far; upto: the newest message when the listing began.
Listing(k, seen, page, upto) ==
    [pc |-> "listing", conversation |-> k, seen |-> seen \o page,
     done |-> Len(page) < PageSize, upto |-> upto]

StartListing(c) ==
    /\ job[c] = None
    /\ \E k \in Conversations :
           job' = [job EXCEPT ![c] = Listing(k, <<>>, list_messages(k, None, PageSize),
                                             Len(messages))]
    /\ UNCHANGED <<conversations, sessions, sender_keys, devices, media, messages, writes, given>>

IsListing(c) == job[c] # None /\ job[c].pc = "listing"

\* The next page is before the last message of the page before it.
NextPage(c) ==
    /\ IsListing(c) /\ ~job[c].done
    /\ LET j == job[c]
       IN  job' = [job EXCEPT ![c] =
                     Listing(j.conversation, j.seen,
                             list_messages(j.conversation, j.seen[Len(j.seen)], PageSize), j.upto)]
    /\ UNCHANGED <<conversations, sessions, sender_keys, devices, media, messages, writes, given>>

\* The caller is done, or its process ends in the middle.
EndJob(c) ==
    /\ job[c] # None
    /\ job' = [job EXCEPT ![c] = None]
    /\ UNCHANGED <<conversations, sessions, sender_keys, devices, media, messages, writes, given>>

MessagesNext ==
    \E c \in Conns :
        \/ UpsertConversation(c) \/ SaveSession(c) \/ DeleteSession(c)
        \/ UpsertSenderKey(c) \/ UpsertDevice(c)
        \/ InsertMessage(c) \/ ReturnRowId(c) \/ LoadMessageByUid(c)
        \/ UpdateMessageStatus(c) \/ InsertMedia(c)
        \/ StartListing(c) \/ NextPage(c) \/ EndJob(c)

MessagesSpec == MessagesInit /\ [][MessagesNext]_msgVars

-----------------------------------------------------------------------------
(* Types. *)

Column(type, S) == [type : {type}, v : S]

ConversationRows == [peer_classical : Column("blob", Nat), peer_pq : Column("blob", Nat),
                     is_group : Column("i64", {0, 1}), created_at : Column("i64", Nat)]
SessionRows == [is_initiator : Column("i64", {0, 1}), session_keys : Column("text", Nat),
                ratchet_state : Column("text", Nat) \cup {Null}, last_used : Column("i64", Nat)]
SenderKeyRows == [chain_key : Column("blob", Nat), message_index : Column("i64", Nat),
                  key_id : Column("i64", Nat), updated_at : Column("i64", Nat)]
DeviceRows == [classical : Column("blob", Nat), pq : Column("blob", Nat),
               last_seen : Column("i64", Nat) \cup {Null}]
MediaRows == [message_id : Column("i64", Nat) \cup {Null}, of : (Conversations \X Uids) \cup {None}]
MessageRows == [conversation_id : Column("text", Conversations), message_id : Column("blob", Uids),
                direction : Column("i64", {0, 1}), status : Column("i64", 0..4)]

Jobs ==
    [pc : {"inserted"}, conversation : Conversations, uid : Uids, rowid : 1..MaxWrites]
        \cup [pc : {"holds"}, conversation : Conversations, uid : Uids, id : 1..MaxWrites]
        \cup [pc : {"listing"}, conversation : Conversations, seen : Seq(1..MaxWrites),
              done : BOOLEAN, upto : 0..MaxWrites]

ASSUME BoundsAssumption == PageSize \in Nat \ {0} /\ MaxWrites \in Nat
ASSUME RowsAssumption ==
    /\ None \notin Nat /\ None \notin Conversations \X Uids /\ None \notin Jobs
    /\ None \notin ConversationRows \cup SessionRows \cup SenderKeyRows \cup DeviceRows \cup MediaRows

\* Type invariant of the rows and the callers, and of the rows that refer to
\* others: messages and sessions to a conversation, media to a message
\* (PRAGMA foreign_keys).
MessagesTypeOK ==
    /\ writes \in 0..MaxWrites
    /\ conversations \in [Conversations -> ConversationRows \cup {None}]
    /\ sessions \in [Conversations -> SessionRows \cup {None}]
    /\ sender_keys \in [Conversations -> SenderKeyRows \cup {None}]
    /\ devices \in [Devices -> DeviceRows \cup {None}]
    /\ media \in [MediaIds -> MediaRows \cup {None}]
    /\ messages \in Seq(MessageRows)
    /\ job \in [Conns -> Jobs \cup {None}]
    /\ \A i \in DOMAIN messages : conversations[GetOwned(messages[i].conversation_id)] # None
    /\ \A k \in Conversations : sessions[k] # None => conversations[k] # None
    /\ \A a \in MediaIds : media[a] # None /\ Readable(media[a].message_id)
                               => ColumnI64(media[a].message_id) \in DOMAIN messages

\* What a load returns is the record given last, every column of it, whichever
\* connection wrote it and whatever row was there before: None stays None, and
\* statuses and directions keep their meaning as numbers.  The one exception
\* is created_at of a conversation, which upsert_conversation leaves at the
\* first record's.
LoadsLastSave ==
    /\ \A k \in Conversations :
           /\ conversations[k] # None => load_conversation(conversations[k]) = given.conversations[k]
           /\ sessions[k] # None => load_session(sessions[k]) = given.sessions[k]
           /\ sender_keys[k] # None => load_sender_key(sender_keys[k]) = given.sender_keys[k]
    /\ \A d \in Devices : devices[d] # None => list_devices(devices[d]) = given.devices[d]
    /\ \A i \in DOMAIN messages : message_from_row(messages[i]) = given.messages[i]

\* insert_message returns the id of the caller's own row, although other
\* connections insert between its INSERT and last_insert_rowid; so do retries
\* through load_message_by_uid.  Media is listed under the message it was
\* inserted for, and media of no message under none.
RowIdsOwn ==
    /\ \A c \in Conns :
           HoldsId(c) => WithUid(job[c].conversation, job[c].uid) = {job[c].id}
    /\ \A i \in DOMAIN messages : \A a \in list_media_for_message(i) :
           media[a].of = <<GetOwned(messages[i].conversation_id), GetOwned(messages[i].message_id)>>
    /\ \A a \in MediaIds :
           media[a] # None => (load_media(media[a]).message_id = None <=> media[a].of = None)

\* list_messages "with keyset pagination (newest first)": the pages a caller
\* puts together are the messages there were when it began, each once, newest
\* first, while other connections insert.
PagesWhole ==
    \A c \in Conns : IsListing(c) =>
        LET seen == job[c].seen
            all == {i \in 1..job[c].upto :
                        GetOwned(messages[i].conversation_id) = job[c].conversation}
            left == all \ {seen[n] : n \in DOMAIN seen}
        IN  /\ \A n \in DOMAIN seen : seen[n] \in all /\ \A i \in left : i < seen[n]
            /\ \A m, n \in DOMAIN seen : m < n => seen[m] > seen[n]
            /\ job[c].done => left = {}
=============================================================================
