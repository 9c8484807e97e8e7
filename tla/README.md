# Presidium: TLA+ models, checks and proofs

Presidium is a peer-to-peer messenger. Its Rust core (`src/packages/core`) has a
crypto crate (PQXDH, Double Ratchet, sender keys), a storage crate on an
encrypted SQLite, a libp2p node, and `presidium-demo`, the program that puts
them together: two processes, an initiator and a responder, that shake hands,
chat 1:1 and in a group, and resume a saved session after a restart.

The TLA+ modules here are translated from that code. TLC checks them on small
instances; TLAPS proves the main results for all values of the constants.

## 1. Inventory of the system

| Part | State | Operations that change it | What makes it hard |
|---|---|---|---|
| Double Ratchet (`ratchet.rs`) | root key, two chains, skipped keys | `init`, `init_as_responder`, `encrypt`, `decrypt`, `dh_ratchet` | reordering, loss, the skip limit, errors after a chain has moved |
| Chat session (`session.rs`) | ratchet, peer identity, role | `encrypt`, `decrypt`, `persist`, `resume`, both handshake drivers | which DH step happens when; answers of different handshakes |
| Snapshot (`session_state.rs`) | flat copy of a ratchet | `from_ratchet`, `to_ratchet` | a field that is lost shows much later |
| Demo (`main.rs`) | `App`, `handshake_started`, `last_outgoing` | `handle_command`, `handle_event`, `handle_direct` | any error ends the process; kills between lasting effects; routing by first byte |
| Group chat (`group.rs`, `SenderKeys` in `keys.rs`) | sender and receiver chains, in memory | `create_sender`, `apply_group_key`, `publish`, `decrypt` | gossip loses and reorders; restarts forget keys |
| Key agreement (`pqxdh.rs`, `identity.rs`) | none of its own; the caller's identities, prekeys and bundles | `pqxdh_initiator`, `pqxdh_responder`, sealing and opening the first message | bundles grow old, ids are used again, messages are repeated |
| Node (`node.rs`) | control and events channels, swarm, pending requests | `subscribe`, `listen_addrs`, `dial`, `send_direct`, `publish`, `stop`, `run_loop`, `handle_swarm_event` | two tasks that wait for each other; timeouts that race answers |
| Message rows (`store.rs` of demo and storage) | status of each row | `insert_message`, `update_message_status` | outcomes arrive for other requests |
| Data directory (`store.rs` of demo, `database.rs`, `kdf.rs`) | salt file, database key and schema, identity row, prekey file | `NodeStore::open`, `run_migrations`, `load_or_create_identity`, `prekey` | a kill between any two writes, two processes on one directory |
| Prekeys (`store.rs` of storage, `presidium-sqleet`) | table, transactions, locks | `save_prekey`, `take_one_time_prekey`, `delete_prekey`, `Transaction` | statements of two connections interleave, commits fail |
| Other tables (`store.rs` of storage, values of `presidium-sqleet`) | conversations, sessions, messages, sender keys, media, devices | upserts, `insert_message`, `list_messages`, `update_message_status`, ... | a row id read after its INSERT, pages read while others insert, NULLs |
| Documents (`crdt.rs`, `docs` table) | replica, row | `append_text`, `export`, `import`, `merge_from`, `sync`, `save_doc` | concurrent edits, edits sent and then lost, whole-document saves |

How they interact: a command or an event runs one handler of the demo to its
end. The handler calls the session (ratchet), the store (rows), and the node
(requests into the control channel). The node's task turns commands into libp2p
requests and reports outcomes and inbound requests in the events channel. Each
start of a process has a fresh network identity; only the database survives.

`PROJECT.json` lists every part with its status, and the hazards of the code at
the lines where they bite.

## 2. Modules

| Module | Models | Kind |
|---|---|---|
| `DoubleRatchet` | `ratchet.rs`, `ChatSession::decrypt` | operators on values |
| `SessionState` | `session_state.rs` | operators on values |
| `SecureChannel` | what a 1:1 session promises | abstract specification |
| `RatchetChannel` | one established session over an unreliable network | state machine, refines `SecureChannel` |
| `DemoApp` | both demo processes: handshake, chat, saving, restarts | state machine on `SessionState` |
| `GroupChat` | sender keys, distribution, publishing, reading | state machine |
| `Delivery` | requests, outcomes and the rows they settle | state machine |
| `NodeLoop` | the two tasks and the bounded channels of a process | state machine |
| `Boot` | the start of a process on its data directory | state machine |
| `HybridKeys` | `identity.rs`: identities, signatures, hybrid KEM keys, bundles | operators on values |
| `Pqxdh` | `pqxdh.rs` with callers that replace prekeys | state machine |
| `PrekeyPool` | what the store of prekeys does, one step per call | abstract specification |
| `Prekeys` | the prekeys table used through several connections | state machine, refines `PrekeyPool` |
| `Sqleet` | bound values and columns (`presidium-sqleet`) | operators on values |
| `Messages` | conversations, sessions, messages, media, sender keys, devices | state machine |
| `Documents` | CRDT replicas and the rows that keep them | state machine |
| `Options` | the value `None` that modules share | constant |
| `RatchetChannelProofs` | `RatchetChannel` | proofs |
| `StorageProofs` | `Prekeys`, `Messages` | proofs |
| `PqxdhProofs` | `Pqxdh`, `HybridKeys` | proofs |
| `NodeProofs` | `NodeLoop`, `Delivery` | proofs |
| `AppProofs` | `Boot`, `GroupChat`, `Documents` | proofs |
| `DemoAppProofs`, `DemoHandshakeProofs`, `DemoSafetyProofs` | `SessionState` and `DemoApp`, each building on the one before | proofs |
| `MC*` | values for the constants | instances for TLC |

Definitions whose name ends in an underscore and a remark (`Persist_Once`) are
variants with a plausible bug. No specification uses them: each shows that a
property notices such a bug.

**Data.** Keys are symbolic: a derived key is the record of its derivation, so
two keys are equal exactly when their derivations are. A ciphertext is the key,
nonce, header and text it was sealed with, and opens only under the same key,
nonce and header. Signatures of the two devices verify. Texts are numbered.

**DoubleRatchet.** `Encrypt` and `Decrypt` return the new ratchet with the
result. The loop that skips keys is given in closed form: `Pushes` keys are
pushed, the chain moves one step less if the last push hit the limit. `Decrypt`
keeps the code's order: skipped key first, then the missing chain, the limit,
and the chain moved before the tag is checked. Used keys stay in the list, as in
the code.

**RatchetChannel.** One action per operation: `Send`, `SendFails` (no peer key),
`Receive`, `Lose`. A request travels on a substream of its own, so envelopes
overtake each other and get lost but are not duplicated.

**DemoApp.** `app[p]` is the `App` of the running process; `disk[p]` is the row
that `persist` writes and `resume` reads; `net` holds requests addressed to one
run of a party. Each branch of `handle_direct` is an action, and so are
`PeerConnected`, `Command`, `Start` and `Quit`. A handler's lasting effects are
ordered. The parameter `cut` says how many of them happened before a kill. The
surroundings of a behaviour are a record of `Settings`: its bounds, the handlers
in which kills are considered (`kills`), the `faults` (quits, lost requests, and
failed saves whose error the code ignores), and the first bytes a chat ciphertext
may have (`bytes`), since routing looks at them: a ciphertext that begins with 0
passes for a bundle request, one of 33 bytes that begins with 3 for a ratchet key
(`KeyLike`), and other marker bytes give an error. The history variable `mishaps`
remembers three things that spoil what would else hold, and the run they happened
in: `misread`, a ciphertext was taken for a message of the handshake; `unsaved`, a
message was sent and the session not saved; `lost`, a message of the handshake
never arrived. The rows of outgoing messages are in `Delivery`. A completed PQXDH run is a secret both sides know, which
`Pqxdh` justifies.

**GroupChat.** One publisher and one reader; a chain key is the key it began
with and the steps taken. `Publish` moves the chain whether or not gossipsub
takes the message.

**Delivery.** `HandleEvent` sees only the kind of an event, as the code does. The
peer's process is there too: its node answers a request before the application
has seen it (`RemoteAccepts`), the application shows it later (`RemoteHandles`),
and the process may end in between (`RemoteEnds`). `RemoteHandles` shows a text or
takes its ciphertext for a bundle request; which of the two depends on a byte that
is as good as random. The history variables `requests`, `accepted`, `failed`,
`shown`, `lost`, `misread` and `overlapped` remember what really happened.

**NodeLoop.** `todo` holds the commands a handler has still to send, `emitting`
the events the node's handler has still to hand over; each waits for room.
`listen_addrs` waits for an answer as well. Every branch of `handle_swarm_event`
is an action; an address found by mDNS is dialled after its event is out, if
`auto_dial` is set. `stop` is not called by the demo; the network tests call it.

**Pqxdh.** The functions keep no state, so the module adds the callers: they
replace signed prekeys (`RotateSigned`), add and take one-time prekeys, publish
bundles, and call both sides. `runs` and `answers` record the successful calls.
A run may use any bundle published so far, or one mixed from parts of two
(`Offered`); an answer may be to any message, also a repeated one or one for
somebody else. A taken prekey is gone whether or not the answer succeeds
(`Refuse`). ML-KEM gives an unrelated secret, not an error, for a wrong key, so
disagreement shows only when the first message does not open. A signed prekey
carries a signature of its own. `bundle_bytes` does not cover it and nothing
verifies it, so a mixed bundle may carry that of another prekey; `Covered` is the
part the bundle's signature vouches for. In `src` only the tests pass a one-time
prekey or open a first message: `OpenedOnce` is about the functions of the crate,
not about the demo.

**Messages.** A statement is atomic; what takes several calls is not. `job[c]` is
what the caller on a connection is in the middle of: it has inserted a row and
not read its id, holds an id, or is reading pages. Records hold the number of the
write that made them in place of contents, column by column; an upsert replaces
the columns its SQL names (`ConversationColumns` leaves out `created_at`). `given`
remembers what a caller gave, so a load can be compared with it. Constraints (foreign keys, unique ids) make
statements fail.

**Documents.** A document is the set of its edits, each named by client and clock.
A new client number for every `Doc` is what Yrs does; that it is never used again
is assumed. `Close` loses what was not saved, also edits that were exported.

**Boot.** `salt`, `db` and `bundle` are what is on disk; `proc[p].pc` is the next
step of `NodeStore::open`, `run_migrations` or `prekey`. `std::fs::write` is two
steps, so a kill can leave an empty file (`Short`). What a migration has written
is staged in the process until `Commit`. A process ends as `busy` when a lock was
held, and as `failed` when the same start would fail again. Two history variables
say when the code makes no promise: `raced`, two starts met before the directory
was complete; `torn`, a process was killed while it filled a file.

**Prekeys.** `take_one_time_prekey` is one action per statement: `Begin`,
`Select`, `DeleteRow`, `Commit` (or `CommitEmpty`, `CommitFails`), `Return`.
SQLite is external and modelled by its locking in WAL mode: a transaction reads
the snapshot of its first `SELECT`, and may write only while that snapshot is
the newest state and nobody else writes. `CommitFails` shows why the journal
mode matters: `Transaction::commit` sets `done` before it sends `COMMIT`, so a
refused commit is not rolled back by the drop; WAL mode leaves nothing open. The
prekey taken is the one of the least id, as in the code; `PrekeyPool` says the
same in one step, and `TakesOldest` states what the documentation says instead.

## 3. Runs

| Run | Checks | Result |
|---|---|---|
| `ratchet_channel` | `InFlightReadable`, `SkippedKeysBounded`, `ImplementsChannel` | hold |
| `demo_app` | `TypeOK`, `KeysPaired`, `PlainNeverFails`, `SavedKeyUsedOnce`, `SavedIsCurrent`, `ReadableAcrossRestarts`, `CrashLosesOneRow`, `HandshakeCompletes` | hold |
| `pqxdh` | `Agreement`, `OpenedOnce`, `WholeBundles` | hold |
| `messaging` | direct messages: `StatusTrueAlone`, `StatusFinal`, `RowsSettle`, `AnsweredIsShown`; group messages: `ShownIsPrefix` | hold |
| `node_loop` | `LoopTypeOK`, `RequestsAccounted`, `TasksProgress`, `StopCompletes` | hold |
| `boot` | `SchemaWhole`, `DatabaseOpens`, `OneIdentity`, `BootRecovers`, `InstallKept` | hold |
| `storage` | prekeys: `HandedOutOnce`, `NothingLeftOpen`, `ImplementsPool`; messages: `MessagesTypeOK`, `LoadsLastSave`, `RowIdsOwn`, `PagesWhole`; documents: `MergeCommutes`, `SyncConverges`, `SavedKept` | hold |
| `ratchet_replies` | `RepliesReadable` | violated |
| `demo_crash` | `KeyUsedOnce` | violated |
| `demo_routing` | `HandshakeNeverFails` | violated |
| `group_sync` | `StaysInSync` | violated |
| `prekey_order` | `TakesOldest` | violated |

The type invariants that no run lists are proved (section 4) and are not part
of a run.

What the passing runs show:

- *ratchet_channel*: whatever is lost or overtaken, a message of the initiator
  that may still arrive can be read, unless the skip limit is hit; a process
  that runs never holds more skipped keys than the limit; seen from the users
  the session is a channel that loses and reorders, and does nothing else.
- *demo_app*: in three surroundings. With quits, losses, and kills while a PREKEY
  or a chat message is being handled, the keys of two handshakes never mix, no
  process fails on a message it was sent, the saved session is the live one, and
  connected processes get their session unless a message of that very handshake
  is lost. A crash costs at most the row of the one text being handled. With
  ciphertexts that begin with marker bytes, a misread ciphertext can start a
  second handshake and mix the keys of two; `KeysPaired` and
  `ReadableAcrossRestarts` hold until then, and message keys are used once even
  after it. With kills between sending and saving, and with failed saves, only
  the party that did not save can use a key twice (`SavedKeyUsedOnce`), and only
  the initiator's omission makes a message to the responder unreadable.
- *pqxdh*: both sides have one secret exactly if the responder used the private
  keys of the bundle the initiator saw. A message that used a one-time prekey is
  opened at most once, also when its id is in use again. Bundles mixed from two
  are refused, up to the signature inside the signed prekey.
- *messaging*: a settled row stays as it is. Statuses are true and rows get
  settled as long as requests do not overlap. A text the peer's node has answered
  is shown, unless the peer's process ends first or takes the ciphertext for a
  bundle request. A reader of the group sees a prefix of what was published under
  a key.
- *node_loop*: with channels that do fill up, every wait of the two tasks and of
  `stop` ends, except in the state `Deadlocked`: both channels full and each task
  waiting for the other, or the events channel full while the application waits
  for `listen_addrs`. No other deadlock or endless wait exists.
- *boot*: tables and schema version always agree. Unless first starts meet, the
  salt on disk opens the database, all processes use one identity, saved keys
  never change, and only a kill in the middle of filling a file makes later
  starts fail.
- *storage*: whatever two connections do between the statements, a prekey goes
  to one caller, taking it is one atomic step, and no failed call leaves a
  transaction or a lock behind. A caller gets the id of its own row; pages add up
  to the listing as it was when reading began; loads return the last save whole,
  and a conversation keeps the date of its first. Replicas agree after one
  exchange, states merge in any order, and a save loses no saved edit unless two
  processes share the document.

What the violations show (quotations are in `PROJECT.json`):

- *ratchet_replies*: the initiator knows the responder's ratchet key from the
  handshake, so `ChatSession::decrypt` never steps its DH ratchet, and an answer
  ends in "No receiving chain established". The unit test calls `dh_ratchet`
  itself.
- *demo_crash*: the envelope is sent before the session is saved; a kill in
  between makes the next run seal another text under the same key and nonce. A
  failed save, whose error is dropped, has the same effect.
- *demo_routing*: a ciphertext that starts with 0 to 4 is taken for a handshake
  message.
- *group_sync*: after one lost group message the reader's chain stays behind.
- *prekey_order*: the documentation of `take_one_time_prekey` says "oldest"; the
  code orders by id, which callers choose and may use again.

Other results of this kind have no run of their own:

- `StatusTrue` of `Delivery` fails when requests overlap: the first outcome to
  arrive settles the last row, whichever request it belongs to.
  `StatusTrueAlone` is what remains.
- `TasksProgress` and `StopCompletes` of `NodeLoop` fail without the exception
  `Deadlocked`, for any capacities: with both channels full each task awaits the
  other. With the capacities of the code it takes 256 waiting events, and
  64 waiting commands or a call of `listen_addrs`.
- `HandshakeCompletes` fails without the exception for a lost message of the
  handshake: none is repeated.
- `KeysPaired` fails once ciphertexts are misread. Two that begin with 0 reach
  the responder, which answers each with a BUNDLE; `send_prekey` overwrites the
  pending secret, and the answer to the first PREKEY is combined with the second
  secret. Three secrets are enough: one for the session that seals the texts and
  two for the bundles. One ciphertext of 33 bytes that begins with 3 does the
  same where a secret is pending. `ReadableAcrossRestarts` then fails as well.
- `AnsweredIsShown` fails without `misread`: a row says Delivered and the peer
  has shown nothing.
- `SavedKept` fails for documents that two processes of one database have open:
  the later save overwrites the earlier.
- A kill between printing a text and inserting its row loses the row;
  `CrashLosesOneRow` states how much is lost.
- Without `~raced`, `DatabaseOpens`, `OneIdentity` and `InstallKept` fail: two
  first starts on one directory may overwrite each other's salt or identity.
  Without `torn`, `BootRecovers` fails: an empty salt or prekey file is never
  replaced.

### Bounds

- `ratchet_channel`: more messages than `MaxSkip`, so that the limit is reached,
  and messages from both sides, so that replies fail.
- `demo_app`: two runs or more of the initiator, up to three texts of it (the
  greeting is one) and one of the responder, `MaxSkip = 1`, so that a kept
  skipped key, a limit error and a resumed session meet. With marker bytes: 0
  (asks for a bundle again), 3 (a ratchet key, of the right length or not), and 5
  for every other byte. Three secrets there allow two handshakes beside the first
  and so the mixing of their keys, which `mishaps` excuses; without that excuse
  TLC finds `KeysPaired` and `ReadableAcrossRestarts` violated in this run. The
  bound on secrets cuts off the endless re-handshakes that byte 0 may cause.
- `messaging`: a behaviour is about direct or about group messages, which share
  no state. Group: two keys, three messages each: a message of an old key can meet
  a new one, and a gap has messages after it. Direct: two texts and one request
  without a row, three under way, one restart; the peer may end at any time.
- `pqxdh`: two responders, two ids, four key pairs, two bundles, runs and
  answers: a prekey is replaced under its id between bundle and answer, a
  message is repeated, and goes to the wrong responder.
- `node_loop`: two places for commands and one for events, so that both channels
  fill up; one typed line and two unasked events.
- `boot`: two processes and four starts: two first starts that meet, or a kill,
  each followed by two more starts.
- `storage`: a behaviour uses the prekeys, the messages or the documents, which
  share no table. Prekeys: two connections, two ids and three prekeys, so an id
  is used again while the other connection still holds the old row, and
  "least id" has a choice. Messages: two conversations, two message ids, four
  writes, pages of one. Documents: two processes of one database and one of
  another, three clients, two edits, one state in transit: an edit can be sent,
  lost and made again by another client.

`CHECK_DEADLOCK FALSE` is set where the system may rest: users need not type,
and the bounds run out.

### Fairness

- `DemoApp`: a connection that stays up is reported, and a message of the
  handshake that is not lost arrives and is handled: the event loop runs, and the
  node delivers each request or reports its failure. Chat messages need not
  arrive, and nothing obliges a user to type, quit or start.
- `Delivery`: libp2p answers each request or reports its timeout
  (`request_timeout`), and both applications take events. The remote node need
  not answer.
- `NodeLoop`: weak fairness for the application's steps and for completing
  `emit`. Strong fairness for taking commands and for outcomes of requests:
  `tokio::select!` picks a ready branch at random, so none is passed over for
  ever. Neither users nor peers are bound to act.
- `Boot`, `Pqxdh` and the storage modules assume none. Nothing in the code
  schedules a retry, a sync or a save, so there is nothing to hope for.

## 4. Proofs

The safety properties of the passing runs are proved, for all values of the
constants: any number of processes, connections, runs, texts, keys and rows, any
skip limit, channel capacity and page size. Two theorems about the demo are
weaker than the properties their run checks: `KeysUsedOnce` and
`RestartsLoseNoMessage` assume that both parties have always saved, where
`SavedKeyUsedOnce` and `ReadableAcrossRestarts` ask it of one. `PROJECT.json` says which property each theorem states. A leaf cites `Zenon`
where first-order reasoning is enough; the others are left to the SMT solver.

### One session: `RatchetChannelProofs`

`SessionTypes`, `MessagesStayReadable`, `SkipListBounded` and `SessionIsChannel`
(refinement of `SecureChannel`). `InFlightReadable` is not inductive by itself:
it says nothing of how a key got into the list. The inductive invariant `IInv`
says exactly what each ratchet is: the initiator's is the one after
`Len(sent["I"])` messages (`InitiatorInv`); the responder's is fresh, or it
stands at some position of the same chain, every kept key is the key of its
number, and every number on its way is ahead of the chain or has its key kept
(`ResponderInv`); and an envelope on its way is what its sender sealed under
that number (`NetInv`). Lemmas say what `Encrypt`, `SkipTo`, `Decrypt` and
`SessionDecrypt` do on such states.

### The demo: `DemoAppProofs`, `DemoHandshakeProofs`, `DemoSafetyProofs`

`DemoAppProofs` begins with values. `SnapshotRoundTrip`: a ratchet whose chains
are well-formed is rebuilt from its snapshot exactly, and the snapshot always
loads. A session is determined by its secret, the ratchet key its peer sent, and
how far its chains have got (`InitiatorAt`, `ResponderAt`). Lemmas say what
encrypting, decrypting, saving and loading do to such a session, among them that
a message whose number is `Unread` opens unless too many keys would be skipped
(`ResponderReads`), and that opening one message keeps all other numbers unread
(`ResponderOpens`).

Then the processes. `StateInv` is an invariant: what a process holds and has
saved is such a session, and a request under way was made by the right side for
a live run. The handlers are many and long, so each is summed up once: `Step`
lists in a few cases what any of them does to sessions, rows, secrets and
requests (`Starts`, `Stopped`, `Passes`, `Says`, `AsksBundle`, `AnswersBundle`,
`SendsPrekey`, `TakesPrekey`, `Greets`, `Reads`), with what is noted in `mishaps`.
The lemma `Steps` derives `Step` from `Next`. The proofs about sessions and keys
use `Step` and do not open a handler again. The first of them is
`SessionsAreSaved`: the session in memory is the one that would be resumed, with
every kill and restart, unless a save of this run failed.

`DemoHandshakeProofs` proves two theorems about the handshake. Their invariants
hold as long as no ciphertext was misread, or none can be (`Straight`), and a
mishap once noted stays noted.

- `SecretsMeetTheirKeys` (`KeysPaired`). The run of the initiator that is up has
  at most one handshake message under way, from it or to it, and that message
  fits what the run waits for (`TokenInv`). So the ratchet key it accepts is the
  one made for its secret, and everything it seals uses that key (`PairedInv`).
- `PlainHandshakeNeverFails` (`PlainNeverFails`). `ReadyInv` says what the
  receiver of a request has: a session for a group key, a row on both sides for a
  chat message.

`DemoHandshakeProofs` ends, and `DemoSafetyProofs` begins, with the keys of
messages. The latter proves four theorems.

- `KeysUsedOnce`: `KeyUsedOnce` as long as no party has sent a message without
  saving its session (`Safe`); misread ciphertexts are no exception. The run
  `demo_crash` shows that the condition is needed. Secrets are numbered, so a new
  one differs from all in use (`NumInv`). What a side has sealed has a number
  below the next one of its row; a PREKEY message under way is the only one for
  its secret, and the responder has no session with that secret yet (`Spent`,
  `OnceInv`). A session the initiator establishes, be it with a key it misread,
  has a secret nothing was sealed under (`Greets1`). So a sealed message
  always has a new key (`NewKeys`).
- `RestartsLoseNoMessage`: `ReadableAcrossRestarts`, under `Safe` for the same
  reason: a number that is used for a second text cannot be read twice. The
  responder's row has moved to a message that was sent and not beyond
  (`LastRead`), and each message under way is unread in it (`ReadInv`). That
  reading one message spares the others needs `KeyUsedOnce`: two messages with
  one number would be one message. The property itself ends with the first
  misread ciphertext, which starts a second handshake in the middle of a session.
- `DemoTypes` (`TypeOK`).
- `OneRowPerCrash` (`CrashLosesOneRow`): `HistInv` adds that no
  text was shown by a run that is yet to come. A handler that shows a text and
  does not store it ends the run, so nothing else of that run can be missing
  (`Displays`).

### Storage: `StorageProofs`

*Prekeys*: `PrekeyTypes`, `PrekeyHandedOutOnce`, `TransactionsEnd` and
`TakeIsAtomic` (refinement of `PrekeyPool`). `HandedOutOnce` alone says nothing
of a call that is about to return. The inductive invariant `PrekeysInv` adds that
no two rows hold the same prekey and no row holds a taken one (`KeyInv`); that
what a call has found is still the prekey of the least id in the table as long as its
snapshot is the newest state, and always once it has deleted the row
(`ConnInv`); that whoever holds the lock is about to commit (`LockInv`); and that
a prekey about to be returned is taken, not yet handed out and in no other call
(`ReturnInv`, `HandedInv`). The proof uses `JournalMode = "WAL"` and SQLite's
refusal to write on an old snapshot; without the latter the step for `DeleteRow`
does not go through.

*Messages*: `ReferencesHold`, `LoadsReturnLastSave`, `RowIdsAreOwn`
and `PagesAreWhole`. `MessagesInv` says what the rows of each table
decode to (`TableInv`, `RowInv`), that no two rows are the same message, which
row the id a caller holds names and which rows the pages of a listing hold
(`JobInv`), and which message an attachment refers to (`MediaInv`). Lemmas about
`ORDER BY id DESC LIMIT` say that a page has the rows of the first ranks, so that
the next page goes on where it ended.

### Key agreement: `PqxdhProofs`

`PqxdhTypes`, `SecretsOfBundle`, `OneTimeMeansOnce` and `BundlesWhole`. Lemmas about `HybridKeys` say that different key pairs have
different public keys, that decapsulation gives the secret exactly for the right
key pair, and that a bundle mixed from two verifies only if all that its signature
covers is from one. From them
`SecretsAgree` compares the five parts of both master secrets. The invariant says
that every recorded call is the result of the function on keys that existed
(`RunInv`, `AnswerInv`), every bundle was issued (`BundleInv`), and that a
one-time key pair an answer used is in no store any more and in no other answer
(`TakenInv`), which is what `OneTimeMeansOnce` needs.

### The node and its requests: `NodeProofs`

*NodeLoop*: `ChannelsBounded` and `RequestsNeverLost`. The invariant is the
property with the types; what needs proof is how `Append` and `Tail` change the
number of requests in a channel.

*Delivery*: `DeliveryTypes`, `AloneIsTrue` and `SettledOnce`. While requests do
not overlap, `last_outgoing` names the row of the one request under way, in the
node or as an event (`Awaited`). `SettledOnce` needs that a remembered row is
still `Sent`.

### Start, group chat and documents: `AppProofs`

*Boot*: `BootTypes`, `SchemaAlwaysWhole`, `SaltFitsDatabase`, `OneInstallation`,
`StartsRecover` and `InstallationKept`. The argument: unless first starts met, a
process that is not alone in starting finds a complete installation and only
reads (`AloneInv`, lemma `MakesAlone`), so what a process found missing is still
missing when it writes it (`FirstInv`). `LockInv` ties a running migration to
the lock, `FileInv` a short file to the process that fills it.

*GroupChat*: `GroupTypes` and `GroupShowsPrefix`. `GroupInv` ties the sender's
position to the length of `published`, the reader's to the length of `shown`,
says that a distribution under way is a key at position zero that nobody has read
under, and that gossip under way is what was published at its position.

*Documents*: `DocumentTypes`, `UpdatesCommute`, `OneSyncConverges` and
`SavesKeepEdits`. `MergeCommutes` holds because no two edits share client and
clock; that is not inductive alone. `OwnInv` adds that an open `Doc` holds all
edits of its client wherever else they are, so its next clock is new. `HomeInv`
says that the one replica of a document that is not shared has what is stored.

### Assumptions, and what is only model-checked

Assumptions are the named `ASSUME`s: bounds and ids are naturals, channels and
pages have room for at least one entry, the surroundings of `DemoApp` name
handlers and faults that exist (`SettingsAssumption`), and `None` differs from
every other value. Two of these go beyond the model's bookkeeping: the code's
channels have 64 and 256 places, and `list_messages` with a limit of 0 would
return no page to go on from.

Only model-checked are the liveness properties (`HandshakeCompletes`,
`RowsSettle`, `AnsweredIsShown`, `TasksProgress`, `StopCompletes`), since
fairness and `ENABLED` are out of the prover's reach, and the violated
properties.

## 5. Not modelled

- The cryptographic primitives: used symbolically. `crypto_box.rs`,
  `serialization.rs`, `pqxdh_derive_keys`, `MediaKey` and the counters of
  `SessionKeys` have no callers in the repository.
- The wire codec: it reads and writes length-prefixed frames, has the same limit
  on both sides and keeps no state. A refused frame is an `OutboundFailure`.
- The order of the text in a document: it is Yrs's function of the edits.
- Freeing handles in `presidium-sqleet` (`close`, then `Drop`).
- libp2p itself, discovery, topics and configuration: external, or without
  state of their own.
- Protobuf (generated), the vendored SQLite engine, and the stubs
  `presidium-sync`, `presidium-media` and `presidium-ffi`.
- Printing commands (`@info`, `@history`).

## 6. Plan

1. A composition of `DemoApp` and `Delivery`, so that a status relates to what
   the peer's session could decrypt and not only to what it was handed.
2. Groups with more than one publisher.
