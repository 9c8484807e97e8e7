------------------------------ MODULE DemoApp ------------------------------
(***************************************************************************)
(* The two processes of presidium-demo (main.rs, session.rs): the          *)
(* handshake, the 1:1 chat, the saved sessions and restarts.               *)
(*                                                                         *)
(* "I" is the initiator, "R" the responder.  Every start of a process gets *)
(* a new network identity, so an envelope is addressed to a run of a       *)
(* party, <<party, run>>, and never reaches a later run.  The devices'     *)
(* long-term identities do not change; signatures and bundles verify.      *)
(*                                                                         *)
(* A handler is one action.  Its lasting effects (a saved row, a request   *)
(* handed to the node) have an order, and a process may be killed after    *)
(* any number of them: "cut" is how many took place.                       *)
(***************************************************************************)
EXTENDS SessionState

CONSTANT Settings \* the surroundings a behaviour may have, see below

Parties == {"I", "R"}

\* The sync markers; a chat ciphertext starts with any byte at all.  One that
\* starts with 3 may also be as long as a ratchet key is (KeyLike).
BundleReq  == 0
Bundle     == 1
Prekey     == 2
RatchetPub == 3
GroupKey   == 4
OtherByte  == 5
KeyLike    == 6

\* runs, texts, secrets: bounds on the starts of each party, on the texts its
\* user types and on the PQXDH runs; bytes: the first bytes of chat
\* ciphertexts; kills: handlers in whose middle a process may be killed;
\* faults: what else may go wrong.
ASSUME SettingsAssumption ==
    \A s \in Settings :
        /\ s.runs \in [Parties -> Nat] /\ s.texts \in [Parties -> Nat] /\ s.secrets \in Nat
        /\ s.bytes \subseteq BundleReq..KeyLike /\ OtherByte \in s.bytes
        /\ s.kills \subseteq {"prekey", "ratchet_pub", "chat", "command"}
        /\ s.faults \subseteq {"quit", "loss", "save"}

VARIABLES
    setting,  \* the surroundings of this behaviour
    status,   \* status[p]: "off", "up", or the error that ended the process
    run,      \* run[p]: how often p was started
    app,      \* app[p]: the App of the running process
    disk,     \* disk[p]: the session row of the conversation
    net,      \* requests on their way to a live run
    secrets,  \* how many PQXDH secrets were agreed on so far
    typed,    \* history: typed[p] texts were sealed and sent by p
    sealed,   \* history: the ciphertexts that were sent
    shown,    \* history: shown[p] are the texts p's user has seen, and in which run
    rows,     \* rows[p]: the texts stored as incoming messages of p
    mishaps   \* history: <<"misread", id>>, run id took a chat ciphertext for a message
              \* of the handshake; <<"unsaved", id>>, it sent one and did not save its
              \* session; <<"lost", id>>, a message of its handshake was lost

vars == <<setting, status, run, app, disk, net, secrets, typed, sealed, shown, rows, mishaps>>

-----------------------------------------------------------------------------
NewApp == [peer |-> None, session |-> None, pending |-> None,
           started |-> FALSE, sender |-> None, receiver |-> None]

Me(p) == <<p, run[p]>>
Alive(id) == status[id[1]] = "up" /\ run[id[1]] = id[2]

\* Keys of the PQXDH run number n.
Secret(n)        == <<"pqxdh", n>>
RatchetKey(p, s) == <<p, s[2]>>
SenderKey(s)     == <<"group", s[2]>>

SyncEnvelope(p, to, marker, body) ==
    [from |-> Me(p), to |-> to, marker |-> marker, body |-> body,
     header |-> None, ciphertext |-> None]

\* A ciphertext that reads like a ratchet key is one nobody has.
ChatEnvelope(p, to, byte, out) ==
    [from |-> Me(p), to |-> to,
     marker |-> IF byte = KeyLike THEN RatchetPub ELSE byte,
     body |-> IF byte = KeyLike THEN <<p, 0>> ELSE None,
     header |-> out.header, ciphertext |-> out.ciphertext]

\* The messages of the initiator's handshake driver.
RequestBundle(p) == SyncEnvelope(p, app[p].peer, BundleReq, None)
SendPrekey(p, secret) == SyncEnvelope(p, app[p].peer, Prekey, secret)

\* SessionKeys::new and to_ratchet on both sides of a finished PQXDH run.
SessionKeys(secret) == RootKey(secret)
InitiatorSession(p, secret, public) ==
    InitInitiator(SessionKeys(secret), RatchetKey(p, secret), public)
ResponderSession(p, secret) == InitResponder(SessionKeys(secret), RatchetKey(p, secret))

\* InitiatorHandshake::establish
Establish(p, public) == InitiatorSession(p, app[p].pending, public)

\* A request to a run that is gone never arrives.
Sending(envelopes) == {e \in envelopes : Alive(e.to)}

\* The tables of the store: one session row per conversation, which a save
\* replaces, and one row per message received.
SaveSession(p, snapshot) == [disk EXCEPT ![p] = snapshot]

LoadSession(p) == disk[p]

InsertMessage(p, text) == [rows EXCEPT ![p] = @ \union {text}]

\* session::resume and rebuild_ratchet
Resume(p) == IF LoadSession(p) = None THEN None ELSE ToRatchet(LoadSession(p))

\* The process of p ends: its memory and what was addressed to it are gone.
Ends(p, reason, requests) ==
    /\ status' = [status EXCEPT ![p] = reason]
    /\ app' = [app EXCEPT ![p] = NewApp]
    /\ net' = {e \in requests : e.to # Me(p)}

\* A handler that has "last" lasting effects is carried out up to "cut".
Handled(p, handler, cut, last, newApp, requests) ==
    /\ cut \in 0..last
    /\ IF cut = last
       THEN /\ app' = [app EXCEPT ![p] = newApp]
            /\ net' = requests
            /\ UNCHANGED status
       ELSE /\ handler \in setting.kills
            /\ Ends(p, "off", requests)

\* Variant for mutation: only the first session of a conversation is saved.
Persist_Once(p, happens, ratchet) ==
    disk' = IF happens /\ disk[p] = None THEN SaveSession(p, FromRatchet(ratchet)) ELSE disk

\* ChatSession::persist
Persist(p, happens, ratchet) ==
    disk' = IF happens THEN SaveSession(p, FromRatchet(ratchet)) ELSE disk

-----------------------------------------------------------------------------
Init ==
    /\ setting \in Settings
    /\ status = [p \in Parties |-> "off"]
    /\ run = [p \in Parties |-> 0]
    /\ app = [p \in Parties |-> NewApp]
    /\ disk = [p \in Parties |-> None]
    /\ net = {}
    /\ secrets = 0
    /\ typed = [p \in Parties |-> 0]
    /\ sealed = {}
    /\ shown = [p \in Parties |-> {}]
    /\ rows = [p \in Parties |-> {}]
    /\ mishaps = {}

\* demo_main.  The initiator is given the address the responder printed and
\* resumes its saved session, if it has one.
Start(p) ==
    /\ status[p] # "up" /\ run[p] < setting.runs[p]
    /\ p = "I" => status["R"] = "up"
    /\ status' = [status EXCEPT ![p] = "up"]
    /\ run' = [run EXCEPT ![p] = @ + 1]
    /\ app' = [app EXCEPT ![p] =
                  IF p = "I" THEN [NewApp EXCEPT !.peer = Me("R"), !.session = Resume(p)]
                             ELSE NewApp]
    /\ UNCHANGED <<disk, net, secrets, typed, sealed, shown, rows, mishaps>>

\* The user quits, or the process is killed between two handlers.
Quit(p) ==
    /\ "quit" \in setting.faults
    /\ status[p] = "up"
    /\ Ends(p, "off", net)
    /\ UNCHANGED <<run, disk, secrets, typed, sealed, shown, rows, mishaps>>

\* The request fails: connection closed or timeout.
Lose(e) ==
    /\ "loss" \in setting.faults
    /\ net' = net \ {e}
    /\ mishaps' = mishaps \union
          (IF e.header = None /\ e.marker # GroupKey
           THEN {<<"lost", IF e.from[1] = "I" THEN e.from ELSE e.to>>} ELSE {})
    /\ UNCHANGED <<status, run, app, disk, secrets, typed, sealed, shown, rows>>

-----------------------------------------------------------------------------
(* handle_event, PeerConnected.  A connection between the two runs may be  *)
(* established more than once.                                             *)

Connected == status["I"] = "up" /\ Alive(app["I"].peer)

\* Variant for mutation: handshake_started is not consulted.
MayRequestBundle_Again(p) == p = "I" /\ app[p].session = None

MayRequestBundle(p) == p = "I" /\ app[p].session = None /\ ~app[p].started

PeerConnected(p) ==
    /\ Connected
    /\ LET other == IF p = "I" THEN Me("R") ELSE Me("I")
           known == [app[p] EXCEPT !.peer = IF @ = None THEN other ELSE @]
       IN  IF MayRequestBundle(p)
           THEN /\ app' = [app EXCEPT ![p] = [known EXCEPT !.started = TRUE]]
                /\ net' = net \union Sending({RequestBundle(p)})
           ELSE /\ app' = [app EXCEPT ![p] = known]
                /\ UNCHANGED net
    /\ UNCHANGED <<status, run, disk, secrets, typed, sealed, shown, rows, mishaps>>

-----------------------------------------------------------------------------
(* handle_direct: an inbound request is routed by its first byte.  It sets *)
(* app.peer if there is none, and any error ends the process.              *)

Arrived(p, e) == e.to = Me(p) /\ status[p] = "up"
Known(p, e) == [app[p] EXCEPT !.peer = IF @ = None THEN e.from ELSE @]
Rest(e) == net \ {e}

\* Whether the branch for e succeeds up to decrypting: the process has the
\* role the branch needs, the body parses (a chat ciphertext is no JSON), the
\* handshake has got that far, and there is a session where one is needed.
\* A bundle request needs no body, and any 32 bytes are a ratchet key.
Accepts(p, e) ==
    \/ e.marker = BundleReq /\ p = "R"
    \/ e.marker = RatchetPub /\ p = "I" /\ app[p].pending # None /\ e.body # None
    \/ /\ e.header = None
       /\ \/ e.marker = Bundle   /\ p = "I"
          \/ e.marker = Prekey   /\ p = "R"
          \/ e.marker = GroupKey /\ app[p].session # None
    \/ e.marker = OtherByte /\ (app[p].session # None \/ disk[p] # None)

DirectFails(p, e) ==
    /\ Arrived(p, e) /\ ~Accepts(p, e)
    /\ Ends(p, "protocol", Rest(e))
    /\ UNCHANGED <<run, disk, secrets, typed, sealed, shown, rows, mishaps>>

Misread(p, e) == IF e.header # None THEN {<<"misread", Me(p)>>} ELSE {}

OnBundleReq(p, e) ==
    /\ Arrived(p, e) /\ Accepts(p, e) /\ e.marker = BundleReq
    /\ app' = [app EXCEPT ![p] = Known(p, e)]
    /\ net' = Rest(e) \union Sending({SyncEnvelope(p, e.from, Bundle, None)})
    /\ mishaps' = mishaps \union Misread(p, e)
    /\ UNCHANGED <<status, run, disk, secrets, typed, sealed, shown, rows>>

\* InitiatorHandshake::send_prekey: a fresh secret replaces a pending one.
OnBundle(p, e) ==
    /\ Arrived(p, e) /\ Accepts(p, e) /\ e.marker = Bundle
    /\ secrets < setting.secrets
    /\ secrets' = secrets + 1
    /\ app' = [app EXCEPT ![p] = [Known(p, e) EXCEPT !.pending = Secret(secrets')]]
    /\ net' = Rest(e) \union Sending({SendPrekey(p, Secret(secrets'))})
    /\ UNCHANGED <<status, run, disk, typed, sealed, shown, rows, mishaps>>

\* Variant for mutation: the responder answers without having saved.
OnPrekey_NotSaved(p, e, cut) ==
    /\ Arrived(p, e) /\ Accepts(p, e) /\ e.marker = Prekey
    /\ LET ratchet == ResponderSession(p, e.body)
           reply   == SyncEnvelope(p, e.from, RatchetPub, RatchetKey(p, e.body))
       IN  Handled(p, "prekey", cut, 2, [Known(p, e) EXCEPT !.session = ratchet],
                   Rest(e) \union (IF cut >= 2 THEN Sending({reply}) ELSE {}))
    /\ UNCHANGED <<run, disk, secrets, typed, sealed, shown, rows, mishaps>>

\* Variant for mutation: the ratchet key is never sent back.
OnPrekey_NoReply(p, e, cut) ==
    /\ Arrived(p, e) /\ Accepts(p, e) /\ e.marker = Prekey
    /\ LET ratchet == ResponderSession(p, e.body)
       IN  /\ Persist(p, cut >= 1, ratchet)
           /\ Handled(p, "prekey", cut, 2, [Known(p, e) EXCEPT !.session = ratchet], Rest(e))
    /\ UNCHANGED <<run, secrets, typed, sealed, shown, rows, mishaps>>

\* ResponderHandshake::on_prekey; effects: save the session, send the reply.
\* An older session of the conversation is replaced.
OnPrekey(p, e, cut) ==
    /\ Arrived(p, e) /\ Accepts(p, e) /\ e.marker = Prekey
    /\ LET ratchet == ResponderSession(p, e.body)
           reply   == SyncEnvelope(p, e.from, RatchetPub, RatchetKey(p, e.body))
       IN  /\ Persist(p, cut >= 1, ratchet)
           /\ Handled(p, "prekey", cut, 2, [Known(p, e) EXCEPT !.session = ratchet],
                      Rest(e) \union (IF cut >= 2 THEN Sending({reply}) ELSE {}))
    /\ UNCHANGED <<run, secrets, typed, sealed, shown, rows, mishaps>>

Unsaved(p, sent, saved) == IF sent /\ ~saved THEN {<<"unsaved", Me(p)>>} ELSE {}

\* What the row holds after a first save and, if it happens, a second one.
LastSaved(again, established, greeted) == IF again THEN greeted ELSE established

\* InitiatorHandshake::establish, the group key and the greeting (which is
\* longer than a ratchet key); effects: save the session, send the group key,
\* send the greeting, save again.
OnRatchetPub(p, e, cut, byte, saved) ==
    /\ Arrived(p, e) /\ Accepts(p, e) /\ e.marker = RatchetPub
    /\ saved \/ "save" \in setting.faults
    /\ LET secret   == app[p].pending
           ratchet  == Establish(p, e.body)
           out      == Encrypt(ratchet, <<p, typed[p] + 1>>)
           key      == SyncEnvelope(p, e.from, GroupKey, SenderKey(secret))
           greeting == ChatEnvelope(p, e.from, byte, out)
       IN  /\ Persist(p, cut >= 1, LastSaved(cut = 4 /\ saved, ratchet, out.ratchet))
           /\ typed' = [typed EXCEPT ![p] = IF cut >= 3 THEN @ + 1 ELSE @]
           /\ sealed' = sealed \union (IF cut >= 3 THEN {out.ciphertext} ELSE {})
           /\ mishaps' = mishaps \union Misread(p, e) \union Unsaved(p, cut >= 3, cut = 4 /\ saved)
           /\ Handled(p, "ratchet_pub", cut, 4,
                      [Known(p, e) EXCEPT !.pending = None, !.session = out.ratchet,
                                          !.sender = SenderKey(secret)],
                      Rest(e) \union (IF cut >= 2 THEN Sending({key}) ELSE {})
                              \union (IF cut >= 3 THEN Sending({greeting}) ELSE {}))
    /\ UNCHANGED <<run, secrets, shown, rows>>

OnGroupKey(p, e) ==
    /\ Arrived(p, e) /\ Accepts(p, e) /\ e.marker = GroupKey
    /\ app' = [app EXCEPT ![p] = [Known(p, e) EXCEPT !.receiver = e.body]]
    /\ net' = Rest(e)
    /\ UNCHANGED <<status, run, disk, secrets, typed, sealed, shown, rows, mishaps>>

\* The chat branch; effects: save the session, show the text, store it.
SessionOf(p) == IF app[p].session # None THEN app[p].session ELSE Resume(p)

\* Variant for mutation: an incoming text is not stored.
OnChat_NotStored(p, e, cut) ==
    /\ Arrived(p, e) /\ Accepts(p, e) /\ e.marker = OtherByte
    /\ LET out == SessionDecrypt(SessionOf(p), e)
       IN  IF out.error = "none"
           THEN /\ Persist(p, cut >= 1, out.ratchet)
                /\ shown' = [shown EXCEPT ![p] = @ \union
                                (IF cut >= 2 THEN {<<run[p], out.text>>} ELSE {})]
                /\ Handled(p, "chat", cut, 3,
                           [Known(p, e) EXCEPT !.session = out.ratchet], Rest(e))
           ELSE /\ cut = 0
                /\ Ends(p, out.error, Rest(e))
                /\ UNCHANGED <<disk, shown>>
    /\ UNCHANGED <<run, secrets, typed, sealed, rows, mishaps>>

OnChat(p, e, cut) ==
    /\ Arrived(p, e) /\ Accepts(p, e) /\ e.marker = OtherByte
    /\ LET out == SessionDecrypt(SessionOf(p), e)
       IN  IF out.error = "none"
           THEN /\ Persist(p, cut >= 1, out.ratchet)
                /\ shown' = [shown EXCEPT ![p] = @ \union
                                (IF cut >= 2 THEN {<<run[p], out.text>>} ELSE {})]
                /\ rows' = IF cut >= 3 THEN InsertMessage(p, out.text) ELSE rows
                /\ Handled(p, "chat", cut, 3,
                           [Known(p, e) EXCEPT !.session = out.ratchet], Rest(e))
           ELSE /\ cut = 0
                /\ Ends(p, out.error, Rest(e))
                /\ UNCHANGED <<disk, shown, rows>>
    /\ UNCHANGED <<run, secrets, typed, sealed, mishaps>>

-----------------------------------------------------------------------------
(* handle_command: a line that is not a command is sent to the peer;       *)
(* effects: send the envelope, save the session.                           *)

Types(p) ==
    /\ status[p] = "up" /\ typed[p] < setting.texts[p]
    /\ app[p].session # None /\ app[p].peer # None

Command(p, cut, byte, saved) ==
    /\ Types(p) /\ CanEncrypt(app[p].session)
    /\ saved \/ "save" \in setting.faults
    /\ LET out == Encrypt(app[p].session, <<p, typed[p] + 1>>)
       IN  /\ Persist(p, cut = 2 /\ saved, out.ratchet)
           /\ typed' = [typed EXCEPT ![p] = IF cut >= 1 THEN @ + 1 ELSE @]
           /\ sealed' = sealed \union (IF cut >= 1 THEN {out.ciphertext} ELSE {})
           /\ mishaps' = mishaps \union Unsaved(p, cut >= 1, cut = 2 /\ saved)
           /\ Handled(p, "command", cut, 2, [app[p] EXCEPT !.session = out.ratchet],
                      net \union (IF cut >= 1
                                  THEN Sending({ChatEnvelope(p, app[p].peer, byte, out)})
                                  ELSE {}))
    /\ UNCHANGED <<run, secrets, shown, rows>>

CommandFails(p) ==
    /\ Types(p) /\ ~CanEncrypt(app[p].session)
    /\ Ends(p, "NoPeerKey", net)
    /\ UNCHANGED <<run, disk, secrets, typed, sealed, shown, rows, mishaps>>

-----------------------------------------------------------------------------
Direct(p, e) ==
    \/ DirectFails(p, e)
    \/ OnBundleReq(p, e)
    \/ OnBundle(p, e)
    \/ \E cut \in 0..2 : OnPrekey(p, e, cut)
    \/ \E cut \in 0..4, byte \in setting.bytes \ {KeyLike}, saved \in BOOLEAN :
          OnRatchetPub(p, e, cut, byte, saved)
    \/ OnGroupKey(p, e)
    \/ \E cut \in 0..3 : OnChat(p, e, cut)

Next ==
    /\ \/ \E p \in Parties :
             \/ Start(p)
             \/ Quit(p)
             \/ PeerConnected(p)
             \/ \E e \in net : Direct(p, e)
             \/ \E cut \in 0..2, byte \in setting.bytes, saved \in BOOLEAN :
                   Command(p, cut, byte, saved)
             \/ CommandFails(p)
       \/ \E e \in net : Lose(e)
    /\ UNCHANGED setting

Spec == Init /\ [][Next]_vars

\* The event loops keep running and the node delivers what is not lost.  Only
\* the messages of the handshake, which are not encrypted, need to arrive.
Fairness ==
    /\ WF_vars(\E p \in Parties : PeerConnected(p) /\ UNCHANGED setting)
    /\ WF_vars(\E e \in net : e.header = None /\ Direct(e.to[1], e) /\ UNCHANGED setting)

FairSpec == Spec /\ Fairness

-----------------------------------------------------------------------------
Ids      == Parties \X Nat
Secrets  == {"pqxdh"} \X Nat
Roots    == [secret : Secrets, steps : Seq(SUBSET Ids)]
KeysAt   == [chain : Roots, index : Nat]
Skipped  == Seq([index : Nat, key : KeysAt])
Opt(S)   == S \union {None}
Chains   == [our_ratchet_key : Opt(Ids), their_ratchet_public : Opt(Ids),
             chain_key : Opt([seed : Roots, index : Nat]), skipped_message_keys : Skipped]
Ratchets == [root_key : Roots, sending_chain : Chains, receiving_chain : Chains]
Headers  == [dh_public_key : Ids, message_number : Nat]
Ciphertexts == [key : KeysAt, nonce : Nat, aad : Headers, text : Ids]
SenderKeys  == {"group"} \X Nat
Apps == [peer : Opt(Ids), session : Opt(Ratchets), pending : Opt(Secrets),
         started : BOOLEAN, sender : Opt(SenderKeys), receiver : Opt(SenderKeys)]
Envelopes == [from : Ids, to : Ids, marker : 0..5, body : Opt(Secrets \union Ids \union SenderKeys),
              header : Opt(Headers), ciphertext : Opt(Ciphertexts)]
ChainSnapshots == [our_ratchet_key : Opt(Ids), their_ratchet_public : Opt(Ids),
                   chain_key : Opt([seed : Roots, index : Nat]), chain_index : Nat,
                   skipped_message_keys : Skipped]
Snapshots == [root_key : Roots, sending_chain : ChainSnapshots, receiving_chain : ChainSnapshots]

\* None is none of the values it stands beside.
ASSUME NoneAssumption ==
    /\ None \notin Ids /\ None \notin Secrets /\ None \notin SenderKeys
    /\ None \notin [seed : Roots, index : Nat] /\ None \notin Ratchets
    /\ None \notin Headers /\ None \notin Ciphertexts /\ None \notin Snapshots

\* Type invariant of the two processes, their rows and the requests under way
\* (App, main.rs).
TypeOK ==
    /\ setting \in Settings
    /\ status \in [Parties -> {"off", "up", "protocol", "NoPeerKey", "NoReceivingChain",
                               "TooManySkipped", "DecryptionFailed"}]
    /\ run \in [Parties -> Nat] /\ typed \in [Parties -> Nat] /\ secrets \in Nat
    /\ app \in [Parties -> Apps]
    /\ disk \in [Parties -> Opt(Snapshots)] /\ \A p \in Parties : disk[p] # None => Loads(disk[p])
    /\ net \subseteq Envelopes /\ sealed \subseteq Ciphertexts
    /\ shown \in [Parties -> SUBSET (Nat \X Ids)] /\ rows \in [Parties -> SUBSET Ids]
    /\ mishaps \subseteq {"misread", "unsaved", "lost"} \X Ids

SecretOf(ratchet) == ratchet.root_key.secret

Ever(kind, parties) == \E m \in mishaps : m[1] = kind /\ m[2][1] \in parties

\* The initiator combines its PQXDH secret only with the ratchet key that the
\* responder made for that secret, in memory and on disk: one bundle request
\* per run (handshake_started) and a new network identity per run keep the
\* answers of different PREKEY messages apart.  This is so until a chat
\* ciphertext is taken for a message of the handshake (handle_direct goes by
\* the first byte): then a second BUNDLE replaces a pending secret, or 32
\* bytes of ciphertext pass for a ratchet key.
KeysPaired ==
    ~Ever("misread", Parties) =>
        \A ratchet \in {app["I"].session, Resume("I")} \ {None} :
            ratchet.sending_chain.their_ratchet_public = RatchetKey("R", SecretOf(ratchet))

\* No handshake, group key or chat message ends a process because it comes at
\* the wrong time: what a party sends, the run it is addressed to can accept,
\* across quits, kills while receiving, and restarts (the context() errors of
\* handle_direct).
HandshakeNeverFails == \A p \in Parties : status[p] # "protocol"

\* The same where no ciphertext begins with a marker byte.
PlainNeverFails == setting.bytes = {OtherByte} => HandshakeNeverFails

\* A restarted process continues the chain where it was (the comments on the
\* snapshots in handle_command and handle_direct): no two different
\* ciphertexts are ever sent under one message key.
KeyUsedOnce == \A a, b \in sealed : a.key = b.key => a = b

\* A party that has always saved its session after sending uses no message key
\* twice, whatever it resumes and whatever the other one failed to save
\* (persist in handle_command and handle_direct), and no key is used by both.
SavedKeyUsedOnce ==
    \A a, b \in sealed :
        a.key = b.key => a = b \/ (a.text[1] = b.text[1] /\ Ever("unsaved", {a.text[1]}))

\* The session a running process works with is the one it would resume, field
\* by field, whenever no handler is running (ChatSession::persist and
\* session::resume, through the flat snapshot of session_state.rs), unless a
\* save failed in this run: handle_command and handle_direct ignore that.
SavedIsCurrent ==
    \A p \in Parties :
        app[p].session # None /\ <<"unsaved", Me(p)>> \notin mishaps => Resume(p) = app[p].session

\* Whatever the initiator has sent to the running responder is readable with
\* the session the responder holds or would resume, if it is the session the
\* message belongs to, or too many keys would be skipped.  Saving after the
\* first use of a message key never makes a later message unreadable.  This
\* is so until the initiator fails to save, or a ciphertext is taken for a
\* message of the handshake and a second one begins (handle_direct).
ReadableAcrossRestarts ==
    ~Ever("misread", Parties) /\ ~Ever("unsaved", {"I"}) =>
        \A e \in net :
            (/\ e.ciphertext # None /\ e.to = Me("R") /\ SessionOf("R") # None
             /\ SecretOf(SessionOf("R")) = e.ciphertext.key.chain.secret)
            => SessionDecrypt(SessionOf("R"), e).error \in {"none", "TooManySkipped"}

\* What the user has seen and the database does not hold.
Missing(p) == {m \in shown[p] : m[2] \notin rows[p]}

\* A text the user was shown is in the database, except for one per run that
\* has ended: the chat branch prints before it inserts the row, in a handler
\* that a kill may cut short ("everything persisted", main.rs).
CrashLosesOneRow ==
    \A p \in Parties : \A a, b \in Missing(p) :
        /\ a[1] = run[p] => status[p] # "up"
        /\ a[1] = b[1] => a = b

\* While the two processes stay up and connected, the initiator gets its
\* session ("wait for the handshake", handle_command), unless a message of this
\* run's handshake is lost: no restart of either side, no loss in an earlier
\* run and no lost chat message leaves the exchange of bundle, PREKEY and
\* ratchet key stuck.  A lost one does: no handshake message is repeated.
HandshakeCompletes ==
    Connected ~> (app["I"].session # None \/ ~Connected \/ <<"lost", Me("I")>> \in mishaps)

=============================================================================
