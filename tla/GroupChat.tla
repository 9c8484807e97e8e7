----------------------------- MODULE GroupChat -----------------------------
(***************************************************************************)
(* The group chat of presidium-demo (group.rs): one publisher's SenderKeys *)
(* (presidium-crypto, keys.rs) and one reader of the group topic.          *)
(*                                                                         *)
(* A chain key is named by the random key it started from and the number   *)
(* of steps taken since.  The chain moves with every encryption; the       *)
(* reader's copy moves with every message it could decrypt.  Key           *)
(* distributions travel as direct requests, messages by gossip; both may   *)
(* be lost and overtaken, and the node only logs a failed publish.  Group  *)
(* keys live in memory: a restart loses them.                              *)
(***************************************************************************)
EXTENDS Integers, Sequences

CONSTANTS Texts,        \* plaintexts a user may type
          MaxSenderKeys, \* bound: sender keys created, one per handshake
          MaxPublished, \* bound: messages published under one key
          Nothing       \* Option::None

ASSUME MaxSenderKeysAssumption == MaxSenderKeys \in Nat
ASSUME MaxPublishedAssumption == MaxPublished \in Nat

KeyNames   == 1..MaxSenderKeys
ChainKeys  == [name : KeyNames, steps : Nat]
SenderKeys == [chain_key : ChainKeys, message_index : Nat]

ASSUME KeysAssumption == Nothing \notin SenderKeys /\ Nothing \notin Texts

VARIABLES
    sender,    \* the publisher's GroupChat.sender
    receiver,  \* the reader's GroupChat.receiver
    direct,    \* GROUP_KEY requests on their way to the reader
    gossip,    \* group messages on their way to the reader
    created,   \* how many sender keys were created
    published, \* history: the texts published under each key, in order
    displayed  \* history: the texts shown to the reader under each key, in order

groupVars == <<sender, receiver, direct, gossip, created, published, displayed>>

-----------------------------------------------------------------------------
(* SenderKeys *)

NewSenderKeys(name) == [chain_key |-> [name |-> name, steps |-> 0], message_index |-> 0]

\* SenderKeys::encrypt: the message key comes from the chain key, the nonce
\* is the message index.
SealWith(keys, text) ==
    [chain_key |-> keys.chain_key, nonce |-> keys.message_index, text |-> text]

\* Both the tail of encrypt and SenderKeys::advance.
Advanced(keys) ==
    [chain_key |-> [name |-> keys.chain_key.name, steps |-> keys.chain_key.steps + 1],
     message_index |-> keys.message_index + 1]

\* SenderKeys::decrypt: the key is that of the current chain position, the
\* nonce the index the message carries.
OpensWith(keys, message) ==
    /\ message.ciphertext.chain_key = keys.chain_key
    /\ message.ciphertext.nonce = message.message_index

-----------------------------------------------------------------------------
GroupInit ==
    /\ sender = Nothing
    /\ receiver = Nothing
    /\ direct = {}
    /\ gossip = {}
    /\ created = 0
    /\ published = [k \in KeyNames |-> <<>>]
    /\ displayed = [k \in KeyNames |-> <<>>]

\* create_sender, called when the publisher has finished a handshake; the
\* distribution carries the chain key and the index.
CreateSender ==
    /\ created < MaxSenderKeys
    /\ created' = created + 1
    /\ sender' = NewSenderKeys(created + 1)
    /\ direct' = direct \union {NewSenderKeys(created + 1)}
    /\ UNCHANGED <<receiver, gossip, published, displayed>>

\* apply_group_key
ApplyGroupKey(distribution) ==
    /\ receiver' = distribution
    /\ direct' = direct \ {distribution}
    /\ UNCHANGED <<sender, gossip, created, published, displayed>>

\* The @group command does nothing before a handshake has made the keys.
SenderReady == sender # Nothing

\* publish: the chain has moved whether or not gossipsub takes the message.
Publish(text, taken) ==
    /\ SenderReady
    /\ Len(published[sender.chain_key.name]) < MaxPublished
    /\ LET message == [message_index |-> Advanced(sender).message_index - 1,
                       ciphertext    |-> SealWith(sender, text)]
       IN  gossip' = IF taken THEN gossip \union {message} ELSE gossip
    /\ sender' = Advanced(sender)
    /\ published' = [published EXCEPT ![sender.chain_key.name] = Append(@, text)]
    /\ UNCHANGED <<receiver, direct, created, displayed>>

\* GroupChat::decrypt needs the key of the message's position.
Decrypts(message) == receiver # Nothing /\ OpensWith(receiver, message)

\* Variant for mutation: the reader's chain moves for every message.
OnGossip_AlwaysAdvance(message) ==
    /\ gossip' = gossip \ {message}
    /\ receiver' = IF receiver = Nothing THEN Nothing ELSE Advanced(receiver)
    /\ IF Decrypts(message)
       THEN displayed' = [displayed EXCEPT ![receiver.chain_key.name] =
                         Append(@, message.ciphertext.text)]
       ELSE UNCHANGED displayed
    /\ UNCHANGED <<sender, direct, created, published>>

\* The GossipMessage branch of handle_event: a message that does
\* not open is reported and forgotten, with no change to the keys.
OnGossip(message) ==
    /\ gossip' = gossip \ {message}
    /\ IF Decrypts(message)
       THEN /\ receiver' = Advanced(receiver)
            /\ displayed' = [displayed EXCEPT ![receiver.chain_key.name] =
                            Append(@, message.ciphertext.text)]
       ELSE UNCHANGED <<receiver, displayed>>
    /\ UNCHANGED <<sender, direct, created, published>>

LoseGossip(message) ==
    /\ gossip' = gossip \ {message}
    /\ UNCHANGED <<sender, receiver, direct, created, published, displayed>>

LoseDirect(distribution) ==
    /\ direct' = direct \ {distribution}
    /\ UNCHANGED <<sender, receiver, gossip, created, published, displayed>>

\* A resumed publisher skips the handshake and has no sender keys.
RestartPublisher ==
    /\ sender' = Nothing
    /\ UNCHANGED <<receiver, direct, gossip, created, published, displayed>>

\* The reader's next run has another network identity: requests addressed to
\* the old one fail.  Gossip may still reach it.
RestartReader ==
    /\ receiver' = Nothing
    /\ direct' = {}
    /\ UNCHANGED <<sender, gossip, created, published, displayed>>

GroupNext ==
    \/ CreateSender
    \/ \E distribution \in direct : ApplyGroupKey(distribution) \/ LoseDirect(distribution)
    \/ \E text \in Texts, taken \in BOOLEAN : Publish(text, taken)
    \/ \E message \in gossip : OnGossip(message) \/ LoseGossip(message)
    \/ RestartPublisher
    \/ RestartReader

GroupSpec == GroupInit /\ [][GroupNext]_groupVars

-----------------------------------------------------------------------------
Messages == [message_index : Nat,
             ciphertext : [chain_key : ChainKeys, nonce : Nat, text : Texts]]

\* Type invariant of the chains and of what is under way (GroupChat, group.rs).
GroupTypeOK ==
    /\ sender \in SenderKeys \union {Nothing}
    /\ receiver \in SenderKeys \union {Nothing}
    /\ direct \subseteq SenderKeys
    /\ gossip \subseteq Messages
    /\ created \in 0..MaxSenderKeys
    /\ published \in [KeyNames -> Seq(Texts)]
    /\ displayed \in [KeyNames -> Seq(Texts)]

\* What the reader is shown under a key is the beginning of what was
\* published under it, in order, without gaps or repetitions, whatever the
\* gossip network loses or reorders: GroupChat::decrypt moves the reader's
\* chain only together with a text it shows.
ShownIsPrefix ==
    \A k \in KeyNames :
        /\ Len(displayed[k]) <= Len(published[k])
        /\ \A i \in 1..Len(displayed[k]) : displayed[k][i] = published[k][i]

\* "Receivers must call this after each successfully decrypted message to
\* keep the chain in sync with the sender" (SenderKeys::advance): when no
\* message is on its way, a reader who holds the sender's key is at the
\* sender's position.
StaysInSync ==
    (/\ gossip = {} /\ sender # Nothing /\ receiver # Nothing
     /\ sender.chain_key.name = receiver.chain_key.name)
    => receiver.chain_key = sender.chain_key

=============================================================================
