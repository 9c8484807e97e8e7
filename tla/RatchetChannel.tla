--------------------------- MODULE RatchetChannel ---------------------------
(***************************************************************************)
(* One established 1:1 session: the initiator and the responder of a       *)
(* finished handshake exchange chat envelopes over the node's request-     *)
(* response protocol.  Every request travels on a substream of its own, so *)
(* envelopes may overtake each other or fail, and none is delivered twice. *)
(* An error of encrypt or decrypt propagates out of the event loop of the  *)
(* demo (main.rs) and ends the process.                                    *)
(*                                                                         *)
(* A party's ratchet key pair is named by the party.  The two parties hold *)
(* the same PQXDH secret, and the initiator knows the responder's ratchet  *)
(* key from the handshake.                                                 *)
(***************************************************************************)
EXTENDS DoubleRatchet

CONSTANTS Texts,       \* plaintexts a user may type
          MaxMessages  \* bound: MaxMessages[p] messages are sent by p

Parties == {"I", "R"}

Roots       == [secret : {"pqxdh"}, steps : Seq(SUBSET Parties)]
ChainKeys   == [seed : Roots, index : Nat]
MessageKeys == [chain : Roots, index : Nat]

ASSUME NoneAssumption ==
    None \notin Texts /\ None \notin Parties /\ None \notin ChainKeys
ASSUME MaxMessagesAssumption == MaxMessages \in [Parties -> Nat]

Peer(p) == IF p = "I" THEN "R" ELSE "I"

VARIABLES ratchet,  \* ratchet[p]: the DoubleRatchet inside p's ChatSession
          status,   \* status[p]: "up", or the error that ended the process
          net,      \* chat envelopes on their way
          sent,     \* history: sent[p][n + 1] is the text p sealed as number n
          got       \* history: got[p] is what p's user was shown, in order

vars == <<ratchet, status, net, sent, got>>

Errors == {"NoPeerKey", "NoReceivingChain", "TooManySkipped", "DecryptionFailed"}

Init ==
    /\ ratchet = [p \in Parties |->
                    IF p = "I" THEN InitInitiator(RootKey("pqxdh"), "I", "R")
                               ELSE InitResponder(RootKey("pqxdh"), "R")]
    /\ status = [p \in Parties |-> "up"]
    /\ net = {}
    /\ sent = [p \in Parties |-> <<>>]
    /\ got = [p \in Parties |-> <<>>]

\* handle_command: ChatSession::encrypt, then send_direct.
Send(p, text) ==
    /\ status[p] = "up"
    /\ Len(sent[p]) < MaxMessages[p]
    /\ CanEncrypt(ratchet[p])
    /\ LET out == Encrypt(ratchet[p], text)
       IN  /\ ratchet' = [ratchet EXCEPT ![p] = out.ratchet]
           /\ net' = net \union {[from       |-> p,
                                  header     |-> out.header,
                                  ciphertext |-> out.ciphertext]}
    /\ sent' = [sent EXCEPT ![p] = Append(@, text)]
    /\ UNCHANGED <<status, got>>

\* handle_command: encrypt fails and the error ends the process.
SendFails(p) ==
    /\ status[p] = "up"
    /\ Len(sent[p]) < MaxMessages[p]
    /\ ~CanEncrypt(ratchet[p])
    /\ status' = [status EXCEPT ![p] = "NoPeerKey"]
    /\ UNCHANGED <<ratchet, net, sent, got>>

\* handle_direct, chat branch: ChatSession::decrypt, then show the text.
Receive(p, envelope) ==
    /\ status[p] = "up"
    /\ envelope.from = Peer(p)
    /\ net' = net \ {envelope}
    /\ LET out == SessionDecrypt(ratchet[p], envelope)
       IN  /\ ratchet' = [ratchet EXCEPT ![p] = out.ratchet]
           /\ IF out.error = "none"
              THEN /\ got' = [got EXCEPT ![p] =
                         Append(@, [number |-> envelope.header.message_number,
                                    text   |-> out.text])]
                   /\ UNCHANGED status
              ELSE /\ status' = [status EXCEPT ![p] = out.error]
                   /\ UNCHANGED got
    /\ UNCHANGED sent

\* The request fails: the peer is gone, the connection closed, or a timeout.
Lose(envelope) ==
    /\ net' = net \ {envelope}
    /\ UNCHANGED <<ratchet, status, sent, got>>

Next ==
    \/ \E p \in Parties :
          \/ \E text \in Texts : Send(p, text)
          \/ SendFails(p)
          \/ \E envelope \in net : Receive(p, envelope)
    \/ \E envelope \in net : Lose(envelope)

Spec == Init /\ [][Next]_vars

-----------------------------------------------------------------------------
Chains   == [our_ratchet_key      : Parties \union {None},
             their_ratchet_public : Parties \union {None},
             chain_key            : ChainKeys \union {None},
             skipped_message_keys : Seq([index : Nat, key : MessageKeys])]
Ratchets == [root_key : Roots, sending_chain : Chains, receiving_chain : Chains]
Headers  == [dh_public_key : Parties, message_number : Nat]
Envelopes == [from : Parties, header : Headers,
              ciphertext : [key : MessageKeys, nonce : Nat, aad : Headers, text : Texts]]

\* Type invariant of the two ratchets and of the envelopes on their way
\* (DoubleRatchet, ratchet.rs).
TypeOK ==
    /\ ratchet \in [Parties -> Ratchets]
    /\ status \in [Parties -> Errors \union {"up"}]
    /\ net \subseteq Envelopes
    /\ sent \in [Parties -> Seq(Texts)]
    /\ got \in [Parties -> Seq([number : Nat, text : Texts])]

-----------------------------------------------------------------------------
(* The initiator's messages are readable whatever order they arrive in.    *)

From(p) == {envelope \in net : envelope.from = p}

\* As long as the responder runs, every envelope of the initiator that is
\* still on its way can be decrypted to the text that was typed, now, or is
\* refused because too many keys were skipped: overtaking and loss never
\* leave the receiving chain of ratchet.rs without the key of a message that
\* may still come.
InFlightReadable ==
    status["R"] = "up" =>
        \A envelope \in From("I") :
            LET out == SessionDecrypt(ratchet["R"], envelope)
            IN  \/ out.error = "TooManySkipped"
                \/ /\ out.error = "none"
                   /\ out.text = sent["I"][envelope.header.message_number + 1]

\* A running process keeps at most MAX_SKIP_MESSAGES skipped keys: the check
\* in the skip loop comes after the push, and the error it returns ends the
\* process before the longer list can be used or saved.
SkippedKeysBounded ==
    \A p \in Parties :
        status[p] = "up" =>
            Len(ratchet[p].receiving_chain.skipped_message_keys) <= MaxSkip

\* The responder's answers are readable too.  The test of the full handshake
\* and the comment in dh_ratchet describe the initiator reading a response;
\* ChatSession::decrypt never derives the initiator's receiving chain.
RepliesReadable ==
    status["I"] = "up" =>
        \A envelope \in From("R") :
            SessionDecrypt(ratchet["I"], envelope).error = "none"

-----------------------------------------------------------------------------
(* A session is a channel that loses and reorders but does not duplicate,  *)
(* alter or invent messages.                                               *)

Numbers(p) == {envelope.header.message_number : envelope \in From(p)}
Shown(p) == {<<got[p][i].number, got[p][i].text>> : i \in DOMAIN got[p]}

Channel == INSTANCE SecureChannel
    WITH log     <- sent,
         transit <- [p \in Parties |-> Numbers(p)],
         arrived <- [p \in Parties |-> Shown(Peer(p))]

\* Encrypting, sending, decrypting and failing, seen from the two users, are
\* steps of SecureChannel.
ImplementsChannel == Channel!Spec

=============================================================================
