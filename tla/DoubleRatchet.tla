--------------------------- MODULE DoubleRatchet ---------------------------
(***************************************************************************)
(* The Double Ratchet of presidium-crypto (ratchet.rs) and the layer       *)
(* ChatSession puts on top of it (session.rs), as operators on values.     *)
(*                                                                         *)
(* Keys are symbolic.  A key pair is named by one value, which also stands *)
(* for its public half.  A root key is the secret it started from and the  *)
(* DH outputs mixed into it; a chain key is the root step that created the *)
(* chain and its position; HKDF and HMAC are one-way and collision free,   *)
(* so two derived keys are equal exactly when their derivations are.       *)
(* A ciphertext opens under the key, nonce and header that sealed it.      *)
(***************************************************************************)
EXTENDS Integers, Sequences

CONSTANTS MaxSkip,  \* MAX_SKIP_MESSAGES
          None      \* Option::None

ASSUME MaxSkipAssumption == MaxSkip \in Nat

-----------------------------------------------------------------------------
(* Key derivation *)

DH(our, their) == {our, their}

RootKey(secret) == [secret |-> secret, steps |-> <<>>]

\* RootKey::ratchet_step returns the new root and the chain it starts.
RatchetStep(root, shared) == [root EXCEPT !.steps = Append(@, shared)]
StepChain(newRoot) == [seed |-> newRoot, index |-> 0]

ChainNext(ck) == [ck EXCEPT !.index = @ + 1]
MessageKey(ck) == [chain |-> ck.seed, index |-> ck.index]

-----------------------------------------------------------------------------
(* Authenticated encryption: the nonce is the message number, the header   *)
(* is the associated data.  The header's previous_message_number is always *)
(* zero in the code and is left out.                                       *)

Header(public, number) == [dh_public_key |-> public, message_number |-> number]

Seal(key, header, text) ==
    [key |-> key, nonce |-> key.index, aad |-> header, text |-> text]

Opens(ct, key, header) ==
    /\ ct.key = key
    /\ ct.nonce = header.message_number
    /\ ct.aad = header

-----------------------------------------------------------------------------
(* Construction *)

Chain(our, their, ck) ==
    [our_ratchet_key |-> our, their_ratchet_public |-> their,
     chain_key |-> ck, skipped_message_keys |-> <<>>]

InitInitiator(root, our, peer) ==
    LET newRoot == RatchetStep(root, DH(our, peer))
    IN  [root_key        |-> newRoot,
         sending_chain   |-> Chain(our, peer, StepChain(newRoot)),
         receiving_chain |-> Chain(None, peer, None)]

InitResponder(root, our) ==
    [root_key        |-> root,
     sending_chain   |-> Chain(our, None, None),
     receiving_chain |-> Chain(None, None, None)]

-----------------------------------------------------------------------------
(* DoubleRatchet::encrypt *)

\* Variant for mutation: the check for the peer's key is missing.
CanEncrypt_NoPeerCheck(r) ==
    \/ r.sending_chain.chain_key # None
    \/ r.sending_chain.our_ratchet_key # None

\* The error returns of encrypt: a chain can be derived only from both keys.
CanEncrypt(r) ==
    \/ r.sending_chain.chain_key # None
    \/ /\ r.sending_chain.our_ratchet_key # None
       /\ r.sending_chain.their_ratchet_public # None

\* Derive the sending chain when there is none.
WithSendingChain(r) ==
    LET s       == r.sending_chain
        newRoot == RatchetStep(r.root_key, DH(s.our_ratchet_key, s.their_ratchet_public))
    IN  IF s.chain_key # None
        THEN r
        ELSE [r EXCEPT !.root_key = newRoot,
                       !.sending_chain.chain_key = StepChain(newRoot)]

\* Variant for mutation: the chain is not advanced after its key is used.
Encrypt_NoAdvance(r, text) ==
    LET ready  == WithSendingChain(r)
        key    == MessageKey(ready.sending_chain.chain_key)
        header == Header(ready.sending_chain.our_ratchet_key, key.index)
    IN  [ratchet |-> ready, header |-> header, ciphertext |-> Seal(key, header, text)]

Encrypt(r, text) ==
    LET ready  == WithSendingChain(r)
        chain  == ready.sending_chain.chain_key
        key    == MessageKey(chain)
        header == Header(ready.sending_chain.our_ratchet_key, key.index)
    IN  [ratchet    |-> [ready EXCEPT !.sending_chain.chain_key = ChainNext(chain)],
         header     |-> header,
         ciphertext |-> Seal(key, header, text)]

-----------------------------------------------------------------------------
(* DoubleRatchet::decrypt *)

\* The loop "while chain.index() < number": each turn pushes the key of the
\* current position, fails if the list is now longer than the limit, and
\* only then advances the chain.
Gap(chain, number) == number - chain.chain_key.index
Room(chain) == MaxSkip - Len(chain.skipped_message_keys)

\* Variant for mutation: off by one at the limit.
Overflows_OneMore(chain, number) ==
    Gap(chain, number) > 0 /\ Gap(chain, number) > Room(chain) + 1

Overflows(chain, number) == Gap(chain, number) > 0 /\ Gap(chain, number) > Room(chain)

Pushes(chain, number) ==
    IF Overflows(chain, number)
    THEN (IF Room(chain) > 0 THEN Room(chain) ELSE 0) + 1
    ELSE (IF Gap(chain, number) > 0 THEN Gap(chain, number) ELSE 0)

SkippedKeys(ck, count) ==
    [j \in 1..count |-> [index |-> ck.index + j - 1,
                         key   |-> [chain |-> ck.seed, index |-> ck.index + j - 1]]]

Moved(chain, keys, ck) == [chain EXCEPT !.skipped_message_keys = keys, !.chain_key = ck]

SkipTo(chain, number) ==
    LET pushes == Pushes(chain, number)
        turns  == IF Overflows(chain, number) THEN pushes - 1 ELSE pushes
    IN  Moved(chain,
              chain.skipped_message_keys \o SkippedKeys(chain.chain_key, pushes),
              [chain.chain_key EXCEPT !.index = @ + turns])

HasSkipped(chain, number) ==
    \E j \in 1..Len(chain.skipped_message_keys) :
        chain.skipped_message_keys[j].index = number

\* find() returns the first match; the entry stays in the list.
FindSkipped(chain, number) ==
    LET list == chain.skipped_message_keys
        at   == CHOOSE j \in 1..Len(list) :
                    /\ list[j].index = number
                    /\ \A k \in 1..(j - 1) : list[k].index # number
    IN  list[at].key

Outcome(r, error, text) == [ratchet |-> r, error |-> error, text |-> text]

Open(r, key, ct, header) ==
    IF Opens(ct, key, header) THEN Outcome(r, "none", ct.text)
                              ELSE Outcome(r, "DecryptionFailed", None)

\* The chain is advanced before the tag is checked and stays advanced when
\* the check fails.
Decrypt(r, ct, header) ==
    LET chain  == r.receiving_chain
        number == header.message_number
        moved  == SkipTo(chain, number)
    IN  IF HasSkipped(chain, number)
        THEN Open(r, FindSkipped(chain, number), ct, header)
        ELSE IF chain.chain_key = None
        THEN Outcome(r, "NoReceivingChain", None)
        ELSE IF Overflows(chain, number)
        THEN Outcome([r EXCEPT !.receiving_chain = moved], "TooManySkipped", None)
        ELSE Open([r EXCEPT !.receiving_chain =
                      [moved EXCEPT !.chain_key = ChainNext(@)]],
                  MessageKey(moved.chain_key), ct, header)

-----------------------------------------------------------------------------
(* DoubleRatchet::dh_ratchet *)

DhRatchet(r, peer) ==
    LET recv    == r.receiving_chain
        our     == IF recv.our_ratchet_key # None
                   THEN recv.our_ratchet_key
                   ELSE r.sending_chain.our_ratchet_key
        newRoot == RatchetStep(r.root_key, DH(our, peer))
        base    == [r EXCEPT !.root_key = newRoot,
                             !.sending_chain.their_ratchet_public = peer]
    IN  IF recv.our_ratchet_key # None
        THEN [base EXCEPT !.sending_chain.our_ratchet_key = recv.our_ratchet_key,
                          !.sending_chain.chain_key = StepChain(newRoot),
                          !.receiving_chain.our_ratchet_key = None]
        ELSE [base EXCEPT !.receiving_chain.chain_key = StepChain(newRoot)]

-----------------------------------------------------------------------------
(* ChatSession::decrypt: step the DH ratchet only for an unknown peer key. *)

KnownPeerKey(r) ==
    IF r.receiving_chain.their_ratchet_public # None
    THEN r.receiving_chain.their_ratchet_public
    ELSE r.sending_chain.their_ratchet_public

\* Variant for mutation: the DH ratchet is stepped for every message.
SessionDecrypt_AlwaysStep(r, envelope) ==
    Decrypt(DhRatchet(r, envelope.header.dh_public_key),
            envelope.ciphertext, envelope.header)

SessionDecrypt(r, envelope) ==
    LET public == envelope.header.dh_public_key
        ready  == IF KnownPeerKey(r) # public THEN DhRatchet(r, public) ELSE r
    IN  Decrypt(ready, envelope.ciphertext, envelope.header)

=============================================================================
