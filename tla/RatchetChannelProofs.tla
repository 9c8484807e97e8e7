------------------------ MODULE RatchetChannelProofs ------------------------
(***************************************************************************)
(* Proofs about RatchetChannel for every set of texts, every skip limit    *)
(* and every number of messages.                                           *)
(***************************************************************************)
EXTENDS RatchetChannel, WellFoundedInduction, SequenceTheorems, TLAPS

-----------------------------------------------------------------------------
(* The states a ratchet can be in *)

\* The root after the initiator's first step: seed of the chain I -> R.
SessionRoot == RatchetStep(RootKey("pqxdh"), DH("I", "R"))

\* The root after the responder's first answer: seed of the chain R -> I.
ReplyRoot == RatchetStep(SessionRoot, DH("R", "I"))

InitiatorRatchet(n) ==
    [root_key        |-> SessionRoot,
     sending_chain   |-> Chain("I", "R", [seed |-> SessionRoot, index |-> n]),
     receiving_chain |-> Chain(None, "R", None)]

\* Where the responder's chain stands.
At(i) == [seed |-> SessionRoot, index |-> i]

ReceivingChain(i, s) ==
    [our_ratchet_key |-> None, their_ratchet_public |-> None,
     chain_key |-> [seed |-> SessionRoot, index |-> i], skipped_message_keys |-> s]

ResponderRatchet(root, ck, i, s) ==
    [root_key        |-> root,
     sending_chain   |-> Chain("R", "I", ck),
     receiving_chain |-> ReceivingChain(i, s)]

FreshResponder == InitResponder(RootKey("pqxdh"), "R")

SealedEnvelope(p, root, n, text) ==
    [from       |-> p,
     header     |-> Header(p, n),
     ciphertext |-> Seal([chain |-> root, index |-> n], Header(p, n), text)]

-----------------------------------------------------------------------------
(* The inductive invariant *)

Histories ==
    /\ ratchet = [p \in Parties |-> ratchet[p]]
    /\ status \in [Parties -> Errors \union {"up"}]
    /\ sent \in [Parties -> Seq(Texts)]
    /\ got \in [Parties -> Seq([number : Nat, text : Texts])]

InitiatorInv == ratchet["I"] = InitiatorRatchet(Len(sent["I"]))

SkippedEntries == [index : Nat, key : MessageKeys]

\* Every kept key is the key of its number in the initiator's chain.
GoodSkips(s) ==
    /\ s \in Seq(SkippedEntries)
    /\ \A j \in 1..Len(s) : s[j].key = [chain |-> SessionRoot, index |-> s[j].index]

\* The root and the sending chain of a responder that has sent n messages.
ReplySide(root, ck, n) ==
    \/ root = SessionRoot /\ ck = None /\ n = 0
    \/ root = ReplyRoot /\ ck = [seed |-> ReplyRoot, index |-> n]

\* Every number on its way is ahead of the chain or has its key kept.
Covered(i, s, envelopes) ==
    \A e \in envelopes :
        \/ e.header.message_number >= i
        \/ \E j \in 1..Len(s) : s[j].index = e.header.message_number

\* A ratchet r of the responder, when the initiator has sent n messages, the
\* responder m, and these envelopes are on their way.
Joined(r, root, ck, i, s, up, n, m, envelopes) ==
    /\ r = ResponderRatchet(root, ck, i, s)
    /\ i \in Nat
    /\ ReplySide(root, ck, m)
    /\ GoodSkips(s)
    /\ up => i <= n /\ Len(s) <= MaxSkip /\ Covered(i, s, envelopes)

ResponderOK(r, up, n, m, envelopes) ==
    \/ r = FreshResponder /\ m = 0
    \/ /\ r.receiving_chain.chain_key # None
       /\ Joined(r, r.root_key, r.sending_chain.chain_key, r.receiving_chain.chain_key.index,
                 r.receiving_chain.skipped_message_keys, up, n, m, envelopes)

ResponderInv ==
    ResponderOK(ratchet["R"], status["R"] = "up", Len(sent["I"]), Len(sent["R"]), From("I"))

RootOf(p) == IF p = "I" THEN SessionRoot ELSE ReplyRoot

\* An envelope on its way is the one its sender sealed under its number.
NetInv ==
    \A envelope \in net :
        /\ envelope.from \in Parties
        /\ envelope.header.message_number \in 0..(Len(sent[envelope.from]) - 1)
        /\ LET p == envelope.from
               n == envelope.header.message_number
           IN  envelope = SealedEnvelope(p, RootOf(p), n, sent[p][n + 1])

IInv == Histories /\ InitiatorInv /\ ResponderInv /\ NetInv

-----------------------------------------------------------------------------
(* What the operators of DoubleRatchet do on these states *)

\* The two roots are keys, and they differ.
LEMMA RootTypes ==
    /\ SessionRoot \in Roots
    /\ ReplyRoot \in Roots
    /\ DH("I", "R") = DH("R", "I")
<1>1. DH("I", "R") \in SUBSET Parties /\ DH("I", "R") = DH("R", "I")
  BY Zenon DEF DH, Parties
<1>2. SessionRoot = [secret |-> "pqxdh", steps |-> <<DH("I", "R")>>]
  BY DEF SessionRoot, RatchetStep, RootKey
<1>3. ReplyRoot = [secret |-> "pqxdh", steps |-> <<DH("I", "R"), DH("I", "R")>>]
  BY <1>1, <1>2 DEF ReplyRoot, RatchetStep
<1>4. <<DH("I", "R")>> \in Seq(SUBSET Parties)
      /\ <<DH("I", "R"), DH("I", "R")>> \in Seq(SUBSET Parties)
  BY <1>1
<1> QED
  BY <1>1, <1>2, <1>3, <1>4, Zenon DEF Roots

\* A chain key is never None.
LEMMA ChainKeyIsSome ==
    ASSUME NEW root \in Roots, NEW i \in Nat
    PROVE  /\ [seed |-> root, index |-> i] \in ChainKeys
           /\ [seed |-> root, index |-> i] # None
  BY NoneAssumption DEF ChainKeys

\* encrypt on the initiator uses its position as number and moves on by one.
LEMMA InitiatorEncrypts ==
    ASSUME NEW n \in Nat, NEW text \in Texts
    PROVE  /\ CanEncrypt(InitiatorRatchet(n))
           /\ Encrypt(InitiatorRatchet(n), text) =
                [ratchet    |-> InitiatorRatchet(n + 1),
                 header     |-> Header("I", n),
                 ciphertext |-> Seal([chain |-> SessionRoot, index |-> n],
                                     Header("I", n), text)]
<1>1. InitiatorRatchet(n).sending_chain.chain_key # None
  BY RootTypes, ChainKeyIsSome, Zenon DEF InitiatorRatchet, Chain
<1>2. WithSendingChain(InitiatorRatchet(n)) = InitiatorRatchet(n)
  BY <1>1, Zenon DEF WithSendingChain
<1> QED
  BY <1>1, <1>2 DEF CanEncrypt, Encrypt, InitiatorRatchet, Chain, MessageKey, ChainNext, Header, Seal

\* A responder that has not received anything has no peer key to encrypt to.
LEMMA FreshCannotEncrypt == ~CanEncrypt(FreshResponder)
  BY Zenon DEF CanEncrypt, FreshResponder, InitResponder, Chain

\* The responder's first answer steps the root; later ones move the chain.
LEMMA ResponderEncrypts ==
    ASSUME NEW root, NEW ck, NEW i, NEW s, NEW n \in Nat, NEW text \in Texts,
           \/ root = SessionRoot /\ ck = None /\ n = 0
           \/ root = ReplyRoot /\ ck = [seed |-> ReplyRoot, index |-> n]
    PROVE  /\ CanEncrypt(ResponderRatchet(root, ck, i, s))
           /\ Encrypt(ResponderRatchet(root, ck, i, s), text) =
                [ratchet    |-> ResponderRatchet(ReplyRoot,
                                    [seed |-> ReplyRoot, index |-> n + 1], i, s),
                 header     |-> Header("R", n),
                 ciphertext |-> Seal([chain |-> ReplyRoot, index |-> n],
                                     Header("R", n), text)]
<1> DEFINE r == ResponderRatchet(root, ck, i, s)
           ready == ResponderRatchet(ReplyRoot, [seed |-> ReplyRoot, index |-> n], i, s)
<1>1. CanEncrypt(r)
  BY NoneAssumption, Zenon DEF CanEncrypt, ResponderRatchet, Chain, Parties
<1>2. WithSendingChain(r) = ready
  <2>1. CASE root = SessionRoot /\ ck = None /\ n = 0
    BY <2>1, Zenon DEF WithSendingChain, ResponderRatchet, Chain, StepChain, ReplyRoot
  <2>2. CASE root = ReplyRoot /\ ck = [seed |-> ReplyRoot, index |-> n]
    <3>1. r.sending_chain.chain_key # None
      BY <2>2, RootTypes, ChainKeyIsSome, Zenon DEF ResponderRatchet, Chain
    <3> QED
      BY <2>2, <3>1, Zenon DEF WithSendingChain
  <2> QED
    BY <2>1, <2>2, Zenon
<1>3. Encrypt(r, text) =
         [ratchet    |-> [ready EXCEPT !.sending_chain.chain_key = ChainNext(ready.sending_chain.chain_key)],
          header     |-> Header(ready.sending_chain.our_ratchet_key, MessageKey(ready.sending_chain.chain_key).index),
          ciphertext |-> Seal(MessageKey(ready.sending_chain.chain_key),
                              Header(ready.sending_chain.our_ratchet_key,
                                     MessageKey(ready.sending_chain.chain_key).index), text)]
  BY <1>2, Zenon DEF Encrypt
<1> HIDE DEF r
<1>4. /\ ready.sending_chain.our_ratchet_key = "R"
      /\ ready.sending_chain.chain_key = [seed |-> ReplyRoot, index |-> n]
  BY Zenon DEF ResponderRatchet, Chain
<1>5. MessageKey([seed |-> ReplyRoot, index |-> n]) = [chain |-> ReplyRoot, index |-> n]
  BY Zenon DEF MessageKey
<1>6. [ready EXCEPT !.sending_chain.chain_key = ChainNext([seed |-> ReplyRoot, index |-> n])]
        = ResponderRatchet(ReplyRoot, [seed |-> ReplyRoot, index |-> n + 1], i, s)
  BY DEF ResponderRatchet, Chain, ChainNext, ReceivingChain
<1> QED
  BY <1>1, <1>3, <1>4, <1>5, <1>6 DEF r

\* The first message of the initiator makes a fresh responder step to the
\* initiator's chain.
LEMMA FreshReceives ==
    ASSUME NEW envelope, envelope.header.dh_public_key = "I"
    PROVE  SessionDecrypt(FreshResponder, envelope) =
             Decrypt(ResponderRatchet(SessionRoot, None, 0, <<>>),
                     envelope.ciphertext, envelope.header)
<1>1. KnownPeerKey(FreshResponder) # "I"
  BY NoneAssumption, Zenon DEF KnownPeerKey, FreshResponder, InitResponder, Chain, Parties
<1>2. DhRatchet(FreshResponder, "I") = ResponderRatchet(SessionRoot, None, 0, <<>>)
  BY RootTypes, Zenon DEF DhRatchet, FreshResponder, InitResponder, Chain, StepChain,
     ResponderRatchet, ReceivingChain, SessionRoot
<1> QED
  BY <1>1, <1>2, Zenon DEF SessionDecrypt

\* Later messages carry the key the responder knows: no further step.
LEMMA JoinedReceives ==
    ASSUME NEW root, NEW ck, NEW i, NEW s,
           NEW envelope, envelope.header.dh_public_key = "I"
    PROVE  SessionDecrypt(ResponderRatchet(root, ck, i, s), envelope) =
             Decrypt(ResponderRatchet(root, ck, i, s),
                     envelope.ciphertext, envelope.header)
<1>1. KnownPeerKey(ResponderRatchet(root, ck, i, s)) = "I"
  BY Zenon DEF KnownPeerKey, ResponderRatchet, ReceivingChain, Chain
<1> QED
  BY <1>1, Zenon DEF SessionDecrypt

\* The initiator knows the responder's key from the handshake, so it never
\* derives a receiving chain and refuses every answer.
LEMMA InitiatorRefuses ==
    ASSUME NEW n \in Nat, NEW envelope, envelope.header.dh_public_key = "R"
    PROVE  SessionDecrypt(InitiatorRatchet(n), envelope) =
             Outcome(InitiatorRatchet(n), "NoReceivingChain", None)
<1>1. KnownPeerKey(InitiatorRatchet(n)) = "R"
  BY NoneAssumption, Zenon DEF KnownPeerKey, InitiatorRatchet, Chain, Parties
<1>2. /\ InitiatorRatchet(n).receiving_chain.chain_key = None
      /\ InitiatorRatchet(n).receiving_chain.skipped_message_keys = <<>>
  BY Zenon DEF InitiatorRatchet, Chain
<1>3. ~HasSkipped(InitiatorRatchet(n).receiving_chain, envelope.header.message_number)
  BY <1>2 DEF HasSkipped
<1> QED
  BY <1>1, <1>2, <1>3, Zenon DEF SessionDecrypt, Decrypt

-----------------------------------------------------------------------------
(* The skip list *)

\* t is s and, after it, the keys of count numbers from i on.
ExtendsBy(t, s, i, count) ==
    /\ GoodSkips(t)
    /\ Len(t) = Len(s) + count
    /\ \A j \in 1..Len(s) : t[j] = s[j]
    /\ \A n \in i..(i + count - 1) : \E j \in 1..Len(t) : t[j].index = n

\* The keys pushed by the skip loop are the chain's own keys, in order.
LEMMA PushedKeys ==
    ASSUME NEW s, GoodSkips(s), NEW i \in Nat, NEW count \in Nat
    PROVE  ExtendsBy(s \o SkippedKeys(At(i), count), s, i, count)
<1> DEFINE new == SkippedKeys(At(i), count)
           t   == s \o new
<1>1. /\ new \in Seq(SkippedEntries)
      /\ Len(new) = count
      /\ \A j \in 1..count : /\ new[j].index = i + j - 1
                             /\ new[j].key = [chain |-> SessionRoot, index |-> i + j - 1]
  <2>1. \A j \in 1..count : new[j] = [index |-> i + j - 1,
                                      key   |-> [chain |-> SessionRoot, index |-> i + j - 1]]
    BY Zenon DEF SkippedKeys, At
  <2>2. \A j \in 1..count : /\ i + j - 1 \in Nat
                             /\ [chain |-> SessionRoot, index |-> i + j - 1] \in MessageKeys
    BY RootTypes DEF MessageKeys
  <2>3. \A j \in 1..count : new[j] \in SkippedEntries
    <3> HIDE DEF new
    <3> TAKE j \in 1..count
    <3> DEFINE key == [chain |-> SessionRoot, index |-> i + j - 1]
    <3>1. i + j - 1 \in Nat /\ key \in MessageKeys /\ new[j] = [index |-> i + j - 1, key |-> key]
      BY <2>1, <2>2, Zenon
    <3> HIDE DEF key
    <3> QED
      BY <3>1 DEF SkippedEntries
  <2>4. DOMAIN new = 1..count /\ new = [j \in 1..count |-> new[j]]
    BY Zenon DEF SkippedKeys
  <2> HIDE DEF new
  <2>5. new \in [1..count -> SkippedEntries]
    BY <2>3, <2>4, Zenon
  <2>6. new \in Seq(SkippedEntries) /\ Len(new) = count
    BY <2>5
  <2> QED
    BY <2>1, <2>6
<1>2. s \in Seq(SkippedEntries)
  BY Zenon DEF GoodSkips
<1> HIDE DEF new
<1>3. /\ t \in Seq(SkippedEntries)
      /\ Len(t) = Len(s) + count
      /\ \A j \in 1..Len(t) : t[j] = IF j <= Len(s) THEN s[j] ELSE new[j - Len(s)]
  <2>1. /\ t \in Seq(SkippedEntries)
        /\ Len(t) = Len(s) + Len(new)
        /\ \A j \in 1..(Len(s) + Len(new)) :
              t[j] = IF j <= Len(s) THEN s[j] ELSE new[j - Len(s)]
    BY <1>1, <1>2, ConcatProperties, Zenon
  <2> QED
    BY <2>1, <1>1, Zenon
<1>4. \A j \in 1..Len(t) : t[j].key = [chain |-> SessionRoot, index |-> t[j].index]
  <2> TAKE j \in 1..Len(t)
  <2>1. CASE j <= Len(s)
    BY <2>1, <1>2, <1>3 DEF GoodSkips
  <2>2. CASE j > Len(s)
    <3>1. j - Len(s) \in 1..count /\ t[j] = new[j - Len(s)]
      BY <2>2, <1>2, <1>3
    <3> QED
      BY <3>1, <1>1, Zenon
  <2> QED
    BY <2>1, <2>2, <1>2, <1>3
<1>5. \A n \in i..(i + count - 1) : \E j \in 1..Len(t) : t[j].index = n
  <2> TAKE n \in i..(i + count - 1)
  <2>1. n - i + 1 \in 1..count /\ i + (n - i + 1) - 1 = n
    OBVIOUS
  <2>2. new[n - i + 1].index = i + (n - i + 1) - 1
    BY <2>1, <1>1, Zenon
  <2>3. Len(s) + (n - i + 1) \in 1..Len(t) /\ t[Len(s) + (n - i + 1)] = new[n - i + 1]
    BY <2>1, <1>2, <1>3
  <2> QED
    BY <2>1, <2>2, <2>3, Zenon
<1>6. GoodSkips(t)
  BY <1>3, <1>4, Zenon DEF GoodSkips
<1>7. \A j \in 1..Len(s) : t[j] = s[j]
  BY <1>2, <1>3
<1> HIDE DEF t
<1>8. ExtendsBy(t, s, i, count)
  BY <1>3, <1>5, <1>6, <1>7, Zenon DEF ExtendsBy
<1> QED
  BY <1>8, Zenon DEF t, new

\* The key found for a number in the skip list is that number's key.
LEMMA FoundKey ==
    ASSUME NEW s, GoodSkips(s), NEW i, NEW n \in Nat, HasSkipped(ReceivingChain(i, s), n)
    PROVE  FindSkipped(ReceivingChain(i, s), n) = [chain |-> SessionRoot, index |-> n]
<1> DEFINE First(j) == /\ s[j].index = n
                       /\ \A k \in 1..(j - 1) : s[k].index # n
<1>1. s \in Seq(SkippedEntries)
  BY Zenon DEF GoodSkips
<1>2. PICK j \in 1..Len(s) : s[j].index = n
  BY Zenon DEF HasSkipped, ReceivingChain
<1>3. \E j0 \in 1..Len(s) : First(j0)
  <2> DEFINE M == {k \in 1..Len(s) : s[k].index = n}
  <2>1. M \subseteq Nat /\ M # {}
    BY <1>1, <1>2
  <2>2. PICK m \in M : \A k \in M : ~(<<k, m>> \in OpToRel(<, Nat))
    BY <2>1, NatLessThanWellFounded, WFMin, Zenon
  <2>3. \A k \in M : ~(k < m)
    BY <2>1, <2>2, Zenon DEF OpToRel
  <2> QED
    BY <2>3, <1>1
<1>4. FindSkipped(ReceivingChain(i, s), n) = s[CHOOSE j0 \in 1..Len(s) : First(j0)].key
  BY Zenon DEF FindSkipped, ReceivingChain
<1> QED
  BY <1>3, <1>4, Zenon DEF GoodSkips

\* Moving a receiving chain changes its position and its list only.
LEMMA MovedChain ==
    ASSUME NEW i \in Nat, NEW s, NEW t, NEW m \in Nat
    PROVE  Moved(ReceivingChain(i, s), t, At(m)) = ReceivingChain(m, t)
<1> DEFINE c == ReceivingChain(i, s)
<1>1. [c EXCEPT !.skipped_message_keys = t] = ReceivingChain(i, t)
  BY DEF ReceivingChain
<1>2. [ReceivingChain(i, t) EXCEPT !.chain_key = At(m)] = ReceivingChain(m, t)
  BY DEF ReceivingChain, At
<1> HIDE DEF c
<1>3. [c EXCEPT !.skipped_message_keys = t, !.chain_key = At(m)]
        = [[c EXCEPT !.skipped_message_keys = t] EXCEPT !.chain_key = At(m)]
  BY Zenon
<1> QED
  BY <1>1, <1>2, <1>3, Zenon DEF c, Moved

\* What the receiving chain is after one more step.
LEMMA NextChain ==
    ASSUME NEW i \in Nat, NEW t
    PROVE  /\ ReceivingChain(i, t).chain_key = At(i)
           /\ [ReceivingChain(i, t) EXCEPT !.chain_key = ChainNext(@)] = ReceivingChain(i + 1, t)
           /\ MessageKey(At(i)) = [chain |-> SessionRoot, index |-> i]
<1>1. ReceivingChain(i, t).chain_key = At(i)
  BY Zenon DEF ReceivingChain, At
<1>2. ChainNext(At(i)) = At(i + 1) /\ MessageKey(At(i)) = [chain |-> SessionRoot, index |-> i]
  BY DEF At, ChainNext, MessageKey
<1> QED
  BY <1>1, <1>2 DEF ReceivingChain, At

\* decrypt on the responder, for an envelope of the initiator that is ahead of
\* the chain or has its key kept: it opens under a kept key and changes
\* nothing, or it opens and the chain moves past it, or the skip limit is hit.
DecryptResult(out, root, ck, i, s, n, text) ==
    \/ out = Outcome(ResponderRatchet(root, ck, i, s), "none", text)
    \/ /\ n >= i
       /\ n - i <= MaxSkip - Len(s)
       /\ out = Outcome(ResponderRatchet(root, ck, n + 1, s \o SkippedKeys(At(i), n - i)),
                        "none", text)
    \/ \E k \in Nat :
          out = Outcome(ResponderRatchet(root, ck, i + k, s \o SkippedKeys(At(i), k + 1)),
                        "TooManySkipped", None)

\* decrypt has one of these results.
LEMMA DecryptCases ==
    ASSUME NEW root, NEW ck, NEW i \in Nat, NEW s, GoodSkips(s), Len(s) <= MaxSkip,
           NEW n \in Nat, NEW text \in Texts,
           n >= i \/ \E j \in 1..Len(s) : s[j].index = n,
           NEW e, e = SealedEnvelope("I", SessionRoot, n, text)
    PROVE  DecryptResult(Decrypt(ResponderRatchet(root, ck, i, s), e.ciphertext, e.header),
                         root, ck, i, s, n, text)
<1> DEFINE r   == ResponderRatchet(root, ck, i, s)
           c   == ReceivingChain(i, s)
           out == Decrypt(r, e.ciphertext, e.header)
<1>1. /\ e.header = Header("I", n)
      /\ e.header.message_number = n
      /\ e.ciphertext.text = text
      /\ Opens(e.ciphertext, [chain |-> SessionRoot, index |-> n], e.header)
  BY Zenon DEF SealedEnvelope, Header, Seal, Opens
<1>2. /\ r.receiving_chain = c
      /\ c.chain_key = At(i)
      /\ c.chain_key # None
      /\ c.skipped_message_keys = s
      /\ Gap(c, n) = n - i
      /\ Room(c) = MaxSkip - Len(s)
      /\ Len(s) \in Nat
  <2>1. c.chain_key # None
    BY RootTypes, ChainKeyIsSome, Zenon DEF ReceivingChain
  <2> QED
    BY <2>1 DEF ResponderRatchet, ReceivingChain, Gap, Room, GoodSkips, At
<1>3. CASE HasSkipped(c, n)
  <2>1. FindSkipped(c, n) = [chain |-> SessionRoot, index |-> n]
    BY <1>3, FoundKey, Zenon
  <2>2. out = Open(r, FindSkipped(c, n), e.ciphertext, e.header)
    <3> HIDE DEF r, c
    <3> QED BY <1>1, <1>2, <1>3, Zenon DEF Decrypt
  <2>3. out = Outcome(r, "none", text)
    <3> HIDE DEF r, c, out
    <3> QED BY <1>1, <2>1, <2>2, Zenon DEF Open
  <2> QED
    BY <2>3, Zenon DEF DecryptResult
<1>4. CASE ~HasSkipped(c, n) /\ ~Overflows(c, n)
  <2>1. n >= i
    BY <1>2, <1>4, Zenon DEF HasSkipped
  <2>2. n - i <= MaxSkip - Len(s)
    BY <1>2, <1>4, <2>1, MaxSkipAssumption DEF Overflows
  <2>3. Pushes(c, n) = n - i
    BY <1>2, <1>4, <2>1 DEF Pushes
  <2>4. SkipTo(c, n) = ReceivingChain(n, s \o SkippedKeys(At(i), n - i))
    <3>1. SkipTo(c, n) = Moved(c, c.skipped_message_keys \o SkippedKeys(c.chain_key, n - i),
                               [c.chain_key EXCEPT !.index = @ + (n - i)])
      <4> HIDE DEF c
      <4> QED BY <1>4, <2>3, Zenon DEF SkipTo
    <3>2. [c.chain_key EXCEPT !.index = @ + (n - i)] = At(n)
      BY <1>2 DEF At
    <3> DEFINE t == s \o SkippedKeys(At(i), n - i)
    <3>3. c.skipped_message_keys \o SkippedKeys(c.chain_key, n - i) = t
      BY <1>2, Zenon
    <3>4. SkipTo(c, n) = Moved(c, t, At(n))
      <4> HIDE DEF c, t
      <4> QED BY <3>1, <3>2, <3>3, Zenon
    <3> HIDE DEF t
    <3>5. SkipTo(c, n) = ReceivingChain(n, t)
      BY <3>4, MovedChain
    <3> QED
      BY <3>5, Zenon DEF t
  <2>5. MessageKey(At(n)) = [chain |-> SessionRoot, index |-> n]
    BY NextChain, Zenon
  <2> DEFINE t == s \o SkippedKeys(At(i), n - i)
             moved == ReceivingChain(n, t)
  <2>6. moved.chain_key = At(n) /\ [moved EXCEPT !.chain_key = ChainNext(@)] = ReceivingChain(n + 1, t)
    BY NextChain, Zenon
  <2>7. out = Open([r EXCEPT !.receiving_chain = [SkipTo(c, n) EXCEPT !.chain_key = ChainNext(@)]],
                   MessageKey(SkipTo(c, n).chain_key), e.ciphertext, e.header)
    <3> HIDE DEF r, c
    <3> QED BY <1>1, <1>2, <1>4, Zenon DEF Decrypt
  <2>8. [r EXCEPT !.receiving_chain = ReceivingChain(n + 1, t)] = ResponderRatchet(root, ck, n + 1, t)
    BY DEF ResponderRatchet
  <2>9. out = Open(ResponderRatchet(root, ck, n + 1, t), [chain |-> SessionRoot, index |-> n],
                   e.ciphertext, e.header)
    <3> HIDE DEF r, c, out, t
    <3> QED BY <2>4, <2>5, <2>6, <2>7, <2>8, Zenon DEF moved, t
  <2>10. out = Outcome(ResponderRatchet(root, ck, n + 1, t), "none", text)
    <3> HIDE DEF r, c, out, t
    <3> QED BY <1>1, <2>9, Zenon DEF Open
  <2> QED
    BY <2>1, <2>2, <2>10, Zenon DEF DecryptResult
<1>5. CASE ~HasSkipped(c, n) /\ Overflows(c, n)
  <2> DEFINE k == MaxSkip - Len(s)
             t == s \o SkippedKeys(At(i), k + 1)
  <2>1. k \in Nat /\ Pushes(c, n) = k + 1
    BY <1>2, <1>5, MaxSkipAssumption DEF Pushes
  <2>2. SkipTo(c, n) = ReceivingChain(i + k, t)
    <3>1. SkipTo(c, n) = Moved(c, c.skipped_message_keys \o SkippedKeys(c.chain_key, k + 1),
                               [c.chain_key EXCEPT !.index = @ + k])
      <4>1. (k + 1) - 1 = k
        BY <2>1
      <4> HIDE DEF c, k
      <4> QED BY <1>5, <2>1, <4>1, Zenon DEF SkipTo
    <3>2. [c.chain_key EXCEPT !.index = @ + k] = At(i + k) /\ i + k \in Nat
      BY <1>2, <2>1 DEF At
    <3>3. c.skipped_message_keys \o SkippedKeys(c.chain_key, k + 1) = t
      BY <1>2, Zenon
    <3>4. SkipTo(c, n) = Moved(c, t, At(i + k))
      <4> HIDE DEF c, t, k
      <4> QED BY <3>1, <3>2, <3>3, Zenon
    <3> HIDE DEF t, k
    <3> QED
      BY <3>2, <3>4, MovedChain
  <2>3. out = Outcome([r EXCEPT !.receiving_chain = SkipTo(c, n)], "TooManySkipped", None)
    <3> HIDE DEF r, c
    <3> QED BY <1>1, <1>2, <1>5, Zenon DEF Decrypt
  <2>4. out = Outcome(ResponderRatchet(root, ck, i + k, t), "TooManySkipped", None)
    <3>1. [r EXCEPT !.receiving_chain = ReceivingChain(i + k, t)] = ResponderRatchet(root, ck, i + k, t)
      BY DEF ResponderRatchet
    <3> HIDE DEF r, c, out, t, k
    <3> QED BY <2>2, <2>3, <3>1, Zenon
  <2> QED
    BY <2>1, <2>4, Zenon DEF DecryptResult
<1> QED
  BY <1>3, <1>4, <1>5, Zenon

-----------------------------------------------------------------------------
(* The invariant is inductive *)

\* The parts of a joined responder's ratchet.
LEMMA ResponderParts ==
    ASSUME NEW root, NEW ck, NEW i \in Nat, NEW s, NEW r,
           r = ResponderRatchet(root, ck, i, s)
    PROVE  /\ r.root_key = root
           /\ r.sending_chain.chain_key = ck
           /\ r.receiving_chain.chain_key = At(i)
           /\ r.receiving_chain.chain_key.index = i
           /\ r.receiving_chain.chain_key # None
           /\ r.receiving_chain.skipped_message_keys = s
<1>1. r.receiving_chain.chain_key = At(i) /\ At(i).index = i
  BY Zenon DEF ResponderRatchet, ReceivingChain, At
<1>2. At(i) # None
  BY RootTypes, ChainKeyIsSome, Zenon DEF At
<1> QED
  BY <1>1, <1>2, Zenon DEF ResponderRatchet, ReceivingChain, Chain

\* A joined ratchet satisfies the responder's part of the invariant.
LEMMA JoinedIsOK ==
    ASSUME NEW r, NEW root, NEW ck, NEW i, NEW s, NEW up, NEW n, NEW m, NEW envelopes,
           Joined(r, root, ck, i, s, up, n, m, envelopes)
    PROVE  ResponderOK(r, up, n, m, envelopes)
<1>1. i \in Nat /\ r = ResponderRatchet(root, ck, i, s)
  BY Zenon DEF Joined
<1>2. /\ r.root_key = root
      /\ r.sending_chain.chain_key = ck
      /\ r.receiving_chain.chain_key.index = i
      /\ r.receiving_chain.chain_key # None
      /\ r.receiving_chain.skipped_message_keys = s
  BY <1>1, ResponderParts
<1> QED
  BY <1>2, Zenon DEF ResponderOK

\* Sealing the next message keeps the envelopes in step with the history.
LEMMA NetAfterSend ==
    ASSUME NetInv, sent \in [Parties -> Seq(Texts)],
           NEW p \in Parties, NEW text \in Texts,
           sent' = [sent EXCEPT ![p] = Append(@, text)],
           net' = net \union {SealedEnvelope(p, RootOf(p), Len(sent[p]), text)}
    PROVE  NetInv'
<1> DEFINE fresh == SealedEnvelope(p, RootOf(p), Len(sent[p]), text)
<1>1. /\ Len(sent'[p]) = Len(sent[p]) + 1
      /\ Len(sent[p]) \in Nat
      /\ sent'[p][Len(sent[p]) + 1] = text
      /\ \A m \in 1..Len(sent[p]) : sent'[p][m] = sent[p][m]
      /\ \A q \in Parties : q # p => sent'[q] = sent[q]
  OBVIOUS
<1> SUFFICES ASSUME NEW envelope \in net'
             PROVE  /\ envelope.from \in Parties
                    /\ envelope.header.message_number \in 0..(Len(sent'[envelope.from]) - 1)
                    /\ envelope = SealedEnvelope(envelope.from, RootOf(envelope.from),
                                    envelope.header.message_number,
                                    sent'[envelope.from][envelope.header.message_number + 1])
  BY Zenon DEF NetInv, RootOf
<1>2. CASE envelope = fresh
  <2>1. envelope.from = p /\ envelope.header.message_number = Len(sent[p])
    BY <1>2, Zenon DEF SealedEnvelope, Header
  <2> HIDE DEF fresh
  <2>2. Len(sent[p]) \in 0..(Len(sent'[p]) - 1)
    BY <1>1
  <2> QED
    BY <1>1, <1>2, <2>1, <2>2, Zenon DEF fresh
<1>3. CASE envelope \in net
  <2> DEFINE q == envelope.from
             n == envelope.header.message_number
  <2>1. /\ q \in Parties
        /\ n \in 0..(Len(sent[q]) - 1)
        /\ envelope = SealedEnvelope(q, RootOf(q), n, sent[q][n + 1])
    BY <1>3, Zenon DEF NetInv
  <2> HIDE DEF q, n
  <2>2. Len(sent[q]) \in Nat
    BY <2>1
  <2>3. n \in 0..(Len(sent'[q]) - 1) /\ sent'[q][n + 1] = sent[q][n + 1]
    <3>1. n + 1 \in 1..Len(sent[q])
      BY <2>1, <2>2
    <3>2. CASE q = p
      BY <1>1, <2>1, <3>1, <3>2
    <3>3. CASE q # p
      BY <1>1, <2>1, <3>3, Zenon
    <3> QED
      BY <3>2, <3>3, Zenon
  <2> QED
    BY <2>1, <2>3, Zenon DEF q, n
<1> QED
  BY <1>2, <1>3, Zenon

\* Removing envelopes keeps the rest in step.
LEMMA NetAfterRemoval ==
    ASSUME NetInv, sent' = sent, net' \subseteq net
    PROVE  NetInv'
  BY Zenon DEF NetInv, RootOf

\* Two envelopes of one sender under one number are the same envelope.
LEMMA NumbersAreUnique ==
    ASSUME NetInv, NEW a \in net, NEW b \in net, a.from = b.from,
           a.header.message_number = b.header.message_number
    PROVE  a = b
  BY Zenon DEF NetInv

\* What an envelope on its way carries.
LEMMA EnvelopeFacts ==
    ASSUME NetInv, sent \in [Parties -> Seq(Texts)], NEW envelope \in net
    PROVE  LET p == envelope.from
               n == envelope.header.message_number
           IN  /\ p \in Parties
               /\ n \in Nat
               /\ n < Len(sent[p])
               /\ n + 1 \in 1..Len(sent[p])
               /\ sent[p][n + 1] \in Texts
               /\ envelope.header.dh_public_key = p
               /\ envelope = SealedEnvelope(p, RootOf(p), n, sent[p][n + 1])
<1> DEFINE p == envelope.from
           n == envelope.header.message_number
<1>1. /\ p \in Parties
      /\ n \in 0..(Len(sent[p]) - 1)
      /\ envelope = SealedEnvelope(p, RootOf(p), n, sent[p][n + 1])
  BY Zenon DEF NetInv
<1>2. envelope.header.dh_public_key = p
  <2> HIDE DEF p, n
  <2> QED BY <1>1, Zenon DEF SealedEnvelope, Header
<1> HIDE DEF p, n
<1>3. Len(sent[p]) \in Nat /\ sent[p] \in Seq(Texts)
  BY <1>1
<1>4. n \in Nat /\ n < Len(sent[p]) /\ n + 1 \in 1..Len(sent[p])
  BY <1>1, <1>3
<1>5. sent[p][n + 1] \in Texts
  BY <1>3, <1>4
<1> QED
  BY <1>1, <1>2, <1>4, <1>5, Zenon DEF p, n

\* Before decrypt runs, the responder's session has stepped to the
\* initiator's chain, and every envelope on its way is covered.
LEMMA BeforeDecrypt ==
    ASSUME IInv, status["R"] = "up", NEW envelope \in net, envelope.from = "I"
    PROVE  \E r, root, ck, i, s :
              /\ Joined(r, root, ck, i, s, TRUE, Len(sent["I"]), Len(sent["R"]), From("I"))
              /\ SessionDecrypt(ratchet["R"], envelope) =
                   Decrypt(ResponderRatchet(root, ck, i, s), envelope.ciphertext, envelope.header)
<1> DEFINE n == Len(sent["I"])
           m == Len(sent["R"])
<1>1. /\ envelope.header.dh_public_key = "I"
      /\ \A e \in From("I") : e.header.message_number \in Nat
      /\ n \in Nat
      /\ ResponderOK(ratchet["R"], TRUE, n, m, From("I"))
  <2>1. NetInv /\ sent \in [Parties -> Seq(Texts)] /\ n \in Nat
    BY DEF IInv, Histories, Parties
  <2>2. ResponderOK(ratchet["R"], TRUE, n, m, From("I"))
    BY Zenon DEF IInv, ResponderInv
  <2> QED
    BY <2>1, <2>2, EnvelopeFacts, Zenon DEF From
<1> HIDE DEF n, m
<1>2. CASE ratchet["R"] = FreshResponder /\ m = 0
  <2>1. GoodSkips(<<>>) /\ Len(<<>>) = 0
    BY DEF GoodSkips
  <2>2. Covered(0, <<>>, From("I"))
    BY <1>1 DEF Covered
  <2>3. ReplySide(SessionRoot, None, m)
    BY <1>2, Zenon DEF ReplySide
  <2>4. SessionDecrypt(ratchet["R"], envelope) =
          Decrypt(ResponderRatchet(SessionRoot, None, 0, <<>>), envelope.ciphertext, envelope.header)
    BY <1>1, <1>2, FreshReceives, Zenon
  <2>5. 0 \in Nat /\ 0 <= n /\ 0 <= MaxSkip
    BY <1>1, MaxSkipAssumption
  <2>6. Joined(ResponderRatchet(SessionRoot, None, 0, <<>>),
               SessionRoot, None, 0, <<>>, TRUE, n, m, From("I"))
    BY <2>1, <2>2, <2>3, <2>5, Zenon DEF Joined
  <2> QED
    BY <2>4, <2>6, Zenon DEF n, m
<1>3. CASE ~(ratchet["R"] = FreshResponder /\ m = 0)
  <2>1. PICK root, ck, i, s : Joined(ratchet["R"], root, ck, i, s, TRUE, n, m, From("I"))
    BY <1>1, <1>3, Zenon DEF ResponderOK
  <2>2. SessionDecrypt(ResponderRatchet(root, ck, i, s), envelope) =
          Decrypt(ResponderRatchet(root, ck, i, s), envelope.ciphertext, envelope.header)
    BY <1>1, JoinedReceives
  <2>3. ratchet["R"] = ResponderRatchet(root, ck, i, s)
    BY <2>1, Zenon DEF Joined
  <2> QED
    BY <2>1, <2>2, <2>3, Zenon DEF n, m
<1> QED
  BY <1>2, <1>3, Zenon

\* decrypt on a running responder: the text that was typed comes out and the
\* other envelopes stay covered, or the skip limit is hit.
LEMMA ResponderDecrypts ==
    ASSUME IInv, status["R"] = "up", NEW envelope \in net, envelope.from = "I"
    PROVE  LET out == SessionDecrypt(ratchet["R"], envelope)
               up  == out.error = "none"
           IN  /\ up => out.text = sent["I"][envelope.header.message_number + 1]
               /\ ~up => out.error = "TooManySkipped"
               /\ ResponderOK(out.ratchet, up, Len(sent["I"]), Len(sent["R"]),
                              From("I") \ {envelope})
<1> DEFINE out  == SessionDecrypt(ratchet["R"], envelope)
           n    == envelope.header.message_number
           text == sent["I"][n + 1]
           up   == out.error = "none"
           rest == From("I") \ {envelope}
<1>1. NetInv /\ sent \in [Parties -> Seq(Texts)]
  BY Zenon DEF IInv, Histories
<1>2. /\ n \in Nat /\ n < Len(sent["I"]) /\ text \in Texts
      /\ envelope = SealedEnvelope("I", SessionRoot, n, text)
      /\ Len(sent["I"]) \in Nat
      /\ \A e \in From("I") : e.header.message_number \in Nat
      /\ \A e \in From("I") \ {envelope} : e.header.message_number # n
  <2>1. RootOf("I") = SessionRoot
    BY Zenon DEF RootOf
  <2>2. \A e \in From("I") \ {envelope} : e.header.message_number # n
    BY <1>1, NumbersAreUnique, Zenon DEF From
  <2>3. Len(sent["I"]) \in Nat
    BY <1>1 DEF Parties
  <2> QED
    BY <1>1, <2>1, <2>2, <2>3, EnvelopeFacts, Zenon DEF From
<1>3. PICK r, root, ck, i, s :
         /\ Joined(r, root, ck, i, s, TRUE, Len(sent["I"]), Len(sent["R"]), From("I"))
         /\ out = Decrypt(ResponderRatchet(root, ck, i, s), envelope.ciphertext, envelope.header)
  BY BeforeDecrypt, Zenon
<1>4. /\ i \in Nat
      /\ ReplySide(root, ck, Len(sent["R"]))
      /\ GoodSkips(s)
      /\ i <= Len(sent["I"])
      /\ Len(s) <= MaxSkip
      /\ Covered(i, s, From("I"))
      /\ n >= i \/ \E j \in 1..Len(s) : s[j].index = n
  BY <1>3, Zenon DEF Joined, Covered, From
<1> HIDE DEF out, n, text, up, rest
<1>5. DecryptResult(out, root, ck, i, s, n, text)
  BY <1>2, <1>3, <1>4, DecryptCases, Zenon
<1>6. Len(s) \in Nat
  BY <1>4 DEF GoodSkips
<1>7. CASE out = Outcome(ResponderRatchet(root, ck, i, s), "none", text)
  <2>1. out.ratchet = ResponderRatchet(root, ck, i, s) /\ up = TRUE /\ out.text = text
    BY <1>7, Zenon DEF Outcome, up
  <2>2. Covered(i, s, rest)
    BY <1>4, Zenon DEF Covered, rest
  <2>3. Joined(out.ratchet, root, ck, i, s, up, Len(sent["I"]), Len(sent["R"]), rest)
    BY <1>4, <2>1, <2>2, Zenon DEF Joined
  <2> QED
    BY <2>1, <2>3, JoinedIsOK, Zenon DEF out, up, text, n, rest
<1>8. CASE /\ n >= i
           /\ n - i <= MaxSkip - Len(s)
           /\ out = Outcome(ResponderRatchet(root, ck, n + 1,
                              s \o SkippedKeys(At(i), n - i)), "none", text)
  <2> DEFINE t == s \o SkippedKeys(At(i), n - i)
  <2>1. out.ratchet = ResponderRatchet(root, ck, n + 1, t) /\ up = TRUE /\ out.text = text
    BY <1>8, Zenon DEF Outcome, up
  <2>2. n - i \in Nat
    BY <1>2, <1>4, <1>8
  <2>3. ExtendsBy(t, s, i, n - i)
    BY <1>4, <2>2, PushedKeys, Zenon
  <2> HIDE DEF t
  <2>4. Len(t) <= MaxSkip /\ Len(t) \in Nat /\ 1..Len(s) \subseteq 1..Len(t)
    BY <1>6, <1>8, <2>2, <2>3, MaxSkipAssumption DEF ExtendsBy
  <2>5. Covered(n + 1, t, rest)
    <3> SUFFICES ASSUME NEW e \in rest
                 PROVE  \/ e.header.message_number >= n + 1
                        \/ \E j \in 1..Len(t) : t[j].index = e.header.message_number
      BY Zenon DEF Covered
    <3> DEFINE m == e.header.message_number
    <3>1. m \in Nat /\ m # n /\ e \in From("I")
      BY <1>2, Zenon DEF rest
    <3>2. CASE m > n
      BY <1>2, <3>1, <3>2
    <3>3. CASE m < n /\ m >= i
      <4>1. m \in i..(i + (n - i) - 1)
        BY <1>2, <1>4, <3>1, <3>3
      <4> QED
        BY <2>3, <4>1, Zenon DEF ExtendsBy
    <3>4. CASE ~(m >= i)
      <4>1. PICK j \in 1..Len(s) : s[j].index = m
        BY <1>4, <3>1, <3>4, Zenon DEF Covered
      <4>2. j \in 1..Len(t) /\ t[j].index = m
        BY <2>3, <2>4, <4>1, Zenon DEF ExtendsBy
      <4> QED
        BY <4>2, Zenon
    <3> QED
      BY <1>2, <3>1, <3>2, <3>3, <3>4
  <2>6. n + 1 \in Nat /\ n + 1 <= Len(sent["I"])
    BY <1>2
  <2>7. Joined(out.ratchet, root, ck, n + 1, t, up, Len(sent["I"]), Len(sent["R"]), rest)
    BY <1>4, <2>1, <2>3, <2>4, <2>5, <2>6, Zenon DEF Joined, ExtendsBy
  <2> QED
    BY <2>1, <2>7, JoinedIsOK, Zenon DEF out, up, text, n, rest
<1>9. CASE \E k \in Nat :
            out = Outcome(ResponderRatchet(root, ck, i + k,
                              s \o SkippedKeys(At(i), k + 1)), "TooManySkipped", None)
  <2>1. PICK k \in Nat :
            out = Outcome(ResponderRatchet(root, ck, i + k,
                              s \o SkippedKeys(At(i), k + 1)), "TooManySkipped", None)
    BY <1>9, Zenon
  <2> DEFINE t == s \o SkippedKeys(At(i), k + 1)
  <2>2. /\ out.ratchet = ResponderRatchet(root, ck, i + k, t)
        /\ out.error = "TooManySkipped"
        /\ up = FALSE
    BY <2>1, Zenon DEF Outcome, up
  <2>3. GoodSkips(t)
    BY <1>4, PushedKeys DEF ExtendsBy
  <2> HIDE DEF t
  <2>4. i + k \in Nat
    BY <1>4
  <2>5. Joined(out.ratchet, root, ck, i + k, t, up, Len(sent["I"]), Len(sent["R"]), rest)
    BY <1>4, <2>2, <2>3, <2>4, Zenon DEF Joined
  <2> QED
    BY <2>2, <2>5, JoinedIsOK, Zenon DEF out, up, rest
<1> QED
  BY <1>5, <1>7, <1>8, <1>9, Zenon DEF DecryptResult

\* The handshake leaves the two ratchets in the first states of the invariant.
LEMMA InitialInv == Init => IInv
<1> SUFFICES ASSUME Init PROVE IInv
  BY Zenon
<1>1. Histories
  BY DEF Init, Histories, Parties
<1>2. InitiatorInv
  <2>1. ratchet["I"] = InitInitiator(RootKey("pqxdh"), "I", "R") /\ Len(sent["I"]) = 0
    BY Zenon DEF Init, Parties
  <2> QED
    BY <2>1, Zenon DEF InitiatorInv, InitiatorRatchet, InitInitiator, SessionRoot, StepChain
<1>3. ResponderInv
  <2>1. ratchet["R"] = FreshResponder /\ Len(sent["R"]) = 0
    BY Zenon DEF Init, Parties, FreshResponder
  <2> QED
    BY <2>1, Zenon DEF ResponderInv, ResponderOK
<1>4. NetInv
  BY Zenon DEF Init, NetInv
<1> QED
  BY <1>1, <1>2, <1>3, <1>4, Zenon DEF IInv

\* The responder's part survives a further message of the initiator, the
\* removal of envelopes, and the end of the process.
LEMMA ResponderOKStays ==
    ASSUME NEW r, NEW up \in BOOLEAN, NEW down \in BOOLEAN, NEW n \in Nat, NEW m, NEW envelopes,
           NEW after \in Nat, n <= after, NEW others,
           ResponderOK(r, up, n, m, envelopes),
           down => up,
           \A e \in others : e \in envelopes \/ (e.header.message_number \in Nat /\ e.header.message_number >= n)
    PROVE  ResponderOK(r, down, after, m, others)
<1>1. CASE r = FreshResponder /\ m = 0
  BY <1>1, Zenon DEF ResponderOK
<1>2. CASE ~(r = FreshResponder /\ m = 0)
  <2>1. PICK root, ck, i, s : Joined(r, root, ck, i, s, up, n, m, envelopes)
    BY <1>2, Zenon DEF ResponderOK
  <2>2. i \in Nat
    BY <2>1, Zenon DEF Joined
  <2>3. down => i <= after /\ Len(s) <= MaxSkip /\ Covered(i, s, others)
    <3> SUFFICES ASSUME down
                 PROVE  i <= after /\ Len(s) <= MaxSkip /\ Covered(i, s, others)
      BY Zenon
    <3>1. i <= n /\ Len(s) <= MaxSkip /\ Covered(i, s, envelopes)
      BY <2>1, Zenon DEF Joined
    <3> QED
      BY <2>2, <3>1 DEF Covered
  <2>4. Joined(r, root, ck, i, s, down, after, m, others)
    BY <2>1, <2>3, Zenon DEF Joined
  <2> QED
    BY <2>4, JoinedIsOK, Zenon
<1> QED
  BY <1>1, <1>2, Zenon

\* encrypt and send_direct.
LEMMA SendKeepsInv ==
    ASSUME IInv, NEW p \in Parties, NEW text \in Texts, Send(p, text)
    PROVE  IInv'
<1> DEFINE n == Len(sent[p])
           fresh == SealedEnvelope(p, RootOf(p), n, text)
<1>1. Histories'
  <2>1. ratchet' = [q \in Parties |-> ratchet'[q]]
    BY Zenon DEF IInv, Histories, Send
  <2>2. sent' \in [Parties -> Seq(Texts)]
    BY DEF IInv, Histories, Send
  <2> QED
    BY <2>1, <2>2, Zenon DEF IInv, Histories, Send
<1>2. /\ n \in Nat
      /\ sent \in [Parties -> Seq(Texts)]
      /\ sent' = [sent EXCEPT ![p] = Append(@, text)]
      /\ Len(sent'[p]) = n + 1
      /\ \A q \in Parties : q # p => sent'[q] = sent[q]
      /\ status' = status
      /\ CanEncrypt(ratchet[p])
  BY DEF IInv, Histories, Send
<1>3. CASE p = "I"
  <2>1. ratchet["I"] = InitiatorRatchet(n)
    BY <1>3, Zenon DEF IInv, InitiatorInv
  <2> HIDE DEF n
  <2>2. Encrypt(ratchet["I"], text) =
                [ratchet    |-> InitiatorRatchet(n + 1),
                 header     |-> Header("I", n),
                 ciphertext |-> Seal([chain |-> SessionRoot, index |-> n],
                                     Header("I", n), text)]
    BY <1>2, <2>1, InitiatorEncrypts, Zenon
  <2> HIDE DEF fresh
  <2>3. ratchet' = [ratchet EXCEPT !["I"] = InitiatorRatchet(n + 1)] /\ net' = net \union {fresh}
    BY <1>3, <2>2 DEF Send, SealedEnvelope, fresh, RootOf
  <2>4. ratchet'["I"] = InitiatorRatchet(n + 1) /\ ratchet'["R"] = ratchet["R"]
    BY <2>3, Zenon DEF Parties, IInv, Histories
  <2>5. InitiatorInv'
    BY <1>2, <1>3, <2>4, Zenon DEF InitiatorInv
  <2>6. NetInv'
    BY <1>2, <2>3, NetAfterSend, Zenon DEF IInv, fresh, n
  <2>7. ResponderInv'
    <3>1. fresh.header.message_number = n
      BY Zenon DEF fresh, SealedEnvelope, Header
    <3>2. \A e \in From("I")' : e \in From("I") \/ (e.header.message_number \in Nat /\ e.header.message_number >= n)
      BY <1>2, <2>3, <3>1 DEF From
    <3>3. /\ Len(sent["I"]) = n
          /\ Len(sent'["I"]) = n + 1
          /\ sent'["R"] = sent["R"]
          /\ ResponderOK(ratchet["R"], status["R"] = "up", n, Len(sent["R"]), From("I"))
      BY <1>2, <1>3, Zenon DEF Parties, n, IInv, ResponderInv
    <3>4. n + 1 \in Nat /\ n <= n + 1
      BY <1>2
    <3> DEFINE up == status["R"] = "up"
    <3>5. up \in BOOLEAN /\ ResponderOK(ratchet["R"], up, n, Len(sent["R"]), From("I"))
      BY <3>3, Zenon
    <3> HIDE DEF up
    <3>6. ResponderOK(ratchet["R"], up, n + 1, Len(sent["R"]), From("I")')
      BY <1>2, <3>2, <3>4, <3>5, ResponderOKStays
    <3> QED
      BY <1>2, <2>4, <3>3, <3>6, Zenon DEF ResponderInv, up
  <2> QED
    BY <1>1, <2>5, <2>6, <2>7, Zenon DEF IInv
<1>4. CASE p = "R"
  <2>1. ResponderOK(ratchet["R"], status["R"] = "up", Len(sent["I"]), n, From("I"))
    BY <1>4, Zenon DEF IInv, ResponderInv
  <2>2. ratchet["R"] # FreshResponder
    BY <1>2, <1>4, FreshCannotEncrypt, Zenon
  <2> HIDE DEF n
  <2>3. PICK root, ck, i, s :
           Joined(ratchet["R"], root, ck, i, s, status["R"] = "up", Len(sent["I"]), n, From("I"))
    BY <2>1, <2>2, Zenon DEF ResponderOK
  <2>4. ratchet["R"] = ResponderRatchet(root, ck, i, s) /\ ReplySide(root, ck, n)
    BY <2>3, Zenon DEF Joined
  <2> DEFINE after == ResponderRatchet(ReplyRoot, [seed |-> ReplyRoot, index |-> n + 1], i, s)
  <2>5. Encrypt(ratchet["R"], text) =
                [ratchet    |-> after,
                 header     |-> Header("R", n),
                 ciphertext |-> Seal([chain |-> ReplyRoot, index |-> n],
                                     Header("R", n), text)]
    BY <1>2, <2>4, ResponderEncrypts DEF ReplySide
  <2> HIDE DEF fresh, after
  <2>6. ratchet' = [ratchet EXCEPT !["R"] = after] /\ net' = net \union {fresh}
    BY <1>4, <2>5 DEF Send, SealedEnvelope, fresh, RootOf
  <2>7. ratchet'["R"] = after /\ ratchet'["I"] = ratchet["I"]
    BY <2>6, Zenon DEF Parties, IInv, Histories
  <2>8. sent'["I"] = sent["I"] /\ Len(sent'["R"]) = n + 1 /\ From("I")' = From("I")
    <3>1. fresh.from = "R"
      BY <1>4, Zenon DEF fresh, SealedEnvelope
    <3> QED
      BY <1>2, <1>4, <2>6, <3>1, Zenon DEF Parties, From
  <2>9. InitiatorInv'
    BY <2>7, <2>8, Zenon DEF InitiatorInv, IInv
  <2>10. NetInv'
    BY <1>2, <2>6, NetAfterSend, Zenon DEF IInv, fresh, n
  <2>11. ReplySide(ReplyRoot, [seed |-> ReplyRoot, index |-> n + 1], n + 1)
    BY Zenon DEF ReplySide
  <2>12. Joined(after, ReplyRoot, [seed |-> ReplyRoot, index |-> n + 1], i, s,
                status["R"] = "up", Len(sent["I"]), n + 1, From("I"))
    BY <2>3, <2>11, Zenon DEF Joined, after
  <2>13. ResponderOK(after, status["R"] = "up", Len(sent["I"]), n + 1, From("I"))
    BY <2>12, JoinedIsOK, Zenon
  <2>14. ResponderInv'
    BY <1>2, <2>7, <2>8, <2>13, Zenon DEF ResponderInv
  <2> QED
    BY <1>1, <2>9, <2>10, <2>14, Zenon DEF IInv
<1> QED
  BY <1>3, <1>4, Zenon DEF Parties

\* A step that leaves the ratchets alone and only removes envelopes.
LEMMA QuietKeepsInv ==
    ASSUME IInv, Histories', ratchet' = ratchet, sent' = sent, net' \subseteq net,
           status'["R"] = "up" => status["R"] = "up"
    PROVE  IInv'
<1> DEFINE up == status["R"] = "up"
           down == status'["R"] = "up"
           n == Len(sent["I"])
<1>1. InitiatorInv' /\ NetInv'
  BY NetAfterRemoval, Zenon DEF IInv, InitiatorInv
<1>2. /\ up \in BOOLEAN /\ down \in BOOLEAN /\ (down => up)
      /\ n \in Nat /\ n <= n
      /\ ResponderOK(ratchet["R"], up, n, Len(sent["R"]), From("I"))
  <2>1. n \in Nat
    BY DEF IInv, Histories, Parties
  <2> QED
    BY <2>1 DEF IInv, ResponderInv
<1>3. \A e \in From("I")' : e \in From("I")
  BY Zenon DEF From
<1> HIDE DEF up, down, n
<1>4. ResponderOK(ratchet["R"], down, n, Len(sent["R"]), From("I")')
  BY <1>2, <1>3, ResponderOKStays, Zenon
<1>5. ResponderInv'
  BY <1>4, Zenon DEF ResponderInv, down, n
<1> QED
  BY <1>1, <1>5, Zenon DEF IInv

\* encrypt refuses and the process ends.
LEMMA SendFailsKeepsInv ==
    ASSUME IInv, NEW p \in Parties, SendFails(p)
    PROVE  IInv'
<1>1. Histories'
  <2>1. status' \in [Parties -> Errors \union {"up"}]
    BY Zenon DEF IInv, Histories, SendFails, Errors
  <2> QED
    BY <2>1, Zenon DEF IInv, Histories, SendFails
<1>2. status'["R"] = "up" => status["R"] = "up"
  BY Zenon DEF IInv, Histories, SendFails, Parties
<1> QED
  BY <1>1, <1>2, QuietKeepsInv, Zenon DEF SendFails

\* An envelope is lost.
LEMMA LoseKeepsInv ==
    ASSUME IInv, NEW envelope \in net, Lose(envelope)
    PROVE  IInv'
<1>1. Histories'
  BY Zenon DEF IInv, Histories, Lose
<1> QED
  BY <1>1, QuietKeepsInv, Zenon DEF Lose

\* The initiator receives an answer and its process ends.
LEMMA InitiatorReceives ==
    ASSUME IInv, NEW envelope \in net, Receive("I", envelope)
    PROVE  /\ ratchet' = ratchet
           /\ status' = [status EXCEPT !["I"] = "NoReceivingChain"]
           /\ got' = got
<1>1. envelope.from = "R"
  BY Zenon DEF Receive, Peer
<1>2. envelope.header.dh_public_key = "R" /\ Len(sent["I"]) \in Nat
  BY <1>1, EnvelopeFacts DEF IInv, Histories, Parties
<1> DEFINE r   == ratchet["I"]
           out == SessionDecrypt(r, envelope)
<1>3. out = Outcome(r, "NoReceivingChain", None)
  <2>1. r = InitiatorRatchet(Len(sent["I"]))
    BY Zenon DEF IInv, InitiatorInv
  <2> QED
    BY <1>2, <2>1, InitiatorRefuses, Zenon
<1>4. out.ratchet = r /\ out.error = "NoReceivingChain" /\ out.error # "none"
  <2> HIDE DEF out
  <2> QED BY <1>3, Zenon DEF Outcome
<1>5. /\ ratchet' = [ratchet EXCEPT !["I"] = out.ratchet]
      /\ status' = [status EXCEPT !["I"] = out.error]
      /\ got' = got
  BY <1>4, Zenon DEF Receive
<1> HIDE DEF out
<1>6. [ratchet EXCEPT !["I"] = ratchet["I"]] = ratchet
  BY Zenon DEF IInv, Histories
<1> QED
  BY <1>4, <1>5, <1>6, Zenon

\* The responder receives a message of the initiator.
LEMMA ResponderReceives ==
    ASSUME IInv, NEW envelope \in net, Receive("R", envelope)
    PROVE  IInv'
<1> DEFINE out == SessionDecrypt(ratchet["R"], envelope)
           up  == out.error = "none"
           n   == envelope.header.message_number
<1>1. envelope.from = "I" /\ status["R"] = "up"
  BY Zenon DEF Receive, Peer
<1>2. /\ up => out.text = sent["I"][n + 1]
      /\ ~up => out.error = "TooManySkipped"
      /\ ResponderOK(out.ratchet, up, Len(sent["I"]), Len(sent["R"]), From("I") \ {envelope})
  BY <1>1, ResponderDecrypts, Zenon
<1>3. n \in Nat /\ sent["I"][n + 1] \in Texts
  BY <1>1, EnvelopeFacts, Zenon DEF IInv, Histories
<1>4. /\ ratchet' = [ratchet EXCEPT !["R"] = out.ratchet]
      /\ net' = net \ {envelope}
      /\ sent' = sent
      /\ up => /\ got' = [got EXCEPT !["R"] = Append(@, [number |-> n, text |-> out.text])]
               /\ status' = status
      /\ ~up => /\ status' = [status EXCEPT !["R"] = out.error]
                /\ got' = got
  BY Zenon DEF Receive
<1> HIDE DEF out, n
<1>5. ratchet'["R"] = out.ratchet /\ ratchet'["I"] = ratchet["I"]
  BY <1>4, Zenon DEF Parties, IInv, Histories
<1>6. (status'["R"] = "up") = up
  BY <1>1, <1>2, <1>4, Zenon DEF IInv, Histories, Parties
<1>7. From("I")' = From("I") \ {envelope}
  BY <1>4, Zenon DEF From
<1>8. Histories'
  <2>1. ratchet' = [p \in Parties |-> ratchet'[p]]
    BY <1>4, Zenon DEF IInv, Histories
  <2>2. status' \in [Parties -> Errors \union {"up"}]
    BY <1>2, <1>4, Zenon DEF IInv, Histories, Errors
  <2>3. got' \in [Parties -> Seq([number : Nat, text : Texts])]
    <3>1. CASE up
      <4> DEFINE entries == [number : Nat, text : Texts]
                 entry   == [number |-> n, text |-> out.text]
      <4>1. entry \in entries
        BY <1>2, <1>3, <3>1, Zenon
      <4>2. got \in [Parties -> Seq(entries)] /\ got' = [got EXCEPT !["R"] = Append(@, entry)]
        BY <1>4, <3>1, Zenon DEF IInv, Histories
      <4> HIDE DEF entries, entry
      <4>3. Append(got["R"], entry) \in Seq(entries)
        BY <4>1, <4>2 DEF Parties
      <4>4. got' \in [Parties -> Seq(entries)]
        BY <4>2, <4>3, Zenon
      <4> QED
        BY <4>4, Zenon DEF entries
    <3>2. CASE ~up
      BY <1>4, <3>2, Zenon DEF IInv, Histories
    <3> QED
      BY <3>1, <3>2, Zenon
  <2> QED
    BY <1>4, <2>1, <2>2, <2>3, Zenon DEF IInv, Histories
<1>9. InitiatorInv' /\ NetInv'
  BY <1>4, <1>5, NetAfterRemoval, Zenon DEF IInv, InitiatorInv
<1>10. ResponderInv'
  <2> HIDE DEF up
  <2> QED BY <1>2, <1>4, <1>5, <1>6, <1>7, Zenon DEF ResponderInv
<1> QED
  BY <1>8, <1>9, <1>10, Zenon DEF IInv

\* ChatSession::decrypt on either side.
LEMMA ReceiveKeepsInv ==
    ASSUME IInv, NEW p \in Parties, NEW envelope \in net, Receive(p, envelope)
    PROVE  IInv'
<1>1. CASE p = "I"
  <2>1. /\ ratchet' = ratchet
        /\ status' = [status EXCEPT !["I"] = "NoReceivingChain"]
        /\ got' = got
    BY <1>1, InitiatorReceives, Zenon
  <2>2. sent' = sent /\ net' \subseteq net
    BY Zenon DEF Receive
  <2>3. Histories'
    BY <2>1, <2>2, Zenon DEF IInv, Histories, Errors
  <2>4. status'["R"] = status["R"]
    BY <2>1, Zenon DEF IInv, Histories, Parties
  <2> QED
    BY <2>1, <2>2, <2>3, <2>4, QuietKeepsInv, Zenon
<1>2. CASE p = "R"
  BY <1>2, ResponderReceives, Zenon
<1> QED
  BY <1>1, <1>2, Zenon DEF Parties

\* IInv is an inductive invariant.
LEMMA InductiveInv == IInv /\ [Next]_vars => IInv'
<1> SUFFICES ASSUME IInv, [Next]_vars PROVE IInv'
  BY Zenon
<1>1. ASSUME NEW p \in Parties, NEW text \in Texts, Send(p, text) PROVE IInv'
  BY <1>1, SendKeepsInv, Zenon
<1>2. ASSUME NEW p \in Parties, SendFails(p) PROVE IInv'
  BY <1>2, SendFailsKeepsInv, Zenon
<1>3. ASSUME NEW p \in Parties, NEW envelope \in net, Receive(p, envelope) PROVE IInv'
  BY <1>3, ReceiveKeepsInv, Zenon
<1>4. ASSUME NEW envelope \in net, Lose(envelope) PROVE IInv'
  BY <1>4, LoseKeepsInv, Zenon
<1>5. CASE UNCHANGED vars
  <2>1. /\ ratchet' = ratchet /\ sent' = sent /\ net' \subseteq net
        /\ status' = status /\ got' = got
    BY <1>5, Zenon DEF vars
  <2>2. Histories'
    BY <2>1, Zenon DEF IInv, Histories
  <2> QED
    BY <2>1, <2>2, QuietKeepsInv, Zenon
<1> QED
  BY <1>1, <1>2, <1>3, <1>4, <1>5, Zenon DEF Next

-----------------------------------------------------------------------------
(* What follows *)

\* The states of the inductive invariant have the types of TypeOK.
LEMMA InvImpliesTypes == IInv => TypeOK
<1> SUFFICES ASSUME IInv PROVE TypeOK
  BY Zenon
<1> DEFINE Key == Parties \union {None}
<1>1. /\ ratchet = [p \in Parties |-> ratchet[p]]
      /\ status \in [Parties -> Errors \union {"up"}]
      /\ sent \in [Parties -> Seq(Texts)]
      /\ got \in [Parties -> Seq([number : Nat, text : Texts])]
      /\ NetInv
  BY Zenon DEF IInv, Histories
<1>2. ASSUME NEW our \in Key, NEW their \in Key, NEW ck \in ChainKeys \union {None},
             NEW s \in Seq(SkippedEntries)
      PROVE  [our_ratchet_key |-> our, their_ratchet_public |-> their,
              chain_key |-> ck, skipped_message_keys |-> s] \in Chains
  BY <1>2, Zenon DEF Chains, SkippedEntries
<1>3. ASSUME NEW our \in Key, NEW their \in Key, NEW ck \in ChainKeys \union {None}
      PROVE  Chain(our, their, ck) \in Chains
  <2>1. <<>> \in Seq(SkippedEntries)
    OBVIOUS
  <2> QED
    BY <1>2, <1>3, <2>1, Zenon DEF Chain
<1>4. ASSUME NEW root \in Roots, NEW a \in Chains, NEW b \in Chains
      PROVE  [root_key |-> root, sending_chain |-> a, receiving_chain |-> b] \in Ratchets
  BY <1>4, Zenon DEF Ratchets
<1>5. /\ "I" \in Key /\ "R" \in Key /\ None \in Key
      /\ None \in ChainKeys \union {None}
      /\ SessionRoot \in Roots /\ ReplyRoot \in Roots /\ RootKey("pqxdh") \in Roots
  <2>1. RootKey("pqxdh") \in Roots
    BY DEF RootKey, Roots
  <2> QED
    BY <2>1, RootTypes, Zenon DEF Parties
<1> HIDE DEF Key
<1>6. ratchet["I"] \in Ratchets
  <2> DEFINE n  == Len(sent["I"])
             ck == [seed |-> SessionRoot, index |-> n]
  <2>1. n \in Nat /\ ratchet["I"] = InitiatorRatchet(n)
    BY <1>1 DEF IInv, InitiatorInv, Parties
  <2> HIDE DEF n
  <2>2. ck \in ChainKeys \union {None}
    BY <1>5, <2>1, ChainKeyIsSome, Zenon
  <2>3. ratchet["I"] = [root_key |-> SessionRoot, sending_chain |-> Chain("I", "R", ck),
                        receiving_chain |-> Chain(None, "R", None)]
    BY <2>1, Zenon DEF InitiatorRatchet
  <2> HIDE DEF ck
  <2>4. Chain("I", "R", ck) \in Chains /\ Chain(None, "R", None) \in Chains
    BY <1>3, <1>5, <2>2, Zenon
  <2> QED
    BY <1>4, <1>5, <2>3, <2>4, Zenon
<1>7. ratchet["R"] \in Ratchets
  <2>1. CASE ratchet["R"] = FreshResponder
    <3>1. Chain("R", None, None) \in Chains /\ Chain(None, None, None) \in Chains
      BY <1>3, <1>5, Zenon
    <3> QED
      BY <1>4, <1>5, <2>1, <3>1, Zenon DEF FreshResponder, InitResponder
  <2>2. CASE ratchet["R"] # FreshResponder
    <3>1. PICK root, ck, i, s : Joined(ratchet["R"], root, ck, i, s, status["R"] = "up",
                                       Len(sent["I"]), Len(sent["R"]), From("I"))
      BY <2>2, Zenon DEF IInv, ResponderInv, ResponderOK
    <3>2. /\ i \in Nat
          /\ s \in Seq(SkippedEntries)
          /\ ReplySide(root, ck, Len(sent["R"]))
          /\ ratchet["R"] = ResponderRatchet(root, ck, i, s)
      BY <3>1, Zenon DEF Joined, GoodSkips
    <3>3. root \in Roots /\ ck \in ChainKeys \union {None}
      <4>1. Len(sent["R"]) \in Nat
        BY <1>1 DEF Parties
      <4> QED
        BY <1>5, <3>2, <4>1, ChainKeyIsSome, Zenon DEF ReplySide
    <3>4. At(i) \in ChainKeys \union {None}
      BY <1>5, <3>2, ChainKeyIsSome, Zenon DEF At
    <3>5. ReceivingChain(i, s) \in Chains
      BY <1>2, <1>5, <3>2, <3>4, Zenon DEF ReceivingChain, At
    <3>6. Chain("R", "I", ck) \in Chains
      BY <1>3, <1>5, <3>3, Zenon
    <3> QED
      BY <1>4, <3>2, <3>3, <3>5, <3>6, Zenon DEF ResponderRatchet
  <2> QED
    BY <2>1, <2>2, Zenon
<1>8. ratchet \in [Parties -> Ratchets]
  BY <1>1, <1>6, <1>7, Zenon DEF Parties
<1>9. net \subseteq Envelopes
  <2> SUFFICES ASSUME NEW envelope \in net PROVE envelope \in Envelopes
    BY Zenon
  <2> DEFINE p    == envelope.from
             n    == envelope.header.message_number
             text == sent[p][n + 1]
             key  == [chain |-> RootOf(p), index |-> n]
             h    == Header(p, n)
  <2>1. /\ p \in Parties /\ n \in Nat /\ text \in Texts
        /\ envelope = SealedEnvelope(p, RootOf(p), n, text)
    BY <1>1, EnvelopeFacts, Zenon
  <2> HIDE DEF p, n, text
  <2>2. key \in MessageKeys /\ key.index = n
    BY <1>5, <2>1, Zenon DEF RootOf, MessageKeys
  <2>3. h \in Headers
    BY <2>1, Zenon DEF Header, Headers
  <2>4. envelope = [from |-> p, header |-> h, ciphertext |-> Seal(key, h, text)]
    BY <2>1, Zenon DEF SealedEnvelope
  <2> HIDE DEF key, h
  <2>5. Seal(key, h, text) \in [key : MessageKeys, nonce : Nat, aad : Headers, text : Texts]
    BY <2>1, <2>2, <2>3, Zenon DEF Seal
  <2> QED
    BY <2>1, <2>3, <2>4, <2>5 DEF Envelopes
<1> QED
  BY <1>1, <1>8, <1>9, Zenon DEF TypeOK

\* An envelope of the initiator opens on the running responder.
LEMMA InvImpliesReadable == IInv => InFlightReadable
<1> SUFFICES ASSUME IInv, status["R"] = "up", NEW envelope \in From("I")
             PROVE  LET out == SessionDecrypt(ratchet["R"], envelope)
                    IN  \/ out.error = "TooManySkipped"
                        \/ /\ out.error = "none"
                           /\ out.text = sent["I"][envelope.header.message_number + 1]
  BY Zenon DEF InFlightReadable
<1>1. envelope \in net /\ envelope.from = "I"
  BY Zenon DEF From
<1> QED
  BY <1>1, ResponderDecrypts, Zenon

\* A running process keeps at most MaxSkip skipped keys.
LEMMA InvImpliesBounded == IInv => SkippedKeysBounded
<1> SUFFICES ASSUME IInv, NEW p \in Parties, status[p] = "up"
             PROVE  Len(ratchet[p].receiving_chain.skipped_message_keys) <= MaxSkip
  BY Zenon DEF SkippedKeysBounded
<1>1. Len(<<>>) <= MaxSkip
  BY MaxSkipAssumption
<1>2. CASE p = "I"
  <2>1. ratchet["I"].receiving_chain.skipped_message_keys = <<>>
    BY DEF IInv, InitiatorInv, InitiatorRatchet, Chain
  <2> QED
    BY <1>1, <1>2, <2>1, Zenon
<1>3. CASE p = "R"
  <2>1. CASE ratchet["R"] = FreshResponder
    BY <1>1, <1>3, <2>1 DEF FreshResponder, InitResponder, Chain
  <2>2. CASE ratchet["R"] # FreshResponder
    BY <1>3, <2>2, Zenon DEF IInv, ResponderInv, ResponderOK, Joined
  <2> QED
    BY <2>1, <2>2, Zenon
<1> QED
  BY <1>2, <1>3, Zenon DEF Parties

-----------------------------------------------------------------------------
(* The theorems *)

\* Every reachable state of a session is well typed: encrypt is never run
\* without the keys it needs and no chain is derived from a missing key.
THEOREM SessionTypes == Spec => []TypeOK
<1>1. Spec => []IInv
  BY InitialInv, InductiveInv, PTL DEF Spec
<1> QED
  BY <1>1, InvImpliesTypes, PTL

\* Whatever was overtaken or lost before, an envelope of the initiator that
\* reaches a running responder opens to the text that was typed, unless the
\* skip limit refuses it.
THEOREM MessagesStayReadable == Spec => []InFlightReadable
<1>1. Spec => []IInv
  BY InitialInv, InductiveInv, PTL DEF Spec
<1> QED
  BY <1>1, InvImpliesReadable, PTL

\* The list of skipped keys of a running process never exceeds the limit.
THEOREM SkipListBounded == Spec => []SkippedKeysBounded
<1>1. Spec => []IInv
  BY InitialInv, InductiveInv, PTL DEF Spec
<1> QED
  BY <1>1, InvImpliesBounded, PTL

-----------------------------------------------------------------------------
(* The session implements the channel *)

Transit == [p \in Parties |-> Numbers(p)]
Arrived == [p \in Parties |-> Shown(Peer(p))]

\* The initial states of a session are initial states of the channel.
LEMMA ChannelInit == Init => Channel!Init
<1> SUFFICES ASSUME Init PROVE Channel!Init
  BY Zenon
<1>1. \A p \in Parties : Numbers(p) = {}
  BY Zenon DEF Init, Numbers, From
<1>2. \A p \in Parties : Peer(p) \in Parties /\ Shown(Peer(p)) = {}
  BY DEF Init, Shown, Peer, Parties
<1>3. Transit = [p \in Parties |-> {}] /\ Arrived = [p \in Parties |-> {}]
  BY <1>1, <1>2, Zenon DEF Transit, Arrived
<1> QED
  BY <1>3, Zenon DEF Channel!Init, Init, Transit, Arrived

\* Taking an envelope off the net takes its number out of transit.
LEMMA TransitAfterRemoval ==
    ASSUME NetInv, NEW envelope \in net, net' = net \ {envelope}
    PROVE  LET p == envelope.from
               n == envelope.header.message_number
           IN  /\ p \in Parties
               /\ n \in Transit[p]
               /\ Transit' = [Transit EXCEPT ![p] = @ \ {n}]
<1> DEFINE p == envelope.from
           n == envelope.header.message_number
<1>1. p \in Parties /\ envelope \in From(p)
  BY Zenon DEF NetInv, From
<1>2. n \in Numbers(p)
  BY <1>1, Zenon DEF Numbers
<1>3. Numbers(p)' = Numbers(p) \ {n}
  <2>1. \A e \in From(p) : e.header.message_number = n <=> e = envelope
    BY <1>1, NumbersAreUnique, Zenon DEF From
  <2>2. From(p)' = From(p) \ {envelope}
    BY Zenon DEF From
  <2> QED
    BY <2>1, <2>2, Zenon DEF Numbers
<1>4. \A q \in Parties : q # p => Numbers(q)' = Numbers(q)
  BY Zenon DEF Numbers, From
<1> HIDE DEF p, n
<1>5. Transit' = [Transit EXCEPT ![p] = @ \ {n}]
  BY <1>1, <1>3, <1>4, Zenon DEF Transit
<1>6. n \in Transit[p]
  BY <1>1, <1>2, Zenon DEF Transit
<1> QED
  BY <1>1, <1>5, <1>6, Zenon DEF p, n

\* Sealing the next message puts its number in transit.
LEMMA TransitAfterSend ==
    ASSUME NEW p \in Parties, NEW fresh, fresh.from = p, net' = net \union {fresh}
    PROVE  Transit' = [Transit EXCEPT ![p] = @ \union {fresh.header.message_number}]
<1>1. Numbers(p)' = Numbers(p) \union {fresh.header.message_number}
  BY Zenon DEF Numbers, From
<1>2. \A q \in Parties : q # p => Numbers(q)' = Numbers(q)
  BY Zenon DEF Numbers, From
<1> QED
  BY <1>1, <1>2, Zenon DEF Transit

\* What is shown to nobody changes nothing.
LEMMA ArrivedSame ==
    ASSUME got' = got
    PROVE  Arrived' = Arrived
  BY Zenon DEF Arrived, Shown

\* encrypt and send_direct are a Send of the channel.
LEMMA ChannelSend ==
    ASSUME IInv, NEW p \in Parties, NEW text \in Texts, Send(p, text)
    PROVE  Channel!Send(p, text)
<1>1. PICK fresh : /\ fresh.from = p
                   /\ fresh.header.message_number = Len(sent[p])
                   /\ net' = net \union {fresh}
  <2> DEFINE out == Encrypt(ratchet[p], text)
             fresh == [from |-> p, header |-> out.header, ciphertext |-> out.ciphertext]
  <2>1. net' = net \union {fresh}
    BY Zenon DEF Send
  <2>2. out.header.message_number = Len(sent[p])
    <3>1. CASE p = "I"
      <4> DEFINE n == Len(sent["I"])
      <4>1. n \in Nat /\ ratchet["I"] = InitiatorRatchet(n)
        BY DEF IInv, InitiatorInv, Histories, Parties
      <4> HIDE DEF n
      <4>2. out = [ratchet    |-> InitiatorRatchet(n + 1),
                   header     |-> Header("I", n),
                   ciphertext |-> Seal([chain |-> SessionRoot, index |-> n],
                                       Header("I", n), text)]
        BY <3>1, <4>1, InitiatorEncrypts, Zenon
      <4> HIDE DEF out
      <4>3. out.header = Header("I", n)
        BY <4>2, Zenon
      <4> QED
        BY <3>1, <4>3 DEF Header, n
    <3>2. CASE p = "R"
      <4> DEFINE n == Len(sent["R"])
      <4>1. n \in Nat /\ ResponderOK(ratchet["R"], status["R"] = "up", Len(sent["I"]), n, From("I"))
        BY DEF IInv, ResponderInv, Histories, Parties
      <4>2. ratchet["R"] # FreshResponder
        BY <3>2, FreshCannotEncrypt, Zenon DEF Send
      <4> HIDE DEF n
      <4>3. PICK root, ck, i, s :
               ratchet["R"] = ResponderRatchet(root, ck, i, s) /\ ReplySide(root, ck, n)
        BY <4>1, <4>2, Zenon DEF ResponderOK, Joined
      <4>4. out = [ratchet    |-> ResponderRatchet(ReplyRoot,
                                      [seed |-> ReplyRoot, index |-> n + 1], i, s),
                   header     |-> Header("R", n),
                   ciphertext |-> Seal([chain |-> ReplyRoot, index |-> n],
                                       Header("R", n), text)]
        BY <3>2, <4>1, <4>3, ResponderEncrypts DEF ReplySide
      <4> HIDE DEF out
      <4>5. out.header = Header("R", n)
        BY <4>4, Zenon
      <4> QED
        BY <3>2, <4>5 DEF Header, n
    <3> QED
      BY <3>1, <3>2, Zenon DEF Parties
  <2> HIDE DEF out
  <2>3. fresh.from = p /\ fresh.header.message_number = Len(sent[p])
    BY <2>2, Zenon
  <2> QED
    BY <2>1, <2>3, Zenon
<1>2. Transit' = [Transit EXCEPT ![p] = @ \union {Len(sent[p])}]
  BY <1>1, TransitAfterSend, Zenon
<1>3. Arrived' = Arrived
  BY ArrivedSame, Zenon DEF Send
<1>4. sent' = [sent EXCEPT ![p] = Append(@, text)]
  BY Zenon DEF Send
<1> QED
  BY <1>2, <1>3, <1>4, Zenon DEF Channel!Send, Transit, Arrived

\* An envelope that is dropped, or whose decryption fails, is lost.
LEMMA ChannelLose ==
    ASSUME NetInv, NEW envelope \in net, net' = net \ {envelope}, got' = got, sent' = sent
    PROVE  Channel!Next
<1> DEFINE p == envelope.from
           n == envelope.header.message_number
<1>1. p \in Parties /\ n \in Transit[p] /\ Transit' = [Transit EXCEPT ![p] = @ \ {n}]
  BY TransitAfterRemoval, Zenon
<1>2. Arrived' = Arrived
  BY ArrivedSame, Zenon
<1> HIDE DEF p, n
<1>3. Channel!Lose(p, n)
  BY <1>1, <1>2, Zenon DEF Channel!Lose, Transit, Arrived
<1>4. n \in Numbers(p)
  BY <1>1, Zenon DEF Transit
<1> QED
  BY <1>1, <1>3, Zenon DEF Channel!Next, Transit

\* A message that opens on the responder arrives.
LEMMA ChannelArrive ==
    ASSUME IInv, NEW envelope \in net, Receive("R", envelope),
           SessionDecrypt(ratchet["R"], envelope).error = "none"
    PROVE  Channel!Next
<1> DEFINE n    == envelope.header.message_number
           text == sent["I"][n + 1]
           out  == SessionDecrypt(ratchet["R"], envelope)
<1>1. envelope.from = "I" /\ status["R"] = "up"
  BY Zenon DEF Receive, Peer
<1>2. out.text = text
  BY <1>1, ResponderDecrypts, Zenon
<1>3. /\ got' = [got EXCEPT !["R"] = Append(@, [number |-> n, text |-> text])]
      /\ sent' = sent
      /\ net' = net \ {envelope}
  <2>1. out.error = "none"
    BY Zenon
  <2> HIDE DEF text
  <2> QED BY <1>2, <2>1, Zenon DEF Receive
<1>4. n \in Transit["I"] /\ Transit' = [Transit EXCEPT !["I"] = @ \ {n}]
  BY <1>1, <1>3, TransitAfterRemoval, Zenon DEF IInv
<1> HIDE DEF n
<1>5. Shown("R")' = Shown("R") \union {<<n, text>>} /\ Shown("I")' = Shown("I")
  <2> DEFINE old   == got["R"]
             entry == [number |-> n, text |-> text]
             new   == Append(old, entry)
  <2>1. old \in Seq([number : Nat, text : Texts]) /\ got'["R"] = new /\ got'["I"] = got["I"]
    BY <1>3, Zenon DEF IInv, Histories, Parties
  <2>2. entry.number = n /\ entry.text = text
    BY Zenon
  <2> HIDE DEF old, entry, text
  <2>3. /\ DOMAIN new = DOMAIN old \union {Len(old) + 1}
        /\ \A i \in DOMAIN old : new[i] = old[i]
        /\ new[Len(old) + 1] = entry
    BY <2>1
  <2> HIDE DEF new
  <2>4. {<<new[i].number, new[i].text>> : i \in DOMAIN new}
          = {<<old[i].number, old[i].text>> : i \in DOMAIN old} \union {<<n, text>>}
    BY <2>2, <2>3
  <2> QED
    BY <2>1, <2>4, Zenon DEF Shown, old
<1>6. Arrived' = [Arrived EXCEPT !["I"] = @ \union {<<n, text>>}]
  <2>1. Peer("I") = "R" /\ Peer("R") = "I"
    BY Zenon DEF Peer
  <2> HIDE DEF text
  <2> QED
    BY <1>5, <2>1, Zenon DEF Arrived, Parties
<1>7. Channel!Arrive("I", n)
  BY <1>3, <1>4, <1>6, Zenon DEF Channel!Arrive, Transit, Arrived
<1> QED
  BY <1>4, <1>7, Zenon DEF Channel!Next, Transit, Parties

\* Every step of a session is a step of the channel, or leaves it unchanged.
LEMMA ChannelNext == IInv /\ [Next]_vars => [Channel!Next]_(Channel!vars)
<1> SUFFICES ASSUME IInv, [Next]_vars PROVE [Channel!Next]_(Channel!vars)
  BY Zenon
<1>1. ASSUME NEW p \in Parties, NEW text \in Texts, Send(p, text) PROVE Channel!Next
  BY <1>1, ChannelSend, Zenon DEF Channel!Next
<1>2. ASSUME sent' = sent, net' = net, got' = got PROVE UNCHANGED Channel!vars
  BY <1>2, Zenon DEF Channel!vars, Numbers, Shown, From
<1>3. ASSUME NEW p \in Parties, NEW envelope \in net, Receive(p, envelope) PROVE Channel!Next
  <2>1. NetInv /\ sent' = sent /\ net' = net \ {envelope}
    BY <1>3, Zenon DEF IInv, Receive
  <2>2. CASE p = "I"
    <3>1. got' = got
      BY <1>3, <2>2, InitiatorReceives, Zenon
    <3> QED
      BY <2>1, <3>1, ChannelLose, Zenon
  <2>3. CASE p = "R" /\ SessionDecrypt(ratchet["R"], envelope).error = "none"
    BY <1>3, <2>3, ChannelArrive, Zenon
  <2>4. CASE p = "R" /\ SessionDecrypt(ratchet["R"], envelope).error # "none"
    <3>1. got' = got
      BY <1>3, <2>4, Zenon DEF Receive
    <3> QED
      BY <2>1, <3>1, ChannelLose, Zenon
  <2> QED
    BY <2>2, <2>3, <2>4, Zenon DEF Parties
<1>4. ASSUME NEW envelope \in net, Lose(envelope) PROVE Channel!Next
  BY <1>4, ChannelLose, Zenon DEF IInv, Lose
<1> QED
  BY <1>1, <1>2, <1>3, <1>4, Zenon DEF Next, vars, SendFails

\* A session is a channel that may lose and reorder what is sent but never
\* duplicates, alters or invents a message.
THEOREM SessionIsChannel == Spec => ImplementsChannel
<1>1. Spec => []IInv
  BY InitialInv, InductiveInv, PTL DEF Spec
<1> QED
  BY <1>1, ChannelInit, ChannelNext, PTL DEF Spec, ImplementsChannel, Channel!Spec

=============================================================================
