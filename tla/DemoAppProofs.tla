--------------------------- MODULE DemoAppProofs ---------------------------
(***************************************************************************)
(* Proofs about the two processes of the demo application, for any number  *)
(* of runs, texts, handshakes and messages under way and any MaxSkip.      *)
(* First the sessions: which ones the two sides can hold, and what         *)
(* encrypting, decrypting, saving and loading do to them.  Then what the   *)
(* application keeps of them: StateInv says what each party holds, saves   *)
(* and sends, and Frame what a step of one party leaves alone.  Last, what *)
(* each handler does, that it keeps StateInv, and that the saved sessions  *)
(* are current.                                                            *)
(***************************************************************************)
EXTENDS DemoApp, TLAPS

-----------------------------------------------------------------------------
(* The saved form of a session *)

\* ChainSnapshot::from_chain followed by to_chain is the identity.
LEMMA ChainRoundTrip ==
    ASSUME NEW c \in Chains
    PROVE  /\ FromChain(c) \in ChainSnapshots
           /\ ChainLoads(FromChain(c))
           /\ ToChain(FromChain(c)) = c
<1>1. CASE c.chain_key = None
  BY <1>1, Zenon DEF Chains, ChainSnapshots, Opt, ChainLoads, FromChain, ToChain
<1>2. CASE c.chain_key \in [seed : Roots, index : Nat]
  <2>1. c.chain_key # None
    BY <1>2, NoneAssumption, Zenon
  <2>2. /\ FromChain(c).chain_key # None
        /\ FromChain(c).chain_key.seed = c.chain_key.seed
        /\ FromChain(c).chain_index = c.chain_key.index
        /\ c.chain_key.index \in Nat
    BY <1>2, <2>1, Zenon DEF FromChain
  <2>3. [seed |-> c.chain_key.seed, index |-> c.chain_key.index] = c.chain_key
    BY <1>2, Zenon
  <2>4. ToChain(FromChain(c)) =
            [our_ratchet_key      |-> c.our_ratchet_key,
             their_ratchet_public |-> c.their_ratchet_public,
             chain_key            |-> c.chain_key,
             skipped_message_keys |-> c.skipped_message_keys]
    BY <2>2, <2>3, Zenon DEF ToChain, FromChain
  <2>5. FromChain(c) \in ChainSnapshots
    BY <2>1, <2>2, Zenon DEF Chains, ChainSnapshots, FromChain
  <2>6. ChainLoads(FromChain(c))
    BY <2>2, Zenon DEF ChainLoads
  <2> QED BY <2>4, <2>5, <2>6, Zenon DEF Chains
<1> QED BY <1>1, <1>2, Zenon DEF Chains, Opt

\* RatchetSnapshot::from_ratchet and to_ratchet: a saved session always
\* loads, and the rebuilt ratchet equals the saved one in every field, for
\* every ratchet and not only the freshly initialised one of the unit test.
THEOREM SnapshotRoundTrip ==
    ASSUME NEW r \in Ratchets
    PROVE  /\ FromRatchet(r) \in Snapshots
           /\ Loads(FromRatchet(r))
           /\ ToRatchet(FromRatchet(r)) = r
<1> DEFINE s == r.sending_chain
           v == r.receiving_chain
<1>1. /\ s \in Chains /\ v \in Chains /\ r.root_key \in Roots
      /\ r = [root_key |-> r.root_key, sending_chain |-> s, receiving_chain |-> v]
  BY Zenon DEF Ratchets
<1>2. /\ FromChain(s) \in ChainSnapshots /\ FromChain(v) \in ChainSnapshots
      /\ ChainLoads(FromChain(s)) /\ ToChain(FromChain(s)) = s
      /\ ChainLoads(FromChain(v)) /\ ToChain(FromChain(v)) = v
  BY <1>1, ChainRoundTrip, Zenon
<1>3. /\ FromRatchet(r).root_key = r.root_key
      /\ FromRatchet(r).sending_chain = FromChain(s)
      /\ FromRatchet(r).receiving_chain = FromChain(v)
  BY Zenon DEF FromRatchet
<1> HIDE DEF s, v
<1>4. FromRatchet(r) \in Snapshots
  BY <1>1, <1>2, Zenon DEF FromRatchet, Snapshots, s, v
<1> QED BY <1>1, <1>2, <1>3, <1>4, Zenon DEF Loads, ToRatchet
-----------------------------------------------------------------------------
(* The sessions of the demo.  A PQXDH secret s gives each side one ratchet *)
(* key; a session is determined by its secret, by the ratchet key its peer *)
(* sent, and by how far its chains have got.                               *)

Ik(s) == RatchetKey("I", s)
Rk(s) == RatchetKey("R", s)
ResponderKeys == {"R"} \X Nat

\* The roots a session can have: after the first step and after the second.
Root1(s, public) == [secret |-> s, steps |-> <<{Ik(s), public}>>]
Root2(s) == RatchetStep(Root1(s, Rk(s)), DH(Rk(s), Ik(s)))

Public(r)  == r.sending_chain.their_ratchet_public
SendKey(r) == r.sending_chain.chain_key
Sent(r)    == SendKey(r).index
Read(r)    == r.receiving_chain.chain_key.index
Kept(r)    == r.receiving_chain.skipped_message_keys

\* The initiator's session after n messages.
InitiatorAt(s, public, n) ==
    [root_key        |-> Root1(s, public),
     sending_chain   |-> Chain(Ik(s), public, [seed |-> Root1(s, public), index |-> n]),
     receiving_chain |-> Chain(None, public, None)]

IsInitiator(r) ==
    /\ SecretOf(r) \in Secrets /\ Public(r) \in ResponderKeys /\ Sent(r) \in Nat
    /\ r = InitiatorAt(SecretOf(r), Public(r), Sent(r))

\* The responder's session before it has read a message, and after.
Fresh(s) == ResponderSession("R", s)

Entry(s, n) == [index |-> n, key |-> [chain |-> Root1(s, Rk(s)), index |-> n]]
Entries(s)  == {Entry(s, n) : n \in Nat}

\* A session that expects message i keeps keys of earlier ones, each once.
Once(list)  == \A j, k \in 1..Len(list) : list[j].index = list[k].index => j = k
KeptOK(s, i, list) ==
    list \in Seq(Entries(s)) /\ Once(list) /\ \A j \in 1..Len(list) : list[j].index < i

Receiving(s, i, list) ==
    [our_ratchet_key |-> None, their_ratchet_public |-> None,
     chain_key |-> [seed |-> Root1(s, Rk(s)), index |-> i], skipped_message_keys |-> list]

ResponderAt(s, root, ck, i, list) ==
    [root_key        |-> root,
     sending_chain   |-> Chain(Rk(s), Ik(s), ck),
     receiving_chain |-> Receiving(s, i, list)]

\* It has a sending chain once it has answered.
SendPart(s, root, ck) ==
    \/ root = Root1(s, Rk(s)) /\ ck = None
    \/ root = Root2(s) /\ \E m \in Nat : ck = [seed |-> Root2(s), index |-> m]

IsFresh(r) == SecretOf(r) \in Secrets /\ r = Fresh(SecretOf(r))

IsJoined(r) ==
    /\ SecretOf(r) \in Secrets /\ Read(r) \in Nat \ {0} /\ KeptOK(SecretOf(r), Read(r), Kept(r))
    /\ SendPart(SecretOf(r), r.root_key, SendKey(r))
    /\ r = ResponderAt(SecretOf(r), r.root_key, SendKey(r), Read(r), Kept(r))

IsResponder(r) == IsFresh(r) \/ IsJoined(r)

\* The ratchet keys of different secrets and of the two sides differ.
LEMMA KeyFacts ==
    ASSUME NEW s \in Secrets
    PROVE  /\ Ik(s) \in Ids /\ Ik(s) # None
           /\ Rk(s) \in Ids /\ Rk(s) # None /\ Rk(s) \in ResponderKeys
           /\ \A t \in Secrets : (Ik(t) = Ik(s) => t = s) /\ (Rk(t) = Rk(s) => t = s)
           /\ \A k \in ResponderKeys : k \in Ids /\ k # None /\ k # Ik(s)
<1>1. /\ Ik(s) \in Ids /\ Rk(s) \in Ids /\ Rk(s) \in ResponderKeys
      /\ \A k \in ResponderKeys : k \in Ids /\ k # Ik(s)
  BY DEF Ik, Rk, RatchetKey, Ids, Secrets, Parties, ResponderKeys
<1>2. \A t \in Secrets : (Ik(t) = Ik(s) => t = s) /\ (Rk(t) = Rk(s) => t = s)
  BY DEF Ik, Rk, RatchetKey, Secrets
<1> QED
  BY <1>1, <1>2, NoneAssumption, Zenon

\* RootKey::ratchet_step adds a DH output to a root.
LEMMA RootStep ==
    ASSUME NEW s, NEW steps, NEW x
    PROVE  RatchetStep([secret |-> s, steps |-> steps], x) = [secret |-> s, steps |-> Append(steps, x)]
<1>1. [[secret |-> s, steps |-> steps] EXCEPT !.steps = Append(@, x)]
        = [secret |-> s, steps |-> Append(steps, x)]
  OBVIOUS
<1> QED
  BY <1>1, Zenon DEF RatchetStep

LEMMA AppendFacts ==
    ASSUME NEW S, NEW q \in Seq(S), NEW x \in S
    PROVE  Append(q, x) \in Seq(S) /\ Len(Append(q, x)) = Len(q) + 1
OBVIOUS

\* Roots of different secrets, peers' keys or lengths differ.
LEMMA RootFacts ==
    ASSUME NEW s \in Secrets, NEW public \in ResponderKeys
    PROVE  /\ Root1(s, public) \in Roots /\ Root1(s, public).secret = s
           /\ Root2(s) \in Roots /\ Root2(s).secret = s
           /\ \A t \in Secrets, k \in ResponderKeys :
                 Root1(t, k) = Root1(s, public) => t = s /\ k = public
           /\ \A t \in Secrets : Root1(s, public) # Root2(t)
<1>1. Ik(s) \in Ids /\ Rk(s) \in Ids /\ public \in Ids
  BY KeyFacts, Zenon
<1>2. Root1(s, public) \in Roots /\ Root1(s, public).secret = s
  BY <1>1 DEF Root1, Roots
<1>5. \A t \in Secrets : /\ Root2(t) \in Roots /\ Root2(t).secret = t
                         /\ Len(Root2(t).steps) = 2
  <2> SUFFICES ASSUME NEW t \in Secrets
               PROVE  /\ Root2(t) \in Roots /\ Root2(t).secret = t
                      /\ Len(Root2(t).steps) = 2
    BY Zenon
  <2> DEFINE x == DH(Rk(t), Ik(t))
             first == <<{Ik(t), Rk(t)}>>
  <2>1. x \in SUBSET Ids /\ first \in Seq(SUBSET Ids) /\ Len(first) = 1
    BY KeyFacts DEF DH
  <2>2. Root1(t, Rk(t)) = [secret |-> t, steps |-> first]
    BY Zenon DEF Root1
  <2> HIDE DEF x, first
  <2>3. Root2(t) = [secret |-> t, steps |-> Append(first, x)]
    BY <2>2, RootStep, Zenon DEF Root2, x
  <2>4. Append(first, x) \in Seq(SUBSET Ids) /\ Len(Append(first, x)) = Len(first) + 1
    BY <2>1, AppendFacts, Zenon
  <2>5. Len(Append(first, x)) = 2
    BY <2>1, <2>4
  <2> QED
    BY <2>3, <2>4, <2>5 DEF Roots
<1>3. \A t \in Secrets, k \in ResponderKeys :
          Root1(t, k) = Root1(s, public) => t = s /\ k = public
  <2> SUFFICES ASSUME NEW t \in Secrets, NEW k \in ResponderKeys, Root1(t, k) = Root1(s, public)
               PROVE  t = s /\ k = public
    BY Zenon
  <2>1. t = s
    BY Zenon DEF Root1
  <2>2. <<{Ik(s), k}>> = <<{Ik(s), public}>>
    BY <2>1, Zenon DEF Root1
  <2>3. {Ik(s), k} = {Ik(s), public}
    BY <2>2, Zenon
  <2>4. k # Ik(s) /\ public # Ik(s)
    BY KeyFacts, Zenon
  <2> QED
    BY <2>1, <2>3, <2>4, Zenon
<1>4. \A t \in Secrets : Root1(s, public) # Root2(t)
  <2> SUFFICES ASSUME NEW t \in Secrets, Root1(s, public) = Root2(t) PROVE FALSE
    BY Zenon
  <2>1. Root1(s, public).steps = Root2(t).steps
    BY Zenon
  <2>2. Len(Root1(s, public).steps) = 1 /\ Len(Root2(t).steps) = 2
    BY <1>5, Zenon DEF Root1
  <2> QED
    BY <2>1, <2>2
<1> QED
  BY <1>2, <1>3, <1>4, <1>5, Zenon

\* A chain key is not None, and lists of message keys have their type.
LEMMA ChainKeyFacts ==
    ASSUME NEW root \in Roots, NEW n \in Nat
    PROVE  /\ [seed |-> root, index |-> n] \in [seed : Roots, index : Nat]
           /\ [seed |-> root, index |-> n] # None
BY NoneAssumption

LEMMA SubsetSequences ==
    ASSUME NEW S, NEW T, S \subseteq T
    PROVE  Seq(S) \subseteq Seq(T)
OBVIOUS

LEMMA EntryFacts ==
    ASSUME NEW s \in Secrets
    PROVE  /\ \A n \in Nat : Entry(s, n) \in Entries(s)
           /\ \A x \in Entries(s) : /\ x.index \in Nat
                                    /\ x.key = [chain |-> Root1(s, Rk(s)), index |-> x.index]
           /\ Seq(Entries(s)) \subseteq Skipped
<1>1. Root1(s, Rk(s)) \in Roots
  BY KeyFacts, RootFacts, Zenon
<1>2. Entries(s) \subseteq [index : Nat, key : KeysAt]
  BY <1>1 DEF Entries, Entry, KeysAt
<1>3. Seq(Entries(s)) \subseteq Skipped
  BY <1>2, SubsetSequences, Zenon DEF Skipped
<1> QED
  BY <1>3 DEF Entries, Entry
-----------------------------------------------------------------------------
(* The parts of these sessions *)

LEMMA InitiatorParts ==
    ASSUME NEW s \in Secrets, NEW public \in ResponderKeys, NEW n \in Nat,
           NEW r, r = InitiatorAt(s, public, n)
    PROVE  /\ IsInitiator(r) /\ r \in Ratchets /\ r # None
           /\ SecretOf(r) = s /\ Public(r) = public /\ Sent(r) = n
           /\ r.root_key = Root1(s, public)
           /\ SendKey(r) # None
<1> DEFINE ck == [seed |-> Root1(s, public), index |-> n]
<1>1. Root1(s, public) \in Roots /\ Root1(s, public).secret = s
  BY RootFacts, Zenon
<1>2. ck \in [seed : Roots, index : Nat] /\ ck # None /\ ck.index = n
  BY <1>1, ChainKeyFacts, Zenon
<1>3. /\ r.root_key = Root1(s, public)
      /\ r.sending_chain = Chain(Ik(s), public, ck)
      /\ r.receiving_chain = Chain(None, public, None)
  BY Zenon DEF InitiatorAt
<1> HIDE DEF ck
<1>4. /\ Chain(Ik(s), public, ck).their_ratchet_public = public
      /\ Chain(Ik(s), public, ck).chain_key = ck
  BY Zenon DEF Chain
<1>5. SecretOf(r) = s /\ Public(r) = public /\ Sent(r) = n /\ SendKey(r) # None
  BY <1>1, <1>2, <1>3, <1>4, Zenon DEF SecretOf, Public, Sent, SendKey
<1>6. r \in Ratchets
  <2>1. Ik(s) \in Opt(Ids) /\ public \in Opt(Ids) /\ None \in Opt(Ids)
    BY KeyFacts, Zenon DEF Opt
  <2>2. ck \in Opt([seed : Roots, index : Nat]) /\ None \in Opt([seed : Roots, index : Nat])
    BY <1>2, Zenon DEF Opt
  <2>3. <<>> \in Skipped
    BY DEF Skipped
  <2>4. Chain(Ik(s), public, ck) \in Chains /\ Chain(None, public, None) \in Chains
    BY <2>1, <2>2, <2>3, Zenon DEF Chain, Chains
  <2> QED
    BY <1>1, <2>4, Zenon DEF InitiatorAt, Ratchets, ck
<1>7. r # None
  BY <1>6, NoneAssumption, Zenon
<1> QED
  BY <1>3, <1>5, <1>6, <1>7, Zenon DEF IsInitiator

LEMMA FreshParts ==
    ASSUME NEW s \in Secrets, NEW r, r = Fresh(s)
    PROVE  /\ IsFresh(r) /\ r \in Ratchets /\ r # None
           /\ SecretOf(r) = s /\ r.root_key = RootKey(s)
           /\ r.sending_chain = Chain(Rk(s), None, None)
           /\ r.receiving_chain = Chain(None, None, None)
           /\ ~IsJoined(r) /\ ~CanEncrypt(r) /\ SendKey(r) = None
<1>1. r = [root_key        |-> RootKey(s),
           sending_chain   |-> Chain(Rk(s), None, None),
           receiving_chain |-> Chain(None, None, None)]
  BY Zenon DEF Fresh, ResponderSession, InitResponder, SessionKeys, Rk
<1>2. RootKey(s) \in Roots /\ RootKey(s).secret = s
  BY DEF RootKey, Roots
<1>3. Chain(Rk(s), None, None) \in Chains /\ Chain(None, None, None) \in Chains
  BY KeyFacts DEF Chain, Chains, Opt, Skipped
<1>4. r \in Ratchets
  BY <1>1, <1>2, <1>3 DEF Ratchets
<1>5. SecretOf(r) = s
  BY <1>1, <1>2 DEF SecretOf
<1>6. SendKey(r) = None /\ ~CanEncrypt(r)
  BY <1>1 DEF Chain, CanEncrypt, SendKey
<1>7. ASSUME IsJoined(r) PROVE FALSE
  <2>1. r.sending_chain.their_ratchet_public = Ik(s)
    BY <1>5, <1>7 DEF IsJoined, ResponderAt, Chain
  <2>2. r.sending_chain.their_ratchet_public = None
    BY <1>1 DEF Chain
  <2> QED
    BY <2>1, <2>2, KeyFacts, Zenon
<1>8. /\ r.root_key = RootKey(s)
      /\ r.sending_chain = Chain(Rk(s), None, None)
      /\ r.receiving_chain = Chain(None, None, None)
  BY <1>1
<1>9. IsFresh(r) /\ r # None
  BY <1>4, <1>5, NoneAssumption, Zenon DEF IsFresh
<1> QED
  BY <1>4, <1>5, <1>6, <1>7, <1>8, <1>9, Zenon

ResponderShape(r, s, root, ck, i, list) ==
    /\ IsJoined(r) /\ ~IsFresh(r) /\ r \in Ratchets /\ r # None
    /\ SecretOf(r) = s /\ r.root_key = root /\ SendKey(r) = ck
    /\ Read(r) = i /\ Kept(r) = list
    /\ r.sending_chain = Chain(Rk(s), Ik(s), ck)
    /\ r.receiving_chain = Receiving(s, i, list)

LEMMA ResponderParts ==
    ASSUME NEW s \in Secrets, NEW root, NEW ck, SendPart(s, root, ck),
           NEW i \in Nat, i # 0, NEW list, KeptOK(s, i, list),
           NEW r, r = ResponderAt(s, root, ck, i, list)
    PROVE  ResponderShape(r, s, root, ck, i, list)
<1> DEFINE root1 == Root1(s, Rk(s))
           at    == [seed |-> root1, index |-> i]
<1>1. /\ root1 \in Roots /\ root1.secret = s /\ Root2(s) \in Roots /\ Root2(s).secret = s
      /\ Ik(s) \in Ids /\ Ik(s) # None /\ Rk(s) \in Ids
  BY KeyFacts, RootFacts, Zenon
<1>2. root \in Roots /\ root.secret = s
  BY <1>1, Zenon DEF SendPart
<1>3. ck \in Opt([seed : Roots, index : Nat])
  BY <1>1 DEF SendPart, Opt
<1>4. at \in [seed : Roots, index : Nat] /\ at.index = i
  BY <1>1, ChainKeyFacts, Zenon
<1>5. /\ r.root_key = root /\ r.sending_chain = Chain(Rk(s), Ik(s), ck)
      /\ r.receiving_chain = Receiving(s, i, list)
  BY Zenon DEF ResponderAt
<1>6. Read(r) = i /\ Kept(r) = list /\ SecretOf(r) = s /\ SendKey(r) = ck
  BY <1>2, <1>5 DEF Receiving, Chain, Read, Kept, SecretOf, SendKey
<1>7. IsJoined(r)
  BY <1>5, <1>6, Zenon DEF IsJoined
<1>8. r \in Ratchets
  <2>1. list \in Skipped
    BY EntryFacts, Zenon DEF KeptOK
  <2>0. <<>> \in Skipped
    BY DEF Skipped
  <2>2. Chain(Rk(s), Ik(s), ck) \in Chains
    BY <1>1, <1>3, <2>0, Zenon DEF Chain, Chains, Opt
  <2> HIDE DEF root1
  <2>3. Receiving(s, i, list) \in Chains
    BY <1>4, <2>1, Zenon DEF Receiving, Chains, Opt, root1
  <2> QED
    BY <1>2, <2>2, <2>3, Zenon DEF ResponderAt, Ratchets
<1>9. ~IsFresh(r)
  <2>1. IsFresh(r) => r.sending_chain = Chain(Rk(s), None, None)
    BY <1>6, FreshParts, Zenon DEF IsFresh
  <2>2. Chain(Rk(s), None, None) # Chain(Rk(s), Ik(s), ck)
    BY <1>1, Zenon DEF Chain
  <2> QED
    BY <1>5, <2>1, <2>2, Zenon
<1> QED
  BY <1>5, <1>6, <1>7, <1>8, <1>9, NoneAssumption, Zenon DEF ResponderShape

\* Sessions have their types.
LEMMA SessionTypes ==
    ASSUME NEW r, IsInitiator(r) \/ IsResponder(r)
    PROVE  r \in Ratchets /\ r # None /\ SecretOf(r) \in Secrets
<1>1. CASE IsInitiator(r)
  BY <1>1, InitiatorParts, Zenon DEF IsInitiator
<1>2. CASE IsFresh(r)
  BY <1>2, FreshParts, Zenon DEF IsFresh
<1>3. CASE IsJoined(r)
  <2>1. ResponderShape(r, SecretOf(r), r.root_key, SendKey(r), Read(r), Kept(r))
    BY <1>3, ResponderParts, Zenon DEF IsJoined
  <2> QED
    BY <1>3, <2>1, Zenon DEF ResponderShape, IsJoined
<1> QED
  BY <1>1, <1>2, <1>3, Zenon DEF IsResponder

\* InitiatorHandshake::establish gives the session before its first message.
LEMMA EstablishedSession ==
    ASSUME NEW s \in Secrets, NEW public \in ResponderKeys
    PROVE  InitiatorSession("I", s, public) = InitiatorAt(s, public, 0)
<1>1. Append(<<>>, {Ik(s), public}) = <<{Ik(s), public}>>
  OBVIOUS
<1>2. RatchetStep(RootKey(s), DH(Ik(s), public)) = Root1(s, public)
  BY <1>1, RootStep, Zenon DEF RootKey, DH, Root1
<1> QED
  BY <1>2, Zenon DEF InitiatorSession, InitInitiator, SessionKeys, InitiatorAt, StepChain, Ik
-----------------------------------------------------------------------------
(* Encrypting *)

CtSecret(ct) == ct.key.chain.secret

\* The k-th message of the initiator of a session, and of its responder.
ISealed(s, public, k, t) == Seal([chain |-> Root1(s, public), index |-> k], Header(Ik(s), k), t)
RSealed(s, k, t) == Seal([chain |-> Root2(s), index |-> k], Header(Rk(s), k), t)

CtTypes(ct) == CtSecret(ct) \in Secrets /\ ct.nonce \in Nat /\ ct.text \in Ids
ByInitiator(ct) ==
    /\ CtTypes(ct)
    /\ \E public \in ResponderKeys : ct = ISealed(CtSecret(ct), public, ct.nonce, ct.text)
ByResponder(ct) ==
    CtTypes(ct) /\ ct = RSealed(CtSecret(ct), ct.nonce, ct.text)

\* The parts of a message.
CtShape(ct, s, root, public, k, t) ==
    /\ ct.key = [chain |-> root, index |-> k] /\ ct.key.chain = root /\ ct.key.index = k
    /\ ct.nonce = k /\ ct.text = t
    /\ ct.aad = Header(public, k) /\ ct.aad.dh_public_key = public /\ ct.aad.message_number = k
    /\ CtSecret(ct) = s /\ CtTypes(ct) /\ ct \in Ciphertexts /\ ct.aad \in Headers

LEMMA MessageParts ==
    ASSUME NEW s \in Secrets, NEW root \in Roots, root.secret = s, NEW public \in Ids,
           NEW k \in Nat, NEW t \in Ids,
           NEW ct, ct = Seal([chain |-> root, index |-> k], Header(public, k), t)
    PROVE  CtShape(ct, s, root, public, k, t)
<1>1. /\ ct.key = [chain |-> root, index |-> k] /\ ct.nonce = k /\ ct.text = t
      /\ ct.aad = Header(public, k)
      /\ ct = [key |-> ct.key, nonce |-> ct.nonce, aad |-> ct.aad, text |-> ct.text]
  BY Zenon DEF Seal
<1>2. ct.aad.dh_public_key = public /\ ct.aad.message_number = k /\ ct.aad \in Headers
  BY <1>1 DEF Header, Headers
<1>3. ct.key \in KeysAt /\ CtSecret(ct) = s /\ ct.key.chain = root /\ ct.key.index = k
  BY <1>1 DEF KeysAt, CtSecret
<1>4. ct \in Ciphertexts
  BY <1>1, <1>2, <1>3, Zenon DEF Ciphertexts
<1> QED
  BY <1>1, <1>2, <1>3, <1>4, Zenon DEF CtShape, CtTypes

LEMMA InitiatorMessage ==
    ASSUME NEW s \in Secrets, NEW public \in ResponderKeys, NEW k \in Nat, NEW t \in Ids,
           NEW ct, ct = ISealed(s, public, k, t)
    PROVE  CtShape(ct, s, Root1(s, public), Ik(s), k, t) /\ ByInitiator(ct)
<1>1. Root1(s, public) \in Roots /\ Root1(s, public).secret = s /\ Ik(s) \in Ids
  BY RootFacts, KeyFacts, Zenon
<1>2. CtShape(ct, s, Root1(s, public), Ik(s), k, t)
  BY <1>1, MessageParts, Zenon DEF ISealed
<1>3. CtTypes(ct) /\ CtSecret(ct) = s /\ ct.nonce = k /\ ct.text = t
  BY <1>2, Zenon DEF CtShape
<1> QED
  BY <1>2, <1>3, Zenon DEF ByInitiator

LEMMA ResponderMessage ==
    ASSUME NEW s \in Secrets, NEW k \in Nat, NEW t \in Ids, NEW ct, ct = RSealed(s, k, t)
    PROVE  CtShape(ct, s, Root2(s), Rk(s), k, t) /\ ByResponder(ct)
<1>1. Root2(s) \in Roots /\ Root2(s).secret = s /\ Rk(s) \in Ids
  BY RootFacts, KeyFacts, Zenon
<1>2. CtShape(ct, s, Root2(s), Rk(s), k, t)
  BY <1>1, MessageParts, Zenon DEF RSealed
<1>3. CtTypes(ct) /\ CtSecret(ct) = s /\ ct.nonce = k /\ ct.text = t
  BY <1>2, Zenon DEF CtShape
<1> QED
  BY <1>2, <1>3, Zenon DEF ByResponder

\* The key a message was sealed with tells its author.
LEMMA AuthorShape ==
    ASSUME NEW ct
    PROVE  /\ ByInitiator(ct) => \E public \in ResponderKeys :
                 CtShape(ct, CtSecret(ct), Root1(CtSecret(ct), public), Ik(CtSecret(ct)), ct.nonce, ct.text)
           /\ ByResponder(ct) =>
                 CtShape(ct, CtSecret(ct), Root2(CtSecret(ct)), Rk(CtSecret(ct)), ct.nonce, ct.text)
<1> DEFINE s == CtSecret(ct)
           n == ct.nonce
           t == ct.text
<1>1. ASSUME ByInitiator(ct)
      PROVE  \E public \in ResponderKeys : CtShape(ct, s, Root1(s, public), Ik(s), n, t)
  <2>1. PICK public \in ResponderKeys : ct = ISealed(s, public, n, t)
    BY <1>1, Zenon DEF ByInitiator
  <2>2. s \in Secrets /\ n \in Nat /\ t \in Ids
    BY <1>1, Zenon DEF ByInitiator, CtTypes
  <2> HIDE DEF s, n, t
  <2> QED
    BY <2>1, <2>2, InitiatorMessage, Zenon
<1>2. ASSUME ByResponder(ct)
      PROVE  CtShape(ct, s, Root2(s), Rk(s), n, t)
  <2>1. ct = RSealed(s, n, t)
    BY <1>2, Zenon DEF ByResponder
  <2>2. s \in Secrets /\ n \in Nat /\ t \in Ids
    BY <1>2, Zenon DEF ByResponder, CtTypes
  <2> HIDE DEF s, n, t
  <2> QED
    BY <2>1, <2>2, ResponderMessage, Zenon
<1> QED
  BY <1>1, <1>2, Zenon

\* No message is of both sides.
LEMMA OneAuthor ==
    ASSUME NEW ct, ByInitiator(ct), ByResponder(ct)
    PROVE  FALSE
<1> DEFINE s == CtSecret(ct)
<1>1. s \in Secrets
  BY Zenon DEF ByResponder, CtTypes
<1>2. PICK public \in ResponderKeys : CtShape(ct, s, Root1(s, public), Ik(s), ct.nonce, ct.text)
  BY AuthorShape, Zenon
<1>3. CtShape(ct, s, Root2(s), Rk(s), ct.nonce, ct.text)
  BY AuthorShape, Zenon
<1> HIDE DEF s
<1>4. ct.key.chain = Root1(s, public)
  BY <1>2, Zenon DEF CtShape
<1>5. ct.key.chain = Root2(s)
  BY <1>3, Zenon DEF CtShape
<1>6. Root1(s, public) # Root2(s)
  BY <1>1, RootFacts, Zenon
<1> QED
  BY <1>4, <1>5, <1>6, Zenon

\* DoubleRatchet::encrypt on the initiator.
LEMMA InitiatorSeals ==
    ASSUME NEW r, IsInitiator(r), NEW text \in Ids, NEW out, out = Encrypt(r, text)
    PROVE  /\ CanEncrypt(r)
           /\ IsInitiator(out.ratchet)
           /\ SecretOf(out.ratchet) = SecretOf(r) /\ Public(out.ratchet) = Public(r)
           /\ out.ratchet.root_key = r.root_key
           /\ Sent(out.ratchet) = Sent(r) + 1
           /\ out.ciphertext = ISealed(SecretOf(r), Public(r), Sent(r), text)
           /\ out.header = out.ciphertext.aad
<1> DEFINE s == SecretOf(r)
           public == Public(r)
           n == Sent(r)
<1>1. /\ s \in Secrets /\ public \in ResponderKeys /\ n \in Nat /\ n + 1 \in Nat
      /\ r = InitiatorAt(s, public, n)
  BY DEF IsInitiator
<1> HIDE DEF s, public, n
<1>2. r.sending_chain.chain_key # None
  BY <1>1, InitiatorParts DEF SendKey
<1>3. WithSendingChain(r) = r
  BY <1>2, Zenon DEF WithSendingChain
<1>4. Encrypt(InitiatorAt(s, public, n), text) =
         [ratchet    |-> InitiatorAt(s, public, n + 1),
          header     |-> Header(Ik(s), n),
          ciphertext |-> ISealed(s, public, n, text)]
  BY <1>1, <1>2, <1>3 DEF Encrypt, InitiatorAt, Chain, MessageKey, ChainNext, Header, Seal, ISealed
<1>5. /\ out.ratchet = InitiatorAt(s, public, n + 1)
      /\ out.header = Header(Ik(s), n)
      /\ out.ciphertext = ISealed(s, public, n, text)
  BY <1>1, <1>4
<1>6. out.header = out.ciphertext.aad
  <2>1. CtShape(out.ciphertext, s, Root1(s, public), Ik(s), n, text)
    BY <1>1, <1>5, InitiatorMessage, Zenon
  <2> QED
    BY <1>5, <2>1, Zenon DEF CtShape
<1>7. /\ IsInitiator(out.ratchet) /\ SecretOf(out.ratchet) = s /\ Public(out.ratchet) = public
      /\ Sent(out.ratchet) = n + 1 /\ out.ratchet.root_key = Root1(s, public)
  BY <1>1, <1>5, InitiatorParts
<1>8. r.root_key = Root1(s, public)
  BY <1>1, InitiatorParts, Zenon
<1>9. CanEncrypt(r)
  BY <1>2, Zenon DEF CanEncrypt
<1> QED
  BY <1>5, <1>6, <1>7, <1>8, <1>9, Zenon DEF s, public, n
\* DoubleRatchet::encrypt on the responder: the first answer steps the root,
\* later ones move the chain; the receiving side stays.
NextNumber(r) == IF SendKey(r) = None THEN 0 ELSE Sent(r)

LEMMA ResponderSeals ==
    ASSUME NEW r, IsResponder(r), CanEncrypt(r), NEW text \in Ids, NEW out, out = Encrypt(r, text)
    PROVE  /\ IsJoined(r) /\ IsJoined(out.ratchet)
           /\ SecretOf(out.ratchet) = SecretOf(r)
           /\ Read(out.ratchet) = Read(r) /\ Kept(out.ratchet) = Kept(r)
           /\ NextNumber(r) \in Nat
           /\ SendKey(out.ratchet) # None /\ Sent(out.ratchet) = NextNumber(r) + 1
           /\ out.ciphertext = RSealed(SecretOf(r), NextNumber(r), text)
           /\ out.header = out.ciphertext.aad
<1> DEFINE s == SecretOf(r)
           root == r.root_key
           ck == SendKey(r)
           i == Read(r)
           list == Kept(r)
           n == NextNumber(r)
           at(m) == [seed |-> Root2(s), index |-> m]
           ready == ResponderAt(s, Root2(s), at(n), i, list)
<1>0. IsJoined(r)
  BY FreshParts, Zenon DEF IsResponder, IsFresh
<1>1. /\ s \in Secrets /\ SendPart(s, root, ck) /\ i \in Nat /\ i # 0 /\ KeptOK(s, i, list)
      /\ r = ResponderAt(s, root, ck, i, list)
  BY <1>0, Zenon DEF IsJoined
<1>2. n = IF ck = None THEN 0 ELSE ck.index
  BY Zenon DEF NextNumber, Sent
<1> HIDE DEF s, root, ck, i, list, n
<1>3. r.root_key = root /\ r.sending_chain = Chain(Rk(s), Ik(s), ck)
  BY <1>1, Zenon DEF ResponderAt
<1>4. Root2(s) \in Roots
  BY <1>1, RootFacts, KeyFacts, Zenon
<1>5. \/ root = Root1(s, Rk(s)) /\ ck = None /\ n = 0
      \/ root = Root2(s) /\ ck = at(n) /\ ck # None
  <2>1. CASE root = Root1(s, Rk(s)) /\ ck = None
    BY <1>2, <2>1, Zenon
  <2>2. CASE root = Root2(s) /\ \E m \in Nat : ck = at(m)
    <3>1. PICK m \in Nat : ck = at(m)
      BY <2>2, Zenon
    <3>2. at(m).index = m /\ at(m) # None
      BY <1>4, ChainKeyFacts, Zenon
    <3> QED
      BY <1>2, <2>2, <3>1, <3>2, Zenon
  <2> QED
    BY <1>1, <2>1, <2>2, Zenon DEF SendPart
<1>6. n \in Nat
  BY <1>1, <1>2 DEF SendPart
<1>7. WithSendingChain(r) = ready
  <2>1. CASE root = Root1(s, Rk(s)) /\ ck = None /\ n = 0
    <3>1. RatchetStep(root, DH(Rk(s), Ik(s))) = Root2(s)
      BY <2>1, Zenon DEF Root2
    <3> QED
      BY <1>1, <2>1, <3>1, Zenon DEF WithSendingChain, ResponderAt, Chain, StepChain
  <2>2. CASE root = Root2(s) /\ ck = at(n) /\ ck # None
    <3>1. r.sending_chain.chain_key # None
      BY <1>3, <2>2 DEF Chain
    <3> QED
      BY <1>1, <2>2, <3>1, Zenon DEF WithSendingChain
  <2> QED
    BY <1>5, <2>1, <2>2, Zenon
<1> HIDE DEF ready, at
<1>8. /\ ready.sending_chain.our_ratchet_key = Rk(s)
      /\ ready.sending_chain.chain_key = at(n)
  BY Zenon DEF ready, ResponderAt, Chain
<1>9. MessageKey(at(n)) = [chain |-> Root2(s), index |-> n]
  BY Zenon DEF MessageKey, at
<1>10. [ready EXCEPT !.sending_chain.chain_key = ChainNext(at(n))] =
           ResponderAt(s, Root2(s), at(n + 1), i, list)
  BY DEF ready, ResponderAt, Chain, ChainNext, at, Receiving
<1>11. /\ out.ratchet = [ready EXCEPT !.sending_chain.chain_key = ChainNext(at(n))]
       /\ out.header = Header(Rk(s), MessageKey(at(n)).index)
       /\ out.ciphertext = Seal(MessageKey(at(n)), Header(Rk(s), MessageKey(at(n)).index), text)
  BY <1>7, <1>8, Zenon DEF Encrypt
<1>12. out.header = Header(Rk(s), n) /\ out.ciphertext = RSealed(s, n, text)
  BY <1>9, <1>11 DEF RSealed
<1>13. out.header = out.ciphertext.aad
  <2>1. CtShape(out.ciphertext, s, Root2(s), Rk(s), n, text)
    BY <1>1, <1>6, <1>12, ResponderMessage, Zenon
  <2> QED
    BY <1>12, <2>1, Zenon DEF CtShape
<1>14. /\ IsJoined(out.ratchet) /\ SecretOf(out.ratchet) = s /\ SendKey(out.ratchet) = at(n + 1)
       /\ Read(out.ratchet) = i /\ Kept(out.ratchet) = list
  <2>1. out.ratchet = ResponderAt(s, Root2(s), at(n + 1), i, list)
    BY <1>10, <1>11, Zenon
  <2>2. SendPart(s, Root2(s), at(n + 1))
    BY <1>6 DEF SendPart, at
  <2>3. ResponderShape(out.ratchet, s, Root2(s), at(n + 1), i, list)
    BY <1>1, <2>1, <2>2, ResponderParts, Zenon
  <2> QED
    BY <2>3, Zenon DEF ResponderShape
<1>15. at(n + 1) # None /\ at(n + 1).index = n + 1
  BY <1>4, <1>6, ChainKeyFacts DEF at
<1>16. SendKey(out.ratchet) # None /\ Sent(out.ratchet) = n + 1
  BY <1>14, <1>15, Zenon DEF Sent
<1> QED
  BY <1>0, <1>6, <1>12, <1>13, <1>14, <1>16, Zenon DEF s, i, list, n
-----------------------------------------------------------------------------
(* Decrypting *)

ErrorOK(error) == error \in {"none", "NoReceivingChain", "TooManySkipped", "DecryptionFailed"}

\* A message opens under a kept key, and the session stays as it is, or under
\* the key at its own number, and the chain moves past it.
OpensKept(r, ct, h, out) ==
    /\ HasSkipped(r.receiving_chain, h.message_number)
    /\ Opens(ct, FindSkipped(r.receiving_chain, h.message_number), h)
    /\ out = Outcome(r, "none", ct.text)
OpensNext(r, ct, h, out) ==
    /\ ~HasSkipped(r.receiving_chain, h.message_number)
    /\ r.receiving_chain.chain_key # None
    /\ ~Overflows(r.receiving_chain, h.message_number)
    /\ Opens(ct, MessageKey(SkipTo(r.receiving_chain, h.message_number).chain_key), h)
    /\ out = Outcome([r EXCEPT !.receiving_chain =
                         [SkipTo(r.receiving_chain, h.message_number) EXCEPT !.chain_key = ChainNext(@)]],
                     "none", ct.text)

LEMMA OutcomeParts ==
    ASSUME NEW r, NEW error, NEW text
    PROVE  /\ Outcome(r, error, text).ratchet = r
           /\ Outcome(r, error, text).error = error
           /\ Outcome(r, error, text).text = text
BY Zenon DEF Outcome

\* The results of DoubleRatchet::decrypt.
LEMMA DecryptResults ==
    ASSUME NEW r, NEW ct, NEW h, NEW out, out = Decrypt(r, ct, h)
    PROVE  /\ ErrorOK(out.error)
           /\ out.error = "none" => OpensKept(r, ct, h, out) \/ OpensNext(r, ct, h, out)
           /\ out.error = "DecryptionFailed" =>
                \/ /\ HasSkipped(r.receiving_chain, h.message_number)
                   /\ ~Opens(ct, FindSkipped(r.receiving_chain, h.message_number), h)
                \/ /\ ~HasSkipped(r.receiving_chain, h.message_number)
                   /\ ~Overflows(r.receiving_chain, h.message_number)
                   /\ ~Opens(ct, MessageKey(SkipTo(r.receiving_chain, h.message_number).chain_key), h)
           /\ out.error = "NoReceivingChain" => r.receiving_chain.chain_key = None
<1> DEFINE c == r.receiving_chain
           n == h.message_number
           key == FindSkipped(c, n)
           moved == SkipTo(c, n)
           after == [r EXCEPT !.receiving_chain = [moved EXCEPT !.chain_key = ChainNext(@)]]
<1>1. CASE HasSkipped(c, n) /\ Opens(ct, key, h)
  <2>1. out = Outcome(r, "none", ct.text)
    BY <1>1, Zenon DEF Decrypt, Open
  <2> QED
    BY <1>1, <2>1, OutcomeParts DEF OpensKept, ErrorOK
<1>2. CASE HasSkipped(c, n) /\ ~Opens(ct, key, h)
  <2>1. out = Outcome(r, "DecryptionFailed", None)
    BY <1>2, Zenon DEF Decrypt, Open
  <2> QED
    BY <1>2, <2>1, OutcomeParts DEF ErrorOK
<1>3. CASE ~HasSkipped(c, n) /\ c.chain_key = None
  <2>1. out = Outcome(r, "NoReceivingChain", None)
    BY <1>3, Zenon DEF Decrypt
  <2> QED
    BY <1>3, <2>1, OutcomeParts DEF ErrorOK
<1>4. CASE ~HasSkipped(c, n) /\ c.chain_key # None /\ Overflows(c, n)
  <2>1. out = Outcome([r EXCEPT !.receiving_chain = moved], "TooManySkipped", None)
    BY <1>4, Zenon DEF Decrypt
  <2> QED
    BY <2>1, OutcomeParts DEF ErrorOK
<1>5. CASE ~HasSkipped(c, n) /\ c.chain_key # None /\ ~Overflows(c, n)
  <2>1. out = Open(after, MessageKey(moved.chain_key), ct, h)
    BY <1>5, Zenon DEF Decrypt
  <2>2. CASE Opens(ct, MessageKey(moved.chain_key), h)
    <3>1. out = Outcome(after, "none", ct.text)
      BY <2>1, <2>2, Zenon DEF Open
    <3> QED
      BY <1>5, <2>2, <3>1, OutcomeParts DEF OpensNext, ErrorOK
  <2>3. CASE ~Opens(ct, MessageKey(moved.chain_key), h)
    <3>1. out = Outcome(after, "DecryptionFailed", None)
      BY <2>1, <2>3, Zenon DEF Open
    <3> QED
      BY <1>5, <2>3, <3>1, OutcomeParts DEF ErrorOK
  <2> QED
    BY <2>2, <2>3, Zenon
<1> QED
  BY <1>1, <1>2, <1>3, <1>4, <1>5, Zenon

\* The chain moves up to the number of the message and no further.
Reached(i, n) == IF n > i THEN n ELSE i

ReachesFrom(c, root, i, n) ==
    /\ SkipTo(c, n) = Moved(c, c.skipped_message_keys
                                 \o SkippedKeys([seed |-> root, index |-> i], Reached(i, n) - i),
                            [seed |-> root, index |-> Reached(i, n)])
    /\ MessageKey([seed |-> root, index |-> Reached(i, n)]) = [chain |-> root, index |-> Reached(i, n)]

LEMMA ChainReaches ==
    ASSUME NEW root, NEW i \in Nat, NEW c, c.chain_key = [seed |-> root, index |-> i],
           NEW n \in Nat, ~Overflows(c, n)
    PROVE  ReachesFrom(c, root, i, n)
<1> DEFINE m == Reached(i, n)
<1>1. m \in Nat /\ m >= i
  BY DEF Reached
<1>2. Gap(c, n) = n - i
  BY DEF Gap
<1>3. Pushes(c, n) = m - i
  BY <1>2 DEF Pushes, Reached
<1>4. SkipTo(c, n) = Moved(c, c.skipped_message_keys \o SkippedKeys(c.chain_key, m - i),
                           [c.chain_key EXCEPT !.index = @ + (m - i)])
  <2> HIDE DEF m
  <2> QED BY <1>3, Zenon DEF SkipTo
<1> HIDE DEF m
<1>5. [c.chain_key EXCEPT !.index = @ + (m - i)] = [seed |-> root, index |-> m]
  BY <1>1
<1>6. MessageKey([seed |-> root, index |-> m]) = [chain |-> root, index |-> m]
  BY Zenon DEF MessageKey
<1> QED
  BY <1>4, <1>5, <1>6, Zenon DEF m, ReachesFrom
\* The key a chain has moved to.
LEMMA MovedKey ==
    ASSUME NEW root, NEW i \in Nat, NEW c, c.chain_key = [seed |-> root, index |-> i],
           NEW n \in Nat, ~Overflows(c, n),
           c = [our_ratchet_key |-> c.our_ratchet_key,
                their_ratchet_public |-> c.their_ratchet_public,
                chain_key |-> c.chain_key, skipped_message_keys |-> c.skipped_message_keys]
    PROVE  MessageKey(SkipTo(c, n).chain_key) = [chain |-> root, index |-> Reached(i, n)]
<1> DEFINE list == c.skipped_message_keys \o SkippedKeys([seed |-> root, index |-> i], Reached(i, n) - i)
           at == [seed |-> root, index |-> Reached(i, n)]
<1>1. SkipTo(c, n) = Moved(c, list, at) /\ MessageKey(at) = [chain |-> root, index |-> Reached(i, n)]
  BY ChainReaches, Zenon DEF ReachesFrom
<1> HIDE DEF list, at
<1>2. Moved(c, list, at).chain_key = at
  BY Zenon DEF Moved
<1> QED
  BY <1>1, <1>2, Zenon

LEMMA AppendFirst ==
    ASSUME NEW S, NEW a \in S, NEW x \in S
    PROVE  Append(<<a>>, x)[1] = a
OBVIOUS

LEMMA SameRoot ==
    ASSUME NEW s, NEW x, NEW t, NEW y, [secret |-> s, steps |-> x] = [secret |-> t, steps |-> y]
    PROVE  s = t /\ x = y
<1>1. [secret |-> s, steps |-> x].secret = [secret |-> t, steps |-> y].secret
  BY Zenon
<1>2. [secret |-> s, steps |-> x].steps = [secret |-> t, steps |-> y].steps
  BY Zenon
<1> QED
  BY <1>1, <1>2, Zenon

\* An initiator opens no answer: it derives no receiving chain for the key it
\* knows, and another one than the responder's for any other key.
LEMMA InitiatorRefuses ==
    ASSUME NEW r, IsInitiator(r), NEW e, ByResponder(e.ciphertext), e.header = e.ciphertext.aad
    PROVE  SessionDecrypt(r, e).error # "none"
<1> DEFINE s == SecretOf(r)
           public == Public(r)
           n == Sent(r)
           ct == e.ciphertext
           t == CtSecret(ct)
           k == ct.nonce
           text == ct.text
           out == SessionDecrypt(r, e)
<1>1. /\ s \in Secrets /\ public \in ResponderKeys /\ n \in Nat
      /\ r = InitiatorAt(s, public, n)
  BY Zenon DEF IsInitiator
<1>2. t \in Secrets /\ k \in Nat
  BY Zenon DEF ByResponder, CtTypes
<1>3. CtShape(ct, t, Root2(t), Rk(t), k, text)
  BY AuthorShape, Zenon
<1>4. e.header.dh_public_key = Rk(t) /\ e.header.message_number = k /\ ct.key.chain = Root2(t)
  BY <1>3, Zenon DEF CtShape
<1> HIDE DEF s, public, n, ct, t, k, text
<1>5. /\ r.root_key = Root1(s, public)
      /\ r.sending_chain = Chain(Ik(s), public, [seed |-> Root1(s, public), index |-> n])
      /\ r.receiving_chain = Chain(None, public, None)
  BY <1>1, Zenon DEF InitiatorAt
<1>6. public # None /\ Ik(s) # None
  BY <1>1, KeyFacts, Zenon
<1>7. KnownPeerKey(r) = public
  BY <1>5, <1>6 DEF KnownPeerKey, Chain
<1>8. CASE public = Rk(t)
  <2>1. out = Decrypt(r, ct, e.header)
    BY <1>4, <1>7, <1>8, Zenon DEF SessionDecrypt, ct
  <2>2. /\ r.receiving_chain.chain_key = None
        /\ r.receiving_chain.skipped_message_keys = <<>>
    BY <1>5 DEF Chain
  <2>3. ~HasSkipped(r.receiving_chain, k)
    BY <2>2 DEF HasSkipped
  <2> HIDE DEF out
  <2>4. ~(OpensKept(r, ct, e.header, out) \/ OpensNext(r, ct, e.header, out))
    BY <1>4, <2>2, <2>3, Zenon DEF OpensKept, OpensNext
  <2> QED
    BY <2>1, <2>4, DecryptResults, Zenon DEF out
<1>9. CASE public # Rk(t)
  <2> DEFINE x == DH(Ik(s), Rk(t))
             newRoot == RatchetStep(Root1(s, public), x)
             at == [seed |-> newRoot, index |-> 0]
             ready == DhRatchet(r, Rk(t))
             c == ready.receiving_chain
  <2>1. out = Decrypt(ready, ct, e.header)
    BY <1>4, <1>7, <1>9, Zenon DEF SessionDecrypt, ct
  <2>2. c = [our_ratchet_key |-> None, their_ratchet_public |-> public,
             chain_key |-> at, skipped_message_keys |-> <<>>]
    <3>1. r.receiving_chain.our_ratchet_key = None /\ r.sending_chain.our_ratchet_key = Ik(s)
      BY <1>5 DEF Chain
    <3> HIDE DEF newRoot
    <3>2. ready = [[r EXCEPT !.root_key = newRoot, !.sending_chain.their_ratchet_public = Rk(t)]
                      EXCEPT !.receiving_chain.chain_key = StepChain(newRoot)]
      BY <1>5, <3>1, Zenon DEF DhRatchet, newRoot, x
    <3>3. ready.receiving_chain = [r.receiving_chain EXCEPT !.chain_key = StepChain(newRoot)]
      BY <1>1, <3>2, Zenon DEF InitiatorAt
    <3> QED
      BY <1>5, <3>3 DEF Chain, StepChain
  <2>3. newRoot # Root2(t)
    <3>1. SUFFICES ASSUME newRoot = Root2(t) PROVE FALSE
      BY Zenon
    <3> DEFINE a == {Ik(s), public}
               b == {Ik(t), Rk(t)}
               y == DH(Rk(t), Ik(t))
    <3>2. newRoot = [secret |-> s, steps |-> Append(<<a>>, x)]
      BY RootStep, Zenon DEF Root1
    <3>3. Root2(t) = [secret |-> t, steps |-> Append(<<b>>, y)]
      BY RootStep, Zenon DEF Root1, Root2
    <3>4. a \in SUBSET Ids /\ b \in SUBSET Ids /\ x \in SUBSET Ids /\ y \in SUBSET Ids
      BY <1>1, <1>2, KeyFacts, Zenon DEF DH
    <3> HIDE DEF a, b, x, y, newRoot
    <3> DEFINE u == Append(<<a>>, x)
               v == Append(<<b>>, y)
    <3>11. [secret |-> s, steps |-> u] = [secret |-> t, steps |-> v]
      BY <3>1, <3>2, <3>3, Zenon
    <3> HIDE DEF u, v
    <3>12. s = t /\ u = v
      BY <3>11, SameRoot, Zenon
    <3>5. s = t /\ Append(<<a>>, x) = Append(<<b>>, y)
      BY <3>12, Zenon DEF u, v
    <3>9. Append(<<a>>, x)[1] = a
      BY <3>4, AppendFirst, Zenon
    <3>10. Append(<<b>>, y)[1] = b
      BY <3>4, AppendFirst, Zenon
    <3>6. a = b
      BY <3>5, <3>9, <3>10, Zenon
    <3>7. {Ik(s), public} = {Ik(s), Rk(s)}
      BY <3>5, <3>6, Zenon DEF a, b
    <3>8. public # Ik(s) /\ Rk(s) # Ik(s)
      BY <1>1, KeyFacts, Zenon
    <3> QED
      BY <1>9, <3>5, <3>7, <3>8, Zenon
  <2> HIDE DEF out, ready, newRoot
  <2>4. ~HasSkipped(c, k)
    BY <2>2 DEF HasSkipped
  <2>5. ~Overflows(c, k) => MessageKey(SkipTo(c, k).chain_key).chain = newRoot
    <3> SUFFICES ASSUME ~Overflows(c, k)
                 PROVE  MessageKey(SkipTo(c, k).chain_key).chain = newRoot
      BY Zenon
    <3>1. /\ c.chain_key = at
          /\ c = [our_ratchet_key |-> c.our_ratchet_key,
                  their_ratchet_public |-> c.their_ratchet_public,
                  chain_key |-> c.chain_key, skipped_message_keys |-> c.skipped_message_keys]
      BY <2>2
    <3> HIDE DEF c
    <3>2. MessageKey(SkipTo(c, k).chain_key) = [chain |-> newRoot, index |-> Reached(0, k)]
      BY <1>2, <3>1, MovedKey, Zenon
    <3> QED
      BY <3>2
  <2>6. ~OpensKept(ready, ct, e.header, out)
    BY <1>4, <2>4, Zenon DEF OpensKept
  <2>7. ~OpensNext(ready, ct, e.header, out)
    BY <1>4, <2>3, <2>5, Zenon DEF OpensNext, Opens
  <2>8. out.error # "none"
    BY <2>1, <2>6, <2>7, DecryptResults, Zenon
  <2> QED
    BY <2>8, Zenon DEF out
<1> QED
  BY <1>8, <1>9, Zenon
-----------------------------------------------------------------------------
(* Skipped keys *)

\* A list of skipped keys has the key of index n.
Has(list, n) == \E j \in 1..Len(list) : list[j].index = n

LEMMA ConcatFacts ==
    ASSUME NEW S, NEW a \in Seq(S), NEW b \in Seq(S)
    PROVE  /\ a \o b \in Seq(S) /\ Len(a \o b) = Len(a) + Len(b)
           /\ \A j \in 1..Len(a) : (a \o b)[j] = a[j]
           /\ \A j \in 1..Len(b) : (a \o b)[Len(a) + j] = b[j]
OBVIOUS

LEMMA KeptNumbers ==
    ASSUME NEW s \in Secrets, NEW i, NEW list, KeptOK(s, i, list)
    PROVE  \A j \in 1..Len(list) : list[j].index \in Nat /\ list[j].index < i
<1>1. \A j \in 1..Len(list) : list[j] \in Entries(s) /\ list[j].index < i
  BY DEF KeptOK
<1> QED
  BY <1>1, EntryFacts, Zenon

\* The keys the skip loop pushes are the chain's own keys.
Extends(t, list, s, i, count) ==
    /\ KeptOK(s, i + count, t)
    /\ \A n : Has(list, n) => Has(t, n)
    /\ \A n \in Nat : i <= n /\ n < i + count => Has(t, n)
    /\ count = 0 => t = list

LEMMA PushedKeys ==
    ASSUME NEW s \in Secrets, NEW i \in Nat, NEW count \in Nat, NEW list, KeptOK(s, i, list)
    PROVE  Extends(list \o SkippedKeys([seed |-> Root1(s, Rk(s)), index |-> i], count),
                   list, s, i, count)
<1> DEFINE new == SkippedKeys([seed |-> Root1(s, Rk(s)), index |-> i], count)
           t   == list \o new
           E   == Entries(s)
<1>1. DOMAIN new = 1..count /\ new = [j \in 1..count |-> new[j]]
  BY Zenon DEF SkippedKeys
<1>2. \A j \in 1..count : new[j] = Entry(s, i + j - 1)
  BY Zenon DEF SkippedKeys, Entry
<1> HIDE DEF new
<1>3. \A j \in 1..count : new[j] \in E
  BY <1>2, EntryFacts
<1> HIDE DEF E
<1>4. new \in Seq(E) /\ Len(new) = count
  <2>1. new \in [1..count -> E]
    BY <1>1, <1>3, Zenon
  <2> QED
    BY <2>1
<1>5. list \in Seq(E)
  BY Zenon DEF E, KeptOK
<1>6. t \in Seq(E) /\ Len(t) = Len(list) + Len(new)
  BY <1>4, <1>5, ConcatFacts, Zenon
<1>7. \A j \in 1..Len(list) : t[j] = list[j]
  BY <1>4, <1>5, ConcatFacts, Zenon
<1>8. \A j \in 1..Len(new) : t[Len(list) + j] = new[j]
  BY <1>4, <1>5, ConcatFacts
<1> HIDE DEF t
<1>9. Len(list) \in Nat
  BY <1>5
<1>10. \A n : Has(list, n) => Has(t, n)
  <2>1. \A j \in 1..Len(list) : j \in 1..Len(t)
    BY <1>4, <1>6, <1>9
  <2> QED BY <1>7, <2>1, Zenon DEF Has
<1>11. \A n \in Nat : i <= n /\ n < i + count => Has(t, n)
  <2> SUFFICES ASSUME NEW n \in Nat, i <= n, n < i + count
               PROVE  Has(t, n)
    BY Zenon
  <2> DEFINE j == n - i + 1
  <2>1. j \in 1..count /\ i + j - 1 = n /\ Len(list) + j \in 1..Len(t)
    BY <1>4, <1>6, <1>9
  <2> HIDE DEF j
  <2>2. t[Len(list) + j] = Entry(s, n)
    BY <1>2, <1>4, <1>8, <2>1, Zenon
  <2>3. Entry(s, n).index = n
    BY Zenon DEF Entry
  <2> QED
    BY <2>1, <2>2, <2>3, Zenon DEF Has
<1>12. count = 0 => t = list
  <2> SUFFICES ASSUME count = 0 PROVE t = list
    BY Zenon
  <2>1. Len(t) = Len(list) /\ \A j \in 1..Len(t) : t[j] = list[j]
    BY <1>4, <1>6, <1>7, <1>9
  <2>2. \A a \in Seq(E), b \in Seq(E) : Len(a) = Len(b) /\ (\A j \in 1..Len(a) : a[j] = b[j]) => a = b
    OBVIOUS
  <2> QED
    BY <1>5, <1>6, <2>1, <2>2, Zenon
<1>13. \A j \in 1..Len(list) : t[j].index \in Nat /\ t[j].index < i
  BY <1>7, KeptNumbers, Zenon
<1>14. \A j \in 1..Len(t) : j \in 1..Len(list) \/ (j - Len(list) \in 1..count /\ t[j].index = i + (j - Len(list)) - 1)
  <2> SUFFICES ASSUME NEW j \in 1..Len(t), j \notin 1..Len(list)
               PROVE  j - Len(list) \in 1..count /\ t[j].index = i + (j - Len(list)) - 1
    BY Zenon
  <2> DEFINE k == j - Len(list)
  <2>1. k \in 1..count /\ Len(list) + k = j /\ i + k - 1 \in Nat
    BY <1>4, <1>6, <1>9
  <2> HIDE DEF k
  <2>2. t[j] = Entry(s, i + k - 1)
    BY <1>2, <1>4, <1>8, <2>1, Zenon
  <2>3. t[j].index = i + k - 1
    BY <2>2 DEF Entry
  <2> QED BY <2>1, <2>3, Zenon DEF k
<1>15. \A j \in 1..Len(t) : t[j].index < i + count
  BY <1>9, <1>13, <1>14
<1>16. Once(t)
  <2> SUFFICES ASSUME NEW j \in 1..Len(t), NEW k \in 1..Len(t), t[j].index = t[k].index
               PROVE  j = k
    BY Zenon DEF Once
  <2>1. CASE j \in 1..Len(list) /\ k \in 1..Len(list)
    BY <1>7, <2>1, Zenon DEF KeptOK, Once
  <2>2. CASE j \notin 1..Len(list) \/ k \notin 1..Len(list)
    BY <1>9, <1>13, <1>14, <2>2
  <2> QED BY <2>1, <2>2, Zenon
<1>17. KeptOK(s, i + count, t)
  BY <1>6, <1>15, <1>16, Zenon DEF KeptOK, E
<1> QED
  BY <1>10, <1>11, <1>12, <1>17, Zenon DEF Extends, t, new

\* find() returns the key of the number it looks for.
LEMMA FoundKey ==
    ASSUME NEW s \in Secrets, NEW c, NEW list, list = c.skipped_message_keys, list \in Seq(Entries(s)),
           Once(list), NEW n \in Nat, HasSkipped(c, n)
    PROVE  FindSkipped(c, n) = [chain |-> Root1(s, Rk(s)), index |-> n]
<1> DEFINE First(j) == /\ list[j].index = n
                       /\ \A k \in 1..(j - 1) : list[k].index # n
<1>1. PICK j \in 1..Len(list) : list[j].index = n
  BY Zenon DEF HasSkipped
<1>2. First(j)
  BY <1>1 DEF Once
<1>3. FindSkipped(c, n) = list[CHOOSE j0 \in 1..Len(list) : First(j0)].key
  BY Zenon DEF FindSkipped
<1>4. PICK j0 \in 1..Len(list) : FindSkipped(c, n) = list[j0].key /\ list[j0].index = n
  BY <1>2, <1>3, Zenon
<1>5. list[j0] \in Entries(s)
  OBVIOUS
<1> QED
  BY <1>4, <1>5, EntryFacts, Zenon
\* A session opens messages of its own secret only.
LEMMA OwnSecret ==
    ASSUME NEW s \in Secrets, NEW r, NEW c, c = r.receiving_chain,
           c = [our_ratchet_key |-> c.our_ratchet_key,
                their_ratchet_public |-> c.their_ratchet_public,
                chain_key |-> c.chain_key, skipped_message_keys |-> c.skipped_message_keys],
           NEW root, root.secret = s, NEW i \in Nat, c.chain_key = [seed |-> root, index |-> i],
           c.skipped_message_keys \in Seq(Entries(s)), Once(c.skipped_message_keys),
           NEW ct, NEW h, h.message_number \in Nat, Decrypt(r, ct, h).error = "none"
    PROVE  CtSecret(ct) = s
<1> DEFINE n == h.message_number
           out == Decrypt(r, ct, h)
<1>1. OpensKept(r, ct, h, out) \/ OpensNext(r, ct, h, out)
  BY DecryptResults, Zenon
<1>2. CASE OpensKept(r, ct, h, out)
  <2>1. HasSkipped(c, n) /\ ct.key = FindSkipped(c, n)
    BY <1>2, Zenon DEF OpensKept, Opens
  <2> HIDE DEF n, out
  <2>2. ct.key = [chain |-> Root1(s, Rk(s)), index |-> n]
    BY <2>1, FoundKey, Zenon DEF n
  <2>3. Root1(s, Rk(s)).secret = s
    BY RootFacts, KeyFacts, Zenon
  <2> QED
    BY <2>2, <2>3 DEF CtSecret
<1>3. CASE OpensNext(r, ct, h, out)
  <2>1. ~Overflows(c, n) /\ ct.key = MessageKey(SkipTo(c, n).chain_key)
    BY <1>3, Zenon DEF OpensNext, Opens
  <2> HIDE DEF n, out
  <2>2. n \in Nat
    BY Zenon DEF n
  <2>3. ct.key = [chain |-> root, index |-> Reached(i, n)]
    BY <2>1, <2>2, MovedKey, Zenon
  <2> QED
    BY <2>3 DEF CtSecret
<1> QED
  BY <1>1, <1>2, <1>3, Zenon

\* The parts of a responder's session that its own messages do not change.
LEMMA ResponderCommon ==
    ASSUME NEW r, IsResponder(r)
    PROVE  /\ r \in Ratchets /\ SecretOf(r) \in Secrets /\ r.root_key.secret = SecretOf(r)
           /\ r.receiving_chain.our_ratchet_key = None
           /\ r.receiving_chain.their_ratchet_public = None
           /\ Kept(r) \in Seq(Entries(SecretOf(r))) /\ Once(Kept(r))
           /\ KnownPeerKey(r) = Public(r)
           /\ Public(r) = IF IsFresh(r) THEN None ELSE Ik(SecretOf(r))
<1>1. r \in Ratchets /\ SecretOf(r) \in Secrets
  BY SessionTypes, Zenon
<1>2. CASE IsFresh(r)
  <2>1. /\ r.sending_chain = Chain(Rk(SecretOf(r)), None, None)
        /\ r.receiving_chain = Chain(None, None, None)
    BY <1>2, FreshParts, Zenon DEF IsFresh
  <2>2. Kept(r) = <<>>
    BY <2>1 DEF Kept, Chain
  <2>3. Kept(r) \in Seq(Entries(SecretOf(r))) /\ Once(Kept(r))
    BY <2>2 DEF Once
  <2> QED
    BY <1>1, <1>2, <2>1, <2>3 DEF Chain, SecretOf, KnownPeerKey, Public
<1>3. CASE IsJoined(r)
  <2>1. ResponderShape(r, SecretOf(r), r.root_key, SendKey(r), Read(r), Kept(r))
    BY <1>3, ResponderParts, Zenon DEF IsJoined
  <2>2. /\ r.sending_chain = Chain(Rk(SecretOf(r)), Ik(SecretOf(r)), SendKey(r))
        /\ r.receiving_chain = Receiving(SecretOf(r), Read(r), Kept(r))
        /\ ~IsFresh(r)
    BY <2>1, Zenon DEF ResponderShape
  <2>3. Kept(r) \in Seq(Entries(SecretOf(r))) /\ Once(Kept(r))
    BY <1>3, Zenon DEF IsJoined, KeptOK
  <2> QED
    BY <1>1, <2>2, <2>3 DEF Chain, Receiving, SecretOf, KnownPeerKey, Public
<1> QED
  BY <1>2, <1>3, Zenon DEF IsResponder

\* A responder's session refuses the messages of every other session.
LEMMA StrangerRefused ==
    ASSUME NEW r, IsResponder(r), NEW e, ByInitiator(e.ciphertext), e.header = e.ciphertext.aad,
           SessionDecrypt(r, e).error = "none"
    PROVE  CtSecret(e.ciphertext) = SecretOf(r)
<1> DEFINE s == SecretOf(r)
           ct == e.ciphertext
           t == CtSecret(ct)
           public == Ik(t)
           ready == DhRatchet(r, public)
           c == ready.receiving_chain
           root == RatchetStep(r.root_key, DH(r.sending_chain.our_ratchet_key, public))
<1> SUFFICES ASSUME t # s PROVE FALSE
  BY Zenon
<1>1. t \in Secrets /\ ct.nonce \in Nat
  BY Zenon DEF ByInitiator, CtTypes
<1>2. e.header.dh_public_key = public /\ e.header.message_number = ct.nonce
  <2>1. PICK k \in ResponderKeys : CtShape(ct, t, Root1(t, k), Ik(t), ct.nonce, ct.text)
    BY AuthorShape, Zenon
  <2> HIDE DEF ct, t
  <2> QED
    BY <2>1, Zenon DEF CtShape, ct
<1>3. /\ r \in Ratchets /\ s \in Secrets /\ r.root_key.secret = s
      /\ r.receiving_chain.our_ratchet_key = None
      /\ r.receiving_chain.their_ratchet_public = None
      /\ Kept(r) \in Seq(Entries(s)) /\ Once(Kept(r))
  BY ResponderCommon, Zenon
<1>4. KnownPeerKey(r) # public
  BY <1>1, <1>3, ResponderCommon, KeyFacts, Zenon
<1>5. SessionDecrypt(r, e) = Decrypt(ready, ct, e.header)
  BY <1>2, <1>4, Zenon DEF SessionDecrypt
<1>6. root.secret = s
  BY <1>3, Zenon DEF RatchetStep, Ratchets, Roots
<1>7. c = [our_ratchet_key |-> None, their_ratchet_public |-> None,
           chain_key |-> [seed |-> root, index |-> 0], skipped_message_keys |-> Kept(r)]
  <2> HIDE DEF root, public
  <2>1. ready = [[r EXCEPT !.root_key = root, !.sending_chain.their_ratchet_public = public]
                    EXCEPT !.receiving_chain.chain_key = StepChain(root)]
    BY <1>3, Zenon DEF DhRatchet, root
  <2>2. ready.receiving_chain = [r.receiving_chain EXCEPT !.chain_key = StepChain(root)]
    BY <1>3, <2>1, Zenon DEF Ratchets
  <2>3. r.receiving_chain = [our_ratchet_key |-> None, their_ratchet_public |-> None,
                             chain_key |-> r.receiving_chain.chain_key,
                             skipped_message_keys |-> Kept(r)]
    BY <1>3, Zenon DEF Ratchets, Chains, Kept
  <2> QED
    BY <2>2, <2>3 DEF StepChain
<1> HIDE DEF c, ready, root
<1>8. /\ c.chain_key = [seed |-> root, index |-> 0] /\ c.skipped_message_keys = Kept(r)
      /\ c = [our_ratchet_key |-> c.our_ratchet_key,
              their_ratchet_public |-> c.their_ratchet_public,
              chain_key |-> c.chain_key, skipped_message_keys |-> c.skipped_message_keys]
  BY <1>7, Zenon
<1>9. Decrypt(ready, ct, e.header).error = "none" /\ e.header.message_number \in Nat
  BY <1>1, <1>2, <1>5, Zenon
<1> HIDE DEF ct, s
<1>10. CtSecret(ct) = s
  BY <1>3, <1>6, <1>8, <1>9, OwnSecret DEF c
<1> QED
  BY <1>10, Zenon DEF s, ct
\* What reading message k of its peer does to a responder's session.
ReadsAt(out, s, root, ck, i, list, k) ==
    \/ Has(list, k) /\ out.ratchet = ResponderAt(s, root, ck, i, list)
    \/ /\ k >= i
       /\ out.ratchet = ResponderAt(s, root, ck, k + 1,
                            list \o SkippedKeys([seed |-> Root1(s, Rk(s)), index |-> i], k - i))

DecryptsAt(out, s, root, ck, i, list, public, k, text) ==
    /\ out.error = "none" =>
           public = Rk(s) /\ out.text = text /\ ReadsAt(out, s, root, ck, i, list, k)
    /\ public = Rk(s) /\ (k >= i \/ Has(list, k)) => out.error \in {"none", "TooManySkipped"}

LEMMA DecryptAt ==
    ASSUME NEW s \in Secrets, NEW root, NEW ck, NEW i \in Nat, NEW list, KeptOK(s, i, list),
           NEW public \in ResponderKeys, NEW k \in Nat, NEW text, NEW ct, NEW h, h = ct.aad,
           CtShape(ct, s, Root1(s, public), Ik(s), k, text),
           NEW out, out = Decrypt(ResponderAt(s, root, ck, i, list), ct, h)
    PROVE  DecryptsAt(out, s, root, ck, i, list, public, k, text)
<1> DEFINE own == Root1(s, Rk(s))
           r == ResponderAt(s, root, ck, i, list)
           c == Receiving(s, i, list)
           at(m) == [seed |-> own, index |-> m]
<1>1. /\ ct.key = [chain |-> Root1(s, public), index |-> k] /\ ct.nonce = k
      /\ ct.text = text /\ h.message_number = k
  BY Zenon DEF CtShape
<1>2. /\ r.receiving_chain = c /\ c.chain_key = at(i) /\ c.skipped_message_keys = list
      /\ c = [our_ratchet_key |-> c.our_ratchet_key,
              their_ratchet_public |-> c.their_ratchet_public,
              chain_key |-> c.chain_key, skipped_message_keys |-> c.skipped_message_keys]
  BY Zenon DEF ResponderAt, Receiving
<1>4. at(i) # None
  BY RootFacts, KeyFacts, ChainKeyFacts, Zenon
<1>5. Root1(s, public) = own => public = Rk(s)
  BY RootFacts, KeyFacts
<1>6. HasSkipped(c, k) <=> Has(list, k)
  BY <1>2, Zenon DEF HasSkipped, Has
<1>7. HasSkipped(c, k) => FindSkipped(c, k) = [chain |-> own, index |-> k]
  BY <1>2, FoundKey, Zenon DEF KeptOK
<1>8. ~Overflows(c, k) => MessageKey(SkipTo(c, k).chain_key) = [chain |-> own, index |-> Reached(i, k)]
  <2> HIDE DEF c, own
  <2> QED BY <1>2, MovedKey, Zenon
<1> HIDE DEF c, own, r
<1>9. ASSUME OpensKept(r, ct, h, out)
      PROVE  public = Rk(s) /\ out.text = text /\ ReadsAt(out, s, root, ck, i, list, k)
  <2>1. /\ HasSkipped(c, k) /\ ct.key = FindSkipped(c, k) /\ out = Outcome(r, "none", ct.text)
    BY <1>1, <1>2, <1>9, Zenon DEF OpensKept, Opens
  <2>2. [chain |-> own, index |-> k] = [chain |-> Root1(s, public), index |-> k]
    BY <1>1, <1>7, <2>1, Zenon
  <2>3. own = Root1(s, public)
    BY <2>2, Zenon
  <2>4. out.ratchet = r /\ out.text = text
    BY <1>1, <2>1, OutcomeParts
  <2> QED
    BY <1>5, <1>6, <2>1, <2>3, <2>4, Zenon DEF ReadsAt, r
<1>10. ASSUME OpensNext(r, ct, h, out)
       PROVE  public = Rk(s) /\ out.text = text /\ ReadsAt(out, s, root, ck, i, list, k)
  <2> DEFINE moved == SkipTo(c, k)
             after == [moved EXCEPT !.chain_key = ChainNext(@)]
  <2>1. /\ ~Overflows(c, k) /\ ct.key = MessageKey(moved.chain_key)
        /\ out = Outcome([r EXCEPT !.receiving_chain = after], "none", ct.text)
    BY <1>1, <1>2, <1>10, Zenon DEF OpensNext, Opens
  <2>2. [chain |-> own, index |-> Reached(i, k)] = [chain |-> Root1(s, public), index |-> k]
    BY <1>1, <1>8, <2>1, Zenon
  <2>3. own = Root1(s, public) /\ Reached(i, k) = k
    BY <2>2, Zenon
  <2>4. k >= i
    BY <2>3 DEF Reached
  <2> DEFINE new == list \o SkippedKeys(at(i), k - i)
  <2>5. moved = Moved(c, new, at(k))
    <3>1. moved = Moved(c, list \o SkippedKeys(at(i), Reached(i, k) - i), at(Reached(i, k)))
      <4>1. moved = Moved(c, c.skipped_message_keys \o SkippedKeys(at(i), Reached(i, k) - i),
                          at(Reached(i, k)))
        <5>1. c.chain_key = [seed |-> own, index |-> i]
          BY <1>2, Zenon
        <5>2. ~Overflows(c, k)
          BY <2>1, Zenon
        <5>3. ReachesFrom(c, own, i, k)
          BY <5>1, <5>2, ChainReaches, Zenon
        <5> QED
          BY <5>1, <5>3, Zenon DEF moved, ReachesFrom
      <4> QED
        BY <1>2, <4>1, Zenon
    <3> QED
      BY <2>3, <3>1, Zenon
  <2> HIDE DEF new, moved
  <2>6. after = Receiving(s, k + 1, new)
    <3> DEFINE c1 == [c EXCEPT !.skipped_message_keys = new]
               c2 == [c1 EXCEPT !.chain_key = at(k)]
    <3>1. c1 = Receiving(s, i, new)
      BY DEF c, Receiving
    <3>8. [Receiving(s, i, new) EXCEPT !.chain_key = at(k)] = Receiving(s, k, new)
      BY DEF Receiving, own
    <3>2. c2 = Receiving(s, k, new)
      BY <3>1, <3>8, Zenon
    <3>3. Moved(c, new, at(k)) = c2
      BY Zenon DEF Moved
    <3>4. ChainNext(at(k)) = at(k + 1)
      BY DEF ChainNext
    <3>5. moved = Receiving(s, k, new)
      BY <2>5, <3>2, <3>3, Zenon
    <3>6. Receiving(s, k, new).chain_key = at(k)
      BY Zenon DEF Receiving, own
    <3>7. [Receiving(s, k, new) EXCEPT !.chain_key = at(k + 1)] = Receiving(s, k + 1, new)
      BY DEF Receiving, own
    <3> HIDE DEF at
    <3> QED
      BY <3>4, <3>5, <3>6, <3>7, Zenon
  <2> HIDE DEF after
  <2>7. [r EXCEPT !.receiving_chain = after] = ResponderAt(s, root, ck, k + 1, new)
    BY <2>6 DEF r, ResponderAt
  <2>8. out.ratchet = ResponderAt(s, root, ck, k + 1, new) /\ out.text = text
    BY <1>1, <2>1, <2>7, OutcomeParts
  <2> QED
    BY <1>5, <2>3, <2>4, <2>8, Zenon DEF ReadsAt, new, own
<1>11. ASSUME public = Rk(s), k >= i \/ Has(list, k), out.error = "DecryptionFailed"
       PROVE  FALSE
  <2>1. Opens(ct, [chain |-> own, index |-> k], h)
    BY <1>1, <1>11, Zenon DEF Opens, own
  <2>2. HasSkipped(c, k) => Opens(ct, FindSkipped(c, k), h)
    BY <1>7, <2>1, Zenon
  <2>3. ~HasSkipped(c, k) => Reached(i, k) = k
    BY <1>6, <1>11 DEF Reached
  <2>4. ~HasSkipped(c, k) /\ ~Overflows(c, k) => Opens(ct, MessageKey(SkipTo(c, k).chain_key), h)
    BY <1>8, <2>1, <2>3, Zenon
  <2> QED
    BY <1>1, <1>2, <1>11, <2>2, <2>4, DecryptResults, Zenon DEF r
<1>12. out.error # "NoReceivingChain"
  BY <1>2, <1>4, DecryptResults, Zenon DEF r
<1>13. out.error = "none" => OpensKept(r, ct, h, out) \/ OpensNext(r, ct, h, out)
  BY DecryptResults, Zenon DEF r
<1>14. ErrorOK(out.error)
  BY DecryptResults, Zenon DEF r
<1>15. out.error = "none" =>
          public = Rk(s) /\ out.text = text /\ ReadsAt(out, s, root, ck, i, list, k)
  BY <1>9, <1>10, <1>13, Zenon
<1>16. public = Rk(s) /\ (k >= i \/ Has(list, k)) => out.error \in {"none", "TooManySkipped"}
  BY <1>11, <1>12, <1>14, Zenon DEF ErrorOK
<1> QED
  BY <1>15, <1>16, Zenon DEF DecryptsAt
\* The number a responder expects next, and the numbers it can still read.
FirstRead(r) == IF IsFresh(r) THEN 0 ELSE Read(r)
RootAt(r) == IF IsFresh(r) THEN Root1(SecretOf(r), Rk(SecretOf(r))) ELSE r.root_key
Unread(r, n) == n >= FirstRead(r) \/ Has(Kept(r), n)

\* The first message of the peer makes a fresh responder step to the peer's
\* chain; later ones carry the key it knows.
LEMMA ReadyAt ==
    ASSUME NEW r, IsResponder(r), NEW e, e.header.dh_public_key = Ik(SecretOf(r))
    PROVE  /\ SessionDecrypt(r, e) =
                 Decrypt(ResponderAt(SecretOf(r), RootAt(r), SendKey(r), FirstRead(r), Kept(r)),
                         e.ciphertext, e.header)
           /\ SendPart(SecretOf(r), RootAt(r), SendKey(r))
           /\ FirstRead(r) \in Nat /\ (IsJoined(r) => FirstRead(r) # 0)
           /\ KeptOK(SecretOf(r), FirstRead(r), Kept(r))
<1> DEFINE s == SecretOf(r)
<1>1. s \in Secrets /\ KnownPeerKey(r) = Public(r)
  BY ResponderCommon, Zenon
<1>2. CASE IsFresh(r)
  <2>1. /\ r = Fresh(s) /\ ~IsJoined(r) /\ r.root_key = RootKey(s)
        /\ r.sending_chain = Chain(Rk(s), None, None)
        /\ r.receiving_chain = Chain(None, None, None)
        /\ SendKey(r) = None
    BY <1>2, FreshParts, Zenon DEF IsFresh
  <2> DEFINE root == Root1(s, Rk(s))
             public == Ik(s)
  <2>2. RatchetStep(RootKey(s), DH(Rk(s), public)) = root
    <3>1. DH(Rk(s), Ik(s)) = {Ik(s), Rk(s)}
      BY Zenon DEF DH
    <3>2. Append(<<>>, {Ik(s), Rk(s)}) = <<{Ik(s), Rk(s)}>>
      OBVIOUS
    <3> QED
      BY <3>1, <3>2, RootStep, Zenon DEF RootKey, Root1
  <2>3. KnownPeerKey(r) # public
    BY <1>1, <1>2, ResponderCommon, KeyFacts, Zenon
  <2>4. SessionDecrypt(r, e) = Decrypt(DhRatchet(r, public), e.ciphertext, e.header)
    BY <2>3, Zenon DEF SessionDecrypt
  <2> HIDE DEF s, root, public
  <2>5. DhRatchet(r, public) = ResponderAt(s, root, None, 0, <<>>)
    <3>1. r = [root_key        |-> RootKey(s),
               sending_chain   |-> Chain(Rk(s), None, None),
               receiving_chain |-> Chain(None, None, None)]
      BY <2>1, Zenon DEF Fresh, ResponderSession, InitResponder, SessionKeys, Rk
    <3> QED
      BY <2>2, <3>1, Zenon DEF DhRatchet, Chain, StepChain, ResponderAt, Receiving, root, public
  <2>6. Kept(r) = <<>> /\ FirstRead(r) = 0 /\ RootAt(r) = root
    BY <1>2, <2>1 DEF Kept, Chain, FirstRead, RootAt, root, s
  <2>7. SendPart(s, root, None)
    BY Zenon DEF SendPart, root
  <2>8. KeptOK(s, 0, <<>>)
    BY DEF KeptOK, Once
  <2>9. /\ SendPart(s, RootAt(r), SendKey(r)) /\ KeptOK(s, FirstRead(r), Kept(r))
        /\ FirstRead(r) \in Nat
    BY <2>1, <2>6, <2>7, <2>8
  <2>10. SessionDecrypt(r, e) =
             Decrypt(ResponderAt(s, RootAt(r), SendKey(r), FirstRead(r), Kept(r)), e.ciphertext, e.header)
    BY <2>1, <2>4, <2>5, <2>6, Zenon
  <2> QED
    BY <2>1, <2>9, <2>10, Zenon DEF s
<1>3. CASE IsJoined(r)
  <2>1. ResponderShape(r, s, r.root_key, SendKey(r), Read(r), Kept(r))
    BY <1>3, ResponderParts, Zenon DEF IsJoined
  <2>2. FirstRead(r) = Read(r) /\ RootAt(r) = r.root_key /\ KnownPeerKey(r) = Ik(s)
    BY <1>1, <2>1, ResponderCommon, Zenon DEF ResponderShape, FirstRead, RootAt
  <2>3. SessionDecrypt(r, e) = Decrypt(r, e.ciphertext, e.header)
    BY <2>2, Zenon DEF SessionDecrypt
  <2> QED
    BY <1>3, <2>2, <2>3, Zenon DEF IsJoined
<1> QED
  BY <1>2, <1>3, Zenon DEF IsResponder

\* A responder that opens a message: of its own session, with its own ratchet
\* key; it can read everything it could read before, but for this message.
Opened(r, ct, out) ==
    /\ CtSecret(ct) = SecretOf(r) /\ ct.key.chain = Root1(SecretOf(r), Rk(SecretOf(r)))
    /\ out.text = ct.text
    /\ IsJoined(out.ratchet) /\ SecretOf(out.ratchet) = SecretOf(r)
    /\ SendKey(out.ratchet) = SendKey(r)
    /\ \A n \in Nat : Unread(r, n) => Unread(out.ratchet, n) \/ n = ct.nonce
    /\ Read(out.ratchet) = ct.nonce + 1 \/ (IsJoined(r) /\ Read(out.ratchet) = Read(r))

LEMMA ResponderOpens ==
    ASSUME NEW r, IsResponder(r), NEW e, ByInitiator(e.ciphertext), e.header = e.ciphertext.aad,
           NEW out, out = SessionDecrypt(r, e), out.error = "none"
    PROVE  Opened(r, e.ciphertext, out)
<1> DEFINE s == SecretOf(r)
           ct == e.ciphertext
           k == ct.nonce
           root == RootAt(r)
           ck == SendKey(r)
           i == FirstRead(r)
           list == Kept(r)
<1>1. CtSecret(ct) = s
  BY StrangerRefused, Zenon
<1>2. s \in Secrets /\ k \in Nat
  BY <1>1, ResponderCommon, Zenon DEF ByInitiator, CtTypes
<1>3. PICK public \in ResponderKeys : CtShape(ct, s, Root1(s, public), Ik(s), k, ct.text)
  BY <1>1, AuthorShape, Zenon
<1>4. e.header.dh_public_key = Ik(s) /\ ct.key.chain = Root1(s, public)
  <2> HIDE DEF s, k
  <2> QED BY <1>3, Zenon DEF CtShape
<1>5. /\ out = Decrypt(ResponderAt(s, root, ck, i, list), ct, e.header)
      /\ SendPart(s, root, ck) /\ i \in Nat /\ (IsJoined(r) => i # 0) /\ KeptOK(s, i, list)
  BY <1>4, ReadyAt, Zenon
<1>9. e.header = ct.aad
  BY Zenon
<1> HIDE DEF s, ct, k, root, ck, i, list
<1>6. public = Rk(s) /\ out.text = ct.text /\ ReadsAt(out, s, root, ck, i, list, k)
  <2>1. DecryptsAt(out, s, root, ck, i, list, public, k, ct.text)
    BY <1>2, <1>3, <1>5, <1>9, DecryptAt, Zenon
  <2> QED
    BY <2>1, Zenon DEF DecryptsAt
<1>7. CASE Has(list, k) /\ out.ratchet = ResponderAt(s, root, ck, i, list)
  <2>1. ~IsFresh(r)
    <3>2. IsFresh(r) => r.receiving_chain = Chain(None, None, None)
      BY FreshParts, Zenon DEF IsFresh
    <3>1. IsFresh(r) => list = <<>>
      BY <3>2 DEF Kept, Chain, list
    <3> QED
      BY <1>7, <3>1 DEF Has
  <2>2. IsJoined(r) /\ i # 0 /\ i = Read(r)
    BY <1>5, <2>1, Zenon DEF IsResponder, FirstRead, i
  <2>3. ResponderShape(out.ratchet, s, root, ck, i, list)
    BY <1>2, <1>5, <1>7, <2>2, ResponderParts, Zenon
  <2>4. FirstRead(out.ratchet) = i /\ Kept(out.ratchet) = list
    BY <2>3, Zenon DEF ResponderShape, FirstRead
  <2>5. \A n \in Nat : Unread(r, n) => Unread(out.ratchet, n)
    BY <2>4, Zenon DEF Unread, i, list
  <2> QED
    BY <1>1, <1>4, <1>6, <2>2, <2>3, <2>5, Zenon DEF Opened, ResponderShape, s, ck, ct
<1>8. CASE /\ k >= i
           /\ out.ratchet = ResponderAt(s, root, ck, k + 1,
                  list \o SkippedKeys([seed |-> Root1(s, Rk(s)), index |-> i], k - i))
  <2> DEFINE new == list \o SkippedKeys([seed |-> Root1(s, Rk(s)), index |-> i], k - i)
  <2>1. k - i \in Nat /\ i + (k - i) = k /\ k + 1 \in Nat /\ k + 1 # 0
    BY <1>2, <1>5, <1>8
  <2>2. Extends(new, list, s, i, k - i)
    BY <1>2, <1>5, <2>1, PushedKeys, Zenon
  <2> HIDE DEF new
  <2>9. KeptOK(s, i + (k - i), new)
    BY <2>2, Zenon DEF Extends
  <2>10. KeptOK(s, k + 1, new)
    <3>1. \A j \in 1..Len(new) : new[j].index < k + 1
      BY <1>2, <2>1, <2>9, KeptNumbers
    <3> QED
      BY <2>9, <3>1, Zenon DEF KeptOK
  <2>3. \A n : Has(list, n) => Has(new, n)
    BY <2>2, Zenon DEF Extends
  <2>4. \A n \in Nat : i <= n /\ n < i + (k - i) => Has(new, n)
    BY <2>2, Zenon DEF Extends
  <2>5. ResponderShape(out.ratchet, s, root, ck, k + 1, new)
    <3>1. out.ratchet = ResponderAt(s, root, ck, k + 1, new)
      BY <1>8, Zenon DEF new
    <3> QED
      BY <1>2, <1>5, <2>1, <2>10, <3>1, ResponderParts, Zenon
  <2>6. FirstRead(out.ratchet) = k + 1 /\ Kept(out.ratchet) = new /\ Read(out.ratchet) = k + 1
    BY <2>5, Zenon DEF ResponderShape, FirstRead
  <2>7. \A n \in Nat : n >= i => n >= k + 1 \/ Has(new, n) \/ n = k
    BY <1>2, <1>5, <2>1, <2>4
  <2>8. \A n \in Nat : Unread(r, n) => Unread(out.ratchet, n) \/ n = ct.nonce
    BY <2>3, <2>6, <2>7, Zenon DEF Unread, i, list, k
  <2> QED
    BY <1>1, <1>4, <1>6, <2>5, <2>6, <2>8, Zenon DEF Opened, ResponderShape, s, ck, ct, k
<1> QED
  BY <1>6, <1>7, <1>8, Zenon DEF ReadsAt

\* A responder opens every message of its own session that it has not read,
\* unless too many would be skipped.
LEMMA ResponderReads ==
    ASSUME NEW r, IsResponder(r), NEW e, ByInitiator(e.ciphertext), e.header = e.ciphertext.aad,
           CtSecret(e.ciphertext) = SecretOf(r),
           e.ciphertext.key.chain = Root1(SecretOf(r), Rk(SecretOf(r))),
           Unread(r, e.ciphertext.nonce)
    PROVE  SessionDecrypt(r, e).error \in {"none", "TooManySkipped"}
<1> DEFINE s == SecretOf(r)
           ct == e.ciphertext
           k == ct.nonce
           root == RootAt(r)
           ck == SendKey(r)
           i == FirstRead(r)
           list == Kept(r)
           out == SessionDecrypt(r, e)
<1>2. s \in Secrets /\ k \in Nat
  BY ResponderCommon, Zenon DEF ByInitiator, CtTypes
<1>3. PICK public \in ResponderKeys : CtShape(ct, s, Root1(s, public), Ik(s), k, ct.text)
  BY AuthorShape, Zenon
<1>4. e.header.dh_public_key = Ik(s) /\ ct.key.chain = Root1(s, public)
  <2> HIDE DEF s, k
  <2> QED BY <1>3, Zenon DEF CtShape
<1>5. /\ out = Decrypt(ResponderAt(s, root, ck, i, list), ct, e.header) /\ i \in Nat
      /\ KeptOK(s, i, list)
  BY <1>4, ReadyAt, Zenon
<1>6. public = Rk(s)
  <2>1. Root1(s, public) = Root1(s, Rk(s))
    BY <1>4, Zenon
  <2> HIDE DEF s
  <2> QED
    BY <1>2, <2>1, RootFacts, KeyFacts
<1>7. k >= i \/ Has(list, k)
  BY Zenon DEF Unread
<1> HIDE DEF s, ct, k, root, ck, i, list, out
<1>8. out.error \in {"none", "TooManySkipped"}
  <2>1. DecryptsAt(out, s, root, ck, i, list, public, k, ct.text)
    BY <1>2, <1>3, <1>5, DecryptAt, Zenon DEF ct
  <2> QED
    BY <1>6, <1>7, <2>1, Zenon DEF DecryptsAt
<1> QED
  BY <1>8, Zenon DEF out

-----------------------------------------------------------------------------
(* What a party holds, saves and sends *)

SessOK(p, r) == r # None => IF p = "I" THEN IsInitiator(r) ELSE IsResponder(r)
PeerOK(p, id) == id # None => id \in Ids /\ id[1] # p
AppOK(p, a) == a \in Apps /\ SessOK(p, a.session) /\ PeerOK(p, a.peer)
RowOK(p, d) == d # None => d \in Snapshots /\ Loads(d) /\ SessOK(p, ToRatchet(d))

Sync(e, marker) == e.marker = marker /\ e.header = None /\ e.ciphertext = None
AuthorOK(p, ct) == IF p = "I" THEN ByInitiator(ct) ELSE ByResponder(ct)

SyncOK(e) ==
    \/ Sync(e, BundleReq) /\ e.from[1] = "I"
    \/ Sync(e, Bundle) /\ e.from[1] = "R"
    \/ Sync(e, Prekey) /\ e.from[1] = "I" /\ e.body \in Secrets
    \/ Sync(e, RatchetPub) /\ e.from[1] = "R" /\ e.body \in ResponderKeys
    \/ Sync(e, GroupKey) /\ e.from[1] = "I" /\ e.body \in SenderKeys
ChatOK(e) ==
    /\ e.header # None /\ e.ciphertext # None
    /\ e.header = e.ciphertext.aad /\ AuthorOK(e.from[1], e.ciphertext)
    /\ e.body # None => e.body = <<e.from[1], 0>>
EnvOK(e) == e \in Envelopes /\ e.from[1] # e.to[1] /\ (SyncOK(e) \/ ChatOK(e))

\* A request is addressed to a live run, comes from a run that was, and a chat
\* message is one that was sealed.
Begins(e) == e.marker \in setting.bytes \/ KeyLike \in setting.bytes
Live(e) ==
    /\ Alive(e.to) /\ e.from[2] <= run[e.from[1]]
    /\ e.header # None => Begins(e) /\ e.ciphertext \in sealed

Statuses == {"off", "up", "protocol", "NoPeerKey", "NoReceivingChain", "TooManySkipped",
             "DecryptionFailed"}

StateInv ==
    /\ setting \in Settings /\ secrets \in Nat
    /\ status \in [Parties -> Statuses]
    /\ run \in [Parties -> Nat] /\ typed \in [Parties -> Nat]
    /\ app \in [Parties -> Apps] /\ disk \in [Parties -> Opt(Snapshots)]
    /\ \A p \in Parties : AppOK(p, app[p]) /\ RowOK(p, disk[p])
    /\ status["I"] = "up" => app["I"].peer # None
    /\ \A e \in net : EnvOK(e) /\ Live(e)
    /\ \A ct \in sealed : ByInitiator(ct) \/ ByResponder(ct)
    /\ mishaps \subseteq {"misread", "unsaved", "lost"} \X Ids

\* What a step of p may add to the history.
Notes(p) ==
    mishaps \subseteq mishaps' /\ mishaps' \subseteq mishaps \union ({"misread", "unsaved"} \X {Me(p)})

\* A request that p makes in this step.
New(p, f) ==
    /\ EnvOK(f) /\ f.from = Me(p) /\ Alive(f.to)
    /\ f.header # None => Begins(f) /\ f.ciphertext \in sealed'

\* A step of a running process p that leaves the state sound.
Frame(p) ==
    /\ status[p] = "up" /\ UNCHANGED <<setting, run>> /\ Notes(p)
    /\ secrets' \in Nat /\ typed' \in [Parties -> Nat]
    /\ app' = [app EXCEPT ![p] = app'[p]] /\ AppOK(p, app'[p])
    /\ status' = [status EXCEPT ![p] = status'[p]] /\ status'[p] \in Statuses
    /\ disk' = [disk EXCEPT ![p] = disk'[p]] /\ disk'[p] \in Opt(Snapshots) /\ RowOK(p, disk'[p])
    /\ p = "I" /\ status'[p] = "up" => app'[p].peer # None
    /\ \A ct \in sealed' : ct \in sealed \/ AuthorOK(p, ct)
    /\ sealed \subseteq sealed'
    /\ \A f \in net' : (f \in net \/ New(p, f)) /\ (status'[p] # "up" => f.to # Me(p))
    /\ status'[p] = "protocol" => \E e \in net : Arrived(p, e) /\ ~Accepts(p, e)

\* No two values of a party are confused.
LEMMA PartyFacts ==
    /\ "I" \in Parties /\ "R" \in Parties /\ "I" # "R"
    /\ \A p \in Parties : p = "I" \/ p = "R"
    /\ \A id \in Ids : id = <<id[1], id[2]>> /\ id[1] \in Parties /\ id[2] \in Nat
  BY DEF Parties, Ids

\* What run p is called, and that nobody else is.
LEMMA Names ==
    ASSUME StateInv, NEW p \in Parties
    PROVE  /\ Me(p) \in Ids /\ Me(p)[1] = p /\ Me(p)[2] = run[p] /\ Me(p) # None
           /\ \A id \in Ids : Alive(id) /\ id[1] = p => id = Me(p) /\ status[p] = "up"
<1>1. run[p] \in Nat
  BY Zenon DEF StateInv
<1>2. Me(p) \in Ids /\ Me(p)[1] = p /\ Me(p)[2] = run[p]
  BY <1>1, Zenon DEF Me, Ids
<1>3. Me(p) # None
  BY <1>2, NoneAssumption, Zenon
<1>4. ASSUME NEW id \in Ids, Alive(id), id[1] = p
      PROVE  id = Me(p) /\ status[p] = "up"
  BY <1>4, PartyFacts, Zenon DEF Alive, Me
<1> QED BY <1>2, <1>3, <1>4, Zenon

\* A saved session loads as it was saved (save_session, load_session).
LEMMA RowFacts ==
    ASSUME NEW p \in Parties, NEW r, r # None, SessOK(p, r)
    PROVE  /\ FromRatchet(r) \in Snapshots /\ FromRatchet(r) # None /\ RowOK(p, FromRatchet(r))
           /\ ToRatchet(FromRatchet(r)) = r
<1>1. r \in Ratchets
  BY SessionTypes, Zenon DEF SessOK
<1>2. /\ FromRatchet(r) \in Snapshots /\ Loads(FromRatchet(r))
      /\ ToRatchet(FromRatchet(r)) = r
  BY <1>1, SnapshotRoundTrip, Zenon
<1>3. FromRatchet(r) # None
  BY <1>2, NoneAssumption, Zenon
<1> QED BY <1>2, <1>3, Zenon DEF RowOK

\* What a party would resume is a session of its side.
LEMMA Resumes ==
    ASSUME StateInv, NEW p \in Parties
    PROVE  /\ SessOK(p, Resume(p)) /\ SessOK(p, app[p].session)
           /\ Resume(p) = None <=> disk[p] = None
           /\ SessOK(p, SessionOf(p))
           /\ SessionOf(p) = None <=> app[p].session = None /\ disk[p] = None
<1>1. AppOK(p, app[p]) /\ RowOK(p, disk[p])
  BY Zenon DEF StateInv
<1>2. CASE disk[p] = None
  BY <1>1, <1>2, Zenon DEF Resume, LoadSession, SessOK, AppOK, SessionOf
<1>3. CASE disk[p] # None
  <2>1. disk[p] \in Snapshots /\ SessOK(p, ToRatchet(disk[p]))
    BY <1>1, <1>3, Zenon DEF RowOK
  <2>2. Resume(p) = ToRatchet(disk[p])
    BY <1>3, Zenon DEF Resume, LoadSession
  <2>3. ToRatchet(disk[p]) # None
    <3>1. ToRatchet(disk[p]) \in Ratchets
      BY <2>1, Zenon DEF Snapshots, ChainSnapshots, Ratchets, Chains, ToRatchet, ToChain, Opt
    <3> QED BY <3>1, NoneAssumption, Zenon
  <2> QED BY <1>1, <1>3, <2>1, <2>2, <2>3, Zenon DEF AppOK, SessionOf
<1> QED BY <1>2, <1>3, Zenon
\* A sound step of one process keeps the invariant.
LEMMA FrameKeeps ==
    ASSUME StateInv, NEW p \in Parties, Frame(p)
    PROVE  StateInv'
<1>1. /\ app' \in [Parties -> Apps] /\ status' \in [Parties -> Statuses]
      /\ disk' \in [Parties -> Opt(Snapshots)]
      /\ \A q \in Parties \ {p} : app'[q] = app[q] /\ status'[q] = status[q] /\ disk'[q] = disk[q]
  BY Zenon DEF StateInv, Frame, AppOK
<1>2. \A q \in Parties : AppOK(q, app'[q]) /\ RowOK(q, disk'[q])
  BY <1>1, Zenon DEF StateInv, Frame
<1>3. status'["I"] = "up" => app'["I"].peer # None
  BY <1>1, PartyFacts, Zenon DEF StateInv, Frame
<1>4. \A ct \in sealed' : ByInitiator(ct) \/ ByResponder(ct)
  BY Zenon DEF StateInv, Frame, AuthorOK
<1>5. ASSUME NEW f \in net' PROVE EnvOK(f) /\ Live(f)'
  <2>1. /\ f \in net \/ (EnvOK(f) /\ f.from = Me(p) /\ Alive(f.to)
                         /\ (f.header # None => Begins(f) /\ f.ciphertext \in sealed'))
        /\ status'[p] # "up" => f.to # Me(p)
    BY <1>5, Zenon DEF Frame, New
  <2>2. /\ EnvOK(f) /\ Alive(f.to) /\ f.from[2] <= run[f.from[1]]
        /\ f.header # None => Begins(f) /\ f.ciphertext \in sealed'
    <3>1. CASE f \in net
      BY <3>1, Zenon DEF StateInv, Live, Frame
    <3>2. CASE f \notin net
      <4>1. f.from[1] = p /\ f.from[2] = run[p] /\ run[p] \in Nat
        BY <2>1, <3>2, Names, Zenon DEF StateInv
      <4> QED BY <2>1, <3>2, <4>1
    <3> QED BY <3>1, <3>2, Zenon
  <2>3. f.to \in Ids /\ f.to[1] \in Parties
    BY <2>2, PartyFacts, Zenon DEF EnvOK, Envelopes
  <2>4. setting' = setting /\ run' = run
    BY Zenon DEF Frame
  <2>5. status'[f.to[1]] = "up" /\ run[f.to[1]] = f.to[2]
    <3>1. CASE f.to[1] = p
      BY <2>1, <2>2, <2>3, <3>1, Names, Zenon DEF Alive
    <3>2. CASE f.to[1] # p
      BY <2>2, <2>3, <3>2, <1>1, Zenon DEF Alive
    <3> QED BY <3>1, <3>2, Zenon
  <2> QED BY <2>2, <2>4, <2>5, Zenon DEF Live, Alive, Begins
<1>6. mishaps' \subseteq {"misread", "unsaved", "lost"} \X Ids
  <2>1. Me(p) \in Ids /\ mishaps' \subseteq mishaps \union ({"misread", "unsaved"} \X {Me(p)})
    BY Names, Zenon DEF Frame, Notes
  <2>2. {"misread", "unsaved"} \X {Me(p)} \subseteq {"misread", "unsaved", "lost"} \X Ids
    BY <2>1
  <2> QED BY <2>1, <2>2, Zenon DEF StateInv
<1> QED BY <1>1, <1>2, <1>3, <1>4, <1>5, <1>6, Zenon DEF StateInv, Frame

\* The other party is not touched.
LEMMA OtherKept ==
    ASSUME StateInv, NEW p \in Parties, Frame(p), NEW q \in Parties, q # p
    PROVE  app'[q] = app[q] /\ status'[q] = status[q] /\ disk'[q] = disk[q] /\ Resume(q)' = Resume(q)
<1>1. app'[q] = app[q] /\ status'[q] = status[q] /\ disk'[q] = disk[q]
  BY Zenon DEF StateInv, Frame
<1> QED BY <1>1, Zenon DEF Resume, LoadSession

\* ChatSession::persist: the row is replaced, or left as it is.
Saves(p, happens, r) ==
    /\ disk' = [disk EXCEPT ![p] = disk'[p]] /\ disk'[p] \in Opt(Snapshots) /\ RowOK(p, disk'[p])
    /\ Resume(p)' = IF happens THEN r ELSE Resume(p)
    /\ disk'[p] = None => ~happens /\ disk[p] = None

LEMMA PersistFacts ==
    ASSUME StateInv, NEW p \in Parties, NEW happens \in BOOLEAN, NEW r, r # None, SessOK(p, r),
           Persist(p, happens, r)
    PROVE  Saves(p, happens, r)
<1>1. /\ disk \in [Parties -> Opt(Snapshots)] /\ RowOK(p, disk[p])
  BY Zenon DEF StateInv
<1>2. CASE happens
  <2>1. disk' = [disk EXCEPT ![p] = FromRatchet(r)]
    BY <1>2, Zenon DEF Persist, SaveSession
  <2>2. disk'[p] = FromRatchet(r)
    BY <1>1, <2>1, Zenon
  <2>3. Resume(p)' = r
    BY <2>2, RowFacts, Zenon DEF Resume, LoadSession
  <2> QED BY <1>2, <2>1, <2>2, <2>3, RowFacts, Zenon DEF Saves, Opt
<1>3. CASE ~happens
  <2>1. disk' = disk
    BY <1>3, Zenon DEF Persist
  <2>2. disk' = [disk EXCEPT ![p] = disk'[p]] /\ disk'[p] = disk[p] /\ disk[p] \in Opt(Snapshots)
    BY <1>1, <2>1, Zenon
  <2>3. Resume(p)' = Resume(p)
    BY <2>1, Zenon DEF Resume, LoadSession
  <2> QED BY <1>1, <1>3, <2>2, <2>3, Zenon DEF Saves
<1> QED BY <1>2, <1>3, Zenon

\* Nothing is saved.
LEMMA NotSaved ==
    ASSUME StateInv, NEW p \in Parties, disk' = disk
    PROVE  Saves(p, FALSE, None)
<1>1. /\ disk \in [Parties -> Opt(Snapshots)] /\ RowOK(p, disk[p])
  BY Zenon DEF StateInv
<1>2. Resume(p)' = Resume(p)
  BY Zenon DEF Resume, LoadSession
<1> QED BY <1>1, <1>2, Zenon DEF Saves

\* The process ends, or goes on as a.
Gone(p) == app'[p] = NewApp /\ status'[p] # "up" /\ \A f \in net' : f.to # Me(p)
Turns(p, a, requests) ==
    /\ app' = [app EXCEPT ![p] = app'[p]] /\ status' = [status EXCEPT ![p] = status'[p]]
    /\ net' \subseteq requests
    /\ \/ app'[p] = a /\ status'[p] = "up"
       \/ Gone(p)

LEMMA EndsFacts ==
    ASSUME StateInv, NEW p \in Parties, NEW reason, reason # "up", NEW requests, NEW a,
           Ends(p, reason, requests)
    PROVE  Turns(p, a, requests) /\ Gone(p) /\ status'[p] = reason
<1>1. app \in [Parties -> Apps] /\ status \in [Parties -> Statuses]
  BY Zenon DEF StateInv
<1>2. /\ app' = [app EXCEPT ![p] = app'[p]] /\ status' = [status EXCEPT ![p] = status'[p]]
      /\ app'[p] = NewApp /\ status'[p] = reason
  BY <1>1, Zenon DEF Ends
<1>3. net' \subseteq requests /\ \A f \in net' : f.to # Me(p)
  BY Zenon DEF Ends
<1> QED BY <1>2, <1>3, Zenon DEF Turns, Gone

LEMMA HandledFacts ==
    ASSUME StateInv, NEW p \in Parties, status[p] = "up", NEW handler, NEW cut, NEW last \in Nat,
           NEW a, NEW requests, Handled(p, handler, cut, last, a, requests)
    PROVE  /\ Turns(p, a, requests) /\ cut \in 0..last
           /\ \/ cut = last /\ app'[p] = a /\ status'[p] = "up"
              \/ cut # last /\ handler \in setting.kills /\ Gone(p) /\ status'[p] = "off"
<1>1. app \in [Parties -> Apps] /\ status \in [Parties -> Statuses]
  BY Zenon DEF StateInv
<1>2. CASE cut = last
  <2>1. app' = [app EXCEPT ![p] = a] /\ net' = requests /\ status' = status /\ cut \in 0..last
    BY <1>2, Zenon DEF Handled
  <2>2. /\ app' = [app EXCEPT ![p] = app'[p]] /\ status' = [status EXCEPT ![p] = status'[p]]
        /\ app'[p] = a /\ status'[p] = "up"
    BY <1>1, <2>1, Zenon
  <2> QED BY <1>2, <2>1, <2>2, Zenon DEF Turns
<1>3. CASE cut # last
  <2>1. Ends(p, "off", requests) /\ handler \in setting.kills /\ cut \in 0..last
    BY <1>3, Zenon DEF Handled
  <2> QED BY <1>3, <2>1, EndsFacts, Zenon
<1> QED BY <1>2, <1>3, Zenon
-----------------------------------------------------------------------------
(* Requests and the application's fields *)

LEMMA SyncFacts ==
    ASSUME StateInv, NEW p \in Parties, NEW to \in Ids, to[1] # p, NEW marker \in 0..5,
           NEW body \in Opt(Secrets \union Ids \union SenderKeys),
           NEW f, f = SyncEnvelope(p, to, marker, body)
    PROVE  /\ f \in Envelopes /\ Sync(f, marker) /\ f.body = body
           /\ f.from = Me(p) /\ f.from[1] = p /\ f.to = to /\ f.from[1] # f.to[1]
<1>1. Me(p) \in Ids /\ Me(p)[1] = p
  BY Names, Zenon
<1> QED BY <1>1, Zenon DEF SyncEnvelope, Envelopes, Opt, Sync

LEMMA ChatFacts ==
    ASSUME StateInv, NEW p \in Parties, NEW to \in Ids, to[1] # p, NEW byte \in setting.bytes,
           NEW out, out.header = out.ciphertext.aad, AuthorOK(p, out.ciphertext),
           NEW f, f = ChatEnvelope(p, to, byte, out)
    PROVE  /\ EnvOK(f) /\ f.from = Me(p) /\ f.to = to /\ Begins(f)
           /\ f.header # None /\ f.ciphertext = out.ciphertext
<1>1. Me(p) \in Ids /\ Me(p)[1] = p
  BY Names, Zenon
<1>2. out.ciphertext \in Ciphertexts /\ out.ciphertext.aad \in Headers
  BY AuthorShape, Zenon DEF AuthorOK, CtShape
<1>3. out.ciphertext # None /\ out.ciphertext.aad # None
  BY <1>2, NoneAssumption, Zenon
<1> DEFINE marker == IF byte = KeyLike THEN RatchetPub ELSE byte
           body   == IF byte = KeyLike THEN <<p, 0>> ELSE None
<1>4. /\ f.from = Me(p) /\ f.to = to /\ f.marker = marker /\ f.body = body
      /\ f.header = out.ciphertext.aad /\ f.ciphertext = out.ciphertext
      /\ f = [from |-> Me(p), to |-> to, marker |-> marker, body |-> body,
               header |-> out.ciphertext.aad, ciphertext |-> out.ciphertext]
  BY Zenon DEF ChatEnvelope
<1>5. marker \in 0..5
  <2>1. byte \in BundleReq..KeyLike
    BY SettingsAssumption, Zenon DEF StateInv
  <2> QED BY <2>1 DEF BundleReq, KeyLike, RatchetPub
<1>6. body \in Opt(Secrets \union Ids \union SenderKeys) /\ (body # None => body = <<p, 0>>)
  <2>1. <<p, 0>> \in Ids
    BY DEF Ids
  <2> QED BY <2>1, Zenon DEF Opt
<1>7. Begins(f)
  BY <1>4, Zenon DEF Begins
<1> HIDE DEF marker, body
<1>8. f \in Envelopes
  BY <1>1, <1>2, <1>4, <1>5, <1>6, Zenon DEF Envelopes, Opt
<1>9. ChatOK(f)
  BY <1>1, <1>3, <1>4, <1>6, Zenon DEF ChatOK
<1> QED BY <1>1, <1>3, <1>4, <1>7, <1>8, <1>9, Zenon DEF EnvOK

\* What a handler knows of a request addressed to it.
LEMMA ArrivedFacts ==
    ASSUME StateInv, NEW p \in Parties, NEW e \in net, Arrived(p, e)
    PROVE  /\ EnvOK(e) /\ Live(e) /\ e.to = Me(p) /\ e.to[1] = p /\ status[p] = "up"
           /\ e.from \in Ids /\ e.from[1] # p /\ PeerOK(p, e.from) /\ e.from # None
           /\ AppOK(p, Known(p, e)) /\ Known(p, e).peer # None
           /\ Known(p, e).session = app[p].session /\ Known(p, e).pending = app[p].pending
           /\ Known(p, e).started = app[p].started
<1>1. EnvOK(e) /\ Live(e) /\ e.to = Me(p) /\ e.to[1] = p /\ status[p] = "up"
  BY Names, Zenon DEF StateInv, Arrived
<1>2. e.from \in Ids /\ e.from[1] # p /\ PeerOK(p, e.from) /\ e.from # None
  BY <1>1, NoneAssumption, Zenon DEF EnvOK, Envelopes, PeerOK
<1>3. AppOK(p, app[p]) /\ app[p] \in Apps
  BY Zenon DEF StateInv, AppOK
<1>4. CASE app[p].peer = None
  <2>1. Known(p, e) = [app[p] EXCEPT !.peer = e.from]
    BY <1>4, Zenon DEF Known
  <2> QED BY <1>1, <1>2, <1>3, <2>1, Zenon DEF AppOK, Apps, Opt
<1>5. CASE app[p].peer # None
  <2>1. Known(p, e) = app[p]
    BY <1>3, <1>5, Zenon DEF Known, Apps
  <2> QED BY <1>1, <1>2, <1>3, <1>5, <2>1, Zenon
<1> QED BY <1>4, <1>5, Zenon

\* A session in the App.
LEMMA SetSession ==
    ASSUME NEW p \in Parties, NEW a, AppOK(p, a), NEW r, r # None, SessOK(p, r)
    PROVE  /\ AppOK(p, [a EXCEPT !.session = r]) /\ [a EXCEPT !.session = r].peer = a.peer
           /\ [a EXCEPT !.session = r].session = r /\ [a EXCEPT !.session = r].pending = a.pending
           /\ [a EXCEPT !.session = r].started = a.started
<1>1. r \in Ratchets
  BY SessionTypes, Zenon DEF SessOK
<1> QED BY <1>1, Zenon DEF AppOK, Apps, Opt

LEMMA NewAppFacts ==
    ASSUME NEW p \in Parties
    PROVE  /\ AppOK(p, NewApp) /\ NewApp.session = None /\ NewApp.pending = None
           /\ NewApp.started = FALSE
  BY Zenon DEF AppOK, NewApp, Apps, Opt, SessOK, PeerOK

LEMMA NothingNoted ==
    ASSUME NEW p, mishaps' = mishaps
    PROVE  Notes(p)
  BY Zenon DEF Notes

\* What the handlers note of ciphertexts and saves.
LEMMA NoteFacts ==
    ASSUME NEW p, NEW e, NEW sent, NEW saved
    PROVE  /\ Misread(p, e) \subseteq {"misread", "unsaved"} \X {Me(p)}
           /\ Unsaved(p, sent, saved) \subseteq {"misread", "unsaved"} \X {Me(p)}
           /\ e.header # None => <<"misread", Me(p)>> \in Misread(p, e)
           /\ sent /\ ~saved => <<"unsaved", Me(p)>> \in Unsaved(p, sent, saved)
  BY DEF Misread, Unsaved

\* The parts of a step make a sound step.
LEMMA MakesFrame ==
    ASSUME StateInv, NEW p \in Parties, status[p] = "up", UNCHANGED <<setting, run>>, Notes(p),
           secrets' \in Nat, typed' \in [Parties -> Nat],
           NEW a, NEW requests, Turns(p, a, requests), AppOK(p, a) \/ Gone(p), p = "I" => a.peer # None,
           status'[p] \in Statuses,
           status'[p] = "protocol" => \E e \in net : Arrived(p, e) /\ ~Accepts(p, e),
           NEW happens, NEW r, Saves(p, happens, r),
           sealed \subseteq sealed', \A ct \in sealed' : ct \in sealed \/ AuthorOK(p, ct),
           \A f \in requests : f \in net \/ New(p, f)
    PROVE  Frame(p)
<1>1. AppOK(p, app'[p])
  BY NewAppFacts, Zenon DEF Turns, Gone
<1>2. p = "I" /\ status'[p] = "up" => app'[p].peer # None
  BY Zenon DEF Turns, Gone
<1>3. \A f \in net' : (f \in net \/ New(p, f)) /\ (status'[p] # "up" => f.to # Me(p))
  BY Zenon DEF Turns, Gone
<1> QED BY <1>1, <1>2, <1>3, Zenon DEF Frame, Turns, Saves


-----------------------------------------------------------------------------
(* What each handler does, in terms of the sessions and requests alone *)

Now(p, session, pending, started) ==
    /\ status'[p] = "up" /\ app'[p].session = session
    /\ app'[p].pending = pending /\ app'[p].started = started
Same(p) == Now(p, app[p].session, app[p].pending, app[p].started)
Quiet == UNCHANGED <<disk, secrets, sealed>>

\* The process ends between handlers or with an error.
Stopped(p) == Frame(p) /\ Quiet /\ Gone(p) /\ net' \subseteq net

\* Nothing but app.peer and app.receiver may change.
Passes(p) == Frame(p) /\ Quiet /\ Same(p) /\ net' \subseteq net

AsksBundle ==
    /\ Frame("I") /\ Quiet /\ app["I"].session = None /\ ~app["I"].started
    /\ Now("I", None, app["I"].pending, TRUE)
    /\ \E f : f.from = Me("I") /\ Sync(f, BundleReq) /\ net' \subseteq net \union {f}

AnswersBundle(e) ==
    /\ Frame("R") /\ Quiet /\ Same("R") /\ e.marker = BundleReq /\ e.to = Me("R")
    /\ \E f : /\ f.from = Me("R") /\ f.to = e.from /\ Sync(f, Bundle)
              /\ net' \subseteq (net \ {e}) \union {f}
    /\ e.header # None => <<"misread", Me("R")>> \in mishaps'

SendsPrekey(e) ==
    /\ Frame("I") /\ UNCHANGED <<disk, sealed>> /\ secrets' = secrets + 1
    /\ Sync(e, Bundle) /\ e.to = Me("I")
    /\ Now("I", app["I"].session, Secret(secrets + 1), app["I"].started)
    /\ \E f : /\ f.from = Me("I") /\ Sync(f, Prekey) /\ f.body = Secret(secrets + 1)
              /\ net' \subseteq (net \ {e}) \union {f}

LEMMA StopsFacts ==
    ASSUME StateInv, NEW p \in Parties, status[p] = "up", NEW reason \in Statuses, reason # "up",
           reason = "protocol" => \E e \in net : Arrived(p, e) /\ ~Accepts(p, e),
           NEW requests, requests \subseteq net, Ends(p, reason, requests),
           UNCHANGED <<setting, run, typed, mishaps>>, Quiet
    PROVE  Stopped(p)
<1>1. Turns(p, [NewApp EXCEPT !.peer = Me("I")], requests) /\ Gone(p) /\ status'[p] = reason
  BY EndsFacts, Zenon
<1>2. [NewApp EXCEPT !.peer = Me("I")].peer # None
  BY Names, PartyFacts, Zenon DEF NewApp
<1>3. Saves(p, FALSE, None)
  BY NotSaved, Zenon DEF Quiet
<1>4. secrets' \in Nat /\ typed' \in [Parties -> Nat] /\ sealed' = sealed
  BY Zenon DEF StateInv, Quiet
<1>5. Frame(p)
  BY <1>1, <1>2, <1>3, <1>4, NothingNoted, MakesFrame, Zenon
<1> QED BY <1>1, <1>5, Zenon DEF Stopped, Turns

LEMMA QuitStops ==
    ASSUME StateInv, NEW p \in Parties, Quit(p), UNCHANGED setting
    PROVE  Stopped(p)
<1>1. status[p] = "up" /\ Ends(p, "off", net) /\ UNCHANGED <<run, typed, mishaps>> /\ Quiet
  BY Zenon DEF Quit, Quiet
<1>2. "off" \in Statuses /\ "off" # "up" /\ "off" # "protocol"
  BY Zenon DEF Statuses
<1> QED BY <1>1, <1>2, StopsFacts, Zenon

LEMMA CommandFailsStops ==
    ASSUME StateInv, NEW p \in Parties, CommandFails(p), UNCHANGED setting
    PROVE  Stopped(p)
<1>1. status[p] = "up" /\ Ends(p, "NoPeerKey", net) /\ UNCHANGED <<run, typed, mishaps>> /\ Quiet
  BY Zenon DEF CommandFails, Types, Quiet
<1>2. "NoPeerKey" \in Statuses /\ "NoPeerKey" # "up" /\ "NoPeerKey" # "protocol"
  BY Zenon DEF Statuses
<1> QED BY <1>1, <1>2, StopsFacts, Zenon

LEMMA DirectFailsStops ==
    ASSUME StateInv, NEW p \in Parties, NEW e \in net, DirectFails(p, e), UNCHANGED setting
    PROVE  Stopped(p)
<1>1. /\ status[p] = "up" /\ Ends(p, "protocol", Rest(e)) /\ UNCHANGED <<run, typed, mishaps>> /\ Quiet
      /\ Arrived(p, e) /\ ~Accepts(p, e)
  BY Zenon DEF DirectFails, Arrived, Quiet
<1>2. "protocol" \in Statuses /\ "protocol" # "up"
  BY Zenon DEF Statuses
<1>3. Rest(e) \subseteq net
  BY Zenon DEF Rest
<1> QED BY <1>1, <1>2, <1>3, StopsFacts, Zenon

LEMMA PeerConnectedDoes ==
    ASSUME StateInv, NEW p \in Parties, PeerConnected(p), UNCHANGED setting
    PROVE  Passes(p) \/ (p = "I" /\ AsksBundle)
<1> DEFINE other == IF p = "I" THEN Me("R") ELSE Me("I")
           known == [app[p] EXCEPT !.peer = IF @ = None THEN other ELSE @]
           f     == RequestBundle(p)
<1>1. AppOK(p, app[p]) /\ app[p] \in Apps /\ app \in [Parties -> Apps] /\ status \in [Parties -> Statuses]
  BY Zenon DEF StateInv, AppOK
<1>2. other \in Ids /\ other[1] # p /\ other # None
  BY Names, PartyFacts, Zenon
<1>3. /\ AppOK(p, known) /\ known \in Apps /\ known.peer # None /\ known.session = app[p].session
      /\ known.pending = app[p].pending /\ known.started = app[p].started
  <2> HIDE DEF other
  <2> QED BY <1>1, <1>2, Zenon DEF AppOK, Apps, Opt, PeerOK
<1>4. status[p] = "up"
  <2>1. status["I"] = "up" /\ Alive(app["I"].peer)
    BY Zenon DEF PeerConnected, Connected
  <2>2. app["I"].peer \in Ids /\ app["I"].peer[1] = "R"
    <3>1. app["I"].peer # None /\ PeerOK("I", app["I"].peer)
      BY <2>1, PartyFacts, Zenon DEF StateInv, AppOK
    <3> QED BY <3>1, PartyFacts, Zenon DEF PeerOK
  <2>3. status["R"] = "up"
    BY <2>1, <2>2, PartyFacts, Names, Zenon
  <2> QED BY <2>1, <2>3, PartyFacts, Zenon
<1>5. /\ UNCHANGED <<setting, run, disk, secrets, typed, sealed, status>> /\ Notes(p)
      /\ secrets' \in Nat /\ typed' \in [Parties -> Nat]
  BY NothingNoted, Zenon DEF PeerConnected, StateInv
<1>6. Saves(p, FALSE, None)
  BY <1>5, NotSaved, Zenon
<1>7. status' = [status EXCEPT ![p] = status'[p]] /\ status'[p] = "up" /\ status'[p] \in Statuses
  BY <1>1, <1>4, <1>5, Zenon
<1>8. CASE ~MayRequestBundle(p)
  <2>1. app' = [app EXCEPT ![p] = known] /\ net' = net
    BY <1>8, Zenon DEF PeerConnected
  <2> HIDE DEF known
  <2>2. app'[p] = known /\ app' = [app EXCEPT ![p] = app'[p]]
    BY <1>1, <2>1, Zenon
  <2>3. Turns(p, known, net)
    BY <1>7, <2>1, <2>2, Zenon DEF Turns
  <2>4. Frame(p)
    BY <1>3, <1>4, <1>5, <1>6, <1>7, <2>3, MakesFrame, Zenon
  <2> QED BY <1>3, <1>5, <1>7, <2>1, <2>2, <2>4, Zenon DEF Passes, Quiet, Same, Now
<1>9. CASE MayRequestBundle(p)
  <2> DEFINE asked == [known EXCEPT !.started = TRUE]
  <2>1. app' = [app EXCEPT ![p] = asked] /\ net' = net \union Sending({f})
    BY <1>9, Zenon DEF PeerConnected
  <2>2. p = "I" /\ app[p].session = None /\ ~app[p].started
    BY <1>9, Zenon DEF MayRequestBundle
  <2>3. /\ AppOK(p, asked) /\ asked.peer # None /\ asked.session = app[p].session
        /\ asked.pending = app[p].pending /\ asked.started = TRUE
    <3> HIDE DEF known
    <3> QED BY <1>3, Zenon DEF AppOK, Apps
  <2> HIDE DEF asked
  <2>4. app'[p] = asked /\ app' = [app EXCEPT ![p] = app'[p]]
    BY <1>1, <2>1, Zenon
  <2>5. Turns(p, asked, net \union Sending({f}))
    BY <1>7, <2>1, <2>4, Zenon DEF Turns
  <2>6. app[p].peer \in Ids /\ app[p].peer[1] # p
    BY <1>1, <1>4, <2>2, Zenon DEF StateInv, AppOK, PeerOK
  <2>7. EnvOK(f) /\ f.from = Me(p) /\ Sync(f, BundleReq)
    <3>1. f \in Envelopes /\ Sync(f, BundleReq) /\ f.from = Me(p) /\ f.from[1] = p /\ f.from[1] # f.to[1]
      BY <2>6, SyncFacts, SMTT(30) DEF RequestBundle, BundleReq, Opt
    <3> QED BY <2>2, <3>1, Zenon DEF EnvOK, SyncOK
  <2>8. \A g \in net \union Sending({f}) : g \in net \/ New(p, g)
    BY <2>7, Zenon DEF Sending, New, Sync
  <2>9. Frame(p)
    BY <1>4, <1>5, <1>6, <1>7, <2>3, <2>5, <2>8, MakesFrame, Zenon
  <2>10. net' \subseteq net \union {f}
    BY <2>1, Zenon DEF Sending
  <2> HIDE DEF f
  <2> QED BY <1>5, <1>7, <2>2, <2>3, <2>4, <2>7, <2>9, <2>10, Zenon DEF AsksBundle, Quiet, Now
<1> QED BY <1>8, <1>9, Zenon
LEMMA OnBundleReqDoes ==
    ASSUME StateInv, NEW p \in Parties, NEW e \in net, OnBundleReq(p, e), UNCHANGED setting
    PROVE  p = "R" /\ AnswersBundle(e)
<1> DEFINE a == Known(p, e)
           f == SyncEnvelope(p, e.from, Bundle, None)
<1>1. /\ Arrived(p, e) /\ Accepts(p, e) /\ e.marker = BundleReq
      /\ app' = [app EXCEPT ![p] = a] /\ net' = Rest(e) \union Sending({f})
      /\ UNCHANGED <<status, run, disk, secrets, typed, sealed>>
      /\ mishaps' = mishaps \union Misread(p, e)
  BY Zenon DEF OnBundleReq
<1>2. p = "R"
  BY <1>1 DEF Accepts, BundleReq, Bundle, Prekey, RatchetPub, GroupKey, OtherByte
<1>11. Notes(p) /\ (e.header # None => <<"misread", Me(p)>> \in mishaps')
  BY <1>1, NoteFacts, Zenon DEF Notes
<1>3. /\ e.to = Me(p) /\ status[p] = "up" /\ e.from \in Ids /\ e.from[1] # p
      /\ AppOK(p, a) /\ a.session = app[p].session /\ a.pending = app[p].pending
      /\ a.started = app[p].started
  BY <1>1, ArrivedFacts, Zenon
<1> HIDE DEF a
<1>4. EnvOK(f) /\ f.from = Me(p) /\ f.to = e.from /\ Sync(f, Bundle)
  <2>1. /\ f \in Envelopes /\ Sync(f, Bundle) /\ f.from = Me(p) /\ f.from[1] = p /\ f.to = e.from
        /\ f.from[1] # f.to[1]
    BY <1>3, SyncFacts, SMTT(30) DEF Bundle, Opt
  <2> QED BY <1>2, <2>1, Zenon DEF EnvOK, SyncOK
<1>5. \A g \in Rest(e) \union Sending({f}) : g \in net \/ New(p, g)
  BY <1>4, Zenon DEF Sending, New, Sync, Rest
<1>6. net' \subseteq (net \ {e}) \union {f}
  BY <1>1, Zenon DEF Sending, Rest
<1> HIDE DEF f
<1>7. /\ app \in [Parties -> Apps] /\ status \in [Parties -> Statuses]
      /\ secrets' \in Nat /\ typed' \in [Parties -> Nat]
  BY <1>1, Zenon DEF StateInv
<1>8. /\ app' = [app EXCEPT ![p] = app'[p]] /\ app'[p] = a
      /\ status' = [status EXCEPT ![p] = status'[p]] /\ status'[p] = "up" /\ status'[p] \in Statuses
  BY <1>1, <1>3, <1>7, Zenon
<1>9. Turns(p, a, Rest(e) \union Sending({f}))
  BY <1>1, <1>8, Zenon DEF Turns
<1>10. Frame(p)
  BY <1>1, <1>2, <1>3, <1>5, <1>7, <1>8, <1>9, <1>11, NotSaved, MakesFrame, Zenon
<1> QED BY <1>1, <1>2, <1>3, <1>4, <1>6, <1>8, <1>10, <1>11, Zenon DEF AnswersBundle, Quiet, Same, Now

LEMMA OnGroupKeyDoes ==
    ASSUME StateInv, NEW p \in Parties, NEW e \in net, OnGroupKey(p, e), UNCHANGED setting
    PROVE  Passes(p)
<1> DEFINE k == Known(p, e)
           a == [k EXCEPT !.receiver = e.body]
<1>1. /\ Arrived(p, e) /\ Accepts(p, e) /\ e.marker = GroupKey
      /\ app' = [app EXCEPT ![p] = a] /\ net' = Rest(e)
      /\ UNCHANGED <<status, run, disk, secrets, typed, sealed>> /\ Notes(p)
  BY NothingNoted, Zenon DEF OnGroupKey
<1>2. /\ EnvOK(e) /\ status[p] = "up" /\ AppOK(p, k) /\ k.peer # None
      /\ k.session = app[p].session /\ k.pending = app[p].pending /\ k.started = app[p].started
  BY <1>1, ArrivedFacts, Zenon
<1>3. e.header = None
  BY <1>1 DEF Accepts, BundleReq, Bundle, Prekey, RatchetPub, GroupKey, OtherByte
<1>4. e.body \in SenderKeys
  BY <1>1, <1>2, <1>3
  DEF EnvOK, SyncOK, ChatOK, Sync, BundleReq, Bundle, Prekey, RatchetPub, GroupKey
<1> HIDE DEF k
<1>5. /\ AppOK(p, a) /\ a.peer # None /\ a.session = app[p].session
      /\ a.pending = app[p].pending /\ a.started = app[p].started
  BY <1>2, <1>4, Zenon DEF AppOK, Apps, Opt
<1> HIDE DEF a
<1>6. Rest(e) \subseteq net
  BY Zenon DEF Rest
<1>7. /\ app \in [Parties -> Apps] /\ status \in [Parties -> Statuses]
      /\ secrets' \in Nat /\ typed' \in [Parties -> Nat]
  BY <1>1, Zenon DEF StateInv
<1>8. /\ app' = [app EXCEPT ![p] = app'[p]] /\ app'[p] = a
      /\ status' = [status EXCEPT ![p] = status'[p]] /\ status'[p] = "up" /\ status'[p] \in Statuses
  BY <1>1, <1>2, <1>7, Zenon
<1>9. Turns(p, a, Rest(e))
  BY <1>1, <1>8, Zenon DEF Turns
<1>10. Frame(p)
  BY <1>1, <1>2, <1>5, <1>6, <1>7, <1>8, <1>9, NotSaved, MakesFrame, Zenon
<1> QED BY <1>1, <1>5, <1>6, <1>8, <1>10, Zenon DEF Passes, Quiet, Same, Now

LEMMA OnBundleDoes ==
    ASSUME StateInv, NEW p \in Parties, NEW e \in net, OnBundle(p, e), UNCHANGED setting
    PROVE  p = "I" /\ SendsPrekey(e)
<1> DEFINE s == Secret(secrets + 1)
           k == Known(p, e)
           a == [k EXCEPT !.pending = s]
           f == SyncEnvelope(p, app[p].peer, Prekey, s)
<1>1. /\ Arrived(p, e) /\ Accepts(p, e) /\ e.marker = Bundle /\ secrets' = secrets + 1
      /\ app' = [app EXCEPT ![p] = a] /\ net' = Rest(e) \union Sending({f})
      /\ UNCHANGED <<status, run, disk, typed, sealed>> /\ Notes(p)
  BY NothingNoted, Zenon DEF OnBundle, SendPrekey
<1>2. p = "I" /\ e.header = None
  BY <1>1 DEF Accepts, BundleReq, Bundle, Prekey, RatchetPub, GroupKey, OtherByte
<1>3. /\ EnvOK(e) /\ e.to = Me(p) /\ status[p] = "up" /\ AppOK(p, k) /\ k.peer # None
      /\ k.session = app[p].session /\ k.started = app[p].started
  BY <1>1, ArrivedFacts, Zenon
<1>4. Sync(e, Bundle)
  BY <1>1, <1>2, <1>3, Zenon
  DEF EnvOK, SyncOK, ChatOK, Sync, BundleReq, Bundle, Prekey, RatchetPub, GroupKey
<1>5. s \in Secrets /\ secrets \in Nat
  BY DEF StateInv, Secret, Secrets
<1> HIDE DEF k, s
<1>6. /\ AppOK(p, a) /\ a.peer # None /\ a.session = app[p].session
      /\ a.pending = s /\ a.started = app[p].started
  BY <1>3, <1>5, Zenon DEF AppOK, Apps, Opt
<1> HIDE DEF a
<1>7. app[p].peer \in Ids /\ app[p].peer[1] # p
  BY <1>2, <1>3, Zenon DEF StateInv, AppOK, PeerOK
<1>8. EnvOK(f) /\ f.from = Me(p) /\ Sync(f, Prekey) /\ f.body = s
  <2>1. /\ f \in Envelopes /\ Sync(f, Prekey) /\ f.from = Me(p) /\ f.from[1] = p /\ f.body = s
        /\ f.from[1] # f.to[1]
    BY <1>5, <1>7, SyncFacts, SMTT(30) DEF Prekey, Opt
  <2> QED BY <1>2, <1>5, <2>1, Zenon DEF EnvOK, SyncOK
<1>9. \A g \in Rest(e) \union Sending({f}) : g \in net \/ New(p, g)
  BY <1>8, Zenon DEF Sending, New, Sync, Rest
<1>10. net' \subseteq (net \ {e}) \union {f}
  BY <1>1, Zenon DEF Sending, Rest
<1> HIDE DEF f
<1>11. /\ app \in [Parties -> Apps] /\ status \in [Parties -> Statuses]
       /\ secrets' \in Nat /\ typed' \in [Parties -> Nat]
  BY <1>1, <1>5 DEF StateInv
<1>12. /\ app' = [app EXCEPT ![p] = app'[p]] /\ app'[p] = a
       /\ status' = [status EXCEPT ![p] = status'[p]] /\ status'[p] = "up" /\ status'[p] \in Statuses
  BY <1>1, <1>3, <1>11, Zenon
<1>13. Turns(p, a, Rest(e) \union Sending({f}))
  BY <1>1, <1>12, Zenon DEF Turns
<1>14. Frame(p)
  BY <1>1, <1>3, <1>6, <1>9, <1>11, <1>12, <1>13, NotSaved, MakesFrame, Zenon
<1> QED BY <1>1, <1>2, <1>3, <1>4, <1>6, <1>8, <1>10, <1>12, <1>14, Zenon DEF SendsPrekey, Now, s
TakesPrekey(e) ==
    /\ Frame("R") /\ UNCHANGED <<secrets, sealed>>
    /\ Sync(e, Prekey) /\ e.to = Me("R") /\ e.body \in Secrets
    /\ \E saved \in BOOLEAN : \E f :
          /\ Saves("R", saved, Fresh(e.body))
          /\ f.from = Me("R") /\ f.to = e.from /\ Sync(f, RatchetPub) /\ f.body = Rk(e.body)
          /\ \/ Gone("R") /\ net' \subseteq net \ {e}
             \/ /\ saved /\ Now("R", Fresh(e.body), app["R"].pending, app["R"].started)
                /\ net' \subseteq (net \ {e}) \union {f}

LEMMA OnPrekeyDoes ==
    ASSUME StateInv, NEW p \in Parties, NEW e \in net, NEW cut \in 0..2, OnPrekey(p, e, cut),
           UNCHANGED setting
    PROVE  p = "R" /\ TakesPrekey(e)
<1> DEFINE r == ResponderSession(p, e.body)
           f == SyncEnvelope(p, e.from, RatchetPub, RatchetKey(p, e.body))
           k == Known(p, e)
           a == [k EXCEPT !.session = r]
           requests == Rest(e) \union (IF cut >= 2 THEN Sending({f}) ELSE {})
<1>1. /\ Arrived(p, e) /\ Accepts(p, e) /\ e.marker = Prekey
      /\ Persist(p, cut >= 1, r) /\ Handled(p, "prekey", cut, 2, a, requests)
      /\ UNCHANGED <<run, secrets, typed, sealed>> /\ Notes(p)
  BY NothingNoted, Zenon DEF OnPrekey
<1>2. p = "R" /\ e.header = None
  BY <1>1 DEF Accepts, BundleReq, Bundle, Prekey, RatchetPub, GroupKey, OtherByte
<1>3. /\ EnvOK(e) /\ e.to = Me(p) /\ status[p] = "up" /\ e.from \in Ids /\ e.from[1] # p
      /\ AppOK(p, k) /\ k.pending = app[p].pending /\ k.started = app[p].started
  BY <1>1, ArrivedFacts, Zenon
<1>4. Sync(e, Prekey) /\ e.body \in Secrets
  BY <1>1, <1>2, <1>3
  DEF EnvOK, SyncOK, ChatOK, Sync, BundleReq, Bundle, Prekey, RatchetPub, GroupKey
<1>5. r = Fresh(e.body) /\ RatchetKey(p, e.body) = Rk(e.body)
  BY <1>2, Zenon DEF Fresh, Rk
<1>6. r # None /\ SessOK(p, r)
  BY <1>2, <1>4, <1>5, FreshParts, Zenon DEF SessOK, IsResponder
<1> HIDE DEF k, r
<1>7. AppOK(p, a) /\ a.session = r /\ a.pending = app[p].pending /\ a.started = app[p].started
  BY <1>3, <1>6, SetSession
<1> HIDE DEF a
<1>8. EnvOK(f) /\ f.from = Me(p) /\ f.to = e.from /\ Sync(f, RatchetPub) /\ f.body = Rk(e.body)
  <2>1. Rk(e.body) \in ResponderKeys /\ Rk(e.body) \in Ids
    BY <1>4, KeyFacts, Zenon
  <2>2. /\ f \in Envelopes /\ Sync(f, RatchetPub) /\ f.from = Me(p) /\ f.from[1] = p /\ f.to = e.from
        /\ f.body = Rk(e.body) /\ f.from[1] # f.to[1]
    BY <1>3, <1>5, <2>1, SyncFacts, SMTT(30) DEF RatchetPub, Opt
  <2> QED BY <1>2, <2>1, <2>2, Zenon DEF EnvOK, SyncOK
<1>9. \A g \in requests : g \in net \/ New(p, g)
  BY <1>8, Zenon DEF Sending, New, Sync, Rest
<1>10. requests \subseteq (net \ {e}) \union {f} /\ (cut # 2 => requests \subseteq net \ {e})
  BY DEF Sending, Rest
<1> HIDE DEF f, requests
<1>11. /\ Turns(p, a, requests)
       /\ \/ cut = 2 /\ app'[p] = a /\ status'[p] = "up"
          \/ cut # 2 /\ Gone(p) /\ status'[p] = "off"
  BY <1>1, <1>3, HandledFacts, Zenon
<1> DEFINE h == cut >= 1
<1>12. Saves(p, h, r) /\ h \in BOOLEAN
  <2>1. h \in BOOLEAN
    OBVIOUS
  <2>2. Persist(p, h, r)
    BY <1>1, Zenon
  <2> HIDE DEF h
  <2> QED BY <1>6, <2>1, <2>2, PersistFacts, Zenon
<1>13. /\ secrets' \in Nat /\ typed' \in [Parties -> Nat]
       /\ status'[p] \in Statuses /\ status'[p] # "protocol"
  BY <1>1, <1>11, Zenon DEF StateInv, Statuses
<1>14. Frame(p)
  BY <1>1, <1>2, <1>3, <1>7, <1>9, <1>11, <1>12, <1>13, MakesFrame, Zenon
<1>15. net' \subseteq requests
  BY <1>11, Zenon DEF Turns
<1>16. \/ Gone("R") /\ net' \subseteq net \ {e}
       \/ /\ h /\ Now("R", Fresh(e.body), app["R"].pending, app["R"].started)
          /\ net' \subseteq (net \ {e}) \union {f}
  BY <1>2, <1>5, <1>7, <1>10, <1>11, <1>15 DEF Now
<1> HIDE DEF h
<1>17. \E saved \in BOOLEAN : Saves("R", saved, Fresh(e.body))
          /\ (\/ Gone("R") /\ net' \subseteq net \ {e}
              \/ /\ saved /\ Now("R", Fresh(e.body), app["R"].pending, app["R"].started)
                 /\ net' \subseteq (net \ {e}) \union {f})
  BY <1>2, <1>5, <1>12, <1>16, Zenon
<1> QED BY <1>1, <1>2, <1>3, <1>4, <1>8, <1>14, <1>17, Zenon DEF TakesPrekey

\* What encrypting does to the session of each side.
Seals(p, r, next, ct) ==
    /\ SecretOf(next) = SecretOf(r)
    /\ \/ /\ p = "I" /\ IsInitiator(r) /\ IsInitiator(next) /\ Public(next) = Public(r)
          /\ Sent(next) = Sent(r) + 1
          /\ \E text \in Ids : ct = ISealed(SecretOf(r), Public(r), Sent(r), text)
       \/ /\ p = "R" /\ IsJoined(r) /\ IsJoined(next) /\ Read(next) = Read(r) /\ Kept(next) = Kept(r)
          /\ NextNumber(r) \in Nat /\ SendKey(next) # None /\ Sent(next) = NextNumber(r) + 1
          /\ \E text \in Ids : ct = RSealed(SecretOf(r), NextNumber(r), text)

LEMMA SealFacts ==
    ASSUME NEW p \in Parties, NEW r, r # None, SessOK(p, r), CanEncrypt(r), NEW text \in Ids,
           NEW out, out = Encrypt(r, text)
    PROVE  /\ Seals(p, r, out.ratchet, out.ciphertext) /\ out.header = out.ciphertext.aad
           /\ AuthorOK(p, out.ciphertext) /\ out.ratchet # None /\ SessOK(p, out.ratchet)
<1>1. CASE p = "I"
  <2>1. IsInitiator(r)
    BY <1>1, Zenon DEF SessOK
  <2>2. /\ IsInitiator(out.ratchet)
        /\ SecretOf(out.ratchet) = SecretOf(r) /\ Public(out.ratchet) = Public(r)
        /\ Sent(out.ratchet) = Sent(r) + 1
        /\ out.ciphertext = ISealed(SecretOf(r), Public(r), Sent(r), text)
        /\ out.header = out.ciphertext.aad
    BY <2>1, InitiatorSeals, Zenon
  <2>3. SecretOf(r) \in Secrets /\ Public(r) \in ResponderKeys /\ Sent(r) \in Nat
    BY <2>1, Zenon DEF IsInitiator
  <2>4. ByInitiator(out.ciphertext)
    BY <2>2, <2>3, InitiatorMessage, Zenon
  <2>5. out.ratchet # None
    BY <2>2, SessionTypes, Zenon
  <2> QED BY <1>1, <2>1, <2>2, <2>4, <2>5, Zenon DEF Seals, AuthorOK, SessOK
<1>2. CASE p # "I"
  <2>0. p = "R" /\ IsResponder(r)
    BY <1>2, PartyFacts, Zenon DEF SessOK
  <2>1. /\ IsJoined(r) /\ IsJoined(out.ratchet)
        /\ SecretOf(out.ratchet) = SecretOf(r)
        /\ Read(out.ratchet) = Read(r) /\ Kept(out.ratchet) = Kept(r)
        /\ NextNumber(r) \in Nat
        /\ SendKey(out.ratchet) # None /\ Sent(out.ratchet) = NextNumber(r) + 1
        /\ out.ciphertext = RSealed(SecretOf(r), NextNumber(r), text)
        /\ out.header = out.ciphertext.aad
    BY <2>0, ResponderSeals, Zenon
  <2>2. SecretOf(r) \in Secrets
    BY <2>0, SessionTypes, Zenon
  <2>3. ByResponder(out.ciphertext)
    BY <2>1, <2>2, ResponderMessage, Zenon
  <2>4. out.ratchet # None /\ IsResponder(out.ratchet)
    BY <2>1, SessionTypes, Zenon DEF IsResponder
  <2> QED BY <1>2, <2>0, <2>1, <2>3, <2>4, Zenon DEF Seals, AuthorOK, SessOK
<1> QED BY <1>1, <1>2, Zenon

\* At most one chat message is new.
OneChat == \A f, g \in net' \ net : f.header # None /\ g.header # None => f = g

Says(p) ==
    /\ Frame(p) /\ UNCHANGED secrets /\ app[p].session # None /\ OneChat
    /\ \E next, ct : \E sent \in BOOLEAN, saved \in BOOLEAN :
          /\ Seals(p, app[p].session, next, ct)
          /\ Saves(p, saved, next) /\ (saved => sent)
          /\ sent => saved \/ <<"unsaved", Me(p)>> \in mishaps'
          /\ sealed' = IF sent THEN sealed \union {ct} ELSE sealed
          /\ \A f \in net' : f \in net \/ (sent /\ f.header # None /\ f.ciphertext = ct)
          /\ (Gone(p) /\ ~saved) \/ (sent /\ Now(p, next, app[p].pending, app[p].started))

LEMMA CommandDoes ==
    ASSUME StateInv, NEW p \in Parties, NEW cut \in 0..2, NEW byte \in setting.bytes,
           NEW saved \in BOOLEAN, Command(p, cut, byte, saved), UNCHANGED setting
    PROVE  Says(p)
<1> DEFINE r    == app[p].session
           text == <<p, typed[p] + 1>>
           out  == Encrypt(r, text)
           a    == [app[p] EXCEPT !.session = out.ratchet]
           f    == ChatEnvelope(p, app[p].peer, byte, out)
           sent == cut >= 1
           h    == cut = 2 /\ saved
           requests == net \union (IF sent THEN Sending({f}) ELSE {})
<1>1. /\ status[p] = "up" /\ r # None /\ app[p].peer # None /\ CanEncrypt(r)
      /\ Persist(p, h, out.ratchet)
      /\ typed' = [typed EXCEPT ![p] = IF cut >= 1 THEN @ + 1 ELSE @]
      /\ sealed' = sealed \union (IF sent THEN {out.ciphertext} ELSE {})
      /\ mishaps' = mishaps \union Unsaved(p, sent, h)
      /\ Handled(p, "command", cut, 2, a, requests)
      /\ UNCHANGED <<run, secrets>>
  BY Zenon DEF Command, Types
<1>2. typed' \in [Parties -> Nat] /\ secrets' \in Nat /\ text \in Ids
  BY <1>1 DEF StateInv, Ids
<1>3. AppOK(p, app[p]) /\ SessOK(p, r) /\ app[p].peer \in Ids /\ app[p].peer[1] # p
  BY <1>1, Zenon DEF StateInv, AppOK, PeerOK
<1> HIDE DEF r, text
<1>4. /\ Seals(p, r, out.ratchet, out.ciphertext) /\ out.header = out.ciphertext.aad
      /\ AuthorOK(p, out.ciphertext) /\ out.ratchet # None /\ SessOK(p, out.ratchet)
  BY <1>1, <1>2, <1>3, SealFacts, Zenon
<1> HIDE DEF out
<1>5. /\ AppOK(p, a) /\ a.peer = app[p].peer /\ a.session = out.ratchet
      /\ a.pending = app[p].pending /\ a.started = app[p].started
  BY <1>3, <1>4, SetSession
<1> HIDE DEF a
<1>7. EnvOK(f) /\ f.from = Me(p) /\ Begins(f) /\ f.header # None /\ f.ciphertext = out.ciphertext
  BY <1>3, <1>4, ChatFacts
<1> HIDE DEF f
<1>8. sent \in BOOLEAN /\ h \in BOOLEAN /\ (h => sent /\ cut = 2) /\ (cut = 2 => sent)
  BY DEF h
<1> HIDE DEF sent, h
<1>6. Notes(p) /\ (sent => h \/ <<"unsaved", Me(p)>> \in mishaps')
  <2>1. Unsaved(p, sent, h) \subseteq {"misread", "unsaved"} \X {Me(p)}
    BY NoteFacts, Zenon
  <2>2. sent /\ ~h => <<"unsaved", Me(p)>> \in Unsaved(p, sent, h)
    BY NoteFacts, Zenon
  <2> QED BY <1>1, <2>1, <2>2, Zenon DEF Notes
<1>9. sealed' = IF sent THEN sealed \union {out.ciphertext} ELSE sealed
  BY <1>1, Zenon
<1>10. \A g \in requests : (g \in net \/ New(p, g)) /\ (g \in net \/ (sent /\ g = f))
  BY <1>7, <1>9, Zenon DEF Sending, New
<1> HIDE DEF requests
<1>11. /\ Turns(p, a, requests)
       /\ \/ cut = 2 /\ app'[p] = a /\ status'[p] = "up"
          \/ cut # 2 /\ Gone(p) /\ status'[p] = "off"
  BY <1>1, HandledFacts, Zenon
<1>12. Saves(p, h, out.ratchet)
  BY <1>1, <1>4, <1>8, PersistFacts, Zenon
<1>13. status'[p] \in Statuses /\ status'[p] # "protocol"
  BY <1>11, Zenon DEF Statuses
<1>14. sealed \subseteq sealed' /\ \A ct \in sealed' : ct \in sealed \/ AuthorOK(p, ct)
  BY <1>4, <1>9, Zenon
<1>15. Frame(p)
  BY <1>1, <1>2, <1>5, <1>6, <1>10, <1>11, <1>12, <1>13, <1>14, MakesFrame, Zenon
<1>16. \A g \in net' : g \in net \/ (sent /\ g.header # None /\ g.ciphertext = out.ciphertext)
  BY <1>7, <1>10, <1>11, Zenon DEF Turns
<1>17. (Gone(p) /\ ~h) \/ (sent /\ Now(p, out.ratchet, app[p].pending, app[p].started))
  BY <1>1, <1>5, <1>8, <1>11, Zenon DEF Now
<1>18. OneChat
  BY <1>10, <1>11, Zenon DEF Turns, OneChat
<1> QED BY <1>1, <1>4, <1>6, <1>8, <1>9, <1>12, <1>15, <1>16, <1>17, <1>18, Zenon DEF Says, r

Reads(e) ==
    /\ Frame("R") /\ UNCHANGED <<secrets, sealed>>
    /\ ChatOK(e) /\ e.to = Me("R") /\ SessionOf("R") # None /\ net' \subseteq net \ {e}
    /\ \E out : \E saved \in BOOLEAN :
          /\ Opened(SessionOf("R"), e.ciphertext, out) /\ Saves("R", saved, out.ratchet)
          /\ \/ Gone("R")
             \/ saved /\ Now("R", out.ratchet, app["R"].pending, app["R"].started)

\* A chat message that a process can open is one of the initiator to the responder.
LEMMA ChatOpens ==
    ASSUME StateInv, NEW p \in Parties, NEW e \in net, Arrived(p, e), Accepts(p, e),
           e.marker = OtherByte, NEW out, out = SessionDecrypt(SessionOf(p), e)
    PROVE  /\ ChatOK(e) /\ SessionOf(p) # None /\ ErrorOK(out.error)
           /\ out.error = "none" => /\ p = "R" /\ Opened(SessionOf(p), e.ciphertext, out)
                                    /\ ByInitiator(e.ciphertext)
<1> DEFINE r == SessionOf(p)
<1>1. EnvOK(e) /\ e.to = Me(p) /\ e.to[1] = p
  BY ArrivedFacts, Zenon
<1>2. ChatOK(e)
  BY <1>1 DEF EnvOK, SyncOK, Sync, BundleReq, Bundle, Prekey, RatchetPub, GroupKey, OtherByte
<1>3. r # None /\ SessOK(p, r)
  <2>1. app[p].session # None \/ disk[p] # None
    BY DEF Accepts, BundleReq, Bundle, Prekey, RatchetPub, GroupKey, OtherByte
  <2> QED BY <2>1, Resumes, Zenon
<1> HIDE DEF r
<1>4. ErrorOK(out.error)
  BY DecryptResults, Zenon DEF SessionDecrypt
<1>5. ASSUME out.error = "none"
      PROVE  p = "R" /\ Opened(r, e.ciphertext, out) /\ ByInitiator(e.ciphertext)
  <2>1. p = "R"
    <3>1. SUFFICES ASSUME p = "I" PROVE FALSE
      BY PartyFacts, Zenon
    <3>2. IsInitiator(r)
      BY <1>3, <3>1, Zenon DEF SessOK
    <3>3. e.from[1] # "I"
      BY <1>1, <3>1, Zenon DEF EnvOK
    <3>4. ByResponder(e.ciphertext) /\ e.header = e.ciphertext.aad
      BY <1>2, <3>3, Zenon DEF ChatOK, AuthorOK
    <3> QED BY <1>5, <3>2, <3>4, InitiatorRefuses, Zenon DEF r
  <2>2. IsResponder(r)
    BY <1>3, <2>1, Zenon DEF SessOK
  <2>3. ByInitiator(e.ciphertext) /\ e.header = e.ciphertext.aad
    <3>1. e.from[1] = "I"
      BY <1>1, <2>1, PartyFacts, Zenon DEF EnvOK, Envelopes
    <3> QED BY <1>2, <3>1, Zenon DEF ChatOK, AuthorOK
  <2> QED BY <1>5, <2>1, <2>2, <2>3, ResponderOpens, Zenon DEF r
<1> QED BY <1>2, <1>3, <1>4, <1>5, Zenon DEF r

LEMMA OnChatDoes ==
    ASSUME StateInv, NEW p \in Parties, NEW e \in net, NEW cut \in 0..3, OnChat(p, e, cut),
           UNCHANGED setting
    PROVE  Stopped(p) \/ (p = "R" /\ Reads(e))
<1> DEFINE r   == SessionOf(p)
           out == SessionDecrypt(r, e)
           k   == Known(p, e)
           a   == [k EXCEPT !.session = out.ratchet]
           h   == cut >= 1
<1>1. /\ Arrived(p, e) /\ Accepts(p, e) /\ e.marker = OtherByte
      /\ UNCHANGED <<run, secrets, typed, sealed, mishaps>> /\ Notes(p)
  BY NothingNoted, Zenon DEF OnChat
<1>2. /\ e.to = Me(p) /\ status[p] = "up" /\ AppOK(p, k) /\ k.peer # None
      /\ k.pending = app[p].pending /\ k.started = app[p].started
  BY <1>1, ArrivedFacts, Zenon
<1>3. /\ ChatOK(e) /\ r # None /\ ErrorOK(out.error)
      /\ out.error = "none" => p = "R" /\ Opened(r, e.ciphertext, out)
  BY <1>1, ChatOpens, Zenon
<1>5. Rest(e) = net \ {e}
  BY Zenon DEF Rest
<1> HIDE DEF r, k
<1>7. CASE out.error # "none"
  <2>1. Ends(p, out.error, Rest(e)) /\ disk' = disk
    BY <1>7, Zenon DEF OnChat, r
  <2>2. out.error \in Statuses /\ out.error # "up" /\ out.error # "protocol"
    BY <1>3, <1>7, Zenon DEF ErrorOK, Statuses
  <2> HIDE DEF out
  <2>3. Stopped(p)
    BY <1>1, <1>2, <1>5, <2>1, <2>2, StopsFacts, Zenon DEF Quiet
  <2> QED BY <2>3, Zenon
<1>8. CASE out.error = "none"
  <2>1. Persist(p, h, out.ratchet) /\ Handled(p, "chat", cut, 3, a, Rest(e))
    BY <1>8, Zenon DEF OnChat, r, k
  <2>2. p = "R" /\ Opened(r, e.ciphertext, out)
    BY <1>3, <1>8, Zenon
  <2> HIDE DEF out
  <2>6. out.ratchet # None /\ SessOK(p, out.ratchet)
    <3>1. IsJoined(out.ratchet)
      BY <2>2, Zenon DEF Opened
    <3>2. IsResponder(out.ratchet)
      BY <3>1, Zenon DEF IsResponder
    <3> QED BY <2>2, <3>2, SessionTypes, Zenon DEF SessOK
  <2>7. /\ AppOK(p, a) /\ a.peer # None /\ a.session = out.ratchet
        /\ a.pending = app[p].pending /\ a.started = app[p].started
    BY <1>2, <2>6, SetSession
  <2>8. h \in BOOLEAN /\ (cut = 3 => h)
    OBVIOUS
  <2> HIDE DEF a, h
  <2>9. /\ Turns(p, a, Rest(e))
        /\ \/ cut = 3 /\ app'[p] = a /\ status'[p] = "up"
           \/ cut # 3 /\ Gone(p) /\ status'[p] = "off"
    <3> DEFINE last == 3
    <3>1. last \in Nat /\ Handled(p, "chat", cut, last, a, Rest(e))
      BY <2>1, Zenon
    <3> HIDE DEF last
    <3>2. /\ Turns(p, a, Rest(e))
          /\ \/ cut = last /\ app'[p] = a /\ status'[p] = "up"
             \/ cut # last /\ Gone(p) /\ status'[p] = "off"
      <4>1. status[p] = "up"
        BY <1>2, Zenon
      <4> QED BY <4>1, <3>1, HandledFacts, Zenon
    <3> QED BY <3>2, Zenon DEF last
  <2>10. Saves(p, h, out.ratchet)
    BY <2>1, <2>6, <2>8, PersistFacts, Zenon
  <2>11. /\ secrets' \in Nat /\ typed' \in [Parties -> Nat] /\ net' \subseteq net \ {e}
         /\ status'[p] \in Statuses /\ status'[p] # "protocol"
    BY <1>1, <1>5, <2>9, Zenon DEF StateInv, Statuses, Turns
  <2>12. Frame(p)
    BY <1>1, <1>2, <1>5, <2>7, <2>9, <2>10, <2>11, MakesFrame, Zenon
  <2>13. Gone(p) \/ (h /\ Now(p, out.ratchet, app[p].pending, app[p].started))
    BY <2>7, <2>8, <2>9, Zenon DEF Now
  <2>14. Reads(e)
    BY <1>1, <1>2, <1>3, <2>2, <2>8, <2>10, <2>11, <2>12, <2>13, Zenon DEF Reads, r
  <2> QED BY <2>2, <2>14, Zenon
<1> QED BY <1>7, <1>8, Zenon

(* The ratchet key of the responder: the session and the greeting *)

GreetsWith(e, ct, r, saved, sent) ==
    /\ \E text \in Ids : ct = ISealed(app["I"].pending, e.body, 0, text)
    /\ r \in {InitiatorAt(app["I"].pending, e.body, 0), InitiatorAt(app["I"].pending, e.body, 1)}
    /\ Saves("I", saved, r) /\ (sent => saved)
    /\ sent => r = InitiatorAt(app["I"].pending, e.body, 1) \/ <<"unsaved", Me("I")>> \in mishaps'
    /\ sealed' = IF sent THEN sealed \union {ct} ELSE sealed
    /\ \A f \in net' : \/ f \in net \ {e}
                       \/ saved /\ f.to = e.from /\ Sync(f, GroupKey)
                       \/ sent /\ f.header # None /\ f.ciphertext = ct
    /\ \/ Gone("I")
       \/ sent /\ Now("I", InitiatorAt(app["I"].pending, e.body, 1), None, app["I"].started)

Greets(e) ==
    /\ Frame("I") /\ UNCHANGED secrets /\ OneChat
    /\ Sync(e, RatchetPub) \/ (e.header # None /\ <<"misread", Me("I")>> \in mishaps')
    /\ e.marker = RatchetPub /\ e.to = Me("I") /\ e.body \in ResponderKeys /\ app["I"].pending \in Secrets
    /\ \E saved \in BOOLEAN, sent \in BOOLEAN : \E ct, r : GreetsWith(e, ct, r, saved, sent)

\* The established session and its greeting.
Greeted(s, public, text, r, out) ==
    /\ r = InitiatorAt(s, public, 0) /\ out.ratchet = InitiatorAt(s, public, 1)
    /\ out.ciphertext = ISealed(s, public, 0, text) /\ out.header = out.ciphertext.aad
    /\ AuthorOK("I", out.ciphertext)
    /\ SessOK("I", r) /\ r # None /\ SessOK("I", out.ratchet) /\ out.ratchet # None

LEMMA GreetingFacts ==
    ASSUME NEW s \in Secrets, NEW public \in ResponderKeys, NEW text \in Ids,
           NEW r, r = InitiatorSession("I", s, public)
    PROVE  Greeted(s, public, text, r, Encrypt(r, text))
<1> DEFINE out == Encrypt(r, text)
<1>1. r = InitiatorAt(s, public, 0) /\ 0 \in Nat
  BY EstablishedSession, Zenon
<1>2. IsInitiator(r) /\ r # None /\ SecretOf(r) = s /\ Public(r) = public /\ Sent(r) = 0
  BY <1>1, InitiatorParts, Zenon
<1>3. /\ IsInitiator(out.ratchet)
      /\ SecretOf(out.ratchet) = SecretOf(r) /\ Public(out.ratchet) = Public(r)
      /\ Sent(out.ratchet) = Sent(r) + 1
      /\ out.ciphertext = ISealed(SecretOf(r), Public(r), Sent(r), text)
      /\ out.header = out.ciphertext.aad
  BY <1>2, InitiatorSeals, Zenon
<1> HIDE DEF out
<1>4. Sent(r) + 1 = 1
  BY <1>2
<1>5. out.ratchet = InitiatorAt(s, public, 1)
  BY <1>2, <1>3, <1>4, Zenon DEF IsInitiator
<1>6. out.ciphertext = ISealed(s, public, 0, text)
  BY <1>2, <1>3, Zenon
<1>7. ByInitiator(out.ciphertext)
  BY <1>1, <1>6, InitiatorMessage, Zenon
<1>8. out.ratchet # None
  BY <1>3, SessionTypes, Zenon
<1>9. Greeted(s, public, text, r, out)
  BY <1>1, <1>2, <1>3, <1>5, <1>6, <1>7, <1>8, Zenon DEF AuthorOK, SessOK, Greeted
<1> QED BY <1>9, Zenon DEF out

LEMMA OnRatchetPubDoes ==
    ASSUME StateInv, NEW p \in Parties, NEW e \in net, NEW cut \in 0..4, NEW byte \in setting.bytes,
           NEW saved \in BOOLEAN, OnRatchetPub(p, e, cut, byte, saved), UNCHANGED setting
    PROVE  p = "I" /\ Greets(e)
<1> DEFINE s        == app[p].pending
           ratchet  == Establish(p, e.body)
           text     == <<p, typed[p] + 1>>
           out      == Encrypt(ratchet, text)
           key      == SyncEnvelope(p, e.from, GroupKey, SenderKey(s))
           greeting == ChatEnvelope(p, e.from, byte, out)
           again    == cut = 4 /\ saved
           row      == LastSaved(again, ratchet, out.ratchet)
           k        == Known(p, e)
           a        == [k EXCEPT !.pending = None, !.session = out.ratchet, !.sender = SenderKey(s)]
           h        == cut >= 1
           sent     == cut >= 3
           requests == Rest(e) \union (IF cut >= 2 THEN Sending({key}) ELSE {})
                               \union (IF sent THEN Sending({greeting}) ELSE {})
<1>1. /\ Arrived(p, e) /\ Accepts(p, e) /\ e.marker = RatchetPub
      /\ Persist(p, h, row)
      /\ typed' = [typed EXCEPT ![p] = IF cut >= 3 THEN @ + 1 ELSE @]
      /\ sealed' = sealed \union (IF sent THEN {out.ciphertext} ELSE {})
      /\ mishaps' = mishaps \union Misread(p, e) \union Unsaved(p, sent, again)
      /\ Handled(p, "ratchet_pub", cut, 4, a, requests)
      /\ UNCHANGED <<run, secrets>>
  BY Zenon DEF OnRatchetPub
<1>2. p = "I" /\ e.body # None /\ s # None
  BY <1>1 DEF Accepts, BundleReq, Bundle, Prekey, RatchetPub, GroupKey, OtherByte
<1>3. /\ EnvOK(e) /\ e.to = Me(p) /\ status[p] = "up" /\ e.from \in Ids /\ e.from[1] # p
      /\ AppOK(p, k) /\ k.peer # None /\ k.started = app[p].started
  BY <1>1, ArrivedFacts, Zenon
<1>4. (Sync(e, RatchetPub) \/ e.header # None) /\ e.body \in ResponderKeys
  <2>1. CASE SyncOK(e)
    BY <1>1, <2>1 DEF SyncOK, Sync, BundleReq, Bundle, Prekey, RatchetPub, GroupKey
  <2>2. CASE ChatOK(e)
    <3>1. e.from[1] = "R" /\ e.header # None /\ e.body = <<"R", 0>>
      BY <1>2, <1>3, <2>2, PartyFacts, Zenon DEF ChatOK
    <3> QED BY <3>1 DEF ResponderKeys
  <2> QED BY <1>3, <2>1, <2>2, Zenon DEF EnvOK
<1>5. s \in Secrets /\ SenderKey(s) \in SenderKeys
  <2>1. app[p] \in Apps
    BY Zenon DEF StateInv
  <2>2. s \in Secrets
    BY <1>2, <2>1, Zenon DEF Apps, Opt
  <2> QED BY <2>2, Zenon DEF SenderKey, SenderKeys, Secrets
<1>6. typed' \in [Parties -> Nat] /\ secrets' \in Nat /\ text \in Ids
  BY <1>1 DEF StateInv, Ids
<1>7. ratchet = InitiatorSession("I", s, e.body)
  BY <1>2, Zenon DEF Establish
<1> HIDE DEF s, ratchet, text, k
<1>8. /\ ratchet = InitiatorAt(s, e.body, 0) /\ out.ratchet = InitiatorAt(s, e.body, 1)
      /\ out.ciphertext = ISealed(s, e.body, 0, text) /\ out.header = out.ciphertext.aad
      /\ AuthorOK(p, out.ciphertext)
      /\ SessOK(p, ratchet) /\ ratchet # None /\ SessOK(p, out.ratchet) /\ out.ratchet # None
  <2>1. Greeted(s, e.body, text, ratchet, out)
    BY <1>4, <1>5, <1>6, <1>7, GreetingFacts, Zenon
  <2> HIDE DEF out
  <2> QED BY <1>2, <2>1, Zenon DEF Greeted
<1> HIDE DEF out
<1>9. /\ row \in {ratchet, out.ratchet} /\ (again => row = out.ratchet)
      /\ row # None /\ SessOK(p, row)
  BY <1>8, Zenon DEF LastSaved
<1> HIDE DEF row
<1>10. /\ AppOK(p, a) /\ a.peer # None /\ a.session = out.ratchet
       /\ a.pending = None /\ a.started = app[p].started
  <2>1. out.ratchet \in Ratchets
    BY <1>8, SessionTypes, Zenon DEF SessOK
  <2> QED BY <1>3, <1>5, <1>8, <2>1, Zenon DEF AppOK, Apps, Opt
<1> HIDE DEF a
<1>12. /\ EnvOK(greeting) /\ greeting.from = Me(p) /\ Begins(greeting)
       /\ greeting.header # None /\ greeting.ciphertext = out.ciphertext
  <2>1. greeting = ChatEnvelope(p, e.from, byte, out)
    BY Zenon
  <2>2. /\ e.from \in Ids /\ e.from[1] # p
        /\ out.header = out.ciphertext.aad /\ AuthorOK(p, out.ciphertext)
    BY <1>3, <1>8, Zenon
  <2> HIDE DEF greeting
  <2> QED BY <2>1, <2>2, ChatFacts
<1> HIDE DEF greeting
<1>13. EnvOK(key) /\ key.from = Me(p) /\ key.to = e.from /\ Sync(key, GroupKey)
  <2>1. /\ key \in Envelopes /\ Sync(key, GroupKey) /\ key.from = Me(p) /\ key.from[1] = p
        /\ key.to = e.from /\ key.body = SenderKey(s) /\ key.from[1] # key.to[1]
    <3>1. GroupKey \in 0..5 /\ SenderKey(s) \in Opt(Secrets \union Ids \union SenderKeys)
      BY <1>5 DEF GroupKey, Opt
    <3>2. Me(p) \in Ids /\ Me(p)[1] = p
      BY Names, Zenon
    <3> QED BY <1>3, <3>1, <3>2, Zenon DEF SyncEnvelope, Envelopes, Opt, Sync
  <2> QED BY <1>2, <1>5, <2>1, Zenon DEF EnvOK, SyncOK
<1> HIDE DEF key
<1>14. h \in BOOLEAN /\ sent \in BOOLEAN /\ (sent => h) /\ (cut = 4 => sent) /\ (cut >= 2 => h)
  OBVIOUS
<1> HIDE DEF h, sent, again
<1>11. /\ Notes(p) /\ (e.header # None => <<"misread", Me(p)>> \in mishaps')
       /\ sent => row = out.ratchet \/ <<"unsaved", Me(p)>> \in mishaps'
  <2>1. Misread(p, e) \union Unsaved(p, sent, again) \subseteq {"misread", "unsaved"} \X {Me(p)}
    BY NoteFacts, Zenon
  <2>2. /\ e.header # None => <<"misread", Me(p)>> \in Misread(p, e)
        /\ sent /\ ~again => <<"unsaved", Me(p)>> \in Unsaved(p, sent, again)
    BY NoteFacts, Zenon
  <2>3. Notes(p)
    BY <1>1, <2>1, Zenon DEF Notes
  <2> QED BY <1>1, <1>9, <2>2, <2>3, Zenon
<1>15. sealed' = IF sent THEN sealed \union {out.ciphertext} ELSE sealed
  BY <1>1, Zenon
<1>16. \A g \in requests :
          /\ g \in net \/ New(p, g)
          /\ g \in net \ {e} \/ (h /\ g = key) \/ (sent /\ g = greeting)
  BY <1>12, <1>13, <1>14, <1>15, Zenon DEF Sending, New, Rest, Sync
<1> HIDE DEF requests
<1>17. /\ Turns(p, a, requests)
       /\ \/ cut = 4 /\ app'[p] = a /\ status'[p] = "up"
          \/ cut # 4 /\ Gone(p) /\ status'[p] = "off"
  <2> DEFINE last == 4
  <2>1. last \in Nat /\ Handled(p, "ratchet_pub", cut, last, a, requests)
    BY <1>1, Zenon
  <2>2. status[p] = "up"
    BY <1>3, Zenon
  <2> HIDE DEF last
  <2>3. /\ Turns(p, a, requests)
        /\ \/ cut = last /\ app'[p] = a /\ status'[p] = "up"
           \/ cut # last /\ Gone(p) /\ status'[p] = "off"
    BY <2>1, <2>2, HandledFacts, Zenon
  <2> QED BY <2>3, Zenon DEF last
<1>18. Saves(p, h, row)
  BY <1>1, <1>9, <1>14, PersistFacts, Zenon
<1>19. status'[p] \in Statuses /\ status'[p] # "protocol"
  BY <1>17, Zenon DEF Statuses
<1>20. sealed \subseteq sealed' /\ \A ct \in sealed' : ct \in sealed \/ AuthorOK(p, ct)
  BY <1>8, <1>15, Zenon
<1>21. Frame(p)
  BY <1>1, <1>3, <1>6, <1>10, <1>11, <1>16, <1>17, <1>18, <1>19, <1>20, MakesFrame, Zenon
<1>22. \A f \in net' : \/ f \in net \ {e}
                       \/ h /\ f.to = e.from /\ Sync(f, GroupKey)
                       \/ sent /\ f.header # None /\ f.ciphertext = out.ciphertext
  BY <1>12, <1>13, <1>16, <1>17, Zenon DEF Turns
<1>23. Gone(p) \/ (sent /\ Now(p, out.ratchet, None, app[p].started))
  BY <1>1, <1>10, <1>14, <1>17, Zenon DEF Now
<1>24. \E t \in Ids : out.ciphertext = ISealed(s, e.body, 0, t)
  BY <1>6, <1>8, Zenon
<1>25. row \in {InitiatorAt(s, e.body, 0), InitiatorAt(s, e.body, 1)}
  BY <1>8, <1>9, Zenon
<1>26. GreetsWith(e, out.ciphertext, row, h, sent)
  BY <1>2, <1>8, <1>11, <1>14, <1>15, <1>18, <1>22, <1>23, <1>24, <1>25, Zenon DEF GreetsWith, s
<1>27. OneChat
  BY <1>13, <1>16, <1>17, Zenon DEF Turns, OneChat, Sync
<1> QED BY <1>1, <1>2, <1>3, <1>4, <1>5, <1>11, <1>14, <1>21, <1>26, <1>27, Zenon DEF Greets, s
-----------------------------------------------------------------------------
(* All steps *)

Starts(p) ==
    /\ status[p] # "up" /\ UNCHANGED <<setting, disk, net, secrets, typed, sealed, mishaps>>
    /\ status' = [status EXCEPT ![p] = "up"] /\ run' = [run EXCEPT ![p] = run[p] + 1]
    /\ app' = [app EXCEPT ![p] = app'[p]] /\ AppOK(p, app'[p]) /\ (p = "I" => app'[p].peer # None)
    /\ Now(p, IF p = "I" THEN Resume(p) ELSE None, None, FALSE)

\* Nothing happens, or a request is lost.
Idle ==
    /\ UNCHANGED <<setting, status, run, app, disk, secrets, typed, sealed>> /\ net' \subseteq net
    /\ mishaps \subseteq mishaps' /\ mishaps' \subseteq mishaps \union ({"lost"} \X Ids)

HandlesRequest(e) ==
    AnswersBundle(e) \/ SendsPrekey(e) \/ TakesPrekey(e) \/ Greets(e) \/ Reads(e)
Step ==
    \/ Idle
    \/ \E p \in Parties : Starts(p) \/ Stopped(p) \/ Passes(p) \/ Says(p)
    \/ AsksBundle
    \/ \E e \in net : HandlesRequest(e)

LEMMA StartDoes ==
    ASSUME StateInv, NEW p \in Parties, Start(p), UNCHANGED setting
    PROVE  Starts(p)
<1> DEFINE a == IF p = "I" THEN [NewApp EXCEPT !.peer = Me("R"), !.session = Resume(p)] ELSE NewApp
<1>1. /\ status[p] # "up" /\ status' = [status EXCEPT ![p] = "up"]
      /\ run' = [run EXCEPT ![p] = run[p] + 1] /\ app' = [app EXCEPT ![p] = a]
      /\ UNCHANGED <<disk, net, secrets, typed, sealed, mishaps>>
  BY Zenon DEF Start
<1>2. /\ AppOK(p, a) /\ (p = "I" => a.peer # None) /\ a.pending = None /\ a.started = FALSE
      /\ a.session = IF p = "I" THEN Resume(p) ELSE None
  <2>1. CASE p = "I"
    <3>1. Me("R") \in Ids /\ Me("R")[1] = "R" /\ Me("R") # None
      BY PartyFacts, Names, Zenon
    <3>2. SessOK(p, Resume(p))
      BY Resumes, Zenon
    <3>3. Resume(p) \in Opt(Ratchets)
      BY <2>1, <3>2, SessionTypes, Zenon DEF SessOK, Opt
    <3> QED BY <2>1, <3>1, <3>2, <3>3, Zenon DEF AppOK, NewApp, Apps, Opt, PeerOK
  <2>2. CASE p # "I"
    BY <2>2, NewAppFacts, Zenon
  <2> QED BY <2>1, <2>2, Zenon
<1> HIDE DEF a
<1>3. app \in [Parties -> Apps] /\ status \in [Parties -> Statuses]
  BY Zenon DEF StateInv
<1>4. app'[p] = a /\ status'[p] = "up" /\ app' = [app EXCEPT ![p] = app'[p]]
  BY <1>1, <1>3, Zenon
<1> QED BY <1>1, <1>2, <1>4, Zenon DEF Starts, Now

LEMMA StartsKeeps ==
    ASSUME StateInv, NEW p \in Parties, Starts(p)
    PROVE  /\ StateInv' /\ run' \in [Parties -> Nat]
           /\ \A q \in Parties \ {p} : app'[q] = app[q] /\ status'[q] = status[q] /\ run'[q] = run[q]
<1>1. /\ app' \in [Parties -> Apps] /\ status' \in [Parties -> Statuses] /\ run' \in [Parties -> Nat]
      /\ \A q \in Parties \ {p} : app'[q] = app[q] /\ status'[q] = status[q] /\ run'[q] = run[q]
      /\ run'[p] = run[p] + 1 /\ run[p] \in Nat
  BY DEF StateInv, Starts, AppOK, Statuses
<1>2. \A q \in Parties : AppOK(q, app'[q]) /\ RowOK(q, disk'[q])
  BY <1>1, Zenon DEF StateInv, Starts
<1>3. status'["I"] = "up" => app'["I"].peer # None
  BY <1>1, PartyFacts, Zenon DEF StateInv, Starts
<1>4. ASSUME NEW f \in net' PROVE EnvOK(f) /\ Live(f)'
  <2>1. /\ EnvOK(f) /\ Alive(f.to) /\ f.from[2] <= run[f.from[1]]
        /\ f.header # None => Begins(f) /\ f.ciphertext \in sealed
    BY <1>4, Zenon DEF StateInv, Starts, Live
  <2>2. /\ f.to \in Ids /\ f.to[1] \in Parties
        /\ f.from \in Ids /\ f.from[1] \in Parties /\ f.from[2] \in Nat
    BY <2>1, PartyFacts, Zenon DEF EnvOK, Envelopes
  <2>3. status'[f.to[1]] = "up" /\ run'[f.to[1]] = f.to[2]
    BY <1>1, <2>1, <2>2, Zenon DEF Alive, Starts
  <2>4. f.from[2] <= run'[f.from[1]]
    <3>1. run[f.from[1]] \in Nat
      BY <2>2, Zenon DEF StateInv
    <3> QED BY <1>1, <2>1, <2>2, <3>1
  <2> QED BY <2>1, <2>3, <2>4, Zenon DEF Live, Alive, Starts, Begins
<1> QED BY <1>1, <1>2, <1>3, <1>4, Zenon DEF StateInv, Starts

LEMMA Steps ==
    ASSUME StateInv, [Next]_vars
    PROVE  Step
<1>1. CASE UNCHANGED vars
  BY <1>1, Zenon DEF vars, Step, Idle
<1>2. CASE Next
  <2>1. UNCHANGED setting
    BY <1>2, Zenon DEF Next
  <2>2. ASSUME NEW e \in net, Lose(e) PROVE Idle
    <3>1. e.from \in Ids /\ e.to \in Ids
      BY Zenon DEF StateInv, EnvOK, Envelopes
    <3>2. mishaps \subseteq mishaps' /\ mishaps' \subseteq mishaps \union ({"lost"} \X Ids)
      <4>1. \A id \in Ids : <<"lost", id>> \in {"lost"} \X Ids
        OBVIOUS
      <4>2. \/ mishaps' = mishaps
            \/ \E id \in Ids : mishaps' = mishaps \union {<<"lost", id>>}
        BY <2>2, <3>1 DEF Lose
      <4> QED BY <4>1, <4>2, Zenon
    <3> QED BY <2>1, <2>2, <3>2, Zenon DEF Lose, Idle
  <2>3. ASSUME NEW p \in Parties,
               \/ Start(p) \/ Quit(p) \/ PeerConnected(p) \/ CommandFails(p)
               \/ \E cut \in 0..2, byte \in setting.bytes, saved \in BOOLEAN :
                     Command(p, cut, byte, saved)
        PROVE  Step
    BY <2>1, <2>3, StartDoes, QuitStops, PeerConnectedDoes, CommandFailsStops, CommandDoes, Zenon
    DEF Step
  <2>4. ASSUME NEW p \in Parties, NEW e \in net, Direct(p, e)
        PROVE  Step
    BY <2>1, <2>4, DirectFailsStops, OnBundleReqDoes, OnBundleDoes, OnPrekeyDoes, OnRatchetPubDoes,
       OnGroupKeyDoes, OnChatDoes, Zenon DEF Direct, Step, HandlesRequest
  <2> QED BY <1>2, <2>2, <2>3, <2>4, Zenon DEF Next, Step
<1> QED BY <1>1, <1>2, Zenon

LEMMA StepKeeps ==
    ASSUME StateInv, Step
    PROVE  StateInv'
<1>1. CASE Idle
  BY <1>1, Zenon DEF Idle, StateInv, Live, Alive, Begins
<1>2. CASE \E p \in Parties : Starts(p)
  BY <1>2, StartsKeeps, Zenon
<1>3. CASE \E p \in Parties : Frame(p)
  BY <1>3, FrameKeeps, Zenon
<1> QED BY <1>1, <1>2, <1>3, PartyFacts, Zenon
        DEF Step, HandlesRequest, Stopped, Passes, Says, AsksBundle, AnswersBundle, SendsPrekey,
            TakesPrekey, Greets, Reads

LEMMA InitState == Init => StateInv
<1> SUFFICES ASSUME Init PROVE StateInv
  BY Zenon
<1>1. \A p \in Parties : app[p] = NewApp /\ disk[p] = None /\ status[p] = "off"
  BY Zenon DEF Init
<1>2. NewApp \in Apps /\ \A p \in Parties : AppOK(p, app[p]) /\ RowOK(p, disk[p])
  BY <1>1, NewAppFacts, Zenon DEF RowOK, AppOK, Parties
<1>3. app \in [Parties -> Apps] /\ disk \in [Parties -> Opt(Snapshots)]
  BY <1>2, Zenon DEF Init, Opt
<1>4. status \in [Parties -> Statuses] /\ status["I"] # "up"
  BY <1>1, PartyFacts, Zenon DEF Init, Statuses
<1> QED BY <1>2, <1>3, <1>4, Zenon DEF Init, StateInv

LEMMA StateInvariant == Spec => []StateInv
<1>1. StateInv /\ [Next]_vars => StateInv'
  BY Steps, StepKeeps, Zenon
<1> QED BY <1>1, InitState, PTL DEF Spec

-----------------------------------------------------------------------------
(* What a step does to the sessions, in memory and saved *)

\* The steps of one process.
Acts(p) ==
    \/ Stopped(p) \/ Passes(p) \/ Says(p)
    \/ p = "I" /\ (AsksBundle \/ \E e \in net : SendsPrekey(e) \/ Greets(e))
    \/ p = "R" /\ \E e \in net : AnswersBundle(e) \/ TakesPrekey(e) \/ Reads(e)

LEMMA OneActs ==
    ASSUME StateInv, Step
    PROVE  Idle \/ \E p \in Parties : Starts(p) \/ (Frame(p) /\ Acts(p))
<1>1. ASSUME NEW p \in Parties, Acts(p) PROVE Frame(p)
  BY <1>1, Zenon DEF Acts, Stopped, Passes, Says, AsksBundle, SendsPrekey, Greets, AnswersBundle,
                     TakesPrekey, Reads
<1>2. Idle \/ \E p \in Parties : Starts(p) \/ Acts(p)
  BY PartyFacts, Zenon DEF Step, HandlesRequest, Acts
<1> QED BY <1>1, <1>2, Zenon

\* The answer that lets the initiator establish its session.
Answer(e) ==
    /\ Sync(e, RatchetPub) \/ (e.header # None /\ <<"misread", Me("I")>> \in mishaps')
    /\ e.marker = RatchetPub /\ e.to = Me("I") /\ status["I"] = "up"
    /\ e.body \in ResponderKeys /\ app["I"].pending \in Secrets

\* The sessions a party may come to hold.
Establishes(r) ==
    \E e \in net, n \in {0, 1} : Answer(e) /\ r = InitiatorAt(app["I"].pending, e.body, n)
Continues(r, next) ==
    r # None /\ SecretOf(next) = SecretOf(r) /\ Public(next) = Public(r)
NextSession(p, r) ==
    \/ p = "I" /\ (Establishes(r) \/ Continues(app["I"].session, r))
    \/ /\ p = "R"
       /\ \/ \E e \in net : e.body \in Secrets /\ r = Fresh(e.body)
          \/ app["R"].session # None /\ IsJoined(app["R"].session)
          \/ \E e \in net : e.header # None

Holds(p) ==
    /\ app'[p].session \in {app[p].session, None, Resume(p)} \/ NextSession(p, app'[p].session)
    /\ Resume(p)' = Resume(p) \/ NextSession(p, Resume(p)')
    /\ disk[p] # None => disk'[p] # None
    /\ app'[p].session # None => app[p].session # None \/ disk'[p] # None
    /\ status[p] = "up" /\ status'[p] = "up" /\ app[p].session # None => app'[p].session # None

\* SavedIsCurrent for one party.
Noted(p) == <<"unsaved", Me(p)>> \in mishaps
Current(p) == app[p].session # None /\ ~Noted(p) => Resume(p) = app[p].session

\* The session is the one before, or the one of the row, or gone.
LEMMA HeldFacts ==
    ASSUME StateInv, NEW p \in Parties, disk'[p] = disk[p],
           \/ app'[p].session = app[p].session /\ run'[p] = run[p] /\ mishaps \subseteq mishaps'
           \/ app'[p].session \in {None, Resume(p)} /\ (status[p] # "up" \/ status'[p] # "up")
    PROVE  Holds(p) /\ (Current(p) => Current(p)')
<1>1. Resume(p)' = Resume(p)
  BY Zenon DEF Resume, LoadSession
<1>2. Resume(p) = None <=> disk[p] = None
  BY Resumes, Zenon
<1> QED BY <1>1, <1>2, Zenon DEF Holds, Current, Noted, Me

\* A new session is saved, unless the process ends or the save fails.
LEMMA SavedFacts ==
    ASSUME NEW p \in Parties, NEW saved \in BOOLEAN, NEW r, NEW next, Saves(p, saved, r),
           saved => NextSession(p, r), NextSession(p, next), next # None, saved \/ app[p].session # None \/ Gone(p),
           Gone(p) \/ (app'[p].session = next /\ ((saved /\ r = next) \/ Noted(p)'))
    PROVE  Holds(p) /\ Current(p)'
<1>1. /\ Resume(p)' = IF saved THEN r ELSE Resume(p)
      /\ disk'[p] = None => disk[p] = None
  BY Zenon DEF Saves
<1>3. saved => disk'[p] # None
  BY Zenon DEF Saves
<1>2. Gone(p) => app'[p].session = None /\ status'[p] # "up"
  BY NewAppFacts, Zenon DEF Gone
<1> QED BY <1>1, <1>2, <1>3, Zenon DEF Holds, Current
LEMMA InitiatorHolds ==
    ASSUME StateInv, Frame("I"), Acts("I")
    PROVE  Holds("I") /\ (Current("I") => Current("I")')
<1> DEFINE p == "I"
<1>0. p \in Parties /\ p # "R" /\ NewApp.session = None
  BY PartyFacts, NewAppFacts, Zenon
<1>9. run'[p] = run[p] /\ mishaps \subseteq mishaps' /\ Me(p)' = Me(p)
  BY Zenon DEF Frame, Notes, Me
<1>1. CASE Stopped(p) \/ Passes(p) \/ AsksBundle \/ \E e \in net : SendsPrekey(e)
  <2>1. /\ disk'[p] = disk[p]
        /\ app'[p].session = app[p].session \/ (app'[p].session = None /\ status'[p] # "up")
    BY <1>0, <1>1, Zenon DEF Stopped, Passes, AsksBundle, SendsPrekey, Quiet, Gone, Same, Now
  <2> QED BY <1>0, <1>9, <2>1, HeldFacts, Zenon
<1>2. CASE Says(p)
  <2>1. PICK next, ct : \E sent \in BOOLEAN, saved \in BOOLEAN :
            /\ Seals(p, app[p].session, next, ct) /\ Saves(p, saved, next)
            /\ \/ Gone(p)
               \/ app'[p].session = next /\ (saved \/ Noted(p)')
    BY <1>2, <1>9, Zenon DEF Says, Now, Noted
  <2>2. PICK saved \in BOOLEAN :
            /\ Seals(p, app[p].session, next, ct) /\ Saves(p, saved, next)
            /\ \/ Gone(p)
               \/ app'[p].session = next /\ (saved \/ Noted(p)')
    BY <2>1, Zenon
  <2>3. NextSession(p, next)
    BY <1>0, <1>2, <2>2, Zenon DEF Seals, NextSession, Continues, Says
  <2>4. next # None /\ app[p].session # None
    BY <1>2, <2>2, SessionTypes, Zenon DEF Seals, IsResponder, Says
  <2> QED BY <1>0, <2>2, <2>3, <2>4, SavedFacts, Zenon
<1>3. CASE \E e \in net : Greets(e)
  <2>1. PICK e \in net : Greets(e)
    BY <1>3, Zenon
  <2> DEFINE s == app["I"].pending
             next == InitiatorAt(s, e.body, 1)
  <2>2. Answer(e)
    BY <2>1, Zenon DEF Greets, Answer, Frame
  <2>3. PICK saved \in BOOLEAN, sent \in BOOLEAN : \E ct, r : GreetsWith(e, ct, r, saved, sent)
    BY <2>1, Zenon DEF Greets
  <2>4. PICK ct, r : GreetsWith(e, ct, r, saved, sent)
    BY <2>3, Zenon
  <2>5. /\ r \in {InitiatorAt(s, e.body, 0), next} /\ Saves("I", saved, r)
        /\ \/ Gone("I")
           \/ app'["I"].session = next /\ saved /\ (r = next \/ Noted(p)')
    BY <1>9, <2>4, Zenon DEF GreetsWith, Now, Noted
  <2>6. NextSession(p, r) /\ NextSession(p, next)
    BY <1>0, <2>2, <2>5, Zenon DEF NextSession, Establishes
  <2>7. next # None
    BY <2>2, InitiatorParts DEF Answer
  <2> HIDE DEF next
  <2> QED BY <1>0, <2>5, <2>6, <2>7, SavedFacts, Zenon
<1> QED BY <1>0, <1>1, <1>2, <1>3, Zenon DEF Acts

LEMMA ResponderHolds ==
    ASSUME StateInv, Frame("R"), Acts("R")
    PROVE  Holds("R") /\ (Current("R") => Current("R")')
<1> DEFINE p == "R"
<1>0. p \in Parties /\ p # "I" /\ NewApp.session = None
  BY PartyFacts, NewAppFacts, Zenon
<1>9. run'[p] = run[p] /\ mishaps \subseteq mishaps' /\ Me(p)' = Me(p)
  BY Zenon DEF Frame, Notes, Me
<1>1. CASE Stopped(p) \/ Passes(p) \/ \E e \in net : AnswersBundle(e)
  <2>1. /\ disk'[p] = disk[p]
        /\ app'[p].session = app[p].session \/ (app'[p].session = None /\ status'[p] # "up")
    BY <1>0, <1>1, Zenon DEF Stopped, Passes, AnswersBundle, Quiet, Gone, Same, Now
  <2> QED BY <1>0, <1>9, <2>1, HeldFacts, Zenon
<1>2. CASE Says(p)
  <2>1. PICK next, ct : \E sent \in BOOLEAN, saved \in BOOLEAN :
            /\ Seals(p, app[p].session, next, ct) /\ Saves(p, saved, next)
            /\ \/ Gone(p)
               \/ app'[p].session = next /\ (saved \/ Noted(p)')
    BY <1>2, <1>9, Zenon DEF Says, Now, Noted
  <2>2. PICK saved \in BOOLEAN :
            /\ Seals(p, app[p].session, next, ct) /\ Saves(p, saved, next)
            /\ \/ Gone(p)
               \/ app'[p].session = next /\ (saved \/ Noted(p)')
    BY <2>1, Zenon
  <2>3. NextSession(p, next)
    BY <1>0, <1>2, <2>2, Zenon DEF Seals, NextSession, Says
  <2>4. next # None /\ app[p].session # None
    BY <1>2, <2>2, SessionTypes, Zenon DEF Seals, IsResponder, Says
  <2> QED BY <1>0, <2>2, <2>3, <2>4, SavedFacts, Zenon
<1>3. CASE \E e \in net : TakesPrekey(e)
  <2>1. PICK e \in net : TakesPrekey(e)
    BY <1>3, Zenon
  <2>2. PICK saved \in BOOLEAN :
            /\ Saves("R", saved, Fresh(e.body))
            /\ Gone("R") \/ (saved /\ app'["R"].session = Fresh(e.body))
    BY <2>1, Zenon DEF TakesPrekey, Now
  <2>3. NextSession(p, Fresh(e.body))
    BY <1>0, <2>1, Zenon DEF TakesPrekey, NextSession
  <2>4. Fresh(e.body) # None
    BY <2>1, FreshParts, Zenon DEF TakesPrekey
  <2> QED BY <1>0, <2>2, <2>3, <2>4, SavedFacts, Zenon
<1>4. CASE \E e \in net : Reads(e)
  <2>1. PICK e \in net : Reads(e)
    BY <1>4, Zenon
  <2>2. PICK out : \E saved \in BOOLEAN :
            /\ Saves("R", saved, out.ratchet) /\ IsJoined(out.ratchet)
            /\ Gone("R") \/ (saved /\ app'["R"].session = out.ratchet)
    BY <2>1, Zenon DEF Reads, Now, Opened
  <2>3. NextSession(p, out.ratchet)
    BY <1>0, <2>1, Zenon DEF Reads, ChatOK, NextSession
  <2>4. out.ratchet # None
    BY <2>2, SessionTypes, Zenon DEF IsResponder
  <2> QED BY <1>0, <2>2, <2>3, <2>4, SavedFacts, Zenon
<1> QED BY <1>0, <1>1, <1>2, <1>3, <1>4, Zenon DEF Acts

LEMMA SessionSteps ==
    ASSUME StateInv, Step, NEW p \in Parties
    PROVE  Holds(p) /\ (Current(p) => Current(p)')
<1>1. CASE Idle
  <2>1. disk'[p] = disk[p] /\ app'[p] = app[p] /\ run'[p] = run[p] /\ mishaps \subseteq mishaps'
    BY <1>1, Zenon DEF Idle
  <2> QED BY <2>1, HeldFacts, Zenon
<1>2. ASSUME NEW q \in Parties, Starts(q) \/ (Frame(q) /\ q # p)
      PROVE  Holds(p) /\ (Current(p) => Current(p)')
  <2>1. /\ disk'[p] = disk[p]
        /\ \/ app'[p].session = app[p].session /\ run'[p] = run[p] /\ mishaps \subseteq mishaps'
           \/ app'[p].session \in {None, Resume(p)} /\ status[p] # "up"
    <3>1. CASE Starts(q)
      BY <3>1, Zenon DEF Starts, StateInv, Now
    <3>2. CASE Frame(q) /\ q # p
      <4>1. run'[p] = run[p] /\ mishaps \subseteq mishaps'
        BY <3>2, Zenon DEF Frame, Notes
      <4> QED BY <3>2, <4>1, OtherKept, Zenon
    <3> QED BY <1>2, <3>1, <3>2, Zenon
  <2> QED BY <2>1, HeldFacts, Zenon
<1>3. CASE Frame(p) /\ Acts(p)
  BY <1>3, PartyFacts, InitiatorHolds, ResponderHolds, Zenon
<1> QED BY <1>1, <1>2, <1>3, OneActs, Zenon

LEMMA SavedSteps ==
    ASSUME StateInv, SavedIsCurrent, Step
    PROVE  SavedIsCurrent'
<1>1. \A p \in Parties : Current(p)
  BY Zenon DEF SavedIsCurrent, Current, Noted
<1>2. \A p \in Parties : Current(p)'
  BY <1>1, SessionSteps, Zenon
<1> QED BY <1>2, Zenon DEF SavedIsCurrent, Current, Noted

\* The session a running process works with is the one it would resume, in
\* every field, unless a save failed in this run (ChatSession::persist,
\* session::resume).
THEOREM SessionsAreSaved == Spec => []SavedIsCurrent
<1>1. Init => SavedIsCurrent
  BY NewAppFacts, Zenon DEF Init, SavedIsCurrent
<1>2. ASSUME StateInv, SavedIsCurrent, [Next]_vars PROVE SavedIsCurrent'
  BY <1>2, Steps, SavedSteps, Zenon
<1> QED BY <1>1, <1>2, StateInvariant, PTL DEF Spec

=============================================================================
