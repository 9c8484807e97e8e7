---------------------------- MODULE PqxdhProofs ----------------------------
(***************************************************************************)
(* Proofs about Pqxdh, for any number of parties, keys, bundles and calls. *)
(*                                                                         *)
(* First the computation: the secrets of the two functions agree exactly   *)
(* if the responder used the private halves of the bundle's keys.  Then    *)
(* the invariant: what is recorded of the calls was computed from bundles  *)
(* that were issued and from prekeys that were held.                       *)
(***************************************************************************)
EXTENDS Pqxdh, SequenceTheorems, TLAPS

-----------------------------------------------------------------------------
(* One leg *)

\* A ciphertext opened with the private half of the key it was made for.
LEMMA LegAgrees ==
    ASSUME NEW k, NEW e, NEW r
    PROVE  LET leg == Encapsulate(e, PublicKey(k), r)
           IN Decapsulate(k, leg.ct, PublicKey(e)) = leg.secret
<1>1. /\ PublicKey(k).classical[2] = k.classical /\ PublicKey(e).classical[2] = e.classical
      /\ PublicKey(k).pq = EncapsulationKey(k.pq)
    BY Zenon DEF PublicKey, X25519Public
<1>2. {k.classical, e.classical} = {e.classical, k.classical}
    BY Zenon
<1> QED BY <1>1, <1>2, Zenon DEF Encapsulate, Decapsulate, DiffieHellman, KemCiphertext,
           KemDecapsulate

\* A leg that agrees was opened with the ML-KEM key it was made for.
LEMMA LegBinds ==
    ASSUME NEW k, NEW o, NEW e, NEW f, NEW r,
           Decapsulate(k, Encapsulate(e, PublicKey(o), r).ct, f)
               = Encapsulate(e, PublicKey(o), r).secret
    PROVE  k.pq = o.pq
<1> DEFINE ct == KemCiphertext(EncapsulationKey(o.pq), r)
<1>1. Encapsulate(e, PublicKey(o), r).ct = ct
    BY Zenon DEF Encapsulate, PublicKey
<1>2. KemDecapsulate(k.pq, ct) = KemSecret(EncapsulationKey(o.pq), r)
  <2>1. \A a, b, c, d : SharedSecret(a, b) = SharedSecret(c, d) => b = d
      BY Zenon DEF SharedSecret, Hkdf
  <2> QED BY <1>1, <2>1 DEF Decapsulate, Encapsulate, PublicKey
<1>3. \A x, y, z : <<"rejected", x, y>> # KemSecret(z, r)
    BY Zenon DEF KemSecret
<1>4. ct.to = EncapsulationKey(k.pq)
    BY <1>2, <1>3, Zenon DEF KemDecapsulate
<1> QED BY <1>4, Zenon DEF KemCiphertext, EncapsulationKey

\* The master secret depends on every leg, also on whether there is a fifth
\* (pqxdh_initiator, pqxdh_responder).
LEMMA MasterInjective ==
    ASSUME NEW a1, NEW a2, NEW a3, NEW a4, NEW b1, NEW b2, NEW b3, NEW b4,
           NEW S, NEW x \in Seq(S), NEW y \in Seq(S), Len(x) <= 1, Len(y) <= 1,
           MasterSecret(a1, a2, a3, a4, x) = MasterSecret(b1, b2, b3, b4, y)
    PROVE  a1 = b1 /\ a2 = b2 /\ a3 = b3 /\ a4 = b4 /\ x = y
<1> DEFINE T == {a1, a2, a3, a4, b1, b2, b3, b4} \cup S
           a == <<a1, a2, a3, a4>>
           b == <<b1, b2, b3, b4>>
<1>1. a \in Seq(T) /\ b \in Seq(T) /\ Len(a) = 4 /\ Len(b) = 4
    OBVIOUS
<1>2. x \in Seq(T) /\ y \in Seq(T)
    OBVIOUS
<1>3. a \o x = b \o y
    BY Zenon DEF MasterSecret, Hkdf
<1>4. a[1] = a1 /\ a[2] = a2 /\ a[3] = a3 /\ a[4] = a4
    BY Zenon
<1>5. b[1] = b1 /\ b[2] = b2 /\ b[3] = b3 /\ b[4] = b4
    BY Zenon
<1> HIDE DEF a, b, T
<1>6. a = b /\ x = y
  <2>0. /\ Len(a \o x) = Len(a) + Len(x) /\ Len(b \o y) = Len(b) + Len(y)
        /\ \A i \in 1..(Len(a) + Len(x)) :
               (a \o x)[i] = IF i <= Len(a) THEN a[i] ELSE x[i - Len(a)]
        /\ \A i \in 1..(Len(b) + Len(y)) :
               (b \o y)[i] = IF i <= Len(b) THEN b[i] ELSE y[i - Len(b)]
    <3>1. a \in Seq(T) /\ b \in Seq(T) /\ x \in Seq(T) /\ y \in Seq(T)
        BY <1>1, <1>2, Zenon
    <3> QED BY <3>1, ConcatProperties, Zenon
  <2>1. Len(a \o x) = 4 + Len(x) /\ Len(b \o y) = 4 + Len(y)
      BY <1>1, <2>0, Zenon
  <2>2. Len(x) = Len(y) /\ Len(x) \in Nat
      BY <1>3, <2>1
  <2>3. \A i \in 1..(4 + Len(x)) :
            /\ (a \o x)[i] = IF i <= 4 THEN a[i] ELSE x[i - 4]
            /\ (b \o y)[i] = IF i <= 4 THEN b[i] ELSE y[i - 4]
      BY <1>1, <2>0, <2>2, Zenon
  <2>4. \A i \in 1..4 : a[i] = b[i]
    <3> SUFFICES ASSUME NEW i \in 1..4  PROVE a[i] = b[i]
        BY Zenon
    <3>1. i \in 1..(4 + Len(x)) /\ i <= 4
        BY <2>2
    <3> QED BY <1>3, <2>3, <3>1, Zenon
  <2>5. \A i \in 1..Len(x) : x[i] = y[i]
    <3> SUFFICES ASSUME NEW i \in 1..Len(x)  PROVE x[i] = y[i]
        BY Zenon
    <3>1. i + 4 \in 1..(4 + Len(x)) /\ ~(i + 4 <= 4) /\ (i + 4) - 4 = i
        BY <2>2
    <3> QED BY <1>3, <2>3, <3>1, Zenon
  <2>6. a = b
      BY <1>1, <2>4, SeqEqual, Zenon
  <2>7. x = y
      BY <1>2, <2>2, <2>5, SeqEqual, Zenon
  <2> QED BY <2>6, <2>7, Zenon
<1> QED BY <1>4, <1>5, <1>6, Zenon

-----------------------------------------------------------------------------
(* The two functions *)

PublicPrekeys == {Published(k) : k \in Prekeys}

\* A loaded identity is the generated one (IdentityKeyPair::from_seed).
LEMMA LoadedIdentity ==
    ASSUME NEW r
    PROVE  /\ Loaded(r).classical = <<"seed", r>> /\ Loaded(r).pq = <<"seed", r>>
           /\ Loaded(r) = Generate(r)
BY Zenon DEF Loaded, FromSeed, Seeds, Generate

LEMMA KeysInjective ==
    /\ \A m, n : GenerateKem(m).pq = GenerateKem(n).pq => m = n
    /\ \A m, n : PublicKey(GenerateKem(m)) = PublicKey(GenerateKem(n)) => m = n
    /\ \A r, t : KemSecretKey(Loaded(r)).pq = KemSecretKey(Loaded(t)).pq => r = t
    /\ \A r, t : Public(Loaded(r)) = Public(Loaded(t)) => r = t
<1>1. \A m, n : GenerateKem(m).pq = GenerateKem(n).pq => m = n
    BY Zenon DEF GenerateKem
<1>2. \A m, n : PublicKey(GenerateKem(m)) = PublicKey(GenerateKem(n)) => m = n
    BY <1>1, Zenon DEF PublicKey, EncapsulationKey
<1>3. \A r, t : KemSecretKey(Loaded(r)).pq = KemSecretKey(Loaded(t)).pq => r = t
    BY LoadedIdentity DEF KemSecretKey, Hkdf
<1>4. \A r, t : Public(Loaded(r)) = Public(Loaded(t)) => r = t
    BY LoadedIdentity DEF Public, VerifyingKey
<1> QED BY <1>1, <1>2, <1>3, <1>4, Zenon

\* A leg that agrees, for keys that callers generated (HybridKemPrivateKey).
LEMMA GeneratedLegBinds ==
    ASSUME NEW m, NEW l, NEW e, NEW f, NEW r, NEW leg,
           leg = Encapsulate(e, PublicKey(GenerateKem(l)), r),
           Decapsulate(GenerateKem(m), leg.ct, f) = leg.secret
    PROVE  m = l
<1>1. GenerateKem(m).pq = GenerateKem(l).pq
    BY LegBinds
<1> QED BY <1>1, KeysInjective, Zenon

\* The first one-time prekey of a bundle that was issued.
LEMMA FirstPrekey ==
    ASSUME NEW list \in Seq(PublicPrekeys), NEW b, b.one_time_prekeys = list
    PROVE  First(b) = None \/ \E o \in Prekeys : First(b) = Published(o) /\ First(b) # None
<1>1. CASE list = <<>>
    BY <1>1, Zenon DEF First
<1>2. CASE list # <<>>
  <2>1. First(b) = Head(list) /\ Head(list) \in PublicPrekeys
      BY <1>2, HeadTailProperties, Zenon DEF First
  <2> QED BY <2>1, NoneAssumption, Zenon DEF PublicPrekeys
<1> QED BY <1>1, <1>2, Zenon

\* pqxdh_responder, given the prekeys a message names, has the secret of
\* pqxdh_initiator exactly if its keys are those of the bundle.
LEMMA SecretsAgree ==
    ASSUME NEW i, NEW t, NEW r, NEW e, NEW s \in Prekeys, NEW q \in Prekeys,
           NEW k \in Prekeys \cup {None}, NEW list \in Seq(PublicPrekeys),
           NEW n \in 1..MaxRuns, NEW b, NEW out, NEW keys,
           Attested(b) = Attested(NewBundle(Loaded(t), SignedBy(t, s), list)),
           out = InitiatorOutput(Loaded(i), GenerateKem(e), b, n),
           keys = ResponderKeys(Loaded(r), q, k),
           HoldsPrekeys(keys, out.message)
    PROVE  ResponderSecret(keys, out.message) = out.secret <=> SameKeys(keys, b)
<1> DEFINE eph == GenerateKem(e)
           kem == KemSecretKey(Loaded(i))
           spk == GenerateKem(s.key)
           ik == KemSecretKey(Loaded(t))
           mine == GenerateKem(q.key)
           own == KemSecretKey(Loaded(r))
           opk == First(b)
           leg1 == Encapsulate(eph, PublicKey(spk), <<n, 1>>)
           leg2 == Encapsulate(kem, PublicKey(spk), <<n, 2>>)
           leg3 == Encapsulate(eph, PublicKey(ik), <<n, 3>>)
           leg4 == Encapsulate(kem, PublicKey(ik), <<n, 4>>)
           leg5 == Encapsulate(eph, opk.public_key, <<n, 5>>)
           x == IF opk = None THEN <<>> ELSE <<leg5.secret>>
           ct5 == IF opk = None THEN None ELSE leg5.ct
           y == IF keys.one_time_prekey = None \/ ct5 = None THEN <<>>
                ELSE <<Decapsulate(keys.one_time_prekey, ct5, PublicKey(eph))>>
           dec1 == Decapsulate(mine, leg1.ct, PublicKey(eph))
           dec2 == Decapsulate(mine, leg2.ct, PublicKey(kem))
           dec3 == Decapsulate(own, leg3.ct, PublicKey(eph))
           dec4 == Decapsulate(own, leg4.ct, PublicKey(kem))
<1>1. /\ b.identity_key = Public(Loaded(t)) /\ b.identity_kem_public = PublicKey(ik)
      /\ Covered(b.signed_prekey) = Covered(SignedBy(t, s)) /\ b.one_time_prekeys = list
    BY Zenon DEF Attested, NewBundle, KemPublic
<1>2. b.signed_prekey.public_key = PublicKey(spk)
    BY <1>1, Zenon DEF Covered, SignedBy, SignedPrekey
<1>3. /\ keys.identity = Loaded(r) /\ keys.signed_prekey = mine
      /\ keys.one_time_prekey = IF k = None THEN None ELSE GenerateKem(k.key)
    BY Zenon DEF ResponderKeys
<1>4. /\ out.secret = MasterSecret(leg1.secret, leg2.secret, leg3.secret, leg4.secret, x)
      /\ out.message.ciphertexts = <<leg1.ct, leg2.ct, leg3.ct, leg4.ct>>
      /\ out.message.one_time_ciphertext = ct5
      /\ out.message.ephemeral_public = PublicKey(eph)
      /\ out.message.identity_kem_public = PublicKey(kem)
      /\ opk = None => out.message.one_time_prekey_id = None
    BY <1>1, <1>2, Zenon DEF InitiatorOutput
<1>5. ResponderSecret(keys, out.message) = MasterSecret(dec1, dec2, dec3, dec4, y)
    BY <1>3, <1>4 DEF ResponderSecret
<1> HIDE DEF leg1, leg2, leg3, leg4, leg5, dec1, dec2, dec3, dec4, eph, kem, opk
<1>6. opk = None => keys.one_time_prekey = None
    BY <1>4, Zenon DEF HoldsPrekeys
<1>7. opk = None \/ \E o \in Prekeys : opk = Published(o) /\ opk # None
    BY <1>1, FirstPrekey, Zenon DEF opk
<1>8. opk # None => ct5 = leg5.ct /\ ct5 # None
  <2> SUFFICES ASSUME opk # None PROVE leg5.ct # None
      BY Zenon
  <2>1. PICK o \in Prekeys : opk = Published(o)
      BY <1>7, Zenon
  <2>2. leg5.ct = KemCiphertext(PublicKey(GenerateKem(o.key)).pq, <<n, 5>>)
      BY <2>1, Zenon DEF leg5, Encapsulate, Published, PublicPrekey
  <2>3. o.key \in 1..MaxKeys
      BY Zenon DEF Prekeys
  <2> QED BY <2>2, <2>3, NoneAssumption, Zenon
<1>9. SameKeys(keys, b) <=>
          /\ r = t /\ q.key = s.key
          /\ IF opk = None THEN keys.one_time_prekey = None
             ELSE /\ keys.one_time_prekey # None
                  /\ PublicKey(keys.one_time_prekey) = opk.public_key
  <2>1. Public(keys.identity) = b.identity_key <=> r = t
      BY <1>1, <1>3, KeysInjective
  <2>2. PublicKey(keys.signed_prekey) = b.signed_prekey.public_key <=> q.key = s.key
      BY <1>2, <1>3, KeysInjective, Zenon
  <2> QED BY <2>1, <2>2, Zenon DEF SameKeys, opk
<1>10. ASSUME SameKeys(keys, b)
       PROVE  ResponderSecret(keys, out.message) = out.secret
  <2>1. own = ik /\ mine = spk
      BY <1>9, <1>10, Zenon
  <2>2. dec1 = leg1.secret /\ dec2 = leg2.secret /\ dec3 = leg3.secret /\ dec4 = leg4.secret
      BY <2>1, LegAgrees, Zenon DEF dec1, dec2, dec3, dec4, leg1, leg2, leg3, leg4
  <2>3. x = y
    <3>1. CASE opk = None
        BY <3>1, <1>6, Zenon
    <3>2. CASE opk # None
      <4>1. /\ keys.one_time_prekey # None
            /\ opk.public_key = PublicKey(keys.one_time_prekey)
          BY <3>2, <1>9, <1>10, Zenon
      <4>2. Decapsulate(keys.one_time_prekey, leg5.ct, PublicKey(eph)) = leg5.secret
          BY <4>1, LegAgrees, Zenon DEF leg5
      <4> QED BY <3>2, <4>1, <4>2, <1>8, Zenon
    <3> QED BY <3>1, <3>2, Zenon
  <2> QED BY <1>4, <1>5, <2>2, <2>3, Zenon
<1>11. ASSUME ResponderSecret(keys, out.message) = out.secret
       PROVE  SameKeys(keys, b)
  <2> DEFINE d5 == Decapsulate(keys.one_time_prekey, ct5, PublicKey(eph))
             S == {leg5.secret, d5}
  <2>1. x \in Seq(S) /\ y \in Seq(S) /\ Len(x) <= 1 /\ Len(y) <= 1
    <3> HIDE DEF d5
    <3>1. /\ x = IF opk = None THEN <<>> ELSE <<leg5.secret>>
          /\ y = IF keys.one_time_prekey = None \/ ct5 = None THEN <<>> ELSE <<d5>>
        BY Zenon DEF d5
    <3>2. leg5.secret \in S /\ d5 \in S
        BY Zenon
    <3> HIDE DEF S, x, y
    <3>3. \A z \in S : <<z>> \in Seq(S) /\ Len(<<z>>) <= 1
        OBVIOUS
    <3>4. <<>> \in Seq(S) /\ Len(<<>>) <= 1
        OBVIOUS
    <3>5. x \in {<<>>, <<leg5.secret>>} /\ y \in {<<>>, <<d5>>}
        BY <3>1, Zenon
    <3> QED BY <3>2, <3>3, <3>4, <3>5, Zenon
  <2>2. MasterSecret(dec1, dec2, dec3, dec4, y)
            = MasterSecret(leg1.secret, leg2.secret, leg3.secret, leg4.secret, x)
      BY <1>4, <1>5, <1>11, Zenon
  <2>3. dec1 = leg1.secret /\ dec3 = leg3.secret /\ y = x
    <3> HIDE DEF x, y, S
    <3> QED BY <2>1, <2>2, MasterInjective
  <2>4. q.key = s.key
    <3>1. mine.pq = spk.pq
        BY <2>3, LegBinds DEF dec1, leg1
    <3> QED BY <3>1, KeysInjective, Zenon
  <2>5. r = t
    <3>1. own.pq = ik.pq
        BY <2>3, LegBinds DEF dec3, leg3
    <3> QED BY <3>1, KeysInjective, Zenon
  <2>6. ASSUME opk # None
        PROVE  /\ keys.one_time_prekey # None
               /\ PublicKey(keys.one_time_prekey) = opk.public_key
    <3>1. x = <<leg5.secret>> /\ x # <<>>
        BY <2>6, Zenon
    <3>2. keys.one_time_prekey # None /\ y = <<d5>>
        BY <2>3, <3>1, <1>8, <2>6, Zenon
    <3>3. d5 = leg5.secret
        BY <2>3, <3>1, <3>2, Zenon
    <3>4. PICK o \in Prekeys : opk = Published(o)
        BY <1>7, <2>6, Zenon
    <3>5. opk.public_key = PublicKey(GenerateKem(o.key))
        BY <3>4, Zenon DEF Published, PublicPrekey
    <3>6. keys.one_time_prekey = GenerateKem(k.key)
        BY <1>3, <3>2, Zenon
    <3>7. leg5 = Encapsulate(eph, PublicKey(GenerateKem(o.key)), <<n, 5>>)
        BY <3>5, Zenon DEF leg5
    <3>8. Decapsulate(GenerateKem(k.key), leg5.ct, PublicKey(eph)) = leg5.secret
        BY <3>3, <3>6, <1>8, <2>6, Zenon
    <3>9. k.key = o.key
        BY <3>7, <3>8, GeneratedLegBinds, Zenon
    <3> QED BY <3>2, <3>5, <3>6, <3>9, Zenon
  <2> QED BY <2>4, <2>5, <2>6, <1>6, <1>9, Zenon
<1> QED BY <1>10, <1>11, Zenon

-----------------------------------------------------------------------------
(* The invariant *)

IsSeq(s) == \E S : s \in Seq(S)

Types ==
    /\ made \in 0..MaxKeys
    /\ signed \in [Responders -> Prekeys \cup {None}]
    /\ one_time \in [Responders -> SUBSET Prekeys]
    /\ IsSeq(runs) /\ Len(runs) <= MaxRuns
    /\ IsSeq(answers) /\ Len(answers) <= MaxAnswers

\* A key pair is stored once, and an id names one prekey of a responder.
KeyInv ==
    /\ \A r \in Responders : \A k \in one_time[r] : k.key <= made
    /\ \A r \in Responders : \A k, l \in one_time[r] : k.key_id = l.key_id => k = l
    /\ \A r, t \in Responders : \A k \in one_time[r], l \in one_time[t] :
           k.key = l.key => r = t /\ k = l

Issued(b) ==
    \E t \in Responders, s \in Prekeys, list \in Seq(PublicPrekeys) :
        b = NewBundle(Loaded(t), SignedBy(t, s), list)

BundleInv == \A b \in bundles : Issued(b)

\* The result of call n of pqxdh_initiator.
Out(n) == InitiatorOutput(Loaded(runs[n].by), GenerateKem(runs[n].ephemeral), runs[n].bundle, n)

RunInv ==
    \A n \in 1..Len(runs) :
        /\ runs[n].by \in Initiators /\ runs[n].ephemeral \in 1..made
        /\ \E b \in bundles : Attested(runs[n].bundle) = Attested(b)
        /\ runs[n].secret = Out(n).secret /\ runs[n].message = Out(n).message
        /\ runs[n].sealed.key = runs[n].secret

\* What is recorded of an answer was computed from prekeys that were held.
AnswerSound(a, run) ==
    /\ a.by \in Responders
    /\ \E r \in Responders, q \in Prekeys, k \in Prekeys \cup {None} :
           a.keys = ResponderKeys(Loaded(r), q, k)
    /\ HoldsPrekeys(a.keys, run.message)
    /\ a.secret = ResponderSecret(a.keys, run.message)
    /\ a.opened = Opens(a.secret, run.sealed)

AnswerInv ==
    \A n \in 1..Len(answers) : /\ answers[n].run \in 1..Len(runs)
                               /\ AnswerSound(answers[n], runs[answers[n].run])

\* The one-time key pair of an answer was taken out and does not come back.
Gone(key) ==
    \E m \in 1..made : /\ key = GenerateKem(m)
                       /\ \A r \in Responders : \A l \in one_time[r] : l.key # m

TakenInv ==
    /\ \A n \in 1..Len(answers) :
           answers[n].keys.one_time_prekey # None => Gone(answers[n].keys.one_time_prekey)
    /\ \A m, n \in 1..Len(answers) :
           /\ answers[m].keys.one_time_prekey = answers[n].keys.one_time_prekey
           /\ answers[n].keys.one_time_prekey # None
           => m = n

IInv == Types /\ KeyInv /\ BundleInv /\ RunInv /\ AnswerInv /\ TakenInv

LEMMA Appended ==
    ASSUME NEW s, IsSeq(s), NEW x
    PROVE  /\ IsSeq(Append(s, x)) /\ Len(s) \in Nat
           /\ Len(Append(s, x)) = Len(s) + 1
           /\ \A i \in 1..Len(s) : Append(s, x)[i] = s[i]
           /\ Append(s, x)[Len(s) + 1] = x
<1>1. PICK S : s \in Seq(S)
    BY Zenon DEF IsSeq
<1>2. s \in Seq(S \cup {x}) /\ x \in S \cup {x}
    BY <1>1
<1> QED BY <1>2, AppendProperties DEF IsSeq

\* A bundle put together from parts of two does not verify
\* (PreKeyBundle::verify), unless the parts that it covers are equal.
LEMMA OnlyWholeVerify ==
    ASSUME BundleInv, NEW b \in Offered, VerifyBundle(b)
    PROVE  \E a \in bundles : Attested(b) = Attested(a)
<1>1. ASSUME NEW a \in bundles, NEW s, NEW list,
             b = [a EXCEPT !.signed_prekey = s] \/ b = [a EXCEPT !.one_time_prekeys = list]
      PROVE  Attested(b) = Attested(a)
  <2>1. PICK t \in Responders, q \in Prekeys, l \in Seq(PublicPrekeys) :
            a = NewBundle(Loaded(t), SignedBy(t, q), l)
      BY Zenon DEF BundleInv, Issued
  <2> DEFINE bytes == BundleBytes(a.identity_key, a.identity_kem_public, a.signed_prekey,
                                  a.one_time_prekeys)
             read == BundleBytes(b.identity_key, b.identity_kem_public, b.signed_prekey,
                                 b.one_time_prekeys)
  <2>2. a = [identity_key |-> a.identity_key, identity_kem_public |-> a.identity_kem_public,
             signed_prekey |-> a.signed_prekey, one_time_prekeys |-> a.one_time_prekeys,
             bundle_signature |-> a.bundle_signature]
      BY <2>1, Zenon DEF NewBundle
  <2>3. a.bundle_signature = SignHybrid(Loaded(t), bytes)
      BY <2>1, Zenon DEF NewBundle
  <2>4. b.bundle_signature = a.bundle_signature
      BY <1>1, <2>2, Zenon
  <2>5. read = bytes
    <3> HIDE DEF bytes, read
    <3>1. Verifies(b.identity_key.classical, read, b.bundle_signature.classical)
        BY Zenon DEF VerifyBundle, VerifyHybrid, read
    <3>2. b.bundle_signature.classical = Signature(Loaded(t).classical, bytes)
        BY <2>3, <2>4 DEF SignHybrid
    <3> QED BY <3>1, <3>2 DEF Verifies, Signature
  <2>6. /\ b.identity_key = a.identity_key /\ b.identity_kem_public = a.identity_kem_public
        /\ Covered(b.signed_prekey) = Covered(a.signed_prekey)
        /\ b.one_time_prekeys = a.one_time_prekeys
      BY <2>5, Zenon DEF BundleBytes
  <2> QED BY <2>4, <2>6, Zenon DEF Attested
<1>2. \/ b \in bundles
      \/ \E a, c \in bundles : b = [a EXCEPT !.one_time_prekeys = c.one_time_prekeys]
      \/ \E a, c \in bundles : b = [a EXCEPT !.signed_prekey = c.signed_prekey]
      \/ \E a, c \in bundles :
             b = [a EXCEPT !.signed_prekey =
                      [a.signed_prekey EXCEPT !.signature = c.signed_prekey.signature]]
    BY Zenon DEF Offered
<1> QED BY <1>1, <1>2, Zenon

-----------------------------------------------------------------------------
(* The steps *)

LEMMA InitEstablishes == Init => IInv
<1> SUFFICES ASSUME Init PROVE IInv
    BY Zenon
<1>1. {MaxKeys, MaxBundles, MaxRuns, MaxAnswers} \subseteq Nat
    BY BoundsAssumption, Zenon
<1>2. IsSeq(<<>>) /\ Len(<<>>) = 0
    BY DEF IsSeq
<1>3. Types
    BY <1>1, <1>2 DEF Init, Types
<1>4. KeyInv /\ BundleInv
    BY Zenon DEF Init, KeyInv, BundleInv
<1>5. Len(runs) = 0 /\ Len(answers) = 0
    BY <1>2, Zenon DEF Init
<1> QED BY <1>3, <1>4, <1>5 DEF IInv, RunInv, AnswerInv, TakenInv

LEMMA RotateSignedKeeps == ASSUME IInv, NEW r \in Responders, RotateSigned(r) PROVE IInv'
<1>0. Types /\ KeyInv /\ BundleInv /\ RunInv /\ AnswerInv /\ TakenInv
    BY Zenon DEF IInv
<1>1. PICK id \in Ids : signed' = [signed EXCEPT ![r] = [key_id |-> id, key |-> made + 1]]
    BY Zenon DEF RotateSigned
<1>2. /\ made < MaxKeys /\ made' = made + 1 /\ made \in Nat
      /\ UNCHANGED <<one_time, bundles, runs, answers>>
    BY <1>0, BoundsAssumption DEF RotateSigned, Types
<1>3. made' \in 0..MaxKeys /\ [key_id |-> id, key |-> made + 1] \in Prekeys
    BY <1>2, BoundsAssumption DEF Prekeys
<1>4. Types'
    BY <1>0, <1>1, <1>2, <1>3, Zenon DEF Types
<1>5. KeyInv'
  <2>1. \A t \in Responders : \A k \in one_time[t] : k.key \in Nat
      BY <1>0, BoundsAssumption DEF Types, Prekeys
  <2> QED BY <1>0, <1>2, <2>1 DEF KeyInv
<1>6. BundleInv' /\ AnswerInv'
    BY <1>0, <1>2, Zenon DEF BundleInv, AnswerInv
<1>7. RunInv'
    BY <1>0, <1>2 DEF RunInv, Out
<1>8. TakenInv'
    BY <1>0, <1>2 DEF TakenInv, Gone
<1> QED BY <1>4, <1>5, <1>6, <1>7, <1>8, Zenon DEF IInv

LEMMA AddOneTimeKeeps == ASSUME IInv, NEW r \in Responders, AddOneTime(r) PROVE IInv'
<1>0. Types /\ KeyInv /\ BundleInv /\ RunInv /\ AnswerInv /\ TakenInv
    BY Zenon DEF IInv
<1>1. PICK id \in Ids :
          one_time' = [one_time EXCEPT ![r] = {k \in one_time[r] : k.key_id # id}
                                              \cup {[key_id |-> id, key |-> made + 1]}]
    BY Zenon DEF AddOneTime
<1>2. /\ made < MaxKeys /\ made' = made + 1 /\ made \in Nat
      /\ UNCHANGED <<signed, bundles, runs, answers>>
    BY <1>0, BoundsAssumption DEF AddOneTime, Types
<1> DEFINE new == [key_id |-> id, key |-> made + 1]
<1>3. made' \in 0..MaxKeys /\ new \in Prekeys /\ new.key = made + 1 /\ new.key_id = id
    BY <1>2, BoundsAssumption DEF Prekeys
<1>4. /\ one_time'[r] = {k \in one_time[r] : k.key_id # id} \cup {new}
      /\ \A t \in Responders \ {r} : one_time'[t] = one_time[t]
    BY <1>0, <1>1, Zenon DEF Types
<1>5. Types'
    BY <1>0, <1>1, <1>2, <1>3, Zenon DEF Types
<1> HIDE DEF new
<1>6. \A t \in Responders : \A k \in one_time[t] : k.key \in Nat /\ k.key <= made
    BY <1>0, BoundsAssumption DEF Types, Prekeys, KeyInv
<1>7. \A t \in Responders : \A k \in one_time'[t] :
          k \in one_time[t] \/ (t = r /\ k = new)
    BY <1>4, Zenon
<1>8. KeyInv'
  <2>1. ASSUME NEW t \in Responders, NEW k \in one_time'[t]  PROVE k.key <= made'
      BY <1>2, <1>3, <1>6, <1>7
  <2>2. ASSUME NEW t \in Responders, NEW k \in one_time'[t], NEW l \in one_time'[t],
               k.key_id = l.key_id
        PROVE  k = l
      BY <2>2, <1>0, <1>3, <1>4 DEF KeyInv
  <2>3. ASSUME NEW t \in Responders, NEW u \in Responders, NEW k \in one_time'[t],
               NEW l \in one_time'[u], k.key = l.key
        PROVE  t = u /\ k = l
    <3>1. made \in Nat /\ ~(made + 1 <= made)
        BY <1>2
    <3>2. CASE k \in one_time[t] /\ l \in one_time[u]
        BY <2>3, <3>2, <1>0, Zenon DEF KeyInv
    <3>3. CASE k = new /\ t = r
        BY <2>3, <3>1, <3>3, <1>3, <1>6, <1>7, Zenon
    <3>4. CASE l = new /\ u = r
        BY <2>3, <3>1, <3>4, <1>3, <1>6, <1>7, Zenon
    <3> QED BY <3>2, <3>3, <3>4, <1>7, Zenon
  <2> QED BY <2>1, <2>2, <2>3, Zenon DEF KeyInv
<1>9. BundleInv' /\ AnswerInv'
    BY <1>0, <1>2, Zenon DEF BundleInv, AnswerInv
<1>10. RunInv'
    BY <1>0, <1>2 DEF RunInv, Out
<1>11. TakenInv'
  <2>1. ASSUME NEW key, Gone(key)  PROVE Gone(key)'
    <3>1. PICK m \in 1..made : /\ key = GenerateKem(m)
                              /\ \A t \in Responders : \A l \in one_time[t] : l.key # m
        BY <2>1, Zenon DEF Gone
    <3>2. m \in 1..made' /\ new.key # m
        BY <1>2, <1>3
    <3> QED BY <3>1, <3>2, <1>7, Zenon DEF Gone
  <2> QED BY <2>1, <1>0, <1>2, Zenon DEF TakenInv
<1> QED BY <1>5, <1>8, <1>9, <1>10, <1>11, Zenon DEF IInv

LEMMA PublishBundleKeeps == ASSUME IInv, NEW r \in Responders, PublishBundle(r) PROVE IInv'
<1>0. Types /\ KeyInv /\ BundleInv /\ RunInv /\ AnswerInv /\ TakenInv
    BY Zenon DEF IInv
<1>1. PICK list \in Lists(r) :
          bundles' = bundles \cup {NewBundle(Loaded(r), SignedBy(r, signed[r]), list)}
    BY Zenon DEF PublishBundle
<1>2. signed[r] # None /\ UNCHANGED <<made, signed, one_time, runs, answers>>
    BY Zenon DEF PublishBundle
<1>3. signed[r] \in Prekeys /\ one_time[r] \subseteq Prekeys
    BY <1>0, <1>2, Zenon DEF Types
<1>4. list \in Seq(PublicPrekeys)
  <2>1. \A k \in one_time[r] : Published(k) \in PublicPrekeys
      BY <1>3, Zenon DEF PublicPrekeys
  <2>2. /\ <<>> \in Seq(PublicPrekeys)
        /\ \A a \in PublicPrekeys : <<a>> \in Seq(PublicPrekeys)
        /\ \A a, b \in PublicPrekeys : <<a, b>> \in Seq(PublicPrekeys)
      OBVIOUS
  <2>3. CASE list = <<>>
      BY <2>2, <2>3, Zenon
  <2>4. CASE \E k \in one_time[r] : list = <<Published(k)>>
      BY <2>1, <2>2, <2>4, Zenon
  <2>5. CASE \E k, l \in one_time[r] : list = <<Published(k), Published(l)>>
      BY <2>1, <2>2, <2>5, Zenon
  <2> QED BY <2>3, <2>4, <2>5, Zenon DEF Lists
<1>5. BundleInv'
    BY <1>0, <1>1, <1>3, <1>4, SMTT(30) DEF BundleInv, Issued
<1>6. RunInv'
    BY <1>0, <1>1, <1>2, Zenon DEF RunInv, Out
<1>7. Types' /\ KeyInv'
    BY <1>0, <1>2 DEF Types, KeyInv
<1>8. AnswerInv' /\ TakenInv'
    BY <1>0, <1>2 DEF AnswerInv, TakenInv, Gone
<1> QED BY <1>5, <1>6, <1>7, <1>8, Zenon DEF IInv

LEMMA InitiateKeeps == ASSUME IInv, NEW i \in Initiators, Initiate(i) PROVE IInv'
<1>0. Types /\ KeyInv /\ BundleInv /\ RunInv /\ AnswerInv /\ TakenInv
    BY Zenon DEF IInv
<1> DEFINE N == Len(runs) + 1
           O(b, e) == InitiatorOutput(Loaded(i), GenerateKem(e), b, N)
           R(b, e) == [by |-> i, ephemeral |-> e, bundle |-> b, secret |-> O(b, e).secret,
                       message |-> O(b, e).message,
                       sealed |-> EncryptInitial(O(b, e).secret, N)]
<1>1. PICK b \in Offered, e \in {made + 1} \cup {runs[n].ephemeral : n \in 1..Len(runs)} :
          /\ VerifyBundle(b) /\ e <= MaxKeys
          /\ made' = IF e = made + 1 THEN e ELSE made
          /\ runs' = Append(runs, R(b, e))
    BY Zenon DEF Initiate
<1>2. Len(runs) < MaxRuns /\ UNCHANGED <<signed, one_time, bundles, answers>>
    BY Zenon DEF Initiate
<1>3. made \in Nat /\ MaxKeys \in Nat /\ MaxRuns \in Nat
    BY <1>0, BoundsAssumption DEF Types
<1>4. e \in 1..made' /\ made' \in 0..MaxKeys /\ made <= made'
    BY <1>0, <1>1, <1>3 DEF RunInv, Types
<1>5. \E a \in bundles : Attested(b) = Attested(a)
    BY <1>0, <1>1, OnlyWholeVerify, Zenon
<1>6. /\ IsSeq(runs') /\ Len(runs) \in Nat /\ Len(runs') = Len(runs) + 1
      /\ \A n \in 1..Len(runs) : runs'[n] = runs[n]
      /\ runs'[Len(runs) + 1] = R(b, e)
    BY <1>0, <1>1, Appended DEF Types
<1>7. Types'
    BY <1>0, <1>2, <1>3, <1>4, <1>6 DEF Types
<1>8. KeyInv'
  <2>1. \A t \in Responders : \A k \in one_time[t] : k.key \in Nat
      BY <1>0, BoundsAssumption DEF Types, Prekeys
  <2>2. made' \in Nat
      BY <1>3, <1>4
  <2> QED BY <1>0, <1>2, <1>3, <1>4, <2>1, <2>2 DEF KeyInv
<1>9. RunInv'
  <2> SUFFICES ASSUME NEW n \in 1..Len(runs')
               PROVE  /\ runs'[n].by \in Initiators /\ runs'[n].ephemeral \in 1..made'
                      /\ \E a \in bundles' : Attested(runs'[n].bundle) = Attested(a)
                      /\ runs'[n].secret = Out(n)'.secret
                      /\ runs'[n].message = Out(n)'.message
                      /\ runs'[n].sealed.key = runs'[n].secret
      BY Zenon DEF RunInv
  <2>1. CASE n \in 1..Len(runs)
    <3>1. runs'[n] = runs[n] /\ Out(n)' = Out(n)
        BY <2>1, <1>6, Zenon DEF Out
    <3>2. runs[n].ephemeral \in 1..made'
        BY <2>1, <1>0, <1>3, <1>4 DEF RunInv
    <3> QED BY <2>1, <3>1, <3>2, <1>0, <1>2, Zenon DEF RunInv
  <2>2. CASE n = N
    <3>1. runs'[n] = R(b, e)
        BY <2>2, <1>6, Zenon
    <3>2. Out(n)' = O(b, e)
        BY <2>2, <3>1 DEF Out
    <3> HIDE DEF O, N
    <3>3. /\ R(b, e).by = i /\ R(b, e).ephemeral = e /\ R(b, e).bundle = b
          /\ R(b, e).secret = O(b, e).secret /\ R(b, e).message = O(b, e).message
          /\ R(b, e).sealed.key = O(b, e).secret
        BY Zenon DEF EncryptInitial
    <3> HIDE DEF R
    <3> QED BY <3>1, <3>2, <3>3, <1>2, <1>4, <1>5, Zenon
  <2> QED BY <2>1, <2>2, <1>6
<1>10. BundleInv'
    BY <1>0, <1>2, SMTT(30) DEF BundleInv
<1>11. AnswerInv'
  <2>1. ASSUME NEW n \in 1..Len(answers)
        PROVE  /\ answers[n].run \in 1..Len(runs')
               /\ AnswerSound(answers[n], runs'[answers[n].run])
    <3>1. answers[n].run \in 1..Len(runs) /\ AnswerSound(answers[n], runs[answers[n].run])
        BY <1>0, Zenon DEF AnswerInv
    <3>2. runs'[answers[n].run] = runs[answers[n].run]
        BY <3>1, <1>6, Zenon
    <3>3. \A c, d \in Nat : d = c + 1 => \A m \in 1..c : m \in 1..d
        OBVIOUS
    <3>4. Len(runs) \in Nat /\ Len(runs') = Len(runs) + 1
        BY <1>6, Zenon
    <3>5. answers[n].run \in 1..Len(runs')
        BY <3>1, <3>3, <3>4
    <3> QED BY <3>1, <3>2, <3>5, Zenon
  <2>2. answers' = answers
      BY <1>2, Zenon
  <2> QED BY <1>0, <2>1, <2>2, Zenon DEF AnswerInv
<1>12. TakenInv'
    BY <1>0, <1>2, <1>3, <1>4, SMTT(30) DEF TakenInv, Gone
<1> QED BY <1>7, <1>8, <1>9, <1>10, <1>11, <1>12, Zenon DEF IInv

\* A prekey taken out of a store leaves the invariant of the stores.
LEMMA TakeKeeps ==
    ASSUME Types, KeyInv, NEW r \in Responders, NEW k, Take(r, k)
    PROVE  /\ one_time' \in [Responders -> SUBSET Prekeys]
           /\ \A t \in Responders : one_time'[t] \subseteq one_time[t]
           /\ k \notin one_time'[r]
BY Zenon DEF Types, Take

LEMMA AnswerKeeps == ASSUME IInv, NEW r \in Responders, Answer(r) PROVE IInv'
<1>0. Types /\ KeyInv /\ BundleInv /\ RunInv /\ AnswerInv /\ TakenInv
    BY Zenon DEF IInv
<1> DEFINE K(k) == ResponderKeys(Loaded(r), signed[r], k)
           S(n, k) == ResponderSecret(K(k), runs[n].message)
           A(n, k) == [by |-> r, run |-> n, keys |-> K(k), secret |-> S(n, k),
                       opened |-> Opens(S(n, k), runs[n].sealed)]
<1>1. PICK n \in 1..Len(runs), k \in one_time[r] \cup {None} :
          /\ HoldsPrekeys(K(k), runs[n].message)
          /\ answers' = Append(answers, A(n, k))
          /\ Take(r, k)
    BY Zenon DEF Answer
<1>2. /\ Len(answers) < MaxAnswers /\ signed[r] # None
      /\ UNCHANGED <<made, signed, bundles, runs>>
    BY Zenon DEF Answer
<1>3. signed[r] \in Prekeys /\ k \in Prekeys \cup {None} /\ MaxAnswers \in Nat
    BY <1>0, <1>2, BoundsAssumption, SMTT(30) DEF Types
<1>4. /\ IsSeq(answers') /\ Len(answers) \in Nat /\ Len(answers') = Len(answers) + 1
      /\ \A m \in 1..Len(answers) : answers'[m] = answers[m]
      /\ answers'[Len(answers) + 1] = A(n, k)
    BY <1>0, <1>1, Appended, SMTT(30) DEF Types
<1>15. \A m \in 1..Len(answers') : m \in 1..Len(answers) \/ m = Len(answers) + 1
  <2>1. Len(answers) \in Nat /\ Len(answers') = Len(answers) + 1
      BY <1>4, Zenon
  <2>2. \A c, d \in Nat : d = c + 1 => \A m \in 1..d : m \in 1..c \/ m = c + 1
      OBVIOUS
  <2> QED BY <2>1, <2>2
<1>16. answers'[Len(answers) + 1].keys = K(k)
  <2>1. answers'[Len(answers) + 1] = A(n, k)
      BY <1>4, Zenon
  <2>2. A(n, k).keys = K(k)
    <3> HIDE DEF K, S
    <3> QED BY SMTT(30)
  <2> QED BY <2>1, <2>2, Zenon
<1>5. /\ one_time' \in [Responders -> SUBSET Prekeys]
      /\ \A t \in Responders : one_time'[t] \subseteq one_time[t]
      /\ k \notin one_time'[r]
    BY <1>0, <1>1, TakeKeeps, Zenon
<1>6. Types'
    BY <1>0, <1>2, <1>3, <1>4, <1>5 DEF Types
<1>7. KeyInv'
    BY <1>0, <1>2, <1>5, Zenon DEF KeyInv
<1>8. BundleInv' /\ RunInv'
    BY <1>0, <1>2, SMTT(30) DEF BundleInv, RunInv, Out
<1> HIDE DEF K, S
<1>9. AnswerInv'
  <2> SUFFICES ASSUME NEW m \in 1..Len(answers')
               PROVE  /\ answers'[m].run \in 1..Len(runs)
                      /\ AnswerSound(answers'[m], runs[answers'[m].run])
      BY <1>2, Zenon DEF AnswerInv
  <2>1. CASE m \in 1..Len(answers)
      BY <2>1, <1>0, <1>4, Zenon DEF AnswerInv
  <2>2. CASE m = Len(answers) + 1
    <3>1. answers'[m] = A(n, k)
        BY <2>2, <1>4, Zenon
    <3>2. \E t \in Responders, q \in Prekeys, l \in Prekeys \cup {None} :
              K(k) = ResponderKeys(Loaded(t), q, l)
        BY <1>3, Zenon DEF K
    <3>3. A(n, k).run = n /\ AnswerSound(A(n, k), runs[n])
        BY <3>2, <1>1, Zenon DEF S, AnswerSound
    <3> QED BY <3>1, <3>3, Zenon
  <2> QED BY <2>1, <2>2, <1>15, Zenon
<1>10. K(k).one_time_prekey = IF k = None THEN None ELSE GenerateKem(k.key)
    BY SMTT(30) DEF K, ResponderKeys
<1> DEFINE After(key) ==
        \E m \in 1..made' : /\ key = GenerateKem(m)
                            /\ \A t \in Responders : \A l \in one_time'[t] : l.key # m
<1>11. ASSUME NEW key, Gone(key)  PROVE After(key)
    BY <1>11, <1>2, <1>5, Zenon DEF Gone
<1>12. ASSUME k # None  PROVE After(GenerateKem(k.key))
  <2>1. k \in one_time[r] /\ k.key \in 1..made
      BY <1>0, <1>12, BoundsAssumption DEF Types, KeyInv, Prekeys
  <2>2. \A t \in Responders : \A l \in one_time'[t] : l.key # k.key
      BY <2>1, <1>0, <1>5 DEF KeyInv
  <2> QED BY <2>1, <2>2, <1>2, Zenon
<1>13. ASSUME k # None, Gone(GenerateKem(k.key))  PROVE FALSE
  <2>1. k \in one_time[r]
      BY <1>13, Zenon
  <2> QED BY <2>1, <1>13, KeysInjective, Zenon DEF Gone
<1>14. TakenInv'
  <2>1. ASSUME NEW m \in 1..Len(answers'), answers'[m].keys.one_time_prekey # None
        PROVE  After(answers'[m].keys.one_time_prekey)
    <3> HIDE DEF After
    <3>1. CASE m \in 1..Len(answers)
      <4>1. Gone(answers[m].keys.one_time_prekey)
          BY <2>1, <3>1, <1>0, <1>4, SMTT(30) DEF TakenInv
      <4> QED BY <3>1, <4>1, <1>4, <1>11, Zenon
    <3>2. CASE m = Len(answers) + 1
      <4>1. answers'[m].keys.one_time_prekey = K(k).one_time_prekey
          BY <3>2, <1>16, Zenon
      <4>2. k # None /\ K(k).one_time_prekey = GenerateKem(k.key)
          BY <2>1, <4>1, <1>10, Zenon
      <4> QED BY <4>1, <4>2, <1>12, Zenon
    <3> QED BY <3>1, <3>2, <1>15, <2>1, Zenon
  <2>2. ASSUME NEW m \in 1..Len(answers'), NEW l \in 1..Len(answers'),
               answers'[m].keys.one_time_prekey = answers'[l].keys.one_time_prekey,
               answers'[l].keys.one_time_prekey # None
        PROVE  m = l
    <3>1. CASE m \in 1..Len(answers) /\ l \in 1..Len(answers)
        BY <2>2, <3>1, <1>0, <1>4, SMTT(30) DEF TakenInv
    <3>2. CASE m = Len(answers) + 1 /\ l \in 1..Len(answers)
        BY <2>2, <3>2, <1>0, <1>4, <1>10, <1>13, SMTT(30) DEF TakenInv
    <3>3. CASE m \in 1..Len(answers) /\ l = Len(answers) + 1
        BY <2>2, <3>3, <1>0, <1>4, <1>10, <1>13 DEF TakenInv
    <3> QED BY <3>1, <3>2, <3>3, <1>15, <2>2, Zenon
  <2> QED BY <2>1, <2>2, Zenon DEF TakenInv, Gone
<1> QED BY <1>6, <1>7, <1>8, <1>9, <1>14, Zenon DEF IInv

LEMMA RefuseKeeps == ASSUME IInv, NEW r \in Responders, Refuse(r) PROVE IInv'
<1>0. Types /\ KeyInv /\ BundleInv /\ RunInv /\ AnswerInv /\ TakenInv
    BY Zenon DEF IInv
<1>1. PICK k \in one_time[r] : Take(r, k)
    BY Zenon DEF Refuse
<1>2. UNCHANGED <<made, signed, bundles, runs, answers>>
    BY Zenon DEF Refuse
<1>3. /\ one_time' \in [Responders -> SUBSET Prekeys]
      /\ \A t \in Responders : one_time'[t] \subseteq one_time[t]
    BY <1>0, <1>1, TakeKeeps, Zenon
<1>4. Types' /\ KeyInv'
    BY <1>0, <1>2, <1>3, SMTT(30) DEF Types, KeyInv
<1>5. BundleInv' /\ RunInv' /\ AnswerInv'
    BY <1>0, <1>2, Zenon DEF BundleInv, RunInv, Out, AnswerInv
<1>6. TakenInv'
    BY <1>0, <1>2, <1>3 DEF TakenInv, Gone
<1> QED BY <1>4, <1>5, <1>6, Zenon DEF IInv

LEMMA NextPreserves == IInv /\ [Next]_vars => IInv'
<1> SUFFICES ASSUME IInv, [Next]_vars PROVE IInv'
    BY Zenon
<1>1. CASE UNCHANGED vars
  <2>1. UNCHANGED <<made, signed, one_time, bundles, runs, answers>>
      BY <1>1, Zenon DEF vars
  <2>2. Types' /\ KeyInv'
      BY <2>1 DEF IInv, Types, KeyInv
  <2>3. BundleInv' /\ RunInv'
      BY <2>1, Zenon DEF IInv, BundleInv, RunInv, Out
  <2>4. AnswerInv'
      BY <2>1, Zenon DEF IInv, AnswerInv
  <2>5. TakenInv'
      BY <2>1, SMTT(30) DEF IInv, TakenInv, Gone
  <2> QED BY <2>2, <2>3, <2>4, <2>5, Zenon DEF IInv
<1>2. CASE Next
    BY <1>2, RotateSignedKeeps, AddOneTimeKeeps, PublishBundleKeeps, AnswerKeeps, RefuseKeeps,
       InitiateKeeps, Zenon DEF Next
<1> QED BY <1>1, <1>2, Zenon

LEMMA Invariant == Spec => []IInv
BY InitEstablishes, NextPreserves, PTL DEF Spec

-----------------------------------------------------------------------------
(* The results *)

LEMMA InvariantAgrees == IInv => Agreement
<1> SUFFICES ASSUME IInv, NEW n \in 1..Len(answers)
             PROVE  LET run == runs[answers[n].run]
                    IN /\ answers[n].secret = run.secret
                              <=> SameKeys(answers[n].keys, run.bundle)
                       /\ answers[n].opened <=> answers[n].secret = run.secret
    BY Zenon DEF Agreement
<1> DEFINE m == answers[n].run
           keys == answers[n].keys
           out == Out(m)
<1>1. Types /\ BundleInv /\ RunInv /\ AnswerInv
    BY Zenon DEF IInv
<1>2. /\ m \in 1..Len(runs) /\ HoldsPrekeys(keys, runs[m].message)
      /\ answers[n].secret = ResponderSecret(keys, runs[m].message)
      /\ answers[n].opened = Opens(answers[n].secret, runs[m].sealed)
    BY <1>1, Zenon DEF AnswerInv, AnswerSound
<1>3. PICK r \in Responders, q \in Prekeys, k \in Prekeys \cup {None} :
          keys = ResponderKeys(Loaded(r), q, k)
    BY <1>1, Zenon DEF AnswerInv, AnswerSound
<1>4. /\ \E b \in bundles : Attested(runs[m].bundle) = Attested(b)
      /\ runs[m].secret = out.secret
      /\ runs[m].message = out.message /\ runs[m].sealed.key = runs[m].secret
    BY <1>1, <1>2, SMTT(30) DEF RunInv
<1>5. PICK t \in Responders, s \in Prekeys, list \in Seq(PublicPrekeys) :
          Attested(runs[m].bundle) = Attested(NewBundle(Loaded(t), SignedBy(t, s), list))
    BY <1>1, <1>4, Zenon DEF BundleInv, Issued
<1>6. m \in 1..MaxRuns
  <2>1. Len(runs) \in Nat /\ Len(runs) <= MaxRuns /\ MaxRuns \in Nat
      BY <1>1, Appended, BoundsAssumption, Zenon DEF Types
  <2> QED BY <1>2, <2>1
<1>7. out = InitiatorOutput(Loaded(runs[m].by), GenerateKem(runs[m].ephemeral),
                            runs[m].bundle, m)
    BY SMTT(30) DEF Out
<1> HIDE DEF m, keys, out
<1>8. ResponderSecret(keys, out.message) = out.secret <=> SameKeys(keys, runs[m].bundle)
  <2>1. HoldsPrekeys(keys, out.message)
      BY <1>2, <1>4, Zenon
  <2> QED BY <2>1, <1>3, <1>5, <1>6, <1>7, SecretsAgree, SMTT(30)
<1> QED BY <1>2, <1>4, <1>8, Zenon DEF Opens, m, keys

\* Type correctness of the prekeys and of the recorded calls (pqxdh.rs).
THEOREM PqxdhTypes == Spec => []TypeOK
<1>1. IInv => TypeOK
    BY SMTT(30) DEF IInv, Types, KeyInv, RunInv, AnswerInv, AnswerSound, TypeOK
<1> QED BY <1>1, Invariant, PTL

\* pqxdh_responder has the secret of pqxdh_initiator, and opens the initial
\* message, exactly if it used the private keys of the bundle: for any number
\* of parties, replaced prekeys, ids used again and repeated messages.
THEOREM SecretsOfBundle == Spec => []Agreement
BY InvariantAgrees, Invariant, PTL

\* An initial message that used a one-time prekey is opened once
\* (pqxdh_responder), however often it is repeated.
THEOREM OneTimeMeansOnce == Spec => []OpenedOnce
<1>1. IInv => OpenedOnce
  <2> SUFFICES ASSUME IInv, NEW m \in 1..Len(answers), NEW n \in 1..Len(answers),
                      answers[m].opened, answers[n].opened,
                      answers[m].run = answers[n].run,
                      First(runs[answers[m].run].bundle) # None
               PROVE  m = n
      BY Zenon DEF OpenedOnce
  <2> DEFINE b == runs[answers[m].run].bundle
             f == answers[m].keys.one_time_prekey
             g == answers[n].keys.one_time_prekey
  <2>1. SameKeys(answers[m].keys, b) /\ SameKeys(answers[n].keys, b)
      BY InvariantAgrees, Zenon DEF Agreement
  <2>2. f # None /\ g # None /\ PublicKey(f) = PublicKey(g)
      BY <2>1, Zenon DEF SameKeys
  <2>3. TakenInv
      BY Zenon DEF IInv
  <2>4. (\E x : f = GenerateKem(x)) /\ (\E y : g = GenerateKem(y))
      BY <2>2, <2>3, Zenon DEF TakenInv, Gone
  <2>5. f = g
      BY <2>2, <2>4, KeysInjective
  <2> QED BY <2>2, <2>3, <2>5, Zenon DEF TakenInv
<1> QED BY <1>1, Invariant, PTL

\* pqxdh_initiator works only with keys that were published in one bundle.
THEOREM BundlesWhole == Spec => []WholeBundles
<1>1. IInv => WholeBundles
    BY Zenon DEF IInv, RunInv, WholeBundles
<1> QED BY <1>1, Invariant, PTL
=============================================================================
