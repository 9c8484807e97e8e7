------------------------------- MODULE Pqxdh -------------------------------
(***************************************************************************)
(* The PQXDH key agreement (presidium-crypto, pqxdh.rs): initiators read   *)
(* published prekey bundles, responders answer their prekey messages with  *)
(* the prekeys they hold at that time.                                     *)
(*                                                                         *)
(* Between the two, bundles grow old, prekeys are replaced under the same  *)
(* id (presidium-demo gives every signed prekey the id 1), and a prekey    *)
(* message is lost, repeated, delayed or sent to someone else.             *)
(*                                                                         *)
(* The functions keep no state: the prekeys are the caller's.  A caller is *)
(* modelled by what the store offers it: it replaces prekeys, and a        *)
(* one-time prekey it passes is one it has taken out of the store.         *)
(***************************************************************************)
EXTENDS HybridKeys, Naturals, FiniteSets

CONSTANTS Initiators, Responders,
          Ids,        \* the key ids callers use
          MaxKeys,    \* bound: key pairs generated
          MaxBundles, \* bound: bundles published
          MaxRuns,    \* bound: calls of pqxdh_initiator
          MaxAnswers, \* bound: calls of pqxdh_responder that succeed
          None        \* no key, no id, no ciphertext

ASSUME BoundsAssumption == {MaxKeys, MaxBundles, MaxRuns, MaxAnswers} \subseteq Nat

\* The prekeys in a store, and as they are published.
Prekeys == [key_id : Ids, key : 1..MaxKeys]
Published(k) == PublicPrekey(k.key_id, GenerateKem(k.key))

ASSUME NoneAssumption ==
    /\ None \notin Prekeys
    /\ None \notin {Published(k) : k \in Prekeys}
    /\ None \notin {GenerateKem(n) : n \in 1..MaxKeys}
    /\ \A k \in 1..MaxKeys, n \in 1..MaxRuns :
           KemCiphertext(PublicKey(GenerateKem(k)).pq, <<n, 5>>) # None

VARIABLES
    made,     \* number of key pairs generated; a pair is named by its number
    signed,   \* the signed prekey of each responder
    one_time, \* the one-time prekeys of each responder
    bundles,  \* the bundles published so far
    runs,     \* the successful calls of pqxdh_initiator
    answers   \* the successful calls of pqxdh_responder

vars == <<made, signed, one_time, bundles, runs, answers>>

-----------------------------------------------------------------------------
(* The two functions. *)

\* Variant for mutation: the optional leg is forgotten.
MasterSecret_FourLegs(dh1, dh2, dh3, dh4, dh5) ==
    Hkdf("PQXDH-MASTER", <<dh1, dh2, dh3, dh4>>)

\* dh5 is a sequence of at most one leg.
MasterSecret(dh1, dh2, dh3, dh4, dh5) ==
    Hkdf("PQXDH-MASTER", <<dh1, dh2, dh3, dh4>> \o dh5)

\* The first one-time prekey of a bundle.
First(bundle) ==
    IF bundle.one_time_prekeys = <<>> THEN None ELSE Head(bundle.one_time_prekeys)

\* pqxdh_initiator on a bundle that verifies.  n numbers the call, whose
\* encapsulations draw the randomness <<n, 1>> to <<n, 5>>.
InitiatorOutput(identity, ephemeral, bundle, n) ==
    LET kem  == KemSecretKey(identity)
        spk  == bundle.signed_prekey.public_key
        ik   == bundle.identity_kem_public
        opk  == First(bundle)
        leg1 == Encapsulate(ephemeral, spk, <<n, 1>>)
        leg2 == Encapsulate(kem, spk, <<n, 2>>)
        leg3 == Encapsulate(ephemeral, ik, <<n, 3>>)
        leg4 == Encapsulate(kem, ik, <<n, 4>>)
        leg5 == Encapsulate(ephemeral, opk.public_key, <<n, 5>>)
    IN [secret |-> MasterSecret(leg1.secret, leg2.secret, leg3.secret, leg4.secret,
                                IF opk = None THEN <<>> ELSE <<leg5.secret>>),
        message |-> [identity_public |-> Public(identity),
                     identity_kem_public |-> PublicKey(kem),
                     ephemeral_public |-> PublicKey(ephemeral),
                     ciphertexts |-> <<leg1.ct, leg2.ct, leg3.ct, leg4.ct>>,
                     one_time_ciphertext |-> IF opk = None THEN None ELSE leg5.ct,
                     signed_prekey_id |-> bundle.signed_prekey.key_id,
                     one_time_prekey_id |-> IF opk = None THEN None ELSE opk.key_id]]

\* PqxdhResponderKeys of an identity, its signed prekey and a one-time prekey.
ResponderKeys(identity, spk, opk) ==
    [identity |-> identity,
     signed_prekey |-> GenerateKem(spk.key), signed_prekey_id |-> spk.key_id,
     one_time_prekey |-> IF opk = None THEN None ELSE GenerateKem(opk.key),
     one_time_prekey_id |-> IF opk = None THEN None ELSE opk.key_id]

\* pqxdh_responder goes on when it holds the prekeys the message names.
HoldsPrekeys(keys, message) ==
    /\ message.signed_prekey_id = keys.signed_prekey_id
    /\ \/ /\ keys.one_time_prekey # None /\ message.one_time_prekey_id # None
          /\ message.one_time_prekey_id = keys.one_time_prekey_id
       \/ keys.one_time_prekey = None /\ message.one_time_prekey_id = None

\* Variant for mutation: the ciphertexts of the second and third leg swapped.
ResponderSecret_Swapped(keys, message) ==
    LET kem == KemSecretKey(keys.identity)
        ct  == message.ciphertexts
        ek  == message.ephemeral_public
        ik  == message.identity_kem_public
    IN MasterSecret(Decapsulate(keys.signed_prekey, ct[1], ek),
                    Decapsulate(keys.signed_prekey, ct[3], ik),
                    Decapsulate(kem, ct[2], ek),
                    Decapsulate(kem, ct[4], ik),
                    <<>>)

ResponderSecret(keys, message) ==
    LET kem == KemSecretKey(keys.identity)
        ct  == message.ciphertexts
        ek  == message.ephemeral_public
        ik  == message.identity_kem_public
    IN MasterSecret(Decapsulate(keys.signed_prekey, ct[1], ek),
                    Decapsulate(keys.signed_prekey, ct[2], ik),
                    Decapsulate(kem, ct[3], ek),
                    Decapsulate(kem, ct[4], ik),
                    IF keys.one_time_prekey = None \/ message.one_time_ciphertext = None
                    THEN <<>>
                    ELSE <<Decapsulate(keys.one_time_prekey, message.one_time_ciphertext, ek)>>)

\* ChaCha20-Poly1305 opens what was sealed with the same key only.
EncryptInitial(secret, text) == [key |-> secret, text |-> text]
Opens(secret, sealed) == sealed.key = secret

-----------------------------------------------------------------------------
(* The parties. *)

\* An identity was generated once; a process works with what it loads.
Loaded(party) == FromSeed(Seeds(Generate(party)))

Init ==
    /\ made = 0
    /\ signed = [r \in Responders |-> None]
    /\ one_time = [r \in Responders |-> {}]
    /\ bundles = {}
    /\ runs = <<>>
    /\ answers = <<>>

\* A new signed prekey takes the place of the old one, under any id.
RotateSigned(r) ==
    /\ made < MaxKeys
    /\ made' = made + 1
    /\ \E id \in Ids : signed' = [signed EXCEPT ![r] = [key_id |-> id, key |-> made + 1]]
    /\ UNCHANGED <<one_time, bundles, runs, answers>>

\* A new one-time prekey; one of the same id gives way.
AddOneTime(r) ==
    /\ made < MaxKeys
    /\ made' = made + 1
    /\ \E id \in Ids :
           one_time' = [one_time EXCEPT ![r] = {k \in @ : k.key_id # id}
                                               \cup {[key_id |-> id, key |-> made + 1]}]
    /\ UNCHANGED <<signed, bundles, runs, answers>>

\* The lists of one-time prekeys a caller may put into a bundle.
Lists(r) ==
    {<<>>} \cup {<<Published(k)>> : k \in one_time[r]}
           \cup {<<Published(p[1]), Published(p[2])>> :
                    p \in {q \in one_time[r] \X one_time[r] : q[1] # q[2]}}

\* The signed prekey k as responder r publishes it.
SignedBy(r, k) == SignedPrekey(Loaded(r), k.key_id, GenerateKem(k.key))

PublishBundle(r) ==
    /\ signed[r] # None
    /\ \E list \in Lists(r) :
           bundles' = bundles \cup {NewBundle(Loaded(r), SignedBy(r, signed[r]), list)}
    /\ Cardinality(bundles') <= MaxBundles
    /\ UNCHANGED <<made, signed, one_time, runs, answers>>

\* A bundle as it was published, or put together from two of them.
Offered ==
    bundles \cup {[b[1] EXCEPT !.one_time_prekeys = b[2].one_time_prekeys] : b \in bundles \X bundles}
            \cup {[b[1] EXCEPT !.signed_prekey = b[2].signed_prekey] : b \in bundles \X bundles}
            \cup {[b[1] EXCEPT !.signed_prekey.signature = b[2].signed_prekey.signature] :
                     b \in bundles \X bundles}

\* pqxdh_initiator and pqxdh_encrypt_initial.  The ephemeral key is new, or
\* that of a call the initiator makes again.
Initiate(i) ==
    /\ Len(runs) < MaxRuns
    /\ \E b \in Offered, e \in {made + 1} \cup {runs[n].ephemeral : n \in 1..Len(runs)} :
           /\ VerifyBundle(b)
           /\ e <= MaxKeys
           /\ made' = IF e = made + 1 THEN e ELSE made
           /\ \A n \in 1..Len(runs) : runs[n].ephemeral = e => runs[n].by = i
           /\ LET out == InitiatorOutput(Loaded(i), GenerateKem(e), b, Len(runs) + 1)
              IN runs' = Append(runs, [by |-> i, ephemeral |-> e, bundle |-> b,
                                       secret |-> out.secret, message |-> out.message,
                                       sealed |-> EncryptInitial(out.secret, Len(runs) + 1)])
    /\ UNCHANGED <<signed, one_time, bundles, answers>>

Take(r, k) == one_time' = [one_time EXCEPT ![r] = @ \ {k}]

\* pqxdh_responder and pqxdh_decrypt_initial, on any message, with or without
\* a one-time prekey taken from the store.
Answer(r) ==
    /\ Len(answers) < MaxAnswers /\ signed[r] # None
    /\ \E n \in 1..Len(runs), k \in one_time[r] \cup {None} :
           LET keys == ResponderKeys(Loaded(r), signed[r], k)
               secret == ResponderSecret(keys, runs[n].message)
           IN /\ HoldsPrekeys(keys, runs[n].message)
              /\ answers' = Append(answers, [by |-> r, run |-> n, keys |-> keys,
                                             secret |-> secret,
                                             opened |-> Opens(secret, runs[n].sealed)])
              /\ Take(r, k)
    /\ UNCHANGED <<made, signed, bundles, runs>>

\* pqxdh_responder returns an error; the prekey the caller took is gone.
Refuse(r) ==
    /\ signed[r] # None
    /\ \E n \in 1..Len(runs), k \in one_time[r] :
           /\ ~HoldsPrekeys(ResponderKeys(Loaded(r), signed[r], k), runs[n].message)
           /\ Take(r, k)
    /\ UNCHANGED <<made, signed, bundles, runs, answers>>

Next ==
    \/ \E r \in Responders : \/ RotateSigned(r) \/ AddOneTime(r) \/ PublishBundle(r)
                             \/ Answer(r) \/ Refuse(r)
    \/ \E i \in Initiators : Initiate(i)

Spec == Init /\ [][Next]_vars

-----------------------------------------------------------------------------
\* Type invariant of the prekeys, the calls and their results (PqxdhOutput).
TypeOK ==
    /\ made \in 0..MaxKeys
    /\ signed \in [Responders -> Prekeys \cup {None}]
    /\ one_time \in [Responders -> SUBSET Prekeys]
    /\ \A r \in Responders : \A k, l \in one_time[r] : k.key_id = l.key_id => k = l
    /\ Len(runs) <= MaxRuns /\ Len(answers) <= MaxAnswers
    /\ \A n \in 1..Len(runs) : runs[n].by \in Initiators /\ runs[n].ephemeral \in 1..made
    /\ \A n \in 1..Len(answers) : answers[n].by \in Responders /\ answers[n].run \in 1..Len(runs)

\* The keys of answer a are the private halves of those in bundle b.
SameKeys(keys, b) ==
    /\ Public(keys.identity) = b.identity_key
    /\ PublicKey(keys.signed_prekey) = b.signed_prekey.public_key
    /\ IF First(b) = None THEN keys.one_time_prekey = None
       ELSE keys.one_time_prekey # None
            /\ PublicKey(keys.one_time_prekey) = First(b).public_key

\* Whenever pqxdh_responder succeeds, it has the initiator's secret, and opens
\* its initial message, exactly if it used the private keys of the bundle the
\* initiator saw: a prekey replaced under the same id, or a message for
\* someone else, ends in an error of pqxdh_decrypt_initial and in nothing else.
Agreement ==
    \A n \in 1..Len(answers) :
        LET run == runs[answers[n].run]
        IN /\ answers[n].secret = run.secret <=> SameKeys(answers[n].keys, run.bundle)
           /\ answers[n].opened <=> answers[n].secret = run.secret

\* An initial message that used a one-time prekey ("consumed by a single
\* handshake", models.rs) is opened once: a repeated prekey message is refused
\* or does not open, also when its key id is in use again (pqxdh_responder).
OpenedOnce ==
    \A m, n \in 1..Len(answers) :
        /\ m # n /\ answers[m].opened /\ answers[n].opened
        /\ answers[m].run = answers[n].run
        => First(runs[answers[m].run].bundle) = None

\* What the signature of a bundle covers, and that signature.
Attested(b) ==
    [identity_key |-> b.identity_key, identity_kem_public |-> b.identity_kem_public,
     signed_prekey |-> Covered(b.signed_prekey), one_time_prekeys |-> b.one_time_prekeys,
     bundle_signature |-> b.bundle_signature]

\* pqxdh_initiator works only with keys that their owner issued together in
\* one bundle: parts of an older bundle do not pass PreKeyBundle::verify.  The
\* signature inside a signed prekey may be that of another one.
WholeBundles ==
    \A n \in 1..Len(runs) : \E b \in bundles : Attested(runs[n].bundle) = Attested(b)
=============================================================================
