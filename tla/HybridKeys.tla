----------------------------- MODULE HybridKeys -----------------------------
(***************************************************************************)
(* The hybrid keys of presidium-crypto (identity.rs): identities that sign *)
(* with Ed25519 and ML-DSA-87, key pairs that agree on secrets with X25519 *)
(* and ML-KEM-1024, and prekey bundles.                                    *)
(*                                                                         *)
(* The primitives are symbolic: a secret is a name, what is computed from  *)
(* it is a term, and two terms are equal when they are the same            *)
(* computation on the same secrets.                                        *)
(***************************************************************************)
EXTENDS Sequences

\* HKDF-SHA256 (external): other labels or other inputs give other outputs.
Hkdf(label, ikm) == <<label, ikm>>

\* X25519 (external): both sides of an exchange compute the same secret.
X25519Public(secret) == <<"x25519", secret>>
DiffieHellman(secret, public) == <<"dh", {secret, public[2]}>>

\* ML-KEM-1024 (external).  Encapsulation draws randomness r; a ciphertext
\* made for another key decapsulates to an unrelated secret, not to an error.
EncapsulationKey(seed) == <<"ml-kem", seed>>
KemCiphertext(ek, r) == [to |-> ek, r |-> r]
KemSecret(ek, r) == <<"kem", ek, r>>
KemDecapsulate(seed, ct) ==
    IF ct.to = EncapsulationKey(seed) THEN KemSecret(ct.to, ct.r)
    ELSE <<"rejected", seed, ct>>

\* Ed25519 and ML-DSA-87 (external).
VerifyingKey(seed) == <<"verifying", seed>>
Signature(seed, message) == <<VerifyingKey(seed), message>>
Verifies(key, message, sig) == sig = <<key, message>>

-----------------------------------------------------------------------------
(* HybridKemPrivateKey and HybridKemPublicKey. *)

\* The key pair number n that a caller generates.
GenerateKem(n) == [classical |-> <<"random", n>>, pq |-> <<"random", n>>]

PublicKey(k) ==
    [classical |-> X25519Public(k.classical), pq |-> EncapsulationKey(k.pq)]

SharedSecret(classical, pq) == Hkdf("presidium-pqxdh-shared", <<classical, pq>>)

Encapsulate(k, peer, r) ==
    [ct |-> KemCiphertext(peer.pq, r),
     secret |-> SharedSecret(DiffieHellman(k.classical, peer.classical), KemSecret(peer.pq, r))]

Decapsulate(k, ct, peer) ==
    SharedSecret(DiffieHellman(k.classical, peer.classical), KemDecapsulate(k.pq, ct))

-----------------------------------------------------------------------------
(* IdentityKeyPair. *)

Generate(n) == [classical |-> <<"seed", n>>, pq |-> <<"seed", n>>]

\* What an identity record keeps, and the identity a later start makes of it.
Seeds(identity) == [classical_seed |-> identity.classical, pq_seed |-> identity.pq]
FromSeed(record) == [classical |-> record.classical_seed, pq |-> record.pq_seed]

Public(identity) ==
    [classical |-> VerifyingKey(identity.classical), pq |-> VerifyingKey(identity.pq)]

SignHybrid(identity, message) ==
    [classical |-> Signature(identity.classical, message),
     pq |-> Signature(identity.pq, message)]

VerifyHybrid(public, message, sig) ==
    /\ Verifies(public.classical, message, sig.classical)
    /\ Verifies(public.pq, message, sig.pq)

\* The key pair every process of an identity derives alike: the Ed25519 seed
\* serves as the X25519 secret.
KemSecretKey(identity) ==
    [classical |-> identity.classical,
     pq |-> Hkdf("presidium-identity-kem", identity.pq)]

KemPublic(identity) == PublicKey(KemSecretKey(identity))

-----------------------------------------------------------------------------
(* PreKeyBundle. *)

\* A one-time prekey as it is published, of key pair k.
PublicPrekey(id, k) == [key_id |-> id, public_key |-> PublicKey(k)]

\* A signed prekey.  Its time is that of its key pair.
SignedPrekey(identity, id, k) ==
    [key_id |-> id, public_key |-> PublicKey(k),
     signature |-> SignHybrid(identity, PublicKey(k).classical)]

\* The part of a signed prekey that bundle_bytes takes in: not its signature,
\* which no function verifies either.
Covered(prekey) == [key_id |-> prekey.key_id, public_key |-> prekey.public_key]

\* Variant for mutation: the one-time prekeys are not covered.
BundleBytes_NoOneTime(identity, kem, signed, one_time) == <<identity, kem, Covered(signed)>>

\* All fields have fixed sizes, so other fields give other bytes.
BundleBytes(identity, kem, signed, one_time) == <<identity, kem, Covered(signed), one_time>>

NewBundle(identity, signed, one_time) ==
    [identity_key |-> Public(identity),
     identity_kem_public |-> KemPublic(identity),
     signed_prekey |-> signed,
     one_time_prekeys |-> one_time,
     bundle_signature |->
        SignHybrid(identity, BundleBytes(Public(identity), KemPublic(identity), signed, one_time))]

VerifyBundle(b) ==
    VerifyHybrid(b.identity_key,
                 BundleBytes(b.identity_key, b.identity_kem_public,
                             b.signed_prekey, b.one_time_prekeys),
                 b.bundle_signature)
=============================================================================
