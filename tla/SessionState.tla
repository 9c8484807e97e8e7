---------------------------- MODULE SessionState ----------------------------
(***************************************************************************)
(* The persisted form of a session (presidium-storage, session_state.rs)   *)
(* and its conversion from and to a live ratchet.  A snapshot keeps the    *)
(* bytes of a chain key and its index in two fields; the index is zero     *)
(* when there is no key.                                                   *)
(***************************************************************************)
EXTENDS DoubleRatchet

\* Variant for mutation: the position of the chain is not stored.
FromChain_NoIndex(chain) ==
    [our_ratchet_key      |-> chain.our_ratchet_key,
     their_ratchet_public |-> chain.their_ratchet_public,
     chain_key            |-> chain.chain_key,
     chain_index          |-> 0,
     skipped_message_keys |-> chain.skipped_message_keys]

\* Variant for mutation: the peer's ratchet key is not stored.
FromChain_NoPeer(chain) ==
    [our_ratchet_key      |-> chain.our_ratchet_key,
     their_ratchet_public |-> None,
     chain_key            |-> chain.chain_key,
     chain_index          |-> IF chain.chain_key = None THEN 0 ELSE chain.chain_key.index,
     skipped_message_keys |-> chain.skipped_message_keys]

\* ChainSnapshot::from_chain
FromChain(chain) ==
    [our_ratchet_key      |-> chain.our_ratchet_key,
     their_ratchet_public |-> chain.their_ratchet_public,
     chain_key            |-> chain.chain_key,
     chain_index          |-> IF chain.chain_key = None THEN 0 ELSE chain.chain_key.index,
     skipped_message_keys |-> chain.skipped_message_keys]

\* ChainSnapshot::to_chain: an index without a key is refused.
ChainLoads(snap) == snap.chain_key # None \/ snap.chain_index = 0

ToChain(snap) ==
    [our_ratchet_key      |-> snap.our_ratchet_key,
     their_ratchet_public |-> snap.their_ratchet_public,
     chain_key            |-> IF snap.chain_key = None
                              THEN None
                              ELSE [seed  |-> snap.chain_key.seed,
                                    index |-> snap.chain_index],
     skipped_message_keys |-> snap.skipped_message_keys]

FromRatchet(r) ==
    [root_key        |-> r.root_key,
     sending_chain   |-> FromChain(r.sending_chain),
     receiving_chain |-> FromChain(r.receiving_chain)]

Loads(snap) == ChainLoads(snap.sending_chain) /\ ChainLoads(snap.receiving_chain)

ToRatchet(snap) ==
    [root_key        |-> snap.root_key,
     sending_chain   |-> ToChain(snap.sending_chain),
     receiving_chain |-> ToChain(snap.receiving_chain)]

=============================================================================
