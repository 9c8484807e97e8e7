----------------------------- MODULE MCDemoApp -----------------------------
(* Small instances of DemoApp for TLC. *)
EXTENDS DemoApp

Both(i, r) == [p \in Parties |-> IF p = "I" THEN i ELSE r]

\* Lost requests, and kills while a message is received.  The greeting counts
\* as a text of the initiator.
Faulty == [runs |-> Both(3, 2), texts |-> Both(2, 1), secrets |-> 3, bytes |-> {OtherByte},
           kills |-> {"prekey", "chat"}, faults |-> {"quit", "loss"}]

\* Ciphertexts that begin like a BUNDLE_REQ or a ratchet key, or are as long
\* as one; secrets enough for a second handshake in a run.
Marked == [runs |-> Both(2, 1), texts |-> Both(2, 1), secrets |-> 3,
           bytes |-> {BundleReq, RatchetPub, KeyLike, OtherByte},
           kills |-> {}, faults |-> {"quit"}]

\* A process may be killed between sending and saving, and a save may fail.
Unsafe == [runs |-> Both(2, 2), texts |-> Both(3, 1), secrets |-> 2, bytes |-> {OtherByte},
           kills |-> {"command", "ratchet_pub"}, faults |-> {"quit", "save"}]

AnyFaults == {Faulty, Marked, Unsafe}

\* A process may die between sending and saving.
KilledSending == {[Faulty EXCEPT !.runs = Both(2, 2), !.kills = {"command", "ratchet_pub"},
                                 !.faults = {}]}

\* One run of each, nothing goes wrong.
OneRun == {[Marked EXCEPT !.runs = Both(1, 1), !.texts = Both(2, 0),
                          !.bytes = {RatchetPub, OtherByte}, !.faults = {}]}
=============================================================================
