--------------------------- MODULE SecureChannel ---------------------------
(***************************************************************************)
(* What a 1:1 session promises to the two ends of a conversation, without  *)
(* keys, headers or chains: a text that was sent may arrive in any order   *)
(* or be lost, but it arrives at most once, unchanged, and nothing else    *)
(* arrives.                                                                *)
(***************************************************************************)
EXTENDS Naturals, Sequences

CONSTANTS Parties, Texts

VARIABLES log,      \* log[p]: the texts p has sent, in order
          transit,  \* transit[p]: positions of log[p] on their way
          arrived   \* arrived[p]: positions of log[p] shown to the other end,
                    \*             each with the text that was shown

vars == <<log, transit, arrived>>

Init ==
    /\ log     = [p \in Parties |-> <<>>]
    /\ transit = [p \in Parties |-> {}]
    /\ arrived = [p \in Parties |-> {}]

Send(p, text) ==
    /\ log' = [log EXCEPT ![p] = Append(@, text)]
    /\ transit' = [transit EXCEPT ![p] = @ \union {Len(log[p])}]
    /\ UNCHANGED arrived

Arrive(p, n) ==
    /\ n \in transit[p]
    /\ transit' = [transit EXCEPT ![p] = @ \ {n}]
    /\ arrived' = [arrived EXCEPT ![p] = @ \union {<<n, log[p][n + 1]>>}]
    /\ UNCHANGED log

Lose(p, n) ==
    /\ n \in transit[p]
    /\ transit' = [transit EXCEPT ![p] = @ \ {n}]
    /\ UNCHANGED <<log, arrived>>

Next ==
    \E p \in Parties :
        \/ \E text \in Texts : Send(p, text)
        \/ \E n \in transit[p] : Arrive(p, n) \/ Lose(p, n)

Spec == Init /\ [][Next]_vars

=============================================================================
