---------------------------- MODULE MCMessaging ----------------------------
(* Small instances of Delivery and GroupChat for TLC: direct and group      *)
(* messages share no state, so a behaviour is about one of them only.       *)
EXTENDS Delivery, GroupChat

VARIABLE work \* the kind of messages

messagingVars == <<vars, groupVars, work>>

MessagingInit == work \in {"direct", "group"} /\ Init /\ GroupInit

MessagingNext ==
    /\ \/ work = "direct" /\ Next /\ UNCHANGED groupVars
       \/ work = "group" /\ GroupNext /\ UNCHANGED vars
    /\ UNCHANGED work

MessagingSpec == MessagingInit /\ [][MessagingNext]_messagingVars
MessagingFairSpec == MessagingSpec /\ Fairness
=============================================================================
