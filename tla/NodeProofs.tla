---------------------------- MODULE NodeProofs ----------------------------
(***************************************************************************)
(* Proofs about Delivery and NodeLoop.                                     *)
(*                                                                         *)
(* NodeLoop, for channels of any capacity and any number of lines and      *)
(* events: a request is in the control channel, in the pending map or has  *)
(* its one outcome.  The invariant is the property with the types; what    *)
(* needs proof is how Append and Tail change the number of requests in a   *)
(* channel.                                                                *)
(*                                                                         *)
(* Delivery, for any number of texts, requests and restarts: while         *)
(* requests do not overlap, last_outgoing names the row of the one request *)
(* under way, in the node or as an event: that is what makes the statuses  *)
(* true.                                                                   *)
(***************************************************************************)
EXTENDS Delivery, NodeLoop, FiniteSetTheorems, SequenceTheorems, TLAPS

-----------------------------------------------------------------------------
(* THE CHANNELS OF A NODE *)

(* What a channel's Append and Tail do to the places that hold a request *)

RequestPlaces(s) == {i \in DOMAIN s : s[i] = "SendDirect"}

\* The places of a finite channel are finite.
LEMMA PlacesFinite ==
    ASSUME NEW s \in Seq(Commands)
    PROVE  IsFiniteSet(RequestPlaces(s)) /\ Cardinality(RequestPlaces(s)) \in Nat
<1>1. IsFiniteSet(1..Len(s))
  BY FS_Interval
<1>2. RequestPlaces(s) \in SUBSET (1..Len(s))
  BY DEF RequestPlaces
<1>3. IsFiniteSet(RequestPlaces(s))
  BY <1>1, <1>2, FS_Subset, Zenon
<1> QED BY <1>3, FS_CardinalityType, Zenon

\* A sender's command takes a place of its own.
LEMMA AppendCounts ==
    ASSUME NEW s \in Seq(Commands), NEW c \in Commands
    PROVE  Cardinality(RequestPlaces(Append(s, c))) =
              Cardinality(RequestPlaces(s)) + (IF c = "SendDirect" THEN 1 ELSE 0)
<1> DEFINE t == Append(s, c)
           n == Len(s) + 1
<1>1. /\ DOMAIN s = 1..Len(s) /\ Len(s) \in Nat
      /\ DOMAIN t = 1..n
      /\ t[n] = c
      /\ \A i \in 1..Len(s) : t[i] = s[i]
  OBVIOUS
<1>2. n \notin RequestPlaces(s)
  BY <1>1 DEF RequestPlaces
<1>3. CASE c = "SendDirect"
  <2>1. RequestPlaces(t) = RequestPlaces(s) \cup {n}
    <3> HIDE DEF t
    <3> QED BY <1>1, <1>3 DEF RequestPlaces
  <2> QED BY <1>2, <1>3, <2>1, PlacesFinite, FS_AddElement, Zenon
<1>4. CASE c # "SendDirect"
  <2>1. RequestPlaces(t) = RequestPlaces(s)
    <3> HIDE DEF t
    <3> QED BY <1>1, <1>4 DEF RequestPlaces
  <2> QED BY <1>4, <2>1, PlacesFinite
<1> QED BY <1>3, <1>4, Zenon

\* The receiver takes the first command and the others move up by one place.
LEMMA TailCounts ==
    ASSUME NEW s \in Seq(Commands), s # <<>>
    PROVE  Cardinality(RequestPlaces(s)) =
              Cardinality(RequestPlaces(Tail(s))) + (IF Head(s) = "SendDirect" THEN 1 ELSE 0)
<1> DEFINE t == Tail(s)
           S == RequestPlaces(s)
           T == RequestPlaces(t)
           f == [i \in T |-> i + 1]
<1>1. /\ DOMAIN s = 1..Len(s) /\ Len(s) \in Nat \ {0}
      /\ t \in Seq(Commands) /\ DOMAIN t = 1..(Len(s) - 1)
      /\ Head(s) = s[1]
      /\ \A i \in 1..(Len(s) - 1) : t[i] = s[i + 1]
  BY HeadTailProperties
<1>2. IsFiniteSet(S) /\ IsFiniteSet(T) /\ Cardinality(S) \in Nat /\ Cardinality(T) \in Nat
  BY <1>1, PlacesFinite, Zenon
<1> HIDE DEF t
<1>3. T \subseteq 1..(Len(s) - 1) /\ S \subseteq 1..Len(s)
  BY <1>1, Zenon DEF RequestPlaces
<1>4. \A i \in T : i + 1 \in S \ {1}
  BY <1>1 DEF RequestPlaces
<1>5. \A j \in S \ {1} : j - 1 \in T /\ (j - 1) + 1 = j
  BY <1>1 DEF RequestPlaces
<1>6. 1 \in S <=> Head(s) = "SendDirect"
  BY <1>1 DEF RequestPlaces
<1> HIDE DEF S, T
<1>7. f \in Bijection(T, S \ {1})
  <2>1. f \in [T -> S \ {1}]
    BY <1>4, Zenon
  <2>2. \A a, b \in T : f[a] = f[b] => a = b
    BY <1>3
  <2>3. \A j \in S \ {1} : \E i \in T : f[i] = j
    BY <1>5, Zenon
  <2> QED BY <2>1, <2>2, <2>3, Zenon DEF Bijection, Injection, Surjection, IsInjective
<1>8. Cardinality(S \ {1}) = Cardinality(T)
  BY <1>2, <1>7, FS_Bijection, Zenon DEF ExistsBijection
<1>9. Cardinality(S \ {1}) = IF 1 \in S THEN Cardinality(S) - 1 ELSE Cardinality(S)
  BY <1>2, FS_RemoveElement, Zenon
<1>10. Cardinality(S) = Cardinality(T) + (IF Head(s) = "SendDirect" THEN 1 ELSE 0)
  BY <1>2, <1>6, <1>8, <1>9
<1> QED BY <1>10, Zenon DEF S, T, t

-----------------------------------------------------------------------------
(* Types *)

\* The channels and lists after a step of their tasks.
LEMMA SequenceSteps ==
    ASSUME NEW S, NEW s \in Seq(S)
    PROVE  /\ \A e \in S : Append(s, e) \in Seq(S) /\ Len(Append(s, e)) = Len(s) + 1
           /\ s # <<>> => /\ Head(s) \in S /\ Tail(s) \in Seq(S)
                          /\ Len(Tail(s)) = Len(s) - 1
           /\ Len(s) \in Nat
  BY HeadTailProperties

\* What handlers of the application send and what handlers of the node emit.
LEMMA HandlerLists ==
    /\ \A n \in Nat : Requests(n) \in Seq(Commands)
    /\ \A kind : Replies(kind) \subseteq Seq(Commands)
    /\ <<"SendDirect">> \in Seq(Commands) /\ <<"Publish">> \in Seq(Commands)
    /\ \A s \in Startup : s \in Seq(Commands)
    /\ \A kind \in Kinds, dial \in BOOLEAN :
          /\ <<[event |-> kind, dial |-> dial]>> \in Seq([event : Kinds, dial : BOOLEAN])
          /\ \A n \in Nat : [i \in 1..n |-> [event |-> kind, dial |-> dial]]
                              \in Seq([event : Kinds, dial : BOOLEAN])
<1>1. \A n \in Nat : Requests(n) \in Seq(Commands)
  BY DEF Requests, Commands
<1>2. \A kind : Replies(kind) \subseteq Seq(Commands)
  <2> TAKE kind
  <2>1. \A n \in 0..2 : Requests(n) \in Seq(Commands)
    BY <1>1
  <2>2. \A n \in 0..1 : Requests(n) \in Seq(Commands)
    BY <1>1
  <2>3. <<>> \in Seq(Commands)
    OBVIOUS
  <2> QED BY <2>1, <2>2, <2>3, Zenon DEF Replies
<1>3. <<"SendDirect">> \in Seq(Commands) /\ <<"Publish">> \in Seq(Commands)
  BY DEF Commands
<1>4. \A s \in Startup : s \in Seq(Commands)
  <2>1. <<"Subscribe", "ListenAddrs">> \in Seq(Commands) /\ <<"Subscribe", "Dial">> \in Seq(Commands)
    BY DEF Commands
  <2> QED BY <2>1, Zenon DEF Startup
<1>5. ASSUME NEW kind \in Kinds, NEW dial \in BOOLEAN
      PROVE  /\ <<[event |-> kind, dial |-> dial]>> \in Seq([event : Kinds, dial : BOOLEAN])
             /\ \A n \in Nat : [i \in 1..n |-> [event |-> kind, dial |-> dial]]
                              \in Seq([event : Kinds, dial : BOOLEAN])
  OBVIOUS
<1> QED BY <1>1, <1>2, <1>3, <1>4, <1>5, Zenon

\* The application's steps keep the types.
LEMMA AppKeepsTypes ==
    ASSUME LoopTypeOK, AppRecv \/ AppTyped \/ SendCommand \/ StopCalled \/ StopEnds
    PROVE  LoopTypeOK'
<1> USE DEF appVars, nodeVars
<1>1. CASE AppRecv
  <2>1. Tail(events_rx) \in Seq(Kinds) /\ Len(Tail(events_rx)) <= EventsCap
    BY <1>1, SequenceSteps, CapsAssumption DEF AppRecv, LoopTypeOK
  <2>2. todo' \in Seq(Commands)
    BY <1>1, HandlerLists, Zenon DEF AppRecv
  <2> QED BY <1>1, <2>1, <2>2, Zenon DEF AppRecv, LoopTypeOK
<1>2. CASE AppTyped
  <2>1. todo' \in Seq(Commands)
    BY <1>2, HandlerLists, Zenon DEF AppTyped
  <2> QED BY <1>2, <2>1 DEF AppTyped, LoopTypeOK
<1>3. CASE SendCommand
  <2>1. Head(todo) \in Commands /\ Tail(todo) \in Seq(Commands)
    BY <1>3, SequenceSteps, Zenon DEF SendCommand, LoopTypeOK
  <2>2. Append(control_rx, Head(todo)) \in Seq(Commands) /\ Len(Append(control_rx, Head(todo))) <= ControlCap
    BY <1>3, <2>1, SequenceSteps, CapsAssumption DEF SendCommand, LoopTypeOK, ControlRoom
  <2> QED BY <1>3, <2>1, <2>2 DEF SendCommand, LoopTypeOK
<1>4. CASE StopCalled
  BY <1>4, Zenon DEF StopCalled, LoopTypeOK
<1>5. CASE StopEnds
  BY <1>5 DEF StopEnds, LoopTypeOK
<1> QED BY <1>1, <1>2, <1>3, <1>4, <1>5, Zenon

Swarms == [subscribed : BOOLEAN, dials : Nat, connected : Nat]

\* The swarm's record after the changes the node's handlers make.
LEMMA SwarmSteps ==
    ASSUME NEW w \in Swarms,
           NEW b \in BOOLEAN, NEW d \in Nat, NEW n \in Nat
    PROVE  /\ [w EXCEPT !.dials = d, !.subscribed = b] \in Swarms
           /\ [w EXCEPT !.connected = n, !.dials = d] \in Swarms
           /\ [w EXCEPT !.connected = n] \in Swarms
           /\ [w EXCEPT !.dials = d] \in Swarms
  BY Zenon DEF Swarms

\* The node's steps keep the types.
LEMMA NodeKeepsTypes ==
    ASSUME LoopTypeOK, NodeControl \/ SwarmEvent \/ EmitEvent
    PROVE  LoopTypeOK'
<1> USE DEF appVars, nodeVars
<1>0. swarm \in Swarms /\ swarm.subscribed \in BOOLEAN /\ swarm.dials \in Nat /\ swarm.connected \in Nat
      /\ (swarm' \in Swarms => swarm' \in [subscribed : BOOLEAN, dials : Nat, connected : Nat])
  BY Zenon DEF LoopTypeOK, Swarms
<1>1. CASE NodeControl
  <2>1. Tail(control_rx) \in Seq(Commands) /\ Len(Tail(control_rx)) <= ControlCap
    BY <1>1, SequenceSteps, CapsAssumption DEF NodeControl, LoopTypeOK
  <2> DEFINE d == IF Head(control_rx) = "Dial" THEN swarm.dials + 1 ELSE swarm.dials
             b == swarm.subscribed \/ Head(control_rx) = "Subscribe"
  <2>2. swarm' = [swarm EXCEPT !.dials = d, !.subscribed = b]
    BY <1>1, Zenon DEF NodeControl
  <2>3. d \in Nat /\ b \in BOOLEAN
    BY <1>0
  <2> HIDE DEF d, b
  <2>4. swarm' \in Swarms
    BY <1>0, <2>2, <2>3, SwarmSteps, Zenon
  <2> QED BY <1>0, <1>1, <2>1, <2>4 DEF NodeControl, LoopTypeOK
<1>2. ASSUME NEW kind \in Kinds, NEW n \in Nat, NEW dial \in BOOLEAN, Unasked(kind, n, dial),
             swarm' \in Swarms
      PROVE  LoopTypeOK'
  BY <1>0, <1>2, HandlerLists DEF Unasked, LoopTypeOK
<1>3. CASE OnNewListenAddr \/ OnIncoming \/ OnDiscovered \/ OnRoutingUpdated \/ OnGossipMessage \/ OnRequest
  <2>1. swarm' \in Swarms
    <3>1. swarm.connected + 1 \in Nat
      BY <1>0
    <3> QED BY <1>0, <1>3, <3>1, SwarmSteps, Zenon
            DEF OnNewListenAddr, OnIncoming, OnDiscovered, OnRoutingUpdated, OnGossipMessage, OnRequest
  <2> QED BY <1>2, <1>3, <2>1, ConfigAssumption, Zenon
          DEF OnNewListenAddr, OnIncoming, OnDiscovered, OnRoutingUpdated, OnGossipMessage, OnRequest, Kinds
<1>4. CASE OnDialed \/ OnDialFailed \/ OnConnectionClosed
  <2>1. swarm' \in Swarms
    <3>1. swarm.connected + 1 \in Nat
          /\ (swarm.dials > 0 => swarm.dials - 1 \in Nat)
          /\ (swarm.connected > 0 => swarm.connected - 1 \in Nat)
      BY <1>0
    <3>2. CASE OnDialed
      BY <1>0, <3>1, <3>2, SwarmSteps, Zenon DEF OnDialed
    <3>3. CASE OnDialFailed
      BY <1>0, <3>1, <3>3, SwarmSteps, Zenon DEF OnDialFailed
    <3>4. CASE OnConnectionClosed
      BY <1>0, <3>1, <3>4, SwarmSteps, Zenon DEF OnConnectionClosed
    <3> QED BY <1>4, <3>2, <3>3, <3>4, Zenon
  <2>2. emitting' \in Seq([event : Kinds, dial : BOOLEAN])
    BY <1>4, HandlerLists, Zenon DEF OnDialed, OnDialFailed, OnConnectionClosed, LoopTypeOK, Kinds
  <2> QED BY <1>0, <1>4, <2>1, <2>2, Zenon DEF OnDialed, OnDialFailed, OnConnectionClosed, LoopTypeOK
<1>5. ASSUME NEW kind \in Kinds, OnOutcome(kind) PROVE LoopTypeOK'
  BY <1>5, HandlerLists DEF OnOutcome, LoopTypeOK
<1>6. CASE EmitEvent
  <2>1. Head(emitting) \in [event : Kinds, dial : BOOLEAN]
        /\ Tail(emitting) \in Seq([event : Kinds, dial : BOOLEAN])
    BY <1>6, SequenceSteps, Zenon DEF EmitEvent, LoopTypeOK
  <2>2. events_rx' \in Seq(Kinds) /\ Len(events_rx') <= EventsCap
    BY <1>6, <2>1, SequenceSteps, CapsAssumption DEF EmitEvent, LoopTypeOK, EventsRoom
  <2>3. swarm' \in Swarms
    <3> DEFINE d == IF Head(emitting).dial THEN swarm.dials + 1 ELSE swarm.dials
    <3>1. swarm' = [swarm EXCEPT !.dials = d] /\ d \in Nat
      BY <1>0, <1>6, <2>1 DEF EmitEvent
    <3> HIDE DEF d
    <3> QED BY <1>0, <3>1, SwarmSteps, Zenon
  <2> QED BY <1>0, <1>6, <2>1, <2>2, <2>3, Zenon DEF EmitEvent, LoopTypeOK
<1> QED BY <1>1, <1>3, <1>4, <1>5, <1>6, Zenon DEF SwarmEvent, Kinds

-----------------------------------------------------------------------------
(* The theorems *)

LoopInv == LoopTypeOK /\ RequestsAccounted

\* The invariant holds in the initial states.
LEMMA InitialInv == LoopInit => LoopInv
<1> SUFFICES ASSUME LoopInit PROVE LoopInv
  BY Zenon
<1>1. LoopTypeOK
  BY HandlerLists, CapsAssumption DEF LoopInit, LoopTypeOK
<1>2. Waiting = {}
  BY DEF LoopInit, Waiting
<1>3. Cardinality(Waiting) = 0
  BY <1>2, FS_EmptySet, Zenon
<1> QED BY <1>1, <1>3 DEF LoopInv, RequestsAccounted, LoopInit

\* Every step keeps it.
LEMMA NextKeepsInv == LoopInv /\ [LoopNext]_loopVars => LoopInv'
<1> SUFFICES ASSUME LoopInv, [LoopNext]_loopVars PROVE LoopInv'
  BY Zenon
<1> USE DEF appVars, nodeVars
<1>1. LoopTypeOK'
  <2>1. CASE UNCHANGED loopVars
    BY <2>1, Zenon DEF loopVars, LoopInv, LoopTypeOK
  <2> QED BY <2>1, AppKeepsTypes, NodeKeepsTypes, Zenon DEF LoopNext, LoopInv
<1>2. Waiting = RequestPlaces(control_rx) /\ Waiting' = RequestPlaces(control_rx')
      /\ Cardinality(Waiting) \in Nat
  BY PlacesFinite, Zenon DEF Waiting, RequestPlaces, LoopInv, LoopTypeOK
<1>3. CASE SendCommand
  <2>1. Head(todo) \in Commands
    BY <1>3, SequenceSteps, Zenon DEF SendCommand, LoopInv, LoopTypeOK
  <2>2. Cardinality(Waiting') = Cardinality(Waiting) + (IF Head(todo) = "SendDirect" THEN 1 ELSE 0)
    BY <1>2, <1>3, <2>1, AppendCounts, Zenon DEF SendCommand, LoopInv, LoopTypeOK
  <2>3. /\ sent' = IF Head(todo) = "SendDirect" THEN sent + 1 ELSE sent
        /\ outbound' = outbound /\ settled' = settled
        /\ sent = Cardinality(Waiting) + outbound + settled
        /\ sent \in Nat /\ outbound \in Nat /\ settled \in Nat
    BY <1>3, Zenon DEF SendCommand, LoopInv, LoopTypeOK, RequestsAccounted
  <2>4. sent' = Cardinality(Waiting') + outbound' + settled'
    BY <1>2, <2>2, <2>3
  <2> QED BY <1>1, <2>4, Zenon DEF LoopInv, RequestsAccounted
<1>4. CASE NodeControl
  <2>1. Cardinality(Waiting) = Cardinality(Waiting') + (IF Head(control_rx) = "SendDirect" THEN 1 ELSE 0)
    BY <1>2, <1>4, TailCounts, Zenon DEF NodeControl, LoopInv, LoopTypeOK
  <2>2. Cardinality(Waiting') \in Nat
    BY <1>1, <1>2, PlacesFinite, Zenon DEF LoopTypeOK
  <2> QED BY <1>1, <1>2, <1>4, <2>1, <2>2 DEF NodeControl, LoopInv, LoopTypeOK, RequestsAccounted
<1>5. ASSUME NEW kind, OnOutcome(kind) PROVE LoopInv'
  BY <1>1, <1>2, <1>5 DEF OnOutcome, LoopInv, LoopTypeOK, RequestsAccounted
<1>6. CASE UNCHANGED <<control_rx, outbound, sent, settled>>
  BY <1>1, <1>2, <1>6, Zenon DEF LoopInv, RequestsAccounted
<1>7. CASE AppRecv \/ AppTyped \/ StopCalled \/ StopEnds \/ EmitEvent \/ UNCHANGED loopVars
  BY <1>6, <1>7, Zenon DEF AppRecv, AppTyped, StopCalled, StopEnds, EmitEvent, loopVars
<1>8. CASE \/ OnNewListenAddr \/ OnIncoming \/ OnDialed \/ OnDialFailed \/ OnConnectionClosed
           \/ OnDiscovered \/ OnRoutingUpdated \/ OnGossipMessage \/ OnRequest
  BY <1>6, <1>8, Zenon DEF OnNewListenAddr, OnIncoming, OnDialed, OnDialFailed, OnConnectionClosed,
     OnDiscovered, OnRoutingUpdated, OnGossipMessage, OnRequest, Unasked
<1> QED BY <1>3, <1>4, <1>5, <1>7, <1>8, Zenon DEF LoopNext, SwarmEvent

\* The invariant holds in every reachable state.
LEMMA LoopInvariant == LoopSpec => []LoopInv
  BY InitialInv, NextKeepsInv, PTL DEF LoopSpec

\* Neither channel of P2pNode is ever fuller than its capacity, and what the
\* two tasks hold and send are commands and events of the right kinds.
THEOREM ChannelsBounded == LoopSpec => []LoopTypeOK
<1>1. LoopInv => LoopTypeOK
  BY Zenon DEF LoopInv
<1> QED BY <1>1, LoopInvariant, PTL

\* run_loop loses no request and settles none twice: each one that
\* send_direct put into the channel waits there, is in the pending map, or has
\* had one outcome, however the two tasks interleave and whatever the swarm
\* does, also after stop.
THEOREM RequestsNeverLost == LoopSpec => []RequestsAccounted
<1>1. LoopInv => RequestsAccounted
  BY Zenon DEF LoopInv
<1> QED BY <1>1, LoopInvariant, PTL

-----------------------------------------------------------------------------
(* DELIVERY *)

\* A request the peer has answered is recorded as accepted.
AnsweredInv ==
    \A n \in pending \ unanswered : requests[n] # None => requests[n] \in accepted

\* Where the outcome of the remembered row is, while requests do not overlap.
Awaited ==
    \/ last_outgoing = None
    \/ /\ events = <<>>
       /\ \E n \in pending : pending = {n} /\ requests[n] = last_outgoing
    \/ /\ pending = {} /\ events = <<"DirectDelivered">> /\ last_outgoing \in accepted
    \/ /\ pending = {} /\ events = <<"DirectFailed">> /\ last_outgoing \in failed

AloneInv ==
    ~overlapped =>
        /\ StatusTrue /\ Awaited
        /\ Outstanding <= 1

\* What the peer has in its channel was recorded as accepted.
InboxInv == inbox \in Seq(accepted \union {None})

IInv == TypeOK /\ IsFiniteSet(pending) /\ AnsweredInv /\ InboxInv /\ AloneInv

-----------------------------------------------------------------------------
(* Types.  Rows are only added, so that what names a row goes on doing so. *)

LEMMA InitTypes == Init => IInv
<1> SUFFICES ASSUME Init PROVE IInv
    BY Zenon
<1>0. Len(<<>>) = 0 /\ \A S : <<>> \in Seq(S)
    BY EmptySeq, Zenon
<1>1. TypeOK
  <2>1. /\ rows \in Seq(Statuses) /\ events \in Seq({"DirectDelivered", "DirectFailed"})
        /\ requests \in Seq((1..Len(rows)) \union {None})
        /\ inbox \in Seq((1..Len(rows)) \union {None})
      BY <1>0, Zenon DEF Init
  <2> QED BY <2>1, Zenon DEF Init, TypeOK
<1>2. IsFiniteSet({}) /\ Cardinality({}) = 0
    BY FS_EmptySet, Zenon
<1>3. Outstanding = 0
    BY <1>2 DEF Init, Outstanding
<1>4. IsFiniteSet(pending) /\ AnsweredInv /\ InboxInv /\ StatusTrue /\ Awaited
    BY <1>0, <1>2 DEF Init, AnsweredInv, InboxInv, StatusTrue, Awaited
<1> QED BY <1>1, <1>3, <1>4 DEF IInv, AloneInv

\* send_direct adds one request that is under way and not answered.
LEMMA Sent ==
    ASSUME TypeOK, IsFiniteSet(pending), NEW row, NEW R, row \in R,
           (1..Len(rows)) \union {None} \subseteq R, SendDirect(row)
    PROVE  LET n == Len(requests) + 1
           IN /\ n \notin pending /\ n \in Nat
              /\ requests' \in Seq(R) /\ Len(requests') = n
              /\ requests'[n] = row /\ \A i \in 1..Len(requests) : requests'[i] = requests[i]
              /\ pending' = pending \union {n} /\ unanswered' = unanswered \union {n}
              /\ pending' \subseteq 1..Len(requests') /\ unanswered' \subseteq pending'
              /\ IsFiniteSet(pending') /\ Cardinality(pending') = Cardinality(pending) + 1
<1>1. requests \in Seq(R)
    BY DEF TypeOK
<1>2. /\ requests' = Append(requests, row)
      /\ pending' = pending \union {Len(requests')}
      /\ unanswered' = unanswered \union {Len(requests')}
    BY Zenon DEF SendDirect
<1>3. /\ requests' \in Seq(R) /\ Len(requests') = Len(requests) + 1
      /\ \A i \in 1..Len(requests) : requests'[i] = requests[i]
      /\ requests'[Len(requests) + 1] = row
    BY <1>1, <1>2, AppendProperties
<1>4. Len(requests) \in Nat /\ pending \subseteq 1..Len(requests) /\ unanswered \subseteq pending
    BY DEF TypeOK
<1>5. Len(requests) + 1 \notin pending
    BY <1>4
<1>6. /\ IsFiniteSet(pending \union {Len(requests) + 1})
      /\ Cardinality(pending \union {Len(requests) + 1}) = Cardinality(pending) + 1
    BY <1>5, FS_AddElement, Zenon
<1>7. /\ pending' = pending \union {Len(requests) + 1}
      /\ unanswered' = unanswered \union {Len(requests) + 1}
    BY <1>2, <1>3, Zenon
<1>8. pending' \subseteq 1..Len(requests') /\ unanswered' \subseteq pending'
  <2>1. 1..(Len(requests) + 1) = (1..Len(requests)) \union {Len(requests) + 1}
      BY <1>4
  <2>2. 1..Len(requests') = 1..(Len(requests) + 1)
      BY <1>3, Zenon
  <2> QED BY <1>4, <1>7, <2>1, <2>2, Zenon
<1> QED BY <1>2, <1>3, <1>4, <1>5, <1>6, <1>7, <1>8

\* One request under way is pending or an event.
LEMMA UnderWay ==
    ASSUME TypeOK, IsFiniteSet(pending)
    PROVE  /\ Outstanding \in Nat /\ Len(events) \in Nat /\ Cardinality(pending) \in Nat
           /\ Outstanding = 0 => pending = {} /\ events = <<>>
           /\ \A n \in pending : Outstanding <= 1 => pending = {n} /\ events = <<>>
           /\ events # <<>> /\ Outstanding <= 1 => pending = {} /\ Len(events) = 1
<1>1. Len(events) \in Nat /\ (Len(events) = 0 <=> events = <<>>)
    BY EmptySeq DEF TypeOK
<1>2. Cardinality(pending) \in Nat /\ (Cardinality(pending) = 0 <=> pending = {})
    BY FS_CardinalityType, FS_EmptySet, Zenon
<1>3. ASSUME NEW n \in pending, Cardinality(pending) = 1  PROVE pending = {n}
    BY <1>3, FS_Singleton
<1>4. Outstanding = Cardinality(pending) + Len(events)
    BY Zenon DEF Outstanding
<1>5. \A c, l \in Nat :
          /\ c + l \in Nat /\ (c + l = 0 => c = 0 /\ l = 0)
          /\ c + l <= 1 /\ c # 0 => c = 1 /\ l = 0
          /\ c + l <= 1 /\ l # 0 => c = 0 /\ l = 1
    OBVIOUS
<1>6. ASSUME NEW n \in pending, Outstanding <= 1  PROVE pending = {n} /\ events = <<>>
    BY <1>1, <1>2, <1>3, <1>4, <1>5, <1>6, Zenon
<1>7. Outstanding \in Nat /\ (Outstanding = 0 => pending = {} /\ events = <<>>)
    BY <1>1, <1>2, <1>4, <1>5, Zenon
<1>8. events # <<>> /\ Outstanding <= 1 => pending = {} /\ Len(events) = 1
    BY <1>1, <1>2, <1>4, <1>5, Zenon
<1> QED BY <1>1, <1>2, <1>6, <1>7, <1>8, Zenon

\* Two requests do not overlap if the first has no outcome to wait for.
LEMMA NotYet ==
    ASSUME IInv, NEW row, SendDirect(row), ~overlapped'
    PROVE  /\ ~overlapped /\ pending = {} /\ events = <<>> /\ last_outgoing = None
           /\ StatusTrue
<1>1. ~overlapped /\ ~(Outstanding > 0)
    BY Zenon DEF SendDirect, IInv, TypeOK
<1>2. Outstanding = 0
    BY <1>1, UnderWay DEF IInv
<1>3. pending = {} /\ events = <<>>
    BY <1>2, UnderWay, Zenon DEF IInv
<1>4. Awaited /\ StatusTrue
    BY <1>1, Zenon DEF IInv, AloneInv
<1>5. events # <<"DirectDelivered">> /\ events # <<"DirectFailed">>
    BY <1>3, Zenon
<1> QED BY <1>1, <1>3, <1>4, <1>5, Zenon DEF Awaited

LEMMA CommandKeeps == ASSUME IInv, Command PROVE IInv'
<1> DEFINE n == Len(requests) + 1
           R == (1..Len(rows')) \union {None}
<1>0. TypeOK /\ IsFiniteSet(pending) /\ AnsweredInv /\ InboxInv /\ AloneInv
    BY Zenon DEF IInv
<1>1. /\ rows' = Append(rows, "Sent") /\ last_outgoing' = Len(rows')
      /\ SendDirect(Len(rows')) /\ UNCHANGED <<events, accepted, failed, restarts, peerVars>>
    BY Zenon DEF Command, InsertMessage
<1>2. /\ rows' \in Seq(Statuses) /\ Len(rows') = Len(rows) + 1 /\ Len(rows) \in Nat
      /\ \A i \in 1..Len(rows) : rows'[i] = rows[i]
      /\ rows'[Len(rows) + 1] = "Sent"
    BY <1>0, <1>1, AppendProperties DEF TypeOK, Statuses
<1>3. 1..Len(rows) \subseteq 1..Len(rows') /\ Len(rows') \in 1..Len(rows')
    BY <1>2
<1>4. /\ n \notin pending /\ n \in Nat /\ requests' \in Seq(R)
      /\ requests'[n] = Len(rows') /\ \A i \in 1..Len(requests) : requests'[i] = requests[i]
      /\ pending' = pending \union {n} /\ unanswered' = unanswered \union {n}
      /\ pending' \subseteq 1..Len(requests') /\ unanswered' \subseteq pending'
      /\ IsFiniteSet(pending') /\ Cardinality(pending') = Cardinality(pending) + 1
  <2>1. (1..Len(rows)) \union {None} \subseteq R /\ Len(rows') \in R
      BY <1>3, Zenon
  <2> HIDE DEF R
  <2> QED BY <1>0, <1>1, <2>1, Sent, Zenon
<1>5. TypeOK'
  <2>1. inbox' \in Seq(R)
    <3>1. inbox \in Seq((1..Len(rows)) \union {None}) /\ (1..Len(rows)) \union {None} \subseteq R
        BY <1>0, <1>3, Zenon DEF TypeOK
    <3> QED BY <1>1, <3>1 DEF peerVars
  <2>2. accepted' \subseteq 1..Len(rows') /\ failed' \subseteq 1..Len(rows')
      BY <1>0, <1>1, <1>3, Zenon DEF TypeOK
  <2>3. overlapped' \in BOOLEAN
      BY <1>1, Zenon DEF SendDirect
  <2> QED BY <2>1, <2>2, <2>3, <1>0, <1>1, <1>2, <1>3, <1>4, Zenon DEF TypeOK, peerVars
<1>6. AnsweredInv' /\ InboxInv'
  <2>1. pending' \ unanswered' \subseteq pending \ unanswered
      BY <1>4, Zenon
  <2>2. pending \subseteq 1..Len(requests)
      BY <1>0, Zenon DEF TypeOK
  <2> QED BY <2>1, <2>2, <1>0, <1>1, <1>4, Zenon DEF AnsweredInv, InboxInv, peerVars
<1>7. AloneInv'
  <2> SUFFICES ASSUME ~overlapped' PROVE StatusTrue' /\ Awaited' /\ Outstanding' <= 1
      BY Zenon DEF AloneInv
  <2>1. pending = {} /\ events = <<>> /\ StatusTrue
      BY <1>1, NotYet, Zenon
  <2>2. StatusTrue'
      BY <2>1, <1>1, <1>2 DEF StatusTrue
  <2>3. Awaited'
      BY <2>1, <1>1, <1>4, Zenon DEF Awaited
  <2>4. Cardinality(pending') = 1 /\ Len(events') = 0
      BY <2>1, <1>1, <1>4, FS_EmptySet, EmptySeq
  <2>5. Outstanding' <= 1
      BY <2>4 DEF Outstanding
  <2> QED BY <2>2, <2>3, <2>5, Zenon
<1> QED BY <1>4, <1>5, <1>6, <1>7, Zenon DEF IInv

LEMMA SendOtherKeeps == ASSUME IInv, SendOther PROVE IInv'
<1> DEFINE n == Len(requests) + 1
           R == (1..Len(rows)) \union {None}
<1>0. TypeOK /\ IsFiniteSet(pending) /\ AnsweredInv /\ InboxInv /\ AloneInv
    BY Zenon DEF IInv
<1>1. /\ SendDirect(None)
      /\ UNCHANGED <<rows, last_outgoing, events, accepted, failed, restarts, peerVars>>
    BY Zenon DEF SendOther
<1>2. /\ n \notin pending /\ n \in Nat /\ requests' \in Seq(R)
      /\ requests'[n] = None /\ \A i \in 1..Len(requests) : requests'[i] = requests[i]
      /\ pending' = pending \union {n} /\ unanswered' = unanswered \union {n}
      /\ pending' \subseteq 1..Len(requests') /\ unanswered' \subseteq pending'
      /\ IsFiniteSet(pending') /\ Cardinality(pending') = Cardinality(pending) + 1
  <2>1. (1..Len(rows)) \union {None} \subseteq R /\ None \in R
      BY Zenon
  <2> HIDE DEF R
  <2> QED BY <1>0, <1>1, <2>1, Sent, Zenon
<1>3. TypeOK'
  <2>1. overlapped' \in BOOLEAN
      BY <1>1, Zenon DEF SendDirect
  <2> QED BY <2>1, <1>0, <1>1, <1>2, Zenon DEF TypeOK, peerVars
<1>4. AnsweredInv' /\ InboxInv'
  <2>1. pending' \ unanswered' \subseteq pending \ unanswered
      BY <1>2, Zenon
  <2>2. pending \subseteq 1..Len(requests)
      BY <1>0, Zenon DEF TypeOK
  <2> QED BY <2>1, <2>2, <1>0, <1>1, <1>2, Zenon DEF AnsweredInv, InboxInv, peerVars
<1>5. AloneInv'
  <2> SUFFICES ASSUME ~overlapped' PROVE StatusTrue' /\ Awaited' /\ Outstanding' <= 1
      BY Zenon DEF AloneInv
  <2>1. pending = {} /\ events = <<>> /\ StatusTrue /\ last_outgoing = None
      BY <1>1, NotYet, Zenon
  <2>2. StatusTrue' /\ Awaited'
      BY <2>1, <1>1, Zenon DEF StatusTrue, Awaited
  <2>3. Cardinality(pending') = 1 /\ Len(events') = 0
      BY <2>1, <1>1, <1>2, FS_EmptySet, EmptySeq
  <2>4. Outstanding' <= 1
      BY <2>3 DEF Outstanding
  <2> QED BY <2>2, <2>4, Zenon
<1> QED BY <1>2, <1>3, <1>4, <1>5, Zenon DEF IInv

LEMMA RemoteAcceptsKeeps == ASSUME IInv, NEW n \in pending, RemoteAccepts(n) PROVE IInv'
<1>0. TypeOK /\ IsFiniteSet(pending) /\ AnsweredInv /\ InboxInv /\ AloneInv
    BY Zenon DEF IInv
<1>1. /\ unanswered' = unanswered \ {n} /\ inbox' = Append(inbox, requests[n])
      /\ accepted' = accepted \union ({requests[n]} \ {None})
      /\ UNCHANGED <<rows, last_outgoing, pending, events, requests, failed, overlapped, restarts,
                     peer_up, shown, lost, misread>>
    BY Zenon DEF RemoteAccepts
<1>2. requests[n] \in (1..Len(rows)) \union {None}
    BY <1>0, ElementOfSeq, Zenon DEF TypeOK
<1>3. accepted \subseteq accepted' /\ requests[n] \in accepted' \union {None}
    BY <1>1, Zenon
<1>4. InboxInv'
  <2>1. inbox \in Seq(accepted' \union {None})
      BY <1>0, <1>3 DEF InboxInv
  <2> QED BY <1>1, <1>3, <2>1, AppendProperties, Zenon DEF InboxInv
<1>5. TypeOK'
  <2>1. inbox' \in Seq((1..Len(rows)) \union {None})
      BY <1>0, <1>1, <1>2, AppendProperties, Zenon DEF TypeOK
  <2> QED BY <2>1, <1>0, <1>1, <1>2, Zenon DEF TypeOK
<1>6. AnsweredInv'
    BY <1>0, <1>1, <1>3, Zenon DEF AnsweredInv
<1>7. AloneInv'
  <2> SUFFICES ASSUME ~overlapped PROVE StatusTrue' /\ Awaited' /\ Outstanding' <= 1
      BY <1>1, Zenon DEF AloneInv
  <2> QED BY <1>0, <1>1, <1>3, Zenon DEF AloneInv, StatusTrue, Awaited, Outstanding
<1> QED BY <1>0, <1>1, <1>4, <1>5, <1>6, <1>7, Zenon DEF IInv

LEMMA PeerKeeps == ASSUME IInv, RemoteHandles \/ RemoteEnds PROVE IInv'
<1>0. TypeOK /\ IsFiniteSet(pending) /\ AnsweredInv /\ InboxInv /\ AloneInv
    BY Zenon DEF IInv
<1>1. UNCHANGED <<rows, last_outgoing, pending, unanswered, events, requests, accepted, failed,
                  overlapped, restarts>>
    BY Zenon DEF RemoteHandles, RemoteEnds
<1>2. /\ inbox' \in Seq(accepted \union {None})
      /\ inbox' \in Seq((1..Len(rows)) \union {None})
      /\ shown' \subseteq accepted /\ lost' \subseteq accepted /\ misread' \subseteq accepted
      /\ peer_up' \in BOOLEAN
  <2>1. CASE RemoteHandles
    <3>1. inbox # <<>> /\ inbox' = Tail(inbox) /\ lost' = lost /\ peer_up' = peer_up
        BY <2>1, Zenon DEF RemoteHandles
    <3>2. /\ Head(inbox) \in accepted \union {None}
          /\ inbox' \in Seq(accepted \union {None})
        BY <1>0, <3>1, HeadTailProperties, Zenon DEF InboxInv
    <3>3. inbox' \in Seq((1..Len(rows)) \union {None})
        BY <1>0, <3>1, HeadTailProperties, Zenon DEF TypeOK
    <3> QED BY <2>1, <1>0, <3>1, <3>2, <3>3, Zenon DEF TypeOK, RemoteHandles
  <2>2. CASE RemoteEnds
    <3>1. \A i \in 1..Len(inbox) : inbox[i] \in accepted \union {None}
        BY <1>0, ElementOfSeq, Zenon DEF InboxInv
    <3>2. \A S : <<>> \in Seq(S)
        BY EmptySeq, Zenon
    <3> QED BY <2>2, <1>0, <3>1, <3>2, Zenon DEF TypeOK, RemoteEnds
  <2> QED BY <2>1, <2>2, Zenon
<1>3. TypeOK' /\ AnsweredInv' /\ InboxInv'
    BY <1>0, <1>1, <1>2, Zenon DEF TypeOK, AnsweredInv, InboxInv
<1>4. AloneInv'
    BY <1>0, <1>1, Zenon DEF AloneInv, StatusTrue, Awaited, Outstanding
<1> QED BY <1>0, <1>1, <1>3, <1>4, Zenon DEF IInv

\* The outcome of a request moves from the node to its channel of events.
LEMMA Moved ==
    ASSUME TypeOK, IsFiniteSet(pending), NEW n \in pending, NEW kind,
           kind \in {"DirectDelivered", "DirectFailed"},
           pending' = pending \ {n}, Emit(kind)
    PROVE  /\ IsFiniteSet(pending') /\ Outstanding' = Outstanding
           /\ events' \in Seq({"DirectDelivered", "DirectFailed"})
           /\ Outstanding <= 1 => pending = {n} /\ pending' = {} /\ events' = <<kind>>
<1>1. /\ IsFiniteSet(pending') /\ Cardinality(pending') = Cardinality(pending) - 1
    BY FS_RemoveElement, Zenon
<1>2. /\ events' \in Seq({"DirectDelivered", "DirectFailed"}) /\ Len(events') = Len(events) + 1
    BY AppendProperties DEF TypeOK, Emit
<1>3. Cardinality(pending) \in Nat /\ Len(events) \in Nat
    BY UnderWay, Zenon
<1>4. Outstanding' = Outstanding
    BY <1>1, <1>2, <1>3 DEF Outstanding
<1>5. ASSUME Outstanding <= 1 PROVE pending = {n} /\ pending' = {} /\ events' = <<kind>>
  <2>1. pending = {n} /\ events = <<>>
      BY <1>5, UnderWay, Zenon
  <2>2. Append(<<>>, kind) = <<kind>>
      OBVIOUS
  <2> QED BY <2>1, <2>2, Zenon DEF Emit
<1> QED BY <1>1, <1>2, <1>4, <1>5, Zenon

LEMMA OnResponseKeeps == ASSUME IInv, NEW n \in pending, OnResponse(n) PROVE IInv'
<1>0. TypeOK /\ IsFiniteSet(pending) /\ AnsweredInv /\ InboxInv /\ AloneInv
    BY Zenon DEF IInv
<1>1. /\ n \in pending \ unanswered /\ pending' = pending \ {n} /\ Emit("DirectDelivered")
      /\ UNCHANGED <<rows, last_outgoing, unanswered, requests, accepted, failed, overlapped, restarts,
                     peer_up, inbox, shown, lost, misread>>
    BY Zenon DEF OnResponse, peerVars
<1>2. /\ IsFiniteSet(pending') /\ Outstanding' = Outstanding
      /\ events' \in Seq({"DirectDelivered", "DirectFailed"})
      /\ Outstanding <= 1 => pending = {n} /\ pending' = {} /\ events' = <<"DirectDelivered">>
    BY <1>0, <1>1, Moved, Zenon
<1>3. TypeOK' /\ AnsweredInv' /\ InboxInv'
    BY <1>0, <1>1, <1>2, Zenon DEF TypeOK, AnsweredInv, InboxInv
<1>4. AloneInv'
  <2> SUFFICES ASSUME ~overlapped PROVE StatusTrue' /\ Awaited' /\ Outstanding' <= 1
      BY <1>1, Zenon DEF AloneInv
  <2>1. StatusTrue /\ Awaited /\ Outstanding <= 1
      BY <1>0, Zenon DEF AloneInv
  <2>2. StatusTrue'
      BY <2>1, <1>1, Zenon DEF StatusTrue
  <2>3. Awaited'
    <3>1. CASE last_outgoing = None
        BY <3>1, <1>1, Zenon DEF Awaited
    <3>2. CASE last_outgoing # None
      <4>1. pending # {}
          BY <1>1, Zenon
      <4>2. requests[n] = last_outgoing
          BY <2>1, <1>2, <3>2, <4>1, Zenon DEF Awaited
      <4>3. last_outgoing \in accepted
          BY <1>0, <1>1, <3>2, <4>2, Zenon DEF AnsweredInv
      <4> QED BY <2>1, <1>1, <1>2, <4>3, Zenon DEF Awaited
    <3> QED BY <3>1, <3>2, Zenon
  <2> QED BY <2>1, <2>2, <2>3, <1>2, Zenon
<1> QED BY <1>2, <1>3, <1>4, Zenon DEF IInv

LEMMA OnOutboundFailureKeeps ==
    ASSUME IInv, NEW n \in pending, OnOutboundFailure(n) PROVE IInv'
<1>0. TypeOK /\ IsFiniteSet(pending) /\ AnsweredInv /\ InboxInv /\ AloneInv
    BY Zenon DEF IInv
<1>1. /\ pending' = pending \ {n} /\ unanswered' = unanswered \ {n} /\ Emit("DirectFailed")
      /\ failed' = failed \union ({requests[n]} \ {None})
      /\ UNCHANGED <<rows, last_outgoing, requests, accepted, overlapped, restarts,
                     peer_up, inbox, shown, lost, misread>>
    BY Zenon DEF OnOutboundFailure, peerVars
<1>2. /\ IsFiniteSet(pending') /\ Outstanding' = Outstanding
      /\ events' \in Seq({"DirectDelivered", "DirectFailed"})
      /\ Outstanding <= 1 => pending = {n} /\ pending' = {} /\ events' = <<"DirectFailed">>
    BY <1>0, <1>1, Moved, Zenon
<1>3. requests[n] \in (1..Len(rows)) \union {None}
    BY <1>0, ElementOfSeq, Zenon DEF TypeOK
<1>4. TypeOK' /\ AnsweredInv' /\ InboxInv'
    BY <1>0, <1>1, <1>2, <1>3, Zenon DEF TypeOK, AnsweredInv, InboxInv
<1>5. AloneInv'
  <2> SUFFICES ASSUME ~overlapped PROVE StatusTrue' /\ Awaited' /\ Outstanding' <= 1
      BY <1>1, Zenon DEF AloneInv
  <2>1. StatusTrue /\ Awaited /\ Outstanding <= 1
      BY <1>0, Zenon DEF AloneInv
  <2>2. StatusTrue'
      BY <2>1, <1>1, Zenon DEF StatusTrue
  <2>3. Awaited'
    <3>1. CASE last_outgoing = None
        BY <3>1, <1>1, Zenon DEF Awaited
    <3>2. CASE last_outgoing # None
      <4>1. pending # {}
          BY Zenon
      <4>2. requests[n] = last_outgoing
          BY <2>1, <1>2, <3>2, <4>1, Zenon DEF Awaited
      <4>3. last_outgoing \in failed'
          BY <1>1, <3>2, <4>2, Zenon
      <4> QED BY <2>1, <1>1, <1>2, <4>3, Zenon DEF Awaited
    <3> QED BY <3>1, <3>2, Zenon
  <2> QED BY <2>1, <2>2, <2>3, <1>2, Zenon
<1> QED BY <1>2, <1>4, <1>5, Zenon DEF IInv

\* The event at the head of the channel settles the remembered row.
LEMMA HandleEventKeeps == ASSUME IInv, HandleEvent PROVE IInv'
<1> DEFINE K == {"DirectDelivered", "DirectFailed"}
<1>0. TypeOK /\ IsFiniteSet(pending) /\ AnsweredInv /\ InboxInv /\ AloneInv
    BY Zenon DEF IInv
<1>1. /\ events # <<>> /\ events' = Tail(events)
      /\ UNCHANGED <<pending, unanswered, requests, accepted, failed, overlapped, restarts,
                     peer_up, inbox, shown, lost, misread>>
    BY Zenon DEF HandleEvent, peerVars
<1>2. \/ last_outgoing = None /\ UNCHANGED <<rows, last_outgoing>>
      \/ /\ last_outgoing # None /\ last_outgoing' = None
         /\ rows' = [rows EXCEPT ![last_outgoing] = Outcome(Head(events))]
    BY Zenon DEF HandleEvent, UpdateMessageStatus
<1>3. /\ Head(events) \in K /\ events' \in Seq(K) /\ Len(events') = Len(events) - 1
      /\ Len(events) \in Nat
  <2>1. events \in Seq(K)
      BY <1>0, Zenon DEF TypeOK
  <2> HIDE DEF K
  <2> QED BY <1>1, <2>1, HeadTailProperties, LenProperties, Zenon
<1>4. /\ rows' \in Seq(Statuses) /\ Len(rows') = Len(rows)
      /\ last_outgoing' \in (1..Len(rows)) \union {None}
      /\ \A i \in 1..Len(rows) :
            rows'[i] = IF i = last_outgoing /\ last_outgoing # None
                       THEN Outcome(Head(events)) ELSE rows[i]
  <2>1. rows \in Seq(Statuses) /\ last_outgoing \in (1..Len(rows)) \union {None}
      BY <1>0, Zenon DEF TypeOK
  <2>2. CASE last_outgoing = None
      BY <1>2, <2>1, <2>2, Zenon
  <2>3. CASE last_outgoing # None
    <3>1. last_outgoing \in 1..Len(rows) /\ Outcome(Head(events)) \in Statuses
        BY <2>1, <2>3, Zenon DEF Outcome, Statuses
    <3>2. rows' = [rows EXCEPT ![last_outgoing] = Outcome(Head(events))] /\ last_outgoing' = None
        BY <1>2, <2>3, Zenon
    <3>3. /\ rows' \in Seq(Statuses) /\ Len(rows') = Len(rows)
          /\ \A i \in 1..Len(rows) :
                rows'[i] = IF i = last_outgoing THEN Outcome(Head(events)) ELSE rows[i]
        BY <2>1, <3>1, <3>2, ExceptSeq
    <3> QED BY <2>3, <3>2, <3>3, Zenon
  <2> QED BY <2>2, <2>3, Zenon
<1>5. TypeOK' /\ AnsweredInv' /\ InboxInv'
    BY <1>0, <1>1, <1>3, <1>4, Zenon DEF TypeOK, AnsweredInv, InboxInv
<1>6. AloneInv'
  <2> SUFFICES ASSUME ~overlapped PROVE StatusTrue' /\ Awaited' /\ Outstanding' <= 1
      BY <1>1, Zenon DEF AloneInv
  <2>1. StatusTrue /\ Awaited /\ Outstanding <= 1 /\ Cardinality(pending) \in Nat
      BY <1>0, UnderWay, Zenon DEF AloneInv
  <2>2. Outstanding' <= 1
      BY <2>1, <1>1, <1>3 DEF Outstanding
  <2>3. Awaited'
      BY <1>2, Zenon DEF Awaited
  <2>4. CASE last_outgoing = None
      BY <2>1, <2>2, <2>3, <2>4, <1>1, <1>2, Zenon DEF StatusTrue
  <2>5. CASE last_outgoing # None
    <3>1. \/ Head(events) = "DirectDelivered" /\ last_outgoing \in accepted
          \/ Head(events) = "DirectFailed" /\ last_outgoing \in failed
      <4>1. Head(<<"DirectDelivered">>) = "DirectDelivered" /\ Head(<<"DirectFailed">>) = "DirectFailed"
          OBVIOUS
      <4> QED BY <2>1, <2>5, <1>1, <4>1, Zenon DEF Awaited
    <3>2. StatusTrue'
        BY <2>1, <3>1, <1>1, <1>4, Zenon DEF StatusTrue, Outcome
    <3> QED BY <2>2, <2>3, <3>2, Zenon
  <2> QED BY <2>4, <2>5, Zenon
<1> QED BY <1>0, <1>1, <1>5, <1>6, Zenon DEF IInv

LEMMA RestartKeeps == ASSUME IInv, Restart PROVE IInv'
<1>0. TypeOK /\ IsFiniteSet(pending) /\ AnsweredInv /\ InboxInv /\ AloneInv
    BY Zenon DEF IInv
<1>1. /\ restarts' = restarts + 1 /\ last_outgoing' = None /\ pending' = {} /\ unanswered' = {}
      /\ events' = <<>> /\ peer_up' \in {peer_up, TRUE}
      /\ UNCHANGED <<rows, requests, accepted, failed, overlapped, inbox, shown, lost, misread>>
    BY Zenon DEF Restart
<1>2. IsFiniteSet({}) /\ Cardinality({}) = 0 /\ Len(<<>>) = 0 /\ \A S : <<>> \in Seq(S)
    BY FS_EmptySet, EmptySeq, Zenon
<1>3. TypeOK' /\ AnsweredInv' /\ InboxInv'
  <2>1. events' \in Seq({"DirectDelivered", "DirectFailed"})
      BY <1>1, <1>2, Zenon
  <2>2. peer_up' \in BOOLEAN /\ restarts' \in Nat
    <3>1. peer_up \in BOOLEAN /\ restarts \in Nat
        BY <1>0, Zenon DEF TypeOK
    <3>2. peer_up' \in BOOLEAN
        BY <1>1, <3>1, Zenon
    <3>3. restarts' \in Nat
        BY <1>1, <3>1
    <3> QED BY <3>2, <3>3, Zenon
  <2>3. TypeOK'
      BY <2>1, <2>2, <1>0, <1>1, Zenon DEF TypeOK
  <2>4. AnsweredInv' /\ InboxInv'
      BY <1>0, <1>1, Zenon DEF AnsweredInv, InboxInv
  <2> QED BY <2>3, <2>4, Zenon
<1>4. Outstanding' = 0
    BY <1>1, <1>2 DEF Outstanding
<1>5. AloneInv'
    BY <1>0, <1>1, <1>4 DEF AloneInv, StatusTrue, Awaited
<1> QED BY <1>1, <1>2, <1>3, <1>5, Zenon DEF IInv

LEMMA StutterKeeps == ASSUME IInv, UNCHANGED vars PROVE IInv'
BY Zenon DEF IInv, vars, TypeOK, AnsweredInv, InboxInv, AloneInv, StatusTrue, Awaited, Outstanding

LEMMA Invariant == Spec => []IInv
<1>1. IInv /\ [Next]_vars => IInv'
  <2> SUFFICES ASSUME IInv, [Next]_vars PROVE IInv'
      BY Zenon
  <2>1. CASE Command
      BY <2>1, CommandKeeps, Zenon
  <2>2. CASE SendOther
      BY <2>2, SendOtherKeeps, Zenon
  <2>3. ASSUME NEW n \in pending, RemoteAccepts(n) \/ OnResponse(n) \/ OnOutboundFailure(n)
        PROVE  IInv'
      BY <2>3, RemoteAcceptsKeeps, OnResponseKeeps, OnOutboundFailureKeeps, Zenon
  <2>4. CASE HandleEvent
      BY <2>4, HandleEventKeeps, Zenon
  <2>5. CASE RemoteHandles \/ RemoteEnds
      BY <2>5, PeerKeeps, Zenon
  <2>6. CASE Restart
      BY <2>6, RestartKeeps, Zenon
  <2>7. CASE UNCHANGED vars
      BY <2>7, StutterKeeps, Zenon
  <2> QED BY <2>1, <2>2, <2>3, <2>4, <2>5, <2>6, <2>7, Zenon DEF Next
<1> QED BY <1>1, InitTypes, PTL DEF Spec

-----------------------------------------------------------------------------
(* The theorems *)

\* The types of the rows, the node's requests, both channels of events and
\* the histories (handle_command, handle_swarm_event, handle_event).
THEOREM DeliveryTypes == Spec => []TypeOK
<1>1. IInv => TypeOK
    BY Zenon DEF IInv
<1> QED BY <1>1, Invariant, PTL

\* handle_event writes true statuses as long as requests do not overlap, with
\* any number of texts, requests without a row, timeouts and restarts.
THEOREM AloneIsTrue == Spec => []StatusTrueAlone
<1>1. IInv => StatusTrueAlone
    BY Zenon DEF IInv, AloneInv, StatusTrueAlone
<1> QED BY <1>1, Invariant, PTL

\* The remembered row has no outcome yet.
SentInv == last_outgoing # None => rows[last_outgoing] = "Sent"

\* No step changes a settled row, or forgets that the remembered one has no
\* outcome.
LEMMA RowsStep ==
    ASSUME TypeOK, SentInv, [Next]_vars
    PROVE  /\ \A i \in 1..Len(rows) : rows[i] # "Sent" => rows'[i] = rows[i]
           /\ SentInv'
<1>1. CASE Command
  <2>1. rows' = Append(rows, "Sent") /\ last_outgoing' = Len(rows')
      BY <1>1, Zenon DEF Command, InsertMessage
  <2>2. rows \in Seq(Statuses) /\ "Sent" \in Statuses
      BY Zenon DEF TypeOK, Statuses
  <2>3. /\ Len(rows') = Len(rows) + 1 /\ rows'[Len(rows) + 1] = "Sent"
        /\ \A i \in 1..Len(rows) : rows'[i] = rows[i]
      BY <2>1, <2>2, AppendProperties, SMTT(20)
  <2> QED BY <2>1, <2>3, Zenon DEF SentInv
<1>2. CASE HandleEvent
  <2>1. \/ last_outgoing = None /\ UNCHANGED <<rows, last_outgoing>>
        \/ /\ last_outgoing # None /\ last_outgoing' = None
           /\ rows' = [rows EXCEPT ![last_outgoing] = Outcome(Head(events))]
      BY <1>2, Zenon DEF HandleEvent, UpdateMessageStatus
  <2>2. rows \in Seq(Statuses) /\ last_outgoing \in (1..Len(rows)) \union {None}
      BY Zenon DEF TypeOK
  <2>3. CASE last_outgoing = None
      BY <2>1, <2>3, Zenon DEF SentInv
  <2>4. CASE last_outgoing # None
      BY <2>1, <2>2, <2>4 DEF SentInv
  <2> QED BY <2>3, <2>4, Zenon
<1>3. CASE \/ SendOther \/ RemoteHandles \/ RemoteEnds \/ UNCHANGED vars
           \/ \E n \in pending : RemoteAccepts(n) \/ OnResponse(n) \/ OnOutboundFailure(n)
  <2>1. UNCHANGED <<rows, last_outgoing>>
      BY <1>3, Zenon DEF SendOther, RemoteHandles, RemoteEnds, vars, RemoteAccepts, OnResponse, OnOutboundFailure
  <2> QED BY <2>1, Zenon DEF SentInv
<1>4. CASE Restart
    BY <1>4, Zenon DEF Restart, SentInv
<1> QED BY <1>1, <1>2, <1>3, <1>4, Zenon DEF Next

\* handle_event settles a row at most once, however many requests are under
\* way and whatever order their outcomes come in.
THEOREM SettledOnce == Spec => StatusFinal
<1>1. Init => SentInv
    BY Zenon DEF Init, SentInv
<1>2. TypeOK /\ SentInv /\ [Next]_vars => SentInv'
    BY RowsStep, Zenon
<1>3. TypeOK /\ SentInv /\ [Next]_vars
      => [\A i \in 1..Len(rows) : rows[i] # "Sent" => rows'[i] = rows[i]]_vars
    BY RowsStep, Zenon
<1> QED BY <1>1, <1>2, <1>3, DeliveryTypes, PTL DEF Spec, StatusFinal

=============================================================================
