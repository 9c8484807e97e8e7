------------------------------ MODULE NodeLoop ------------------------------
(***************************************************************************)
(* The two tasks of a process and the bounded channels between them: the   *)
(* application (presidium-demo, main.rs) and the node's run_loop           *)
(* (presidium-network, node.rs).                                           *)
(*                                                                         *)
(* The application first sends the commands of its role, then takes an     *)
(* event or a line the user typed; its handlers await room in the control  *)
(* channel for each command they send, and listen_addrs awaits an answer.  *)
(* The node takes a command, or an event of the swarm, and awaits room in  *)
(* the events channel for each event it emits before it goes on.           *)
(***************************************************************************)
EXTENDS Integers, Sequences, FiniteSets

CONSTANTS ControlCap, \* capacity of the control channel (64)
          EventsCap,  \* capacity of the events channel (256)
          Mdns,       \* config.mdns_enabled
          AutoDial,   \* config.auto_dial
          MaxTyped,   \* bound: lines typed
          MaxInbound  \* bound: events of the swarm that nobody asked for

ASSUME CapsAssumption == ControlCap \in Nat \ {0} /\ EventsCap \in Nat \ {0}
ASSUME ConfigAssumption == Mdns \in BOOLEAN /\ AutoDial \in BOOLEAN
ASSUME LoopBoundsAssumption == MaxTyped \in Nat /\ MaxInbound \in Nat

Commands == {"Subscribe", "ListenAddrs", "Dial", "SendDirect", "Publish"}
Kinds == {"Listen", "PeerConnected", "PeerDisconnected", "PeerDiscovered",
          "GossipMessage", "DirectMessage", "DirectDelivered", "DirectFailed"}

VARIABLES
    app,        \* "loop", "asking" (listen_addrs), "stopping" (stop) or "stopped"
    todo,       \* commands the running handler has still to send
    control_rx, \* the control channel
    events_rx,  \* the events channel
    node,       \* "loop" or "stopped"
    emitting,   \* events the running handler of the node has still to emit
    swarm,      \* the subscription, dials under way, open connections
    outbound,   \* number of requests in the pending map, without an outcome
    inbound,    \* number of events nobody asked for
    typed,      \* number of lines typed
    sent,       \* history: requests the application has put into the channel
    settled     \* history: outcomes the node has reported or is reporting

loopVars == <<app, todo, control_rx, events_rx, node, emitting, swarm, outbound, inbound,
              typed, sent, settled>>
appVars == <<app, todo, typed, sent>>
nodeVars == <<node, emitting, swarm, outbound, inbound, settled>>

-----------------------------------------------------------------------------
\* What demo_main sends before its loop, as the responder and as the initiator.
Startup == {<<"Subscribe", "ListenAddrs">>, <<"Subscribe", "Dial">>}

LoopInit ==
    /\ app = "loop" /\ todo \in Startup
    /\ control_rx = <<>> /\ events_rx = <<>>
    /\ node = "loop" /\ emitting = <<>>
    /\ swarm = [subscribed |-> FALSE, dials |-> 0, connected |-> 0]
    /\ outbound = 0 /\ inbound = 0 /\ typed = 0 /\ sent = 0 /\ settled = 0

(* tokio's bounded channels: send waits for room. *)
ControlRoom == Len(control_rx) < ControlCap

\* Variant for mutation: an events channel without a limit.
EventsRoom_NoLimit == TRUE

EventsRoom == Len(events_rx) < EventsCap

-----------------------------------------------------------------------------
(* The application *)

AppReady == app = "loop" /\ todo = <<>>

Requests(n) == [i \in 1..n |-> "SendDirect"]

\* Requests a handler sends in answer: a handshake message is answered by one
\* request, the responder's ratchet key by two, a connection by the request
\* for the bundle, other events by none.
Replies(kind) ==
    CASE kind = "DirectMessage" -> {Requests(n) : n \in 0..2}
      [] kind = "PeerConnected" -> {Requests(n) : n \in 0..1}
      [] OTHER -> {<<>>}

\* handle_event
AppRecv ==
    /\ AppReady /\ events_rx # <<>>
    /\ events_rx' = Tail(events_rx)
    /\ todo' \in Replies(Head(events_rx))
    /\ UNCHANGED <<app, typed, sent, control_rx, nodeVars>>

\* handle_command: a text for the peer or for the group.
AppTyped ==
    /\ AppReady /\ typed < MaxTyped
    /\ typed' = typed + 1
    /\ todo' \in {<<"SendDirect">>, <<"Publish">>}
    /\ UNCHANGED <<app, sent, control_rx, events_rx, nodeVars>>

\* subscribe, dial, send_direct and publish complete when there is room;
\* listen_addrs then waits for the answer.
SendCommand ==
    /\ app = "loop" /\ todo # <<>> /\ ControlRoom
    /\ control_rx' = Append(control_rx, Head(todo))
    /\ todo' = Tail(todo)
    /\ app' = IF Head(todo) = "ListenAddrs" THEN "asking" ELSE app
    /\ sent' = IF Head(todo) = "SendDirect" THEN sent + 1 ELSE sent
    /\ UNCHANGED <<typed, events_rx, nodeVars>>

\* P2pNode::stop, called between two handlers: the Shutdown command needs
\* room, then the task is aborted at its next await.
StopCalled ==
    /\ AppReady
    /\ app' = "stopping"
    /\ UNCHANGED <<todo, typed, sent, control_rx, events_rx, nodeVars>>

\* Variant for mutation: the task is left to itself.
StopEnds_NoAbort ==
    /\ app = "stopping" /\ ControlRoom
    /\ app' = "stopped"
    /\ UNCHANGED <<todo, typed, sent, control_rx, events_rx, nodeVars>>

StopEnds ==
    /\ app = "stopping"
    /\ node = "stopped" \/ ControlRoom
    /\ app' = "stopped"
    /\ node' = "stopped"
    /\ emitting' = <<>>
    /\ UNCHANGED <<todo, typed, sent, control_rx, events_rx, swarm, outbound, inbound, settled>>

-----------------------------------------------------------------------------
(* The node *)

NodeReady == node = "loop" /\ emitting = <<>>

\* Variant for mutation: a command is taken only when an event would fit.
MayTakeCommand_EventsFirst == NodeReady /\ EventsRoom

\* The two branches of select! in run_loop do not wait for each other.
MayTakeCommand == NodeReady

NodeControl ==
    /\ MayTakeCommand /\ control_rx # <<>>
    /\ control_rx' = Tail(control_rx)
    /\ outbound' = IF Head(control_rx) = "SendDirect" THEN outbound + 1 ELSE outbound
    /\ swarm' = [swarm EXCEPT !.dials = IF Head(control_rx) = "Dial" THEN @ + 1 ELSE @,
                              !.subscribed = @ \/ Head(control_rx) = "Subscribe"]
    /\ app' = IF Head(control_rx) = "ListenAddrs" THEN "loop" ELSE app
    /\ UNCHANGED <<todo, typed, sent, events_rx, node, emitting, inbound, settled>>

\* An event nobody asked for, and what its handler emits: dial says whether
\* the address is dialled once the event is out.
Unasked(kind, n, dial) ==
    /\ NodeReady /\ inbound < MaxInbound
    /\ inbound' = inbound + 1
    /\ emitting' = [i \in 1..n |-> [event |-> kind, dial |-> dial]]
    /\ UNCHANGED <<appVars, control_rx, events_rx, node, outbound, settled>>

OnNewListenAddr == Unasked("Listen", 1, FALSE) /\ UNCHANGED swarm

\* A peer connects, or a dial succeeds.
OnIncoming ==
    /\ Unasked("PeerConnected", 1, FALSE)
    /\ swarm' = [swarm EXCEPT !.connected = @ + 1]

OnDialed ==
    /\ NodeReady /\ swarm.dials > 0
    /\ swarm' = [swarm EXCEPT !.connected = @ + 1, !.dials = @ - 1]
    /\ emitting' = <<[event |-> "PeerConnected", dial |-> FALSE]>>
    /\ UNCHANGED <<appVars, control_rx, events_rx, node, outbound, inbound, settled>>

\* OutgoingConnectionError is ignored.
OnDialFailed ==
    /\ NodeReady /\ swarm.dials > 0
    /\ swarm' = [swarm EXCEPT !.dials = @ - 1]
    /\ UNCHANGED <<appVars, control_rx, events_rx, node, emitting, outbound, inbound, settled>>

OnConnectionClosed ==
    /\ NodeReady /\ swarm.connected > 0
    /\ swarm' = [swarm EXCEPT !.connected = @ - 1]
    /\ emitting' = <<[event |-> "PeerDisconnected", dial |-> FALSE]>>
    /\ UNCHANGED <<appVars, control_rx, events_rx, node, outbound, inbound, settled>>

\* mDNS reports a list of peers; Kademlia one.
OnDiscovered == Mdns /\ Unasked("PeerDiscovered", 2, AutoDial) /\ UNCHANGED swarm
OnRoutingUpdated == Unasked("PeerDiscovered", 1, FALSE) /\ UNCHANGED swarm

OnGossipMessage == swarm.subscribed /\ Unasked("GossipMessage", 1, FALSE) /\ UNCHANGED swarm

\* handle_swarm_event, Request: answered at once, then emitted.
OnRequest == swarm.connected > 0 /\ Unasked("DirectMessage", 1, FALSE) /\ UNCHANGED swarm

\* Variant for mutation: the request stays pending after its outcome.
OnOutcome_StaysPending(kind) ==
    /\ NodeReady /\ outbound > 0 /\ settled < sent
    /\ settled' = settled + 1
    /\ emitting' = <<[event |-> kind, dial |-> FALSE]>>
    /\ UNCHANGED <<appVars, control_rx, events_rx, node, swarm, outbound, inbound>>

\* handle_swarm_event, Response and OutboundFailure: the request is removed
\* from the pending ones and its outcome is emitted.
OnOutcome(kind) ==
    /\ NodeReady /\ outbound > 0
    /\ outbound' = outbound - 1
    /\ settled' = settled + 1
    /\ emitting' = <<[event |-> kind, dial |-> FALSE]>>
    /\ UNCHANGED <<appVars, control_rx, events_rx, node, swarm, inbound>>

\* emit completes when there is room.
EmitEvent ==
    /\ node = "loop" /\ emitting # <<>> /\ EventsRoom
    /\ events_rx' = Append(events_rx, Head(emitting).event)
    /\ emitting' = Tail(emitting)
    /\ swarm' = [swarm EXCEPT !.dials = IF Head(emitting).dial THEN @ + 1 ELSE @]
    /\ UNCHANGED <<appVars, control_rx, node, outbound, inbound, settled>>

-----------------------------------------------------------------------------
SwarmEvent ==
    \/ OnNewListenAddr \/ OnIncoming \/ OnDialed \/ OnDialFailed \/ OnConnectionClosed
    \/ OnDiscovered \/ OnRoutingUpdated \/ OnGossipMessage \/ OnRequest
    \/ OnOutcome("DirectDelivered") \/ OnOutcome("DirectFailed")

LoopNext ==
    \/ AppRecv \/ AppTyped \/ SendCommand \/ StopCalled \/ StopEnds
    \/ NodeControl \/ SwarmEvent \/ EmitEvent

\* Both tasks are polled as long as they can move; select! picks at random
\* among its ready branches, so a command that waits is taken.  Neither the
\* user nor a peer is bound to act; a pending request is answered or times out.
LoopFairness ==
    /\ WF_loopVars(AppRecv) /\ WF_loopVars(SendCommand) /\ WF_loopVars(StopEnds)
    /\ SF_loopVars(NodeControl) /\ WF_loopVars(EmitEvent)
    /\ SF_loopVars(OnOutcome("DirectDelivered") \/ OnOutcome("DirectFailed"))

LoopSpec == LoopInit /\ [][LoopNext]_loopVars
LoopFairSpec == LoopSpec /\ LoopFairness

-----------------------------------------------------------------------------
\* Type invariant of the two tasks and their channels (P2pNode, run_loop).
LoopTypeOK ==
    /\ app \in {"loop", "asking", "stopping", "stopped"} /\ node \in {"loop", "stopped"}
    /\ todo \in Seq(Commands)
    /\ control_rx \in Seq(Commands) /\ Len(control_rx) <= ControlCap
    /\ events_rx \in Seq(Kinds) /\ Len(events_rx) <= EventsCap
    /\ emitting \in Seq([event : Kinds, dial : BOOLEAN])
    /\ swarm \in [subscribed : BOOLEAN, dials : Nat, connected : Nat]
    /\ outbound \in Nat /\ inbound \in Nat /\ typed \in Nat /\ sent \in Nat /\ settled \in Nat

\* Places of the control channel that hold a request.
Waiting == {i \in DOMAIN control_rx : control_rx[i] = "SendDirect"}

\* Every request the application handed over is in the channel, pending, or
\* has exactly one outcome (the pending map of run_loop).
RequestsAccounted == sent = Cardinality(Waiting) + outbound + settled

\* Each task waits for the other: the node has an event for a full channel,
\* and the application, which would take one, awaits room in the control
\* channel or the answer of listen_addrs.
Deadlocked ==
    /\ node = "loop" /\ emitting # <<>> /\ ~EventsRoom
    /\ app = "asking" \/ (~ControlRoom /\ (todo # <<>> \/ app = "stopping"))

\* "application-facing events arrive on the returned channel" (P2pNode): the
\* node does not wait forever to hand over an event, and the application not
\* forever to send a command or for the answer of listen_addrs, whatever the
\* order of the two tasks, except in the one knot the full channels allow.
TasksProgress ==
    /\ (emitting # <<>>) ~> (emitting = <<>> \/ app \in {"stopping", "stopped"} \/ Deadlocked)
    /\ (todo # <<>> \/ app = "asking") ~> ((todo = <<>> /\ app # "asking") \/ Deadlocked)

\* "Stop the node, shutting down the swarm task" (P2pNode::stop): a call of
\* stop returns and leaves no task behind, with the same exception.
StopCompletes ==
    (app = "stopping") ~> ((app = "stopped" /\ node = "stopped") \/ Deadlocked)

=============================================================================
