------------------------------ MODULE Delivery ------------------------------
(***************************************************************************)
(* What becomes of the outgoing messages of one process: the rows that     *)
(* handle_command inserts (main.rs), the requests the node keeps pending   *)
(* (presidium-network, node.rs), the acknowledgements of the remote node,  *)
(* and the events that settle the row remembered in last_outgoing; and of  *)
(* the messages at the peer, whose node has answered them.                 *)
(*                                                                         *)
(* Handshake messages, the group key and the greeting are requests without *)
(* a row.  An event does not tell which request it belongs to: handlers    *)
(* only see its kind.  The history variables do remember it.               *)
(***************************************************************************)
EXTENDS Integers, Sequences, FiniteSets

CONSTANTS MaxRows,        \* bound: texts typed
          MaxOther,       \* bound: requests without a row
          MaxOutstanding, \* bound: requests sent and not yet settled at any time
          MaxRestarts,    \* bound: restarts of the process
          None            \* Option::None

ASSUME BoundsAssumption ==
    /\ MaxRows \in Nat /\ MaxOther \in Nat /\ MaxRestarts \in Nat
    /\ MaxOutstanding \in Nat \ {0}
    /\ None \notin 1..MaxRows

VARIABLES
    rows,          \* rows[i]: the status of the i-th outgoing row
    last_outgoing, \* App.last_outgoing
    pending,       \* the node's pending requests, by number
    unanswered,    \* pending requests the remote node has not answered
    events,        \* the channel of node events
    peer_up,       \* the process that app.peer names is running
    inbox,         \* the peer's channel of node events: requests it answered
    requests,      \* history: requests[n] is the row of request n, or None
    accepted,      \* history: rows whose request the remote node has taken
    failed,        \* history: rows whose request was reported to have failed
    shown,         \* history: rows whose text the peer's application has shown
    lost,          \* history: rows in the peer's inbox when its process ended
    misread,       \* history: rows the peer took for a bundle request
    overlapped,    \* history: two requests were under way at the same time
    restarts

vars == <<rows, last_outgoing, pending, unanswered, events, requests,
          accepted, failed, overlapped, restarts, peer_up, inbox, shown, lost, misread>>
peerVars == <<peer_up, inbox, shown, lost, misread>>

-----------------------------------------------------------------------------
Init ==
    /\ rows = <<>>
    /\ last_outgoing = None
    /\ pending = {}
    /\ unanswered = {}
    /\ events = <<>>
    /\ requests = <<>>
    /\ accepted = {}
    /\ failed = {}
    /\ overlapped = FALSE
    /\ restarts = 0
    /\ peer_up = TRUE /\ inbox = <<>> /\ shown = {} /\ lost = {} /\ misread = {}

Outstanding == Cardinality(pending) + Len(events)

\* send_direct and the SendDirect branch of the node's run_loop
SendDirect(row) ==
    /\ Outstanding < MaxOutstanding
    /\ requests' = Append(requests, row)
    /\ pending' = pending \union {Len(requests')}
    /\ unanswered' = unanswered \union {Len(requests')}
    /\ overlapped' = (overlapped \/ Outstanding > 0)

\* The messages table: an outgoing row starts as Sent, and its status is set
\* by its id later.
InsertMessage == Append(rows, "Sent")

UpdateMessageStatus(id, status) == [rows EXCEPT ![id] = status]

\* handle_command: a row with status Sent, remembered as the last one.
Command ==
    /\ Len(rows) < MaxRows
    /\ rows' = InsertMessage
    /\ last_outgoing' = Len(rows')
    /\ SendDirect(Len(rows'))
    /\ UNCHANGED <<events, accepted, failed, restarts, peerVars>>

\* The handlers of handshake messages send requests that have no row.
SendOther ==
    /\ Cardinality({n \in 1..Len(requests) : requests[n] = None}) < MaxOther
    /\ SendDirect(None)
    /\ UNCHANGED <<rows, last_outgoing, events, accepted, failed, restarts, peerVars>>

\* Variant for mutation: the request is answered and not passed on.
RemoteAccepts_NotEmitted(n) ==
    /\ n \in unanswered /\ peer_up
    /\ unanswered' = unanswered \ {n}
    /\ accepted' = accepted \union ({requests[n]} \ {None})
    /\ UNCHANGED <<rows, last_outgoing, pending, events, requests, failed, overlapped, restarts,
                   peerVars>>

\* handle_swarm_event of the peer, Request: it answers Ok before its
\* application sees the message.
RemoteAccepts(n) ==
    /\ n \in unanswered /\ peer_up
    /\ unanswered' = unanswered \ {n}
    /\ accepted' = accepted \union ({requests[n]} \ {None})
    /\ inbox' = Append(inbox, requests[n])
    /\ UNCHANGED <<rows, last_outgoing, pending, events, requests, failed, overlapped, restarts,
                   peer_up, shown, lost, misread>>

\* The peer's loop takes its next event: handle_direct shows a text, unless
\* its ciphertext begins with the byte 0 and reaches the responder, which takes
\* it for a BUNDLE_REQ and answers with a bundle.
RemoteHandles ==
    /\ inbox # <<>>
    /\ inbox' = Tail(inbox)
    /\ \/ shown' = shown \union ({Head(inbox)} \ {None}) /\ UNCHANGED misread
       \/ misread' = misread \union ({Head(inbox)} \ {None}) /\ UNCHANGED shown
    /\ UNCHANGED <<rows, last_outgoing, pending, unanswered, events, requests, accepted, failed,
                   overlapped, restarts, peer_up, lost>>

\* The peer quits, is killed, or a handler returns an error.  Its next process
\* has another PeerId, and app.peer keeps the old one.
RemoteEnds ==
    /\ peer_up
    /\ peer_up' = FALSE
    /\ inbox' = <<>>
    /\ lost' = lost \union ({inbox[i] : i \in 1..Len(inbox)} \ {None})
    /\ UNCHANGED <<rows, last_outgoing, pending, unanswered, events, requests, accepted, failed,
                   overlapped, restarts, shown, misread>>

Emit(kind) == events' = Append(events, kind)

\* handle_swarm_event, Response
OnResponse(n) ==
    /\ n \in pending \ unanswered
    /\ pending' = pending \ {n}
    /\ Emit("DirectDelivered")
    /\ UNCHANGED <<rows, last_outgoing, unanswered, requests, accepted, failed, overlapped, restarts,
                   peerVars>>

\* handle_swarm_event, OutboundFailure: no connection, or a timeout, which
\* may strike after the remote node has taken the message.
OnOutboundFailure(n) ==
    /\ n \in pending
    /\ pending' = pending \ {n}
    /\ unanswered' = unanswered \ {n}
    /\ Emit("DirectFailed")
    /\ failed' = failed \union ({requests[n]} \ {None})
    /\ UNCHANGED <<rows, last_outgoing, requests, accepted, overlapped, restarts, peerVars>>

\* Variant for mutation: every event counts as a delivery.
Outcome_AlwaysDelivered(kind) == "Delivered"

Outcome(kind) == IF kind = "DirectDelivered" THEN "Delivered" ELSE "Failed"

\* Variant for mutation: the remembered row is read and not taken.
HandleEvent_NotTaken ==
    /\ events # <<>>
    /\ events' = Tail(events)
    /\ rows' = IF last_outgoing = None
               THEN rows
               ELSE UpdateMessageStatus(last_outgoing, Outcome(Head(events)))
    /\ UNCHANGED <<last_outgoing, pending, unanswered, requests, accepted, failed, overlapped, restarts,
                   peerVars>>

\* Variant for mutation: a failure settles nothing.
HandleEvent_IgnoresFailure ==
    /\ events # <<>>
    /\ events' = Tail(events)
    /\ IF last_outgoing = None \/ Head(events) = "DirectFailed"
       THEN UNCHANGED <<rows, last_outgoing>>
       ELSE /\ rows' = UpdateMessageStatus(last_outgoing, Outcome(Head(events)))
            /\ last_outgoing' = None
    /\ UNCHANGED <<pending, unanswered, requests, accepted, failed, overlapped, restarts, peerVars>>

\* handle_event, DirectDelivered and DirectFailed: the remembered row is
\* taken and settled.
HandleEvent ==
    /\ events # <<>>
    /\ events' = Tail(events)
    /\ IF last_outgoing = None
       THEN UNCHANGED <<rows, last_outgoing>>
       ELSE /\ rows' = UpdateMessageStatus(last_outgoing, Outcome(Head(events)))
            /\ last_outgoing' = None
    /\ UNCHANGED <<pending, unanswered, requests, accepted, failed, overlapped, restarts, peerVars>>

\* The rows survive; what was pending or queued is forgotten.  The new process
\* connects to the process the peer has then.
Restart ==
    /\ restarts < MaxRestarts
    /\ restarts' = restarts + 1
    /\ last_outgoing' = None
    /\ pending' = {} /\ unanswered' = {} /\ events' = <<>>
    /\ peer_up' \in {peer_up, TRUE}
    /\ UNCHANGED <<rows, requests, accepted, failed, overlapped, inbox, shown, lost, misread>>

Next ==
    \/ Command
    \/ SendOther
    \/ \E n \in pending : RemoteAccepts(n) \/ OnResponse(n) \/ OnOutboundFailure(n)
    \/ HandleEvent
    \/ RemoteHandles
    \/ RemoteEnds
    \/ Restart

\* A request is answered or runs into its timeout, and the loops of both
\* processes take what is in their channels.
Fairness ==
    /\ WF_vars(\E n \in pending : OnResponse(n) \/ OnOutboundFailure(n))
    /\ WF_vars(HandleEvent)
    /\ WF_vars(RemoteHandles)

Spec == Init /\ [][Next]_vars
FairSpec == Spec /\ Fairness

-----------------------------------------------------------------------------
Statuses == {"Sent", "Delivered", "Failed"}

\* Type invariant of the rows, the requests and both channels of events; the
\* peer shows, loses or misreads only what its node has answered
\* (handle_swarm_event).
TypeOK ==
    /\ rows \in Seq(Statuses)
    /\ last_outgoing \in (1..Len(rows)) \union {None}
    /\ requests \in Seq((1..Len(rows)) \union {None})
    /\ pending \subseteq 1..Len(requests) /\ unanswered \subseteq pending
    /\ events \in Seq({"DirectDelivered", "DirectFailed"})
    /\ accepted \subseteq 1..Len(rows) /\ failed \subseteq 1..Len(rows)
    /\ overlapped \in BOOLEAN /\ restarts \in Nat
    /\ peer_up \in BOOLEAN
    /\ inbox \in Seq((1..Len(rows)) \union {None})
    /\ shown \subseteq accepted /\ lost \subseteq accepted /\ misread \subseteq accepted

\* "Mark a stored message as delivered or failed" (store.rs): a row says
\* Delivered only if the remote node took that message, and Failed only if
\* that request was reported to have failed.
StatusTrue ==
    \A i \in 1..Len(rows) :
        /\ rows[i] = "Delivered" => i \in accepted
        /\ rows[i] = "Failed" => i \in failed

\* Where last_outgoing is enough: the statuses that handle_event writes are
\* true as long as no request was sent before the outcome of the one before
\* it was handled, handshake requests and restarts included.
StatusTrueAlone == ~overlapped => StatusTrue

\* A settled row is never changed again, however many requests are under
\* way: handle_event takes last_outgoing before it writes the status.
StatusFinal ==
    [][\A i \in 1..Len(rows) : rows[i] # "Sent" => rows'[i] = rows[i]]_vars

Unsettled(i) == i \in 1..Len(rows) /\ rows[i] = "Sent"

\* Every row is settled in the end, unless the process is restarted or sends
\* before it has the outcome of its last request (handle_event).
RowsSettle ==
    \A i \in 1..MaxRows : Unsettled(i) ~> (~Unsettled(i) \/ overlapped \/ restarts > 0)

\* The peer's node answers a request before its application has handled it,
\* and a row says Delivered on that answer alone.  Still, every text that was
\* answered is shown in the end, or was in the channel when the peer's process
\* ended, or its ciphertext was taken for a bundle request (handle_swarm_event,
\* handle_direct).
AnsweredIsShown ==
    \A i \in 1..MaxRows : (i \in accepted) ~> (i \in shown \union lost \union misread)
=============================================================================
