-------------------------- MODULE SignalingSession --------------------------
(***************************************************************************)
(* A DefaultSignalingClient, its transport and its websocket, with the     *)
(* application that calls them, libwebsockets that calls them back, and    *)
(* the signaling server at the other end of the socket.                    *)
(*                                                                         *)
(* One action is one call of the application, or one callback of           *)
(* libwebsockets with everything it leads to up to the application's       *)
(* observer and back down to the queue of messages.  The application may   *)
(* be a thread of its own, so its calls fall between any two callbacks.    *)
(***************************************************************************)
EXTENDS SignalingClient

CONSTANTS
  MaxStarts,   \* bound: calls of Start()
  MaxStops,    \* bound: calls of Stop()
  MaxSends,    \* bound: calls of SendUpdates() or SendDataMessage()
  MaxIndexes,  \* bound: index frames the server sends
  Faults,      \* what may go wrong, a subset of FaultKinds
  Paced        \* the application waits until what it sent is answered, and for
               \* OnSignalingClientStarted, before it makes the next call

FaultKinds == {"connect_error", "connect_failure", "write_error", "drop",
               "fragment", "no_turn", "turn_expiry", "at_capacity"}

ASSUME BoundsAssumption ==
  /\ MaxStarts \in Nat /\ MaxStops \in Nat
  /\ MaxSends \in Nat /\ MaxIndexes \in Nat
ASSUME FaultsAssumption == Faults \subseteq FaultKinds /\ Paced \in BOOLEAN

VARIABLES starts, stops, sends, indexes   \* what the bounds count

countVars == <<starts, stops, sends, indexes>>
vars == <<websocketVars, is_stopped_, clientVars, observerVars, countVars>>

Init ==
  /\ WebsocketInit
  /\ TransportInit
  /\ ClientInit
  /\ starts = 0 /\ stops = 0 /\ sends = 0 /\ indexes = 0

-----------------------------------------------------------------------------
(* The application. *)

\* A paced application acts when nothing it asked for is outstanding.
MayCall == Paced => /\ owed = {}
                    /\ message_queue_ = <<>>
                    /\ answered = Len(outbound)
                    /\ inbound = <<>>

CountStart ==
  /\ MayCall /\ starts < MaxStarts
  /\ starts' = starts + 1
  /\ UNCHANGED <<stops, sends, indexes>>

AppStart == Start /\ CountStart

AppStartFails == StartFailing /\ CountStart /\ "connect_failure" \in Faults

AppStop ==
  /\ Stop
  /\ MayCall /\ stops < MaxStops /\ state_ \notin {"kIdle", "kDisconnected"}
  /\ stops' = stops + 1
  /\ UNCHANGED <<starts, sends, indexes>>

AppSend(frame) ==
  /\ Send(frame)
  /\ MayCall /\ sends < MaxSends
  /\ sends' = sends + 1
  /\ UNCHANGED <<starts, stops, indexes>>

-----------------------------------------------------------------------------
(* Callbacks of libwebsockets and what they lead to. *)

OnWebsocketError == MarkStopped /\ OnSignalingErrorReceived

\* Mutant: the transport does not note that it has stopped.
OnWebsocketClosedUnmarked == UNCHANGED is_stopped_ /\ OnSignalingClosed

OnWebsocketClosed == MarkStopped /\ OnSignalingClosed

LwsEstablished ==
  /\ Established
  /\ OnSignalingConnected
  /\ UNCHANGED countVars

LwsConnectionError ==
  /\ "connect_error" \in Faults
  /\ ConnectionError
  /\ OnWebsocketError
  /\ UNCHANGED <<sendVars, countVars>>

\* The retry calls Connect directly: is_stopped_ and state_ stay as the error
\* left them.  The timer is one-shot: nothing is left of the old context.
LwsRetryConnect ==
  /\ RetryDue
  /\ ConnectBegins("none")
  /\ UNCHANGED <<is_stopped_, clientVars, observerVars, countVars>>

LwsRetryFails ==
  /\ "connect_failure" \in Faults
  /\ RetryDue
  /\ ConnectFails("none")
  /\ OnWebsocketError
  /\ UNCHANGED countVars

LwsWrite ==
  /\ Write
  /\ UNCHANGED <<is_stopped_, clientVars, observerVars, countVars>>

LwsWriteFails ==
  /\ "write_error" \in Faults
  /\ WriteFails
  /\ OnWebsocketError
  /\ UNCHANGED countVars

LwsReceivePart ==
  /\ ReceiveFragment
  /\ ~IsFinal(Head(inbound)) \/ Parsed(Gathered) = {}
  /\ UNCHANGED <<socketVars, sendVars, is_stopped_, clientVars, observerVars,
                 countVars>>

LwsReceiveFrame ==
  /\ ReceiveFragment
  /\ IsFinal(Head(inbound))
  /\ \E frame \in Parsed(Gathered) : OnSignalFrameReceived(frame)
  /\ UNCHANGED <<sendVars, countVars>>

LwsClosed ==
  /\ link = "open" => "drop" \in Faults
  /\ Closed
  /\ OnWebsocketClosed
  /\ UNCHANGED countVars

-----------------------------------------------------------------------------
(* The same callbacks from a service call that Start() has left on the       *)
(* context it replaced.                                                      *)

LwsStaleReturns ==
  /\ StaleReturns
  /\ UNCHANGED <<is_stopped_, clientVars, observerVars, countVars>>

LwsStaleClosed ==
  /\ stale = "open" => "drop" \in Faults
  /\ StaleClosed
  /\ OnWebsocketClosed
  /\ UNCHANGED countVars

LwsStaleConnectionError ==
  /\ "connect_error" \in Faults
  /\ StaleConnectionError
  /\ OnWebsocketError
  /\ UNCHANGED countVars

\* The timer of the replaced context fires: a second Connect on top of Start()'s.
LwsStaleRetryConnect ==
  /\ stale = "timer"
  /\ ConnectBegins("none")
  /\ UNCHANGED <<is_stopped_, clientVars, observerVars, countVars>>

LwsStaleRetryFails ==
  /\ "connect_failure" \in Faults
  /\ stale = "timer"
  /\ ConnectFails("none")
  /\ OnWebsocketError
  /\ UNCHANGED countVars

LwsStaleEstablished ==
  /\ StaleEstablished
  /\ OnSignalingConnected
  /\ UNCHANGED countVars

LwsStaleWrite ==
  /\ StalePop
  /\ stale' = "open"
  /\ UNCHANGED <<is_stopped_, clientVars, observerVars, countVars>>

LwsStaleWriteFails ==
  /\ "write_error" \in Faults
  /\ StalePop
  /\ stale' = "closing"
  /\ OnWebsocketError
  /\ UNCHANGED countVars

LwsStaleReceivePart ==
  /\ StaleReceive
  /\ \/ ~IsFinal(Head(stale_inbound))
     \/ Parsed(GatheredFrom(stale_inbound)) = {}
  /\ UNCHANGED <<socketVars, sendVars, is_stopped_, clientVars, observerVars,
                 countVars>>

LwsStaleReceiveFrame ==
  /\ StaleReceive
  /\ IsFinal(Head(stale_inbound))
  /\ \E frame \in Parsed(GatheredFrom(stale_inbound)) : OnSignalFrameReceived(frame)
  /\ UNCHANGED <<sendVars, countVars>>

-----------------------------------------------------------------------------
(* The server (external) answers the frames of a socket in order and, once   *)
(* it has acknowledged the join, sends index frames as the meeting changes.  *)

Upload == SubSeq(outbound, 1, answered)   \* the frames it has dealt with

JoinAcks == {"JOIN_ACK"} \union
              (IF "no_turn" \in Faults THEN {"JOIN_ACK_INCOMPLETE"} ELSE {})
Reply(frame) == inbound' = Append(inbound, Piece(frame, "whole"))

\* A message may reach the client in two fragments.
Cut(frame) ==
  {<<Piece(frame, "whole")>>} \union
    (IF "fragment" \in Faults
     THEN {<<Piece(frame, "head"), Piece(frame, "tail")>>} ELSE {})

ServerAnswers ==
  /\ link = "open" /\ answered < Len(outbound)
  /\ answered' = answered + 1
  /\ LET frame == outbound[answered + 1]
     IN \/ frame = "JOIN" /\ \E ack \in JoinAcks : Reply(ack)
        \/ frame = "SUBSCRIBE" /\ Reply("SUBSCRIBE_ACK")
        \/ frame = "LEAVE" /\ Reply("LEAVE_ACK")
        \/ frame = "DATA_MESSAGE" /\ UNCHANGED inbound
  /\ UNCHANGED <<socketVars, staleVars, sendVars, received_data_buffer_, outbound,
                 is_stopped_, clientVars, observerVars, countVars>>

ServerIndex ==
  /\ link = "open" /\ "JOIN" \in Range(Upload) /\ "LEAVE" \notin Range(Upload)
  /\ indexes < MaxIndexes
  /\ indexes' = indexes + 1
  /\ \E frame \in {"INDEX"} \union
                  (IF "at_capacity" \in Faults THEN {"INDEX_AT_CAPACITY"} ELSE {}) :
       \E cut \in Cut(frame) : inbound' = inbound \o cut
  /\ UNCHANGED <<socketVars, staleVars, sendVars, received_data_buffer_, outbound,
                 answered, is_stopped_, clientVars, observerVars, starts, stops, sends>>

\* Time passes the ttl of the TURN credentials.
TurnExpires ==
  /\ "turn_expiry" \in Faults /\ is_joined_ /\ ~turn_expired
  /\ turn_expired' = TRUE
  /\ UNCHANGED <<websocketVars, is_stopped_, state_, is_joined_,
                 has_received_first_index_, observerVars, countVars>>

-----------------------------------------------------------------------------
App == AppStart \/ AppStartFails \/ AppStop
         \/ \E frame \in {"SUBSCRIBE", "DATA_MESSAGE"} : AppSend(frame)

Lws == \/ LwsEstablished \/ LwsConnectionError
       \/ LwsRetryConnect \/ LwsRetryFails
       \/ LwsWrite \/ LwsWriteFails
       \/ LwsReceivePart \/ LwsReceiveFrame
       \/ LwsClosed

Stale == \/ LwsStaleReturns \/ LwsStaleClosed \/ LwsStaleConnectionError
         \/ LwsStaleRetryConnect \/ LwsStaleRetryFails
         \/ LwsStaleEstablished \/ LwsStaleWrite \/ LwsStaleWriteFails
         \/ LwsStaleReceivePart \/ LwsStaleReceiveFrame

Server == ServerAnswers \/ ServerIndex

Next == App \/ Lws \/ Stale \/ Server \/ TurnExpires

Spec == Init /\ [][Next]_vars

(* The run thread polls, so a callback that stays due is made; the network   *)
(* brings a connection attempt to an end one way or the other; the server    *)
(* answers, and announces the meeting's sources to a client that has joined. *)
Fairness ==
  /\ WF_vars(LwsEstablished \/ LwsConnectionError)
  /\ WF_vars(LwsRetryConnect \/ LwsRetryFails)
  /\ WF_vars((LwsWrite \/ LwsWriteFails) /\ writable)
  /\ WF_vars(LwsReceivePart \/ LwsReceiveFrame)
  /\ WF_vars(LwsClosed /\ link = "closing")
  /\ WF_vars(LwsStaleClosed /\ stale = "closing")
  /\ WF_vars(ServerAnswers)
  /\ WF_vars(ServerIndex)

FairSpec == Spec /\ Fairness

-----------------------------------------------------------------------------
(* Properties. *)

TypeOK ==
  /\ WebsocketTypeOK /\ TransportTypeOK /\ ClientTypeOK
  /\ starts \in Nat /\ stops \in Nat /\ sends \in Nat /\ indexes \in Nat

\* While the client believes it is connected or leaving, its socket is open and
\* nothing of a replaced one is still to come.  Frames are queued, and
\* lws_callback_on_writable(wsi_) is called, in these states only.
ConnectedMeansOpen ==
  ~overheard /\ state_ \in {"kConnected", "kDisconnecting"} =>
    link = "open" /\ stale = "none"

\* A client that waits for LEAVE_ACK has its LEAVE in the queue or on the very
\* socket it waits on: no LEAVE is lost with a socket that went away.
LeaveUnderway ==
  ~overheard /\ state_ = "kDisconnecting" =>
    "LEAVE" \in Range(outbound) \union Range(message_queue_)

\* is_joined_ speaks of the current socket: the server has seen this socket's
\* JOIN.  (An application that restarts a client which has reconnected by
\* itself orphans a joined socket and keeps is_joined_ for the next.)
JoinedOnThisSocket ==
  is_joined_ /\ ~orphaned /\ ~overheard =>
    link \in {"open", "closing"} /\ "JOIN" \in Range(Upload)

\* In the first run of a client, with all its retries, there is never a second
\* socket, and no callback but the current socket's comes: the timer that calls
\* Connect by itself is not armed while there is an attempt or a connection.
FirstRunKeepsSocket == starts <= 1 => ~orphaned /\ stale = "none"

\* The observer's view of the client is the abstract one: at most one start
\* between two orderly stops.
Lifecycle == INSTANCE SignalingLifecycle WITH spent <- has_received_first_index_
LifecycleSpec == Lifecycle!Spec

\* In the first run of a client what is written to the socket, and queued for
\* it, is one JOIN, then requests, then at most one LEAVE: JOIN is queued by
\* OnSignalingConnected, LEAVE by Stop(), and nothing after it.  (A queue that
\* is left over from one connection goes out on the next.)
CleanDialogue ==
  starts <= 1 /\ link = "open" =>
    LET dialogue == outbound \o message_queue_
    IN /\ dialogue # <<>>
       /\ \A i \in DOMAIN dialogue :
            /\ dialogue[i] = "JOIN" <=> i = 1
            /\ dialogue[i] = "LEAVE" => i = Len(dialogue)

\* A fragmented message is put together again whatever happened before it: its
\* last fragment always makes a frame.
MessagesReassembled ==
  [][inbound # <<>> /\ inbound' = Tail(inbound) /\ IsFinal(Head(inbound))
       => Parsed(Gathered) # {}]_vars

\* The same in the first run of a client, when no fragment can be left over.
FirstRunReassembled ==
  [][starts <= 1 /\ inbound # <<>> /\ inbound' = Tail(inbound)
       /\ IsFinal(Head(inbound)) => Parsed(Gathered) # {}]_vars

\* is_stopped_ is FALSE only while there is a socket, or the end of one, to
\* tell the client about: a transport that refuses Start() is not dead.
RunningHasSocket == ~is_stopped_ => link # "none" \/ stale = "closing"

\* A transport that is dead and refuses Start() has at least said so: the last
\* the application heard of it is an error.
DeadHasReported ==
  RunningHasSocket \/ overheard \/ observed = "stopped_error"

\* Start() is answered: OnSignalingClientStarted or OnSignalingClientStopped.
\* (Checked for the one Start() of a client.  A later one may not be answered:
\* half a message may be left over, see MessagesReassembled, the transport may be
\* dead, see RunningHasSocket, or Poll may not come back from the old context.)
StartAnswered == ("start" \in owed) ~> ("start" \notin owed)

\* Stop() is answered with OnSignalingClientStopped.
StopAnswered == ("stop" \in owed) ~> ("stop" \notin owed)
=============================================================================
