-------------------------- MODULE SignalingTransport --------------------------
(***************************************************************************)
(* WebsocketSignalingTransport (src/transport/                             *)
(* websocket_signaling_transport.cc).  Its one piece of state is           *)
(* is_stopped_; the rest of a method is a call on the websocket below it   *)
(* or on the observer, DefaultSignalingClient, above it.                   *)
(***************************************************************************)
EXTENDS LwsWebsocket

VARIABLE is_stopped_

TransportTypeOK == is_stopped_ \in BOOLEAN
TransportInit == is_stopped_ = TRUE

\* Start, from the test of is_stopped_ on.  is_stopped_ is written after
\* Connect has returned, whatever Connect's callbacks did to it.
StartIsNoOp == ~is_stopped_
StartConnects == is_stopped_ /\ ConnectBegins(Leftover) /\ is_stopped_' = FALSE
StartFails == is_stopped_ /\ ConnectFails(Leftover) /\ is_stopped_' = FALSE

\* Stop leaves is_stopped_ to the CLOSED callback.
StopTransport ==
  /\ IF is_stopped_ THEN UNCHANGED socketVars ELSE Close
  /\ UNCHANGED is_stopped_

SendSignalFrame(frame) == SendBinary(frame) /\ UNCHANGED is_stopped_

\* The transport's own part of OnWebsocketClosed and OnWebsocketError.
MarkStopped == is_stopped_' = TRUE
=============================================================================
