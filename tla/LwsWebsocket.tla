---------------------------- MODULE LwsWebsocket ----------------------------
(***************************************************************************)
(* LibwebsocketsWebsocket (src/websocket/libwebsockets_websocket.cc) and   *)
(* the part of libwebsockets it talks to: the socket behind wsi_, the      *)
(* retry timer retry_connect_.sul, the writable request, the queue of      *)
(* outgoing messages and the buffer that gathers incoming fragments.       *)
(*                                                                         *)
(* Every operator is what one method or callback reason does to THIS       *)
(* object.  What its observer does in reaction is in SignalingTransport    *)
(* and SignalingClient, and the two halves are put together, as the call   *)
(* observer_->On...() does, by the actions of SignalingSession.            *)
(***************************************************************************)
EXTENDS Naturals, Sequences, Functions

CONSTANTS
  ConcealCount,        \* retry_and_idle_policy_.conceal_count
  InitialRetryCounts   \* what connection_retry_count_, which nothing
                       \* initialises, may hold when the object is created

ASSUME ConcealCountAssumption == ConcealCount \in Nat
ASSUME InitialRetryCountsAssumption ==
  /\ InitialRetryCounts \subseteq 0 .. (ConcealCount + 1)
  /\ InitialRetryCounts # {}

ClientFrame == {"JOIN", "LEAVE", "SUBSCRIBE", "DATA_MESSAGE"}
ServerFrame == {"JOIN_ACK", "JOIN_ACK_INCOMPLETE", "LEAVE_ACK", "INDEX",
                "INDEX_AT_CAPACITY", "SUBSCRIBE_ACK"}

\* A websocket message reaches RECEIVE whole, or as a head and a final tail.
Part == {"whole", "head", "tail"}
Fragment == [frame : ServerFrame, part : Part]
Piece(f, p) == [frame |-> f, part |-> p]

VARIABLES
  link,       \* the socket of wsi_: "none", "connecting", "open", or
              \* "closing" once its CLOSED callback is certain to come
  stale,      \* what a lws_service call that is still running on a replaced
              \* context may yet report: "none", "timer" for the retry armed
              \* there, or the status of the socket in it
  stale_inbound,  \* fragments that socket had received by then
  orphaned,   \* Connect has replaced a socket that was alive
  overheard,  \* history: a callback of a replaced, living socket has reached
              \* this object, which takes it for one of its own socket's
  retry,      \* retry_connect_.sul is scheduled in the context being polled
  connection_retry_count_,
  message_queue_,
  writable,   \* lws_callback_on_writable is pending for wsi_
  received_data_buffer_,
  inbound,    \* fragments the server sent on this socket, not yet read
  outbound,   \* frames lws_write put on this socket, all of them
  answered    \* how many of them the server has dealt with

staleVars  == <<stale, stale_inbound, orphaned, overheard>>
socketVars == <<link, retry, connection_retry_count_>>
sendVars   == <<message_queue_, writable>>
wireVars   == <<inbound, outbound, answered>>
websocketVars == <<socketVars, staleVars, sendVars, received_data_buffer_, wireVars>>

WebsocketTypeOK ==
  /\ link \in {"none", "connecting", "open", "closing"}
  /\ stale \in {"none", "timer", "connecting", "open", "closing"}
  /\ stale_inbound \in Seq(Fragment)
  /\ orphaned \in BOOLEAN
  /\ overheard \in BOOLEAN
  /\ retry \in BOOLEAN
  /\ connection_retry_count_ \in Nat
  /\ message_queue_ \in Seq(ClientFrame)
  /\ writable \in BOOLEAN
  /\ received_data_buffer_ \in Seq(Fragment)
  /\ inbound \in Seq(Fragment)
  /\ outbound \in Seq(ClientFrame)
  /\ answered \in Nat

WebsocketInit ==
  /\ link = "none"
  /\ stale = "none"
  /\ stale_inbound = <<>>
  /\ orphaned = FALSE
  /\ overheard = FALSE
  /\ retry = FALSE
  /\ connection_retry_count_ \in InitialRetryCounts
  /\ message_queue_ = <<>>
  /\ writable = FALSE
  /\ received_data_buffer_ = <<>>
  /\ inbound = <<>>
  /\ outbound = <<>>
  /\ answered = 0

-----------------------------------------------------------------------------
\* What was on its way, and the writable request, go with the socket.
SocketGone ==
  /\ writable' = FALSE
  /\ inbound' = <<>>
  /\ outbound' = <<>>
  /\ answered' = 0

\* What the service call running now can still find when Connect is called
\* from another thread: it keeps to the context it was called with.
Leftover == CASE stale # "none"                 -> stale
              [] stale = "none" /\ link # "none" -> link
              [] OTHER                           -> IF retry THEN "timer" ELSE "none"

\* Mutant: the retry timer is not one-shot and outlives the attempt.
ReplaceSocketKeepsTimer(rest) ==
  /\ stale' = rest
  /\ stale_inbound' = IF stale = "none" THEN inbound ELSE stale_inbound
  /\ orphaned' = (orphaned \/ link \in {"connecting", "open"})
  /\ retry' = retry
  /\ SocketGone
  /\ UNCHANGED <<overheard, connection_retry_count_, message_queue_,
                 received_data_buffer_>>

(* Connect overwrites context_ and wsi_ and destroys nothing.  Every later   *)
(* Poll services the new context, so the timer and the socket of the one it  *)
(* replaces are heard of only from a service call already running: rest.     *)
(* message_queue_ and received_data_buffer_ keep what they hold.             *)
ReplaceSocket(rest) ==
  /\ stale' = rest
  /\ stale_inbound' = IF stale = "none" THEN inbound ELSE stale_inbound
  /\ orphaned' = (orphaned \/ link \in {"connecting", "open"})
  /\ retry' = FALSE
  /\ SocketGone
  /\ UNCHANGED <<overheard, connection_retry_count_, message_queue_,
                 received_data_buffer_>>

ConnectBegins(rest) ==
  /\ link' = "connecting"
  /\ ReplaceSocket(rest)

\* Connect leaves through one of its early returns, after HandleError.
ConnectFails(rest) ==
  /\ link' = "none"
  /\ ReplaceSocket(rest)

\* SendBinary.  Requests for a writable callback coalesce in libwebsockets.
SendBinary(frame) ==
  /\ message_queue_' = Append(message_queue_, frame)
  /\ writable' = TRUE

\* Close destroys the context: the open socket will report CLOSED, and an
\* attempt it cuts short may end without a callback.
Close ==
  /\ link' \in IF link = "open" THEN {"closing"} ELSE {link, "none"}
  /\ UNCHANGED <<retry, connection_retry_count_>>

\* libwebsockets calls back for the context being polled only, and not while
\* the service call of a replaced context is still running.
Serviced(status) == link = status /\ stale = "none"

\* Mutant: the count runs down instead of up.
ConnectionErrorCountsDown ==
  /\ Serviced("connecting")
  /\ link' = "none"
  /\ retry' = (connection_retry_count_ <= ConcealCount)
  /\ connection_retry_count_' = connection_retry_count_ - 1
  /\ UNCHANGED <<staleVars, received_data_buffer_, wireVars>>

\* CLIENT_CONNECTION_ERROR: HandleError, then schedule the next attempt
\* unless the policy's conceal count is used up.
ConnectionError ==
  /\ Serviced("connecting")
  /\ link' = "none"
  /\ retry' = (connection_retry_count_ <= ConcealCount)
  /\ connection_retry_count_' = IF connection_retry_count_ <= ConcealCount
                                THEN connection_retry_count_ + 1
                                ELSE connection_retry_count_
  /\ UNCHANGED <<staleVars, received_data_buffer_, wireVars>>

\* RetryConnect fires when its timer does, whatever the socket is doing.
RetryDue == retry /\ stale = "none"

Established ==
  /\ Serviced("connecting")
  /\ link' = "open"
  /\ UNCHANGED <<staleVars, retry, connection_retry_count_,
                 received_data_buffer_, wireVars>>

(* CLIENT_WRITEABLE pops one message, if there is one, and does not ask for  *)
(* another callback.  libwebsockets makes the callback when it was asked to, *)
(* but may also make it unasked.                                             *)
Write ==
  /\ Serviced("open")
  /\ writable' = FALSE
  /\ IF message_queue_ = <<>>
     THEN UNCHANGED <<message_queue_, outbound>>
     ELSE /\ message_queue_' = Tail(message_queue_)
          /\ outbound' = Append(outbound, Head(message_queue_))
  /\ UNCHANGED <<socketVars, staleVars, received_data_buffer_, inbound, answered>>

\* lws_write fails: the message is already popped, and returning -1 makes
\* libwebsockets close the socket.
WriteFails ==
  /\ Serviced("open") /\ message_queue_ # <<>>
  /\ writable' = FALSE
  /\ message_queue_' = Tail(message_queue_)
  /\ link' = "closing"
  /\ UNCHANGED <<staleVars, retry, connection_retry_count_,
                 received_data_buffer_, wireVars>>

\* The buffer once the next fragment is appended to it.
GatheredFrom(stream) == Append(received_data_buffer_, Head(stream))
Gathered == GatheredFrom(inbound)
IsFinal(fragment) == fragment.part # "head"

\* What the bytes of the buffer parse to in OnWebsocketBinaryReceived: the
\* fragments of one message make a frame, anything else makes none.
Parsed(buffer) ==
  {f \in ServerFrame : \/ buffer = <<Piece(f, "whole")>>
                       \/ buffer = <<Piece(f, "head"), Piece(f, "tail")>>}

\* Mutant: the buffer is not cleared after a final fragment.
ReceiveFragmentKeepsBuffer ==
  /\ Serviced("open") /\ inbound # <<>>
  /\ inbound' = Tail(inbound)
  /\ received_data_buffer_' = Gathered
  /\ UNCHANGED <<staleVars, outbound, answered>>

\* CLIENT_RECEIVE gathers a fragment, and clears the buffer after a final one.
ReceiveFragment ==
  /\ Serviced("open") /\ inbound # <<>>
  /\ inbound' = Tail(inbound)
  /\ received_data_buffer_' = IF IsFinal(Head(inbound)) THEN <<>> ELSE Gathered
  /\ UNCHANGED <<staleVars, outbound, answered>>

\* CLIENT_CLOSED of the current socket: the peer, the network or Close.
Closed ==
  /\ \/ Serviced("open")
     \/ Serviced("closing")
  /\ link' = "none"
  /\ SocketGone
  /\ UNCHANGED <<staleVars, retry, connection_retry_count_,
                 message_queue_, received_data_buffer_>>

-----------------------------------------------------------------------------
(* The service call still running on a replaced context.  Its callbacks act   *)
(* on this object and on its new wsi_.                                       *)

StaleUnread == UNCHANGED <<stale_inbound, received_data_buffer_, wireVars>>

\* It returns, unless a close is under way in it; the next Poll is on context_.
StaleReturns ==
  /\ stale \in {"timer", "connecting", "open"}
  /\ stale' = "none" /\ stale_inbound' = <<>>
  /\ UNCHANGED <<socketVars, orphaned, overheard, sendVars,
                 received_data_buffer_, wireVars>>

StaleClosed ==
  /\ stale \in {"open", "closing"}
  /\ stale' = "none" /\ stale_inbound' = <<>>
  /\ UNCHANGED <<socketVars, orphaned, overheard, sendVars,
                 received_data_buffer_, wireVars>>

StaleConnectionError ==
  /\ stale = "connecting"
  /\ stale' = IF connection_retry_count_ <= ConcealCount THEN "timer" ELSE "none"
  /\ connection_retry_count_' = IF connection_retry_count_ <= ConcealCount
                                THEN connection_retry_count_ + 1
                                ELSE connection_retry_count_
  /\ UNCHANGED <<link, orphaned, overheard, retry, sendVars>>
  /\ StaleUnread

StaleEstablished ==
  /\ stale = "connecting"
  /\ stale' = "open" /\ overheard' = TRUE
  /\ UNCHANGED <<link, orphaned, retry, connection_retry_count_>>
  /\ StaleUnread

\* A message is popped and handed to lws_write for wsi_, which is not open: it
\* is lost, and libwebsockets may report that.
StalePop ==
  /\ stale = "open" /\ message_queue_ # <<>>
  /\ message_queue_' = Tail(message_queue_)
  /\ overheard' = TRUE
  /\ UNCHANGED <<link, orphaned, retry, connection_retry_count_, writable>>
  /\ StaleUnread

StaleReceive ==
  /\ stale = "open" /\ stale_inbound # <<>>
  /\ stale_inbound' = Tail(stale_inbound)
  /\ received_data_buffer_' = IF IsFinal(Head(stale_inbound)) THEN <<>>
                              ELSE GatheredFrom(stale_inbound)
  /\ overheard' = TRUE
  /\ UNCHANGED <<stale, orphaned, wireVars>>
=============================================================================
