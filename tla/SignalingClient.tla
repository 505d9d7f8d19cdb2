--------------------------- MODULE SignalingClient ---------------------------
(***************************************************************************)
(* DefaultSignalingClient (src/signaling/default_signaling_client.cc):     *)
(* the life of a session, from Start() to OnSignalingClientStopped().      *)
(*                                                                         *)
(* Each operator is a method or a handler with every call it makes: the    *)
(* frames it queues, the transport calls and the observer notifications.   *)
(* The maps of video and audio sources that some handlers also touch do    *)
(* not influence any variable of this module.                              *)
(***************************************************************************)
EXTENDS SignalingTransport

VARIABLES
  state_,
  is_joined_,
  has_received_first_index_,
  turn_expired,  \* what TurnCredentialsExpired() returns
  observed,      \* the last lifecycle callback the observer got
  owed           \* calls of the application whose callback it still waits
                 \* for, as signaling_client.h promises it one

clientVars   == <<state_, is_joined_, has_received_first_index_, turn_expired>>
observerVars == <<observed, owed>>

SignalingState == {"kIdle", "kConnecting", "kConnected", "kDisconnecting",
                   "kDisconnected"}

ClientTypeOK ==
  /\ state_ \in SignalingState
  /\ is_joined_ \in BOOLEAN
  /\ has_received_first_index_ \in BOOLEAN
  /\ turn_expired \in BOOLEAN
  /\ observed \in {"none", "started", "stopped_ok", "stopped_error"}
  /\ owed \subseteq {"start", "stop"}

ClientInit ==
  /\ state_ = "kIdle"
  /\ is_joined_ = FALSE
  /\ has_received_first_index_ = FALSE
  /\ turn_expired = TRUE
  /\ observed = "none"
  /\ owed = {}

-----------------------------------------------------------------------------
\* NotifySignalingObserver with the callbacks of the session's life.
NotifyStarted ==
  /\ observed' = "started"
  /\ owed' = owed \ {"start"}

NotifyStopped(status) ==
  /\ observed' = status
  /\ owed' = {}

-----------------------------------------------------------------------------
\* Start() and its three outcomes in the transport.
Start ==
  /\ owed' = owed \union {"start"}
  /\ state_' = "kConnecting"
  /\ UNCHANGED <<is_joined_, has_received_first_index_, turn_expired, observed>>
  /\ \/ StartIsNoOp /\ UNCHANGED <<websocketVars, is_stopped_>>
     \/ StartConnects

StartFailing ==
  /\ StartFails
  /\ state_' = "kDisconnected"
  /\ is_joined_' = FALSE
  /\ NotifyStopped("stopped_error")
  /\ UNCHANGED <<has_received_first_index_, turn_expired>>

\* Mutant: Stop() forgets SendLeave.
StopWithoutLeave ==
  /\ owed' = owed \union {"stop"}
  /\ state_' = IF state_ = "kConnected" THEN "kDisconnecting" ELSE state_
  /\ UNCHANGED <<websocketVars, is_stopped_, is_joined_,
                 has_received_first_index_, turn_expired, observed>>

\* Stop() is a no-op in every state but kConnected.
Stop ==
  /\ owed' = owed \union {"stop"}
  /\ IF state_ = "kConnected"
     THEN SendSignalFrame("LEAVE") /\ state_' = "kDisconnecting"
     ELSE UNCHANGED <<sendVars, is_stopped_, state_>>
  /\ UNCHANGED <<socketVars, staleVars, received_data_buffer_, wireVars, is_joined_,
                 has_received_first_index_, turn_expired, observed>>

\* Mutant: requests are still sent while the client is leaving.
SendWhileLeaving(frame) ==
  /\ IF state_ \in {"kConnected", "kDisconnecting"}
     THEN SendSignalFrame(frame)
     ELSE UNCHANGED <<sendVars, is_stopped_>>
  /\ UNCHANGED <<socketVars, staleVars, received_data_buffer_, wireVars, clientVars,
                 observerVars>>

\* SendUpdates() and SendDataMessage() with a valid message.
Send(frame) ==
  /\ IF state_ = "kConnected"
     THEN SendSignalFrame(frame)
     ELSE UNCHANGED <<sendVars, is_stopped_>>
  /\ UNCHANGED <<socketVars, staleVars, received_data_buffer_, wireVars, clientVars,
                 observerVars>>

-----------------------------------------------------------------------------
OnSignalingConnected ==
  /\ state_' = "kConnected"
  /\ SendSignalFrame("JOIN")
  /\ UNCHANGED <<is_joined_, has_received_first_index_, turn_expired,
                 observerVars>>

\* Mutant: an error leaves state_ alone.
OnSignalingErrorKeepsState ==
  /\ is_joined_' = FALSE
  /\ NotifyStopped("stopped_error")
  /\ UNCHANGED <<state_, has_received_first_index_, turn_expired>>

\* has_received_first_index_ stays as it is.
OnSignalingErrorReceived ==
  /\ state_' = "kDisconnected"
  /\ is_joined_' = FALSE
  /\ NotifyStopped("stopped_error")
  /\ UNCHANGED <<has_received_first_index_, turn_expired>>

\* Mutant: the close of the socket leaves is_joined_ set.
OnSignalingClosedKeepsJoined ==
  /\ state_' = "kDisconnected"
  /\ has_received_first_index_' = FALSE
  /\ NotifyStopped("stopped_ok")
  /\ UNCHANGED <<is_joined_, turn_expired>>

OnSignalingClosed ==
  /\ state_' = "kDisconnected"
  /\ is_joined_' = FALSE
  /\ has_received_first_index_' = FALSE
  /\ NotifyStopped("stopped_ok")
  /\ UNCHANGED turn_expired

-----------------------------------------------------------------------------
\* OnSignalFrameReceived, one operator for each case of its switch.
\* Mutant: the credentials are stored without is_joined_ being set.
UpdateTurnCredentialsOnly ==
  /\ turn_expired' = FALSE
  /\ UNCHANGED <<state_, is_joined_, has_received_first_index_, observerVars,
                 socketVars, is_stopped_>>

UpdateTurnCredentials ==
  /\ is_joined_' = TRUE
  /\ turn_expired' = FALSE
  /\ UNCHANGED <<state_, has_received_first_index_, observerVars, socketVars,
                 is_stopped_>>

Ignored == UNCHANGED <<clientVars, observerVars, socketVars, is_stopped_>>

\* Mutant: LEAVE_ACK does not close the transport.
OnLeaveAckStaysOpen ==
  /\ state_' = "kDisconnected"
  /\ UNCHANGED <<is_joined_, has_received_first_index_, turn_expired,
                 observerVars, socketVars, is_stopped_>>

OnLeaveAck ==
  /\ state_' = "kDisconnected"
  /\ StopTransport
  /\ UNCHANGED <<is_joined_, has_received_first_index_, turn_expired,
                 observerVars>>

\* Mutant: has_received_first_index_ is not set.
HandleEveryIndexFrame ==
  /\ IF state_ = "kConnected" /\ is_joined_ /\ ~turn_expired
     THEN NotifyStarted
     ELSE UNCHANGED observerVars
  /\ UNCHANGED <<state_, is_joined_, has_received_first_index_, turn_expired,
                 socketVars, is_stopped_>>

\* HandleIndexFrame: only the first one of a session starts the client, and
\* only while the credentials of the JOIN_ACK have not expired.
HandleIndexFrame ==
  /\ IF state_ = "kConnected" /\ is_joined_ /\ ~has_received_first_index_
     THEN /\ has_received_first_index_' = TRUE
          /\ IF turn_expired THEN UNCHANGED observerVars ELSE NotifyStarted
     ELSE UNCHANGED <<has_received_first_index_, observerVars>>
  /\ UNCHANGED <<state_, is_joined_, turn_expired, socketVars, is_stopped_>>

\* An index that reports the meeting at capacity, a JOIN_ACK whose TURN
\* credentials are incomplete and a SUBSCRIBE_ACK change nothing here.
OnSignalFrameReceived(frame) ==
  \/ frame = "JOIN_ACK" /\ UpdateTurnCredentials
  \/ frame = "LEAVE_ACK" /\ OnLeaveAck
  \/ frame = "INDEX" /\ HandleIndexFrame
  \/ /\ frame \in {"JOIN_ACK_INCOMPLETE", "INDEX_AT_CAPACITY", "SUBSCRIBE_ACK"}
     /\ Ignored
=============================================================================
