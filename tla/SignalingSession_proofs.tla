----------------------- MODULE SignalingSession_proofs -----------------------
(***************************************************************************)
(* Proofs about SignalingSession, for every value of its constants: type   *)
(* correctness, the safety invariants of the session, and that the session *)
(* implements SignalingLifecycle.                                          *)
(***************************************************************************)
EXTENDS SignalingSession, SequenceTheorems, TLAPS

\* The tuples of variables, which every UNCHANGED is written with.
USE DEF vars, websocketVars, socketVars, staleVars, sendVars, wireVars, clientVars,
        observerVars, countVars

-----------------------------------------------------------------------------
(* Facts about sequences of frames. *)

\* SendBinary leaves a typed, non-empty queue.
LEMMA SendTyped ==
  ASSUME message_queue_ \in Seq(ClientFrame), NEW frame \in ClientFrame,
         SendBinary(frame)
  PROVE  /\ message_queue_' \in Seq(ClientFrame) /\ writable' \in BOOLEAN
         /\ message_queue_' # <<>>
BY AppendProperties DEF SendBinary

\* A write with a message queued moves it to the wire.
LEMMA WriteMoves ==
  ASSUME TypeOK, LwsWrite, message_queue_ # <<>>
  PROVE  /\ message_queue_' = Tail(message_queue_)
         /\ Tail(message_queue_) \in Seq(ClientFrame)
         /\ \E frame \in ClientFrame : /\ frame = Head(message_queue_)
                                      /\ outbound' = Append(outbound, frame)
         /\ UNCHANGED <<socketVars, staleVars, received_data_buffer_, inbound,
                        answered, is_stopped_, clientVars, observerVars>>
<1>1. Head(message_queue_) \in ClientFrame /\ Tail(message_queue_) \in Seq(ClientFrame)
  BY HeadTailProperties DEF TypeOK, WebsocketTypeOK
<1>. QED BY <1>1 DEF LwsWrite, Write

\* The socket that goes away leaves typed, empty wire variables.
LEMMA SocketGoneTyped ==
  ASSUME SocketGone
  PROVE  /\ writable' \in BOOLEAN /\ inbound' \in Seq(Fragment)
         /\ outbound' \in Seq(ClientFrame) /\ answered' \in Nat
BY EmptySeq DEF SocketGone

\* Connect, with either outcome, keeps the websocket's variables typed.
LEMMA ReplaceSocketTyped ==
  ASSUME WebsocketTypeOK,
         NEW rest \in {"none", "timer", "connecting", "open", "closing"},
         ReplaceSocket(rest), link' \in {"none", "connecting"}
  PROVE  WebsocketTypeOK'
BY SocketGoneTyped DEF WebsocketTypeOK, ReplaceSocket

\* What a replaced context leaves is one of the states a service call knows.
LEMMA LeftoverTyped ==
  ASSUME WebsocketTypeOK
  PROVE  Leftover \in {"none", "timer", "connecting", "open", "closing"}
BY DEF WebsocketTypeOK, Leftover

\* The pieces of a server frame are fragments.
LEMMA PieceTyped ==
  ASSUME NEW frame \in ServerFrame, NEW part \in Part
  PROVE  Piece(frame, part) \in Fragment
BY DEF Piece, Fragment

\* An answer of the server is a fragment more on the wire.
LEMMA ReplyTyped ==
  ASSUME inbound \in Seq(Fragment), NEW frame \in ServerFrame, Reply(frame)
  PROVE  inbound' \in Seq(Fragment)
<1>1. Piece(frame, "whole") \in Fragment
  BY PieceTyped DEF Part
<1>. QED BY <1>1, AppendProperties, Zenon DEF Reply

\* A message, however it is cut, is a sequence of fragments.
LEMMA CutTyped ==
  ASSUME NEW frame \in ServerFrame, NEW cut \in Cut(frame)
  PROVE  cut \in Seq(Fragment)
<1>1. /\ Piece(frame, "whole") \in Fragment
      /\ Piece(frame, "head") \in Fragment
      /\ Piece(frame, "tail") \in Fragment
  BY PieceTyped DEF Part
<1>2. \A a, b \in Fragment : <<a>> \in Seq(Fragment) /\ <<a, b>> \in Seq(Fragment)
  OBVIOUS
<1>3. \/ cut = <<Piece(frame, "whole")>>
      \/ cut = <<Piece(frame, "head"), Piece(frame, "tail")>>
  BY DEF Cut
<1>. QED BY <1>1, <1>2, <1>3

-----------------------------------------------------------------------------
(* Type correctness. *)

\* A frame of the server, whichever socket it came on, keeps the socket, the
\* transport and the client typed.
LEMMA FrameTyped ==
  ASSUME TypeOK, NEW frame, OnSignalFrameReceived(frame)
  PROVE  /\ link' \in {"none", "connecting", "open", "closing"}
         /\ UNCHANGED <<retry, connection_retry_count_>>
         /\ TransportTypeOK' /\ ClientTypeOK'
BY DEF TypeOK, WebsocketTypeOK, TransportTypeOK, ClientTypeOK, SignalingState,
       OnSignalFrameReceived, UpdateTurnCredentials, OnLeaveAck, StopTransport,
       Close, HandleIndexFrame, NotifyStarted, Ignored

\* What a service call on a replaced context does keeps everything typed.
LEMMA StaleTyped ==
  ASSUME TypeOK, Stale
  PROVE  TypeOK'
<1>. USE DEF TypeOK, TransportTypeOK, ClientTypeOK, SignalingState
<1>0. /\ WebsocketTypeOK
      /\ <<>> \in Seq(Fragment)
  BY EmptySeq
<1>1. CASE LwsStaleReturns
  BY <1>0, <1>1 DEF LwsStaleReturns, StaleReturns, WebsocketTypeOK
<1>2. CASE LwsStaleClosed
  <2>1. WebsocketTypeOK'
    BY <1>0, <1>2 DEF LwsStaleClosed, StaleClosed, WebsocketTypeOK
  <2>. QED BY <1>2, <2>1
       DEF LwsStaleClosed, OnWebsocketClosed, MarkStopped, OnSignalingClosed, NotifyStopped
<1>3. CASE LwsStaleConnectionError
  <2>1. WebsocketTypeOK'
    BY <1>3 DEF LwsStaleConnectionError, StaleConnectionError, StaleUnread, WebsocketTypeOK
  <2>. QED BY <1>3, <2>1
       DEF LwsStaleConnectionError, OnWebsocketError, MarkStopped,
           OnSignalingErrorReceived, NotifyStopped
<1>4. CASE LwsStaleRetryConnect
  <2>1. WebsocketTypeOK'
    BY <1>4, ReplaceSocketTyped DEF LwsStaleRetryConnect, ConnectBegins
  <2>. QED BY <1>4, <2>1 DEF LwsStaleRetryConnect
<1>5. CASE LwsStaleRetryFails
  <2>1. WebsocketTypeOK'
    BY <1>5, ReplaceSocketTyped DEF LwsStaleRetryFails, ConnectFails
  <2>. QED BY <1>5, <2>1
       DEF LwsStaleRetryFails, OnWebsocketError, MarkStopped,
           OnSignalingErrorReceived, NotifyStopped
<1>6. CASE LwsStaleEstablished
  <2>1. WebsocketTypeOK'
    BY <1>6, SendTyped
    DEF LwsStaleEstablished, StaleEstablished, StaleUnread, OnSignalingConnected,
        SendSignalFrame, ClientFrame, WebsocketTypeOK
  <2>. QED BY <1>6, <2>1 DEF LwsStaleEstablished, OnSignalingConnected, SendSignalFrame
<1>7. CASE LwsStaleWrite \/ LwsStaleWriteFails
  <2>1. message_queue_' \in Seq(ClientFrame)
    BY <1>7, HeadTailProperties
    DEF LwsStaleWrite, LwsStaleWriteFails, StalePop, WebsocketTypeOK
  <2>2. WebsocketTypeOK'
    BY <1>7, <2>1
    DEF LwsStaleWrite, LwsStaleWriteFails, StalePop, StaleUnread, WebsocketTypeOK
  <2>. QED BY <1>7, <2>2
       DEF LwsStaleWrite, LwsStaleWriteFails, OnWebsocketError, MarkStopped,
           OnSignalingErrorReceived, NotifyStopped
<1>8. CASE LwsStaleReceivePart \/ LwsStaleReceiveFrame
  <2>1. StaleReceive
    BY <1>8 DEF LwsStaleReceivePart, LwsStaleReceiveFrame
  <2>2. /\ stale_inbound' \in Seq(Fragment) /\ received_data_buffer_' \in Seq(Fragment)
        /\ overheard' \in BOOLEAN /\ UNCHANGED <<stale, orphaned, wireVars>>
    BY <2>1 DEF StaleReceive, GatheredFrom, WebsocketTypeOK
  <2>3. CASE LwsStaleReceivePart
    BY <2>2, <2>3 DEF LwsStaleReceivePart, WebsocketTypeOK
  <2>4. CASE LwsStaleReceiveFrame
    <3>. PICK frame \in ServerFrame : OnSignalFrameReceived(frame)
      BY <2>4 DEF LwsStaleReceiveFrame, Parsed
    <3>1. UNCHANGED <<sendVars, countVars>>
      BY <2>4 DEF LwsStaleReceiveFrame
    <3>2. WebsocketTypeOK'
      BY <2>2, <3>1, FrameTyped DEF WebsocketTypeOK
    <3>. QED BY <3>1, <3>2, FrameTyped
  <2>. QED BY <1>8, <2>3, <2>4
<1>. QED
  BY <1>1, <1>2, <1>3, <1>4, <1>5, <1>6, <1>7, <1>8 DEF Stale

\* Every variable keeps its type, for all bounds, faults and retry counts.
THEOREM TypeCorrect == Spec => []TypeOK
<1>. USE DEF TypeOK, TransportTypeOK, ClientTypeOK, SignalingState
<1>1. Init => TypeOK
  <2>. SUFFICES ASSUME Init PROVE TypeOK
    OBVIOUS
  <2>1. WebsocketTypeOK
    <3>1. connection_retry_count_ \in Nat
      BY InitialRetryCountsAssumption, ConcealCountAssumption DEF Init, WebsocketInit
    <3>. QED BY <3>1, EmptySeq DEF Init, WebsocketInit, WebsocketTypeOK
  <2>. QED BY <2>1 DEF Init, TransportInit, ClientInit
<1>2. TypeOK /\ [Next]_vars => TypeOK'
  <2>. SUFFICES ASSUME TypeOK, [Next]_vars PROVE TypeOK'
    OBVIOUS
  <2>1. CASE AppStart
    <3>1. WebsocketTypeOK'
      <4>1. CASE StartConnects
        BY <4>1, ReplaceSocketTyped, LeftoverTyped DEF StartConnects, ConnectBegins
      <4>2. CASE UNCHANGED websocketVars
        BY <4>2 DEF WebsocketTypeOK
      <4>. QED BY <2>1, <4>1, <4>2 DEF AppStart, Start
    <3>2. TransportTypeOK'
      BY <2>1 DEF AppStart, Start, StartConnects
    <3>3. ClientTypeOK' /\ UNCHANGED <<stops, sends, indexes>> /\ starts' = starts + 1
      BY <2>1 DEF AppStart, Start, CountStart
    <3>. QED BY <3>1, <3>2, <3>3
  <2>2. CASE AppStartFails
    <3>1. WebsocketTypeOK'
      BY <2>2, ReplaceSocketTyped, LeftoverTyped DEF AppStartFails, StartFailing, StartFails, ConnectFails
    <3>2. TransportTypeOK'
      BY <2>2 DEF AppStartFails, StartFailing, StartFails
    <3>3. ClientTypeOK' /\ UNCHANGED <<stops, sends, indexes>> /\ starts' = starts + 1
      BY <2>2 DEF AppStartFails, StartFailing, CountStart, NotifyStopped
    <3>. QED BY <3>1, <3>2, <3>3
  <2>3. CASE AppStop
    <3>1. WebsocketTypeOK'
      BY <2>3, SendTyped DEF AppStop, Stop, SendSignalFrame, ClientFrame, WebsocketTypeOK
    <3>. QED BY <2>3, <3>1 DEF AppStop, Stop, SendSignalFrame
  <2>4. ASSUME NEW frame \in {"SUBSCRIBE", "DATA_MESSAGE"}, AppSend(frame)
        PROVE  TypeOK'
    <3>1. WebsocketTypeOK'
      BY <2>4, SendTyped DEF AppSend, Send, SendSignalFrame, ClientFrame, WebsocketTypeOK
    <3>. QED BY <2>4, <3>1 DEF AppSend, Send, SendSignalFrame
  <2>5. CASE LwsEstablished
    <3>1. WebsocketTypeOK'
      BY <2>5, SendTyped
      DEF LwsEstablished, Established, OnSignalingConnected, SendSignalFrame,
          ClientFrame, WebsocketTypeOK
    <3>. QED BY <2>5, <3>1 DEF LwsEstablished, OnSignalingConnected, SendSignalFrame
  <2>6. CASE LwsConnectionError
    <3>1. WebsocketTypeOK'
      BY <2>6 DEF LwsConnectionError, ConnectionError, WebsocketTypeOK
    <3>. QED BY <2>6, <3>1
         DEF LwsConnectionError, OnWebsocketError, MarkStopped,
             OnSignalingErrorReceived, NotifyStopped
  <2>7. CASE LwsRetryConnect
    <3>1. WebsocketTypeOK'
      BY <2>7, ReplaceSocketTyped DEF LwsRetryConnect, ConnectBegins
    <3>. QED BY <2>7, <3>1 DEF LwsRetryConnect
  <2>8. CASE LwsRetryFails
    <3>1. WebsocketTypeOK'
      BY <2>8, ReplaceSocketTyped DEF LwsRetryFails, ConnectFails
    <3>. QED BY <2>8, <3>1
         DEF LwsRetryFails, OnWebsocketError, MarkStopped,
             OnSignalingErrorReceived, NotifyStopped
  <2>9. CASE LwsWrite
    <3>1. WebsocketTypeOK'
      <4>1. /\ message_queue_' \in Seq(ClientFrame)
            /\ outbound' \in Seq(ClientFrame)
        <5>1. CASE message_queue_ = <<>>
          BY <2>9, <5>1 DEF LwsWrite, Write, WebsocketTypeOK
        <5>2. CASE message_queue_ # <<>>
          <6>1. PICK frame \in ClientFrame : outbound' = Append(outbound, frame)
            BY <2>9, <5>2, WriteMoves
          <6>2. outbound \in Seq(ClientFrame)
            BY DEF WebsocketTypeOK
          <6>3. Append(outbound, frame) \in Seq(ClientFrame)
            BY <6>2, AppendProperties
          <6>. QED BY <2>9, <5>2, <6>1, <6>3, WriteMoves
        <5>. QED BY <5>1, <5>2
      <4>. QED BY <2>9, <4>1 DEF LwsWrite, Write, WebsocketTypeOK
    <3>. QED BY <2>9, <3>1 DEF LwsWrite
  <2>10. CASE LwsWriteFails
    <3>1. WebsocketTypeOK'
      <4>1. message_queue_' \in Seq(ClientFrame)
        BY <2>10, HeadTailProperties DEF LwsWriteFails, WriteFails, WebsocketTypeOK
      <4>. QED BY <2>10, <4>1 DEF LwsWriteFails, WriteFails, WebsocketTypeOK
    <3>. QED BY <2>10, <3>1
         DEF LwsWriteFails, OnWebsocketError, MarkStopped,
             OnSignalingErrorReceived, NotifyStopped
  <2>11. CASE LwsReceivePart
    <3>1. WebsocketTypeOK'
      BY <2>11 DEF LwsReceivePart, ReceiveFragment, Gathered, GatheredFrom, WebsocketTypeOK
    <3>. QED BY <2>11, <3>1 DEF LwsReceivePart
  <2>12. CASE LwsReceiveFrame
    <3>. PICK frame \in ServerFrame : OnSignalFrameReceived(frame)
      BY <2>12 DEF LwsReceiveFrame, Parsed
    <3>1. WebsocketTypeOK'
      <4>1. /\ received_data_buffer_' \in Seq(Fragment) /\ inbound' \in Seq(Fragment)
            /\ UNCHANGED <<outbound, answered, sendVars>>
        BY <2>12 DEF LwsReceiveFrame, ReceiveFragment, Gathered, GatheredFrom, WebsocketTypeOK
      <4>2. UNCHANGED staleVars
        BY <2>12 DEF LwsReceiveFrame, ReceiveFragment
      <4>. QED BY <4>1, <4>2, FrameTyped DEF WebsocketTypeOK
    <3>2. TransportTypeOK' /\ ClientTypeOK'
      BY FrameTyped DEF TypeOK
    <3>. QED BY <2>12, <3>1, <3>2 DEF LwsReceiveFrame
  <2>13. CASE LwsClosed
    <3>1. WebsocketTypeOK'
      BY <2>13, SocketGoneTyped DEF LwsClosed, Closed, WebsocketTypeOK
    <3>. QED BY <2>13, <3>1
         DEF LwsClosed, OnWebsocketClosed, MarkStopped, OnSignalingClosed, NotifyStopped
  <2>14. CASE Stale
    BY <2>14, StaleTyped
  <2>15. CASE ServerAnswers
    <3>1. PICK frame \in ServerFrame : Reply(frame) \/ UNCHANGED inbound
      BY <2>15 DEF ServerAnswers, JoinAcks, ServerFrame
    <3>2. inbound' \in Seq(Fragment)
      <4>1. inbound \in Seq(Fragment)
        BY DEF WebsocketTypeOK
      <4>. QED BY <3>1, <4>1, ReplyTyped
    <3>3. WebsocketTypeOK'
      BY <2>15, <3>2 DEF ServerAnswers, WebsocketTypeOK
    <3>. QED BY <2>15, <3>3 DEF ServerAnswers
  <2>16. CASE ServerIndex
    <3>1. PICK frame \in ServerFrame : \E cut \in Cut(frame) : inbound' = inbound \o cut
      BY <2>16 DEF ServerIndex, ServerFrame
    <3>2. PICK cut \in Cut(frame) : inbound' = inbound \o cut
      BY <3>1
    <3>3. cut \in Seq(Fragment)
      BY CutTyped
    <3>4. WebsocketTypeOK'
      BY <2>16, <3>2, <3>3 DEF ServerIndex, WebsocketTypeOK
    <3>. QED BY <2>16, <3>4 DEF ServerIndex
  <2>17. CASE TurnExpires
    BY <2>17 DEF TurnExpires, WebsocketTypeOK
  <2>18. CASE UNCHANGED vars
    BY <2>18 DEF WebsocketTypeOK
  <2>. QED
    BY <2>1, <2>2, <2>3, <2>4, <2>5, <2>6, <2>7, <2>8, <2>9, <2>10, <2>11, <2>12,
       <2>13, <2>14, <2>15, <2>16, <2>17, <2>18 DEF Next, App, Lws, Server
<1>. QED BY <1>1, <1>2, PTL DEF Spec

-----------------------------------------------------------------------------
(* The safety invariants.  ConnectedMeansOpen is not inductive alone: the     *)
(* retry timer calls Connect without consulting state_, so the proof needs   *)
(* that the timer of the context being polled is only armed while there is   *)
(* no socket in it.  StaleIsPolled says that the current socket does not open *)
(* while the service call on a replaced context lasts.                       *)

TimerIsAlone == retry => link = "none"

StaleIsPolled == stale # "none" => link \in {"none", "connecting"}

SocketInv == ConnectedMeansOpen /\ TimerIsAlone /\ StaleIsPolled

\* A frame that a replaced socket had received leaves the timer alone.
LEMMA FrameTimer ==
  ASSUME TimerIsAlone, StaleIsPolled, NEW frame, OnSignalFrameReceived(frame),
         UNCHANGED stale
  PROVE  TimerIsAlone' /\ StaleIsPolled'
BY DEF TimerIsAlone, StaleIsPolled, OnSignalFrameReceived, UpdateTurnCredentials, OnLeaveAck,
       StopTransport, Close, HandleIndexFrame, Ignored

\* Only a service call on a replaced context makes the steps of Stale.
LEMMA StaleUnderway == Stale => stale # "none"
BY DEF Stale, LwsStaleReturns, StaleReturns, LwsStaleClosed, StaleClosed,
       LwsStaleConnectionError, StaleConnectionError, LwsStaleRetryConnect,
       LwsStaleRetryFails, LwsStaleEstablished, StaleEstablished, LwsStaleWrite,
       LwsStaleWriteFails, StalePop, LwsStaleReceivePart, LwsStaleReceiveFrame,
       StaleReceive

\* What a service call on a replaced context does keeps SocketInv.
LEMMA StaleSocketInv == SocketInv /\ Stale => SocketInv'
<1>. SUFFICES ASSUME SocketInv, Stale PROVE SocketInv'
  OBVIOUS
<1>. USE DEF SocketInv, ConnectedMeansOpen, TimerIsAlone, StaleIsPolled
<1>1. CASE LwsStaleReturns
  BY <1>1 DEF LwsStaleReturns, StaleReturns
<1>2. CASE LwsStaleClosed
  BY <1>2 DEF LwsStaleClosed, StaleClosed, OnWebsocketClosed, OnSignalingClosed
<1>3. CASE LwsStaleConnectionError
  BY <1>3 DEF LwsStaleConnectionError, StaleConnectionError, OnWebsocketError,
              OnSignalingErrorReceived
<1>4. CASE LwsStaleRetryConnect
  BY <1>4 DEF LwsStaleRetryConnect, ConnectBegins, ReplaceSocket
<1>5. CASE LwsStaleRetryFails
  BY <1>5 DEF LwsStaleRetryFails, ConnectFails, ReplaceSocket, OnWebsocketError,
              OnSignalingErrorReceived
<1>6. CASE LwsStaleEstablished \/ LwsStaleWrite \/ LwsStaleWriteFails
  BY <1>6 DEF LwsStaleEstablished, StaleEstablished, LwsStaleWrite,
              LwsStaleWriteFails, StalePop
<1>7. CASE LwsStaleReceivePart
  BY <1>7 DEF LwsStaleReceivePart, StaleReceive
<1>8. CASE LwsStaleReceiveFrame
  <2>1. overheard' = TRUE /\ UNCHANGED stale
    BY <1>8 DEF LwsStaleReceiveFrame, StaleReceive
  <2>2. TimerIsAlone' /\ StaleIsPolled'
    BY <1>8, <2>1, FrameTimer DEF LwsStaleReceiveFrame
  <2>. QED BY <2>1, <2>2
<1>. QED
  BY <1>1, <1>2, <1>3, <1>4, <1>5, <1>6, <1>7, <1>8 DEF Stale

\* Init and every step keep SocketInv.
LEMMA SocketInvStep == SocketInv /\ [Next]_vars => SocketInv'
<1>. SUFFICES ASSUME SocketInv, [Next]_vars PROVE SocketInv'
  OBVIOUS
<1>. USE DEF SocketInv, ConnectedMeansOpen, TimerIsAlone, StaleIsPolled
<1>1. CASE AppStart
  BY <1>1 DEF AppStart, Start, StartConnects, ConnectBegins, ReplaceSocket
<1>2. CASE AppStartFails
  BY <1>2 DEF AppStartFails, StartFailing, StartFails, ConnectFails, ReplaceSocket
<1>3. CASE AppStop
  BY <1>3 DEF AppStop, Stop
<1>4. ASSUME NEW frame \in {"SUBSCRIBE", "DATA_MESSAGE"}, AppSend(frame)
      PROVE  SocketInv'
  BY <1>4 DEF AppSend, Send
<1>5. CASE LwsEstablished
  BY <1>5 DEF LwsEstablished, Established, Serviced
<1>6. CASE LwsConnectionError
  BY <1>6 DEF LwsConnectionError, ConnectionError, OnWebsocketError, OnSignalingErrorReceived
<1>7. CASE LwsRetryConnect
  BY <1>7 DEF LwsRetryConnect, RetryDue, ConnectBegins, ReplaceSocket
<1>8. CASE LwsRetryFails
  BY <1>8 DEF LwsRetryFails, OnWebsocketError, OnSignalingErrorReceived, ConnectFails,
              ReplaceSocket
<1>9. CASE LwsWrite
  BY <1>9 DEF LwsWrite, Write
<1>10. CASE LwsWriteFails
  BY <1>10 DEF LwsWriteFails, WriteFails, Serviced, OnWebsocketError, OnSignalingErrorReceived
<1>11. CASE LwsReceivePart
  BY <1>11 DEF LwsReceivePart, ReceiveFragment
<1>12. CASE LwsReceiveFrame
  <2>. PICK frame \in ServerFrame : OnSignalFrameReceived(frame)
    BY <1>12 DEF LwsReceiveFrame, Parsed
  <2>0. UNCHANGED staleVars
    BY <1>12 DEF LwsReceiveFrame, ReceiveFragment
  <2>1. CASE OnLeaveAck
    BY <1>12, <2>0, <2>1 DEF LwsReceiveFrame, OnLeaveAck, StopTransport, Close,
                       ReceiveFragment, Serviced
  <2>2. CASE UNCHANGED <<state_, socketVars>>
    BY <1>12, <2>0, <2>2 DEF LwsReceiveFrame
  <2>. QED
    BY <2>1, <2>2 DEF OnSignalFrameReceived, UpdateTurnCredentials, HandleIndexFrame, Ignored
<1>13. CASE LwsClosed
  BY <1>13 DEF LwsClosed, Closed, OnWebsocketClosed, OnSignalingClosed
<1>14. CASE Stale
  BY <1>14, StaleSocketInv
<1>15. CASE ServerAnswers
  BY <1>15 DEF ServerAnswers
<1>16. CASE ServerIndex
  BY <1>16 DEF ServerIndex
<1>17. CASE TurnExpires
  BY <1>17 DEF TurnExpires
<1>18. CASE UNCHANGED vars
  BY <1>18
<1>. QED
  BY <1>1, <1>2, <1>3, <1>4, <1>5, <1>6, <1>7, <1>8, <1>9, <1>10, <1>11, <1>12,
     <1>13, <1>14, <1>15, <1>16, <1>17, <1>18 DEF Next, App, Lws, Server

\* SocketInv, in every state of every behavior.
LEMMA SocketInvHolds == Spec => []SocketInv
<1>1. Init => SocketInv
  BY DEF Init, WebsocketInit, TransportInit, ClientInit, SocketInv,
         ConnectedMeansOpen, TimerIsAlone, StaleIsPolled
<1>. QED BY <1>1, SocketInvStep, PTL DEF Spec

\* A client that counts itself connected or leaving has an open socket of its
\* own, so every frame it queues and every writable callback it requests is on
\* a live wsi_, unless a socket that Start() replaced has called back since
\* (default_signaling_client.cc, OnSignalingConnected to Stop).
THEOREM ConnectedMeansOpenHolds == Spec => []ConnectedMeansOpen
<1>1. SocketInv => ConnectedMeansOpen
  BY DEF SocketInv
<1>. QED BY <1>1, SocketInvHolds, PTL

-----------------------------------------------------------------------------
(* No LEAVE is lost.  A frame leaves the queue for the wire, and goes from   *)
(* the wire with its socket only; that the client is not waiting for a       *)
(* LEAVE_ACK then is what SocketInv adds to LeaveUnderway.                   *)

Underway(frame) == frame \in Range(outbound) \union Range(message_queue_)

\* What is appended is in the sequence, and so is what was there before.
LEMMA AppendRange ==
  ASSUME NEW S, NEW s \in Seq(S), NEW e \in S
  PROVE  Range(Append(s, e)) = Range(s) \union {e}
<1>1. /\ DOMAIN Append(s, e) = DOMAIN s \union {Len(s) + 1}
      /\ Append(s, e)[Len(s) + 1] = e
      /\ \A i \in DOMAIN s : Append(s, e)[i] = s[i]
  BY AppendProperties
<1>. QED BY <1>1 DEF Range

\* What is not at the head of a sequence is in its tail.
LEMMA TailRange ==
  ASSUME NEW S, NEW s \in Seq(S), s # <<>>
  PROVE  Range(s) \subseteq {Head(s)} \union Range(Tail(s))
<1>. SUFFICES ASSUME NEW i \in DOMAIN s, i # 1
              PROVE  s[i] \in Range(Tail(s))
  BY HeadTailProperties DEF Range
<1>1. i - 1 \in DOMAIN Tail(s) /\ Tail(s)[i - 1] = s[i]
  BY HeadTailProperties
<1>. QED BY <1>1 DEF Range

\* Every step that leaves the client leaving keeps its LEAVE underway.
LEMMA LeaveUnderwayStep ==
  TypeOK /\ SocketInv /\ LeaveUnderway /\ [Next]_vars => LeaveUnderway'
<1>. SUFFICES ASSUME TypeOK, SocketInv, LeaveUnderway, [Next]_vars,
                     ~overheard', state_' = "kDisconnecting"
              PROVE  Underway("LEAVE")'
  BY DEF LeaveUnderway, Underway
<1>. USE DEF Underway
<1>0. message_queue_ \in Seq(ClientFrame) /\ outbound \in Seq(ClientFrame)
  BY DEF TypeOK, WebsocketTypeOK
<1>1. ~overheard /\ state_ = "kDisconnecting" =>
        link = "open" /\ stale = "none" /\ Underway("LEAVE")
  BY DEF SocketInv, ConnectedMeansOpen, LeaveUnderway
<1>a. retry => link = "none"
  BY DEF SocketInv, TimerIsAlone
<1>2. CASE AppStop
  <2>1. CASE state_ = "kConnected"
    <3>1. message_queue_' = Append(message_queue_, "LEAVE")
      BY <1>2, <2>1 DEF AppStop, Stop, SendSignalFrame, SendBinary
    <3>2. Range(Append(message_queue_, "LEAVE")) = Range(message_queue_) \union {"LEAVE"}
      BY <1>0, AppendRange DEF ClientFrame
    <3>. QED BY <3>1, <3>2
  <2>2. CASE state_ # "kConnected"
    BY <1>1, <1>2, <2>2 DEF AppStop, Stop
  <2>. QED BY <2>1, <2>2
<1>3. ASSUME NEW frame \in {"SUBSCRIBE", "DATA_MESSAGE"}, AppSend(frame)
      PROVE  Underway("LEAVE")'
  BY <1>1, <1>3 DEF AppSend, Send
<1>4. CASE LwsRetryConnect
  BY <1>1, <1>a, <1>4 DEF LwsRetryConnect, RetryDue, ConnectBegins, ReplaceSocket
<1>5. CASE LwsWrite
  <2>0. CASE message_queue_ = <<>>
    BY <1>1, <1>5, <2>0 DEF LwsWrite, Write
  <2>. SUFFICES ASSUME message_queue_ # <<>> PROVE Underway("LEAVE")'
    BY <2>0
  <2>1. Range(message_queue_) \subseteq {Head(message_queue_)} \union Range(message_queue_')
    BY <1>0, <1>5, WriteMoves, TailRange
  <2>2. Range(outbound') = Range(outbound) \union {Head(message_queue_)}
    <3>1. PICK frame \in ClientFrame : /\ frame = Head(message_queue_)
                                       /\ outbound' = Append(outbound, frame)
      BY <1>5, WriteMoves
    <3>2. Range(Append(outbound, frame)) = Range(outbound) \union {frame}
      BY <1>0, AppendRange
    <3>. QED BY <3>1, <3>2
  <2>. QED BY <1>1, <1>5, <2>1, <2>2, WriteMoves
<1>6. CASE LwsReceivePart \/ LwsReceiveFrame
  <2>1. UNCHANGED <<message_queue_, outbound, overheard>>
    BY <1>6 DEF LwsReceivePart, LwsReceiveFrame, ReceiveFragment
  <2>2. UNCHANGED state_ \/ state_' = "kDisconnected"
    BY <1>6 DEF LwsReceivePart, LwsReceiveFrame, OnSignalFrameReceived,
                UpdateTurnCredentials, OnLeaveAck, HandleIndexFrame, Ignored
  <2>. QED BY <1>1, <2>1, <2>2
<1>7. CASE ServerAnswers \/ ServerIndex \/ TurnExpires \/ UNCHANGED vars
  BY <1>1, <1>7 DEF ServerAnswers, ServerIndex, TurnExpires
<1>8. ~AppStart /\ ~AppStartFails /\ ~LwsEstablished
  BY DEF AppStart, Start, AppStartFails, StartFailing, LwsEstablished,
         OnSignalingConnected
<1>9. ~LwsConnectionError /\ ~LwsRetryFails /\ ~LwsWriteFails
  BY DEF LwsConnectionError, LwsRetryFails, LwsWriteFails, OnWebsocketError,
         OnSignalingErrorReceived
<1>10. ~LwsClosed
  BY DEF LwsClosed, OnWebsocketClosed, OnSignalingClosed
<1>11. CASE Stale
  <2>1. overheard' \/ state_' = "kDisconnected"
         \/ LwsStaleReturns \/ LwsStaleRetryConnect
    BY <1>11
    DEF Stale, LwsStaleClosed, OnWebsocketClosed, OnSignalingClosed,
        LwsStaleConnectionError, LwsStaleRetryFails, OnWebsocketError,
        OnSignalingErrorReceived, LwsStaleEstablished, StaleEstablished,
        LwsStaleWrite, LwsStaleWriteFails, StalePop, LwsStaleReceivePart,
        LwsStaleReceiveFrame, StaleReceive
  <2>2. stale # "none"
    BY <1>11, StaleUnderway
  <2>3. CASE LwsStaleReturns
    BY <1>1, <2>2, <2>3 DEF LwsStaleReturns, StaleReturns
  <2>4. CASE LwsStaleRetryConnect
    BY <1>1, <2>2, <2>4 DEF LwsStaleRetryConnect, ConnectBegins, ReplaceSocket
  <2>. QED BY <2>1, <2>3, <2>4
<1>. QED
  BY <1>2, <1>3, <1>4, <1>5, <1>6, <1>7, <1>8, <1>9, <1>10, <1>11
  DEF Next, App, Lws, Server

\* Stop() is not left waiting for the answer to a LEAVE that was dropped: as
\* long as the client is disconnecting, the frame is queued for, or was written
\* to, the socket it has (default_signaling_client.cc, Stop and SendLeave).
THEOREM LeaveUnderwayHolds == Spec => []LeaveUnderway
<1>1. Init => LeaveUnderway
  BY DEF Init, ClientInit, LeaveUnderway
<1>. QED BY <1>1, TypeCorrect, SocketInvHolds, LeaveUnderwayStep, PTL DEF Spec

-----------------------------------------------------------------------------
(* is_joined_ speaks of the current socket.  The invariant adds where the    *)
(* flag comes from, a JOIN_ACK on the wire answers a JOIN of the same        *)
(* socket, and why it does not survive it: a joined socket only closes under *)
(* a transport that is not stopped, whose Start() would not replace it.      *)

JoinSeen == \E i \in 1 .. answered : outbound[i] = "JOIN"

JoinInv ==
  /\ answered <= Len(outbound)
  /\ (\E k \in DOMAIN inbound : inbound[k].frame = "JOIN_ACK") => JoinSeen
  /\ is_joined_ /\ ~orphaned /\ ~overheard =>
       /\ JoinSeen
       /\ link = "open" \/ (link = "closing" /\ ~is_stopped_)

\* What the server has dealt with, without the subsequence.
LEMMA UploadHasJoin ==
  ASSUME TypeOK, answered <= Len(outbound)
  PROVE  JoinSeen <=> "JOIN" \in Range(Upload)
<1>1. outbound \in Seq(ClientFrame) /\ answered \in Nat
  BY DEF TypeOK, WebsocketTypeOK
<1>2. /\ DOMAIN Upload = 1 .. answered
      /\ \A i \in 1 .. answered : Upload[i] = outbound[i]
  BY <1>1 DEF Upload
<1>. QED BY <1>2 DEF JoinSeen, Range

\* The frame that comes out of the buffer is the last fragment's.
LEMMA ParsedIsLast ==
  ASSUME TypeOK, inbound # <<>>, NEW frame \in Parsed(Gathered)
  PROVE  Head(inbound).frame = frame
<1>1. received_data_buffer_ \in Seq(Fragment) /\ Head(inbound) \in Fragment
  BY HeadTailProperties DEF TypeOK, WebsocketTypeOK
<1>2. Gathered[Len(Gathered)] = Head(inbound)
  BY <1>1, AppendProperties DEF Gathered, GatheredFrom
<1>3. \/ Gathered = <<Piece(frame, "whole")>>
      \/ Gathered = <<Piece(frame, "head"), Piece(frame, "tail")>>
  BY DEF Parsed
<1>4. Head(inbound) = Piece(frame, "whole") \/ Head(inbound) = Piece(frame, "tail")
  BY <1>2, <1>3
<1>. QED BY <1>4 DEF Piece

\* With the socket go its frames, and nothing is claimed of the next one.
LEMMA SocketGoneJoinInv ==
  ASSUME SocketGone, ~(is_joined_' /\ ~orphaned' /\ ~overheard')
  PROVE  JoinInv'
BY DEF SocketGone, JoinInv

\* Every step keeps JoinInv.
LEMMA JoinInvStep == TypeOK /\ SocketInv /\ JoinInv /\ [Next]_vars => JoinInv'
<1>. SUFFICES ASSUME TypeOK, SocketInv, JoinInv, [Next]_vars PROVE JoinInv'
  OBVIOUS
<1>0. /\ outbound \in Seq(ClientFrame) /\ inbound \in Seq(Fragment)
      /\ answered \in Nat /\ is_joined_ \in BOOLEAN /\ orphaned \in BOOLEAN
  BY DEF TypeOK, WebsocketTypeOK, ClientTypeOK
<1>1. CASE AppStart
  <2>1. CASE StartConnects
    <3>1. ~(is_joined_' /\ ~orphaned' /\ ~overheard')
      BY <1>1, <2>1 DEF AppStart, Start, StartConnects, ConnectBegins, ReplaceSocket, JoinInv
    <3>. QED BY <2>1, <3>1, SocketGoneJoinInv DEF StartConnects, ConnectBegins, ReplaceSocket
  <2>2. CASE UNCHANGED <<websocketVars, is_stopped_>>
    BY <1>1, <2>2 DEF AppStart, Start, JoinInv, JoinSeen
  <2>. QED BY <1>1, <2>1, <2>2 DEF AppStart, Start
<1>2. CASE AppStartFails
  BY <1>2, SocketGoneJoinInv
  DEF AppStartFails, StartFailing, StartFails, ConnectFails, ReplaceSocket
<1>3. CASE AppStop \/ \E frame \in {"SUBSCRIBE", "DATA_MESSAGE"} : AppSend(frame)
  BY <1>3 DEF AppStop, Stop, AppSend, Send, SendSignalFrame, JoinInv, JoinSeen
<1>4. CASE LwsEstablished
  BY <1>4 DEF LwsEstablished, Established, Serviced, OnSignalingConnected,
              SendSignalFrame, JoinInv, JoinSeen
<1>5. CASE LwsConnectionError \/ LwsWriteFails
  BY <1>5 DEF LwsConnectionError, ConnectionError, LwsWriteFails, WriteFails,
              OnWebsocketError, OnSignalingErrorReceived, JoinInv, JoinSeen
<1>6. CASE LwsRetryConnect
  <2>1. ~(is_joined_' /\ ~orphaned' /\ ~overheard')
    BY <1>0, <1>6 DEF LwsRetryConnect, RetryDue, ConnectBegins, ReplaceSocket, JoinInv,
                      SocketInv, TimerIsAlone
  <2>. QED BY <1>6, <2>1, SocketGoneJoinInv
           DEF LwsRetryConnect, ConnectBegins, ReplaceSocket
<1>7. CASE LwsRetryFails
  BY <1>7, SocketGoneJoinInv
  DEF LwsRetryFails, ConnectFails, ReplaceSocket, OnWebsocketError, OnSignalingErrorReceived
<1>8. CASE LwsWrite
  <2>0. CASE message_queue_ = <<>>
    BY <1>8, <2>0 DEF LwsWrite, Write, JoinInv, JoinSeen
  <2>. SUFFICES ASSUME message_queue_ # <<>> PROVE JoinInv'
    BY <2>0
  <2>1. PICK frame \in ClientFrame : outbound' = Append(outbound, frame)
    BY <1>8, WriteMoves
  <2>2. /\ Len(outbound') = Len(outbound) + 1
        /\ \A i \in 1 .. Len(outbound) : outbound'[i] = outbound[i]
    BY <1>0, <2>1, AppendProperties
  <2>3. answered <= Len(outbound)
    BY DEF JoinInv
  <2>4. JoinSeen' <=> JoinSeen
    <3>1. UNCHANGED answered
      BY <1>8, WriteMoves
    <3>2. \A i \in 1 .. answered : outbound'[i] = outbound[i]
      BY <1>0, <2>2, <2>3
    <3>. QED BY <3>1, <3>2 DEF JoinSeen
  <2>. QED BY <1>0, <1>8, <2>2, <2>4, WriteMoves DEF JoinInv
<1>9. CASE LwsReceivePart \/ LwsReceiveFrame
  <2>1. /\ inbound # <<>> /\ inbound' = Tail(inbound) /\ link = "open"
        /\ UNCHANGED <<outbound, answered, staleVars>>
    BY <1>9 DEF LwsReceivePart, LwsReceiveFrame, ReceiveFragment, Serviced
  <2>2. JoinSeen' <=> JoinSeen
    BY <2>1 DEF JoinSeen
  <2>3. \A k \in DOMAIN inbound' : k + 1 \in DOMAIN inbound /\ inbound'[k] = inbound[k + 1]
    BY <1>0, <2>1
  <2>4. (\E k \in DOMAIN inbound' : inbound'[k].frame = "JOIN_ACK") => JoinSeen
    BY <2>3 DEF JoinInv
  <2>5. is_joined_' /\ ~orphaned' /\ ~overheard' =>
          JoinSeen /\ (link' = "open" \/ (link' = "closing" /\ ~is_stopped_'))
    <3>1. CASE LwsReceivePart
      BY <2>1, <3>1 DEF LwsReceivePart, JoinInv
    <3>2. CASE LwsReceiveFrame
      <4>. PICK frame \in Parsed(Gathered) : OnSignalFrameReceived(frame)
        BY <3>2 DEF LwsReceiveFrame
      <4>1. CASE frame = "JOIN_ACK" /\ UpdateTurnCredentials
        <5>1. inbound[1].frame = "JOIN_ACK" /\ 1 \in DOMAIN inbound
          BY <1>0, <2>1, <4>1, ParsedIsLast, HeadTailProperties
        <5>. QED BY <2>1, <4>1, <5>1 DEF UpdateTurnCredentials, JoinInv
      <4>2. CASE OnLeaveAck
        BY <2>1, <4>2 DEF OnLeaveAck, StopTransport, Close, JoinInv
      <4>3. CASE UNCHANGED <<is_joined_, socketVars, is_stopped_>>
        BY <2>1, <4>3 DEF JoinInv
      <4>. QED
        BY <4>1, <4>2, <4>3
        DEF OnSignalFrameReceived, HandleIndexFrame, Ignored
    <3>. QED BY <1>9, <3>1, <3>2
  <2>. QED BY <2>1, <2>2, <2>4, <2>5 DEF JoinInv
<1>10. CASE LwsClosed
  BY <1>10, SocketGoneJoinInv DEF LwsClosed, Closed, OnWebsocketClosed, OnSignalingClosed
<1>11. CASE Stale
  <2>1. CASE LwsStaleReturns
    BY <2>1 DEF LwsStaleReturns, StaleReturns, JoinInv, JoinSeen
  <2>2. CASE LwsStaleClosed
    BY <2>2 DEF LwsStaleClosed, StaleClosed, OnWebsocketClosed, OnSignalingClosed,
                JoinInv, JoinSeen
  <2>3. CASE LwsStaleConnectionError
    BY <2>3 DEF LwsStaleConnectionError, StaleConnectionError, StaleUnread,
                OnWebsocketError, OnSignalingErrorReceived, JoinInv, JoinSeen
  <2>4. CASE LwsStaleRetryConnect
    <3>1. ~(is_joined_' /\ ~orphaned' /\ ~overheard')
      BY <1>0, <2>4, StaleUnderway, <1>11
      DEF LwsStaleRetryConnect, ConnectBegins, ReplaceSocket, JoinInv, SocketInv,
          StaleIsPolled
    <3>. QED BY <2>4, <3>1, SocketGoneJoinInv
             DEF LwsStaleRetryConnect, ConnectBegins, ReplaceSocket
  <2>5. CASE LwsStaleRetryFails
    BY <2>5, SocketGoneJoinInv
    DEF LwsStaleRetryFails, ConnectFails, ReplaceSocket, OnWebsocketError,
        OnSignalingErrorReceived
  <2>6. CASE LwsStaleEstablished \/ LwsStaleWrite \/ LwsStaleWriteFails
    BY <2>6 DEF LwsStaleEstablished, StaleEstablished, LwsStaleWrite,
                LwsStaleWriteFails, StalePop, StaleUnread, JoinInv, JoinSeen
  <2>7. CASE LwsStaleReceivePart \/ LwsStaleReceiveFrame
    BY <2>7 DEF LwsStaleReceivePart, LwsStaleReceiveFrame, StaleReceive, JoinInv,
                JoinSeen
  <2>. QED
    BY <1>11, <2>1, <2>2, <2>3, <2>4, <2>5, <2>6, <2>7 DEF Stale
<1>12. CASE ServerAnswers
  <2>1. /\ answered < Len(outbound) /\ answered' = answered + 1
        /\ UNCHANGED <<outbound, link, orphaned, overheard, is_joined_, is_stopped_>>
    BY <1>12 DEF ServerAnswers
  <2>2. JoinSeen => JoinSeen'
    BY <1>0, <2>1 DEF JoinSeen
  <2>3. outbound[answered + 1] = "JOIN" => JoinSeen'
    BY <1>0, <2>1 DEF JoinSeen
  <2>4. (\E k \in DOMAIN inbound' : inbound'[k].frame = "JOIN_ACK") => JoinSeen'
    <3>1. PICK frame \in ServerFrame :
            /\ Reply(frame) \/ UNCHANGED inbound
            /\ frame = "JOIN_ACK" => outbound[answered + 1] = "JOIN"
      BY <1>12 DEF ServerAnswers, JoinAcks, ServerFrame
    <3>2. CASE UNCHANGED inbound
      BY <2>2, <3>2 DEF JoinInv
    <3>3. CASE Reply(frame)
      <4>1. Piece(frame, "whole") \in Fragment /\ Piece(frame, "whole").frame = frame
        BY PieceTyped DEF Part, Piece
      <4>2. \A k \in DOMAIN inbound' : \/ inbound'[k] = Piece(frame, "whole")
                                       \/ k \in DOMAIN inbound /\ inbound'[k] = inbound[k]
        BY <1>0, <3>3, <4>1, AppendProperties DEF Reply
      <4>. QED BY <2>2, <2>3, <3>1, <4>1, <4>2 DEF JoinInv
    <3>. QED BY <3>1, <3>2, <3>3
  <2>. QED BY <1>0, <2>1, <2>2, <2>4 DEF JoinInv
<1>13. CASE ServerIndex
  <2>1. PICK frame \in {"INDEX", "INDEX_AT_CAPACITY"} :
          \E cut \in Cut(frame) : inbound' = inbound \o cut
    BY <1>13 DEF ServerIndex
  <2>2. PICK cut \in Cut(frame) : inbound' = inbound \o cut
    BY <2>1
  <2>3. cut \in Seq(Fragment) /\ \A k \in DOMAIN cut : cut[k].frame = frame
    <3>1. cut \in Seq(Fragment)
      BY CutTyped DEF ServerFrame
    <3>2. \/ cut = <<Piece(frame, "whole")>>
          \/ cut = <<Piece(frame, "head"), Piece(frame, "tail")>>
      BY DEF Cut
    <3>. QED BY <3>1, <3>2 DEF Piece
  <2>4. \A k \in DOMAIN inbound' : \/ k \in DOMAIN inbound /\ inbound'[k] = inbound[k]
                                   \/ inbound'[k].frame = frame
    BY <1>0, <2>2, <2>3
  <2>5. (\E k \in DOMAIN inbound' : inbound'[k].frame = "JOIN_ACK") => JoinSeen
    BY <2>4 DEF JoinInv
  <2>. QED BY <1>13, <2>5 DEF ServerIndex, JoinInv, JoinSeen
<1>14. CASE TurnExpires \/ UNCHANGED vars
  BY <1>14 DEF TurnExpires, JoinInv, JoinSeen
<1>. QED
  BY <1>1, <1>2, <1>3, <1>4, <1>5, <1>6, <1>7, <1>8, <1>9, <1>10, <1>11, <1>12,
     <1>13, <1>14 DEF Next, App, Lws, Server

\* A client that thinks it has joined has a socket whose JOIN the server has
\* answered: the flag of a previous connection is never taken for this one's,
\* unless Start() or a timer it left behind replaced a live socket (default_signaling_client.cc,
\* UpdateTurnCredentials, OnSignalingClosed and OnSignalingErrorReceived).
THEOREM JoinedOnThisSocketHolds == Spec => []JoinedOnThisSocket
<1>1. Init => JoinInv
  BY EmptySeq DEF Init, WebsocketInit, TransportInit, ClientInit, JoinInv
<1>2. TypeOK /\ JoinInv => JoinedOnThisSocket
  BY UploadHasJoin DEF JoinInv, JoinedOnThisSocket
<1>. QED BY <1>1, <1>2, TypeCorrect, SocketInvHolds, JoinInvStep, PTL DEF Spec

-----------------------------------------------------------------------------
(* A transport without a socket has said so.  Start() is what clears         *)
(* is_stopped_, for a new socket or after Connect has reported its failure;  *)
(* the last end of a socket sets it again; and OnSignalingClientStarted,     *)
(* which alone could follow an error, comes out of a frame of an open one or  *)
(* of a replaced one that is overheard.                                      *)

LEMMA DeadHasReportedStep ==
  DeadHasReported /\ [Next]_vars => DeadHasReported'
<1>. SUFFICES ASSUME DeadHasReported, [Next]_vars PROVE DeadHasReported'
  OBVIOUS
<1>. USE DEF DeadHasReported, RunningHasSocket
<1>1. CASE AppStart
  BY <1>1 DEF AppStart, Start, StartConnects, ConnectBegins
<1>2. CASE AppStartFails
  BY <1>2 DEF AppStartFails, StartFailing, NotifyStopped
<1>3. CASE AppStop
  BY <1>3 DEF AppStop, Stop, SendSignalFrame
<1>4. ASSUME NEW frame \in {"SUBSCRIBE", "DATA_MESSAGE"}, AppSend(frame)
      PROVE  DeadHasReported'
  BY <1>4 DEF AppSend, Send, SendSignalFrame
<1>5. CASE LwsEstablished
  BY <1>5 DEF LwsEstablished, Established
<1>6. CASE LwsConnectionError \/ LwsRetryFails \/ LwsWriteFails
  BY <1>6 DEF LwsConnectionError, LwsRetryFails, LwsWriteFails, OnWebsocketError,
              OnSignalingErrorReceived, NotifyStopped
<1>7. CASE LwsRetryConnect
  BY <1>7 DEF LwsRetryConnect, ConnectBegins
<1>8. CASE LwsClosed
  BY <1>8 DEF LwsClosed, OnWebsocketClosed, MarkStopped
<1>11. CASE Stale
  <2>1. overheard' \/ LwsStaleReturns \/ LwsStaleClosed \/ LwsStaleConnectionError
          \/ LwsStaleRetryConnect \/ LwsStaleRetryFails
    BY <1>11
    DEF Stale, LwsStaleEstablished, StaleEstablished, LwsStaleWrite,
        LwsStaleWriteFails, StalePop, LwsStaleReceivePart, LwsStaleReceiveFrame,
        StaleReceive
  <2>2. CASE LwsStaleReturns
    BY <2>2 DEF LwsStaleReturns, StaleReturns
  <2>3. CASE LwsStaleClosed
    BY <2>3 DEF LwsStaleClosed, OnWebsocketClosed, MarkStopped
  <2>4. CASE LwsStaleConnectionError \/ LwsStaleRetryFails
    BY <2>4 DEF LwsStaleConnectionError, LwsStaleRetryFails, OnWebsocketError,
                OnSignalingErrorReceived, NotifyStopped
  <2>5. CASE LwsStaleRetryConnect
    BY <2>5 DEF LwsStaleRetryConnect, ConnectBegins
  <2>. QED BY <2>1, <2>2, <2>3, <2>4, <2>5
<1>9. CASE LwsReceiveFrame
  <2>1. link = "open" /\ UNCHANGED staleVars
    BY <1>9 DEF LwsReceiveFrame, ReceiveFragment, Serviced
  <2>2. UNCHANGED link \/ link' = "closing"
    <3>. PICK frame \in ServerFrame : OnSignalFrameReceived(frame)
      BY <1>9 DEF LwsReceiveFrame, Parsed
    <3>. QED
      BY <2>1 DEF OnSignalFrameReceived, UpdateTurnCredentials, HandleIndexFrame,
                  Ignored, OnLeaveAck, StopTransport, Close
  <2>. QED BY <2>1, <2>2
<1>10. CASE LwsWrite \/ LwsReceivePart \/ Server \/ TurnExpires \/ UNCHANGED vars
  BY <1>10 DEF LwsWrite, Write, LwsReceivePart, ReceiveFragment, Server, ServerAnswers, ServerIndex,
               TurnExpires
<1>. QED
  BY <1>1, <1>2, <1>3, <1>4, <1>5, <1>6, <1>7, <1>8, <1>9, <1>10, <1>11
  DEF Next, App, Lws

\* A transport that is dead and refuses every further Start() without a word
\* has told the application of an error before: OnSignalingClientStopped with
\* the error was the last callback (websocket_signaling_transport.cc, Start).
THEOREM DeadHasReportedHolds == Spec => []DeadHasReported
<1>1. Init => DeadHasReported
  BY DEF Init, TransportInit, DeadHasReported, RunningHasSocket
<1>. QED BY <1>1, DeadHasReportedStep, PTL DEF Spec

-----------------------------------------------------------------------------
(* What Start() finds the first time.  Nothing is left over from a run       *)
(* before: until the first socket opens, whatever attempts and retries it    *)
(* takes, the queue, the buffer and the wire are empty, and once it is open  *)
(* no other attempt follows in that run.                                     *)

FirstRunInv ==
  starts <= 1 =>
    /\ stale = "none" /\ ~orphaned /\ ~overheard
    /\ starts = 0 => link = "none" /\ ~retry
    /\ starts = 0 \/ retry \/ link = "connecting" =>
         message_queue_ = <<>> /\ received_data_buffer_ = <<>>
    /\ link = "connecting" => outbound = <<>> /\ inbound = <<>>

\* A first run replaces no socket and no armed timer, so nothing is stale.
LEMMA NoStaleInFirstRun ==
  ASSUME FirstRunInv, starts' <= 1
  PROVE  ~Stale
<1>1. Stale => UNCHANGED starts
  BY DEF Stale, LwsStaleReturns, LwsStaleClosed, LwsStaleConnectionError,
         LwsStaleRetryConnect, LwsStaleRetryFails, LwsStaleEstablished, LwsStaleWrite,
         LwsStaleWriteFails, LwsStaleReceivePart, LwsStaleReceiveFrame
<1>. QED BY <1>1, StaleUnderway DEF FirstRunInv

LEMMA FirstRunInvStep ==
  TypeOK /\ SocketInv /\ FirstRunInv /\ [Next]_vars => FirstRunInv'
<1>. SUFFICES ASSUME TypeOK, SocketInv, FirstRunInv, [Next]_vars, starts' <= 1
              PROVE  FirstRunInv'
  BY DEF FirstRunInv
<1>. USE DEF FirstRunInv
<1>0. /\ starts \in Nat
      /\ ~overheard /\ state_ \in {"kConnected", "kDisconnecting"} => link = "open"
      /\ retry => link = "none"
  BY DEF TypeOK, SocketInv, ConnectedMeansOpen, TimerIsAlone
<1>1. CASE AppStart \/ AppStartFails
  <2>1. starts' = starts + 1 /\ starts = 0
    BY <1>0, <1>1 DEF AppStart, AppStartFails, CountStart
  <2>2. Leftover = "none"
    BY <2>1 DEF Leftover
  <2>0. /\ link = "none" /\ ~retry /\ stale = "none" /\ ~orphaned /\ ~overheard
        /\ message_queue_ = <<>> /\ received_data_buffer_ = <<>>
    BY <2>1
  <2>3. CASE AppStart
    <3>1. CASE StartConnects
      <4>1. ConnectBegins("none")
        BY <2>2, <3>1 DEF StartConnects
      <4>2. /\ link' = "connecting" /\ stale' = "none" /\ ~orphaned' /\ ~overheard'
            /\ outbound' = <<>> /\ inbound' = <<>>
            /\ message_queue_' = <<>> /\ received_data_buffer_' = <<>>
        BY <2>0, <4>1 DEF ConnectBegins, ReplaceSocket, SocketGone
      <4>. QED BY <2>1, <4>2
    <3>2. CASE UNCHANGED websocketVars
      BY <2>0, <3>2
    <3>. QED BY <2>3, <3>1, <3>2 DEF AppStart, Start
  <2>4. CASE AppStartFails
    <3>1. ConnectFails("none")
      BY <2>2, <2>4 DEF AppStartFails, StartFailing, StartFails
    <3>. QED BY <2>0, <2>1, <3>1 DEF ConnectFails, ReplaceSocket, SocketGone
  <2>. QED BY <1>1, <2>3, <2>4
<1>2. CASE AppStop
  BY <1>0, <1>2 DEF AppStop, Stop, SendSignalFrame
<1>3. ASSUME NEW frame \in {"SUBSCRIBE", "DATA_MESSAGE"}, AppSend(frame)
      PROVE  FirstRunInv'
  BY <1>0, <1>3 DEF AppSend, Send, SendSignalFrame
<1>4. CASE LwsEstablished
  BY <1>0, <1>4 DEF LwsEstablished, Established, Serviced
<1>5. CASE LwsConnectionError
  BY <1>0, <1>5 DEF LwsConnectionError, ConnectionError, Serviced
<1>6. CASE LwsRetryConnect \/ LwsRetryFails
  BY <1>0, <1>6 DEF LwsRetryConnect, LwsRetryFails, RetryDue, Serviced, ConnectBegins,
                    ConnectFails, ReplaceSocket, SocketGone
<1>7. CASE LwsWrite \/ LwsWriteFails
  BY <1>0, <1>7 DEF LwsWrite, Write, LwsWriteFails, WriteFails, Serviced
<1>8. CASE LwsReceivePart \/ LwsReceiveFrame
  <2>1. /\ link = "open" /\ UNCHANGED <<retry, starts, staleVars>>
        /\ UNCHANGED link \/ link' = "closing"
    <3>1. CASE LwsReceivePart
      BY <3>1 DEF LwsReceivePart, ReceiveFragment, Serviced
    <3>2. CASE LwsReceiveFrame
      <4>. PICK frame \in ServerFrame : OnSignalFrameReceived(frame)
        BY <3>2 DEF LwsReceiveFrame, Parsed
      <4>. QED
        BY <3>2 DEF LwsReceiveFrame, ReceiveFragment, Serviced, OnSignalFrameReceived,
                    UpdateTurnCredentials, HandleIndexFrame, Ignored, OnLeaveAck,
                    StopTransport, Close
    <3>. QED BY <1>8, <3>1, <3>2
  <2>. QED BY <1>0, <2>1
<1>9. CASE LwsClosed
  BY <1>0, <1>9 DEF LwsClosed, Closed, Serviced
<1>11. ~Stale
  BY NoStaleInFirstRun
<1>10. CASE Server \/ TurnExpires \/ UNCHANGED vars
  BY <1>10 DEF Server, ServerAnswers, ServerIndex, TurnExpires
<1>. QED
  BY <1>1, <1>2, <1>3, <1>4, <1>5, <1>6, <1>7, <1>8, <1>9, <1>10, <1>11
  DEF Next, App, Lws

LEMMA FirstRunInvHolds == Spec => []FirstRunInv
<1>1. Init => FirstRunInv
  BY DEF Init, WebsocketInit, FirstRunInv
<1>. QED BY <1>1, TypeCorrect, SocketInvHolds, FirstRunInvStep, PTL DEF Spec

\* Whatever attempts and retries a first run takes, the timer never calls
\* Connect on top of an attempt or a connection, and no callback of another
\* socket comes (libwebsockets_websocket.cc, CLIENT_CONNECTION_ERROR,
\* RetryConnect and Connect).
THEOREM FirstRunKeepsSocketHolds == Spec => []FirstRunKeepsSocket
<1>1. FirstRunInv => FirstRunKeepsSocket
  BY DEF FirstRunInv, FirstRunKeepsSocket
<1>. QED BY <1>1, FirstRunInvHolds, PTL

-----------------------------------------------------------------------------
(* The dialogue of the first run.  A write moves a frame from the queue to    *)
(* the wire and leaves their concatenation as it is; only JOIN, on an empty  *)
(* dialogue, and what a connected client sends are added to it.              *)

Dialogue == outbound \o message_queue_

Clean(dialogue) ==
  /\ dialogue # <<>>
  /\ \A i \in DOMAIN dialogue :
       /\ dialogue[i] = "JOIN" <=> i = 1
       /\ dialogue[i] = "LEAVE" => i = Len(dialogue)

DialogueInv ==
  starts <= 1 /\ link = "open" =>
    /\ Clean(Dialogue)
    /\ state_ = "kConnected" => \A i \in DOMAIN Dialogue : Dialogue[i] # "LEAVE"

\* Frames other than JOIN may be added to a clean dialogue without a LEAVE.
LEMMA CleanAppend ==
  ASSUME NEW dialogue \in Seq(ClientFrame), Clean(dialogue),
         \A i \in DOMAIN dialogue : dialogue[i] # "LEAVE",
         NEW frame \in ClientFrame, frame # "JOIN"
  PROVE  /\ Clean(Append(dialogue, frame))
         /\ frame # "LEAVE" =>
              \A i \in DOMAIN Append(dialogue, frame) : Append(dialogue, frame)[i] # "LEAVE"
<1>1. /\ Len(dialogue) \in Nat /\ DOMAIN dialogue = 1 .. Len(dialogue)
      /\ Len(dialogue) # 0
  BY LenProperties, EmptySeq DEF Clean
<1>2. /\ Append(dialogue, frame) # <<>>
      /\ Len(Append(dialogue, frame)) = Len(dialogue) + 1
      /\ DOMAIN Append(dialogue, frame) = 1 .. Len(dialogue) + 1
      /\ \A i \in 1 .. Len(dialogue) : Append(dialogue, frame)[i] = dialogue[i]
      /\ Append(dialogue, frame)[Len(dialogue) + 1] = frame
  BY AppendProperties, LenProperties
<1>. QED BY <1>1, <1>2 DEF Clean

\* A frame that is queued is appended to the dialogue.
LEMMA QueuedIsAppended ==
  ASSUME NEW out \in Seq(ClientFrame), NEW queue \in Seq(ClientFrame),
         NEW frame \in ClientFrame
  PROVE  out \o Append(queue, frame) = Append(out \o queue, frame)
<1>1. /\ Append(queue, frame) = queue \o <<frame>>
      /\ out \o queue \in Seq(ClientFrame)
      /\ <<frame>> \in Seq(ClientFrame)
  BY AppendIsConcat, ConcatProperties
<1>. QED BY <1>1, ConcatAssociative, AppendIsConcat

\* A frame that is written stays where it is in the dialogue.
LEMMA WrittenStays ==
  ASSUME NEW out \in Seq(ClientFrame), NEW queue \in Seq(ClientFrame), queue # <<>>
  PROVE  Append(out, Head(queue)) \o Tail(queue) = out \o queue
<1>1. /\ Head(queue) \in ClientFrame /\ Tail(queue) \in Seq(ClientFrame)
      /\ <<Head(queue)>> \in Seq(ClientFrame)
  BY HeadTailProperties
<1>2. <<Head(queue)>> \o Tail(queue) = queue
  BY <1>1
<1>3. Append(out, Head(queue)) = out \o <<Head(queue)>>
  BY <1>1, AppendIsConcat
<1>. QED BY <1>1, <1>2, <1>3, ConcatAssociative

LEMMA DialogueInvStep ==
  TypeOK /\ SocketInv /\ FirstRunInv /\ DialogueInv /\ [Next]_vars => DialogueInv'
<1>. SUFFICES ASSUME TypeOK, SocketInv, FirstRunInv, DialogueInv, [Next]_vars,
                     starts' <= 1, link' = "open"
              PROVE  DialogueInv'
  BY DEF DialogueInv
<1>. USE DEF DialogueInv
<1>0. /\ message_queue_ \in Seq(ClientFrame) /\ outbound \in Seq(ClientFrame)
      /\ Dialogue \in Seq(ClientFrame)
      /\ starts \in Nat
  BY ConcatProperties DEF TypeOK, WebsocketTypeOK, Dialogue
<1>a. starts <= 1 /\ state_ \in {"kConnected", "kDisconnecting"} => link = "open"
  BY DEF SocketInv, ConnectedMeansOpen, FirstRunInv
<1>1. CASE AppStart
  BY <1>0, <1>1 DEF AppStart, Start, StartConnects, ConnectBegins, CountStart, Dialogue
<1>2. CASE AppStop
  <2>1. starts <= 1 /\ link = "open"
    BY <1>2 DEF AppStop, Stop
  <2>2. CASE state_ = "kConnected"
    <3>1. message_queue_' = Append(message_queue_, "LEAVE") /\ UNCHANGED outbound
            /\ state_' = "kDisconnecting"
      BY <1>2, <2>2 DEF AppStop, Stop, SendSignalFrame, SendBinary
    <3>2. Dialogue' = Append(Dialogue, "LEAVE")
      BY <1>0, <3>1, QueuedIsAppended DEF Dialogue, ClientFrame
    <3>. QED BY <1>0, <2>1, <2>2, <3>1, <3>2, CleanAppend DEF ClientFrame
  <2>3. CASE state_ # "kConnected"
    BY <1>2, <2>1, <2>3 DEF AppStop, Stop, Dialogue
  <2>. QED BY <2>2, <2>3
<1>3. ASSUME NEW frame \in {"SUBSCRIBE", "DATA_MESSAGE"}, AppSend(frame)
      PROVE  DialogueInv'
  <2>1. starts <= 1 /\ link = "open"
    BY <1>3 DEF AppSend, Send
  <2>2. CASE state_ = "kConnected"
    <3>1. message_queue_' = Append(message_queue_, frame) /\ UNCHANGED outbound
      BY <1>3, <2>2 DEF AppSend, Send, SendSignalFrame, SendBinary
    <3>2. Dialogue' = Append(Dialogue, frame)
      BY <1>0, <3>1, QueuedIsAppended DEF Dialogue, ClientFrame
    <3>. QED BY <1>0, <2>1, <2>2, <3>2, CleanAppend DEF ClientFrame
  <2>3. CASE state_ # "kConnected"
    BY <1>3, <2>1, <2>3 DEF AppSend, Send, Dialogue
  <2>. QED BY <2>2, <2>3
<1>4. CASE LwsEstablished
  <2>1. message_queue_ = <<>> /\ outbound = <<>>
    BY <1>4 DEF LwsEstablished, Established, Serviced, FirstRunInv
  <2>2. message_queue_' = <<"JOIN">> /\ outbound' = <<>>
    BY <1>4, <2>1 DEF LwsEstablished, Established, OnSignalingConnected,
                      SendSignalFrame, SendBinary
  <2>3. Dialogue' = <<"JOIN">>
    BY <2>2 DEF Dialogue
  <2>. QED BY <2>3 DEF Clean
<1>5. CASE LwsWrite
  <2>1. Dialogue' = Dialogue
    <3>1. CASE message_queue_ = <<>>
      BY <1>5, <3>1 DEF LwsWrite, Write, Dialogue
    <3>2. CASE message_queue_ # <<>>
      BY <1>0, <1>5, <3>2, WrittenStays DEF LwsWrite, Write, Dialogue
    <3>. QED BY <3>1, <3>2
  <2>. QED BY <1>5, <2>1 DEF LwsWrite, Write
<1>6. CASE LwsReceivePart
  BY <1>6 DEF LwsReceivePart, ReceiveFragment, Dialogue
<1>7. CASE LwsReceiveFrame
  <2>1. link = "open" /\ starts <= 1 /\ UNCHANGED Dialogue
    BY <1>7 DEF LwsReceiveFrame, ReceiveFragment, Serviced, Dialogue
  <2>2. UNCHANGED state_ \/ state_' = "kDisconnected"
    BY <1>7 DEF LwsReceiveFrame, OnSignalFrameReceived, UpdateTurnCredentials,
                OnLeaveAck, HandleIndexFrame, Ignored
  <2>. QED BY <2>1, <2>2
<1>8. ~Stale
  BY NoStaleInFirstRun
<1>9. CASE Server \/ TurnExpires \/ UNCHANGED vars
  BY <1>9 DEF Server, ServerAnswers, ServerIndex, TurnExpires, Dialogue
<1>10. ~AppStartFails /\ ~LwsConnectionError /\ ~LwsRetryConnect /\ ~LwsRetryFails
         /\ ~LwsWriteFails /\ ~LwsClosed
  BY DEF AppStartFails, StartFailing, StartFails, ConnectFails, LwsConnectionError,
         ConnectionError, LwsRetryConnect, ConnectBegins, LwsRetryFails,
         LwsWriteFails, WriteFails, LwsClosed, Closed
<1>. QED
  BY <1>1, <1>2, <1>3, <1>4, <1>5, <1>6, <1>7, <1>8, <1>9, <1>10 DEF Next, App, Lws

\* In the first run the server hears one JOIN, then requests, then at most one
\* LEAVE, on the socket that run opens (default_signaling_client.cc,
\* OnSignalingConnected, SendSubscribe and SendLeave).
THEOREM CleanDialogueHolds == Spec => []CleanDialogue
<1>1. Init => DialogueInv
  BY DEF Init, WebsocketInit, DialogueInv
<1>2. DialogueInv => CleanDialogue
  BY DEF DialogueInv, CleanDialogue, Clean, Dialogue
<1>. QED
  BY <1>1, <1>2, TypeCorrect, SocketInvHolds, FirstRunInvHolds, DialogueInvStep, PTL
  DEF Spec

-----------------------------------------------------------------------------
(* Reassembly in the first run.  The first socket starts with an empty       *)
(* buffer, and what the server puts on it comes in whole messages and in     *)
(* pairs of a head and its tail: the buffer and the wire together always     *)
(* hold such messages only, the buffer at most a head.                       *)

\* The fragment at i is a message, or half of one with the other half beside it.
InPlace(stream, i) ==
  \/ stream[i].part = "whole"
  \/ /\ i + 1 \in DOMAIN stream
     /\ stream[i] = Piece(stream[i].frame, "head")
     /\ stream[i + 1] = Piece(stream[i].frame, "tail")
  \/ /\ i - 1 \in DOMAIN stream
     /\ stream[i - 1] = Piece(stream[i].frame, "head")
     /\ stream[i] = Piece(stream[i].frame, "tail")

Messages(stream) == \A i \in DOMAIN stream : InPlace(stream, i)

\* The rest of the wire is made of messages once the head in the buffer, if
\* any, is put back in front of it.
Reassembling ==
  \/ received_data_buffer_ = <<>> /\ Messages(inbound)
  \/ \E frame \in ServerFrame :
       /\ received_data_buffer_ = <<Piece(frame, "head")>>
       /\ Messages(<<Piece(frame, "head")>> \o inbound)

StreamInv ==
  starts <= 1 =>
    IF link \in {"open", "closing"} THEN Reassembling ELSE inbound = <<>>

\* A message at the end of a stream of messages makes another.
LEMMA MessagesConcat ==
  ASSUME NEW s \in Seq(Fragment), Messages(s),
         NEW t \in Seq(Fragment), Messages(t)
  PROVE  Messages(s \o t)
<1>. DEFINE st == s \o t
<1>1. /\ Len(s) \in Nat /\ DOMAIN s = 1 .. Len(s)
      /\ Len(t) \in Nat /\ DOMAIN t = 1 .. Len(t)
      /\ DOMAIN st = 1 .. Len(s) + Len(t)
      /\ \A i \in 1 .. Len(s) : st[i] = s[i]
      /\ \A i \in 1 .. Len(t) : st[i + Len(s)] = t[i]
  BY LenProperties, ConcatProperties
<1>. SUFFICES ASSUME NEW i \in DOMAIN st PROVE InPlace(st, i)
  BY DEF Messages
<1>. HIDE DEF st
<1>2. CASE i \in 1 .. Len(s)
  <2>1. InPlace(s, i) /\ st[i] = s[i]
    BY <1>1, <1>2 DEF Messages
  <2>2. /\ i + 1 \in DOMAIN s => i + 1 \in DOMAIN st /\ st[i + 1] = s[i + 1]
        /\ i - 1 \in DOMAIN s => i - 1 \in DOMAIN st /\ st[i - 1] = s[i - 1]
    BY <1>1, <1>2
  <2>. QED BY <2>1, <2>2, Zenon DEF InPlace
<1>3. CASE i \notin 1 .. Len(s)
  <2>. DEFINE j == i - Len(s)
  <2>1. j \in DOMAIN t /\ st[i] = t[j]
    BY <1>1, <1>3
  <2>2. InPlace(t, j)
    BY <2>1 DEF Messages
  <2>3. /\ j + 1 \in DOMAIN t => i + 1 \in DOMAIN st /\ st[i + 1] = t[j + 1]
        /\ j - 1 \in DOMAIN t => i - 1 \in DOMAIN st /\ st[i - 1] = t[j - 1]
    BY <1>1, <1>3
  <2>. HIDE DEF j
  <2>. QED BY <2>1, <2>2, <2>3, Zenon DEF InPlace
<1>. QED BY <1>2, <1>3

\* However a frame is cut, it is a stream of messages.
LEMMA CutIsMessages ==
  ASSUME NEW frame \in ServerFrame, NEW cut \in Cut(frame)
  PROVE  Messages(cut)
<1>1. CASE cut = <<Piece(frame, "whole")>>
  BY <1>1 DEF Messages, InPlace, Piece
<1>2. CASE cut = <<Piece(frame, "head"), Piece(frame, "tail")>>
  <2>1. /\ DOMAIN cut = {1, 2}
        /\ cut[1] = Piece(frame, "head") /\ cut[2] = Piece(frame, "tail")
        /\ cut[1].frame = frame /\ cut[2].frame = frame
    BY <1>2 DEF Piece
  <2>2. InPlace(cut, 1) /\ InPlace(cut, 2)
    BY <2>1 DEF InPlace
  <2>. QED BY <2>1, <2>2 DEF Messages
<1>. QED BY <1>1, <1>2 DEF Cut

\* What the server adds to a wire of messages leaves one, with or without a
\* head in front.
LEMMA WireGrows ==
  ASSUME Reassembling, inbound \in Seq(Fragment),
         NEW t \in Seq(Fragment), Messages(t),
         inbound' = inbound \o t, UNCHANGED received_data_buffer_
  PROVE  Reassembling'
<1>1. CASE received_data_buffer_ = <<>> /\ Messages(inbound)
  BY <1>1, MessagesConcat DEF Reassembling
<1>2. ASSUME NEW frame \in ServerFrame,
             received_data_buffer_ = <<Piece(frame, "head")>>,
             Messages(<<Piece(frame, "head")>> \o inbound)
      PROVE  Reassembling'
  <2>1. <<Piece(frame, "head")>> \in Seq(Fragment)
    BY PieceTyped DEF Part
  <2>2. /\ <<Piece(frame, "head")>> \o inbound \in Seq(Fragment)
        /\ (<<Piece(frame, "head")>> \o inbound) \o t
             = <<Piece(frame, "head")>> \o (inbound \o t)
    BY <2>1, ConcatProperties, ConcatAssociative
  <2>3. Messages(<<Piece(frame, "head")>> \o (inbound \o t))
    BY <1>2, <2>2, MessagesConcat
  <2>. QED BY <1>2, <2>3 DEF Reassembling
<1>. QED BY <1>1, <1>2 DEF Reassembling

\* Behind a whole message, and behind a pair, the stream goes on with messages.
LEMMA MessagesAfterWhole ==
  ASSUME NEW s \in Seq(Fragment), s # <<>>, Messages(s), Head(s).part = "whole"
  PROVE  Messages(Tail(s))
<1>1. /\ Len(s) \in Nat /\ DOMAIN s = 1 .. Len(s) /\ Head(s) = s[1]
      /\ DOMAIN Tail(s) = 1 .. Len(s) - 1
      /\ \A i \in 1 .. Len(s) - 1 : Tail(s)[i] = s[i + 1]
  BY LenProperties, HeadTailProperties
<1>. SUFFICES ASSUME NEW i \in DOMAIN Tail(s) PROVE InPlace(Tail(s), i)
  BY DEF Messages
<1>2. Tail(s)[i] = s[i + 1] /\ InPlace(s, i + 1)
  BY <1>1 DEF Messages
<1>3. /\ i + 1 + 1 \in DOMAIN s => i + 1 \in DOMAIN Tail(s) /\ Tail(s)[i + 1] = s[i + 1 + 1]
      /\ i + 1 - 1 = i
      /\ i # 1 => i - 1 \in DOMAIN Tail(s) /\ Tail(s)[i - 1] = s[i]
  BY <1>1
<1>4. \A frame : s[1] # Piece(frame, "head")
  BY <1>1 DEF Piece
<1>. QED BY <1>2, <1>3, <1>4 DEF InPlace

LEMMA MessagesAfterPair ==
  ASSUME NEW frame \in ServerFrame, NEW s \in Seq(Fragment), s # <<>>,
         Messages(<<Piece(frame, "head")>> \o s)
  PROVE  Head(s) = Piece(frame, "tail") /\ Messages(Tail(s))
<1>. DEFINE hs == <<Piece(frame, "head")>> \o s
<1>1. /\ Len(s) \in Nat /\ Len(s) # 0 /\ DOMAIN s = 1 .. Len(s) /\ Head(s) = s[1]
      /\ DOMAIN Tail(s) = 1 .. Len(s) - 1
      /\ \A i \in 1 .. Len(s) - 1 : Tail(s)[i] = s[i + 1]
  BY LenProperties, HeadTailProperties
<1>2. /\ DOMAIN hs = 1 .. Len(s) + 1
      /\ hs[1] = Piece(frame, "head")
      /\ \A i \in 1 .. Len(s) : hs[i + 1] = s[i]
  <2>1. <<Piece(frame, "head")>> \in Seq(Fragment)
    BY PieceTyped DEF Part
  <2>2. /\ hs \in Seq(Fragment) /\ Len(hs) = Len(<<Piece(frame, "head")>>) + Len(s)
        /\ \A i \in 1 .. Len(<<Piece(frame, "head")>>) + Len(s) :
             hs[i] = IF i <= Len(<<Piece(frame, "head")>>) THEN <<Piece(frame, "head")>>[i]
                     ELSE s[i - Len(<<Piece(frame, "head")>>)]
    BY <2>1, ConcatProperties
  <2>3. Len(<<Piece(frame, "head")>>) = 1 /\ <<Piece(frame, "head")>>[1] = Piece(frame, "head")
    OBVIOUS
  <2>. QED BY <1>1, <2>2, <2>3, LenProperties
<1>. HIDE DEF hs
<1>3. Head(s) = Piece(frame, "tail")
  <2>1. InPlace(hs, 1)
    BY <1>1, <1>2 DEF Messages, hs
  <2>2. hs[1].part = "head" /\ hs[1].frame = frame
    BY <1>2 DEF Piece
  <2>3. 1 - 1 \notin DOMAIN hs /\ hs[1 + 1] = s[1]
    BY <1>1, <1>2
  <2>. QED BY <1>1, <2>1, <2>2, <2>3 DEF InPlace
<1>4. Messages(Tail(s))
  <2>. SUFFICES ASSUME NEW i \in DOMAIN Tail(s) PROVE InPlace(Tail(s), i)
    BY DEF Messages
  <2>1. Tail(s)[i] = hs[i + 2] /\ InPlace(hs, i + 2)
    BY <1>1, <1>2 DEF Messages, hs
  <2>2. /\ i + 2 + 1 \in DOMAIN hs => i + 1 \in DOMAIN Tail(s) /\ Tail(s)[i + 1] = hs[i + 2 + 1]
        /\ i + 2 - 1 = i + 1
        /\ i # 1 => i - 1 \in DOMAIN Tail(s) /\ Tail(s)[i - 1] = hs[i + 1]
        /\ hs[1 + 1] = s[1]
    BY <1>1, <1>2
  <2>3. \A f : s[1] # Piece(f, "head")
    BY <1>1, <1>3 DEF Piece
  <2>. QED BY <2>1, <2>2, <2>3 DEF InPlace
<1>. QED BY <1>3, <1>4

\* Taking a fragment off the wire: a final one completes a message, and what is
\* left in the buffer and on the wire are messages again.
LEMMA TakingAFragment ==
  ASSUME Reassembling, inbound \in Seq(Fragment), inbound # <<>>
  PROVE  /\ IsFinal(Head(inbound)) => Parsed(Gathered) # {} /\ Messages(Tail(inbound))
         /\ ~IsFinal(Head(inbound)) =>
              \E frame \in ServerFrame : /\ Gathered = <<Piece(frame, "head")>>
                                         /\ Messages(Gathered \o Tail(inbound))
<1>. DEFINE first == Head(inbound)
<1>1. /\ Len(inbound) \in Nat /\ 1 \in DOMAIN inbound /\ 0 \notin DOMAIN inbound
      /\ first = inbound[1] /\ first \in Fragment
      /\ first.frame \in ServerFrame /\ first = Piece(first.frame, first.part)
  <2>1. /\ Len(inbound) \in Nat \ {0} /\ DOMAIN inbound = 1 .. Len(inbound)
        /\ first = inbound[1] /\ first \in Fragment
    BY LenProperties, HeadTailProperties, EmptySeq
  <2>2. \A f \in Fragment : f.frame \in ServerFrame /\ f = Piece(f.frame, f.part)
    BY DEF Fragment, Piece
  <2>. QED BY <2>1, <2>2
<1>2. CASE received_data_buffer_ = <<>> /\ Messages(inbound)
  <2>1. Gathered = <<first>>
    BY <1>2 DEF Gathered, GatheredFrom
  <2>2. InPlace(inbound, 1)
    BY <1>1, <1>2 DEF Messages
  <2>3. first.part = "whole" \/ first = Piece(first.frame, "head")
    BY <1>1, <2>2 DEF InPlace
  <2>4. CASE first.part = "whole"
    <3>1. first.frame \in Parsed(Gathered)
      BY <1>1, <2>1, <2>4 DEF Parsed
    <3>2. Messages(Tail(inbound))
      BY <1>2, <2>4, MessagesAfterWhole
    <3>. QED BY <2>4, <3>1, <3>2 DEF IsFinal
  <2>5. CASE first = Piece(first.frame, "head")
    <3>1. ~IsFinal(first)
      BY <2>5 DEF IsFinal, Piece
    <3>2. <<first>> \o Tail(inbound) = inbound
      BY <1>1
    <3>. QED BY <1>1, <1>2, <2>1, <2>5, <3>1, <3>2
  <2>. QED BY <2>3, <2>4, <2>5
<1>3. ASSUME NEW frame \in ServerFrame,
             received_data_buffer_ = <<Piece(frame, "head")>>,
             Messages(<<Piece(frame, "head")>> \o inbound)
      PROVE  IsFinal(first) /\ Parsed(Gathered) # {} /\ Messages(Tail(inbound))
  <2>1. first = Piece(frame, "tail") /\ Messages(Tail(inbound))
    BY <1>3, MessagesAfterPair
  <2>2. Gathered = <<Piece(frame, "head"), Piece(frame, "tail")>>
    <3>1. ASSUME NEW a \in Fragment, NEW b \in Fragment
          PROVE  Append(<<a>>, b) = <<a, b>>
      <4>1. <<a>> \in Seq(Fragment) /\ <<a, b>> \in Seq(Fragment)
              /\ Len(<<a>>) = 1 /\ Len(<<a, b>>) = 2
        OBVIOUS
      <4>2. /\ Append(<<a>>, b) \in Seq(Fragment) /\ Len(Append(<<a>>, b)) = 2
            /\ Append(<<a>>, b)[1] = a /\ Append(<<a>>, b)[2] = b
        BY <4>1, AppendProperties
      <4>3. \A i \in 1 .. 2 : Append(<<a>>, b)[i] = <<a, b>>[i]
        <5>. TAKE i \in 1 .. 2
        <5>1. CASE i = 1 BY <4>2, <5>1
        <5>2. CASE i = 2 BY <4>2, <5>2
        <5>. QED BY <5>1, <5>2
      <4>. QED BY <4>1, <4>2, <4>3, SeqEqual, Zenon
    <3>2. Piece(frame, "head") \in Fragment /\ Piece(frame, "tail") \in Fragment
      BY PieceTyped DEF Part
    <3>3. Gathered = Append(<<Piece(frame, "head")>>, Piece(frame, "tail"))
      BY <1>3, <2>1, Zenon DEF Gathered, GatheredFrom
    <3>. QED BY <3>1, <3>2, <3>3, Zenon
  <2>3. frame \in Parsed(Gathered)
    BY <2>2 DEF Parsed
  <2>. QED BY <2>1, <2>3 DEF IsFinal, Piece
<1>. QED BY <1>2, <1>3 DEF Reassembling

LEMMA StreamInvStep ==
  TypeOK /\ FirstRunInv /\ StreamInv /\ [Next]_vars => StreamInv'
<1>. SUFFICES ASSUME TypeOK, FirstRunInv, StreamInv, [Next]_vars, starts' <= 1
              PROVE  StreamInv'
  BY DEF StreamInv
<1>0. /\ inbound \in Seq(Fragment) /\ starts \in Nat
      /\ link \in {"none", "connecting", "open", "closing"}
  BY DEF TypeOK, WebsocketTypeOK
<1>1. CASE UNCHANGED <<link, inbound, received_data_buffer_>> /\ starts <= 1
  BY <1>1 DEF StreamInv, Reassembling
<1>2. CASE AppStart \/ AppStartFails \/ LwsRetryConnect \/ LwsRetryFails \/ LwsClosed
  <2>1. \/ inbound' = <<>> /\ link' \in {"none", "connecting"}
        \/ UNCHANGED <<link, inbound, received_data_buffer_>>
    BY <1>2 DEF AppStart, Start, StartConnects, ConnectBegins, AppStartFails,
                StartFailing, StartFails, ConnectFails, LwsRetryConnect, LwsRetryFails,
                ReplaceSocket, SocketGone, LwsClosed, Closed
  <2>2. starts <= 1
    BY <1>0, <1>2 DEF AppStart, AppStartFails, CountStart, LwsRetryConnect,
                      LwsRetryFails, LwsClosed
  <2>. QED BY <1>1, <2>1, <2>2 DEF StreamInv
<1>3. CASE LwsEstablished
  <2>1. inbound' = <<>> /\ received_data_buffer_' = <<>> /\ link' = "open"
    BY <1>3 DEF LwsEstablished, Established, Serviced, FirstRunInv
  <2>2. Messages(<<>>)
    BY DEF Messages
  <2>. QED BY <2>1, <2>2 DEF StreamInv, Reassembling
<1>4. CASE LwsConnectionError \/ LwsWriteFails
  BY <1>4 DEF StreamInv, Reassembling, LwsConnectionError, ConnectionError,
              LwsWriteFails, WriteFails, Serviced
<1>5. CASE LwsReceivePart \/ LwsReceiveFrame
  <2>1. /\ link = "open" /\ starts <= 1 /\ inbound # <<>>
        /\ inbound' = Tail(inbound)
        /\ received_data_buffer_' = IF IsFinal(Head(inbound)) THEN <<>> ELSE Gathered
    BY <1>5 DEF LwsReceivePart, LwsReceiveFrame, ReceiveFragment, Serviced
  <2>2. link' \in {"open", "closing"}
    <3>1. CASE LwsReceivePart
      BY <2>1, <3>1 DEF LwsReceivePart
    <3>2. CASE LwsReceiveFrame
      BY <2>1, <3>2 DEF LwsReceiveFrame, OnSignalFrameReceived, UpdateTurnCredentials,
                        HandleIndexFrame, Ignored, OnLeaveAck, StopTransport, Close
    <3>. QED BY <1>5, <3>1, <3>2
  <2>3. Reassembling
    BY <2>1 DEF StreamInv
  <2>4. Reassembling'
    BY <1>0, <2>1, <2>3, TakingAFragment DEF Reassembling
  <2>. QED BY <2>2, <2>4 DEF StreamInv
<1>6. CASE ServerAnswers
  <2>1. PICK frame \in ServerFrame : Reply(frame) \/ UNCHANGED inbound
    BY <1>6 DEF ServerAnswers, JoinAcks, ServerFrame
  <2>2. CASE Reply(frame)
    <3>1. /\ Piece(frame, "whole") \in Fragment
          /\ <<Piece(frame, "whole")>> \in Seq(Fragment)
      BY PieceTyped DEF Part
    <3>2. inbound' = inbound \o <<Piece(frame, "whole")>>
      BY <1>0, <2>2, <3>1, AppendIsConcat DEF Reply
    <3>3. Messages(<<Piece(frame, "whole")>>)
      BY CutIsMessages DEF Cut
    <3>. QED
      BY <1>0, <1>6, <3>1, <3>2, <3>3, WireGrows DEF ServerAnswers, StreamInv
  <2>3. CASE UNCHANGED inbound
    BY <1>1, <1>6, <2>3 DEF ServerAnswers
  <2>. QED BY <2>1, <2>2, <2>3
<1>7. CASE ServerIndex
  <2>1. PICK frame \in ServerFrame : \E cut \in Cut(frame) : inbound' = inbound \o cut
    BY <1>7 DEF ServerIndex, ServerFrame
  <2>2. PICK cut \in Cut(frame) : inbound' = inbound \o cut
    BY <2>1
  <2>3. cut \in Seq(Fragment) /\ Messages(cut)
    BY CutTyped, CutIsMessages
  <2>. QED BY <1>0, <1>7, <2>2, <2>3, WireGrows DEF ServerIndex, StreamInv
<1>8. AppStop \/ LwsWrite \/ TurnExpires \/ UNCHANGED vars
        => UNCHANGED <<link, inbound, received_data_buffer_, starts>>
  BY DEF AppStop, Stop, LwsWrite, Write, TurnExpires
<1>10. ~Stale
  BY NoStaleInFirstRun
<1>9. ASSUME NEW frame, AppSend(frame)
      PROVE  UNCHANGED <<link, inbound, received_data_buffer_, starts>>
  BY <1>9 DEF AppSend, Send
<1>. QED
  BY <1>1, <1>2, <1>3, <1>4, <1>5, <1>6, <1>7, <1>8, <1>9, <1>10
  DEF Next, App, Lws, Server

\* In the first run of a client every final fragment completes a message that
\* parses, however the server's messages were cut and whatever else happened
\* (libwebsockets_websocket.cc, CLIENT_RECEIVE).
THEOREM FirstRunReassembledHolds == Spec => FirstRunReassembled
<1>1. Init => StreamInv
  BY DEF Init, WebsocketInit, StreamInv
<1>2. TypeOK /\ StreamInv =>
        (starts <= 1 /\ inbound # <<>> /\ inbound' = Tail(inbound)
           /\ IsFinal(Head(inbound)) => Parsed(Gathered) # {})
  BY TakingAFragment DEF StreamInv, TypeOK, WebsocketTypeOK
<1>. QED
  BY <1>1, <1>2, TypeCorrect, FirstRunInvHolds, StreamInvStep, PTL
  DEF Spec, FirstRunReassembled

-----------------------------------------------------------------------------
(* The session implements SignalingLifecycle.  No invariant is needed: the   *)
(* guards of the handlers are those of the abstract actions.                 *)

\* The observer of DefaultSignalingClient is never told of a second start
\* before the first has ended with an orderly stop: every step of the session
\* is a step of SignalingLifecycle, or none, under the mapping
\* spent <- has_received_first_index_.
THEOREM ImplementsLifecycle == Spec => LifecycleSpec
<1>1. Init => Lifecycle!Init
  BY DEF Init, ClientInit, Lifecycle!Init
<1>2. [Next]_vars => [Lifecycle!Next]_<<observed, has_received_first_index_>>
  <2>. SUFFICES ASSUME [Next]_vars
                PROVE  [Lifecycle!Next]_<<observed, has_received_first_index_>>
    OBVIOUS
  <2>. DEFINE quiet == UNCHANGED <<observed, has_received_first_index_>>
  <2>1. OnSignalingErrorReceived => Lifecycle!StoppedError
    BY DEF OnSignalingErrorReceived, NotifyStopped, Lifecycle!StoppedError
  <2>2. OnSignalingClosed => Lifecycle!StoppedOk
    BY DEF OnSignalingClosed, NotifyStopped, Lifecycle!StoppedOk
  <2>3. AppStart \/ AppStop => quiet
    BY DEF AppStart, Start, AppStop, Stop
  <2>4. AppStartFails => Lifecycle!StoppedError
    BY DEF AppStartFails, StartFailing, NotifyStopped, Lifecycle!StoppedError
  <2>5. ASSUME NEW frame, AppSend(frame) PROVE quiet
    BY <2>5 DEF AppSend, Send
  <2>6. LwsEstablished => quiet
    BY DEF LwsEstablished, OnSignalingConnected
  <2>7. LwsConnectionError \/ LwsRetryFails \/ LwsWriteFails => Lifecycle!StoppedError
    BY <2>1 DEF LwsConnectionError, LwsRetryFails, LwsWriteFails, OnWebsocketError
  <2>8. LwsRetryConnect \/ LwsWrite \/ LwsReceivePart => quiet
    BY DEF LwsRetryConnect, LwsWrite, LwsReceivePart
  <2>9. LwsClosed => Lifecycle!StoppedOk
    BY <2>2 DEF LwsClosed, OnWebsocketClosed
  <2>10. HandleIndexFrame => Lifecycle!Started \/ Lifecycle!Withheld \/ quiet
    BY DEF HandleIndexFrame, NotifyStarted, Lifecycle!Started, Lifecycle!Withheld
  <2>11. LwsReceiveFrame => Lifecycle!Started \/ Lifecycle!Withheld \/ quiet
    BY <2>10 DEF LwsReceiveFrame, OnSignalFrameReceived, UpdateTurnCredentials,
                 OnLeaveAck, Ignored
  <2>13. Stale => Lifecycle!Next \/ quiet
    <3>1. LwsStaleClosed => Lifecycle!StoppedOk
      BY <2>2 DEF LwsStaleClosed, OnWebsocketClosed
    <3>2. LwsStaleConnectionError \/ LwsStaleRetryFails \/ LwsStaleWriteFails
            => Lifecycle!StoppedError
      BY <2>1 DEF LwsStaleConnectionError, LwsStaleRetryFails, LwsStaleWriteFails,
                  OnWebsocketError
    <3>3. LwsStaleReturns \/ LwsStaleRetryConnect \/ LwsStaleEstablished
            \/ LwsStaleWrite \/ LwsStaleReceivePart => quiet
      BY DEF LwsStaleReturns, LwsStaleRetryConnect, LwsStaleEstablished,
             OnSignalingConnected, LwsStaleWrite, LwsStaleReceivePart
    <3>4. LwsStaleReceiveFrame => Lifecycle!Started \/ Lifecycle!Withheld \/ quiet
      BY <2>10 DEF LwsStaleReceiveFrame, OnSignalFrameReceived, UpdateTurnCredentials,
                   OnLeaveAck, Ignored
    <3>. QED BY <3>1, <3>2, <3>3, <3>4 DEF Stale, Lifecycle!Next
  <2>12. ServerAnswers \/ ServerIndex \/ TurnExpires \/ UNCHANGED vars => quiet
    BY DEF ServerAnswers, ServerIndex, TurnExpires
  <2>. QED
    BY <2>3, <2>4, <2>5, <2>6, <2>7, <2>8, <2>9, <2>11, <2>12, <2>13
    DEF Next, App, Lws, Server, Lifecycle!Next
<1>. QED BY <1>1, <1>2, PTL DEF Spec, LifecycleSpec, Lifecycle!Spec
=============================================================================
