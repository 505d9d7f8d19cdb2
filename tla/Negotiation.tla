------------------------------ MODULE Negotiation ------------------------------
(***************************************************************************)
(* The demo's use of the signaling client (demo/shared/controllers/        *)
(* meeting_controller.cc and demo/shared/observers): how the videos that   *)
(* become available, and the camera, turn into offers of a WebRTC peer     *)
(* connection, how updates_in_flight_ lets one SUBSCRIBE at a time go to   *)
(* the server, and what its answer sets off.                               *)
(*                                                                         *)
(* Three threads act: the application's, the run thread that delivers the  *)
(* signaling callbacks, and WebRTC's signaling thread, on which all calls  *)
(* on the peer connection and all its callbacks run.  Handlers are atomic  *)
(* here; that the maps of the controller are shared without a lock is not  *)
(* modelled.  The n-th transceiver for a remote video gets the mid n.  An  *)
(* offer is the number of such transceivers it knows (the audio's and the  *)
(* camera's sections come before theirs), which of them have been stopped, *)
(* and whether the camera's section sends.                                 *)
(***************************************************************************)
EXTENDS Naturals, Sequences, FiniteSets, Functions, StdMap

CONSTANTS
  Attendee,
  MaxTransceivers,   \* bound: transceivers added for remote videos
  MaxTurn,           \* bound: TURN candidates gathered
  MaxOffers          \* bound: offers asked for from outside the negotiation

ASSUME NegotiationBoundsAssumption ==
  MaxTransceivers \in Nat /\ MaxTurn \in Nat /\ MaxOffers \in Nat
ASSUME AttendeeAssumption == IsFiniteSet(Attendee)

VARIABLES
  \* of the peer connection
  peer_connection_,   \* "null", "open" or "closed"
  transceivers,       \* those added for remote videos
  stopped,            \* mids of the ones stopped since
  sending,            \* the camera's transceiver is kSendOnly
  signaling_state,    \* "new", "have-local-offer" (a pending description), "stable"
  local,              \* the pending or else the current local description
  turn,               \* TURN candidates in it
  chain,              \* operations to be run, one at a time
  callbacks,          \* results on their way to the observers
  \* of the controller
  updates_in_flight_,
  remote_video_transceivers_,    \* attendee -> mid (and the sources, by attendee)
  video_sources_to_subscribe_,   \* mid -> attendee
  \* of the signaling client and the server
  connected,              \* SendUpdates would send
  available,              \* attendees whose video the INDEX frames show
  remote_video_sources_,  \* mid -> attendee
  subscribes, answers,    \* on their way
  subscribed,             \* the last SUBSCRIBE the server answered
  \* history
  sent,      \* the offer of the last SUBSCRIBE
  lost,      \* since then another was not sent because of updates_in_flight_
  refused,   \* some SUBSCRIBE had no answer that can be applied
  offers

peerVars       == <<peer_connection_, transceivers, stopped, sending, signaling_state,
                    local, turn>>
queueVars      == <<chain, callbacks>>
controllerVars == <<updates_in_flight_, remote_video_transceivers_,
                    video_sources_to_subscribe_>>
clientVars     == <<connected, available, remote_video_sources_>>
wireVars       == <<subscribes, answers, subscribed>>
historyVars    == <<sent, lost, refused, offers>>
vars == <<peerVars, queueVars, controllerVars, clientVars, wireVars, historyVars>>

Mid == 1 .. MaxTransceivers
Offer == [sections : 0 .. MaxTransceivers, stopped : SUBSET Mid, sending : BOOLEAN]
Subscribe == [offer : Offer, receives : SUBSET Mid]
NoOffer == [sections |-> 0, stopped |-> {}, sending |-> FALSE]

Create == [op |-> "create"]
SetLocal(offer) == [op |-> "setlocal", offer |-> offer]
SetRemote(sections) == [op |-> "setremote", sections |-> sections]

Operation == {Create} \union {SetLocal(o) : o \in Offer}
               \union {SetRemote(n) : n \in 0 .. MaxTransceivers}
Callback == {"local", "remote", "remote failed"}

TypeOK ==
  /\ peer_connection_ \in {"null", "open", "closed"}
  /\ transceivers \in 0 .. MaxTransceivers /\ stopped \subseteq Mid
  /\ sending \in BOOLEAN
  /\ signaling_state \in {"new", "have-local-offer", "stable"}
  /\ local \in Offer /\ turn \in 0 .. MaxTurn
  /\ chain \in Seq(Operation) /\ callbacks \in Seq(Callback)
  /\ updates_in_flight_ \in BOOLEAN
  /\ remote_video_transceivers_ \in Map(Attendee, Mid)
  /\ video_sources_to_subscribe_ \in Map(Mid, Attendee)
  /\ connected \in BOOLEAN /\ available \subseteq Attendee
  /\ remote_video_sources_ \in Map(Mid, Attendee)
  /\ subscribes \in Seq(Subscribe) /\ answers \in Seq(0 .. MaxTransceivers)
  /\ subscribed \in Subscribe
  /\ sent \in Offer /\ lost \in BOOLEAN /\ refused \in BOOLEAN
  /\ offers \in 0 .. MaxOffers

\* Joined, and waiting for the first INDEX frame.
Init ==
  /\ peer_connection_ = "null" /\ transceivers = 0 /\ stopped = {} /\ sending = FALSE
  /\ signaling_state = "new" /\ local = NoOffer /\ turn = 0
  /\ chain = <<>> /\ callbacks = <<>>
  /\ updates_in_flight_ = FALSE
  /\ remote_video_transceivers_ = EmptyMap /\ video_sources_to_subscribe_ = EmptyMap
  /\ connected = TRUE /\ available = {} /\ remote_video_sources_ = EmptyMap
  /\ subscribes = <<>> /\ answers = <<>>
  /\ subscribed = [offer |-> NoOffer, receives |-> {}]
  /\ sent = NoOffer /\ lost = FALSE /\ refused = FALSE /\ offers = 0

-----------------------------------------------------------------------------
(* Sending an offer. *)

\* The mids the peer connection has given its transceivers: from the first local
\* description that has their section on.
HasMid(mid) == signaling_state # "new" /\ mid <= local.sections

\* What SendSubscribe makes of the offer that is set: receives holds the mids
\* whose stream id gets on the list of receive_stream_ids.  The list itself has
\* no mids: it is in the order of the sections, with 0 for a stopped one and no
\* entry at all for one that is not subscribed (see RemoteVideo).
SubscribeFrame ==
  [offer |-> local,
   receives |-> {m \in DOMAIN remote_video_sources_ :
                   m <= local.sections /\ m \notin local.stopped}]

\* Mutant: an update does not wait for the answer to the one before it.
SendUpdatesAtOnce(candidates) ==
  IF candidates >= 1 /\ signaling_state = "have-local-offer" /\ connected
  THEN /\ updates_in_flight_' = TRUE
       /\ subscribes' = Append(subscribes, SubscribeFrame)
       /\ sent' = local /\ lost' = FALSE
  ELSE UNCHANGED <<updates_in_flight_, subscribes, sent, lost>>

\* Mutant: when there is nothing to send the flag stays set.
SendUpdatesKeepsFlag(candidates) ==
  IF candidates >= 1 /\ ~updates_in_flight_
  THEN /\ updates_in_flight_' = TRUE
       /\ IF signaling_state = "have-local-offer" /\ connected
          THEN /\ subscribes' = Append(subscribes, SubscribeFrame)
               /\ sent' = local /\ lost' = FALSE
          ELSE UNCHANGED <<subscribes, sent, lost>>
  ELSE UNCHANGED <<updates_in_flight_, subscribes, sent, lost>>

\* Without a TURN candidate, with updates in flight, without a pending local
\* description or without a connection nothing is sent, and nothing remembers
\* that something was to be.
SendUpdates(candidates) ==
  IF candidates >= 1 /\ ~updates_in_flight_ /\ signaling_state = "have-local-offer"
       /\ connected
  THEN /\ updates_in_flight_' = TRUE
       /\ subscribes' = Append(subscribes, SubscribeFrame)
       /\ sent' = local /\ lost' = FALSE
  ELSE /\ lost' = (lost \/ (candidates >= 1 /\ updates_in_flight_ /\ sent # local))
       /\ UNCHANGED <<updates_in_flight_, subscribes, sent>>

-----------------------------------------------------------------------------
(* The run thread and the application. *)

CreateOffer ==
  /\ offers < MaxOffers
  /\ offers' = offers + 1
  /\ chain' = IF peer_connection_ = "open" THEN Append(chain, Create) ELSE chain

\* Mutant: mids are counted from the section before.
AddTransceiversEarly(attendees) ==
  LET new == attendees \ DOMAIN remote_video_transceivers_
      count == Cardinality(new)
  IN /\ transceivers + count <= MaxTransceivers
     /\ transceivers' = transceivers + count
     /\ \E mids \in Bijection(new, transceivers .. transceivers + count - 1) :
          remote_video_transceivers_' =
            [a \in DOMAIN remote_video_transceivers_ \union new |->
               IF a \in new THEN mids[a] ELSE remote_video_transceivers_[a]]

\* AddTransceiver for each of the attendees that has none, in any order.
AddTransceivers(attendees) ==
  LET new == attendees \ DOMAIN remote_video_transceivers_
      count == Cardinality(new)
  IN /\ transceivers + count <= MaxTransceivers
     /\ transceivers' = transceivers + count
     /\ \E mids \in Bijection(new, transceivers + 1 .. transceivers + count) :
          remote_video_transceivers_' =
            [a \in DOMAIN remote_video_transceivers_ \union new |->
               IF a \in new THEN mids[a] ELSE remote_video_transceivers_[a]]

\* The peer connection, the audio and the camera's transceiver; then, like
\* videos that come later, the ones that are there; then an offer.
OnSignalingClientStarted(attendees) ==
  /\ peer_connection_ = "null" /\ connected
  /\ peer_connection_' = "open"
  /\ available' = attendees
  /\ AddTransceivers(attendees)
  /\ chain' = IF attendees = {} THEN <<Create>> ELSE <<Create, Create>>
  /\ UNCHANGED <<stopped, sending, signaling_state, local, turn, callbacks,
                 updates_in_flight_, video_sources_to_subscribe_, connected,
                 remote_video_sources_, wireVars, historyVars>>

OnRemoteVideoSourcesAvailable(attendees) ==
  /\ peer_connection_ = "open" /\ connected
  /\ attendees # {} /\ attendees \intersect available = {}
  /\ available' = available \union attendees
  /\ AddTransceivers(attendees)
  /\ CreateOffer
  /\ UNCHANGED <<peer_connection_, stopped, sending, signaling_state, local, turn,
                 callbacks, updates_in_flight_, video_sources_to_subscribe_,
                 connected, remote_video_sources_, wireVars, sent, lost, refused>>

OnRemoteVideoSourcesUnavailable(attendees) ==
  /\ peer_connection_ = "open" /\ connected
  /\ attendees # {} /\ attendees \subseteq available
  /\ available' = available \ attendees
  /\ remote_video_transceivers_' = Erase(remote_video_transceivers_, attendees)
  /\ CreateOffer
  /\ UNCHANGED <<peerVars, callbacks, updates_in_flight_, video_sources_to_subscribe_,
                 connected, remote_video_sources_, wireVars, sent, lost, refused>>

\* While the camera's transceiver has no mid the request is ignored.
StartLocalVideo ==
  /\ peer_connection_ = "open" /\ signaling_state # "new"
  /\ sending' = TRUE
  /\ CreateOffer
  /\ UNCHANGED <<peer_connection_, transceivers, stopped, signaling_state, local, turn,
                 callbacks, controllerVars, clientVars, wireVars, sent, lost, refused>>

OnRemoteDescriptionReceived ==
  /\ answers # <<>>
  /\ answers' = Tail(answers)
  /\ chain' = Append(chain, SetRemote(Head(answers)))
  /\ UNCHANGED <<peerVars, callbacks, controllerVars, clientVars, subscribes,
                 subscribed, historyVars>>

\* MeetingController::Stop closes the peer connection and the client leaves;
\* what is on its way is still answered.
Stop ==
  /\ peer_connection_ = "open" /\ connected
  /\ peer_connection_' = "closed"
  /\ connected' = FALSE
  /\ UNCHANGED <<transceivers, stopped, sending, signaling_state, local, turn,
                 queueVars, controllerVars, available, remote_video_sources_,
                 wireVars, historyVars>>

\* The client's state falls before its observers are told.
ConnectionEnds ==
  /\ peer_connection_ # "null"
  /\ connected' = FALSE
  /\ subscribes' = <<>> /\ answers' = <<>>
  /\ UNCHANGED <<peerVars, queueVars, controllerVars, available,
                 remote_video_sources_, subscribed, historyVars>>

OnSignalingClientStopped ==
  /\ peer_connection_ # "null" /\ ~connected /\ subscribes = <<>> /\ answers = <<>>
  /\ peer_connection_' = "null"
  /\ chain' = <<>> /\ callbacks' = <<>>
  /\ UNCHANGED <<transceivers, stopped, sending, signaling_state, local, turn,
                 controllerVars, clientVars, wireVars, historyVars>>

-----------------------------------------------------------------------------
(* WebRTC's signaling thread. *)

\* OnCreateSessionDescriptionSuccess sets the offer.  A closed connection makes
\* none.
RunCreate ==
  /\ chain # <<>> /\ Head(chain) = Create
  /\ chain' = IF peer_connection_ = "open"
              THEN Append(Tail(chain), SetLocal([sections |-> transceivers,
                                                 stopped |-> stopped,
                                                 sending |-> sending]))
              ELSE Tail(chain)
  /\ UNCHANGED <<peerVars, callbacks, controllerVars, clientVars, wireVars, historyVars>>

RunSetLocal ==
  /\ chain # <<>> /\ Head(chain).op = "setlocal"
  /\ chain' = Tail(chain)
  /\ IF peer_connection_ = "open"
     THEN /\ local' = Head(chain).offer
          /\ signaling_state' = "have-local-offer"
          /\ callbacks' = Append(callbacks, "local")
     ELSE UNCHANGED <<local, signaling_state, callbacks>>
  /\ UNCHANGED <<peer_connection_, transceivers, stopped, sending, turn, controllerVars,
                 clientVars, wireVars, historyVars>>

\* OnRemoveTrack for the videos of those attendees: the transceiver is stopped and
\* forgotten.  What the client subscribes to, and the mids the controller has
\* handed it, stay.
OnRemoveTrack(attendees) ==
  /\ stopped' = stopped \union {remote_video_transceivers_[a] : a \in attendees}
  /\ remote_video_transceivers_' = Erase(remote_video_transceivers_, attendees)

\* The attendees whose video can have had a track: it was asked for.
Tracked ==
  {a \in DOMAIN remote_video_transceivers_ :
     remote_video_transceivers_[a] \in DOMAIN remote_video_sources_}

\* An answer must find a pending offer with the same sections.  The ones that no
\* longer send lose their track.
RunSetRemote ==
  /\ chain # <<>> /\ Head(chain).op = "setremote"
  /\ chain' = Tail(chain)
  /\ IF peer_connection_ = "open" /\ signaling_state = "have-local-offer"
          /\ Head(chain).sections = local.sections
     THEN /\ signaling_state' = "stable"
          /\ callbacks' = Append(callbacks, "remote")
          /\ \E attendees \in SUBSET Tracked : OnRemoveTrack(attendees)
     ELSE /\ callbacks' = Append(callbacks, "remote failed")
          /\ UNCHANGED <<signaling_state, stopped, remote_video_transceivers_>>
  /\ UNCHANGED <<peer_connection_, transceivers, sending, local, turn,
                 updates_in_flight_, video_sources_to_subscribe_, clientVars, wireVars,
                 historyVars>>

OnLocalSuccess ==
  /\ callbacks # <<>> /\ Head(callbacks) = "local"
  /\ callbacks' = Tail(callbacks)
  /\ SendUpdates(turn)
  /\ UNCHANGED <<peerVars, chain, remote_video_transceivers_,
                 video_sources_to_subscribe_, clientVars, answers, subscribed,
                 refused, offers>>

\* Mutant: every remote video counts as new.
KnownRemoteVideos ==
  {a \in DOMAIN remote_video_transceivers_ : HasMid(remote_video_transceivers_[a])}

\* The remote videos whose transceiver has got its mid, and that are new.
NewRemoteVideos ==
  {a \in DOMAIN remote_video_transceivers_ :
     /\ HasMid(remote_video_transceivers_[a])
     /\ remote_video_transceivers_[a] \notin DOMAIN video_sources_to_subscribe_}

\* UpdateRemoteVideoSubscriptions: a mid the client has keeps its source, one
\* whose attendee it does not know is left out.
Subscriptions(wanted) ==
  [m \in DOMAIN remote_video_sources_
           \union {n \in DOMAIN wanted : wanted[n] \in available} |->
     IF m \in DOMAIN remote_video_sources_ THEN remote_video_sources_[m]
     ELSE wanted[m]]

\* Mutant: the new videos are subscribed to, but no offer is made.
RemoteSuccessWithoutOffer(wanted) ==
  /\ remote_video_sources_' = Subscriptions(wanted)
  /\ UNCHANGED chain

Resubscribe(wanted) ==
  /\ remote_video_sources_' = Subscriptions(wanted)
  /\ chain' = IF peer_connection_ = "open" THEN Append(chain, Create) ELSE chain

OnRemoteSuccess ==
  /\ callbacks # <<>> /\ Head(callbacks) = "remote"
  /\ callbacks' = Tail(callbacks)
  /\ updates_in_flight_' = FALSE
  /\ LET new == NewRemoteVideos
         MidOf(a) == remote_video_transceivers_[a]
         wanted == [m \in DOMAIN video_sources_to_subscribe_ \union {MidOf(a) : a \in new} |->
                      IF \E a \in new : MidOf(a) = m
                      THEN CHOOSE a \in new : MidOf(a) = m
                      ELSE video_sources_to_subscribe_[m]]
     IN IF new # {}
        THEN /\ video_sources_to_subscribe_' = wanted
             /\ Resubscribe(wanted)
        ELSE UNCHANGED <<video_sources_to_subscribe_, remote_video_sources_, chain>>
  /\ UNCHANGED <<peerVars, remote_video_transceivers_, connected, available, wireVars,
                 historyVars>>

OnRemoteFailure ==
  /\ callbacks # <<>> /\ Head(callbacks) = "remote failed"
  /\ callbacks' = Tail(callbacks)
  /\ updates_in_flight_' = FALSE
  /\ UNCHANGED <<peerVars, chain, remote_video_transceivers_,
                 video_sources_to_subscribe_, clientVars, wireVars, historyVars>>

\* A TURN candidate, which is added to the local description first.
OnIceCandidate ==
  /\ peer_connection_ = "open" /\ signaling_state # "new" /\ turn < MaxTurn
  /\ turn' = turn + 1
  /\ SendUpdates(turn + 1)
  /\ UNCHANGED <<peer_connection_, transceivers, stopped, sending, signaling_state,
                 local, queueVars, remote_video_transceivers_,
                 video_sources_to_subscribe_, clientVars, answers, subscribed,
                 refused, offers>>

-----------------------------------------------------------------------------
(* The server (external) answers a SUBSCRIBE with the sections of its offer,  *)
(* or in a way that brings no description the application can apply: without *)
(* an SDP, or with one that does not parse.                                   *)

ServerAnswers ==
  /\ subscribes # <<>>
  /\ subscribes' = Tail(subscribes)
  /\ subscribed' = Head(subscribes)
  /\ answers' = Append(answers, Head(subscribes).offer.sections)
  /\ UNCHANGED <<peerVars, queueVars, controllerVars, clientVars, historyVars>>

ServerRefuses ==
  /\ subscribes # <<>>
  /\ subscribes' = Tail(subscribes)
  /\ refused' = TRUE
  /\ UNCHANGED <<peerVars, queueVars, controllerVars, clientVars, answers, subscribed,
                 sent, lost, offers>>

-----------------------------------------------------------------------------
RunThread ==
  \/ \E attendees \in SUBSET Attendee :
       \/ OnSignalingClientStarted(attendees)
       \/ OnRemoteVideoSourcesAvailable(attendees)
       \/ OnRemoteVideoSourcesUnavailable(attendees)
  \/ OnRemoteDescriptionReceived \/ ConnectionEnds \/ OnSignalingClientStopped

SignalingThread ==
  \/ RunCreate \/ RunSetLocal \/ RunSetRemote
  \/ OnLocalSuccess \/ OnRemoteSuccess \/ OnRemoteFailure

App == StartLocalVideo \/ Stop
Server == ServerAnswers \/ ServerRefuses

Next == RunThread \/ SignalingThread \/ OnIceCandidate \/ App \/ Server

Spec == Init /\ [][Next]_vars

\* WebRTC's thread runs what is posted to it, the server deals with what it
\* gets, and the run thread polls.  Nobody need leave, start the camera, gather
\* a candidate or publish a video.
FairSpec ==
  /\ Spec
  /\ WF_vars(RunCreate \/ RunSetLocal \/ RunSetRemote)
  /\ WF_vars(OnLocalSuccess \/ OnRemoteSuccess \/ OnRemoteFailure)
  /\ WF_vars(Server)
  /\ WF_vars(OnRemoteDescriptionReceived)

-----------------------------------------------------------------------------
(* Properties. *)

\* The updates that are under way: a SUBSCRIBE not dealt with, an answer on its
\* way back, a remote description waiting to be applied or to be reported.
Underway ==
  {<<"subscribe", i>> : i \in DOMAIN subscribes}
    \union {<<"answer", i>> : i \in DOMAIN answers}
    \union {<<"setremote", i>> : i \in {j \in DOMAIN chain : chain[j].op = "setremote"}}
    \union {<<"remote", i>> : i \in {j \in DOMAIN callbacks : callbacks[j] # "local"}}

\* One SUBSCRIBE at a time: there is no other until the answer to the last was
\* applied or could not be, whatever candidates, videos and offers come between.
OneUpdateAtATime == \A u, v \in Underway : u = v

\* updates_in_flight_ never stays set for nothing, which would stop all further
\* updates: while it is set an answer is due, unless the server gave none.
FlightEnds == connected /\ ~refused /\ updates_in_flight_ => Underway # {}

Quiet == chain = <<>> /\ callbacks = <<>> /\ subscribes = <<>> /\ answers = <<>>

\* When nothing is under way the server was told of the camera, and the last
\* SUBSCRIBE lists a stream for every available video whose transceiver has not
\* been stopped, a stream of that attendee: unless there is no TURN candidate, an
\* answer did not come, or an offer was set while the one before it was in flight
\* and nothing came after it.  Where on the list the stream stands is not said.
QuietMeansSubscribed ==
  peer_connection_ = "open" /\ connected /\ Quiet /\ turn >= 1 /\ ~refused /\ ~lost =>
    /\ subscribed.offer.sending = sending
    /\ \A a \in available \intersect DOMAIN remote_video_transceivers_ :
         /\ remote_video_transceivers_[a] \in subscribed.receives
         /\ remote_video_sources_[remote_video_transceivers_[a]] = a

\* The negotiation an answer sets off comes to an end.
NegotiationSettles == <>[]Quiet
=============================================================================
