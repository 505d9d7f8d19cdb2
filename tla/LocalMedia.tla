------------------------------ MODULE LocalMedia ------------------------------
(***************************************************************************)
(* The local media of DefaultSignalingClient (src/signaling/               *)
(* default_signaling_client.cc): the audio and video the application       *)
(* sends, whether it is muted, the SUBSCRIBE that tells the server, and    *)
(* the stream ids that SUBSCRIBE_ACK brings back.                          *)
(*                                                                         *)
(* An SDP is the sequence of its lines, reduced to those that              *)
(* src/utils/sdp_utils.h looks at.  A local source is its stream id; group *)
(* ids and bitrates are handed through.  The streams a SUBSCRIBE asks to   *)
(* receive are in RemoteVideo.                                             *)
(***************************************************************************)
EXTENDS Naturals, Sequences, FiniteSets, StdMap

CONSTANTS
  AudioMid, VideoMid,   \* media ids of what the application may send
  RemoteMid,            \* ... and of the videos of others
  Offers,               \* the SDPs it may set
  MaxStream,            \* bound: stream ids ever allocated
  MaxQueue,             \* bound: frames waiting, in either direction
  MaxSessions           \* bound: connections

ASSUME MediaBoundsAssumption ==
  MaxStream \in Nat /\ MaxQueue \in Nat /\ MaxSessions \in Nat
Mids == AudioMid \union VideoMid \union RemoteMid

ASSUME MidAssumption == /\ AudioMid \intersect VideoMid = {}
                        /\ (AudioMid \union VideoMid) \intersect RemoteMid = {}

Direction == {"sendrecv", "sendonly", "recvonly", "inactive"}
Line == [line : {"m"}, media : {"audio", "video"}]
          \union [line : {"mid"}, mid : Mids]
          \union [line : {"direction"}, direction : Direction]

-----------------------------------------------------------------------------
(* ParseSDP: a direction line makes a section of the last m= and a=mid: lines *)
(* before it.  A section has the place of its direction line.                 *)

LinesBefore(sdp, i, kind) == {j \in DOMAIN sdp : j < i /\ sdp[j].line = kind}
LastOf(places) == CHOOSE i \in places : \A j \in places : j <= i

ParseSDP(sdp) ==
  LET Media(i) == LET lines == LinesBefore(sdp, i, "m")
                  IN IF lines = {} THEN "video" ELSE sdp[LastOf(lines)].media
      MidOf(i) == LET lines == LinesBefore(sdp, i, "mid")
                  IN IF lines = {} THEN "" ELSE sdp[LastOf(lines)].mid
  IN [i \in {i \in DOMAIN sdp : sdp[i].line = "direction"} |->
        [media |-> Media(i), mid |-> MidOf(i), direction |-> sdp[i].direction]]

\* The place of the k-th section, and which one the section at i is.
Rank(places, i) == Cardinality({j \in places : j <= i})
Nth(places, k) == CHOOSE i \in places : Rank(places, i) = k

\* What WebRTC offers: no two sections have the same mid, and the mids the
\* application takes for its audio and its video are of such sections.
ASSUME OffersAssumption ==
  /\ Offers \subseteq Seq(Line)
  /\ \A sdp \in Offers : LET sections == ParseSDP(sdp)
                         IN \A i \in DOMAIN sections :
       /\ sections[i].mid \in AudioMid => sections[i].media = "audio"
       /\ sections[i].mid \in VideoMid => sections[i].media = "video"
       /\ \A j \in DOMAIN sections : sections[j].mid = sections[i].mid => j = i

-----------------------------------------------------------------------------
VARIABLES
  \* of the client
  session,     \* "off", "connected", "leaving", then "left" or "failed": state_
               \* and, until the CLOSED callback, what made it kDisconnected
  local_audio_sources_, local_video_sources_,   \* mid -> stream id, 0 at first
  is_muted_,
  sdp_,
  message_queue_,   \* frames not written yet, which survive a connection
  \* of the server, for this connection
  joined,
  muted,
  subscribed,  \* it has dealt with a SUBSCRIBE
  acks,        \* SUBSCRIBE_ACKs on their way
  streams,     \* stream ids ever allocated
  before,      \* ... of them, before this connection
  \* history
  wish,        \* what the application last said of being muted
  granted,     \* mid -> stream id, for the local mids as SUBSCRIBE named them
  changed,     \* local mids were added or removed while a SUBSCRIBE was unanswered
  carried,     \* the connection before this one ended without a LEAVE_ACK
  leftover,    \* the connections before this one left frames in the queue
  sessions

localVars   == <<local_audio_sources_, local_video_sources_>>
serverVars  == <<joined, muted, subscribed, acks, streams, before>>
historyVars == <<wish, granted, changed, carried, leftover, sessions>>
vars == <<session, localVars, is_muted_, sdp_, message_queue_, serverVars, historyVars>>

Open == session \in {"connected", "leaving"}

StreamId == 1 .. MaxStream
LocalMids == DOMAIN local_audio_sources_ \union DOMAIN local_video_sources_
Stream(mid) == IF mid \in DOMAIN local_audio_sources_ THEN local_audio_sources_[mid]
               ELSE local_video_sources_[mid]

ControlFrame == [type : {"AUDIO_CONTROL"}, muted : BOOLEAN]
SubscribeFrame == [type : {"SUBSCRIBE"}, audio_muted : BOOLEAN, offer : Offers,
                   send : Seq([mid : Mids, stream : 0 .. MaxStream])]
Frame == [type : {"JOIN", "LEAVE"}] \union ControlFrame \union SubscribeFrame

SubscribeAck == [answer : Offers \union {<<>>}, allocations : Seq(StreamId)]

TypeOK ==
  /\ session \in {"off", "connected", "leaving", "left", "failed"}
  /\ local_audio_sources_ \in Map(AudioMid, 0 .. MaxStream)
  /\ local_video_sources_ \in Map(VideoMid, 0 .. MaxStream)
  /\ is_muted_ \in BOOLEAN /\ wish \in BOOLEAN
  /\ sdp_ \in Offers \union {<<>>}
  /\ message_queue_ \in Seq(Frame) /\ Len(message_queue_) <= MaxQueue + sessions
  /\ joined \in BOOLEAN /\ muted \in BOOLEAN /\ subscribed \in BOOLEAN
  /\ acks \in Seq(SubscribeAck)
  /\ streams \in 0 .. MaxStream /\ before \in 0 .. streams
  /\ granted \in Map(Mids, StreamId)
  /\ changed \in BOOLEAN /\ carried \in BOOLEAN /\ leftover \in BOOLEAN
  /\ sessions \in 0 .. MaxSessions

\* mute_on_join is either.
Init ==
  /\ session = "off"
  /\ local_audio_sources_ = EmptyMap /\ local_video_sources_ = EmptyMap
  /\ is_muted_ \in BOOLEAN
  /\ sdp_ = <<>>
  /\ message_queue_ = <<>>
  /\ joined = FALSE /\ muted = FALSE /\ subscribed = FALSE
  /\ acks = <<>> /\ streams = 0 /\ before = 0
  /\ wish = is_muted_ /\ granted = EmptyMap
  /\ changed = FALSE /\ carried = FALSE /\ leftover = FALSE /\ sessions = 0

-----------------------------------------------------------------------------
(* The frames. *)

\* One message is written per callback and the server deals with what it gets
\* in order: a frame that waits in a buffer on the way is one that is still in
\* the queue, except when the connection ends.
Send(frame) ==
  /\ Len(message_queue_) + Len(acks) < MaxQueue
  /\ message_queue_' = Append(message_queue_, frame)

IsSubscribe(frame) == frame.type = "SUBSCRIBE"

\* A SUBSCRIBE of this connection is unanswered, so the local mids should stay.
Unanswered == acks # <<>> \/ \E i \in DOMAIN message_queue_ : IsSubscribe(message_queue_[i])

IsSending(section) == section.direction \in {"sendonly", "sendrecv"}

\* The sections SendSubscribe makes a stream descriptor of.
IsLocalSection(section) ==
  IF section.media = "audio" THEN section.mid \in DOMAIN local_audio_sources_
  ELSE section.mid \in DOMAIN local_video_sources_

\* They are sent only if a video section sends (DUPLEX).
SendStreams ==
  LET sections == ParseSDP(sdp_)
      duplex == \E i \in DOMAIN sections :
                  sections[i].media = "video" /\ IsSending(sections[i])
      locals == {i \in DOMAIN sections : IsLocalSection(sections[i])}
      Descriptor(mid) == [mid |-> mid, stream |-> Stream(mid)]
  IN IF duplex
     THEN [k \in 1 .. Cardinality(locals) |-> Descriptor(sections[Nth(locals, k)].mid)]
     ELSE <<>>

\* Mutant: SUBSCRIBE does not say that the client is muted.
SubscribeUnmuted ==
  [type |-> "SUBSCRIBE", audio_muted |-> FALSE, offer |-> sdp_, send |-> SendStreams]

Subscribe ==
  [type |-> "SUBSCRIBE", audio_muted |-> is_muted_, offer |-> sdp_, send |-> SendStreams]

-----------------------------------------------------------------------------
(* The application. *)

SetLocalDescription(sdp) ==
  /\ sdp_' = sdp
  /\ UNCHANGED <<session, localVars, is_muted_, message_queue_, serverVars,
                 historyVars>>

SendUpdates ==
  /\ session = "connected" /\ sdp_ # <<>>
  /\ Send(Subscribe)
  /\ UNCHANGED <<session, localVars, is_muted_, sdp_, serverVars, historyVars>>

LocalChange == changed' = (changed \/ Unanswered)

\* AddLocalVideo is the same.
UpdateLocalVideo(mid) ==
  /\ mid \notin DOMAIN local_video_sources_
  /\ local_video_sources_' = Put(local_video_sources_, mid, 0)
  /\ LocalChange
  /\ UNCHANGED <<session, local_audio_sources_, is_muted_, sdp_, message_queue_,
                 serverVars, wish, granted, carried, leftover, sessions>>

RemoveLocalVideo(mid) ==
  /\ mid \in DOMAIN local_video_sources_
  /\ local_video_sources_' = Erase(local_video_sources_, {mid})
  /\ LocalChange
  /\ granted' = Erase(granted, {mid})
  /\ UNCHANGED <<session, local_audio_sources_, is_muted_, sdp_, message_queue_,
                 serverVars, wish, carried, leftover, sessions>>

\* Mutant: a mute while not connected is not stored.
SetMuteConnected(mute) ==
  IF is_muted_ # mute /\ session = "connected"
  THEN is_muted_' = mute /\ Send([type |-> "AUDIO_CONTROL", muted |-> mute])
  ELSE UNCHANGED <<is_muted_, message_queue_>>

SetMute(mute) ==
  /\ is_muted_' = mute
  /\ IF is_muted_ # mute /\ session = "connected"
     THEN Send([type |-> "AUDIO_CONTROL", muted |-> mute])
     ELSE UNCHANGED message_queue_

\* AddLocalAudio is the same.
UpdateLocalAudio(mid, mute) ==
  /\ IF mid \in DOMAIN local_audio_sources_
     THEN UNCHANGED <<local_audio_sources_, changed>>
     ELSE local_audio_sources_' = Put(local_audio_sources_, mid, 0) /\ LocalChange
  /\ SetMute(mute)
  /\ wish' = mute
  /\ UNCHANGED <<session, local_video_sources_, sdp_, serverVars, granted, carried,
                 leftover, sessions>>

RemoveLocalAudio(mid) ==
  /\ mid \in DOMAIN local_audio_sources_
  /\ local_audio_sources_' = Erase(local_audio_sources_, {mid})
  /\ LocalChange
  /\ granted' = Erase(granted, {mid})
  /\ UNCHANGED <<session, local_video_sources_, is_muted_, sdp_, message_queue_,
                 serverVars, wish, carried, leftover, sessions>>

-----------------------------------------------------------------------------
(* The session, as far as local media go. *)

OnSignalingConnected ==
  /\ session = "off" /\ sessions < MaxSessions
  /\ session' = "connected"
  /\ message_queue_' = Append(message_queue_, [type |-> "JOIN"])
  /\ leftover' = (message_queue_ # <<>>)
  /\ sessions' = sessions + 1
  /\ UNCHANGED <<localVars, is_muted_, sdp_, serverVars, wish, granted, changed,
                 carried>>

\* With the connection goes what the server knew and what was on its way back.
ServerForgets ==
  /\ joined' = FALSE /\ muted' = FALSE /\ subscribed' = FALSE
  /\ acks' = <<>>
  /\ before' = streams
  /\ granted' = EmptyMap /\ changed' = FALSE
  /\ UNCHANGED streams

Stop ==
  /\ session = "connected"
  /\ session' = "leaving"
  /\ Send([type |-> "LEAVE"])
  /\ UNCHANGED <<localVars, is_muted_, sdp_, serverVars, historyVars>>

\* Mutant: the videos are not cleared.
CloseKeepsVideo ==
  /\ local_audio_sources_' = EmptyMap
  /\ UNCHANGED local_video_sources_

\* Close, the transport's part aside.
Close ==
  /\ local_audio_sources_' = EmptyMap
  /\ local_video_sources_' = EmptyMap

\* LEAVE_ACK, which follows every SUBSCRIBE_ACK.  A LEAVE that a lost connection
\* left in the queue brings one too.
OnLeaveAck ==
  /\ Open /\ acks = <<>> /\ message_queue_ # <<>>
  /\ joined /\ Head(message_queue_).type = "LEAVE"
  /\ message_queue_' = Tail(message_queue_)
  /\ session' = "left"
  /\ Close
  /\ UNCHANGED <<is_muted_, sdp_, serverVars, historyVars>>

\* A failed write takes the message off the queue.  Nothing more is read.
OnSignalingErrorReceived ==
  /\ session \in {"connected", "leaving"} /\ message_queue_ # <<>>
  /\ session' = "failed"
  /\ message_queue_' = Tail(message_queue_)
  /\ ServerForgets
  /\ UNCHANGED <<localVars, is_muted_, sdp_, wish, carried, leftover, sessions>>

\* Frames that were on their way are lost, those in the queue stay.
OnSignalingClosed ==
  /\ session # "off"
  /\ session' = "off"
  /\ \E written \in 0 .. Len(message_queue_) :
       message_queue_' = SubSeq(message_queue_, written + 1, Len(message_queue_))
  /\ ServerForgets
  /\ carried' = (session # "left")
  /\ leftover' = FALSE
  /\ UNCHANGED <<localVars, is_muted_, sdp_, wish, sessions>>

-----------------------------------------------------------------------------
(* The server (external).  It ignores what comes before JOIN, keeps a stream  *)
(* id that a descriptor names, allocates one for each that names none, and    *)
(* answers with the sections of the offer in their order, or refuses without   *)
(* an answer.                                                                 *)

Nameless(send) == {k \in DOMAIN send : send[k].stream = 0}

Allocation(send, k) ==
  IF k \in Nameless(send) THEN streams + Rank(Nameless(send), k) ELSE send[k].stream

Allocations(send) == [k \in DOMAIN send |-> Allocation(send, k)]

NamedBy(send) == {send[k].mid : k \in DOMAIN send}
DescriptorOf(send, mid) == CHOOSE k \in DOMAIN send : send[k].mid = mid

Joins(frame) ==
  /\ frame.type = "JOIN"
  /\ joined' = TRUE
  /\ UNCHANGED <<muted, subscribed, acks, streams, granted>>

Ignores(frame) ==
  /\ frame.type # "JOIN" /\ ~joined
  /\ UNCHANGED <<joined, muted, subscribed, acks, streams, granted>>

Hears(frame) ==
  /\ frame.type = "AUDIO_CONTROL" /\ joined
  /\ muted' = frame.muted
  /\ UNCHANGED <<joined, subscribed, acks, streams, granted>>

Refuses(frame) ==
  /\ IsSubscribe(frame) /\ joined
  /\ acks' = Append(acks, [answer |-> <<>>, allocations |-> <<>>])
  /\ UNCHANGED <<joined, muted, subscribed, streams, granted>>

Accepts(frame) ==
  /\ IsSubscribe(frame) /\ joined
  /\ streams + Cardinality(Nameless(frame.send)) <= MaxStream
  /\ muted' = (muted \/ frame.audio_muted)
  /\ subscribed' = TRUE
  /\ streams' = streams + Cardinality(Nameless(frame.send))
  /\ acks' = Append(acks, [answer |-> frame.offer, allocations |-> Allocations(frame.send)])
  /\ granted' = [m \in DOMAIN granted \union NamedBy(frame.send) |->
                   IF m \in NamedBy(frame.send)
                   THEN Allocation(frame.send, DescriptorOf(frame.send, m))
                   ELSE granted[m]]
  /\ UNCHANGED joined

ServerReceives ==
  /\ Open /\ message_queue_ # <<>>
  /\ message_queue_' = Tail(message_queue_)
  /\ LET frame == Head(message_queue_)
     IN Joins(frame) \/ Ignores(frame) \/ Hears(frame) \/ Refuses(frame) \/ Accepts(frame)
  /\ UNCHANGED <<session, localVars, is_muted_, sdp_, before, wish, changed, carried,
                 leftover, sessions>>

-----------------------------------------------------------------------------
\* The sections of the answer that take an allocation, in their order.
TakesAllocation(section) == section.mid \in LocalMids

\* Mutant: the n-th section takes the n-th allocation.
AssignedByPosition(map, ack) ==
  LET sections == ParseSDP(ack.answer)
      places == DOMAIN sections
      Takes(i, m) == sections[i].mid = m /\ Rank(places, i) <= Len(ack.allocations)
  IN [m \in DOMAIN map |->
        IF \E i \in places : Takes(i, m)
        THEN ack.allocations[Rank(places, CHOOSE i \in places : Takes(i, m))]
        ELSE map[m]]

\* Mutant: a mid that is not local is given a source.
AssignedCreates(map, ack) ==
  LET sections == ParseSDP(ack.answer)
      places == {i \in DOMAIN sections : Rank(DOMAIN sections, i) <= Len(ack.allocations)}
  IN [m \in DOMAIN map \union {sections[i].mid : i \in places} |->
        IF \E i \in places : sections[i].mid = m
        THEN ack.allocations[Rank(places, CHOOSE i \in places : sections[i].mid = m)]
        ELSE map[m]]

\* What HandleSubAckFrame makes of a map of local sources: the n-th section of
\* the answer that is local takes the n-th allocation, as far as there are any.
Assigned(map, ack) ==
  LET sections == ParseSDP(ack.answer)
      locals == {i \in DOMAIN sections : TakesAllocation(sections[i])}
      Takes(i, m) == sections[i].mid = m /\ Rank(locals, i) <= Len(ack.allocations)
  IN [m \in DOMAIN map |->
        IF \E i \in locals : Takes(i, m)
        THEN ack.allocations[Rank(locals, CHOOSE i \in locals : Takes(i, m))]
        ELSE map[m]]

HandleSubAckFrame ==
  /\ Open /\ acks # <<>>
  /\ acks' = Tail(acks)
  /\ IF Head(acks).answer = <<>>
     THEN UNCHANGED localVars
     ELSE /\ local_audio_sources_' = Assigned(local_audio_sources_, Head(acks))
          /\ local_video_sources_' = Assigned(local_video_sources_, Head(acks))
  /\ UNCHANGED <<session, is_muted_, sdp_, message_queue_, joined, muted, subscribed,
                 streams, before, historyVars>>

-----------------------------------------------------------------------------
App ==
  \/ SendUpdates \/ Stop
  \/ \E sdp \in Offers : SetLocalDescription(sdp)
  \/ \E mid \in VideoMid : UpdateLocalVideo(mid) \/ RemoveLocalVideo(mid)
  \/ \E mid \in AudioMid : \/ RemoveLocalAudio(mid)
                           \/ \E mute \in BOOLEAN : UpdateLocalAudio(mid, mute)

Signaling == OnSignalingConnected \/ OnLeaveAck \/ OnSignalingErrorReceived
               \/ OnSignalingClosed \/ HandleSubAckFrame

Next == App \/ Signaling \/ ServerReceives

Spec == Init /\ [][Next]_vars

-----------------------------------------------------------------------------
(* Properties. *)

\* Whatever the application said of being muted, and in whatever state of the
\* client it did, the server knows once it has a SUBSCRIBE and nothing more is
\* on the way to it; also on the connection that follows a lost one, unless that
\* one left frames in the queue.
MuteReachesServer ==
  session = "connected" /\ ~leftover /\ joined /\ subscribed /\ message_queue_ = <<>> =>
    muted = wish

\* This connection follows one that was left in order, or none at all.
Clean == ~carried /\ ~leftover

\* When every SUBSCRIBE is answered the client has, for each local mid, the
\* stream the server allocated for it: unless the mids changed while a
\* SUBSCRIBE was unanswered, or a lost connection left its sources or its frames.
LocalStreamsAgree ==
  session = "connected" /\ Clean /\ ~changed /\ ~Unanswered =>
    \A mid \in LocalMids :
      Stream(mid) = IF mid \in DOMAIN granted THEN granted[mid] ELSE 0

\* A SUBSCRIBE names no stream of an earlier connection that was left in order.
NamesOwnStreams ==
  session = "connected" /\ Clean =>
    \A i \in DOMAIN message_queue_ : IsSubscribe(message_queue_[i]) =>
      \A s \in Range(message_queue_[i].send) : s.stream = 0 \/ s.stream > before
=============================================================================
