----------------------------- MODULE RemoteVideo -----------------------------
(***************************************************************************)
(* The remote video sources of DefaultSignalingClient (src/signaling/      *)
(* default_signaling_client.cc): which of them the INDEX frames have shown *)
(* it, what it has told the application of them, which of them the         *)
(* application subscribed to under which mid, and which streams SUBSCRIBE  *)
(* asks the server for.                                                    *)
(*                                                                         *)
(* A configuration is reduced to its attendee and its stream id; group ids *)
(* and bitrates are handed through.  How a session begins and ends is in   *)
(* SignalingSession; here it is the sequence of handlers that touch the    *)
(* two maps.                                                               *)
(***************************************************************************)
EXTENDS Naturals, Sequences, FiniteSets, StdMap

CONSTANTS
  Attendee,
  Mid,           \* media ids of the application's receiving transceivers
  MaxStream,     \* bound: video streams ever published
  MaxIndexes,    \* bound: INDEX frames on their way
  MaxSessions    \* bound: sessions

ASSUME VideoBoundsAssumption ==
  MaxStream \in Nat /\ MaxIndexes \in Nat /\ MaxSessions \in Nat

VARIABLES
  \* of the client
  session,     \* "off", "joined" (kConnected and is_joined_), "leaving"
               \* (kDisconnecting), "left" after LEAVE_ACK, "failed" after a
               \* failed write; only the CLOSED callback leads to "off"
  has_received_first_index_,
  attendee_id_to_internal_configurations_,   \* attendee -> stream id
  remote_video_sources_,                     \* mid -> attendee and stream id
  \* of the application
  started,     \* between OnSignalingClientStarted and OnSignalingClientStopped
  available,   \* attendee -> stream id, as the callbacks told it
  wanted,      \* mid -> attendee, as it last asked UpdateRemoteVideoSubscriptions
  \* of the server
  published,   \* attendee -> stream id
  owner,       \* stream id -> attendee, for every stream ever published
  indexes,     \* INDEX frames on their way: what was published, or at capacity
  \* history
  sessions,
  carried,     \* the session began with something of the one before it: in a
               \* map, in the flag, or in an application not told of its end
  reused       \* mids given to another attendee without being removed first

mapVars    == <<attendee_id_to_internal_configurations_, remote_video_sources_>>
clientVars == <<session, has_received_first_index_, mapVars>>
appVars    == <<started, available, wanted>>
serverVars == <<published, owner, indexes>>
historyVars == <<sessions, carried, reused>>
vars == <<clientVars, appVars, serverVars, historyVars>>

StreamId == 1 .. MaxStream
Source == [attendee : Attendee, stream : StreamId]
AtCapacity == [at_capacity |-> TRUE, sources |-> EmptyMap]
Index(sources) == [at_capacity |-> FALSE, sources |-> sources]

Sources == Map(Attendee, StreamId)

TypeOK ==
  /\ session \in {"off", "joined", "leaving", "left", "failed"}
  /\ has_received_first_index_ \in BOOLEAN
  /\ attendee_id_to_internal_configurations_ \in Sources
  /\ remote_video_sources_ \in Map(Mid, Source)
  /\ started \in BOOLEAN
  /\ available \in Sources
  /\ wanted \in Map(Mid, Attendee)
  /\ published \in Sources
  /\ owner \in Seq(Attendee) /\ Len(owner) <= MaxStream
  /\ indexes \in Seq([at_capacity : BOOLEAN, sources : Sources])
  /\ sessions \in 0 .. MaxSessions
  /\ carried \in BOOLEAN
  /\ reused \subseteq Mid

Init ==
  /\ session = "off"
  /\ has_received_first_index_ = FALSE
  /\ attendee_id_to_internal_configurations_ = EmptyMap
  /\ remote_video_sources_ = EmptyMap
  /\ started = FALSE
  /\ available = EmptyMap /\ wanted = EmptyMap
  /\ published = EmptyMap /\ owner = <<>> /\ indexes = <<>>
  /\ sessions = 0 /\ carried = FALSE /\ reused = {}

-----------------------------------------------------------------------------
(* The server (external): a stream id is used once, an index frame lists all *)
(* that is published.                                                        *)

Publish(a) ==
  /\ a \notin DOMAIN published /\ Len(owner) < MaxStream
  /\ owner' = Append(owner, a)
  /\ published' = Put(published, a, Len(owner) + 1)
  /\ UNCHANGED <<clientVars, appVars, indexes, historyVars>>

Unpublish(a) ==
  /\ a \in DOMAIN published
  /\ published' = Erase(published, {a})
  /\ UNCHANGED <<clientVars, appVars, owner, indexes, historyVars>>

SendsIndex ==
  /\ session \in {"joined", "leaving"} /\ Len(indexes) < MaxIndexes
  /\ \E frame \in {Index(published), AtCapacity} : indexes' = Append(indexes, frame)
  /\ UNCHANGED <<clientVars, appVars, published, owner, historyVars>>

-----------------------------------------------------------------------------
(* The session, as far as the maps go. *)

\* JOIN_ACK of a new connection.  It need not wait for the CLOSED of the one
\* before: after LEAVE_ACK of a connection that a retry made is_stopped_ is
\* TRUE, so Close leaves the socket open, and Start() replaces it.
Joins ==
  /\ session \in {"off", "left"} /\ sessions < MaxSessions
  /\ session' = "joined"
  /\ sessions' = sessions + 1
  /\ carried' = ~(/\ attendee_id_to_internal_configurations_ = EmptyMap
                  /\ remote_video_sources_ = EmptyMap
                  /\ ~has_received_first_index_ /\ ~started)
  /\ UNCHANGED <<has_received_first_index_, mapVars, appVars, serverVars, reused>>

\* Mutant: the subscriptions are not cleared.
CloseKeepsSubscriptions ==
  /\ attendee_id_to_internal_configurations_' = EmptyMap
  /\ UNCHANGED remote_video_sources_

\* Close clears both maps.  (The transport's part is in SignalingClient.)
Close ==
  /\ attendee_id_to_internal_configurations_' = EmptyMap
  /\ remote_video_sources_' = EmptyMap

SendLeave ==
  /\ session = "joined"
  /\ session' = "leaving"
  /\ UNCHANGED <<has_received_first_index_, mapVars, appVars, serverVars,
                 historyVars>>

\* LEAVE_ACK follows every index frame the server sent.
OnLeaveAck ==
  /\ session = "leaving" /\ indexes = <<>>
  /\ session' = "left"
  /\ Close
  /\ UNCHANGED <<has_received_first_index_, appVars, serverVars, historyVars>>

\* OnSignalingClientStopped: the application drops its peer connection, and
\* with it the mids it had given out.
NotifyStopped ==
  /\ started' = FALSE
  /\ available' = EmptyMap /\ wanted' = EmptyMap /\ reused' = {}

\* A failed write.  Nothing more is read from the socket.
OnSignalingErrorReceived ==
  /\ session \in {"joined", "leaving"}
  /\ session' = "failed"
  /\ indexes' = <<>>
  /\ NotifyStopped
  /\ UNCHANGED <<has_received_first_index_, mapVars, published, owner, sessions,
                 carried>>

\* CLOSED, of whichever connection.  What is on its way is lost with the socket.  The maps
\* stay as they are.
OnSignalingClosed ==
  /\ session # "off"
  /\ session' = "off"
  /\ has_received_first_index_' = FALSE
  /\ indexes' = <<>>
  /\ NotifyStopped
  /\ UNCHANGED <<mapVars, published, owner, sessions, carried>>

-----------------------------------------------------------------------------
(* HandleIndexFrame. *)

Listed(frame) == DOMAIN frame.sources
Stored == DOMAIN attendee_id_to_internal_configurations_

\* Mutant: what the frame no longer lists stays in the map.
MergeKeepingRemoved(frame) ==
  [a \in Stored \union Listed(frame) |->
     IF a \in Stored THEN attendee_id_to_internal_configurations_[a]
     ELSE frame.sources[a]]

\* An attendee that is listed and stored keeps the stream id stored for it;
\* what is stored and not listed is removed.
Merge(frame) ==
  [a \in Listed(frame) |->
     IF a \in Stored THEN attendee_id_to_internal_configurations_[a]
     ELSE frame.sources[a]]

\* OnRemoteVideoSourcesAvailable for what the frame newly lists, then
\* OnRemoteVideoSourcesUnavailable for what it no longer lists.  The two have
\* no attendee in common.
NotifyChanges(frame) ==
  available' = [a \in (DOMAIN available \ (Stored \ Listed(frame)))
                        \union (Listed(frame) \ Stored) |->
                  IF a \in Listed(frame) \ Stored THEN frame.sources[a] ELSE available[a]]

\* The first index of a session goes to OnSignalingClientStarted, with the
\* sources newly listed, unless the TURN credentials have expired.
NotifyFirstIndex(frame) ==
  \/ /\ started' = TRUE
     /\ available' = Erase(frame.sources, Stored)
  \/ UNCHANGED <<started, available>>

HandleIndexFrame ==
  /\ indexes # <<>>
  /\ indexes' = Tail(indexes)
  /\ LET frame == Head(indexes)
     IN IF session = "joined" /\ ~frame.at_capacity
        THEN /\ attendee_id_to_internal_configurations_' = Merge(frame)
             /\ has_received_first_index_' = TRUE
             /\ IF has_received_first_index_
                THEN NotifyChanges(frame) /\ UNCHANGED started
                ELSE NotifyFirstIndex(frame)
        ELSE UNCHANGED <<attendee_id_to_internal_configurations_,
                         has_received_first_index_, started, available>>
  /\ UNCHANGED <<session, remote_video_sources_, wanted, published,
                 owner, historyVars>>

-----------------------------------------------------------------------------
(* The application subscribes. *)

\* Mutant: a removed mid stays subscribed.
SubscribedKeepingRemoved(added, removed) ==
  LET found == {m \in DOMAIN added : added[m] \in Stored}
  IN [m \in DOMAIN remote_video_sources_ \union found |->
        IF m \in DOMAIN remote_video_sources_
        THEN remote_video_sources_[m]
        ELSE [attendee |-> added[m],
              stream |-> attendee_id_to_internal_configurations_[added[m]]]]

\* Mutant: operator[] makes an entry for an attendee that is not stored.
SubscribedUnknown(added, removed) ==
  [m \in (DOMAIN remote_video_sources_ \union DOMAIN added) \ removed |->
     IF m \in DOMAIN remote_video_sources_
     THEN remote_video_sources_[m]
     ELSE [attendee |-> added[m],
           stream |-> IF added[m] \in Stored
                      THEN attendee_id_to_internal_configurations_[added[m]]
                      ELSE 0]]

\* remote_video_sources_ after UpdateRemoteVideoSubscriptions: a mid that has
\* an entry keeps its attendee and its stream id, a new one takes those stored
\* for the attendee, if any; the removed ones go last.
Subscribed(added, removed) ==
  LET found == {m \in DOMAIN added : added[m] \in Stored}
  IN [m \in (DOMAIN remote_video_sources_ \union found) \ removed |->
        IF m \in DOMAIN remote_video_sources_
        THEN remote_video_sources_[m]
        ELSE [attendee |-> added[m],
              stream |-> attendee_id_to_internal_configurations_[added[m]]]]

\* The application gives a mid to an attendee: one that is free, or that this or
\* another attendee has.  It may know the attendee from an index the client has
\* since replaced.
AddSubscription(m, a) ==
  /\ started
  /\ reused' = IF m \in DOMAIN wanted /\ wanted[m] # a THEN reused \union {m}
               ELSE reused
  /\ remote_video_sources_' = Subscribed(Put(EmptyMap, m, a), {})
  /\ wanted' = Put(wanted, m, a)
  /\ UNCHANGED <<session, has_received_first_index_,
                 attendee_id_to_internal_configurations_, started, available,
                 serverVars, sessions, carried>>

RemoveSubscription(m) ==
  /\ m \in DOMAIN wanted
  /\ reused' = reused \ {m}
  /\ remote_video_sources_' = Subscribed(EmptyMap, {m})
  /\ wanted' = Erase(wanted, {m})
  /\ UNCHANGED <<session, has_received_first_index_,
                 attendee_id_to_internal_configurations_, started, available,
                 serverVars, sessions, carried>>

\* receive_stream_ids of the SUBSCRIBE for an offer, given as the mids of its
\* video sections in their order: 0 for the audio, then a stream id for each
\* section that is subscribed, or 0 when it is inactive.  A section that is not
\* subscribed has no entry: the ids behind it move up.
ReceiveStreams(offer, inactive) ==
  LET asked == SelectSeq(offer, LAMBDA m : m \in DOMAIN remote_video_sources_)
      Id(m) == IF m \in inactive THEN 0 ELSE remote_video_sources_[m].stream
  IN <<0>> \o [i \in DOMAIN asked |-> Id(asked[i])]

-----------------------------------------------------------------------------
Server == SendsIndex \/ \E a \in Attendee : Publish(a) \/ Unpublish(a)

Signaling == Joins \/ SendLeave \/ OnLeaveAck \/ OnSignalingErrorReceived
               \/ OnSignalingClosed \/ HandleIndexFrame

App == \E m \in Mid : \/ RemoveSubscription(m)
                      \/ \E a \in Attendee : AddSubscription(m, a)

Next == Server \/ Signaling \/ App

Spec == Init /\ [][Next]_vars

-----------------------------------------------------------------------------
(* Properties. *)

\* In a session that began with nothing of the one before, the application knows,
\* once it has started, exactly the sources the client stores, with their streams.
AvailableAgrees == started /\ session = "joined" /\ ~carried =>
                     available = attendee_id_to_internal_configurations_

\* The orders an offer can have its video sections in.
Offers == {o \in [1 .. Cardinality(Mid) -> Mid] :
             \A i, j \in DOMAIN o : o[i] = o[j] => i = j}

\* In such a session, when the client found every attendee the application asked
\* for, SUBSCRIBE lists one id per wanted section, in the order of the offer, and
\* each is a stream the attendee wanted at that section has published, whatever
\* mids were removed and given away since; except where a mid was given to
\* another attendee without being removed, which keeps the one it had.
SubscriptionsWanted ==
  started /\ session = "joined" /\ ~carried
    /\ DOMAIN wanted \subseteq DOMAIN remote_video_sources_ =>
      \A offer \in Offers :
        LET sections == SelectSeq(offer, LAMBDA m : m \in DOMAIN wanted)
            ids == ReceiveStreams(offer, {})
        IN /\ Len(ids) = Len(sections) + 1
           /\ \A i \in DOMAIN sections :
                sections[i] \notin reused => owner[ids[i + 1]] = wanted[sections[i]]

\* After LEAVE_ACK the maps are empty and stay so, whatever the application,
\* which has not been told yet, still subscribes to.
LeftIsForgotten ==
  session = "left" =>
    /\ attendee_id_to_internal_configurations_ = EmptyMap
    /\ remote_video_sources_ = EmptyMap
=============================================================================
