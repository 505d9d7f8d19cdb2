-------------------------- MODULE RemoteVideo_proofs --------------------------
(***************************************************************************)
(* Proofs about RemoteVideo: what the application knows of the sources is  *)
(* what the client stores, nothing of a session survives LEAVE_ACK, and    *)
(* the entries a SUBSCRIBE reads are those of the attendees wanted.        *)
(***************************************************************************)
EXTENDS RemoteVideo, StdMap_proofs, SequenceTheorems, TLAPS

-----------------------------------------------------------------------------
(* Type correctness. *)

\* What UpdateRemoteVideoSubscriptions leaves has mids and sources.
LEMMA SubscribedType ==
  ASSUME attendee_id_to_internal_configurations_ \in Sources,
         remote_video_sources_ \in Map(Mid, Source),
         NEW added \in Map(Mid, Attendee), NEW removed
  PROVE  Subscribed(added, removed) \in Map(Mid, Source)
<1> DEFINE map == Subscribed(added, removed)
           found == {m \in DOMAIN added : added[m] \in Stored}
           D == (DOMAIN remote_video_sources_ \union found) \ removed
<1>1. /\ DOMAIN remote_video_sources_ \subseteq Mid /\ DOMAIN added \subseteq Mid
      /\ \A m \in DOMAIN remote_video_sources_ : remote_video_sources_[m] \in Source
      /\ \A m \in DOMAIN added : added[m] \in Attendee
      /\ \A a \in Stored : attendee_id_to_internal_configurations_[a] \in StreamId
  BY MapElim DEF Sources, Stored
<1>2. D \in SUBSET Mid
  BY <1>1
<1>3. map = [m \in D |->
               IF m \in DOMAIN remote_video_sources_
               THEN remote_video_sources_[m]
               ELSE [attendee |-> added[m],
                     stream |-> attendee_id_to_internal_configurations_[added[m]]]]
  BY DEF Subscribed
<1>4. ASSUME NEW m \in D, m \notin DOMAIN remote_video_sources_
      PROVE  [attendee |-> added[m],
              stream |-> attendee_id_to_internal_configurations_[added[m]]] \in Source
  BY <1>1, <1>4 DEF Source
<1> HIDE DEF map, D
<1>5. map \in [D -> Source]
  BY <1>1, <1>3, <1>4
<1> QED
  BY <1>2, <1>5, MapIntro DEF map

\* What the client stores, and the application knows, after an index.
LEMMA IndexTypes ==
  ASSUME attendee_id_to_internal_configurations_ \in Sources, available \in Sources,
         NEW frame, frame.sources \in Sources
  PROVE  /\ Merge(frame) \in Sources
         /\ NotifyChanges(frame) => available' \in Sources
         /\ NotifyFirstIndex(frame) /\ started \in BOOLEAN =>
              available' \in Sources /\ started' \in BOOLEAN
<1>1. /\ Listed(frame) \subseteq Attendee /\ DOMAIN available \subseteq Attendee
      /\ \A a \in Listed(frame) : frame.sources[a] \in StreamId
      /\ \A a \in Stored : attendee_id_to_internal_configurations_[a] \in StreamId
      /\ \A a \in DOMAIN available : available[a] \in StreamId
  BY MapElim DEF Sources, Stored, Listed
<1>2. Merge(frame) \in Sources
  <2>1. Merge(frame) \in [Listed(frame) -> StreamId]
    BY <1>1 DEF Merge
  <2> QED
    BY <1>1, <2>1, MapIntro DEF Sources
<1>3. ASSUME NotifyChanges(frame)
      PROVE  available' \in Sources
  <2> DEFINE D == (DOMAIN available \ (Stored \ Listed(frame)))
                    \union (Listed(frame) \ Stored)
  <2>1. D \in SUBSET Attendee
    BY <1>1
  <2>2. \A a \in D : a \notin Listed(frame) \ Stored => a \in DOMAIN available
    OBVIOUS
  <2>3. available' = [a \in D |-> IF a \in Listed(frame) \ Stored
                                 THEN frame.sources[a] ELSE available[a]]
    BY <1>3 DEF NotifyChanges
  <2> HIDE DEF D
  <2>4. available' \in [D -> StreamId]
    BY <1>1, <2>2, <2>3
  <2> QED
    BY <2>1, <2>2, <2>4, MapIntro DEF Sources
<1>4. NotifyFirstIndex(frame) /\ started \in BOOLEAN =>
        available' \in Sources /\ started' \in BOOLEAN
  BY EraseType DEF NotifyFirstIndex, Sources
<1> QED
  BY <1>2, <1>3, <1>4


LEMMA TypeStep ==
  TypeOK /\ [Next]_vars => TypeOK'
<1> SUFFICES ASSUME TypeOK, [Next]_vars
             PROVE  TypeOK'
  OBVIOUS
<1> USE VideoBoundsAssumption DEF VideoBoundsAssumption
<1> DEFINE IndexFrame == [at_capacity : BOOLEAN, sources : Sources]
<1>0. /\ EmptyMap \in Sources /\ EmptyMap \in Map(Mid, Source)
      /\ EmptyMap \in Map(Mid, Attendee) /\ DOMAIN EmptyMap = {}
      /\ <<>> \in Seq(IndexFrame)
  BY EmptyMapType, EmptySeq DEF Sources
<1>1. CASE Joins
  BY <1>0, <1>1 DEF Joins, TypeOK, mapVars, appVars, historyVars, serverVars
<1>2. CASE SendLeave
  BY <1>2 DEF SendLeave, TypeOK, mapVars, appVars, historyVars, serverVars
<1>3. CASE OnLeaveAck
  BY <1>0, <1>3 DEF OnLeaveAck, Close, TypeOK, appVars, serverVars, historyVars
<1>4. CASE OnSignalingErrorReceived
  BY <1>0, <1>4 DEF OnSignalingErrorReceived, NotifyStopped, TypeOK, mapVars
<1>5. CASE OnSignalingClosed
  BY <1>0, <1>5 DEF OnSignalingClosed, NotifyStopped, TypeOK, mapVars
<1>6. CASE HandleIndexFrame
  <2> DEFINE frame == Head(indexes)
  <2>1. /\ frame \in IndexFrame /\ Tail(indexes) \in Seq(IndexFrame)
        /\ attendee_id_to_internal_configurations_ \in Sources
        /\ available \in Sources /\ started \in BOOLEAN
    BY <1>6, HeadTailProperties DEF HandleIndexFrame, TypeOK
  <2>2. frame.sources \in Sources
    BY <2>1
  <2>3. /\ session' = session
        /\ attendee_id_to_internal_configurations_' \in Sources
        /\ available' \in Sources /\ started' \in BOOLEAN
        /\ has_received_first_index_' \in BOOLEAN
    <3>1. CASE session = "joined" /\ ~frame.at_capacity
      <4>1. /\ attendee_id_to_internal_configurations_' = Merge(frame)
            /\ session' = session /\ has_received_first_index_' = TRUE
            /\ (NotifyChanges(frame) /\ UNCHANGED started) \/ NotifyFirstIndex(frame)
        BY <1>6, <3>1 DEF HandleIndexFrame
      <4>2. started' \in BOOLEAN /\ available' \in Sources
        BY <2>1, <2>2, <4>1, IndexTypes
      <4> QED
        BY <2>1, <2>2, <4>1, <4>2, IndexTypes
    <3>2. CASE ~(session = "joined" /\ ~frame.at_capacity)
      BY <1>6, <2>1, <3>2 DEF HandleIndexFrame, TypeOK
    <3> QED
      BY <3>1, <3>2
  <2> QED
    BY <1>6, <2>1, <2>3 DEF HandleIndexFrame, TypeOK, historyVars

<1>7. ASSUME NEW m \in Mid, NEW a \in Attendee, AddSubscription(m, a)
      PROVE  TypeOK'
  <2>1. /\ Put(EmptyMap, m, a) \in Map(Mid, Attendee)
        /\ Put(wanted, m, a) \in Map(Mid, Attendee)
    BY <1>0, PutType DEF TypeOK
  <2>2. remote_video_sources_' \in Map(Mid, Source)
    BY <1>7, <2>1, SubscribedType DEF AddSubscription, TypeOK
  <2> QED
    BY <1>7, <2>1, <2>2 DEF AddSubscription, TypeOK, historyVars, serverVars
<1>8. ASSUME NEW m \in Mid, RemoveSubscription(m)
      PROVE  TypeOK'
  <2>1. Erase(wanted, {m}) \in Map(Mid, Attendee)
    BY EraseType DEF TypeOK
  <2>2. remote_video_sources_' \in Map(Mid, Source)
    BY <1>0, <1>8, SubscribedType DEF RemoveSubscription, TypeOK
  <2> QED
    BY <1>8, <2>1, <2>2 DEF RemoveSubscription, TypeOK, historyVars, serverVars
<1>9. ASSUME NEW a \in Attendee, Publish(a)
      PROVE  TypeOK'
  <2>1. /\ owner' \in Seq(Attendee) /\ Len(owner') = Len(owner) + 1
        /\ Len(owner) \in Nat
    BY <1>9, AppendProperties, LenProperties DEF Publish, TypeOK
  <2>2. Len(owner) + 1 \in StreamId /\ Len(owner') <= MaxStream
    BY <1>9, <2>1 DEF Publish, StreamId
  <2>3. published' \in Sources
    BY <1>9, <2>2, PutType DEF Publish, TypeOK, Sources
  <2> QED
    BY <1>9, <2>1, <2>2, <2>3 DEF Publish, TypeOK, clientVars,
                                  mapVars, appVars, historyVars
<1>10. ASSUME NEW a \in Attendee, Unpublish(a)
       PROVE  TypeOK'
  <2>1. published' \in Sources
    BY <1>10, EraseType DEF Unpublish, TypeOK, Sources
  <2> QED
    BY <1>10, <2>1 DEF Unpublish, TypeOK, clientVars, mapVars, appVars, historyVars
<1>11. CASE SendsIndex
  <2>1. Index(published) \in IndexFrame /\ AtCapacity \in IndexFrame
    BY <1>0 DEF Index, AtCapacity, TypeOK
  <2>2. indexes' \in Seq(IndexFrame)
    <3>1. PICK frame \in {Index(published), AtCapacity} : indexes' = Append(indexes, frame)
      BY <1>11 DEF SendsIndex
    <3>2. frame \in IndexFrame
      BY <2>1
    <3> QED
      BY <3>1, <3>2, AppendProperties DEF TypeOK
  <2> QED
    BY <1>11, <2>2 DEF SendsIndex, TypeOK, clientVars, mapVars, appVars, historyVars
<1>12. CASE UNCHANGED vars
  BY <1>12 DEF vars, historyVars, clientVars, mapVars, appVars, serverVars, TypeOK
<1> QED
  BY <1>1, <1>2, <1>3, <1>4, <1>5, <1>6, <1>7, <1>8, <1>9, <1>10, <1>11, <1>12
  DEF Next, Server, Signaling, App

\* Every variable keeps its type: whatever the application asks for, the client
\* only stores, tells of and subscribes to streams that were published.
THEOREM TypeCorrect == Spec => []TypeOK
<1> USE VideoBoundsAssumption DEF VideoBoundsAssumption
<1>1. Init => TypeOK
  <2> SUFFICES ASSUME Init PROVE TypeOK
    OBVIOUS
  <2>1. /\ EmptyMap \in Sources /\ EmptyMap \in Map(Mid, Source)
        /\ EmptyMap \in Map(Mid, Attendee) /\ DOMAIN EmptyMap = {}
    BY EmptyMapType DEF Sources
  <2>2. <<>> \in Seq(Attendee) /\ Len(<<>>) = 0
          /\ <<>> \in Seq([at_capacity : BOOLEAN, sources : Sources])
    BY EmptySeq
  <2>3. owner \in Seq(Attendee) /\ Len(owner) <= MaxStream
          /\ indexes \in Seq([at_capacity : BOOLEAN, sources : Sources])
    BY <2>2 DEF Init
  <2>4. sessions \in 0 .. MaxSessions
    BY DEF Init
  <2>5. TypeOK
    BY <2>1, <2>3, <2>4, Zenon DEF Init, TypeOK
  <2> QED
    BY <2>5
<1> QED
  BY <1>1, TypeStep, PTL DEF Spec

-----------------------------------------------------------------------------
\* Nothing comes of adding a subscription while no attendee is stored.
LEMMA NothingToSubscribe ==
  ASSUME attendee_id_to_internal_configurations_ = EmptyMap,
         remote_video_sources_ = EmptyMap,
         NEW added, NEW removed
  PROVE  Subscribed(added, removed) = EmptyMap
BY DEF Subscribed, Stored, EmptyMap

\* The maps are empty from LEAVE_ACK to the CLOSED callback.
THEOREM LeftIsForgottenHolds == Spec => []LeftIsForgotten
<1>1. Init => LeftIsForgotten
  BY DEF Init, LeftIsForgotten
<1>2. LeftIsForgotten /\ [Next]_vars => LeftIsForgotten'
  <2> SUFFICES ASSUME LeftIsForgotten, [Next]_vars
               PROVE  LeftIsForgotten'
    OBVIOUS
  <2> USE DEF LeftIsForgotten
  <2>1. CASE OnLeaveAck
    BY <2>1 DEF OnLeaveAck, Close
  <2>2. CASE HandleIndexFrame
    BY <2>2 DEF HandleIndexFrame
  <2>3. ASSUME NEW m \in Mid, NEW a \in Attendee, AddSubscription(m, a)
        PROVE  LeftIsForgotten'
    BY <2>3, NothingToSubscribe DEF AddSubscription
  <2>4. ASSUME NEW m \in Mid, RemoveSubscription(m)
        PROVE  LeftIsForgotten'
    BY <2>4, NothingToSubscribe DEF RemoveSubscription
  <2>5. CASE Joins \/ SendLeave \/ OnSignalingErrorReceived \/ OnSignalingClosed
    BY <2>5 DEF Joins, SendLeave, OnSignalingErrorReceived, OnSignalingClosed
  <2>6. CASE Server
    BY <2>6 DEF Server, Publish, Unpublish, SendsIndex, clientVars, mapVars
  <2>7. CASE UNCHANGED vars
    BY <2>7 DEF vars, clientVars, mapVars
  <2> QED
    BY <2>1, <2>2, <2>3, <2>4, <2>5, <2>6, <2>7 DEF Next, Signaling, App
<1> QED
  BY <1>1, <1>2, PTL DEF Spec

-----------------------------------------------------------------------------
(* AvailableAgrees is not inductive.  The first index gives the application  *)
(* the whole map only because the map is still empty then, and the           *)
(* application has heard nothing yet.                                        *)
SessionInv ==
  /\ session \in {"joined", "leaving"} /\ ~carried =>
       /\ ~has_received_first_index_ =>
            attendee_id_to_internal_configurations_ = EmptyMap /\ ~started
       /\ started => available = attendee_id_to_internal_configurations_

\* OnRemoteVideoSourcesUnavailable and ...Available lead an application that
\* knows the map to the map as the frame leaves it.
LEMMA ChangesTellTheMap ==
  ASSUME NEW frame, NotifyChanges(frame),
         available = attendee_id_to_internal_configurations_
  PROVE  available' = Merge(frame)
BY DEF NotifyChanges, Merge, Stored, Listed

\* The first index of a clean session tells of all it stores.
LEMMA FirstIndexTellsTheMap ==
  ASSUME NEW frame, NotifyFirstIndex(frame), ~started, started',
         attendee_id_to_internal_configurations_ = EmptyMap
  PROVE  available' = Merge(frame)
BY DEF NotifyFirstIndex, Merge, Stored, Listed, EmptyMap, Erase, Restrict

\* In a session that began with empty maps the application knows the sources
\* the client stores, however often they change.
THEOREM AvailableAgreesHolds == Spec => []AvailableAgrees
<1>1. Init => SessionInv
  BY DEF Init, SessionInv
<1>2. SessionInv /\ [Next]_vars => SessionInv'
  <2> SUFFICES ASSUME SessionInv, [Next]_vars
               PROVE  SessionInv'
    OBVIOUS
  <2>1. CASE Joins
    BY <2>1 DEF SessionInv, Joins, mapVars, appVars
  <2>2. CASE SendLeave
    BY <2>2 DEF SessionInv, SendLeave, mapVars, appVars, historyVars
  <2>3. CASE OnLeaveAck
    BY <2>3 DEF SessionInv, OnLeaveAck, appVars, historyVars
  <2>4. CASE OnSignalingErrorReceived
    BY <2>4 DEF SessionInv, OnSignalingErrorReceived, NotifyStopped, mapVars
  <2>5. CASE OnSignalingClosed
    BY <2>5 DEF SessionInv, OnSignalingClosed, NotifyStopped
  <2>6. CASE HandleIndexFrame
    <3> DEFINE frame == Head(indexes)
    <3>1. CASE session = "joined" /\ ~frame.at_capacity /\ has_received_first_index_
      <4>1. started /\ ~carried => available' = Merge(frame)
        BY <2>6, <3>1, ChangesTellTheMap DEF HandleIndexFrame, SessionInv, historyVars
      <4> QED
        BY <4>1, <2>6, <3>1 DEF HandleIndexFrame, SessionInv, historyVars
    <3>2. CASE session = "joined" /\ ~frame.at_capacity /\ ~has_received_first_index_
      <4>1. started' /\ ~carried => available' = Merge(frame)
        BY <2>6, <3>2, FirstIndexTellsTheMap DEF HandleIndexFrame, SessionInv, historyVars
      <4> QED
        BY <4>1, <2>6, <3>2 DEF HandleIndexFrame, SessionInv, historyVars
    <3>3. CASE ~(session = "joined" /\ ~frame.at_capacity)
      BY <2>6, <3>3 DEF HandleIndexFrame, SessionInv, historyVars
    <3> QED
      BY <3>1, <3>2, <3>3
  <2>7. CASE App
    BY <2>7 DEF SessionInv, App, AddSubscription, RemoveSubscription
  <2>8. CASE Server
    <3>1. UNCHANGED <<clientVars, appVars, carried>>
      BY <2>8 DEF Server, Publish, Unpublish, SendsIndex, historyVars
    <3> QED
      BY <3>1 DEF SessionInv, clientVars, mapVars, appVars
  <2>9. CASE UNCHANGED vars
    BY <2>9 DEF SessionInv, vars, clientVars, mapVars, appVars, historyVars
  <2> QED
    BY <2>1, <2>2, <2>3, <2>4, <2>5, <2>6, <2>7, <2>8, <2>9 DEF Next, Signaling
<1>3. SessionInv => AvailableAgrees
  BY DEF SessionInv, AvailableAgrees
<1> QED
  BY <1>1, <1>2, <1>3, PTL DEF Spec

-----------------------------------------------------------------------------
(* Every stream id the client holds is that of the attendee it holds it      *)
(* for: in the index frames on their way, in the map they are merged into,   *)
(* although an id that is stored is not replaced, and in what was copied     *)
(* from there on a subscription.                                             *)

OwnedBy(stream, a) == stream \in DOMAIN owner /\ owner[stream] = a
Owned(sources) == \A a \in DOMAIN sources : OwnedBy(sources[a], a)

OwnedInv ==
  /\ Owned(published)
  /\ \A i \in DOMAIN indexes : Owned(indexes[i].sources)
  /\ Owned(attendee_id_to_internal_configurations_)
  /\ \A m \in DOMAIN remote_video_sources_ :
       OwnedBy(remote_video_sources_[m].stream, remote_video_sources_[m].attendee)

\* A stream that has an owner keeps it when another is published.
LEMMA OwnersStay ==
  ASSUME TypeOK, NEW a \in Attendee, Publish(a)
  PROVE  /\ \A stream \in DOMAIN owner :
              stream \in DOMAIN owner' /\ owner'[stream] = owner[stream]
         /\ Len(owner) + 1 \in DOMAIN owner' /\ owner'[Len(owner) + 1] = a
<1>1. owner \in Seq(Attendee) /\ owner' = Append(owner, a)
  BY DEF TypeOK, Publish
<1>2. /\ Len(owner) \in Nat /\ DOMAIN owner = 1 .. Len(owner)
      /\ DOMAIN owner' = 1 .. Len(owner) + 1
      /\ \A i \in 1 .. Len(owner) : owner'[i] = owner[i]
      /\ owner'[Len(owner) + 1] = a
  BY <1>1, AppendProperties, LenProperties
<1> QED
  BY <1>2

LEMMA OwnedInvStep ==
  TypeOK /\ OwnedInv /\ [Next]_vars => OwnedInv'
<1> SUFFICES ASSUME TypeOK, OwnedInv, [Next]_vars PROVE OwnedInv'
  OBVIOUS
<1> DEFINE IndexFrame == [at_capacity : BOOLEAN, sources : Sources]
           stored == attendee_id_to_internal_configurations_
<1>0. /\ indexes \in Seq(IndexFrame) /\ Len(indexes) \in Nat
      /\ DOMAIN indexes = 1 .. Len(indexes)
      /\ DOMAIN EmptyMap = {} /\ DOMAIN <<>> = {}
  BY LenProperties, EmptyMapType DEF TypeOK
<1>1. CASE Joins \/ SendLeave \/ UNCHANGED vars
  BY <1>1 DEF Joins, SendLeave, vars, clientVars, mapVars, serverVars, OwnedInv, Owned,
              OwnedBy
<1>2. CASE OnLeaveAck
  BY <1>0, <1>2 DEF OnLeaveAck, Close, serverVars, OwnedInv, Owned, OwnedBy
<1>3. CASE OnSignalingErrorReceived \/ OnSignalingClosed
  BY <1>0, <1>3 DEF OnSignalingErrorReceived, OnSignalingClosed, mapVars, OwnedInv,
                    Owned, OwnedBy
<1>4. CASE HandleIndexFrame
  <2> DEFINE frame == Head(indexes)
  <2>1. /\ UNCHANGED <<remote_video_sources_, published, owner>>
        /\ indexes # <<>> /\ indexes' = Tail(indexes)
        /\ stored' = Merge(frame) \/ UNCHANGED stored
    BY <1>4 DEF HandleIndexFrame
  <2>2. Owned(frame.sources)
    <3>1. frame = indexes[1] /\ 1 \in DOMAIN indexes
      BY <1>0, <2>1, EmptySeq
    <3> QED
      BY <3>1 DEF OwnedInv
  <2>3. \A i \in DOMAIN indexes' : Owned(indexes'[i].sources)
    <3>1. DOMAIN indexes' = 1 .. Len(indexes) - 1
            /\ \A i \in 1 .. Len(indexes) - 1 : indexes'[i] = indexes[i + 1]
      BY <1>0, <2>1, HeadTailProperties, LenProperties
    <3>2. \A i \in 1 .. Len(indexes) - 1 : i + 1 \in DOMAIN indexes
      BY <1>0
    <3> QED
      BY <3>1, <3>2 DEF OwnedInv
  <2>4. Owned(Merge(frame))
    BY <2>2 DEF OwnedInv, Owned, Merge, Stored, Listed
  <2> QED
    BY <2>1, <2>3, <2>4 DEF OwnedInv, Owned, OwnedBy
<1>5. ASSUME NEW added, NEW removed,
             remote_video_sources_' = Subscribed(added, removed),
             UNCHANGED <<stored, serverVars>>
      PROVE  OwnedInv'
  <2>1. ASSUME NEW m \in DOMAIN remote_video_sources_'
        PROVE  OwnedBy(remote_video_sources_'[m].stream, remote_video_sources_'[m].attendee)
    <3>1. CASE m \in DOMAIN remote_video_sources_
      BY <1>5, <2>1, <3>1 DEF Subscribed, OwnedInv
    <3>2. CASE m \notin DOMAIN remote_video_sources_
      <4>1. added[m] \in Stored
              /\ remote_video_sources_'[m] = [attendee |-> added[m], stream |-> stored[added[m]]]
        BY <1>5, <2>1, <3>2 DEF Subscribed
      <4> QED
        BY <4>1 DEF OwnedInv, Owned, Stored
    <3> QED
      BY <3>1, <3>2
  <2> QED
    BY <1>5, <2>1 DEF OwnedInv, Owned, OwnedBy, serverVars
<1>6. CASE App
  BY <1>5, <1>6 DEF App, AddSubscription, RemoveSubscription
<1>7. ASSUME NEW a \in Attendee, Publish(a)
      PROVE  OwnedInv'
  <2>1. UNCHANGED <<stored, remote_video_sources_, indexes>>
          /\ published' = Put(published, a, Len(owner) + 1)
    BY <1>7 DEF Publish, clientVars, mapVars
  <2>2. Owned(published)'
    <3>1. /\ DOMAIN published' = DOMAIN published \union {a}
          /\ published'[a] = Len(owner) + 1
          /\ \A b \in DOMAIN published : b # a => published'[b] = published[b]
      BY <2>1 DEF Put
    <3> QED
      BY <1>7, <3>1, OwnersStay DEF OwnedInv, Owned, OwnedBy
  <2> QED
    BY <1>7, <2>1, <2>2, OwnersStay DEF OwnedInv, Owned, OwnedBy
<1>8. ASSUME NEW a \in Attendee, Unpublish(a)
      PROVE  OwnedInv'
  <2>1. UNCHANGED <<stored, remote_video_sources_, indexes, owner>>
          /\ published' = Erase(published, {a})
    BY <1>8 DEF Unpublish, clientVars, mapVars
  <2>2. Owned(published')
    BY <2>1 DEF Erase, Restrict, OwnedInv, Owned
  <2> QED
    BY <2>1, <2>2 DEF OwnedInv, Owned, OwnedBy
<1>9. CASE SendsIndex
  <2>1. PICK frame \in {Index(published), AtCapacity} : indexes' = Append(indexes, frame)
    BY <1>9 DEF SendsIndex
  <2>2. Owned(frame.sources) /\ frame \in IndexFrame
    <3>1. CASE frame = Index(published)
      BY <3>1 DEF Index, OwnedInv, TypeOK
    <3>2. CASE frame = AtCapacity
      BY <1>0, <3>2, EmptyMapType DEF AtCapacity, Owned, Sources
    <3> QED
      BY <3>1, <3>2
  <2>3. /\ DOMAIN indexes' = 1 .. Len(indexes) + 1
        /\ \A i \in 1 .. Len(indexes) : indexes'[i] = indexes[i]
        /\ indexes'[Len(indexes) + 1] = frame
    BY <1>0, <2>1, <2>2, AppendProperties, LenProperties
  <2>4. \A i \in DOMAIN indexes' : Owned(indexes'[i].sources)
    BY <1>0, <2>2, <2>3 DEF OwnedInv
  <2> QED
    BY <1>9, <2>4 DEF SendsIndex, OwnedInv, Owned, OwnedBy, clientVars, mapVars
<1> QED
  BY <1>1, <1>2, <1>3, <1>4, <1>6, <1>7, <1>8, <1>9 DEF Next, Server, Signaling

\* In a clean session every mid that is subscribed was asked for, and has the
\* attendee it was last asked for, unless it was given to another without being
\* removed first.
WantedInv ==
  session \in {"joined", "leaving"} /\ ~carried =>
    \A m \in DOMAIN remote_video_sources_ :
      /\ m \in DOMAIN wanted
      /\ m \notin reused => remote_video_sources_[m].attendee = wanted[m]

LEMMA WantedInvStep ==
  WantedInv /\ [Next]_vars => WantedInv'
<1> SUFFICES ASSUME WantedInv, [Next]_vars,
                    session' \in {"joined", "leaving"}, ~carried'
             PROVE  WantedInv'
  BY DEF WantedInv
<1>1. CASE Joins
  BY <1>1, EmptyMapType DEF Joins, mapVars, WantedInv
<1>2. CASE SendLeave \/ HandleIndexFrame \/ Server \/ UNCHANGED vars
  <2>1. UNCHANGED <<remote_video_sources_, wanted, carried, reused>>
          /\ session \in {"joined", "leaving"}
    BY <1>2 DEF SendLeave, HandleIndexFrame, Server, Publish, Unpublish, SendsIndex, vars,
                clientVars, mapVars, appVars, historyVars
  <2> QED
    BY <2>1 DEF WantedInv
<1>3. ASSUME NEW m \in Mid, NEW a \in Attendee, AddSubscription(m, a)
      PROVE  WantedInv'
  <2>1. /\ session \in {"joined", "leaving"} /\ ~carried
        /\ reused' = IF m \in DOMAIN wanted /\ wanted[m] # a THEN reused \union {m}
                     ELSE reused
        /\ wanted' = Put(wanted, m, a)
        /\ remote_video_sources_' = Subscribed(Put(EmptyMap, m, a), {})
    BY <1>3 DEF AddSubscription
  <2>2. /\ DOMAIN wanted' = DOMAIN wanted \union {m} /\ wanted'[m] = a
        /\ \A k \in DOMAIN wanted : k \notin reused' => wanted'[k] = wanted[k]
        /\ reused \subseteq reused'
    BY <2>1 DEF Put
  <2>3. DOMAIN Put(EmptyMap, m, a) = {m} /\ Put(EmptyMap, m, a)[m] = a
    BY EmptyMapType DEF Put
  <2>4. ASSUME NEW k \in DOMAIN remote_video_sources_'
        PROVE  /\ k \in DOMAIN wanted'
               /\ k \notin reused' => remote_video_sources_'[k].attendee = wanted'[k]
    <3>1. CASE k \in DOMAIN remote_video_sources_
      <4>1. remote_video_sources_'[k] = remote_video_sources_[k]
        BY <2>1, <2>4, <3>1 DEF Subscribed
      <4> QED
        BY <2>1, <2>2, <3>1, <4>1 DEF WantedInv
    <3>2. CASE k \notin DOMAIN remote_video_sources_
      <4>1. k = m /\ remote_video_sources_'[k].attendee = a
        BY <2>1, <2>3, <2>4, <3>2 DEF Subscribed
      <4> QED
        BY <2>2, <4>1
    <3> QED
      BY <3>1, <3>2
  <2> QED
    BY <2>4 DEF WantedInv
<1>4. ASSUME NEW m \in Mid, RemoveSubscription(m)
      PROVE  WantedInv'
  <2>1. /\ session \in {"joined", "leaving"} /\ ~carried
        /\ wanted' = Erase(wanted, {m}) /\ reused' = reused \ {m}
        /\ remote_video_sources_' = Subscribed(EmptyMap, {m})
    BY <1>4 DEF RemoveSubscription
  <2>2. DOMAIN wanted' = DOMAIN wanted \ {m}
          /\ \A k \in DOMAIN wanted \ {m} : wanted'[k] = wanted[k]
    BY <2>1, EraseProperties
  <2>3. /\ DOMAIN remote_video_sources_' = DOMAIN remote_video_sources_ \ {m}
        /\ \A k \in DOMAIN remote_video_sources_ \ {m} :
             remote_video_sources_'[k] = remote_video_sources_[k]
    BY <2>1, EmptyMapType DEF Subscribed
  <2> QED
    BY <2>1, <2>2, <2>3 DEF WantedInv
<1>5. ~OnLeaveAck /\ ~OnSignalingErrorReceived /\ ~OnSignalingClosed
  BY DEF OnLeaveAck, OnSignalingErrorReceived, OnSignalingClosed
<1> QED
  BY <1>1, <1>2, <1>3, <1>4, <1>5 DEF Next, Signaling, App

\* What SUBSCRIBE reads: in a clean session the entry of every mid was asked for,
\* and its stream id is one that the attendee wanted at that mid has published.
EntriesWanted ==
  session = "joined" /\ ~carried =>
    \A m \in DOMAIN remote_video_sources_ :
      /\ m \in DOMAIN wanted
      /\ m \notin reused => OwnedBy(remote_video_sources_[m].stream, wanted[m])

\* However the application removes mids and gives them away again, and however
\* old the index it knows of, the client has no entry it was not asked for, and no
\* entry with a stream of somebody else; a mid given to another attendee without
\* being removed is the exception (default_signaling_client.cc,
\* UpdateRemoteVideoSubscriptions).
THEOREM EntriesWantedHolds == Spec => []EntriesWanted
<1>1. Init => OwnedInv /\ WantedInv
  BY EmptyMapType DEF Init, OwnedInv, Owned, WantedInv
<1>2. OwnedInv /\ WantedInv => EntriesWanted
  BY DEF OwnedInv, WantedInv, EntriesWanted
<1> QED
  BY <1>1, <1>2, TypeCorrect, OwnedInvStep, WantedInvStep, PTL DEF Spec
=============================================================================
