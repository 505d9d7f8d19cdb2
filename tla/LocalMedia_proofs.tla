--------------------------- MODULE LocalMedia_proofs ---------------------------
(***************************************************************************)
(* What LocalMedia says of every set of offers and every bound: types, that *)
(* the server learns whether the client is muted, that a SUBSCRIBE names no *)
(* stream of an earlier connection, and that client and server agree on    *)
(* the streams of the local media.                                         *)
(***************************************************************************)
EXTENDS LocalMedia, StdMap_proofs, SequenceTheorems, FiniteSetTheorems

-----------------------------------------------------------------------------
(* The places of a finite set of numbers: Rank counts them, Nth finds them.   *)

LEMMA RankProperties ==
  ASSUME NEW places \in SUBSET Nat, IsFiniteSet(places), NEW i \in places
  PROVE  /\ Rank(places, i) \in 1 .. Cardinality(places)
         /\ \A k \in places : i < k => Rank(places, i) < Rank(places, k)
<1> DEFINE Upto(k) == {j \in places : j <= k}
<1>1. /\ Cardinality(places) \in Nat
      /\ \A k : /\ IsFiniteSet(Upto(k)) /\ Cardinality(Upto(k)) \in Nat
                /\ Cardinality(Upto(k)) <= Cardinality(places)
  BY FS_Subset, FS_CardinalityType
<1>2. Cardinality(Upto(i)) # 0
  <2>1. i \in Upto(i)
    OBVIOUS
  <2> QED
    BY <1>1, <2>1, FS_EmptySet
<1>3. ASSUME NEW k \in places, i < k
      PROVE  Cardinality(Upto(i)) < Cardinality(Upto(k))
  <2>0. i \in Nat /\ k \in Nat
    OBVIOUS
  <2>1. Upto(i) \subseteq Upto(k)
    <3> SUFFICES ASSUME NEW j \in Upto(i)
                 PROVE  j \in Upto(k)
      OBVIOUS
    <3>1. j \in Nat /\ j \in places /\ j <= i
      OBVIOUS
    <3> QED
      BY <1>3, <2>0, <3>1
  <2>2. k \in Upto(k) /\ k \notin Upto(i)
    BY <1>3, <2>0
  <2> HIDE DEF Upto
  <2>3. /\ Cardinality(Upto(i)) <= Cardinality(Upto(k))
        /\ Cardinality(Upto(i)) # Cardinality(Upto(k))
    <3>1. Upto(i) \in SUBSET Upto(k)
      BY <2>1
    <3> QED
      BY <1>1, <2>2, <3>1, FS_Subset
  <2> QED
    BY <1>1, <2>3
<1> HIDE DEF Upto
<1>4. \A k : Rank(places, k) = Cardinality(Upto(k))
  BY DEF Rank, Upto
<1> QED
  BY <1>1, <1>2, <1>3, <1>4

\* Each rank is the rank of one place.
LEMMA NthProperties ==
  ASSUME NEW places \in SUBSET Nat, IsFiniteSet(places)
  PROVE  /\ Cardinality(places) \in Nat
         /\ \A k \in 1 .. Cardinality(places) : /\ Nth(places, k) \in places
                                                /\ Rank(places, Nth(places, k)) = k
         /\ \A i \in places : Nth(places, Rank(places, i)) = i
<1> DEFINE n == Cardinality(places)
           rank == [i \in places |-> Rank(places, i)]
<1>1. n \in Nat
  BY FS_CardinalityType
<1>2. /\ \A i \in places : Rank(places, i) \in 1 .. n
      /\ \A i, k \in places : i < k => Rank(places, i) < Rank(places, k)
  BY RankProperties
<1>3. \A i, k \in places : Rank(places, i) = Rank(places, k) => i = k
  <2> SUFFICES ASSUME NEW i \in places, NEW k \in places, Rank(places, i) = Rank(places, k)
               PROVE  i = k
    OBVIOUS
  <2>1. i \in Nat /\ k \in Nat /\ Rank(places, i) \in Nat
    BY <1>2
  <2>2. ~(i < k) /\ ~(k < i)
    BY <1>2, <2>1
  <2> QED
    BY <2>1, <2>2
<1>4. rank \in Injection(places, 1 .. n)
  BY <1>2, <1>3 DEF Injection, IsInjective
<1>5. IsFiniteSet(1 .. n) /\ Cardinality(1 .. n) = n
  BY <1>1, FS_Interval
<1>6. rank \in Surjection(places, 1 .. n)
  BY <1>4, <1>5, FS_Injection
<1>7. \A k \in 1 .. n : \E i \in places : Rank(places, i) = k
  BY <1>6 DEF Surjection
<1> HIDE DEF n, rank
<1>8. \A k \in 1 .. n : Nth(places, k) \in places /\ Rank(places, Nth(places, k)) = k
  BY <1>7 DEF Nth
<1>9. \A i \in places : Nth(places, Rank(places, i)) = i
  BY <1>2, <1>3, <1>8
<1> QED
  BY <1>1, <1>8, <1>9 DEF n

-----------------------------------------------------------------------------
(* An offer's sections, those that are local, and what SUBSCRIBE makes of them. *)

Places(sdp, mids) == {i \in DOMAIN ParseSDP(sdp) : ParseSDP(sdp)[i].mid \in mids}
LocalPlaces(sdp) == Places(sdp, LocalMids)

LEMMA OfferSections ==
  ASSUME NEW sdp \in Offers \union {<<>>}
  PROVE  /\ DOMAIN ParseSDP(sdp) \in SUBSET Nat /\ IsFiniteSet(DOMAIN ParseSDP(sdp))
         /\ LocalPlaces(sdp) \in SUBSET Nat /\ IsFiniteSet(LocalPlaces(sdp))
         /\ LocalPlaces(sdp) \subseteq DOMAIN ParseSDP(sdp)
         /\ \A i \in LocalPlaces(sdp) : ParseSDP(sdp)[i].mid \in LocalMids
<1>1. sdp \in Seq(Line)
  <2>1. Offers \subseteq Seq(Line)
    BY OffersAssumption, Zenon DEF OffersAssumption
  <2>2. <<>> \in Seq(Line)
    BY EmptySeq
  <2> QED
    BY <2>1, <2>2
<1>2. DOMAIN sdp = 1 .. Len(sdp) /\ Len(sdp) \in Nat
  BY <1>1
<1>3. DOMAIN ParseSDP(sdp) \subseteq DOMAIN sdp
  BY DEF ParseSDP
<1>4. DOMAIN ParseSDP(sdp) \in SUBSET (1 .. Len(sdp))
  BY <1>2, <1>3
<1>5. LocalPlaces(sdp) \in SUBSET (1 .. Len(sdp))
  BY <1>4 DEF LocalPlaces, Places
<1>6. IsFiniteSet(1 .. Len(sdp))
  BY <1>2, FS_Interval
<1>7. IsFiniteSet(DOMAIN ParseSDP(sdp)) /\ IsFiniteSet(LocalPlaces(sdp))
  BY <1>4, <1>5, <1>6, FS_Subset
<1>8. 1 .. Len(sdp) \subseteq Nat
  BY <1>2
<1> QED
  BY <1>4, <1>5, <1>7, <1>8 DEF LocalPlaces, Places

\* No section of one kind has a mid of the other, so a section is local for
\* SendSubscribe when it is for HandleSubAckFrame.
LEMMA SameSections ==
  ASSUME TypeOK, NEW sdp \in Offers
  PROVE  /\ {i \in DOMAIN ParseSDP(sdp) : IsLocalSection(ParseSDP(sdp)[i])}
              = LocalPlaces(sdp)
         /\ \A i, j \in DOMAIN ParseSDP(sdp) :
              ParseSDP(sdp)[j].mid = ParseSDP(sdp)[i].mid => j = i
<1>1. /\ DOMAIN local_audio_sources_ \subseteq AudioMid
      /\ DOMAIN local_video_sources_ \subseteq VideoMid
  BY MapElim DEF TypeOK
<1>2. \A i \in DOMAIN ParseSDP(sdp) :
        /\ ParseSDP(sdp)[i].mid \in AudioMid => ParseSDP(sdp)[i].media = "audio"
        /\ ParseSDP(sdp)[i].mid \in VideoMid => ParseSDP(sdp)[i].media = "video"
        /\ \A j \in DOMAIN ParseSDP(sdp) :
             ParseSDP(sdp)[j].mid = ParseSDP(sdp)[i].mid => j = i
  BY OffersAssumption DEF OffersAssumption
<1>3. \A i \in DOMAIN ParseSDP(sdp) :
        IsLocalSection(ParseSDP(sdp)[i]) <=> TakesAllocation(ParseSDP(sdp)[i])
  BY <1>1, <1>2 DEF IsLocalSection, TakesAllocation, LocalMids
<1> QED
  BY <1>2, <1>3 DEF LocalPlaces, Places, TakesAllocation

LEMMA StreamType ==
  ASSUME TypeOK, NEW mid \in LocalMids
  PROVE  mid \in Mids /\ Stream(mid) \in 0 .. MaxStream
<1>1. /\ DOMAIN local_audio_sources_ \subseteq AudioMid
      /\ DOMAIN local_video_sources_ \subseteq VideoMid
      /\ \A m \in DOMAIN local_audio_sources_ : local_audio_sources_[m] \in 0 .. MaxStream
      /\ \A m \in DOMAIN local_video_sources_ : local_video_sources_[m] \in 0 .. MaxStream
  BY MapElim DEF TypeOK
<1> QED
  BY <1>1 DEF LocalMids, Mids, Stream

\* The descriptors are those of the local sections, in their order, or none.
LEMMA SendProperties ==
  ASSUME TypeOK, sdp_ \in Offers
  PROVE  /\ SendStreams \in Seq([mid : Mids, stream : 0 .. MaxStream])
         /\ \A k \in DOMAIN SendStreams : /\ SendStreams[k].mid \in LocalMids
                                          /\ SendStreams[k].stream = Stream(SendStreams[k].mid)
         /\ SendStreams # <<>> =>
              /\ Len(SendStreams) = Cardinality(LocalPlaces(sdp_))
              /\ \A i \in LocalPlaces(sdp_) :
                   SendStreams[Rank(LocalPlaces(sdp_), i)].mid = ParseSDP(sdp_)[i].mid
<1> DEFINE sections == ParseSDP(sdp_)
           n == Cardinality(LocalPlaces(sdp_))
           D(k) == [mid |-> sections[Nth(LocalPlaces(sdp_), k)].mid,
                    stream |-> Stream(sections[Nth(LocalPlaces(sdp_), k)].mid)]
           all == [k \in 1 .. n |-> D(k)]
<1>1. SendStreams = <<>> \/ SendStreams = all
  BY SameSections DEF SendStreams
<1>2. /\ n \in Nat
      /\ \A k \in 1 .. n : Nth(LocalPlaces(sdp_), k) \in LocalPlaces(sdp_)
      /\ \A i \in LocalPlaces(sdp_) : Nth(LocalPlaces(sdp_), Rank(LocalPlaces(sdp_), i)) = i
      /\ \A i \in LocalPlaces(sdp_) : Rank(LocalPlaces(sdp_), i) \in 1 .. n
  BY OfferSections, NthProperties, RankProperties
<1>3. \A i \in LocalPlaces(sdp_) : sections[i].mid \in LocalMids
  BY OfferSections
<1>4. \A k \in 1 .. n : /\ D(k) \in [mid : Mids, stream : 0 .. MaxStream]
                        /\ D(k).mid \in LocalMids /\ D(k).stream = Stream(D(k).mid)
  <2> SUFFICES ASSUME NEW k \in 1 .. n
               PROVE  /\ D(k) \in [mid : Mids, stream : 0 .. MaxStream]
                      /\ D(k).mid \in LocalMids /\ D(k).stream = Stream(D(k).mid)
    OBVIOUS
  <2>1. PICK mid : mid = sections[Nth(LocalPlaces(sdp_), k)].mid
    OBVIOUS
  <2>2. mid \in LocalMids
    BY <1>2, <1>3, <2>1
  <2>3. mid \in Mids /\ Stream(mid) \in 0 .. MaxStream
    BY <2>2, StreamType
  <2>4. D(k) = [mid |-> mid, stream |-> Stream(mid)]
    BY <2>1
  <2> QED
    BY <2>2, <2>3, <2>4
<1>5. all \in Seq([mid : Mids, stream : 0 .. MaxStream]) /\ Len(all) = n
  <2> HIDE DEF D, n
  <2>1. all \in [1 .. n -> [mid : Mids, stream : 0 .. MaxStream]]
    BY <1>4
  <2> QED
    BY <1>2, <2>1
<1>6. \A i \in LocalPlaces(sdp_) : all[Rank(LocalPlaces(sdp_), i)].mid = sections[i].mid
  BY <1>2
<1>7. CASE SendStreams = <<>>
  BY <1>7
<1>8. CASE SendStreams = all
  <2>1. \A k \in DOMAIN all : all[k] = D(k) /\ k \in 1 .. n
    OBVIOUS
  <2> HIDE DEF all, D, n
  <2>2. \A k \in DOMAIN all : /\ all[k].mid \in LocalMids
                              /\ all[k].stream = Stream(all[k].mid)
    BY <1>4, <2>1
  <2>3. Len(all) = Cardinality(LocalPlaces(sdp_))
    BY <1>5 DEF n
  <2>4. \A i \in LocalPlaces(sdp_) :
          all[Rank(LocalPlaces(sdp_), i)].mid = ParseSDP(sdp_)[i].mid
    BY <1>6
  <2> QED
    BY <1>5, <1>8, <2>2, <2>3, <2>4, Zenon
<1> QED
  BY <1>1, <1>7, <1>8

LEMMA FrameTypes ==
  ASSUME NEW frame \in Frame
  PROVE  /\ IsSubscribe(frame) => frame \in SubscribeFrame
         /\ frame.type = "AUDIO_CONTROL" => frame \in ControlFrame
BY DEF IsSubscribe, Frame, ControlFrame, SubscribeFrame

\* What the server allocates for a SUBSCRIBE: new streams where the descriptor
\* names none, what it names where it does.
LEMMA AllocationProperties ==
  ASSUME TypeOK, NEW frame \in SubscribeFrame,
         streams + Cardinality(Nameless(frame.send)) <= MaxStream
  PROVE  /\ streams + Cardinality(Nameless(frame.send)) \in streams .. MaxStream
         /\ Allocations(frame.send) \in Seq(StreamId)
         /\ Len(Allocations(frame.send)) = Len(frame.send)
         /\ \A k \in DOMAIN frame.send :
              /\ k \in 1 .. Len(frame.send)
              /\ Allocations(frame.send)[k] = Allocation(frame.send, k)
              /\ Allocation(frame.send, k) \in StreamId
              /\ \/ Allocation(frame.send, k) > streams
                 \/ frame.send[k].stream # 0
                      /\ Allocation(frame.send, k) = frame.send[k].stream
<1> DEFINE send == frame.send
           new == Nameless(send)
           n == Len(send)
<1>1. send \in Seq([mid : Mids, stream : 0 .. MaxStream])
  BY DEF SubscribeFrame
<1>2. n \in Nat /\ DOMAIN send = 1 .. n /\ streams \in Nat /\ MaxStream \in Nat
  BY <1>1, MediaBoundsAssumption DEF TypeOK, MediaBoundsAssumption
<1>3. \A k \in 1 .. n : send[k].stream \in 0 .. MaxStream
  <2>1. \A k \in 1 .. n : send[k] \in [mid : Mids, stream : 0 .. MaxStream]
    BY <1>1, <1>2, ElementOfSeq
  <2> QED
    BY <2>1
<1>4. new \in SUBSET (1 .. n) /\ new \in SUBSET Nat
  BY <1>2 DEF Nameless
<1>5. IsFiniteSet(new) /\ Cardinality(new) \in Nat
  <2>1. IsFiniteSet(1 .. n)
    BY <1>2, FS_Interval
  <2> HIDE DEF new
  <2>2. IsFiniteSet(new)
    BY <1>4, <2>1, FS_Subset
  <2> QED
    BY <2>2, FS_CardinalityType
<1>6. \A k \in new : Rank(new, k) \in 1 .. Cardinality(new)
  BY <1>4, <1>5, RankProperties
<1>7. ASSUME NEW k \in 1 .. n
      PROVE  /\ Allocation(send, k) \in StreamId
             /\ \/ Allocation(send, k) > streams
                \/ send[k].stream # 0 /\ Allocation(send, k) = send[k].stream
  <2>1. CASE k \in new
    <3>1. Allocation(send, k) = streams + Rank(new, k)
      BY <2>1 DEF Allocation
    <3>2. Rank(new, k) \in 1 .. Cardinality(new)
      BY <1>6, <2>1
    <3> HIDE DEF new
    <3> QED
      BY <1>2, <1>5, <3>1, <3>2 DEF StreamId, new
  <2>2. CASE k \notin new
    <3>1. Allocation(send, k) = send[k].stream /\ send[k].stream # 0
      BY <1>2, <2>2 DEF Allocation, Nameless
    <3> QED
      BY <1>2, <1>3, <3>1 DEF StreamId
  <2> QED
    BY <2>1, <2>2
<1>8. Allocations(send) = [k \in 1 .. n |-> Allocation(send, k)]
  BY <1>2 DEF Allocations
<1>9. Allocations(send) \in Seq(StreamId) /\ Len(Allocations(send)) = n
  <2>1. Allocations(send) \in [1 .. n -> StreamId]
    BY <1>7, <1>8
  <2> QED
    BY <1>2, <2>1
<1> HIDE DEF new
<1> QED
  BY <1>2, <1>5, <1>7, <1>8, <1>9 DEF new

-----------------------------------------------------------------------------
(* The queue: frames are appended, and taken or lost from its head.           *)

\* The queue has one more frame, at its end.
Queued(frame) ==
  /\ Len(message_queue_') = Len(message_queue_) + 1
  /\ \A i \in 1 .. Len(message_queue_) : message_queue_'[i] = message_queue_[i]
  /\ message_queue_'[Len(message_queue_) + 1] = frame

\* The queue has lost its head.
Taken ==
  /\ Len(message_queue_) \in Nat \ {0}
  /\ Head(message_queue_) = message_queue_[1] /\ message_queue_[1] \in Frame
  /\ Len(message_queue_') = Len(message_queue_) - 1
  /\ \A i \in 1 .. Len(message_queue_') : message_queue_'[i] = message_queue_[i + 1]

LEMMA Appended ==
  ASSUME TypeOK, NEW frame \in Frame, message_queue_' = Append(message_queue_, frame)
  PROVE  message_queue_' \in Seq(Frame) /\ Queued(frame)
BY AppendProperties DEF TypeOK, Queued

LEMMA Sent ==
  ASSUME TypeOK, NEW frame \in Frame, Send(frame)
  PROVE  /\ message_queue_' \in Seq(Frame) /\ Queued(frame)
         /\ Len(message_queue_') <= MaxQueue + sessions
<1>1. message_queue_' \in Seq(Frame) /\ Queued(frame)
  BY Appended DEF Send
<1>2. /\ Len(message_queue_) + Len(acks) < MaxQueue
      /\ Len(message_queue_) \in Nat /\ Len(acks) \in Nat
      /\ MaxQueue \in Nat /\ sessions \in Nat
  BY MediaBoundsAssumption DEF Send, TypeOK, MediaBoundsAssumption
<1> QED
  BY <1>1, <1>2 DEF Queued

LEMMA Shortened ==
  ASSUME TypeOK, message_queue_ # <<>>, message_queue_' = Tail(message_queue_)
  PROVE  /\ message_queue_' \in Seq(Frame) /\ Taken
         /\ Len(message_queue_') <= MaxQueue + sessions
<1>1. message_queue_ \in Seq(Frame) /\ Len(message_queue_) <= MaxQueue + sessions
  BY DEF TypeOK
<1>2. MaxQueue \in Nat /\ sessions \in Nat
  BY MediaBoundsAssumption DEF TypeOK, MediaBoundsAssumption
<1> QED
  BY <1>1, <1>2, HeadTailProperties, EmptySeq DEF Taken

LEMMA Lost ==
  ASSUME TypeOK, NEW written \in 0 .. Len(message_queue_),
         message_queue_' = SubSeq(message_queue_, written + 1, Len(message_queue_))
  PROVE  /\ message_queue_' \in Seq(Frame)
         /\ Len(message_queue_') <= MaxQueue + sessions
<1> DEFINE n == Len(message_queue_)
<1>1. /\ message_queue_ \in Seq(Frame) /\ n \in Nat /\ n <= MaxQueue + sessions
      /\ MaxQueue \in Nat /\ sessions \in Nat
  BY MediaBoundsAssumption DEF TypeOK, MediaBoundsAssumption
<1>2. \A i \in written + 1 .. n : message_queue_[i] \in Frame
  BY <1>1
<1>3. /\ SubSeq(message_queue_, written + 1, n) \in Seq(Frame)
      /\ Len(SubSeq(message_queue_, written + 1, n))
           = IF written + 1 <= n THEN n - (written + 1) + 1 ELSE 0
  BY <1>1, <1>2, SubSeqProperties
<1> QED
  BY <1>1, <1>3

\* Frames as the client sends them.
LEMMA SentFrames ==
  ASSUME TypeOK
  PROVE  /\ [type |-> "JOIN"] \in Frame /\ [type |-> "LEAVE"] \in Frame
         /\ \A mute \in BOOLEAN : [type |-> "AUDIO_CONTROL", muted |-> mute] \in Frame
         /\ sdp_ # <<>> => Subscribe \in SubscribeFrame /\ Subscribe \in Frame
<1>1. /\ [type |-> "JOIN"] \in Frame /\ [type |-> "LEAVE"] \in Frame
      /\ \A mute \in BOOLEAN : [type |-> "AUDIO_CONTROL", muted |-> mute] \in Frame
  BY DEF Frame, ControlFrame
<1>2. ASSUME sdp_ # <<>>
      PROVE  Subscribe \in SubscribeFrame
  <2>1. sdp_ \in Offers /\ is_muted_ \in BOOLEAN
    BY <1>2 DEF TypeOK
  <2>2. SendStreams \in Seq([mid : Mids, stream : 0 .. MaxStream])
    BY <2>1, SendProperties
  <2> QED
    BY <2>1, <2>2 DEF Subscribe, SubscribeFrame
<1> QED
  BY <1>1, <1>2 DEF Frame

-----------------------------------------------------------------------------
(* Type correctness. *)

\* What the server has granted after it accepts a SUBSCRIBE.
LEMMA GrantedProperties ==
  ASSUME TypeOK, NEW frame \in SubscribeFrame, Accepts(frame)
  PROVE  /\ granted' \in Map(Mids, StreamId)
         /\ DOMAIN granted' = DOMAIN granted \union NamedBy(frame.send)
         /\ \A m \in NamedBy(frame.send) :
              /\ DescriptorOf(frame.send, m) \in DOMAIN frame.send
              /\ frame.send[DescriptorOf(frame.send, m)].mid = m
              /\ granted'[m] = Allocation(frame.send, DescriptorOf(frame.send, m))
         /\ \A m \in DOMAIN granted \ NamedBy(frame.send) : granted'[m] = granted[m]
<1> DEFINE named == NamedBy(frame.send)
           D == DOMAIN granted \union named
<1>1. \A m \in named : /\ DescriptorOf(frame.send, m) \in DOMAIN frame.send
                       /\ frame.send[DescriptorOf(frame.send, m)].mid = m
  BY DEF NamedBy, DescriptorOf
<1>2. \A k \in DOMAIN frame.send : Allocation(frame.send, k) \in StreamId
  BY AllocationProperties DEF Accepts
<1>3. named \subseteq Mids
  <2>1. frame.send \in Seq([mid : Mids, stream : 0 .. MaxStream])
    BY DEF SubscribeFrame
  <2>2. \A k \in DOMAIN frame.send : frame.send[k] \in [mid : Mids, stream : 0 .. MaxStream]
    BY <2>1, LenProperties, ElementOfSeq
  <2>3. \A k \in DOMAIN frame.send : frame.send[k].mid \in Mids
    <3> SUFFICES ASSUME NEW k \in DOMAIN frame.send
                 PROVE  frame.send[k].mid \in Mids
      OBVIOUS
    <3>1. PICK d : d = frame.send[k]
      OBVIOUS
    <3>2. d \in [mid : Mids, stream : 0 .. MaxStream]
      BY <2>2, <3>1
    <3>3. d.mid \in Mids
      BY <3>2
    <3> QED
      BY <3>1, <3>3
  <2> QED
    BY <2>3 DEF NamedBy
<1>4. DOMAIN granted \subseteq Mids /\ \A m \in DOMAIN granted : granted[m] \in StreamId
  BY MapElim DEF TypeOK
<1>5. granted' = [m \in D |-> IF m \in named
                              THEN Allocation(frame.send, DescriptorOf(frame.send, m))
                              ELSE granted[m]]
  BY DEF Accepts
<1> HIDE DEF named
<1>6. granted' \in [D -> StreamId] /\ D \in SUBSET Mids
  BY <1>1, <1>2, <1>3, <1>4, <1>5
<1>7. granted' \in Map(Mids, StreamId)
  BY <1>6, MapIntro
<1> QED
  BY <1>1, <1>5, <1>7 DEF named

\* A SUBSCRIBE_ACK gives m a stream when a section for m takes an allocation.
Gives(ack, m, mids) ==
  \E i \in Places(ack.answer, mids) :
    /\ ParseSDP(ack.answer)[i].mid = m
    /\ Rank(Places(ack.answer, mids), i) <= Len(ack.allocations)

Given(ack, m, mids) ==
  ack.allocations[Rank(Places(ack.answer, mids),
                       CHOOSE i \in Places(ack.answer, mids) :
                         ParseSDP(ack.answer)[i].mid = m)]

LEMMA AssignedProperties ==
  ASSUME TypeOK, acks # <<>>, Head(acks).answer # <<>>, NEW map
  PROVE  /\ Head(acks) \in SubscribeAck
         /\ Assigned(map, Head(acks))
              = [m \in DOMAIN map |-> IF Gives(Head(acks), m, LocalMids)
                                      THEN Given(Head(acks), m, LocalMids) ELSE map[m]]
         /\ \A m : Gives(Head(acks), m, LocalMids) =>
              \E k \in 1 .. Len(Head(acks).allocations) :
                Given(Head(acks), m, LocalMids) = Head(acks).allocations[k]
<1>0. PICK ack : ack = Head(acks)
  OBVIOUS
<1>1. PICK sections : sections = ParseSDP(ack.answer)
  OBVIOUS
<1>2. PICK locals : locals = LocalPlaces(ack.answer)
  OBVIOUS
<1> DEFINE Takes(i, m) == sections[i].mid = m /\ Rank(locals, i) <= Len(ack.allocations)
<1>3. ack \in SubscribeAck
  BY <1>0, HeadTailProperties DEF TypeOK
<1>4. ack.answer \in Offers /\ ack.allocations \in Seq(StreamId)
  BY <1>0, <1>3 DEF SubscribeAck
<1>5. /\ \A i \in locals : i \in DOMAIN sections /\ Rank(locals, i) \in Nat \ {0}
      /\ \A i, j \in DOMAIN sections : sections[j].mid = sections[i].mid => j = i
  BY <1>1, <1>2, <1>4, OfferSections, RankProperties, SameSections
<1>6. locals = {i \in DOMAIN sections : TakesAllocation(sections[i])}
  BY <1>1, <1>2 DEF LocalPlaces, Places, TakesAllocation
<1>7. Assigned(map, ack)
        = [m \in DOMAIN map |-> IF \E i \in locals : Takes(i, m)
                                THEN ack.allocations[Rank(locals, CHOOSE i \in locals : Takes(i, m))]
                                ELSE map[m]]
  BY <1>1, <1>6, Zenon DEF Assigned
<1>8. \A m : Gives(ack, m, LocalMids) <=> \E i \in locals : Takes(i, m)
  BY <1>1, <1>2, Zenon DEF Gives, LocalPlaces
<1>9. \A m : Given(ack, m, LocalMids)
               = ack.allocations[Rank(locals, CHOOSE i \in locals : sections[i].mid = m)]
  BY <1>1, <1>2, Zenon DEF Given, LocalPlaces
<1>10. ASSUME NEW m, \E i \in locals : Takes(i, m)
       PROVE  /\ (CHOOSE i \in locals : Takes(i, m)) = CHOOSE i \in locals : sections[i].mid = m
              /\ \E k \in 1 .. Len(ack.allocations) :
                   Given(ack, m, LocalMids) = ack.allocations[k]
  <2>1. PICK i \in locals : Takes(i, m)
    BY <1>10
  <2>2. PICK j : j = CHOOSE x \in locals : Takes(x, m)
    OBVIOUS
  <2>3. PICK l : l = CHOOSE x \in locals : sections[x].mid = m
    OBVIOUS
  <2>4. j \in locals /\ Takes(j, m)
    BY <2>1, <2>2
  <2>5. l \in locals /\ sections[l].mid = m
    BY <2>1, <2>3
  <2>6. j = l
    BY <1>5, <2>4, <2>5
  <2>7. Len(ack.allocations) \in Nat
    BY <1>4
  <2>8. Rank(locals, l) \in 1 .. Len(ack.allocations)
    BY <1>5, <2>4, <2>6, <2>7
  <2> QED
    BY <1>9, <2>2, <2>3, <2>6, <2>8
<1> HIDE DEF Takes
<1>11. Assigned(map, ack)
         = [m \in DOMAIN map |-> IF Gives(ack, m, LocalMids) THEN Given(ack, m, LocalMids)
                                 ELSE map[m]]
  <2>1. \A m : Gives(ack, m, LocalMids) =>
          Given(ack, m, LocalMids)
            = ack.allocations[Rank(locals, CHOOSE i \in locals : Takes(i, m))]
    <3> SUFFICES ASSUME NEW m, \E i \in locals : Takes(i, m)
                 PROVE  Given(ack, m, LocalMids)
                          = ack.allocations[Rank(locals, CHOOSE i \in locals : Takes(i, m))]
      BY <1>8
    <3>1. (CHOOSE i \in locals : Takes(i, m)) = CHOOSE i \in locals : sections[i].mid = m
      BY <1>10
    <3>2. PICK c : c = CHOOSE i \in locals : Takes(i, m)
      OBVIOUS
    <3>3. c = CHOOSE i \in locals : sections[i].mid = m
      BY <3>1, <3>2
    <3>4. Given(ack, m, LocalMids) = ack.allocations[Rank(locals, c)]
      BY <1>9, <3>3
    <3> QED
      BY <3>2, <3>4
  <2> QED
    BY <1>7, <1>8, <2>1
<1> QED
  BY <1>0, <1>3, <1>8, <1>10, <1>11

LEMMA AssignedType ==
  ASSUME TypeOK, acks # <<>>, Head(acks).answer # <<>>,
         NEW K, NEW map \in Map(K, 0 .. MaxStream)
  PROVE  /\ Assigned(map, Head(acks)) \in Map(K, 0 .. MaxStream)
         /\ DOMAIN Assigned(map, Head(acks)) = DOMAIN map
<1>0. PICK ack : ack = Head(acks)
  OBVIOUS
<1>1. /\ ack \in SubscribeAck
      /\ Assigned(map, ack)
           = [m \in DOMAIN map |-> IF Gives(ack, m, LocalMids) THEN Given(ack, m, LocalMids)
                                   ELSE map[m]]
      /\ \A m : Gives(ack, m, LocalMids) =>
           \E k \in 1 .. Len(ack.allocations) : Given(ack, m, LocalMids) = ack.allocations[k]
  BY <1>0, AssignedProperties
<1>2. ack.allocations \in Seq(StreamId)
  BY <1>1 DEF SubscribeAck
<1>3. \A k \in 1 .. Len(ack.allocations) : ack.allocations[k] \in 0 .. MaxStream
  BY <1>2, MediaBoundsAssumption DEF StreamId, MediaBoundsAssumption
<1>4. DOMAIN map \in SUBSET K /\ \A m \in DOMAIN map : map[m] \in 0 .. MaxStream
  BY MapElim
<1>5. \A m : Gives(ack, m, LocalMids) => Given(ack, m, LocalMids) \in 0 .. MaxStream
  BY <1>1, <1>3
<1>6. Assigned(map, ack) \in [DOMAIN map -> 0 .. MaxStream]
  BY <1>1, <1>4, <1>5
<1> QED
  BY <1>0, <1>4, <1>6, MapIntro

LEMMA TypeStep == TypeOK /\ [Next]_vars => TypeOK'
<1> SUFFICES ASSUME TypeOK, [Next]_vars
             PROVE  TypeOK'
  OBVIOUS
<1>1. ASSUME NEW sdp \in Offers, SetLocalDescription(sdp)
      PROVE  TypeOK'
  BY <1>1 DEF TypeOK, SetLocalDescription, localVars, serverVars, historyVars
<1>2. CASE SendUpdates
  <2>1. /\ message_queue_' \in Seq(Frame)
        /\ Len(message_queue_') <= MaxQueue + sessions
    BY <1>2, Sent, SentFrames DEF SendUpdates
  <2> QED
    BY <1>2, <2>1 DEF TypeOK, SendUpdates, localVars, serverVars, historyVars
<1>3. CASE Stop
  <2>1. /\ message_queue_' \in Seq(Frame)
        /\ Len(message_queue_') <= MaxQueue + sessions
    BY <1>3, Sent, SentFrames DEF Stop
  <2> QED
    BY <1>3, <2>1 DEF TypeOK, Stop, localVars, serverVars, historyVars
<1>4. changed' = (changed \/ Unanswered) => changed' \in BOOLEAN
  OBVIOUS
<1>5. ASSUME NEW mid \in VideoMid, UpdateLocalVideo(mid)
      PROVE  TypeOK'
  <2>1. local_video_sources_' \in Map(VideoMid, 0 .. MaxStream)
    <3>1. 0 \in 0 .. MaxStream
      BY MediaBoundsAssumption DEF MediaBoundsAssumption
    <3> QED
      BY <1>5, <3>1, PutType DEF UpdateLocalVideo, TypeOK
  <2> QED
    BY <1>4, <1>5, <2>1 DEF TypeOK, UpdateLocalVideo, LocalChange, serverVars
<1>6. ASSUME NEW mid \in VideoMid, RemoveLocalVideo(mid)
      PROVE  TypeOK'
  <2>1. /\ local_video_sources_' \in Map(VideoMid, 0 .. MaxStream)
        /\ granted' \in Map(Mids, StreamId)
    BY <1>6, EraseType DEF RemoveLocalVideo, TypeOK
  <2> QED
    BY <1>4, <1>6, <2>1 DEF TypeOK, RemoveLocalVideo, LocalChange, serverVars
<1>7. ASSUME NEW mid \in AudioMid, NEW mute \in BOOLEAN, UpdateLocalAudio(mid, mute)
      PROVE  TypeOK'
  <2>1. local_audio_sources_' \in Map(AudioMid, 0 .. MaxStream) /\ changed' \in BOOLEAN
    <3>1. 0 \in 0 .. MaxStream
      BY MediaBoundsAssumption DEF MediaBoundsAssumption
    <3>2. CASE mid \in DOMAIN local_audio_sources_
      BY <1>7, <3>2 DEF UpdateLocalAudio, TypeOK
    <3>3. CASE mid \notin DOMAIN local_audio_sources_
      <4>1. /\ local_audio_sources_' = Put(local_audio_sources_, mid, 0)
            /\ changed' = (changed \/ Unanswered)
        BY <1>7, <3>3 DEF UpdateLocalAudio, LocalChange
      <4>2. Put(local_audio_sources_, mid, 0) \in Map(AudioMid, 0 .. MaxStream)
        BY <3>1, PutType DEF TypeOK
      <4> QED
        BY <1>4, <4>1, <4>2
    <3> QED
      BY <3>2, <3>3
  <2>2. /\ message_queue_' \in Seq(Frame)
        /\ Len(message_queue_') <= MaxQueue + sessions
    <3>1. CASE message_queue_' = message_queue_
      BY <3>1 DEF TypeOK
    <3>2. CASE Send([type |-> "AUDIO_CONTROL", muted |-> mute])
      BY <3>2, Sent, SentFrames
    <3> QED
      BY <1>7, <3>1, <3>2 DEF UpdateLocalAudio, SetMute
  <2>3. is_muted_' = mute /\ wish' = mute
    BY <1>7 DEF UpdateLocalAudio, SetMute
  <2> QED
    BY <1>7, <2>1, <2>2, <2>3 DEF TypeOK, UpdateLocalAudio, serverVars
<1>8. ASSUME NEW mid \in AudioMid, RemoveLocalAudio(mid)
      PROVE  TypeOK'
  <2>1. /\ local_audio_sources_' \in Map(AudioMid, 0 .. MaxStream)
        /\ granted' \in Map(Mids, StreamId)
    BY <1>8, EraseType DEF RemoveLocalAudio, TypeOK
  <2> QED
    BY <1>4, <1>8, <2>1 DEF TypeOK, RemoveLocalAudio, LocalChange, serverVars
<1>9. CASE OnSignalingConnected
  <2>1. /\ message_queue_' \in Seq(Frame)
        /\ Len(message_queue_') = Len(message_queue_) + 1
    BY <1>9, Appended, SentFrames DEF OnSignalingConnected, Queued
  <2>2. /\ sessions' = sessions + 1 /\ sessions' \in 0 .. MaxSessions
        /\ Len(message_queue_') <= MaxQueue + sessions'
    <3>1. /\ sessions \in Nat /\ MaxSessions \in Nat /\ MaxQueue \in Nat
          /\ sessions < MaxSessions /\ sessions' = sessions + 1
          /\ Len(message_queue_) \in Nat /\ Len(message_queue_) <= MaxQueue + sessions
      BY <1>9, MediaBoundsAssumption
      DEF OnSignalingConnected, TypeOK, MediaBoundsAssumption
    <3> QED
      BY <2>1, <3>1
  <2> QED
    BY <1>9, <2>1, <2>2 DEF TypeOK, OnSignalingConnected, localVars, serverVars
<1>10. ASSUME ServerForgets, UNCHANGED streams
       PROVE  /\ joined' \in BOOLEAN /\ muted' \in BOOLEAN /\ subscribed' \in BOOLEAN
              /\ acks' \in Seq(SubscribeAck)
              /\ streams' \in 0 .. MaxStream /\ before' \in 0 .. streams'
              /\ granted' \in Map(Mids, StreamId) /\ changed' \in BOOLEAN
  <2>1. granted' \in Map(Mids, StreamId)
    BY <1>10, EmptyMapType DEF ServerForgets
  <2>2. streams' = streams /\ before' = streams /\ streams \in 0 .. MaxStream
    BY <1>10 DEF ServerForgets, TypeOK
  <2>3. streams \in 0 .. streams
    BY <2>2
  <2>4. acks' \in Seq(SubscribeAck)
    BY <1>10, EmptySeq DEF ServerForgets
  <2> QED
    BY <1>10, <2>1, <2>2, <2>3, <2>4 DEF ServerForgets
<1>11. ASSUME Close
       PROVE  /\ local_audio_sources_' \in Map(AudioMid, 0 .. MaxStream)
              /\ local_video_sources_' \in Map(VideoMid, 0 .. MaxStream)
  BY <1>11, EmptyMapType DEF Close
<1>12. CASE OnLeaveAck
  <2>1. /\ message_queue_' \in Seq(Frame)
        /\ Len(message_queue_') <= MaxQueue + sessions
    BY <1>12, Shortened DEF OnLeaveAck
  <2> QED
    BY <1>11, <1>12, <2>1 DEF TypeOK, OnLeaveAck, serverVars, historyVars
<1>13. CASE OnSignalingErrorReceived
  <2>1. /\ message_queue_' \in Seq(Frame)
        /\ Len(message_queue_') <= MaxQueue + sessions
    BY <1>13, Shortened DEF OnSignalingErrorReceived
  <2>2. ServerForgets /\ UNCHANGED streams
    BY <1>13 DEF OnSignalingErrorReceived, ServerForgets
  <2> QED
    BY <1>10, <1>13, <2>1, <2>2 DEF TypeOK, OnSignalingErrorReceived, localVars
<1>14. CASE OnSignalingClosed
  <2>1. /\ message_queue_' \in Seq(Frame)
        /\ Len(message_queue_') <= MaxQueue + sessions
    BY <1>14, Lost DEF OnSignalingClosed
  <2>2. ServerForgets /\ UNCHANGED streams
    BY <1>14 DEF OnSignalingClosed, ServerForgets
  <2> QED
    BY <1>10, <1>14, <2>1, <2>2 DEF TypeOK, OnSignalingClosed, localVars
<1>15. CASE HandleSubAckFrame
  <2>1. acks' \in Seq(SubscribeAck)
    BY <1>15, HeadTailProperties DEF HandleSubAckFrame, TypeOK
  <2>2. /\ local_audio_sources_' \in Map(AudioMid, 0 .. MaxStream)
        /\ local_video_sources_' \in Map(VideoMid, 0 .. MaxStream)
    BY <1>15, AssignedType DEF HandleSubAckFrame, TypeOK, localVars
  <2> QED
    BY <1>15, <2>1, <2>2 DEF TypeOK, HandleSubAckFrame, historyVars
<1>16. CASE ServerReceives
  <2>1. /\ message_queue_' \in Seq(Frame) /\ Taken
        /\ Len(message_queue_') <= MaxQueue + sessions
    BY <1>16, Shortened DEF ServerReceives
  <2>2. PICK frame : frame = Head(message_queue_)
    OBVIOUS
  <2>3. frame \in Frame
    BY <2>1, <2>2 DEF Taken
  <2>4. /\ joined' \in BOOLEAN /\ muted' \in BOOLEAN /\ subscribed' \in BOOLEAN
        /\ acks' \in Seq(SubscribeAck)
        /\ streams' \in 0 .. MaxStream /\ before' \in 0 .. streams'
        /\ granted' \in Map(Mids, StreamId)
    <3>0. before' = before
      BY <1>16 DEF ServerReceives
    <3>1. CASE Joins(frame) \/ Ignores(frame)
      BY <3>0, <3>1 DEF Joins, Ignores, TypeOK
    <3>2. CASE Hears(frame)
      <4>1. frame.muted \in BOOLEAN
        BY <2>3, <3>2, FrameTypes DEF Hears, ControlFrame
      <4> QED
        BY <3>0, <3>2, <4>1 DEF Hears, TypeOK
    <3>3. CASE Refuses(frame)
      <4>1. [answer |-> <<>>, allocations |-> <<>>] \in SubscribeAck
        BY EmptySeq DEF SubscribeAck
      <4>2. acks' \in Seq(SubscribeAck)
        BY <3>3, <4>1, AppendProperties DEF Refuses, TypeOK
      <4> QED
        BY <3>0, <3>3, <4>2 DEF Refuses, TypeOK
    <3>4. CASE Accepts(frame)
      <4>1. frame \in SubscribeFrame
        BY <2>3, <3>4, FrameTypes DEF Accepts
      <4>2. /\ streams' \in streams .. MaxStream
            /\ Allocations(frame.send) \in Seq(StreamId)
        BY <3>4, <4>1, AllocationProperties DEF Accepts
      <4>3. frame.offer \in Offers /\ frame.audio_muted \in BOOLEAN
        BY <4>1 DEF SubscribeFrame
      <4>4. [answer |-> frame.offer, allocations |-> Allocations(frame.send)] \in SubscribeAck
        BY <4>2, <4>3 DEF SubscribeAck
      <4>5. acks' \in Seq(SubscribeAck)
        BY <3>4, <4>4, AppendProperties DEF Accepts, TypeOK
      <4>6. streams' \in 0 .. MaxStream /\ before \in 0 .. streams'
        BY <4>2, MediaBoundsAssumption DEF TypeOK, MediaBoundsAssumption
      <4>7. granted' \in Map(Mids, StreamId)
        BY <3>4, <4>1, GrantedProperties
      <4>8. muted' \in BOOLEAN /\ subscribed' \in BOOLEAN /\ joined' \in BOOLEAN
        BY <3>4, <4>3 DEF Accepts, TypeOK
      <4> QED
        BY <3>0, <4>5, <4>6, <4>7, <4>8
    <3> QED
      BY <1>16, <2>2, <3>1, <3>2, <3>3, <3>4 DEF ServerReceives
  <2> QED
    BY <1>16, <2>1, <2>4 DEF TypeOK, ServerReceives, localVars
<1>17. CASE UNCHANGED vars
  BY <1>17 DEF TypeOK, vars, localVars, serverVars, historyVars
<1> QED
  BY <1>1, <1>2, <1>3, <1>5, <1>6, <1>7, <1>8, <1>9, <1>12, <1>13, <1>14, <1>15, <1>16, <1>17
  DEF Next, App, Signaling

LEMMA TypeInit == Init => TypeOK
<1> SUFFICES ASSUME Init
             PROVE  TypeOK
  OBVIOUS
<1>1. /\ EmptyMap \in Map(AudioMid, 0 .. MaxStream)
      /\ EmptyMap \in Map(VideoMid, 0 .. MaxStream)
      /\ EmptyMap \in Map(Mids, StreamId)
  BY EmptyMapType
<1>2. 0 \in 0 .. MaxStream /\ 0 \in 0 .. 0 /\ 0 \in 0 .. MaxSessions /\ 0 <= MaxQueue + 0
  BY MediaBoundsAssumption DEF MediaBoundsAssumption
<1>3. Len(<<>>) = 0 /\ <<>> \in Seq(Frame) /\ <<>> \in Seq(SubscribeAck)
  BY EmptySeq
<1> QED
  BY <1>1, <1>2, <1>3 DEF Init, TypeOK

\* Whatever the offers, the mids and the bounds, the maps hold streams of the
\* mids they are about, and the queue never outgrows its bound by more than the
\* JOINs.
THEOREM TypeCorrect == Spec => []TypeOK
<1>1. Init => TypeOK
  BY TypeInit
<1>2. TypeOK /\ [Next]_vars => TypeOK'
  BY TypeStep
<1> QED
  BY <1>1, <1>2, PTL DEF Spec

-----------------------------------------------------------------------------
(* What is left of a connection once it is lost: nothing of it is on its way  *)
(* back, and the next one begins with a server that knows nothing.            *)

SessionInv ==
  /\ ~Open => acks = <<>>
  /\ session \in {"off", "failed"} => /\ ~joined /\ ~muted /\ ~subscribed
                                      /\ DOMAIN granted = {} /\ before = streams

LEMMA SessionStep == TypeOK /\ SessionInv /\ [Next]_vars => SessionInv'
<1> SUFFICES ASSUME TypeOK, SessionInv, [Next]_vars
             PROVE  SessionInv'
  OBVIOUS
<1>1. ASSUME NEW sdp \in Offers, SetLocalDescription(sdp)
      PROVE  SessionInv'
  BY <1>1 DEF SessionInv, Open, SetLocalDescription, serverVars, historyVars
<1>2. CASE SendUpdates \/ Stop
  BY <1>2 DEF SessionInv, Open, SendUpdates, Stop, serverVars, historyVars
<1>3. ASSUME NEW mid \in VideoMid, UpdateLocalVideo(mid)
      PROVE  SessionInv'
  BY <1>3 DEF SessionInv, Open, UpdateLocalVideo, serverVars
<1>4. ASSUME NEW mid \in VideoMid, RemoveLocalVideo(mid)
      PROVE  SessionInv'
  BY <1>4 DEF SessionInv, Open, RemoveLocalVideo, serverVars, Erase, Restrict
<1>5. ASSUME NEW mid \in AudioMid, NEW mute \in BOOLEAN, UpdateLocalAudio(mid, mute)
      PROVE  SessionInv'
  BY <1>5 DEF SessionInv, Open, UpdateLocalAudio, serverVars
<1>6. ASSUME NEW mid \in AudioMid, RemoveLocalAudio(mid)
      PROVE  SessionInv'
  BY <1>6 DEF SessionInv, Open, RemoveLocalAudio, serverVars, Erase, Restrict
<1>7. CASE OnSignalingConnected
  BY <1>7 DEF SessionInv, Open, OnSignalingConnected, serverVars
<1>8. CASE OnLeaveAck
  BY <1>8 DEF SessionInv, Open, OnLeaveAck, serverVars, historyVars
<1>9. CASE OnSignalingErrorReceived \/ OnSignalingClosed
  <2>1. DOMAIN EmptyMap = {}
    BY EmptyMapType
  <2>2. ServerForgets
    BY <1>9 DEF OnSignalingErrorReceived, OnSignalingClosed
  <2> QED
    BY <2>1, <2>2 DEF SessionInv, ServerForgets
<1>10. CASE HandleSubAckFrame \/ ServerReceives
  BY <1>10 DEF SessionInv, Open, HandleSubAckFrame, ServerReceives
<1>11. CASE UNCHANGED vars
  BY <1>11 DEF SessionInv, Open, vars, serverVars, historyVars
<1> QED
  BY <1>1, <1>2, <1>3, <1>4, <1>5, <1>6, <1>7, <1>8, <1>9, <1>10, <1>11
  DEF Next, App, Signaling

-----------------------------------------------------------------------------
(* The server learns whether the client is muted.  The queue tells it: by its *)
(* last AUDIO_CONTROL and every SUBSCRIBE after that; or, when there is none,  *)
(* by what it told before and every SUBSCRIBE.                                *)

IsControl(frame) == frame.type = "AUDIO_CONTROL"

TellsMute(frame, mute) ==
  /\ IsControl(frame) => frame.muted = mute
  /\ IsSubscribe(frame) => frame.audio_muted = mute

\* The frames from the i-th on tell it.
TellFrom(queue, i, mute) == \A j \in 1 .. Len(queue) : i <= j => TellsMute(queue[j], mute)

ControlComes(queue, mute) ==
  \E i \in 1 .. Len(queue) : IsControl(queue[i]) /\ TellFrom(queue, i, mute)

NoControl(queue, mute) ==
  /\ \A i \in 1 .. Len(queue) : ~IsControl(queue[i])
  /\ TellFrom(queue, 1, mute)

MuteComes ==
  \/ ControlComes(message_queue_, is_muted_)
  \/ /\ NoControl(message_queue_, is_muted_)
     /\ subscribed => muted = is_muted_
     /\ muted => is_muted_

JoinComes == joined \/ (message_queue_ # <<>> /\ Head(message_queue_).type = "JOIN")

MuteInv ==
  /\ wish = is_muted_
  /\ session = "connected" /\ ~leftover => JoinComes /\ MuteComes

\* A frame that tells it is appended, or an AUDIO_CONTROL whatever there was.
LEMMA AppendTells ==
  ASSUME NEW queue \in Seq(Frame), NEW frame \in Frame, NEW mute, TellsMute(frame, mute)
  PROVE  /\ ControlComes(queue, mute) => ControlComes(Append(queue, frame), mute)
         /\ NoControl(queue, mute) /\ ~IsControl(frame)
              => NoControl(Append(queue, frame), mute)
         /\ IsControl(frame) => ControlComes(Append(queue, frame), mute)
<1> DEFINE n == Len(queue)
<1>0. PICK after : after = Append(queue, frame)
  OBVIOUS
<1>1. /\ n \in Nat /\ Len(after) = n + 1
      /\ \A i \in 1 .. n : after[i] = queue[i]
      /\ after[n + 1] = frame
  BY <1>0, AppendProperties
<1>2. \A j \in 1 .. n + 1 : j \in 1 .. n \/ j = n + 1
  BY <1>1
<1>3. \A i \in 1 .. n : TellFrom(queue, i, mute) => TellFrom(after, i, mute)
  BY <1>1, <1>2 DEF TellFrom
<1>4. ControlComes(queue, mute) => ControlComes(after, mute)
  BY <1>1, <1>3 DEF ControlComes
<1>5. TellFrom(queue, 1, mute) => TellFrom(after, 1, mute)
  BY <1>1, <1>2 DEF TellFrom
<1>6. NoControl(queue, mute) /\ ~IsControl(frame) => NoControl(after, mute)
  BY <1>1, <1>2, <1>5 DEF NoControl
<1>7. TellFrom(after, n + 1, mute)
  BY <1>1 DEF TellFrom
<1>8. IsControl(frame) => ControlComes(after, mute)
  BY <1>1, <1>7 DEF ControlComes
<1> QED
  BY <1>0, <1>4, <1>6, <1>8

\* The head is taken.
LEMMA TailTells ==
  ASSUME NEW queue \in Seq(Frame), queue # <<>>, NEW mute
  PROVE  /\ ControlComes(queue, mute) => \/ ControlComes(Tail(queue), mute)
                                         \/ /\ IsControl(Head(queue))
                                            /\ Head(queue).muted = mute
                                            /\ NoControl(Tail(queue), mute)
         /\ NoControl(queue, mute) => /\ NoControl(Tail(queue), mute)
                                      /\ ~IsControl(Head(queue))
                                      /\ TellsMute(Head(queue), mute)
<1>0. PICK after : after = Tail(queue)
  OBVIOUS
<1>1. /\ Len(queue) \in Nat \ {0} /\ Len(after) = Len(queue) - 1 /\ Len(after) \in Nat
      /\ \A j \in 1 .. Len(after) : after[j] = queue[j + 1]
      /\ \A j \in 1 .. Len(after) : j + 1 \in 1 .. Len(queue)
      /\ Head(queue) = queue[1]
  BY <1>0, HeadTailProperties
<1>2. \A i \in 1 .. Len(queue) : TellFrom(queue, i, mute) /\ i # 1 => TellFrom(after, i - 1, mute)
  BY <1>1 DEF TellFrom
<1>3. TellFrom(queue, 1, mute) => TellFrom(after, 1, mute) /\ TellsMute(Head(queue), mute)
  BY <1>1 DEF TellFrom
<1>4. ASSUME ControlComes(queue, mute), ~ControlComes(after, mute)
      PROVE  /\ IsControl(Head(queue)) /\ Head(queue).muted = mute
             /\ NoControl(after, mute)
  <2>1. PICK i \in 1 .. Len(queue) : IsControl(queue[i]) /\ TellFrom(queue, i, mute)
    BY <1>4 DEF ControlComes
  <2>2. i = 1
    <3> SUFFICES ASSUME i # 1
                 PROVE  FALSE
      OBVIOUS
    <3>1. i - 1 \in 1 .. Len(after) /\ after[i - 1] = queue[i]
      BY <1>1
    <3>2. IsControl(after[i - 1])
      BY <2>1, <3>1
    <3> QED
      BY <1>2, <1>4, <2>1, <3>1, <3>2 DEF ControlComes
  <2>3. TellFrom(after, 1, mute) /\ TellsMute(Head(queue), mute) /\ IsControl(Head(queue))
    BY <1>1, <1>3, <2>1, <2>2
  <2>4. \A j \in 1 .. Len(after) : ~IsControl(after[j])
    <3> SUFFICES ASSUME NEW j \in 1 .. Len(after), IsControl(after[j])
                 PROVE  FALSE
      OBVIOUS
    <3>1. TellFrom(after, j, mute)
      BY <1>1, <2>3 DEF TellFrom
    <3> QED
      BY <1>4, <3>1 DEF ControlComes
  <2> QED
    BY <2>3, <2>4 DEF NoControl, TellsMute
<1>5. ASSUME NoControl(queue, mute)
      PROVE  /\ NoControl(after, mute) /\ ~IsControl(Head(queue))
             /\ TellsMute(Head(queue), mute)
  BY <1>1, <1>3, <1>5 DEF NoControl
<1> QED
  BY <1>0, <1>4, <1>5

LEMMA MuteStep ==
  TypeOK /\ SessionInv /\ MuteInv /\ [Next]_vars => MuteInv'
<1> SUFFICES ASSUME TypeOK, SessionInv, MuteInv, [Next]_vars
             PROVE  MuteInv'
  OBVIOUS
<1>0. message_queue_ \in Seq(Frame) /\ is_muted_ \in BOOLEAN /\ muted \in BOOLEAN
  BY DEF TypeOK
<1>1. ASSUME UNCHANGED <<session, is_muted_, message_queue_, joined, muted, subscribed,
                         wish, leftover>>
      PROVE  MuteInv'
  BY <1>1 DEF MuteInv, JoinComes, MuteComes
<1>2. ASSUME NEW frame \in Frame, message_queue_' = Append(message_queue_, frame), JoinComes
      PROVE  joined' = joined => JoinComes'
  BY <1>0, <1>2, HeadTailAppend, AppendProperties DEF JoinComes
<1>3. CASE SendUpdates
  <2>1. /\ message_queue_' = Append(message_queue_, Subscribe)
        /\ UNCHANGED <<session, is_muted_, joined, muted, subscribed, wish, leftover>>
    BY <1>3 DEF SendUpdates, Send, serverVars, historyVars
  <2>2. Subscribe \in Frame
    BY <1>3, SentFrames DEF SendUpdates
  <2>3. TellsMute(Subscribe, is_muted_) /\ ~IsControl(Subscribe)
    BY DEF TellsMute, IsControl, IsSubscribe, Subscribe
  <2>4. MuteComes => MuteComes'
    BY <1>0, <2>1, <2>2, <2>3, AppendTells DEF MuteComes
  <2> QED
    BY <1>2, <2>1, <2>2, <2>4 DEF MuteInv
<1>4. ASSUME NEW mid \in AudioMid, NEW mute \in BOOLEAN, UpdateLocalAudio(mid, mute)
      PROVE  MuteInv'
  <2>1. /\ is_muted_' = mute /\ wish' = mute
        /\ UNCHANGED <<session, joined, muted, subscribed, leftover>>
    BY <1>4 DEF UpdateLocalAudio, SetMute, serverVars
  <2>2. CASE is_muted_ # mute /\ session = "connected"
    <3>1. PICK frame : frame = [type |-> "AUDIO_CONTROL", muted |-> mute]
      OBVIOUS
    <3>2. message_queue_' = Append(message_queue_, frame)
      BY <1>4, <2>2, <3>1 DEF UpdateLocalAudio, SetMute, Send
    <3>3. frame \in Frame /\ IsControl(frame) /\ TellsMute(frame, mute)
      BY <3>1, SentFrames DEF IsControl, TellsMute, IsSubscribe
    <3>4. MuteComes'
      BY <1>0, <2>1, <3>2, <3>3, AppendTells DEF MuteComes
    <3> QED
      BY <1>2, <2>1, <3>2, <3>3, <3>4 DEF MuteInv
  <2>3. CASE ~(is_muted_ # mute /\ session = "connected")
    BY <1>4, <2>1, <2>3 DEF UpdateLocalAudio, SetMute, MuteInv, JoinComes, MuteComes
  <2> QED
    BY <2>2, <2>3
<1>5. CASE OnSignalingConnected
  <2>1. PICK frame : frame = [type |-> "JOIN"]
    OBVIOUS
  <2>2. /\ message_queue_' = Append(message_queue_, frame)
        /\ leftover' = (message_queue_ # <<>>)
        /\ UNCHANGED <<is_muted_, joined, muted, subscribed, wish>>
    BY <1>5, <2>1 DEF OnSignalingConnected, serverVars
  <2>3. ASSUME message_queue_ = <<>>
        PROVE  JoinComes' /\ MuteComes'
    <3>1. frame \in Frame /\ ~IsControl(frame) /\ TellsMute(frame, is_muted_)
      BY <2>1, SentFrames DEF IsControl, TellsMute, IsSubscribe
    <3>2. ~muted /\ ~subscribed
      BY <1>5 DEF OnSignalingConnected, SessionInv
    <3>3. NoControl(message_queue_, is_muted_)
      BY <2>3 DEF NoControl, TellFrom
    <3>4. MuteComes'
      BY <1>0, <2>2, <3>1, <3>2, <3>3, AppendTells DEF MuteComes
    <3>5. message_queue_' # <<>> /\ Head(message_queue_').type = "JOIN"
      BY <1>0, <2>1, <2>2, <2>3, <3>1, HeadTailAppend, AppendProperties
    <3> QED
      BY <3>4, <3>5 DEF JoinComes
  <2> QED
    BY <2>2, <2>3 DEF MuteInv
<1>6. CASE ServerReceives
  <2>1. PICK frame : frame = Head(message_queue_)
    OBVIOUS
  <2>2. /\ message_queue_ # <<>> /\ message_queue_' = Tail(message_queue_)
        /\ UNCHANGED <<session, is_muted_, wish, leftover>>
        /\ Joins(frame) \/ Ignores(frame) \/ Hears(frame) \/ Refuses(frame) \/ Accepts(frame)
    BY <1>6, <2>1 DEF ServerReceives
  <2>3. /\ ControlComes(message_queue_, is_muted_) =>
             \/ ControlComes(message_queue_', is_muted_)
             \/ /\ IsControl(frame) /\ frame.muted = is_muted_
                /\ NoControl(message_queue_', is_muted_)
        /\ NoControl(message_queue_, is_muted_) =>
             /\ NoControl(message_queue_', is_muted_)
             /\ ~IsControl(frame) /\ TellsMute(frame, is_muted_)
    BY <1>0, <2>1, <2>2, TailTells
  <2> SUFFICES ASSUME JoinComes, MuteComes
               PROVE  JoinComes' /\ MuteComes'
    BY <2>2 DEF MuteInv
  <2>4. JoinComes'
    BY <2>1, <2>2 DEF JoinComes, Joins, Ignores, Hears, Refuses, Accepts
  <2>5. CASE Joins(frame) \/ Refuses(frame)
    <3>1. ~IsControl(frame) /\ UNCHANGED <<muted, subscribed>>
      BY <2>5 DEF Joins, Refuses, IsControl, IsSubscribe
    <3> QED
      BY <2>2, <2>3, <2>4, <3>1 DEF MuteComes
  <2>6. CASE Ignores(frame)
    BY <2>1, <2>6 DEF Ignores, JoinComes
  <2>7. CASE Hears(frame)
    <3>1. IsControl(frame) /\ muted' = frame.muted /\ UNCHANGED subscribed
      BY <2>7 DEF Hears, IsControl
    <3> QED
      BY <2>2, <2>3, <2>4, <3>1 DEF MuteComes
  <2>8. CASE Accepts(frame)
    <3>1. /\ IsSubscribe(frame) /\ ~IsControl(frame)
          /\ muted' = (muted \/ frame.audio_muted)
      BY <2>8 DEF Accepts, IsControl, IsSubscribe
    <3>2. TellsMute(frame, is_muted_) => frame.audio_muted = is_muted_
      BY <3>1 DEF TellsMute
    <3>3. CASE ControlComes(message_queue_, is_muted_)
      BY <2>2, <2>3, <2>4, <3>1, <3>3 DEF MuteComes
    <3>4. CASE NoControl(message_queue_, is_muted_) /\ (muted => is_muted_)
      <4>1. muted' = is_muted_
        BY <1>0, <2>3, <3>1, <3>2, <3>4
      <4> QED
        BY <2>2, <2>3, <2>4, <3>4, <4>1 DEF MuteComes
    <3> QED
      BY <3>3, <3>4 DEF MuteComes
  <2> QED
    BY <2>2, <2>5, <2>6, <2>7, <2>8
<1>7. ASSUME session' # "connected", UNCHANGED <<is_muted_, wish>>
      PROVE  MuteInv'
  BY <1>7 DEF MuteInv
<1>8. CASE Stop \/ OnLeaveAck \/ OnSignalingErrorReceived \/ OnSignalingClosed
  BY <1>7, <1>8 DEF Stop, OnLeaveAck, OnSignalingErrorReceived, OnSignalingClosed, historyVars
<1>9. ASSUME NEW mid \in VideoMid, UpdateLocalVideo(mid) \/ RemoveLocalVideo(mid)
      PROVE  MuteInv'
  BY <1>1, <1>9 DEF UpdateLocalVideo, RemoveLocalVideo, serverVars
<1>10. ASSUME NEW mid \in AudioMid, RemoveLocalAudio(mid)
       PROVE  MuteInv'
  BY <1>1, <1>10 DEF RemoveLocalAudio, serverVars
<1>11. ASSUME NEW sdp \in Offers, SetLocalDescription(sdp)
       PROVE  MuteInv'
  BY <1>1, <1>11 DEF SetLocalDescription, serverVars, historyVars
<1>12. CASE HandleSubAckFrame \/ UNCHANGED vars
  BY <1>1, <1>12 DEF HandleSubAckFrame, vars, serverVars, historyVars
<1> QED
  BY <1>3, <1>4, <1>5, <1>6, <1>8, <1>9, <1>10, <1>11, <1>12 DEF Next, App, Signaling

LEMMA SessionInit == Init => SessionInv
<1>1. DOMAIN EmptyMap = {}
  BY EmptyMapType
<1> QED
  BY <1>1 DEF Init, SessionInv

\* Once the queue is empty there is no AUDIO_CONTROL to come, and what the server
\* heard is what the application last said: in every session that found the
\* queue empty, with any number of SUBSCRIBEs refused and accepted.
THEOREM MuteReachesServerHolds == Spec => []MuteReachesServer
<1>1. Init => TypeOK /\ SessionInv /\ MuteInv
  BY SessionInit, TypeInit DEF Init, MuteInv
<1>2. TypeOK /\ SessionInv /\ MuteInv /\ [Next]_vars
        => TypeOK' /\ SessionInv' /\ MuteInv'
  BY TypeStep, SessionStep, MuteStep
<1>3. TypeOK /\ MuteInv => MuteReachesServer
  <2> SUFFICES ASSUME TypeOK, MuteInv, session = "connected", ~leftover, subscribed,
                      message_queue_ = <<>>
               PROVE  muted = wish
    BY DEF MuteReachesServer
  <2>1. MuteComes /\ wish = is_muted_
    BY DEF MuteInv
  <2>2. ~ControlComes(message_queue_, is_muted_)
    BY DEF ControlComes
  <2> QED
    BY <2>1, <2>2 DEF MuteComes
<1> QED
  BY <1>1, <1>2, <1>3, PTL DEF Spec

-----------------------------------------------------------------------------
(* A connection that follows one that was left in order begins without        *)
(* streams, so all it has, sends and gets are its own.                        *)

Own(stream, b) == stream = 0 \/ stream > b

OwnSources(map, b) == \A m \in DOMAIN map : Own(map[m], b)

OwnFrame(frame, b) ==
  IsSubscribe(frame) => \A k \in DOMAIN frame.send : Own(frame.send[k].stream, b)

OwnFrames(queue, b) == \A i \in 1 .. Len(queue) : OwnFrame(queue[i], b)

OwnAck(ack, b) == \A k \in 1 .. Len(ack.allocations) : ack.allocations[k] > b

OwnAcks(queue, b) == \A n \in 1 .. Len(queue) : OwnAck(queue[n], b)

NoStreams(map) == \A m \in DOMAIN map : map[m] = 0

NamesInv ==
  /\ session = "left" \/ (session = "off" /\ ~carried) =>
       NoStreams(local_audio_sources_) /\ NoStreams(local_video_sources_)
  /\ Open /\ Clean => /\ OwnSources(local_audio_sources_, before)
                      /\ OwnSources(local_video_sources_, before)
                      /\ OwnFrames(message_queue_, before)
                      /\ OwnAcks(acks, before)

\* What is true of all of a sequence stays true of its tail, and when what it is
\* true of is appended.
LEMMA OwnFramesStay ==
  ASSUME NEW queue \in Seq(Frame), NEW b, OwnFrames(queue, b)
  PROVE  /\ \A frame \in Frame : OwnFrame(frame, b) => OwnFrames(Append(queue, frame), b)
         /\ queue # <<>> => OwnFrames(Tail(queue), b) /\ OwnFrame(Head(queue), b)
<1>1. ASSUME NEW frame \in Frame, OwnFrame(frame, b)
      PROVE  OwnFrames(Append(queue, frame), b)
  BY <1>1, AppendProperties DEF OwnFrames
<1>2. ASSUME queue # <<>>
      PROVE  OwnFrames(Tail(queue), b) /\ OwnFrame(Head(queue), b)
  <2>1. /\ Len(Tail(queue)) = Len(queue) - 1 /\ Len(queue) \in Nat \ {0}
        /\ \A i \in 1 .. Len(Tail(queue)) : Tail(queue)[i] = queue[i + 1]
        /\ Head(queue) = queue[1]
    BY <1>2, HeadTailProperties
  <2> QED
    BY <2>1 DEF OwnFrames
<1> QED
  BY <1>1, <1>2

LEMMA OwnAcksStay ==
  ASSUME NEW queue \in Seq(SubscribeAck), NEW b, OwnAcks(queue, b)
  PROVE  /\ \A ack \in SubscribeAck : OwnAck(ack, b) => OwnAcks(Append(queue, ack), b)
         /\ queue # <<>> => OwnAcks(Tail(queue), b) /\ OwnAck(Head(queue), b)
<1>1. ASSUME NEW ack \in SubscribeAck, OwnAck(ack, b)
      PROVE  OwnAcks(Append(queue, ack), b)
  BY <1>1, AppendProperties DEF OwnAcks
<1>2. ASSUME queue # <<>>
      PROVE  OwnAcks(Tail(queue), b) /\ OwnAck(Head(queue), b)
  <2>1. /\ Len(Tail(queue)) = Len(queue) - 1 /\ Len(queue) \in Nat \ {0}
        /\ \A i \in 1 .. Len(Tail(queue)) : Tail(queue)[i] = queue[i + 1]
        /\ Head(queue) = queue[1]
    BY <1>2, HeadTailProperties
  <2> QED
    BY <2>1 DEF OwnAcks
<1> QED
  BY <1>1, <1>2

\* A SUBSCRIBE names what the sources hold.
LEMMA SubscribeOwn ==
  ASSUME TypeOK, sdp_ # <<>>, OwnSources(local_audio_sources_, before),
         OwnSources(local_video_sources_, before)
  PROVE  OwnFrame(Subscribe, before)
<1>1. \A m \in LocalMids : Own(Stream(m), before)
  BY DEF LocalMids, Stream, OwnSources
<1>2. sdp_ \in Offers
  BY DEF TypeOK
<1>3. \A k \in DOMAIN SendStreams : Own(SendStreams[k].stream, before)
  BY <1>1, <1>2, SendProperties
<1> QED
  BY <1>3 DEF Subscribe, OwnFrame

\* A SUBSCRIBE_ACK for such a SUBSCRIBE holds what it names and new ones.
LEMMA AllocationsOwn ==
  ASSUME TypeOK, NEW frame \in SubscribeFrame, Accepts(frame), OwnFrame(frame, before)
  PROVE  OwnAck([answer |-> frame.offer, allocations |-> Allocations(frame.send)], before)
<1> DEFINE b == before
<1>1. /\ Len(Allocations(frame.send)) = Len(frame.send)
      /\ \A k \in DOMAIN frame.send :
           /\ Allocations(frame.send)[k] = Allocation(frame.send, k)
           /\ Allocation(frame.send, k) \in StreamId
           /\ \/ Allocation(frame.send, k) > streams
              \/ frame.send[k].stream # 0 /\ Allocation(frame.send, k) = frame.send[k].stream
  BY AllocationProperties DEF Accepts
<1>2. DOMAIN frame.send = 1 .. Len(frame.send)
  <2>1. frame.send \in Seq([mid : Mids, stream : 0 .. MaxStream])
    BY DEF SubscribeFrame
  <2> QED
    BY <2>1, LenProperties
<1>3. \A k \in DOMAIN frame.send : Own(frame.send[k].stream, b)
  BY DEF OwnFrame, Accepts
<1>4. b \in Nat /\ streams \in Nat /\ b <= streams /\ StreamId \subseteq Nat
  BY MediaBoundsAssumption DEF TypeOK, MediaBoundsAssumption, StreamId
<1>5. \A k \in 1 .. Len(frame.send) : Allocations(frame.send)[k] > b
  <2> SUFFICES ASSUME NEW k \in 1 .. Len(frame.send)
               PROVE  Allocations(frame.send)[k] > b
    OBVIOUS
  <2>1. PICK a : a = Allocation(frame.send, k)
    OBVIOUS
  <2>2. a \in Nat /\ (a > streams \/ (a # 0 /\ Own(a, b)))
    BY <1>1, <1>2, <1>3, <1>4, <2>1
  <2>3. a > b
    BY <1>4, <2>2 DEF Own
  <2> QED
    BY <1>1, <1>2, <2>1, <2>3
<1> QED
  BY <1>1, <1>5 DEF OwnAck

LEMMA AssignedOwn ==
  ASSUME TypeOK, acks # <<>>, Head(acks).answer # <<>>, OwnAck(Head(acks), before),
         NEW map, OwnSources(map, before)
  PROVE  OwnSources(Assigned(map, Head(acks)), before)
<1>0. PICK ack : ack = Head(acks)
  OBVIOUS
<1>1. /\ Assigned(map, ack)
           = [m \in DOMAIN map |-> IF Gives(ack, m, LocalMids) THEN Given(ack, m, LocalMids)
                                   ELSE map[m]]
      /\ \A m : Gives(ack, m, LocalMids) =>
           \E k \in 1 .. Len(ack.allocations) : Given(ack, m, LocalMids) = ack.allocations[k]
  BY <1>0, AssignedProperties
<1>2. \A m : Gives(ack, m, LocalMids) => Own(Given(ack, m, LocalMids), before)
  BY <1>0, <1>1 DEF OwnAck, Own
<1> QED
  BY <1>0, <1>1, <1>2 DEF OwnSources

LEMMA SourcesStay ==
  ASSUME NEW map, NEW mid, NEW b
  PROVE  /\ NoStreams(map) => /\ NoStreams(Put(map, mid, 0))
                              /\ NoStreams(Erase(map, {mid}))
                              /\ OwnSources(map, b)
         /\ OwnSources(map, b) => /\ OwnSources(Put(map, mid, 0), b)
                                  /\ OwnSources(Erase(map, {mid}), b)
         /\ NoStreams(EmptyMap)
<1>1. NoStreams(EmptyMap)
  BY EmptyMapType DEF NoStreams
<1>2. NoStreams(map) => NoStreams(Put(map, mid, 0)) /\ NoStreams(Erase(map, {mid}))
  BY DEF NoStreams, Put, Erase, Restrict
<1>3. OwnSources(map, b) => /\ OwnSources(Put(map, mid, 0), b)
                            /\ OwnSources(Erase(map, {mid}), b)
  BY DEF OwnSources, Own, Put, Erase, Restrict
<1> QED
  BY <1>1, <1>2, <1>3 DEF NoStreams, OwnSources, Own

LEMMA NamesStep ==
  TypeOK /\ SessionInv /\ NamesInv /\ [Next]_vars => NamesInv'
<1> SUFFICES ASSUME TypeOK, SessionInv, NamesInv, [Next]_vars
             PROVE  NamesInv'
  OBVIOUS
<1>0. message_queue_ \in Seq(Frame) /\ acks \in Seq(SubscribeAck)
  BY DEF TypeOK
\* A step of an open session that keeps what NamesInv says of it.
<1>1. ASSUME UNCHANGED <<session, carried, leftover, before, acks>>,
             Clean /\ OwnFrames(message_queue_, before) => OwnFrames(message_queue_', before),
             NoStreams(local_audio_sources_) => NoStreams(local_audio_sources_'),
             NoStreams(local_video_sources_) => NoStreams(local_video_sources_'),
             OwnSources(local_audio_sources_, before) => OwnSources(local_audio_sources_', before),
             OwnSources(local_video_sources_, before) => OwnSources(local_video_sources_', before)
      PROVE  NamesInv'
  BY <1>1 DEF NamesInv, Open, Clean
<1>2. ASSUME NEW sdp \in Offers, SetLocalDescription(sdp)
      PROVE  NamesInv'
  BY <1>1, <1>2 DEF SetLocalDescription, localVars, serverVars, historyVars
<1>3. CASE SendUpdates
  <2>1. /\ message_queue_' = Append(message_queue_, Subscribe) /\ sdp_ # <<>>
        /\ session = "connected"
        /\ UNCHANGED <<session, localVars, serverVars, historyVars>>
    BY <1>3 DEF SendUpdates, Send
  <2>2. Subscribe \in Frame
    BY <2>1, SentFrames
  <2>3. Clean => OwnFrame(Subscribe, before) /\ OwnFrames(message_queue_, before)
    BY <2>1, SubscribeOwn DEF NamesInv, Open
  <2>4. Clean => OwnFrames(message_queue_', before)
    BY <1>0, <2>1, <2>2, <2>3, OwnFramesStay
  <2> QED
    BY <1>1, <2>1, <2>4 DEF localVars, serverVars, historyVars
<1>4. CASE Stop
  <2>1. PICK frame : frame = [type |-> "LEAVE"]
    OBVIOUS
  <2>2. /\ message_queue_' = Append(message_queue_, frame) /\ Open /\ Open'
        /\ session' # "left" /\ session' # "off"
        /\ UNCHANGED <<localVars, serverVars, historyVars>>
    BY <1>4, <2>1 DEF Stop, Send, Open
  <2>3. frame \in Frame /\ \A b : OwnFrame(frame, b)
    BY <2>1, SentFrames DEF OwnFrame, IsSubscribe
  <2>4. OwnFrames(message_queue_, before) => OwnFrames(message_queue_', before)
    BY <1>0, <2>2, <2>3, OwnFramesStay
  <2> QED
    BY <2>2, <2>4 DEF NamesInv, Clean, localVars, serverVars, historyVars
<1>5. ASSUME NEW mid \in VideoMid, UpdateLocalVideo(mid) \/ RemoveLocalVideo(mid)
      PROVE  NamesInv'
  BY <1>1, <1>5, SourcesStay DEF UpdateLocalVideo, RemoveLocalVideo, serverVars
<1>6. ASSUME NEW mid \in AudioMid, RemoveLocalAudio(mid)
      PROVE  NamesInv'
  BY <1>1, <1>6, SourcesStay DEF RemoveLocalAudio, serverVars
<1>7. ASSUME NEW mid \in AudioMid, NEW mute \in BOOLEAN, UpdateLocalAudio(mid, mute)
      PROVE  NamesInv'
  <2>1. /\ NoStreams(local_audio_sources_) => NoStreams(local_audio_sources_')
        /\ OwnSources(local_audio_sources_, before) => OwnSources(local_audio_sources_', before)
    BY <1>7, SourcesStay DEF UpdateLocalAudio
  <2>2. PICK frame : frame = [type |-> "AUDIO_CONTROL", muted |-> mute]
    OBVIOUS
  <2>3. frame \in Frame /\ \A b : OwnFrame(frame, b)
    BY <2>2, SentFrames DEF OwnFrame, IsSubscribe
  <2>4. \/ message_queue_' = message_queue_
        \/ message_queue_' = Append(message_queue_, frame)
    BY <1>7, <2>2 DEF UpdateLocalAudio, SetMute, Send
  <2>5. OwnFrames(message_queue_, before) => OwnFrames(message_queue_', before)
    BY <1>0, <2>3, <2>4, OwnFramesStay
  <2> QED
    BY <1>1, <1>7, <2>1, <2>5 DEF UpdateLocalAudio, serverVars
<1>8. CASE OnSignalingConnected
  <2>1. PICK frame : frame = [type |-> "JOIN"]
    OBVIOUS
  <2>2. /\ message_queue_' = Append(message_queue_, frame) /\ session = "off"
        /\ session' = "connected" /\ leftover' = (message_queue_ # <<>>)
        /\ UNCHANGED <<localVars, serverVars, carried>>
    BY <1>8, <2>1 DEF OnSignalingConnected
  <2>3. acks = <<>>
    BY <2>2 DEF SessionInv, Open
  <2>4. ASSUME ~carried, message_queue_ = <<>>
        PROVE  /\ OwnSources(local_audio_sources_, before)
               /\ OwnSources(local_video_sources_, before)
               /\ OwnFrames(message_queue_', before)
               /\ OwnAcks(acks, before)
    <3>1. NoStreams(local_audio_sources_) /\ NoStreams(local_video_sources_)
      BY <2>2, <2>4 DEF NamesInv
    <3>2. OwnFrames(message_queue_, before)
      BY <2>4 DEF OwnFrames
    <3>3. frame \in Frame /\ OwnFrame(frame, before)
      BY <2>1, SentFrames DEF OwnFrame, IsSubscribe
    <3>4. OwnFrames(message_queue_', before)
      BY <1>0, <2>2, <3>2, <3>3, OwnFramesStay
    <3>5. OwnAcks(acks, before)
      BY <2>3 DEF OwnAcks
    <3> QED
      BY <3>1, <3>4, <3>5, SourcesStay
  <2> QED
    BY <2>2, <2>4 DEF NamesInv, Clean, localVars, serverVars
<1>9. CASE OnLeaveAck
  <2>1. session' = "left" /\ Close
    BY <1>9 DEF OnLeaveAck
  <2> QED
    BY <2>1, SourcesStay DEF NamesInv, Open, Close
<1>10. CASE OnSignalingErrorReceived
  BY <1>10 DEF OnSignalingErrorReceived, NamesInv, Open
<1>11. CASE OnSignalingClosed
  BY <1>11 DEF OnSignalingClosed, NamesInv, Open, localVars
<1>12. CASE HandleSubAckFrame
  <2>1. /\ acks # <<>> /\ acks' = Tail(acks) /\ Open
        /\ UNCHANGED <<session, message_queue_, before, carried, leftover>>
        /\ \/ UNCHANGED localVars
           \/ /\ Head(acks).answer # <<>>
              /\ local_audio_sources_' = Assigned(local_audio_sources_, Head(acks))
              /\ local_video_sources_' = Assigned(local_video_sources_, Head(acks))
    BY <1>12 DEF HandleSubAckFrame, historyVars
  <2>2. ASSUME Clean
        PROVE  /\ OwnAcks(acks', before)
               /\ OwnSources(local_audio_sources_', before)
               /\ OwnSources(local_video_sources_', before)
    <3>1. /\ OwnSources(local_audio_sources_, before)
          /\ OwnSources(local_video_sources_, before)
          /\ OwnAcks(acks, before)
      BY <2>1, <2>2 DEF NamesInv
    <3>2. OwnAcks(acks', before) /\ OwnAck(Head(acks), before)
      BY <1>0, <2>1, <3>1, OwnAcksStay
    <3> QED
      BY <2>1, <3>1, <3>2, AssignedOwn DEF localVars
  <2> QED
    BY <2>1, <2>2 DEF NamesInv, Clean, Open
<1>13. CASE ServerReceives
  <2>1. PICK frame : frame = Head(message_queue_)
    OBVIOUS
  <2>2. /\ Open /\ message_queue_ # <<>> /\ message_queue_' = Tail(message_queue_)
        /\ UNCHANGED <<session, localVars, before, carried, leftover>>
        /\ Joins(frame) \/ Ignores(frame) \/ Hears(frame) \/ Refuses(frame) \/ Accepts(frame)
    BY <1>13, <2>1 DEF ServerReceives
  <2>3. frame \in Frame
    BY <2>1, <2>2, Shortened DEF Taken
  <2>4. ASSUME Clean
        PROVE  OwnFrames(message_queue_', before) /\ OwnAcks(acks', before)
    <3>1. OwnFrames(message_queue_, before) /\ OwnAcks(acks, before)
      BY <2>2, <2>4 DEF NamesInv
    <3>2. OwnFrames(message_queue_', before) /\ OwnFrame(frame, before)
      BY <1>0, <2>1, <2>2, <3>1, OwnFramesStay
    <3>3. CASE Joins(frame) \/ Ignores(frame) \/ Hears(frame)
      BY <3>1, <3>2, <3>3 DEF Joins, Ignores, Hears
    <3>4. CASE Refuses(frame)
      <4>1. PICK ack : ack = [answer |-> <<>>, allocations |-> <<>>]
        OBVIOUS
      <4>2. ack \in SubscribeAck /\ OwnAck(ack, before)
        BY <4>1, EmptySeq DEF SubscribeAck, OwnAck
      <4> QED
        BY <1>0, <3>1, <3>2, <3>4, <4>1, <4>2, OwnAcksStay DEF Refuses
    <3>5. CASE Accepts(frame)
      <4>0. frame \in SubscribeFrame
        BY <2>3, <3>5, FrameTypes DEF Accepts
      <4>1. PICK ack : ack = [answer |-> frame.offer, allocations |-> Allocations(frame.send)]
        OBVIOUS
      <4>2. OwnAck(ack, before)
        BY <3>2, <3>5, <4>0, <4>1, AllocationsOwn
      <4>3. ack \in SubscribeAck
        BY <3>5, <4>0, <4>1, AllocationProperties DEF Accepts, SubscribeFrame, SubscribeAck
      <4> QED
        BY <1>0, <3>1, <3>2, <3>5, <4>1, <4>2, <4>3, OwnAcksStay DEF Accepts
    <3> QED
      BY <2>2, <3>3, <3>4, <3>5
  <2> QED
    BY <2>2, <2>4 DEF NamesInv, Clean, Open, localVars
<1>14. CASE UNCHANGED vars
  BY <1>1, <1>14 DEF vars, localVars, serverVars, historyVars
<1> QED
  BY <1>2, <1>3, <1>4, <1>5, <1>6, <1>7, <1>8, <1>9, <1>10, <1>11, <1>12, <1>13, <1>14
  DEF Next, App, Signaling

\* In a session that follows one that was left in order no SUBSCRIBE names a
\* stream of an earlier connection, however often mids come, go and are given
\* streams on the way.
THEOREM NamesOwnStreamsHolds == Spec => []NamesOwnStreams
<1>1. Init => TypeOK /\ SessionInv /\ NamesInv
  <2>1. NoStreams(EmptyMap)
    BY SourcesStay
  <2> QED
    BY <2>1, SessionInit, TypeInit DEF Init, NamesInv, Open
<1>2. TypeOK /\ SessionInv /\ NamesInv /\ [Next]_vars
        => TypeOK' /\ SessionInv' /\ NamesInv'
  BY TypeStep, SessionStep, NamesStep
<1>3. TypeOK /\ NamesInv => NamesOwnStreams
  <2> SUFFICES ASSUME TypeOK, NamesInv, session = "connected", Clean,
                      NEW i \in DOMAIN message_queue_, IsSubscribe(message_queue_[i]),
                      NEW s \in Range(message_queue_[i].send)
               PROVE  s.stream = 0 \/ s.stream > before
    BY DEF NamesOwnStreams
  <2>1. OwnFrames(message_queue_, before) /\ i \in 1 .. Len(message_queue_)
    BY DEF NamesInv, Open, TypeOK
  <2>2. OwnFrame(message_queue_[i], before)
    BY <2>1 DEF OwnFrames
  <2>3. PICK k \in DOMAIN message_queue_[i].send : s = message_queue_[i].send[k]
    BY DEF Range
  <2> QED
    BY <2>2, <2>3 DEF OwnFrame, Own
<1> QED
  BY <1>1, <1>2, <1>3, PTL DEF Spec

-----------------------------------------------------------------------------
(* Client and server agree on the streams.  While the local mids stay, every  *)
(* SUBSCRIBE on its way describes exactly the local sections of its offer; so  *)
(* the last SUBSCRIBE_ACK on its way that gives a mid a stream gives it what   *)
(* the server has granted, and where none does the client has that already.   *)

Describes(send, sdp, mids) ==
  send # <<>> =>
    /\ Len(send) = Cardinality(Places(sdp, mids))
    /\ \A i \in Places(sdp, mids) : send[Rank(Places(sdp, mids), i)].mid = ParseSDP(sdp)[i].mid

FrameDescribes(frame, mids) == IsSubscribe(frame) => Describes(frame.send, frame.offer, mids)

FramesDescribe(queue, mids) == \A i \in 1 .. Len(queue) : FrameDescribes(queue[i], mids)

\* With a stream now, m has the other one when the queue is dealt with.
Comes(queue, m, mids, now, later) ==
  \/ \E n \in 1 .. Len(queue) : /\ Gives(queue[n], m, mids)
                                /\ Given(queue[n], m, mids) = later
                                /\ \A l \in 1 .. Len(queue) : n < l => ~Gives(queue[l], m, mids)
  \/ /\ \A n \in 1 .. Len(queue) : ~Gives(queue[n], m, mids)
     /\ now = later

Grant(m) == IF m \in DOMAIN granted THEN granted[m] ELSE 0

AgreeInv ==
  Open /\ Clean /\ ~changed =>
    /\ FramesDescribe(message_queue_, LocalMids)
    /\ DOMAIN granted \subseteq LocalMids
    /\ \A m \in LocalMids : Comes(acks, m, LocalMids, Stream(m), Grant(m))

LEMMA FramesDescribeStay ==
  ASSUME NEW queue \in Seq(Frame), NEW mids, FramesDescribe(queue, mids)
  PROVE  /\ \A frame \in Frame : FrameDescribes(frame, mids)
                                   => FramesDescribe(Append(queue, frame), mids)
         /\ queue # <<>> => FramesDescribe(Tail(queue), mids) /\ FrameDescribes(Head(queue), mids)
<1>1. ASSUME NEW frame \in Frame, FrameDescribes(frame, mids)
      PROVE  FramesDescribe(Append(queue, frame), mids)
  BY <1>1, AppendProperties DEF FramesDescribe
<1>2. ASSUME queue # <<>>
      PROVE  FramesDescribe(Tail(queue), mids) /\ FrameDescribes(Head(queue), mids)
  <2>1. /\ Len(Tail(queue)) = Len(queue) - 1 /\ Len(queue) \in Nat \ {0}
        /\ \A i \in 1 .. Len(Tail(queue)) : Tail(queue)[i] = queue[i + 1]
        /\ Head(queue) = queue[1]
    BY <1>2, HeadTailProperties
  <2> QED
    BY <2>1 DEF FramesDescribe
<1> QED
  BY <1>1, <1>2

\* A SUBSCRIBE_ACK joins the queue, and one leaves it.
LEMMA AppendComes ==
  ASSUME NEW queue \in Seq(SubscribeAck), NEW ack \in SubscribeAck,
         NEW m, NEW mids, NEW now, NEW later
  PROVE  /\ Gives(ack, m, mids) /\ Given(ack, m, mids) = later
              => Comes(Append(queue, ack), m, mids, now, later)
         /\ ~Gives(ack, m, mids) /\ Comes(queue, m, mids, now, later)
              => Comes(Append(queue, ack), m, mids, now, later)
<1> DEFINE n == Len(queue)
<1>0. PICK after : after = Append(queue, ack)
  OBVIOUS
<1>1. /\ n \in Nat /\ Len(after) = n + 1
      /\ \A i \in 1 .. n : after[i] = queue[i]
      /\ after[n + 1] = ack
  BY <1>0, AppendProperties
<1>2. \A l \in 1 .. n + 1 : (l \in 1 .. n \/ l = n + 1) /\ ~(n + 1 < l)
  BY <1>1
<1>3. ASSUME Gives(ack, m, mids), Given(ack, m, mids) = later
      PROVE  Comes(after, m, mids, now, later)
  BY <1>1, <1>2, <1>3 DEF Comes
<1>4. ASSUME ~Gives(ack, m, mids), Comes(queue, m, mids, now, later)
      PROVE  Comes(after, m, mids, now, later)
  <2>1. ASSUME NEW k \in 1 .. n, Gives(queue[k], m, mids), Given(queue[k], m, mids) = later,
               \A l \in 1 .. n : k < l => ~Gives(queue[l], m, mids)
        PROVE  Comes(after, m, mids, now, later)
    <3>1. k \in 1 .. n + 1 /\ after[k] = queue[k]
      BY <1>1
    <3>2. \A l \in 1 .. n + 1 : k < l => ~Gives(after[l], m, mids)
      BY <1>1, <1>2, <1>4, <2>1
    <3> QED
      BY <1>1, <2>1, <3>1, <3>2 DEF Comes
  <2>2. ASSUME \A k \in 1 .. n : ~Gives(queue[k], m, mids), now = later
        PROVE  Comes(after, m, mids, now, later)
    BY <1>1, <1>2, <1>4, <2>2 DEF Comes
  <2> QED
    BY <1>4, <2>1, <2>2 DEF Comes
<1> QED
  BY <1>0, <1>3, <1>4

LEMMA TailComes ==
  ASSUME NEW queue \in Seq(SubscribeAck), queue # <<>>,
         NEW m, NEW mids, NEW now, NEW later, Comes(queue, m, mids, now, later)
  PROVE  /\ Gives(Head(queue), m, mids)
              => Comes(Tail(queue), m, mids, Given(Head(queue), m, mids), later)
         /\ ~Gives(Head(queue), m, mids) => Comes(Tail(queue), m, mids, now, later)
<1> DEFINE next == IF Gives(queue[1], m, mids) THEN Given(queue[1], m, mids) ELSE now
<1>0. PICK after : after = Tail(queue)
  OBVIOUS
<1>1. /\ Len(queue) \in Nat \ {0} /\ Len(after) = Len(queue) - 1 /\ Len(after) \in Nat
      /\ \A j \in 1 .. Len(after) : after[j] = queue[j + 1] /\ j + 1 \in 1 .. Len(queue)
      /\ Head(queue) = queue[1]
  BY <1>0, HeadTailProperties
<1>2. ASSUME NEW k \in 1 .. Len(queue), Gives(queue[k], m, mids),
             Given(queue[k], m, mids) = later,
             \A l \in 1 .. Len(queue) : k < l => ~Gives(queue[l], m, mids)
      PROVE  Comes(after, m, mids, next, later)
  <2>1. CASE k = 1
    <3>1. next = later
      BY <1>2, <2>1
    <3>2. \A j \in 1 .. Len(after) : ~Gives(after[j], m, mids)
      <4> SUFFICES ASSUME NEW j \in 1 .. Len(after)
                   PROVE  ~Gives(after[j], m, mids)
        OBVIOUS
      <4>1. 1 < j + 1 /\ j + 1 \in 1 .. Len(queue) /\ after[j] = queue[j + 1]
        BY <1>1
      <4> QED
        BY <1>2, <2>1, <4>1
    <3> QED
      BY <3>1, <3>2 DEF Comes
  <2>2. CASE k # 1
    <3>1. k - 1 \in 1 .. Len(after) /\ after[k - 1] = queue[k]
      BY <1>1, <2>2
    <3>2. \A l \in 1 .. Len(after) : k - 1 < l => ~Gives(after[l], m, mids)
      <4> SUFFICES ASSUME NEW l \in 1 .. Len(after), k - 1 < l
                   PROVE  ~Gives(after[l], m, mids)
        OBVIOUS
      <4>1. k < l + 1 /\ l + 1 \in 1 .. Len(queue) /\ after[l] = queue[l + 1]
        BY <1>1
      <4> QED
        BY <1>2, <4>1
    <3> QED
      BY <1>2, <3>1, <3>2 DEF Comes
  <2> QED
    BY <2>1, <2>2
<1>3. ASSUME \A k \in 1 .. Len(queue) : ~Gives(queue[k], m, mids), now = later
      PROVE  Comes(after, m, mids, next, later)
  <2>1. next = later /\ \A j \in 1 .. Len(after) : ~Gives(after[j], m, mids)
    BY <1>1, <1>3
  <2> QED
    BY <2>1 DEF Comes
<1>4. Comes(after, m, mids, next, later)
  BY <1>2, <1>3 DEF Comes
<1> QED
  BY <1>0, <1>1, <1>4

\* The SUBSCRIBE_ACK for a SUBSCRIBE gives exactly the mids it names a stream,
\* and to each the one the server has granted.
LEMMA AcceptedGives ==
  ASSUME TypeOK, NEW frame \in SubscribeFrame, Accepts(frame),
         Describes(frame.send, frame.offer, LocalMids),
         NEW ack, ack = [answer |-> frame.offer, allocations |-> Allocations(frame.send)]
  PROVE  /\ NamedBy(frame.send) \subseteq LocalMids
         /\ \A m : Gives(ack, m, LocalMids) <=> m \in NamedBy(frame.send)
         /\ \A m \in NamedBy(frame.send) :
              Given(ack, m, LocalMids) = Allocation(frame.send, DescriptorOf(frame.send, m))
<1>1. PICK send : send = frame.send
  OBVIOUS
<1>2. PICK sections : sections = ParseSDP(frame.offer)
  OBVIOUS
<1>3. PICK locals : locals = Places(frame.offer, LocalMids)
  OBVIOUS
<1>4. frame.offer \in Offers /\ send \in Seq([mid : Mids, stream : 0 .. MaxStream])
  BY <1>1 DEF SubscribeFrame
<1>5. DOMAIN send = 1 .. Len(send) /\ Len(send) \in Nat
  BY <1>4, LenProperties
<1>6. /\ ack.answer = frame.offer /\ ack.allocations = Allocations(send)
      /\ Len(ack.allocations) = Len(send)
      /\ \A k \in 1 .. Len(send) : ack.allocations[k] = Allocation(send, k)
  BY <1>1, <1>5, AllocationProperties DEF Accepts
<1>7. /\ \A i \in locals : Rank(locals, i) \in 1 .. Cardinality(locals)
      /\ \A k \in 1 .. Cardinality(locals) : /\ Nth(locals, k) \in locals
                                             /\ Rank(locals, Nth(locals, k)) = k
      /\ Cardinality(locals) \in Nat
      /\ \A i \in locals : i \in DOMAIN sections /\ sections[i].mid \in LocalMids
  <2>1. /\ locals \in SUBSET Nat /\ IsFiniteSet(locals)
        /\ \A i \in locals : i \in DOMAIN sections /\ sections[i].mid \in LocalMids
    BY <1>2, <1>3, <1>4, OfferSections DEF LocalPlaces
  <2> QED
    BY <2>1, RankProperties, NthProperties
<1>8. \A i, j \in DOMAIN sections : sections[j].mid = sections[i].mid => j = i
  BY <1>2, <1>4, SameSections
<1>9. send # <<>> => /\ Len(send) = Cardinality(locals)
                     /\ \A i \in locals : send[Rank(locals, i)].mid = sections[i].mid
  BY <1>1, <1>2, <1>3 DEF Describes
<1>10. send = <<>> <=> Len(send) = 0
  BY <1>4, EmptySeq
\* A descriptor is that of a local section, whose rank is its place.
<1>11. \A k \in 1 .. Len(send) :
         \E i \in locals : Rank(locals, i) = k /\ sections[i].mid = send[k].mid
  <2> SUFFICES ASSUME NEW k \in 1 .. Len(send)
               PROVE  \E i \in locals : Rank(locals, i) = k /\ sections[i].mid = send[k].mid
    OBVIOUS
  <2>1. Len(send) = Cardinality(locals) /\ k \in 1 .. Cardinality(locals)
    BY <1>5, <1>9, <1>10
  <2>2. PICK i : i = Nth(locals, k)
    OBVIOUS
  <2>3. i \in locals /\ Rank(locals, i) = k
    BY <1>7, <2>1, <2>2
  <2>4. sections[i].mid = send[k].mid
    BY <1>9, <1>10, <2>1, <2>3, <1>5
  <2> QED
    BY <2>3, <2>4
<1>12. \A m : m \in NamedBy(send) <=> \E k \in 1 .. Len(send) : send[k].mid = m
  BY <1>5 DEF NamedBy
<1>13. \A m : Gives(ack, m, LocalMids)
         <=> \E i \in locals : sections[i].mid = m /\ Rank(locals, i) <= Len(send)
  BY <1>2, <1>3, <1>6 DEF Gives
<1>14. ASSUME NEW i \in locals, Rank(locals, i) <= Len(send)
       PROVE  Rank(locals, i) \in 1 .. Len(send) /\ send[Rank(locals, i)].mid = sections[i].mid
  <2>1. Rank(locals, i) \in 1 .. Len(send)
    BY <1>5, <1>7, <1>14
  <2> QED
    BY <1>5, <1>9, <1>10, <2>1
<1>15. \A m : Gives(ack, m, LocalMids) <=> m \in NamedBy(send)
  <2>1. ASSUME NEW m, Gives(ack, m, LocalMids)
        PROVE  m \in NamedBy(send)
    BY <1>12, <1>13, <1>14, <2>1
  <2>2. ASSUME NEW m, m \in NamedBy(send)
        PROVE  Gives(ack, m, LocalMids)
    <3>1. PICK k \in 1 .. Len(send) : send[k].mid = m
      BY <1>12, <2>2
    <3>2. PICK i \in locals : Rank(locals, i) = k /\ sections[i].mid = m
      BY <1>11, <3>1
    <3> QED
      BY <1>5, <1>13, <3>2
  <2> QED
    BY <2>1, <2>2
<1>16. ASSUME NEW m \in NamedBy(send)
       PROVE  /\ m \in LocalMids
              /\ Given(ack, m, LocalMids) = Allocation(send, DescriptorOf(send, m))
  <2>1. PICK k : k = DescriptorOf(send, m)
    OBVIOUS
  <2>2. k \in 1 .. Len(send) /\ send[k].mid = m
    BY <1>5, <2>1 DEF NamedBy, DescriptorOf
  <2>3. PICK i \in locals : Rank(locals, i) = k /\ sections[i].mid = m
    BY <1>11, <2>2
  <2>4. PICK j : j = CHOOSE x \in locals : sections[x].mid = m
    OBVIOUS
  <2>5. j \in locals /\ sections[j].mid = m
    BY <2>3, <2>4
  <2>6. j = i
    BY <1>7, <1>8, <2>3, <2>5
  <2>7. Given(ack, m, LocalMids) = ack.allocations[Rank(locals, j)]
    BY <1>2, <1>3, <1>6, <2>4 DEF Given
  <2>8. m \in LocalMids
    BY <1>7, <2>3
  <2> QED
    BY <1>6, <2>1, <2>2, <2>3, <2>6, <2>7, <2>8
<1> QED
  BY <1>1, <1>15, <1>16

\* Nothing is under way, so nothing depends on which mids are local.
LEMMA AllAnswered ==
  ASSUME TypeOK, ~Unanswered
  PROVE  /\ acks = <<>>
         /\ \A mids : FramesDescribe(message_queue_, mids)
         /\ \A m, mids, now, later : Comes(acks, m, mids, now, later) <=> now = later
<1>1. acks = <<>> /\ Len(acks) = 0
  BY DEF Unanswered
<1>2. DOMAIN message_queue_ = 1 .. Len(message_queue_)
  BY DEF TypeOK
<1> QED
  BY <1>1, <1>2 DEF Unanswered, FramesDescribe, FrameDescribes, Comes

\* No section of an SDP without lines takes an allocation.
LEMMA RefusedGives ==
  ASSUME NEW ack, ack.answer = <<>>, NEW m, NEW mids
  PROVE  ~Gives(ack, m, mids)
<1>1. DOMAIN ParseSDP(<<>>) = {}
  BY DEF ParseSDP
<1> QED
  BY <1>1 DEF Gives, Places

\* Whichever mid is added or removed, what the server granted for the mids that
\* stay and what the client has for them are what they were.
LEMMA SourcesChange ==
  ASSUME TypeOK, DOMAIN granted \subseteq LocalMids
  PROVE  /\ \A mid \in VideoMid : UpdateLocalVideo(mid) =>
              /\ LocalMids' = LocalMids \union {mid} /\ mid \notin LocalMids
              /\ Stream(mid)' = 0 /\ \A m \in LocalMids : Stream(m)' = Stream(m)
         /\ \A mid \in AudioMid :
              local_audio_sources_' = Put(local_audio_sources_, mid, 0)
                /\ mid \notin DOMAIN local_audio_sources_ /\ UNCHANGED local_video_sources_ =>
              /\ LocalMids' = LocalMids \union {mid} /\ mid \notin LocalMids
              /\ Stream(mid)' = 0 /\ \A m \in LocalMids : Stream(m)' = Stream(m)
         /\ \A mid \in VideoMid : RemoveLocalVideo(mid) =>
              /\ LocalMids' = LocalMids \ {mid}
              /\ \A m \in LocalMids' : Stream(m)' = Stream(m)
         /\ \A mid \in AudioMid : RemoveLocalAudio(mid) =>
              /\ LocalMids' = LocalMids \ {mid}
              /\ \A m \in LocalMids' : Stream(m)' = Stream(m)
<1>1. /\ DOMAIN local_audio_sources_ \subseteq AudioMid
      /\ DOMAIN local_video_sources_ \subseteq VideoMid
      /\ AudioMid \intersect VideoMid = {}
  BY MidAssumption, MapElim DEF TypeOK, MidAssumption
<1>2. ASSUME NEW mid \in VideoMid, UpdateLocalVideo(mid)
      PROVE  /\ LocalMids' = LocalMids \union {mid} /\ mid \notin LocalMids
             /\ Stream(mid)' = 0 /\ \A m \in LocalMids : Stream(m)' = Stream(m)
  BY <1>1, <1>2 DEF UpdateLocalVideo, LocalMids, Stream, Put
<1>3. ASSUME NEW mid \in AudioMid, mid \notin DOMAIN local_audio_sources_,
             local_audio_sources_' = Put(local_audio_sources_, mid, 0),
             UNCHANGED local_video_sources_
      PROVE  /\ LocalMids' = LocalMids \union {mid} /\ mid \notin LocalMids
             /\ Stream(mid)' = 0 /\ \A m \in LocalMids : Stream(m)' = Stream(m)
  BY <1>1, <1>3 DEF LocalMids, Stream, Put
<1>4. ASSUME NEW mid \in VideoMid, RemoveLocalVideo(mid)
      PROVE  /\ LocalMids' = LocalMids \ {mid}
             /\ \A m \in LocalMids' : Stream(m)' = Stream(m)
  BY <1>1, <1>4 DEF RemoveLocalVideo, LocalMids, Stream, Erase, Restrict
<1>5. ASSUME NEW mid \in AudioMid, RemoveLocalAudio(mid)
      PROVE  /\ LocalMids' = LocalMids \ {mid}
             /\ \A m \in LocalMids' : Stream(m)' = Stream(m)
  BY <1>1, <1>5 DEF RemoveLocalAudio, LocalMids, Stream, Erase, Restrict
<1> QED
  BY <1>2, <1>3, <1>4, <1>5

LEMMA SubscribeDescribes ==
  ASSUME TypeOK, sdp_ # <<>>
  PROVE  FrameDescribes(Subscribe, LocalMids)
<1>1. sdp_ \in Offers
  BY DEF TypeOK
<1>2. Describes(SendStreams, sdp_, LocalMids)
  BY <1>1, SendProperties DEF Describes, LocalPlaces
<1> QED
  BY <1>2 DEF Subscribe, FrameDescribes

LEMMA AgreeStep ==
  TypeOK /\ SessionInv /\ NamesInv /\ AgreeInv /\ [Next]_vars => AgreeInv'
<1> SUFFICES ASSUME TypeOK, SessionInv, NamesInv, AgreeInv, [Next]_vars,
                    Open', Clean', ~changed'
             PROVE  /\ FramesDescribe(message_queue_', LocalMids')
                    /\ DOMAIN granted' \subseteq LocalMids'
                    /\ \A m \in LocalMids' : Comes(acks', m, LocalMids', Stream(m)', Grant(m)')
  BY DEF AgreeInv
<1> DEFINE Goal == /\ FramesDescribe(message_queue_', LocalMids')
                   /\ DOMAIN granted' \subseteq LocalMids'
                   /\ \A m \in LocalMids' :
                        Comes(acks', m, LocalMids', Stream(m)', Grant(m)')
<1>0. message_queue_ \in Seq(Frame) /\ acks \in Seq(SubscribeAck)
  BY DEF TypeOK
<1>1. ASSUME Open, Clean, ~changed
      PROVE  /\ FramesDescribe(message_queue_, LocalMids)
             /\ DOMAIN granted \subseteq LocalMids
             /\ \A m \in LocalMids : Comes(acks, m, LocalMids, Stream(m), Grant(m))
  BY <1>1 DEF AgreeInv
<1>2. UNCHANGED localVars => /\ LocalMids' = LocalMids
                             /\ \A m : Stream(m)' = Stream(m)
  BY DEF localVars, LocalMids, Stream
<1>3. UNCHANGED granted => \A m : Grant(m)' = Grant(m)
  BY DEF Grant
\* A step that does no more to all this than to append a frame.
<1>4. ASSUME Open, Clean, ~changed, UNCHANGED <<localVars, acks, granted>>,
             FramesDescribe(message_queue_, LocalMids)
               => FramesDescribe(message_queue_', LocalMids)
      PROVE  Goal
  BY <1>1, <1>2, <1>3, <1>4
<1>5. ASSUME UNCHANGED <<session, carried, leftover>>
      PROVE  Open /\ Clean
  BY <1>5 DEF Open, Clean
<1>6. ASSUME NEW sdp \in Offers, SetLocalDescription(sdp)
      PROVE  Goal
  <2>1. Open /\ Clean /\ ~changed
    BY <1>5, <1>6 DEF SetLocalDescription, historyVars
  <2> QED
    BY <1>4, <1>6, <2>1 DEF SetLocalDescription, serverVars, historyVars
<1>7. CASE SendUpdates
  <2>1. /\ message_queue_' = Append(message_queue_, Subscribe) /\ sdp_ # <<>>
        /\ UNCHANGED <<session, localVars, acks, granted, changed, carried, leftover>>
    BY <1>7 DEF SendUpdates, Send, serverVars, historyVars
  <2>2. Subscribe \in Frame /\ FrameDescribes(Subscribe, LocalMids)
    BY <2>1, SentFrames, SubscribeDescribes
  <2>3. FramesDescribe(message_queue_, LocalMids) => FramesDescribe(message_queue_', LocalMids)
    BY <1>0, <2>1, <2>2, FramesDescribeStay
  <2> QED
    BY <1>4, <1>5, <2>1, <2>3
<1>8. CASE Stop
  <2>1. PICK frame : frame = [type |-> "LEAVE"]
    OBVIOUS
  <2>2. /\ message_queue_' = Append(message_queue_, frame) /\ Open
        /\ UNCHANGED <<localVars, acks, granted, changed, carried, leftover>>
    BY <1>8, <2>1 DEF Stop, Send, Open, serverVars, historyVars
  <2>3. frame \in Frame /\ \A mids : FrameDescribes(frame, mids)
    BY <2>1, SentFrames DEF FrameDescribes, IsSubscribe
  <2>4. FramesDescribe(message_queue_, LocalMids) => FramesDescribe(message_queue_', LocalMids)
    BY <1>0, <2>2, <2>3, FramesDescribeStay
  <2>5. Clean
    BY <2>2 DEF Clean
  <2> QED
    BY <1>4, <2>2, <2>4, <2>5
\* The local mids change: then every SUBSCRIBE is answered.
<1>9. ASSUME LocalChange, UNCHANGED <<session, carried, leftover>>
      PROVE  /\ Open /\ Clean /\ ~changed /\ acks = <<>>
             /\ \A mids : FramesDescribe(message_queue_, mids)
             /\ \A m, mids, now, later : Comes(acks, m, mids, now, later) <=> now = later
             /\ DOMAIN granted \subseteq LocalMids
             /\ \A m \in LocalMids : Stream(m) = Grant(m)
  <2>1. Open /\ Clean /\ ~changed /\ ~Unanswered
    BY <1>5, <1>9 DEF LocalChange
  <2> QED
    BY <1>1, <2>1, AllAnswered
<1>10. ASSUME NEW mid \in VideoMid, UpdateLocalVideo(mid)
       PROVE  Goal
  <2>1. LocalChange /\ UNCHANGED <<session, carried, leftover, message_queue_, acks, granted>>
    BY <1>10 DEF UpdateLocalVideo, serverVars
  <2>2. /\ LocalMids' = LocalMids \union {mid} /\ mid \notin LocalMids
        /\ Stream(mid)' = 0 /\ \A m \in LocalMids : Stream(m)' = Stream(m)
    BY <1>9, <1>10, <2>1, SourcesChange
  <2>3. Grant(mid) = 0
    BY <1>9, <2>1, <2>2 DEF Grant
  <2>4. \A m \in LocalMids' : Stream(m)' = Grant(m)'
    BY <1>3, <1>9, <2>1, <2>2, <2>3
  <2> QED
    BY <1>9, <2>1, <2>2, <2>4
<1>11. ASSUME NEW mid \in AudioMid, NEW mute \in BOOLEAN, UpdateLocalAudio(mid, mute)
       PROVE  Goal
  <2>1. PICK frame : frame = [type |-> "AUDIO_CONTROL", muted |-> mute]
    OBVIOUS
  <2>2. frame \in Frame /\ \A mids : FrameDescribes(frame, mids)
    BY <2>1, SentFrames DEF FrameDescribes, IsSubscribe
  <2>3. \/ message_queue_' = message_queue_
        \/ message_queue_' = Append(message_queue_, frame)
    BY <1>11, <2>1 DEF UpdateLocalAudio, SetMute, Send
  <2>4. \A mids : FramesDescribe(message_queue_, mids) => FramesDescribe(message_queue_', mids)
    BY <1>0, <2>2, <2>3, FramesDescribeStay
  <2>5. UNCHANGED <<session, carried, leftover, acks, granted, local_video_sources_>>
    BY <1>11 DEF UpdateLocalAudio, serverVars
  <2>6. CASE mid \in DOMAIN local_audio_sources_
    <3>1. UNCHANGED <<localVars, changed>>
      BY <1>11, <2>5, <2>6 DEF UpdateLocalAudio, localVars
    <3> QED
      BY <1>4, <1>5, <2>4, <2>5, <3>1
  <2>7. CASE mid \notin DOMAIN local_audio_sources_
    <3>1. LocalChange /\ local_audio_sources_' = Put(local_audio_sources_, mid, 0)
      BY <1>11, <2>7 DEF UpdateLocalAudio
    <3>2. /\ LocalMids' = LocalMids \union {mid} /\ mid \notin LocalMids
          /\ Stream(mid)' = 0 /\ \A m \in LocalMids : Stream(m)' = Stream(m)
      BY <1>9, <2>5, <2>7, <3>1, SourcesChange
    <3>3. Grant(mid) = 0
      BY <1>9, <2>5, <3>1, <3>2 DEF Grant
    <3>4. \A m \in LocalMids' : Stream(m)' = Grant(m)'
      BY <1>3, <1>9, <2>5, <3>1, <3>2, <3>3
    <3> QED
      BY <1>9, <2>4, <2>5, <3>1, <3>2, <3>4
  <2> QED
    BY <2>6, <2>7
<1>12. ASSUME NEW mid, LocalMids' = LocalMids \ {mid}, granted' = Erase(granted, {mid}),
              \A m \in LocalMids' : Stream(m)' = Stream(m),
              LocalChange, UNCHANGED <<session, carried, leftover, message_queue_, acks>>
       PROVE  Goal
  <2>1. /\ DOMAIN granted' = DOMAIN granted \ {mid}
        /\ \A m \in DOMAIN granted' : granted'[m] = granted[m]
    BY <1>12 DEF Erase, Restrict
  <2>2. DOMAIN granted' \subseteq LocalMids'
    BY <1>9, <1>12, <2>1
  <2>3. \A m \in LocalMids' : Grant(m)' = Grant(m)
    BY <1>12, <2>1 DEF Grant
  <2>4. \A m \in LocalMids' : Stream(m)' = Grant(m)'
    BY <1>9, <1>12, <2>3
  <2> QED
    BY <1>9, <1>12, <2>2, <2>4
<1>13. ASSUME NEW mid \in VideoMid, RemoveLocalVideo(mid)
       PROVE  Goal
  <2>1. /\ granted' = Erase(granted, {mid}) /\ LocalChange
        /\ UNCHANGED <<session, carried, leftover, message_queue_, acks>>
    BY <1>13 DEF RemoveLocalVideo, serverVars
  <2> QED
    BY <1>9, <1>12, <1>13, <2>1, SourcesChange
<1>14. ASSUME NEW mid \in AudioMid, RemoveLocalAudio(mid)
       PROVE  Goal
  <2>1. /\ granted' = Erase(granted, {mid}) /\ LocalChange
        /\ UNCHANGED <<session, carried, leftover, message_queue_, acks>>
    BY <1>14 DEF RemoveLocalAudio, serverVars
  <2> QED
    BY <1>9, <1>12, <1>14, <2>1, SourcesChange
<1>15. CASE OnSignalingConnected
  <2>1. PICK frame : frame = [type |-> "JOIN"]
    OBVIOUS
  <2>2. /\ message_queue_' = Append(message_queue_, frame) /\ message_queue_ = <<>>
        /\ session = "off" /\ ~carried
        /\ UNCHANGED <<localVars, acks, granted>>
    BY <1>15, <2>1 DEF OnSignalingConnected, Clean, serverVars
  <2>3. acks = <<>> /\ DOMAIN granted = {}
    BY <2>2 DEF SessionInv, Open
  <2>4. \A m \in LocalMids : Stream(m) = 0
    BY <2>2 DEF NamesInv, NoStreams, LocalMids, Stream
  <2>5. frame \in Frame /\ \A mids : FrameDescribes(frame, mids)
    BY <2>1, SentFrames DEF FrameDescribes, IsSubscribe
  <2>6. FramesDescribe(message_queue_, LocalMids)
    BY <2>2 DEF FramesDescribe
  <2>7. FramesDescribe(message_queue_', LocalMids)
    BY <1>0, <2>2, <2>5, <2>6, FramesDescribeStay
  <2>8. ~Unanswered
    BY <2>2, <2>3 DEF Unanswered
  <2>9. \A m \in LocalMids : Comes(acks, m, LocalMids, Stream(m), Grant(m))
    BY <2>3, <2>4, <2>8, AllAnswered DEF Grant
  <2> QED
    BY <1>2, <1>3, <2>2, <2>3, <2>7, <2>9
<1>16. CASE HandleSubAckFrame
  <2>1. /\ acks # <<>> /\ acks' = Tail(acks)
        /\ UNCHANGED <<session, message_queue_, granted, changed, carried, leftover>>
        /\ IF Head(acks).answer = <<>>
           THEN UNCHANGED localVars
           ELSE /\ local_audio_sources_' = Assigned(local_audio_sources_, Head(acks))
                /\ local_video_sources_' = Assigned(local_video_sources_, Head(acks))
    BY <1>16 DEF HandleSubAckFrame, historyVars
  <2>2. Open /\ Clean /\ ~changed
    BY <1>5, <2>1
  <2>3. PICK ack : ack = Head(acks)
    OBVIOUS
  <2>4. \A m \in LocalMids :
          /\ Gives(ack, m, LocalMids)
               => Comes(acks', m, LocalMids, Given(ack, m, LocalMids), Grant(m))
          /\ ~Gives(ack, m, LocalMids) => Comes(acks', m, LocalMids, Stream(m), Grant(m))
    BY <1>0, <1>1, <2>1, <2>2, <2>3, TailComes
  <2>5. /\ LocalMids' = LocalMids
        /\ \A m \in LocalMids :
             Stream(m)' = IF Gives(ack, m, LocalMids) THEN Given(ack, m, LocalMids) ELSE Stream(m)
    <3>1. CASE ack.answer = <<>>
      BY <1>2, <2>1, <2>3, <3>1, RefusedGives
    <3>2. CASE ack.answer # <<>>
      <4>1. \A map : Assigned(map, ack)
              = [m \in DOMAIN map |-> IF Gives(ack, m, LocalMids)
                                      THEN Given(ack, m, LocalMids) ELSE map[m]]
        BY <2>1, <2>3, <3>2, AssignedProperties
      <4>2. /\ DOMAIN local_audio_sources_' = DOMAIN local_audio_sources_
            /\ DOMAIN local_video_sources_' = DOMAIN local_video_sources_
            /\ \A m \in DOMAIN local_audio_sources_ :
                 local_audio_sources_'[m] = IF Gives(ack, m, LocalMids)
                   THEN Given(ack, m, LocalMids) ELSE local_audio_sources_[m]
            /\ \A m \in DOMAIN local_video_sources_ :
                 local_video_sources_'[m] = IF Gives(ack, m, LocalMids)
                   THEN Given(ack, m, LocalMids) ELSE local_video_sources_[m]
        BY <2>1, <2>3, <3>2, <4>1
      <4>3. LocalMids' = LocalMids
        BY <4>2 DEF LocalMids
      <4>4. \A m \in LocalMids :
              Stream(m)' = IF Gives(ack, m, LocalMids) THEN Given(ack, m, LocalMids)
                           ELSE Stream(m)
        <5> SUFFICES ASSUME NEW m \in LocalMids
                     PROVE  Stream(m)' = IF Gives(ack, m, LocalMids)
                                         THEN Given(ack, m, LocalMids) ELSE Stream(m)
          OBVIOUS
        <5>1. CASE m \in DOMAIN local_audio_sources_
          BY <4>2, <5>1 DEF Stream
        <5>2. CASE m \notin DOMAIN local_audio_sources_
          BY <4>2, <5>2 DEF Stream, LocalMids
        <5> QED
          BY <5>1, <5>2
      <4> QED
        BY <4>3, <4>4
    <3> QED
      BY <3>1, <3>2
  <2>6. \A m \in LocalMids' : Comes(acks', m, LocalMids', Stream(m)', Grant(m)')
    BY <1>3, <2>1, <2>4, <2>5
  <2> QED
    BY <1>1, <2>1, <2>2, <2>5, <2>6
<1>17. CASE ServerReceives
  <2>1. PICK frame : frame = Head(message_queue_)
    OBVIOUS
  <2>2. /\ message_queue_ # <<>> /\ message_queue_' = Tail(message_queue_)
        /\ UNCHANGED <<session, localVars, changed, carried, leftover>>
        /\ Joins(frame) \/ Ignores(frame) \/ Hears(frame) \/ Refuses(frame) \/ Accepts(frame)
    BY <1>17, <2>1 DEF ServerReceives
  <2>3. Open /\ Clean /\ ~changed
    BY <1>5, <2>2
  <2>4. /\ FramesDescribe(message_queue_', LocalMids) /\ FrameDescribes(frame, LocalMids)
        /\ frame \in Frame
    BY <1>0, <1>1, <2>1, <2>2, <2>3, FramesDescribeStay, Shortened DEF Taken
  <2>5. CASE Joins(frame) \/ Ignores(frame) \/ Hears(frame)
    BY <1>4, <2>2, <2>3, <2>4, <2>5 DEF Joins, Ignores, Hears
  <2>6. CASE Refuses(frame)
    <3>1. PICK ack : ack = [answer |-> <<>>, allocations |-> <<>>]
      OBVIOUS
    <3>2. ack \in SubscribeAck /\ ack.answer = <<>>
      BY <3>1, EmptySeq DEF SubscribeAck
    <3>3. acks' = Append(acks, ack) /\ UNCHANGED granted
      BY <2>6, <3>1 DEF Refuses
    <3>4. \A m \in LocalMids : Comes(acks', m, LocalMids, Stream(m), Grant(m))
      BY <1>0, <1>1, <2>3, <3>2, <3>3, AppendComes, RefusedGives
    <3> QED
      BY <1>1, <1>2, <1>3, <2>2, <2>3, <2>4, <3>3, <3>4
  <2>7. CASE Accepts(frame)
    <3>0. frame \in SubscribeFrame /\ Describes(frame.send, frame.offer, LocalMids)
      BY <2>4, <2>7, FrameTypes DEF Accepts, FrameDescribes
    <3>1. PICK ack : ack = [answer |-> frame.offer, allocations |-> Allocations(frame.send)]
      OBVIOUS
    <3>2. ack \in SubscribeAck
      BY <2>7, <3>0, <3>1, AllocationProperties DEF Accepts, SubscribeFrame, SubscribeAck
    <3>3. acks' = Append(acks, ack)
      BY <2>7, <3>1 DEF Accepts
    <3>4. PICK named : named = NamedBy(frame.send)
      OBVIOUS
    <3>5. /\ named \subseteq LocalMids
          /\ \A m : Gives(ack, m, LocalMids) <=> m \in named
          /\ \A m \in named :
               Given(ack, m, LocalMids) = Allocation(frame.send, DescriptorOf(frame.send, m))
      BY <2>7, <3>0, <3>1, <3>4, AcceptedGives
    <3>6. /\ DOMAIN granted' = DOMAIN granted \union named
          /\ \A m \in named : granted'[m] = Given(ack, m, LocalMids)
          /\ \A m \in DOMAIN granted \ named : granted'[m] = granted[m]
      BY <2>7, <3>0, <3>4, <3>5, GrantedProperties
    <3>7. ASSUME NEW m \in LocalMids
          PROVE  Comes(acks', m, LocalMids, Stream(m), Grant(m)')
      <4>1. CASE m \in named
        <5>1. Grant(m)' = Given(ack, m, LocalMids) /\ Gives(ack, m, LocalMids)
          BY <3>5, <3>6, <4>1 DEF Grant
        <5> QED
          BY <1>0, <3>2, <3>3, <5>1, AppendComes
      <4>2. CASE m \notin named
        <5>1. Grant(m)' = Grant(m) /\ ~Gives(ack, m, LocalMids)
          BY <3>5, <3>6, <4>2 DEF Grant
        <5>2. Comes(acks, m, LocalMids, Stream(m), Grant(m))
          BY <1>1, <2>3
        <5> QED
          BY <1>0, <3>2, <3>3, <5>1, <5>2, AppendComes
      <4> QED
        BY <4>1, <4>2
    <3>8. DOMAIN granted' \subseteq LocalMids
      BY <1>1, <2>3, <3>5, <3>6
    <3> QED
      BY <1>2, <2>2, <2>4, <3>7, <3>8
  <2> QED
    BY <2>2, <2>5, <2>6, <2>7
<1>18. ~OnLeaveAck /\ ~OnSignalingErrorReceived /\ ~OnSignalingClosed
  BY DEF OnLeaveAck, OnSignalingErrorReceived, OnSignalingClosed, Open
<1>19. CASE UNCHANGED vars
  <2>1. UNCHANGED <<session, localVars, message_queue_, acks, granted, changed, carried, leftover>>
    BY <1>19 DEF vars, serverVars, historyVars
  <2> QED
    BY <1>4, <1>5, <2>1
<1>20. CASE App
  BY <1>6, <1>7, <1>8, <1>10, <1>11, <1>13, <1>14, <1>20, Zenon DEF App
<1>21. CASE Signaling
  BY <1>15, <1>16, <1>18, <1>21, Zenon DEF Signaling
<1> QED
  BY <1>17, <1>19, <1>20, <1>21, Zenon DEF Next

\* In a session that follows one that was left in order the client and the server
\* agree, whenever no answer is due, on the stream of every local mid: whatever
\* the offers, with sections that are not local between those that are, with
\* SUBSCRIBEs answered late, refused or sent twice.
THEOREM LocalStreamsAgreeHolds == Spec => []LocalStreamsAgree
<1>1. Init => TypeOK /\ SessionInv /\ NamesInv /\ AgreeInv
  <2>1. NoStreams(EmptyMap)
    BY SourcesStay
  <2> QED
    BY <2>1, SessionInit, TypeInit DEF Init, NamesInv, AgreeInv, Open
<1>2. TypeOK /\ SessionInv /\ NamesInv /\ AgreeInv /\ [Next]_vars
        => TypeOK' /\ SessionInv' /\ NamesInv' /\ AgreeInv'
  BY TypeStep, SessionStep, NamesStep, AgreeStep
<1>3. TypeOK /\ AgreeInv => LocalStreamsAgree
  BY AllAnswered DEF AgreeInv, Open, Grant, LocalStreamsAgree
<1> QED
  BY <1>1, <1>2, <1>3, PTL DEF Spec

=============================================================================
