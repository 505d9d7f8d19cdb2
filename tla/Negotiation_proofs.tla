-------------------------- MODULE Negotiation_proofs --------------------------
(***************************************************************************)
(* Proofs about Negotiation, for any number of attendees, candidates and   *)
(* offers: its types, and that one SUBSCRIBE at a time is under way.       *)
(***************************************************************************)
EXTENDS Negotiation, StdMap_proofs, FiniteSetTheorems, SequenceTheorems, TLAPS

\* The mids of new transceivers are below the bound.
LEMMA AddTransceiversType ==
  ASSUME TypeOK, NEW attendees \in SUBSET Attendee, AddTransceivers(attendees)
  PROVE  /\ transceivers' \in 0 .. MaxTransceivers
         /\ remote_video_transceivers_' \in Map(Attendee, Mid)
<1> USE NegotiationBoundsAssumption DEF NegotiationBoundsAssumption
<1> DEFINE new == attendees \ DOMAIN remote_video_transceivers_
           count == Cardinality(new)
           old == DOMAIN remote_video_transceivers_
<1>1. count \in Nat
  <2>1. IsFiniteSet(new)
    BY AttendeeAssumption, FS_Subset DEF AttendeeAssumption
  <2> QED
    BY <2>1, FS_CardinalityType
<1>2. transceivers \in Nat /\ transceivers + count <= MaxTransceivers
        /\ transceivers' = transceivers + count
  BY <1>1 DEF TypeOK, AddTransceivers
<1>3. PICK mids \in Bijection(new, transceivers + 1 .. transceivers + count) :
        remote_video_transceivers_' =
          [a \in old \union new |->
             IF a \in new THEN mids[a] ELSE remote_video_transceivers_[a]]
  BY DEF AddTransceivers
<1>4. mids \in [new -> transceivers + 1 .. transceivers + count]
  BY <1>3 DEF Bijection, Injection
<1>5. transceivers + 1 .. transceivers + count \subseteq Mid
  BY <1>1, <1>2 DEF Mid
<1>6. old \subseteq Attendee /\ \A a \in old : remote_video_transceivers_[a] \in Mid
  BY MapElim DEF TypeOK
<1>7. remote_video_transceivers_' \in [old \union new -> Mid]
  <2>1. \A a \in new : mids[a] \in Mid
    BY <1>4, <1>5
  <2> QED
    BY <1>3, <1>6, <2>1
<1>8. remote_video_transceivers_' \in Map(Attendee, Mid)
  BY <1>6, <1>7, MapIntro
<1> QED
  BY <1>1, <1>2, <1>8

\* What a SUBSCRIBE is made of.
LEMMA SubscribeFrameType ==
  ASSUME TypeOK
  PROVE  SubscribeFrame \in Subscribe
<1>1. DOMAIN remote_video_sources_ \in SUBSET Mid
  BY MapElim DEF TypeOK
<1> QED
  BY <1>1 DEF SubscribeFrame, Subscribe, TypeOK

LEMMA SendUpdatesType ==
  ASSUME TypeOK, NEW candidates, SendUpdates(candidates)
  PROVE  /\ updates_in_flight_' \in BOOLEAN /\ lost' \in BOOLEAN
         /\ subscribes' \in Seq(Subscribe) /\ sent' \in Offer
<1>1. CASE candidates >= 1 /\ ~updates_in_flight_
             /\ signaling_state = "have-local-offer" /\ connected
  <2>1. /\ updates_in_flight_' = TRUE
        /\ subscribes' = Append(subscribes, SubscribeFrame)
        /\ sent' = local /\ lost' = FALSE
    BY <1>1 DEF SendUpdates
  <2>2. subscribes \in Seq(Subscribe) /\ local \in Offer
    BY DEF TypeOK
  <2>3. subscribes' \in Seq(Subscribe)
    BY <2>1, <2>2, SubscribeFrameType
  <2>4. updates_in_flight_' \in BOOLEAN /\ lost' \in BOOLEAN /\ sent' \in Offer
    BY <2>1, <2>2
  <2> QED
    BY <2>3, <2>4
<1>2. CASE ~(candidates >= 1 /\ ~updates_in_flight_
               /\ signaling_state = "have-local-offer" /\ connected)
  <2>1. lost' \in BOOLEAN
    BY <1>2 DEF SendUpdates
  <2>2. UNCHANGED <<updates_in_flight_, subscribes, sent>>
    BY <1>2 DEF SendUpdates
  <2> QED
    BY <2>1, <2>2 DEF TypeOK
<1> QED
  BY <1>1, <1>2

\* What is to be subscribed, and what the client makes of it.
LEMMA RemoteSuccessType ==
  ASSUME TypeOK, OnRemoteSuccess
  PROVE  /\ video_sources_to_subscribe_' \in Map(Mid, Attendee)
         /\ remote_video_sources_' \in Map(Mid, Attendee)
         /\ chain' \in Seq(Operation)
<1> DEFINE new == NewRemoteVideos
           MidOf(a) == remote_video_transceivers_[a]
           old == DOMAIN video_sources_to_subscribe_
           W == old \union {MidOf(a) : a \in new}
           wanted == [m \in W |->
                        IF \E a \in new : MidOf(a) = m
                        THEN CHOOSE a \in new : MidOf(a) = m
                        ELSE video_sources_to_subscribe_[m]]
<1>1. CASE new = {}
  BY <1>1 DEF OnRemoteSuccess, TypeOK
<1>2. CASE new # {}
  <2>1. video_sources_to_subscribe_' = wanted /\ Resubscribe(wanted)
    BY <1>2 DEF OnRemoteSuccess
  <2>2. new \subseteq Attendee /\ \A a \in new : MidOf(a) \in Mid
    BY MapElim DEF TypeOK, NewRemoteVideos
  <2>3. old \subseteq Mid /\ \A m \in old : video_sources_to_subscribe_[m] \in Attendee
    BY MapElim DEF TypeOK
  <2>4. W \in SUBSET Mid
    BY <2>2, <2>3
  <2>5. \A m \in W : wanted[m] \in Attendee
    <3> SUFFICES ASSUME NEW m \in W PROVE wanted[m] \in Attendee
      OBVIOUS
    <3>1. CASE \E a \in new : MidOf(a) = m
      <4>1. (CHOOSE a \in new : MidOf(a) = m) \in new
        BY <3>1
      <4> QED
        BY <3>1, <4>1, <2>2
    <3>2. CASE ~\E a \in new : MidOf(a) = m
      BY <3>2, <2>3
    <3> QED
      BY <3>1, <3>2
  <2>6. wanted \in [W -> Attendee]
    BY <2>5
  <2>7. wanted \in Map(Mid, Attendee)
    BY <2>4, <2>6, MapIntro
  <2>8. Subscriptions(wanted) \in Map(Mid, Attendee)
    <3> HIDE DEF wanted
    <3> DEFINE known == DOMAIN remote_video_sources_
               D == known \union {n \in DOMAIN wanted : wanted[n] \in available}
    <3>1. known \subseteq Mid /\ \A m \in known : remote_video_sources_[m] \in Attendee
      BY MapElim DEF TypeOK
    <3>2. DOMAIN wanted \subseteq Mid /\ \A m \in DOMAIN wanted : wanted[m] \in Attendee
      BY <2>7, MapElim
    <3>3. D \in SUBSET Mid
      BY <3>1, <3>2
    <3>4. Subscriptions(wanted) \in [D -> Attendee]
      BY <3>1, <3>2 DEF Subscriptions
    <3> QED
      BY <3>3, <3>4, MapIntro
  <2>9. chain' \in Seq(Operation)
    <3>1. chain' = chain \/ chain' = Append(chain, Create)
      BY <2>1 DEF Resubscribe
    <3>2. Create \in Operation
      BY DEF Operation
    <3>3. chain \in Seq(Operation)
      BY DEF TypeOK
    <3> QED
      BY <3>1, <3>2, <3>3
  <2> QED
    BY <2>1, <2>7, <2>8, <2>9 DEF Resubscribe
<1> QED
  BY <1>1, <1>2

LEMMA OperationTypes ==
  /\ Create \in Operation
  /\ \A o \in Offer : SetLocal(o) \in Operation
  /\ \A n \in 0 .. MaxTransceivers : SetRemote(n) \in Operation
BY DEF Operation

LEMMA CreateOfferType ==
  ASSUME TypeOK, CreateOffer
  PROVE  chain' \in Seq(Operation) /\ offers' \in 0 .. MaxOffers
<1>1. chain' = chain \/ chain' = Append(chain, Create)
  BY DEF CreateOffer
<1>2. chain' \in Seq(Operation)
  <2>1. chain \in Seq(Operation)
    BY DEF TypeOK
  <2> QED
    BY <1>1, <2>1, OperationTypes
<1>3. offers' \in 0 .. MaxOffers
  BY NegotiationBoundsAssumption DEF NegotiationBoundsAssumption, CreateOffer, TypeOK
<1> QED
  BY <1>2, <1>3

LEMMA HeadTailType ==
  ASSUME NEW S, NEW seq \in Seq(S), seq # <<>>
  PROVE  Head(seq) \in S /\ Tail(seq) \in Seq(S)
BY HeadTailProperties

\* The transceivers that are stopped are among those the controller knows.
LEMMA RunSetRemoteType ==
  ASSUME TypeOK, RunSetRemote
  PROVE  stopped' \subseteq Mid /\ remote_video_transceivers_' \in Map(Attendee, Mid)
<1>1. CASE UNCHANGED <<stopped, remote_video_transceivers_>>
  BY <1>1 DEF TypeOK
<1>2. CASE \E attendees \in SUBSET Tracked : OnRemoveTrack(attendees)
  <2>1. PICK attendees \in SUBSET Tracked : OnRemoveTrack(attendees)
    BY <1>2
  <2>2. \A a \in attendees : remote_video_transceivers_[a] \in Mid
    BY MapElim DEF TypeOK, Tracked
  <2>3. stopped' \subseteq Mid
    BY <2>1, <2>2 DEF OnRemoveTrack, TypeOK
  <2>4. remote_video_transceivers_' \in Map(Attendee, Mid)
    BY <2>1, EraseType DEF OnRemoveTrack, TypeOK
  <2> QED
    BY <2>3, <2>4
<1> QED
  BY <1>1, <1>2 DEF RunSetRemote

LEMMA CallbackAppended ==
  ASSUME callbacks \in Seq(Callback)
  PROVE  \A c \in Callback : Append(callbacks, c) \in Seq(Callback)
BY AppendProperties

\* Every variable keeps its type: mids stay below the bound, and only mids that
\* exist are subscribed to.
THEOREM TypeCorrect == Spec => []TypeOK
<1> USE NegotiationBoundsAssumption DEF NegotiationBoundsAssumption
<1>1. Init => TypeOK
  <2> SUFFICES ASSUME Init PROVE TypeOK
    OBVIOUS
  <2>1. NoOffer \in Offer
    BY DEF NoOffer, Offer
  <2>2. [offer |-> NoOffer, receives |-> {}] \in Subscribe
    BY <2>1 DEF Subscribe
  <2>3. /\ chain \in Seq(Operation) /\ callbacks \in Seq(Callback)
        /\ subscribes \in Seq(Subscribe) /\ answers \in Seq(0 .. MaxTransceivers)
    BY DEF Init
  <2>4. /\ remote_video_transceivers_ \in Map(Attendee, Mid)
        /\ video_sources_to_subscribe_ \in Map(Mid, Attendee)
        /\ remote_video_sources_ \in Map(Mid, Attendee)
    BY EmptyMapType DEF Init
  <2>5. local \in Offer /\ sent \in Offer /\ subscribed \in Subscribe
    BY <2>1, <2>2 DEF Init
  <2>6. /\ transceivers \in 0 .. MaxTransceivers /\ turn \in 0 .. MaxTurn
        /\ offers \in 0 .. MaxOffers
    BY DEF Init
  <2>7. /\ peer_connection_ \in {"null", "open", "closed"}
        /\ signaling_state \in {"new", "have-local-offer", "stable"}
        /\ stopped \subseteq Mid /\ sending \in BOOLEAN /\ updates_in_flight_ \in BOOLEAN
        /\ connected \in BOOLEAN /\ available \subseteq Attendee
        /\ lost \in BOOLEAN /\ refused \in BOOLEAN
    BY DEF Init
  <2> QED
    BY <2>3, <2>4, <2>5, <2>6, <2>7 DEF TypeOK
<1>2. TypeOK /\ [Next]_vars => TypeOK'
  <2> SUFFICES ASSUME TypeOK, [Next]_vars PROVE TypeOK'
    OBVIOUS
  <2>1. ASSUME NEW attendees \in SUBSET Attendee, OnSignalingClientStarted(attendees)
        PROVE  TypeOK'
    <3>1. chain' \in Seq(Operation)
      BY <2>1, OperationTypes DEF OnSignalingClientStarted
    <3> QED
      BY <2>1, <3>1, AddTransceiversType
      DEF OnSignalingClientStarted, TypeOK, wireVars, historyVars
  <2>2. ASSUME NEW attendees \in SUBSET Attendee, OnRemoteVideoSourcesAvailable(attendees)
        PROVE  TypeOK'
    BY <2>2, AddTransceiversType, CreateOfferType
    DEF OnRemoteVideoSourcesAvailable, TypeOK, wireVars
  <2>3. ASSUME NEW attendees \in SUBSET Attendee, OnRemoteVideoSourcesUnavailable(attendees)
        PROVE  TypeOK'
    <3>1. remote_video_transceivers_' \in Map(Attendee, Mid)
      BY <2>3, EraseType DEF OnRemoteVideoSourcesUnavailable, TypeOK
    <3> QED
      BY <2>3, <3>1, CreateOfferType
      DEF OnRemoteVideoSourcesUnavailable, TypeOK, wireVars, peerVars
  <2>4. CASE OnRemoteDescriptionReceived
    <3>1. Head(answers) \in 0 .. MaxTransceivers /\ answers' \in Seq(0 .. MaxTransceivers)
      BY <2>4, HeadTailType DEF OnRemoteDescriptionReceived, TypeOK
    <3>2. chain' \in Seq(Operation)
      BY <2>4, <3>1, OperationTypes DEF OnRemoteDescriptionReceived, TypeOK
    <3> QED
      BY <2>4, <3>1, <3>2
      DEF OnRemoteDescriptionReceived, TypeOK, peerVars, controllerVars, clientVars,
          historyVars
  <2>5. CASE ConnectionEnds
    <3>1. subscribes' \in Seq(Subscribe) /\ answers' \in Seq(0 .. MaxTransceivers)
      BY <2>5 DEF ConnectionEnds
    <3> QED
      BY <2>5, <3>1
      DEF ConnectionEnds, TypeOK, peerVars, queueVars, controllerVars, historyVars
  <2>6. CASE OnSignalingClientStopped
    <3>1. chain' \in Seq(Operation) /\ callbacks' \in Seq(Callback)
      BY <2>6 DEF OnSignalingClientStopped
    <3> QED
      BY <2>6, <3>1
      DEF OnSignalingClientStopped, TypeOK, controllerVars, clientVars, wireVars, historyVars
  <2>7. CASE RunCreate
    <3>1. Tail(chain) \in Seq(Operation)
      BY <2>7, HeadTailType DEF RunCreate, TypeOK
    <3>2. [sections |-> transceivers, stopped |-> stopped, sending |-> sending] \in Offer
      BY DEF TypeOK, Offer
    <3>3. chain' \in Seq(Operation)
      BY <2>7, <3>1, <3>2, OperationTypes DEF RunCreate
    <3> QED
      BY <2>7, <3>3
      DEF RunCreate, TypeOK, peerVars, controllerVars, clientVars, wireVars, historyVars
  <2>8. CASE RunSetLocal
    <3>1. Head(chain) \in Operation /\ chain' \in Seq(Operation)
      BY <2>8, HeadTailType DEF RunSetLocal, TypeOK
    <3>2. Head(chain).offer \in Offer
      BY <2>8, <3>1 DEF RunSetLocal, Operation, Create, SetLocal, SetRemote
    <3>3. callbacks' \in Seq(Callback)
      <4>1. callbacks' = callbacks \/ callbacks' = Append(callbacks, "local")
        BY <2>8 DEF RunSetLocal
      <4>2. callbacks \in Seq(Callback)
        BY DEF TypeOK
      <4>3. \A c \in {"local", "remote", "remote failed"} : c \in Callback
        BY DEF Callback
      <4> QED
        BY <4>1, <4>2, <4>3, CallbackAppended
    <3>4. local' \in Offer /\ signaling_state' \in {"new", "have-local-offer", "stable"}
      BY <2>8, <3>2 DEF RunSetLocal, TypeOK
    <3> QED
      BY <2>8, <3>1, <3>3, <3>4
      DEF RunSetLocal, TypeOK, controllerVars, clientVars, wireVars, historyVars
  <2>9. CASE RunSetRemote
    <3>1. chain' \in Seq(Operation)
      BY <2>9, HeadTailType DEF RunSetRemote, TypeOK
    <3>2. callbacks' \in Seq(Callback)
      <4>1. \E c \in {"remote", "remote failed"} : callbacks' = Append(callbacks, c)
        BY <2>9 DEF RunSetRemote
      <4>2. callbacks \in Seq(Callback)
        BY DEF TypeOK
      <4>3. \A c \in {"local", "remote", "remote failed"} : c \in Callback
        BY DEF Callback
      <4> QED
        BY <4>1, <4>2, <4>3, CallbackAppended
    <3>3. stopped' \subseteq Mid /\ remote_video_transceivers_' \in Map(Attendee, Mid)
      BY <2>9, RunSetRemoteType DEF RunSetRemote
    <3>4. signaling_state' \in {"new", "have-local-offer", "stable"}
      BY <2>9 DEF RunSetRemote, TypeOK
    <3> QED
      BY <2>9, <3>1, <3>2, <3>3, <3>4
      DEF RunSetRemote, TypeOK, clientVars, wireVars, historyVars
  <2>10. CASE OnLocalSuccess
    <3>1. callbacks' \in Seq(Callback)
      BY <2>10, HeadTailType DEF OnLocalSuccess, TypeOK
    <3> QED
      BY <2>10, <3>1, SendUpdatesType DEF OnLocalSuccess, TypeOK, peerVars, clientVars
  <2>11. CASE OnRemoteSuccess
    <3>1. callbacks' \in Seq(Callback)
      BY <2>11, HeadTailType DEF OnRemoteSuccess, TypeOK
    <3>2. updates_in_flight_' \in BOOLEAN
      BY <2>11 DEF OnRemoteSuccess
    <3>3. UNCHANGED <<peerVars, remote_video_transceivers_, connected, available,
                      wireVars, historyVars>>
      BY <2>11 DEF OnRemoteSuccess
    <3> QED
      BY <2>11, <3>1, <3>2, <3>3, RemoteSuccessType
      DEF TypeOK, peerVars, wireVars, historyVars
  <2>12. CASE OnRemoteFailure
    <3>1. callbacks' \in Seq(Callback)
      BY <2>12, HeadTailType DEF OnRemoteFailure, TypeOK
    <3> QED
      BY <2>12, <3>1
      DEF OnRemoteFailure, TypeOK, peerVars, clientVars, wireVars, historyVars
  <2>13. CASE OnIceCandidate
    <3>1. turn' \in 0 .. MaxTurn
      BY <2>13 DEF OnIceCandidate, TypeOK
    <3> QED
      BY <2>13, <3>1, SendUpdatesType DEF OnIceCandidate, TypeOK, queueVars, clientVars
  <2>14. CASE StartLocalVideo
    BY <2>14, CreateOfferType
    DEF StartLocalVideo, TypeOK, controllerVars, clientVars, wireVars
  <2>15. CASE Stop
    BY <2>15 DEF Stop, TypeOK, queueVars, controllerVars, wireVars, historyVars
  <2>16. CASE ServerAnswers
    <3>1. Head(subscribes) \in Subscribe /\ subscribes' \in Seq(Subscribe)
      BY <2>16, HeadTailType DEF ServerAnswers, TypeOK
    <3>2. answers' \in Seq(0 .. MaxTransceivers)
      BY <2>16, <3>1 DEF ServerAnswers, TypeOK, Subscribe, Offer
    <3> QED
      BY <2>16, <3>1, <3>2
      DEF ServerAnswers, TypeOK, peerVars, queueVars, controllerVars, clientVars, historyVars
  <2>17. CASE ServerRefuses
    <3>1. subscribes' \in Seq(Subscribe)
      BY <2>17, HeadTailType DEF ServerRefuses, TypeOK
    <3> QED
      BY <2>17, <3>1
      DEF ServerRefuses, TypeOK, peerVars, queueVars, controllerVars, clientVars
  <2>18. CASE UNCHANGED vars
    BY <2>18 DEF vars, TypeOK, peerVars, queueVars, controllerVars, clientVars, wireVars,
                 historyVars
  <2> QED
    BY <2>1, <2>2, <2>3, <2>4, <2>5, <2>6, <2>7, <2>8, <2>9, <2>10, <2>11, <2>12, <2>13,
       <2>14, <2>15, <2>16, <2>17, <2>18
    DEF Next, RunThread, SignalingThread, App, Server
<1> QED
  BY <1>1, <1>2, PTL DEF Spec

-----------------------------------------------------------------------------
(* One update at a time.  Underway is taken apart into the places of four     *)
(* sequences; what a step appends to one of them and takes off another is     *)
(* what moves an update on.                                                   *)

\* The places of seq that hold one of the marked elements.
Places(seq, marked) == {i \in DOMAIN seq : seq[i] \in marked}

AtMostOne(S) == \A x, y \in S : x = y

LEMMA PlacesAppend ==
  ASSUME NEW S, NEW seq \in Seq(S), NEW elt \in S, NEW marked
  PROVE  /\ elt \notin marked => Places(Append(seq, elt), marked) = Places(seq, marked)
         /\ elt \in marked => Places(Append(seq, elt), marked)
                                = Places(seq, marked) \union {Len(seq) + 1}
<1>1. DOMAIN Append(seq, elt) = DOMAIN seq \union {Len(seq) + 1}
  BY AppendProperties
<1>2. \A i \in DOMAIN seq : Append(seq, elt)[i] = seq[i]
  BY AppendProperties
<1>3. Append(seq, elt)[Len(seq) + 1] = elt
  BY AppendProperties
<1> QED
  BY <1>1, <1>2, <1>3 DEF Places

LEMMA PlacesTail ==
  ASSUME NEW S, NEW seq \in Seq(S), seq # <<>>, NEW marked,
         AtMostOne(Places(seq, marked))
  PROVE  /\ AtMostOne(Places(Tail(seq), marked))
         /\ Head(seq) \in marked =>
              Places(seq, marked) # {} /\ Places(Tail(seq), marked) = {}
         /\ Head(seq) \notin marked =>
              (Places(Tail(seq), marked) = {} <=> Places(seq, marked) = {})
<1> DEFINE P == Places(seq, marked)
           Q == Places(Tail(seq), marked)
<1>1. /\ Len(seq) \in Nat /\ Len(seq) >= 1 /\ DOMAIN seq = 1 .. Len(seq)
      /\ DOMAIN Tail(seq) = 1 .. (Len(seq) - 1)
      /\ \A i \in 1 .. (Len(seq) - 1) : Tail(seq)[i] = seq[i + 1]
      /\ Head(seq) = seq[1]
  BY HeadTailProperties, EmptySeq
<1>2. \A i \in Q : i \in Int /\ i >= 1 /\ i + 1 \in P
  BY <1>1 DEF Places
<1>3. \A i \in P : i = 1 \/ (i - 1 \in Q /\ i \in Int)
  BY <1>1 DEF Places
<1>4. 1 \in P <=> Head(seq) \in marked
  BY <1>1 DEF Places
<1>5. AtMostOne(Q)
  BY <1>2 DEF AtMostOne
<1>6. 1 \in P => Q = {}
  BY <1>2 DEF AtMostOne
<1>7. 1 \notin P => (Q = {} <=> P = {})
  BY <1>2, <1>3
<1> QED
  BY <1>4, <1>5, <1>6, <1>7

Remotes == {SetRemote(n) : n \in 0 .. MaxTransceivers}
Reports == {"remote", "remote failed"}

Asked    == DOMAIN subscribes
Answered == DOMAIN answers
Applying == Places(chain, Remotes)
Reported == Places(callbacks, Reports)

Nothing == Asked = {} /\ Answered = {} /\ Applying = {} /\ Reported = {}

Alone ==
  /\ AtMostOne(Asked) /\ AtMostOne(Answered)
  /\ AtMostOne(Applying) /\ AtMostOne(Reported)
  /\ Asked # {} => Answered = {} /\ Applying = {} /\ Reported = {}
  /\ Answered # {} => Applying = {} /\ Reported = {}
  /\ Applying # {} => Reported = {}

\* While updates_in_flight_ is not set nothing is under way, so that sending
\* another makes it one; this is what makes the property inductive.
FlightInv ==
  /\ Alone
  /\ ~updates_in_flight_ => Nothing
  /\ connected /\ ~refused /\ updates_in_flight_ => ~Nothing

LEMMA UnderwayParts ==
  ASSUME TypeOK
  PROVE  Underway = {<<"subscribe", i>> : i \in Asked}
                      \union {<<"answer", i>> : i \in Answered}
                      \union {<<"setremote", i>> : i \in Applying}
                      \union {<<"remote", i>> : i \in Reported}
<1>1. {j \in DOMAIN chain : chain[j].op = "setremote"} = Applying
  <2>1. \A j \in DOMAIN chain : chain[j] \in Operation
    BY DEF TypeOK
  <2>2. \A o \in Operation : o.op = "setremote" <=> o \in Remotes
    BY DEF Operation, Remotes, Create, SetLocal, SetRemote
  <2> QED
    BY <2>1, <2>2 DEF Applying, Places
<1>2. {j \in DOMAIN callbacks : callbacks[j] # "local"} = Reported
  <2>1. \A j \in DOMAIN callbacks : callbacks[j] \in Callback
    BY DEF TypeOK
  <2>2. \A c \in Callback : c # "local" <=> c \in Reports
    BY DEF Callback, Reports
  <2> QED
    BY <2>1, <2>2 DEF Reported, Places
<1> QED
  BY <1>1, <1>2 DEF Underway, Asked, Answered

LEMMA FlightInvImplies ==
  ASSUME TypeOK, FlightInv
  PROVE  OneUpdateAtATime /\ FlightEnds
<1>1. OneUpdateAtATime
  BY UnderwayParts DEF FlightInv, Alone, AtMostOne, OneUpdateAtATime
<1>2. Nothing <=> Underway = {}
  BY UnderwayParts DEF Nothing
<1> QED
  BY <1>1, <1>2 DEF FlightInv, FlightEnds

\* Offers and local descriptions that are queued move no update on.
LEMMA NotRemote ==
  /\ Create \notin Remotes
  /\ \A o \in Offer : SetLocal(o) \notin Remotes
  /\ \A n \in 0 .. MaxTransceivers : SetRemote(n) \in Remotes
  /\ \A o \in Operation : o \in Remotes <=> o.op = "setremote"
<1>1. \A r \in Remotes : r.op = "setremote"
  BY DEF Remotes, SetRemote
<1>2. Create.op = "create" /\ \A o \in Offer : SetLocal(o).op = "setlocal"
  BY DEF Create, SetLocal
<1>3. \A n \in 0 .. MaxTransceivers : SetRemote(n) \in Remotes
  BY DEF Remotes
<1>4. Operation = {Create} \union {SetLocal(o) : o \in Offer} \union Remotes
  BY DEF Operation, Remotes
<1> HIDE DEF Remotes
<1>5. \A o \in Operation : o \in Remotes <=> o.op = "setremote"
  BY <1>1, <1>2, <1>4
<1> QED
  BY <1>1, <1>2, <1>3, <1>5

LEMMA CreateAppended ==
  ASSUME TypeOK, chain' = chain \/ chain' = Append(chain, Create)
  PROVE  Applying' = Applying
<1>1. chain \in Seq(Operation) /\ Create \in Operation
  BY OperationTypes DEF TypeOK
<1>2. Places(Append(chain, Create), Remotes) = Places(chain, Remotes)
  BY <1>1, NotRemote, PlacesAppend
<1> QED
  BY <1>2 DEF Applying, Remotes

LEMMA SetLocalAppended ==
  ASSUME NEW rest \in Seq(Operation), NEW o \in Offer
  PROVE  Places(Append(rest, SetLocal(o)), Remotes) = Places(rest, Remotes)
<1>1. SetLocal(o) \in Operation /\ SetLocal(o) \notin Remotes
  BY OperationTypes, NotRemote
<1> QED
  BY <1>1, PlacesAppend

\* A step that leaves the four places, and what is known of them, alone.
LEMMA FlightKept ==
  ASSUME FlightInv,
         Asked' = Asked, Answered' = Answered, Applying' = Applying, Reported' = Reported,
         UNCHANGED updates_in_flight_, connected' => connected, UNCHANGED refused
  PROVE  FlightInv'
BY DEF FlightInv, Alone, Nothing, AtMostOne

LEMMA SendUpdatesFlight ==
  ASSUME TypeOK, FlightInv, NEW candidates, SendUpdates(candidates),
         Answered' = Answered, Applying' = Applying,
         AtMostOne(Reported'), Reported' = {} <=> Reported = {},
         UNCHANGED <<connected, refused>>
  PROVE  FlightInv'
<1>1. CASE UNCHANGED <<updates_in_flight_, subscribes>>
  BY <1>1 DEF Asked, FlightInv, Alone, Nothing, AtMostOne
<1>2. CASE /\ ~updates_in_flight_ /\ updates_in_flight_'
           /\ subscribes' = Append(subscribes, SubscribeFrame)
  <2>1. Nothing
    BY <1>2 DEF FlightInv
  <2>2. subscribes = <<>>
    BY <2>1, EmptySeq DEF Nothing, Asked, TypeOK
  <2>3. Asked' = {1}
    BY <1>2, <2>2 DEF Asked
  <2> QED
    BY <1>2, <2>1, <2>3 DEF FlightInv, Alone, Nothing, AtMostOne
<1> QED
  BY <1>1, <1>2 DEF SendUpdates

\* Taking off the first of a sequence that has at most one.
LEMMA OnlyOneTaken ==
  ASSUME NEW S, NEW seq \in Seq(S), seq # <<>>, AtMostOne(DOMAIN seq)
  PROVE  DOMAIN seq # {} /\ DOMAIN Tail(seq) = {}
<1>1. /\ Len(seq) \in Nat /\ Len(seq) >= 1 /\ DOMAIN seq = 1 .. Len(seq)
      /\ DOMAIN Tail(seq) = 1 .. (Len(seq) - 1)
  BY HeadTailProperties, EmptySeq
<1>2. Len(seq) = 1
  <2>1. 1 \in DOMAIN seq /\ Len(seq) \in DOMAIN seq
    BY <1>1
  <2> QED
    BY <2>1 DEF AtMostOne
<1> QED
  BY <1>1, <1>2

\* Putting the first on a sequence that has none.
LEMMA FirstPut ==
  ASSUME NEW S, NEW seq \in Seq(S), DOMAIN seq = {}, NEW elt \in S
  PROVE  DOMAIN Append(seq, elt) = {1}
<1>1. seq = <<>>
  BY EmptySeq
<1> QED
  BY <1>1

\* What a result that is taken off the callbacks leaves.
LEMMA ReportTaken ==
  ASSUME TypeOK, FlightInv, callbacks # <<>>, Head(callbacks) \in Reports,
         callbacks' = Tail(callbacks), ~updates_in_flight_',
         Asked' = Asked, Answered' = Answered, Applying' = Applying
  PROVE  FlightInv'
<1>1. Reported # {} /\ Reported' = {}
  BY PlacesTail DEF Reported, FlightInv, Alone, TypeOK
<1> QED
  BY <1>1 DEF FlightInv, Alone, Nothing, AtMostOne

\* Without a peer connection there is nothing to do.
NullInv ==
  peer_connection_ = "null" =>
    chain = <<>> /\ callbacks = <<>> /\ subscribes = <<>> /\ answers = <<>>

LEMMA NullInvHolds == Spec => []NullInv
<1>1. Init => NullInv
  BY DEF Init, NullInv
<1>2. NullInv /\ [Next]_vars => NullInv'
  <2> SUFFICES ASSUME NullInv, [Next]_vars PROVE NullInv'
    OBVIOUS
  <2> USE DEF NullInv
  <2>1. CASE UNCHANGED peer_connection_ /\ peer_connection_ # "null"
    BY <2>1
  <2>2. CASE OnSignalingClientStopped
    BY <2>2 DEF OnSignalingClientStopped, wireVars
  <2>3. CASE Stop
    BY <2>3 DEF Stop
  <2>4. ASSUME NEW attendees \in SUBSET Attendee, OnSignalingClientStarted(attendees)
        PROVE  NullInv'
    BY <2>4 DEF OnSignalingClientStarted
  <2>5. CASE RunThread
    BY <2>5, <2>1, <2>2, <2>4
    DEF RunThread, OnRemoteVideoSourcesAvailable, OnRemoteVideoSourcesUnavailable,
        OnRemoteDescriptionReceived, ConnectionEnds, peerVars
  <2>6. CASE SignalingThread
    BY <2>6, <2>1
    DEF SignalingThread, RunCreate, RunSetLocal, RunSetRemote, OnLocalSuccess,
        OnRemoteSuccess, OnRemoteFailure, peerVars
  <2>7. CASE OnIceCandidate \/ StartLocalVideo
    BY <2>7, <2>1 DEF OnIceCandidate, StartLocalVideo
  <2>8. CASE Server
    BY <2>8, <2>1 DEF Server, ServerAnswers, ServerRefuses, peerVars
  <2>9. CASE UNCHANGED vars
    BY <2>9 DEF vars, peerVars, queueVars, wireVars
  <2> QED
    BY <2>3, <2>5, <2>6, <2>7, <2>8, <2>9 DEF Next, App
<1> QED
  BY <1>1, <1>2, PTL DEF Spec

LEMMA FlightInvHolds == Spec => []FlightInv
<1>1. Init => FlightInv
  <2> SUFFICES ASSUME Init PROVE FlightInv
    OBVIOUS
  <2>1. Asked = {} /\ Answered = {} /\ Applying = {} /\ Reported = {}
    BY DEF Init, Asked, Answered, Applying, Reported, Places
  <2> QED
    BY <2>1 DEF Init, FlightInv, Alone, Nothing, AtMostOne
<1>2. TypeOK /\ NullInv /\ FlightInv /\ [Next]_vars => FlightInv'
  <2> SUFFICES ASSUME TypeOK, NullInv, FlightInv, [Next]_vars PROVE FlightInv'
    OBVIOUS
  <2>0. /\ chain \in Seq(Operation) /\ callbacks \in Seq(Callback)
        /\ subscribes \in Seq(Subscribe) /\ answers \in Seq(0 .. MaxTransceivers)
    BY DEF TypeOK
  <2>1. ASSUME NEW attendees \in SUBSET Attendee,
               \/ OnRemoteVideoSourcesAvailable(attendees)
               \/ OnRemoteVideoSourcesUnavailable(attendees)
               \/ StartLocalVideo
        PROVE  FlightInv'
    <3>1. chain' = chain \/ chain' = Append(chain, Create)
      BY <2>1 DEF OnRemoteVideoSourcesAvailable, OnRemoteVideoSourcesUnavailable,
                  StartLocalVideo, CreateOffer
    <3>2. UNCHANGED <<callbacks, updates_in_flight_, connected, subscribes, answers, refused>>
      BY <2>1 DEF OnRemoteVideoSourcesAvailable, OnRemoteVideoSourcesUnavailable,
                  StartLocalVideo, controllerVars, clientVars, wireVars
    <3> QED
      BY <3>1, <3>2, CreateAppended, FlightKept DEF Asked, Answered, Reported
  <2>2. ASSUME NEW attendees \in SUBSET Attendee, OnSignalingClientStarted(attendees)
        PROVE  FlightInv'
    <3>1. Applying = {} /\ Applying' = {}
      <4>1. \A o \in Range(chain') : o = Create
        BY <2>2 DEF OnSignalingClientStarted, Range
      <4>2. Applying' = {}
        BY <4>1, NotRemote DEF Applying, Places, Range, Remotes
      <4>3. Applying = {}
        BY <2>2 DEF OnSignalingClientStarted, NullInv, Applying, Places
      <4> QED
        BY <4>2, <4>3
    <3>2. /\ Asked' = Asked /\ Answered' = Answered /\ Reported' = Reported
          /\ UNCHANGED <<updates_in_flight_, connected, refused>>
      BY <2>2 DEF OnSignalingClientStarted, wireVars, historyVars, Asked, Answered, Reported
    <3> QED
      BY <3>1, <3>2, FlightKept
  <2>3. CASE OnRemoteDescriptionReceived
    <3>1. Answered # {} /\ Answered' = {}
      BY <2>3, <2>0, OnlyOneTaken
      DEF OnRemoteDescriptionReceived, FlightInv, Alone, Answered
    <3>2. Head(answers) \in 0 .. MaxTransceivers
      BY <2>3, <2>0, HeadTailType DEF OnRemoteDescriptionReceived
    <3>3. Applying' = Applying \union {Len(chain) + 1}
      BY <2>3, <2>0, <3>2, OperationTypes, NotRemote, PlacesAppend
      DEF OnRemoteDescriptionReceived, Applying
    <3>4. Applying = {} /\ Asked = {} /\ Reported = {} /\ updates_in_flight_
      BY <3>1 DEF FlightInv, Alone, Nothing
    <3>5. Asked' = Asked /\ Reported' = Reported /\ UNCHANGED updates_in_flight_
      BY <2>3 DEF OnRemoteDescriptionReceived, controllerVars, Asked, Reported
    <3> QED
      BY <3>1, <3>3, <3>4, <3>5 DEF FlightInv, Alone, Nothing, AtMostOne
  <2>4. CASE Stop
    BY <2>4, FlightKept
    DEF Stop, queueVars, controllerVars, wireVars, historyVars, Asked, Answered, Applying,
        Reported
  <2>5. CASE ConnectionEnds
    <3>1. Asked' = {} /\ Answered' = {} /\ ~connected'
      BY <2>5 DEF ConnectionEnds, Asked, Answered
    <3>2. Applying' = Applying /\ Reported' = Reported /\ UNCHANGED updates_in_flight_
      BY <2>5 DEF ConnectionEnds, queueVars, controllerVars, Applying, Reported
    <3> QED
      BY <3>1, <3>2 DEF FlightInv, Alone, Nothing, AtMostOne
  <2>6. CASE OnSignalingClientStopped
    <3>1. Applying' = {} /\ Reported' = {} /\ ~connected'
      BY <2>6 DEF OnSignalingClientStopped, clientVars, Applying, Reported, Places
    <3>2. Asked' = Asked /\ Answered' = Answered /\ UNCHANGED updates_in_flight_
      BY <2>6 DEF OnSignalingClientStopped, wireVars, controllerVars, Asked, Answered
    <3> QED
      BY <3>1, <3>2 DEF FlightInv, Alone, Nothing, AtMostOne
  <2>7. CASE RunCreate
    <3>1. Tail(chain) \in Seq(Operation) /\ Head(chain) = Create /\ chain # <<>>
      BY <2>7, <2>0, HeadTailType DEF RunCreate
    <3>2. AtMostOne(Applying)
      BY DEF FlightInv, Alone
    <3>3. AtMostOne(Places(Tail(chain), Remotes))
          /\ (Places(Tail(chain), Remotes) = {} <=> Applying = {})
      BY <3>1, <3>2, <2>0, NotRemote, PlacesTail DEF Applying
    <3>4. PICK o \in Offer : chain' = Tail(chain) \/ chain' = Append(Tail(chain), SetLocal(o))
      <4>1. [sections |-> transceivers, stopped |-> stopped, sending |-> sending] \in Offer
        BY DEF TypeOK, Offer
      <4> QED
        BY <4>1, <2>7 DEF RunCreate
    <3>5. Applying' = Places(Tail(chain), Remotes)
      <4>1. Places(Append(Tail(chain), SetLocal(o)), Remotes) = Places(Tail(chain), Remotes)
        BY <3>1, SetLocalAppended
      <4> QED
        BY <3>4, <4>1 DEF Applying
    <3>6. /\ Asked' = Asked /\ Answered' = Answered /\ Reported' = Reported
          /\ UNCHANGED <<updates_in_flight_, connected, refused>>
      BY <2>7 DEF RunCreate, controllerVars, clientVars, wireVars, historyVars, Asked,
                  Answered, Reported
    <3> QED
      BY <3>3, <3>5, <3>6 DEF FlightInv, Alone, Nothing, AtMostOne
  <2>8. CASE RunSetLocal
    <3>1. Head(chain) \in Operation /\ Head(chain) \notin Remotes
      BY <2>8, <2>0, HeadTailType, NotRemote DEF RunSetLocal
    <3>2. AtMostOne(Applying') /\ (Applying' = {} <=> Applying = {})
      BY <2>8, <2>0, <3>1, PlacesTail DEF RunSetLocal, Applying, FlightInv, Alone
    <3>3. Reported' = Reported
      <4>1. callbacks' = callbacks \/ callbacks' = Append(callbacks, "local")
        BY <2>8 DEF RunSetLocal
      <4>2. "local" \in Callback /\ "local" \notin Reports
        BY DEF Callback, Reports
      <4>3. Places(Append(callbacks, "local"), Reports) = Places(callbacks, Reports)
        BY <4>2, <2>0, PlacesAppend
      <4> QED
        BY <4>1, <4>3 DEF Reported
    <3>4. /\ Asked' = Asked /\ Answered' = Answered
          /\ UNCHANGED <<updates_in_flight_, connected, refused>>
      BY <2>8 DEF RunSetLocal, controllerVars, clientVars, wireVars, historyVars, Asked,
                  Answered
    <3> QED
      BY <3>2, <3>3, <3>4 DEF FlightInv, Alone, Nothing, AtMostOne
  <2>9. CASE RunSetRemote
    <3>1. Head(chain) \in Operation /\ Head(chain) \in Remotes
      BY <2>9, <2>0, HeadTailType, NotRemote DEF RunSetRemote
    <3>2. Applying # {} /\ Applying' = {}
      BY <2>9, <2>0, <3>1, PlacesTail DEF RunSetRemote, Applying, FlightInv, Alone
    <3>3. Reported = {} /\ Asked = {} /\ Answered = {} /\ updates_in_flight_
      BY <3>2 DEF FlightInv, Alone, Nothing
    <3>4. PICK c \in Reports : callbacks' = Append(callbacks, c)
      BY <2>9 DEF RunSetRemote, Reports
    <3>5. c \in Callback
      BY DEF Callback, Reports
    <3>6. Reported' = Reported \union {Len(callbacks) + 1}
      BY <2>0, <3>4, <3>5, PlacesAppend DEF Reported
    <3>7. /\ Asked' = Asked /\ Answered' = Answered
          /\ UNCHANGED <<updates_in_flight_, connected, refused>>
      BY <2>9 DEF RunSetRemote, clientVars, wireVars, historyVars, Asked,
                  Answered
    <3> QED
      BY <3>2, <3>3, <3>6, <3>7 DEF FlightInv, Alone, Nothing, AtMostOne
  <2>10. CASE OnLocalSuccess
    <3>1. AtMostOne(Reported') /\ (Reported' = {} <=> Reported = {})
      <4>1. Head(callbacks) \notin Reports
        BY <2>10 DEF OnLocalSuccess, Reports
      <4> QED
        BY <2>10, <2>0, <4>1, PlacesTail DEF OnLocalSuccess, Reported, FlightInv, Alone
    <3>2. Answered' = Answered /\ Applying' = Applying /\ UNCHANGED <<connected, refused>>
      BY <2>10 DEF OnLocalSuccess, clientVars, Answered, Applying
    <3> QED
      BY <2>10, <3>1, <3>2, SendUpdatesFlight DEF OnLocalSuccess
  <2>11. CASE OnRemoteSuccess
    <3>1. chain' = chain \/ chain' = Append(chain, Create)
      BY <2>11 DEF OnRemoteSuccess, Resubscribe
    <3>2. Head(callbacks) \in Reports /\ callbacks # <<>>
      BY <2>11 DEF OnRemoteSuccess, Reports
    <3>3. callbacks' = Tail(callbacks) /\ ~updates_in_flight_'
      BY <2>11 DEF OnRemoteSuccess
    <3>4. Asked' = Asked /\ Answered' = Answered
      BY <2>11 DEF OnRemoteSuccess, wireVars, Asked, Answered
    <3> QED
      BY <3>1, <3>2, <3>3, <3>4, CreateAppended, ReportTaken
  <2>12. CASE OnRemoteFailure
    <3>1. Head(callbacks) \in Reports /\ callbacks # <<>>
      BY <2>12 DEF OnRemoteFailure, Reports
    <3>2. callbacks' = Tail(callbacks) /\ ~updates_in_flight_'
      BY <2>12 DEF OnRemoteFailure
    <3>3. Asked' = Asked /\ Answered' = Answered /\ Applying' = Applying
      BY <2>12 DEF OnRemoteFailure, wireVars, Asked, Answered, Applying
    <3> QED
      BY <3>1, <3>2, <3>3, ReportTaken
  <2>13. CASE OnIceCandidate
    <3>1. /\ Answered' = Answered /\ Applying' = Applying /\ Reported' = Reported
          /\ UNCHANGED <<connected, refused>>
      BY <2>13 DEF OnIceCandidate, queueVars, clientVars, Answered, Applying, Reported
    <3>2. AtMostOne(Reported')
      BY <3>1 DEF FlightInv, Alone
    <3> QED
      BY <2>13, <3>1, <3>2, SendUpdatesFlight DEF OnIceCandidate
  <2>14. CASE ServerAnswers
    <3>1. Asked # {} /\ Asked' = {}
      BY <2>14, <2>0, OnlyOneTaken DEF ServerAnswers, FlightInv, Alone, Asked
    <3>2. Answered = {} /\ Applying = {} /\ Reported = {} /\ updates_in_flight_
      BY <3>1 DEF FlightInv, Alone, Nothing
    <3>3. Answered' = {1}
      <4>1. Head(subscribes).offer.sections \in 0 .. MaxTransceivers
        <5>1. Head(subscribes) \in Subscribe
          BY <2>14, <2>0, HeadTailType DEF ServerAnswers
        <5> QED
          BY <5>1 DEF Subscribe, Offer
      <4> QED
        BY <2>14, <2>0, <3>2, <4>1, FirstPut DEF ServerAnswers, Answered
    <3>4. Applying' = Applying /\ Reported' = Reported /\ UNCHANGED updates_in_flight_
      BY <2>14 DEF ServerAnswers, queueVars, controllerVars, Applying, Reported
    <3> QED
      BY <3>1, <3>2, <3>3, <3>4 DEF FlightInv, Alone, Nothing, AtMostOne
  <2>15. CASE ServerRefuses
    <3>1. Asked # {} /\ Asked' = {}
      BY <2>15, <2>0, OnlyOneTaken DEF ServerRefuses, FlightInv, Alone, Asked
    <3>2. /\ Answered' = Answered /\ Applying' = Applying /\ Reported' = Reported
          /\ UNCHANGED updates_in_flight_ /\ refused'
      BY <2>15 DEF ServerRefuses, queueVars, controllerVars, Answered, Applying, Reported
    <3> QED
      BY <3>1, <3>2 DEF FlightInv, Alone, Nothing, AtMostOne
  <2>16. CASE UNCHANGED vars
    BY <2>16, FlightKept
    DEF vars, queueVars, controllerVars, clientVars, wireVars, historyVars, Asked, Answered,
        Applying, Reported
  <2> QED
    BY <2>1, <2>2, <2>3, <2>4, <2>5, <2>6, <2>7, <2>8, <2>9, <2>10, <2>11, <2>12, <2>13,
       <2>14, <2>15, <2>16
    DEF Next, RunThread, SignalingThread, App, Server
<1> QED
  BY <1>1, <1>2, TypeCorrect, NullInvHolds, PTL DEF Spec

\* However candidates, videos, offers and answers interleave, only one SUBSCRIBE
\* is under way at a time.
THEOREM OneUpdateAtATimeHolds == Spec => []OneUpdateAtATime
<1>1. TypeOK /\ FlightInv => OneUpdateAtATime
  BY FlightInvImplies
<1> QED
  BY <1>1, TypeCorrect, FlightInvHolds, PTL

\* While updates_in_flight_ is set an answer is due, unless the server gave none
\* or the connection has ended.
THEOREM FlightEndsHolds == Spec => []FlightEnds
<1>1. TypeOK /\ FlightInv => FlightEnds
  BY FlightInvImplies
<1> QED
  BY <1>1, TypeCorrect, FlightInvHolds, PTL
=============================================================================
