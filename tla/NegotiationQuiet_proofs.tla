------------------------ MODULE NegotiationQuiet_proofs ------------------------
(***************************************************************************)
(* The proof of QuietMeansSubscribed: what the peer connection, the        *)
(* controller, the client and the server agree on while an offer goes      *)
(* round, so that they agree when nothing is under way.                    *)
(***************************************************************************)
EXTENDS Negotiation_proofs

(* What is asked for when nothing is under way.  The last occurrence of an    *)
(* element matters: whether an offer is set after another, and whether a      *)
(* local description is reported after an answer.                             *)

\* Some e of seq has none of the others after it.
Final(seq, e, others) ==
  \E i \in DOMAIN seq : /\ seq[i] = e
                        /\ \A j \in DOMAIN seq : j > i => seq[j] \notin others

\* The elements of a longer queue, and of the rest of one.
LEMMA AppendElements ==
  ASSUME NEW S, NEW seq \in Seq(S), NEW elt \in S
  PROVE  /\ Range(Append(seq, elt)) = Range(seq) \union {elt}
         /\ \A e, others :
              Final(Append(seq, elt), e, others) <=>
                elt = e \/ (elt \notin others /\ Final(seq, e, others))
<1>1. /\ DOMAIN Append(seq, elt) = DOMAIN seq \union {Len(seq) + 1}
      /\ \A i \in DOMAIN seq : Append(seq, elt)[i] = seq[i] /\ i \in Nat /\ i <= Len(seq)
      /\ Append(seq, elt)[Len(seq) + 1] = elt
      /\ Len(seq) \in Nat
  BY AppendProperties, LenProperties
<1>2. Range(Append(seq, elt)) = Range(seq) \union {elt}
  BY <1>1 DEF Range
<1>3. ASSUME NEW e, NEW others
      PROVE  Final(Append(seq, elt), e, others) <=>
                elt = e \/ (elt \notin others /\ Final(seq, e, others))
  <2>1. ASSUME Final(Append(seq, elt), e, others), elt # e
        PROVE  elt \notin others /\ Final(seq, e, others)
    <3>1. PICK i \in DOMAIN Append(seq, elt) :
            /\ Append(seq, elt)[i] = e
            /\ \A j \in DOMAIN Append(seq, elt) : j > i => Append(seq, elt)[j] \notin others
      BY <2>1 DEF Final
    <3>2. i \in DOMAIN seq
      BY <1>1, <2>1, <3>1
    <3>3. elt \notin others
      BY <1>1, <3>1, <3>2
    <3>4. seq[i] = e /\ \A j \in DOMAIN seq : j > i => seq[j] \notin others
      BY <1>1, <3>1, <3>2
    <3> QED
      BY <3>2, <3>3, <3>4 DEF Final
  <2>2. ASSUME elt = e
        PROVE  Final(Append(seq, elt), e, others)
    <3>1. \A j \in DOMAIN Append(seq, elt) : ~(j > Len(seq) + 1)
      BY <1>1
    <3> QED
      BY <1>1, <2>2, <3>1 DEF Final
  <2>3. ASSUME elt \notin others, Final(seq, e, others)
        PROVE  Final(Append(seq, elt), e, others)
    <3>1. PICK i \in DOMAIN seq :
            seq[i] = e /\ \A j \in DOMAIN seq : j > i => seq[j] \notin others
      BY <2>3 DEF Final
    <3>2. \A j \in DOMAIN Append(seq, elt) : j > i => Append(seq, elt)[j] \notin others
      BY <1>1, <2>3, <3>1
    <3> QED
      BY <1>1, <3>1, <3>2 DEF Final
  <2> QED
    BY <2>1, <2>2, <2>3
<1> QED
  BY <1>2, <1>3

LEMMA TailElements ==
  ASSUME NEW S, NEW seq \in Seq(S), seq # <<>>
  PROVE  /\ Range(seq) = {Head(seq)} \union Range(Tail(seq))
         /\ Head(seq) \in S /\ Tail(seq) \in Seq(S)
         /\ \A e, others :
              Final(seq, e, others) <=>
                \/ Final(Tail(seq), e, others)
                \/ Head(seq) = e /\ Range(Tail(seq)) \intersect others = {}
<1> DEFINE rest == Tail(seq)
<1>1. /\ Len(seq) \in Nat /\ Len(seq) >= 1 /\ DOMAIN seq = 1 .. Len(seq)
      /\ DOMAIN rest = 1 .. (Len(seq) - 1)
      /\ \A i \in 1 .. (Len(seq) - 1) : rest[i] = seq[i + 1]
      /\ Head(seq) = seq[1] /\ Head(seq) \in S /\ rest \in Seq(S)
  BY HeadTailProperties, EmptySeq
<1> HIDE DEF rest
<1>2. \A i \in DOMAIN rest : i \in Int /\ i + 1 \in DOMAIN seq /\ rest[i] = seq[i + 1]
  BY <1>1
<1>3. \A i \in DOMAIN seq :
        i \in Int /\ (i = 1 \/ (i > 1 /\ i - 1 \in DOMAIN rest /\ rest[i - 1] = seq[i]))
  BY <1>1
<1>4. 1 \in DOMAIN seq
  BY <1>1
<1>5. Range(seq) = {Head(seq)} \union Range(rest)
  <2>1. \A x \in Range(seq) : x = Head(seq) \/ x \in Range(rest)
    BY <1>1, <1>3 DEF Range
  <2>2. \A x \in Range(rest) : x \in Range(seq)
    BY <1>2 DEF Range
  <2>3. Head(seq) \in Range(seq)
    BY <1>1, <1>4 DEF Range
  <2> QED
    BY <2>1, <2>2, <2>3
<1>6. ASSUME NEW e, NEW others
      PROVE  Final(seq, e, others) <=>
                \/ Final(rest, e, others)
                \/ Head(seq) = e /\ Range(rest) \intersect others = {}
  <2>1. ASSUME Final(seq, e, others)
        PROVE  \/ Final(rest, e, others)
               \/ Head(seq) = e /\ Range(rest) \intersect others = {}
    <3>1. PICK i \in DOMAIN seq :
            seq[i] = e /\ \A j \in DOMAIN seq : j > i => seq[j] \notin others
      BY <2>1 DEF Final
    <3>2. CASE i = 1
      <4>1. \A j \in DOMAIN rest : j + 1 > 1
        BY <1>1
      <4>2. \A j \in DOMAIN rest : rest[j] \notin others
        BY <1>2, <3>1, <3>2, <4>1
      <4> QED
        BY <1>1, <3>1, <3>2, <4>2 DEF Range
    <3>3. CASE i # 1
      <4>1. i - 1 \in DOMAIN rest /\ rest[i - 1] = e
        BY <1>3, <3>1, <3>3
      <4>2. \A j \in DOMAIN rest : j > i - 1 => rest[j] \notin others
        BY <1>2, <1>3, <3>1
      <4> QED
        BY <4>1, <4>2 DEF Final
    <3> QED
      BY <3>2, <3>3
  <2>2. ASSUME Final(rest, e, others)
        PROVE  Final(seq, e, others)
    <3>1. PICK i \in DOMAIN rest :
            rest[i] = e /\ \A j \in DOMAIN rest : j > i => rest[j] \notin others
      BY <2>2 DEF Final
    <3>2. i + 1 \in DOMAIN seq /\ seq[i + 1] = e /\ i \in Int /\ i >= 1
      BY <1>1, <1>2, <3>1
    <3>3. \A j \in DOMAIN seq : j > i + 1 => seq[j] \notin others
      BY <1>3, <3>1, <3>2
    <3> QED
      BY <3>2, <3>3 DEF Final
  <2>3. ASSUME Head(seq) = e, Range(rest) \intersect others = {}
        PROVE  Final(seq, e, others)
    <3>1. \A j \in DOMAIN seq : j > 1 => seq[j] \notin others
      BY <1>3, <2>3 DEF Range
    <3> QED
      BY <1>1, <1>4, <2>3, <3>1 DEF Final
  <2> QED
    BY <2>1, <2>2, <2>3
<1> QED
  BY <1>1, <1>5, <1>6 DEF rest

\* A last occurrence is an element.
LEMMA FinalElement ==
  ASSUME NEW seq, NEW e, NEW others, Final(seq, e, others)
  PROVE  e \in Range(seq)
BY DEF Final, Range

\* A result with no local description reported after it.
Unfollowed(seq, c) == Final(seq, c, {"local"})

LEMMA UnfollowedElement ==
  ASSUME NEW seq, NEW c, Unfollowed(seq, c)
  PROVE  c \in Range(seq)
BY FinalElement DEF Unfollowed

\* A result is put on the callbacks, or taken off.
LEMMA CallbackAdded ==
  ASSUME TypeOK, NEW c \in Callback, callbacks' = Append(callbacks, c)
  PROVE  /\ Range(callbacks') = Range(callbacks) \union {c}
         /\ \A e : Unfollowed(callbacks', e) <=>
                    e = c \/ (c # "local" /\ Unfollowed(callbacks, e))
<1>1. callbacks \in Seq(Callback)
  BY DEF TypeOK
<1>2. Range(Append(callbacks, c)) = Range(callbacks) \union {c}
  BY <1>1, AppendElements
<1>3. ASSUME NEW e
      PROVE  Unfollowed(callbacks', e) <=> e = c \/ (c # "local" /\ Unfollowed(callbacks, e))
  <2>1. PICK others : others = {"local"}
    OBVIOUS
  <2>2. Final(Append(callbacks, c), e, others) <=>
          c = e \/ (c \notin others /\ Final(callbacks, e, others))
    BY <1>1, AppendElements
  <2> QED
    BY <2>1, <2>2 DEF Unfollowed
<1> QED
  BY <1>2, <1>3

LEMMA CallbackTaken ==
  ASSUME TypeOK, callbacks # <<>>, callbacks' = Tail(callbacks)
  PROVE  /\ Range(callbacks) = {Head(callbacks)} \union Range(callbacks')
         /\ \A e : Unfollowed(callbacks, e) <=>
                    Unfollowed(callbacks', e)
                      \/ (e = Head(callbacks) /\ "local" \notin Range(callbacks'))
<1>1. callbacks \in Seq(Callback)
  BY DEF TypeOK
<1>2. Range(callbacks) = {Head(callbacks)} \union Range(Tail(callbacks))
  BY <1>1, TailElements
<1>3. ASSUME NEW e
      PROVE  Unfollowed(callbacks, e) <=>
               Unfollowed(callbacks', e)
                 \/ (e = Head(callbacks) /\ "local" \notin Range(callbacks'))
  <2>1. PICK others : others = {"local"}
    OBVIOUS
  <2>2. Final(callbacks, e, others) <=>
          \/ Final(Tail(callbacks), e, others)
          \/ Head(callbacks) = e /\ Range(Tail(callbacks)) \intersect others = {}
    BY <1>1, TailElements
  <2>3. Range(Tail(callbacks)) \intersect others = {} <=> "local" \notin Range(callbacks')
    BY <2>1
  <2> QED
    BY <2>1, <2>2, <2>3 DEF Unfollowed
<1> QED
  BY <1>2, <1>3

\* An operation is put on a queue of them.
LEMMA OperationAdded ==
  ASSUME NEW queue \in Seq(Operation), NEW o \in Operation
  PROVE  \A longer : longer = Append(queue, o) => Range(longer) = Range(queue) \union {o}
BY AppendElements

Settings == {SetLocal(o) : o \in Offer}

\* The operations are told apart by their kind.
LEMMA OperationKinds ==
  /\ \A o \in Operation : /\ o = Create <=> o.op = "create"
                          /\ o \in Settings <=> o.op = "setlocal"
                          /\ o \in Remotes <=> o.op = "setremote"
                          /\ o.op \in {"create", "setlocal", "setremote"}
  /\ Create.op = "create"
  /\ \A o \in Offer : SetLocal(o).op = "setlocal" /\ SetLocal(o).offer = o
  /\ \A n : SetRemote(n).op = "setremote" /\ SetRemote(n).sections = n
<1>1. /\ Create.op = "create"
      /\ \A o \in Offer : SetLocal(o).op = "setlocal" /\ SetLocal(o).offer = o
      /\ \A n : SetRemote(n).op = "setremote" /\ SetRemote(n).sections = n
  BY DEF Create, SetLocal, SetRemote
<1>2. Operation = {Create} \union Settings \union Remotes
  BY DEF Operation, Settings, Remotes
<1>3. \A o \in Settings : o.op = "setlocal"
  BY <1>1 DEF Settings
<1>4. \A o \in Remotes : o.op = "setremote"
  BY <1>1 DEF Remotes
<1>5. \A o \in Operation : /\ o = Create <=> o.op = "create"
                           /\ o \in Settings <=> o.op = "setlocal"
                           /\ o \in Remotes <=> o.op = "setremote"
                           /\ o.op \in {"create", "setlocal", "setremote"}
  BY <1>1, <1>2, <1>3, <1>4
<1> QED
  BY <1>1, <1>5

\* Where the one update under way is.
LEMMA Idle ==
  ASSUME TypeOK, FlightInv, ~updates_in_flight_
  PROVE  /\ subscribes = <<>> /\ answers = <<>>
         /\ Range(chain) \intersect Remotes = {}
         /\ Range(callbacks) \intersect Reports = {}
<1>1. Nothing
  BY DEF FlightInv
<1>2. subscribes \in Seq(Subscribe) /\ answers \in Seq(0 .. MaxTransceivers)
  BY DEF TypeOK
<1>3. subscribes = <<>> /\ answers = <<>>
  BY <1>1, <1>2, EmptySeq DEF Nothing, Asked, Answered
<1> QED
  BY <1>1, <1>3 DEF Nothing, Applying, Reported, Places, Range

LEMMA Reporting ==
  ASSUME TypeOK, FlightInv, callbacks # <<>>, Head(callbacks) \in Reports
  PROVE  /\ updates_in_flight_
         /\ subscribes = <<>> /\ answers = <<>>
         /\ Range(chain) \intersect Remotes = {}
         /\ Range(Tail(callbacks)) \intersect Reports = {}
<1>1. callbacks \in Seq(Callback)
  BY DEF TypeOK
<1>2. Reported # {} /\ Places(Tail(callbacks), Reports) = {}
  BY <1>1, PlacesTail DEF Reported, FlightInv, Alone
<1>3. Asked = {} /\ Answered = {} /\ Applying = {} /\ updates_in_flight_
  BY <1>2 DEF FlightInv, Alone, Nothing
<1>4. subscribes \in Seq(Subscribe) /\ answers \in Seq(0 .. MaxTransceivers)
  BY DEF TypeOK
<1>5. subscribes = <<>> /\ answers = <<>>
  BY <1>3, <1>4, EmptySeq DEF Asked, Answered
<1> QED
  BY <1>2, <1>3, <1>5 DEF Applying, Places, Range

LEMMA Applied ==
  ASSUME TypeOK, FlightInv, chain # <<>>, Head(chain).op = "setremote"
  PROVE  /\ updates_in_flight_
         /\ subscribes = <<>> /\ answers = <<>>
         /\ Range(callbacks) \intersect Reports = {}
<1>1. chain \in Seq(Operation)
  BY DEF TypeOK
<1>2. Head(chain) \in Remotes
  BY <1>1, HeadTailType, OperationKinds
<1>3. Applying # {}
  BY <1>1, <1>2, PlacesTail DEF Applying, FlightInv, Alone
<1>4. Asked = {} /\ Answered = {} /\ Reported = {} /\ updates_in_flight_
  BY <1>3 DEF FlightInv, Alone, Nothing
<1>5. subscribes \in Seq(Subscribe) /\ answers \in Seq(0 .. MaxTransceivers)
  BY DEF TypeOK
<1>6. subscribes = <<>> /\ answers = <<>>
  BY <1>4, <1>5, EmptySeq DEF Asked, Answered
<1> QED
  BY <1>4, <1>6 DEF Reported, Places, Range

\* An answer on its way, or a SUBSCRIBE.
LEMMA Waiting ==
  ASSUME TypeOK, FlightInv, subscribes # <<>> \/ answers # <<>>
  PROVE  /\ updates_in_flight_
         /\ Range(callbacks) \intersect Reports = {}
         /\ Range(chain) \intersect Remotes = {}
<1>1. subscribes \in Seq(Subscribe) /\ answers \in Seq(0 .. MaxTransceivers)
  BY DEF TypeOK
<1>2. Asked # {} \/ Answered # {}
  BY <1>1, EmptySeq DEF Asked, Answered
<1>3. Reported = {} /\ Applying = {} /\ updates_in_flight_
  BY <1>2 DEF FlightInv, Alone, Nothing
<1> QED
  BY <1>3 DEF Reported, Applying, Places, Range

\* What SendUpdates comes to.
Sends(candidates) ==
  /\ candidates >= 1 /\ ~updates_in_flight_
  /\ signaling_state = "have-local-offer" /\ connected
  /\ updates_in_flight_' = TRUE
  /\ subscribes = <<>> /\ subscribes' = <<SubscribeFrame>>
  /\ sent' = local /\ lost' = FALSE

Keeps(candidates) ==
  /\ ~(candidates >= 1 /\ ~updates_in_flight_
         /\ signaling_state = "have-local-offer" /\ connected)
  /\ UNCHANGED <<updates_in_flight_, subscribes, sent>>
  /\ lost => lost'
  /\ candidates >= 1 /\ updates_in_flight_ /\ sent # local => lost'

\* It is one of the two.
LEMMA SendUpdatesOutcome ==
  ASSUME TypeOK, FlightInv, NEW candidates, SendUpdates(candidates)
  PROVE  Sends(candidates) \/ Keeps(candidates)
<1>1. CASE candidates >= 1 /\ ~updates_in_flight_
             /\ signaling_state = "have-local-offer" /\ connected
  <2>1. subscribes = <<>>
    BY <1>1, Idle
  <2>2. Append(subscribes, SubscribeFrame) = <<SubscribeFrame>>
    BY <2>1
  <2> QED
    BY <1>1, <2>1, <2>2 DEF SendUpdates, Sends
<1>2. CASE ~(candidates >= 1 /\ ~updates_in_flight_
               /\ signaling_state = "have-local-offer" /\ connected)
  BY <1>2 DEF SendUpdates, Keeps
<1> QED
  BY <1>1, <1>2

\* A SUBSCRIBE needs a candidate, and a pending or applied offer.
FreshInv ==
  /\ turn = 0 => ~updates_in_flight_ /\ signaling_state # "stable"
  /\ turn >= 1 => signaling_state # "new"
  /\ peer_connection_ = "null" /\ connected => turn = 0 /\ signaling_state = "new"

\* The offer the peer connection would make now, if those transceivers were stopped:
\* stopping one asks for no offer.
Target(mids) == [sections |-> transceivers, stopped |-> mids, sending |-> sending]

\* Such an offer is pending or will be: none is set after it that is older.
OfferInv ==
  peer_connection_ = "open" =>
    \/ Create \in Range(chain)
    \/ \E mids \in SUBSET Mid :
         \/ Final(chain, SetLocal(Target(mids)), Settings)
         \/ local = Target(mids) /\ Range(chain) \intersect Settings = {}

\* Mids are handed out in order and stay with their attendee: a mid that was ever
\* subscribed to is older than the last transceiver, and if an attendee has it now,
\* the client asks for that attendee's video under it.
Old(mid) == mid <= transceivers

MidsInv ==
  /\ Old(local.sections)
  /\ \A o \in Range(chain) : o.op = "setlocal" => Old(o.offer.sections)
  /\ DOMAIN remote_video_transceivers_ \subseteq available
  /\ \A a \in DOMAIN remote_video_transceivers_ : Old(remote_video_transceivers_[a])
  /\ \A a, b \in DOMAIN remote_video_transceivers_ :
       remote_video_transceivers_[a] = remote_video_transceivers_[b] => a = b
  /\ \A mid \in DOMAIN video_sources_to_subscribe_ : Old(mid)
  /\ DOMAIN remote_video_sources_ \subseteq DOMAIN video_sources_to_subscribe_
  /\ \A a \in DOMAIN remote_video_transceivers_ :
       remote_video_transceivers_[a] \in DOMAIN video_sources_to_subscribe_ =>
         /\ remote_video_transceivers_[a] \in DOMAIN remote_video_sources_
         /\ remote_video_sources_[remote_video_transceivers_[a]] = a

\* Only transceivers nobody has any more are stopped, and no offer knows of others.
StoppedInv ==
  /\ \A m \in stopped : Old(m)
  /\ \A a \in DOMAIN remote_video_transceivers_ : remote_video_transceivers_[a] \notin stopped
  /\ local.stopped \subseteq stopped /\ sent.stopped \subseteq stopped
  /\ \A o \in Range(chain) : o.op = "setlocal" => o.offer.stopped \subseteq stopped

\* The SUBSCRIBE under way, its answer, and what the server knows are of the offer
\* sent last.
SentInv ==
  /\ \A frame \in Range(subscribes) : frame.offer = sent
  /\ \A sections \in Range(answers) : sections = sent.sections
  /\ \A o \in Range(chain) : o.op = "setremote" => o.sections = sent.sections
  /\ connected /\ ~refused /\ subscribes = <<>> => subscribed.offer = sent

\* An offer is pending until its answer is applied, and again as soon as another
\* is set, which is reported after the answer.  An answer that failed was to
\* another offer.
HandshakeInv ==
  peer_connection_ = "open" =>
    /\ updates_in_flight_ /\ "remote" \notin Range(callbacks) =>
         signaling_state = "have-local-offer"
    /\ "remote" \in Range(callbacks) =>
         (signaling_state = "stable" <=> Unfollowed(callbacks, "remote"))
    /\ signaling_state = "stable" /\ "local" \in Range(callbacks) =>
         "remote" \in Range(callbacks)
    /\ Unfollowed(callbacks, "remote failed") => sent # local

\* Once local descriptions are reported the last one has been sent, and is either
\* answered or in flight.
UpdateInv ==
  /\ peer_connection_ = "open" /\ connected /\ ~refused /\ ~lost
  /\ turn >= 1 /\ "local" \notin Range(callbacks)
  => /\ sent = local
     /\ signaling_state = "have-local-offer" => updates_in_flight_

\* What the client would ask for with the offer sent last.
Current ==
  {m \in DOMAIN remote_video_sources_ : m <= sent.sections /\ m \notin sent.stopped}

\* The server has been asked for it, or is being asked, or another offer will be.
ReceivesInv ==
  /\ peer_connection_ = "open" /\ connected /\ ~refused
  /\ \/ updates_in_flight_
     \/ /\ turn >= 1 /\ "local" \notin Range(callbacks)
        /\ Create \notin Range(chain) /\ Range(chain) \intersect Settings = {}
  => /\ \A frame \in Range(subscribes) : frame.receives = Current
     /\ subscribes = <<>> => subscribed.receives = Current

\* Once an answer is dealt with every transceiver with a section is subscribed to.
VideosInv ==
  peer_connection_ = "open" /\ signaling_state = "stable" /\ ~updates_in_flight_ =>
    \A a \in DOMAIN remote_video_transceivers_ :
      remote_video_transceivers_[a] <= local.sections =>
        remote_video_transceivers_[a] \in DOMAIN video_sources_to_subscribe_

\* With nothing under way these come to the property.
LEMMA QuietFollows ==
  ASSUME TypeOK, FlightInv, FreshInv, OfferInv, MidsInv, StoppedInv, SentInv, UpdateInv,
         ReceivesInv, VideosInv
  PROVE  QuietMeansSubscribed
<1> SUFFICES ASSUME peer_connection_ = "open", connected, Quiet, turn >= 1, ~refused, ~lost
             PROVE  /\ subscribed.offer.sending = sending
                    /\ \A a \in available \intersect DOMAIN remote_video_transceivers_ :
                         /\ remote_video_transceivers_[a] \in subscribed.receives
                         /\ remote_video_sources_[remote_video_transceivers_[a]] = a
  BY DEF QuietMeansSubscribed
<1>1. /\ Range(chain) = {} /\ Range(callbacks) = {}
      /\ subscribes = <<>> /\ answers = <<>>
  BY DEF Quiet, Range
<1>2. ~updates_in_flight_
  <2>1. Nothing
    BY <1>1 DEF Nothing, Asked, Answered, Applying, Reported, Places, Range, Quiet
  <2> QED
    BY <2>1 DEF FlightInv
<1>3. sent = local /\ signaling_state = "stable"
  BY <1>1, <1>2 DEF UpdateInv, FreshInv, TypeOK
<1>4. PICK mids \in SUBSET Mid : local = Target(mids)
  BY <1>1, FinalElement DEF OfferInv
<1>5. subscribed.offer = Target(mids) /\ subscribed.receives = Current
  BY <1>1, <1>3, <1>4 DEF SentInv, ReceivesInv
<1>6. ASSUME NEW a \in DOMAIN remote_video_transceivers_
      PROVE  /\ remote_video_transceivers_[a] \in subscribed.receives
             /\ remote_video_sources_[remote_video_transceivers_[a]] = a
  <2>1. PICK mid : mid = remote_video_transceivers_[a]
    OBVIOUS
  <2>2. mid <= sent.sections /\ mid \notin sent.stopped
    BY <1>3, <1>4, <2>1 DEF MidsInv, StoppedInv, Old, Target
  <2>3. mid \in DOMAIN remote_video_sources_ /\ remote_video_sources_[mid] = a
    BY <1>2, <1>3, <2>1, <2>2 DEF VideosInv, MidsInv
  <2> QED
    BY <1>5, <2>1, <2>2, <2>3 DEF Current
<1> QED
  BY <1>5, <1>6 DEF Target

\* A SUBSCRIBE is sent with a candidate, and a candidate needs a description.
LEMMA FreshInvHolds == Spec => []FreshInv
<1>1. Init => FreshInv
  BY DEF Init, FreshInv
<1>2. TypeOK /\ NullInv /\ FlightInv /\ FreshInv /\ [Next]_vars => FreshInv'
  <2> SUFFICES ASSUME TypeOK, NullInv, FlightInv, FreshInv, [Next]_vars PROVE FreshInv'
    OBVIOUS
  <2>0. turn \in Nat
    BY DEF TypeOK
  <2>1. CASE UNCHANGED <<turn, updates_in_flight_, signaling_state, connected, peer_connection_>>
    BY <2>1 DEF FreshInv
  <2>2. ASSUME NEW attendees, OnSignalingClientStarted(attendees)
        PROVE  FreshInv'
    BY <2>2 DEF OnSignalingClientStarted, FreshInv
  <2>3. CASE ConnectionEnds \/ OnSignalingClientStopped \/ Stop
    BY <2>3 DEF ConnectionEnds, OnSignalingClientStopped, Stop, FreshInv, peerVars,
                controllerVars, clientVars
  <2>4. CASE RunSetLocal
    BY <2>4 DEF RunSetLocal, FreshInv, NullInv, controllerVars
  <2>5. CASE RunSetRemote
    <3>1. updates_in_flight_ /\ turn # 0
      BY <2>5, Applied DEF RunSetRemote, FreshInv
    <3> QED
      BY <2>5, <3>1 DEF RunSetRemote, FreshInv, NullInv
  <2>6. CASE OnLocalSuccess
    <3>1. /\ callbacks # <<>> /\ SendUpdates(turn)
          /\ UNCHANGED <<turn, signaling_state, connected, peer_connection_>>
      BY <2>6 DEF OnLocalSuccess, peerVars, clientVars
    <3>2. CASE Sends(turn)
      BY <2>0, <3>1, <3>2 DEF FreshInv, Sends
    <3>3. CASE Keeps(turn)
      BY <3>1, <3>3 DEF FreshInv, Keeps
    <3> QED
      BY <3>1, <3>2, <3>3, SendUpdatesOutcome
  <2>7. CASE OnRemoteSuccess \/ OnRemoteFailure
    <3>1. /\ updates_in_flight_' = FALSE
          /\ UNCHANGED <<turn, signaling_state, connected, peer_connection_>>
      BY <2>7 DEF OnRemoteSuccess, OnRemoteFailure, peerVars, clientVars
    <3> QED
      BY <3>1 DEF FreshInv
  <2>8. CASE OnIceCandidate
    <3>1. /\ peer_connection_ = "open" /\ signaling_state # "new"
          /\ turn' = turn + 1
          /\ UNCHANGED <<signaling_state, connected, peer_connection_>>
      BY <2>8 DEF OnIceCandidate, clientVars
    <3> QED
      BY <2>0, <3>1 DEF FreshInv
  <2>9. CASE RunThread
    BY <2>9, <2>1, <2>2, <2>3
    DEF RunThread, OnRemoteVideoSourcesAvailable, OnRemoteVideoSourcesUnavailable,
        OnRemoteDescriptionReceived, peerVars, controllerVars, clientVars
  <2>10. CASE RunCreate \/ Server \/ StartLocalVideo
    BY <2>1, <2>10
    DEF RunCreate, Server, ServerAnswers, ServerRefuses, StartLocalVideo, peerVars,
        controllerVars, clientVars
  <2>11. CASE UNCHANGED vars
    BY <2>1, <2>11 DEF vars, peerVars, controllerVars, clientVars
  <2> QED
    BY <2>3, <2>4, <2>5, <2>6, <2>7, <2>8, <2>9, <2>10, <2>11
    DEF Next, SignalingThread, App
<1> QED
  BY <1>1, <1>2, TypeCorrect, NullInvHolds, FlightInvHolds, PTL DEF Spec

\* Whatever changes the offer that would be made asks for one.
LEMMA OfferInvHolds == Spec => []OfferInv
<1>1. Init => OfferInv
  BY DEF Init, OfferInv
<1>2. TypeOK /\ OfferInv /\ [Next]_vars => OfferInv'
  <2> SUFFICES ASSUME TypeOK, OfferInv, [Next]_vars PROVE OfferInv'
    OBVIOUS
  <2>0. /\ chain \in Seq(Operation) /\ answers \in Seq(0 .. MaxTransceivers)
        /\ \A mids \in SUBSET Mid : Target(mids) \in Offer
        /\ stopped \in SUBSET Mid
    BY DEF TypeOK, Target, Offer
  <2>1. CASE UNCHANGED <<peer_connection_, chain, local, transceivers, sending>>
    BY <2>1 DEF OfferInv, Target
  <2>2. CASE peer_connection_' # "open"
    BY <2>2 DEF OfferInv
  <2>3. CASE Create \in Range(chain')
    BY <2>3 DEF OfferInv
  <2>4. CASE chain' = Append(chain, Create)
    BY <2>0, <2>3, <2>4, OperationTypes, AppendElements
  <2>5. ASSUME NEW attendees \in SUBSET Attendee, OnSignalingClientStarted(attendees)
        PROVE  OfferInv'
    <3>1. 1 \in DOMAIN chain' /\ chain'[1] = Create
      BY <2>5 DEF OnSignalingClientStarted
    <3> QED
      BY <2>3, <3>1 DEF Range
  <2>6. ASSUME NEW attendees \in SUBSET Attendee,
               \/ OnRemoteVideoSourcesAvailable(attendees)
               \/ OnRemoteVideoSourcesUnavailable(attendees)
               \/ StartLocalVideo
        PROVE  OfferInv'
    BY <2>4, <2>6
    DEF OnRemoteVideoSourcesAvailable, OnRemoteVideoSourcesUnavailable, StartLocalVideo,
        CreateOffer
  <2>7. CASE OnRemoteDescriptionReceived
    <3>1. PICK n \in 0 .. MaxTransceivers : chain' = Append(chain, SetRemote(n))
      BY <2>0, <2>7, HeadTailType DEF OnRemoteDescriptionReceived
    <3>2. /\ SetRemote(n) \in Operation /\ SetRemote(n) \notin Settings
      BY OperationTypes, OperationKinds
    <3>3. UNCHANGED <<peer_connection_, local, transceivers, sending>>
      BY <2>7 DEF OnRemoteDescriptionReceived, peerVars
    <3>4. Range(chain') = Range(chain) \union {SetRemote(n)}
      BY <2>0, <3>1, <3>2, AppendElements
    <3>5. ASSUME NEW mids \in SUBSET Mid, Final(chain, SetLocal(Target(mids)), Settings)
          PROVE  Final(chain', SetLocal(Target(mids)), Settings)
      BY <2>0, <3>1, <3>2, <3>5, AppendElements
    <3> QED
      BY <3>2, <3>3, <3>4, <3>5 DEF OfferInv, Target
  <2>8. CASE RunCreate
    <3>1. CASE peer_connection_ # "open"
      BY <2>2, <2>8, <3>1 DEF RunCreate, peerVars
    <3>2. CASE peer_connection_ = "open"
      <4>1. chain' = Append(Tail(chain), SetLocal(Target(stopped)))
        BY <2>8, <3>2 DEF RunCreate, Target
      <4>2. Tail(chain) \in Seq(Operation) /\ SetLocal(Target(stopped)) \in Operation
        BY <2>0, <2>8, HeadTailType, OperationTypes DEF RunCreate
      <4>3. Final(chain', SetLocal(Target(stopped)), Settings)
        BY <4>1, <4>2, AppendElements
      <4>4. UNCHANGED <<transceivers, sending>>
        BY <2>8 DEF RunCreate, peerVars
      <4>5. \E mids \in SUBSET Mid :
              Final(chain', SetLocal([sections |-> transceivers', stopped |-> mids,
                                      sending |-> sending']), Settings)
        BY <2>0, <4>3, <4>4 DEF Target
      <4> QED
        BY <4>5 DEF OfferInv, Target
    <3> QED
      BY <3>1, <3>2
  <2>9. CASE RunSetLocal
    <3>1. CASE peer_connection_ # "open"
      BY <2>2, <2>9, <3>1 DEF RunSetLocal
    <3>2. CASE peer_connection_ = "open"
      <4>1. /\ chain # <<>> /\ chain' = Tail(chain) /\ local' = Head(chain).offer
            /\ UNCHANGED <<peer_connection_, transceivers, sending>>
            /\ Head(chain).op = "setlocal"
        BY <2>9, <3>2 DEF RunSetLocal
      <4>2. Range(chain) = {Head(chain)} \union Range(chain')
        BY <2>0, <4>1, TailElements
      <4>3. Head(chain) \in Settings /\ Head(chain) # Create
        BY <2>0, <4>1, HeadTailType, OperationKinds
      <4>4. CASE Create \in Range(chain)
        BY <2>3, <4>2, <4>3, <4>4
      <4>5. ASSUME NEW mids \in SUBSET Mid, Final(chain, SetLocal(Target(mids)), Settings)
            PROVE  OfferInv'
        <5>1. CASE Final(chain', SetLocal(Target(mids)), Settings)
          BY <4>1, <5>1 DEF OfferInv, Target
        <5>2. CASE Head(chain) = SetLocal(Target(mids)) /\ Range(chain') \intersect Settings = {}
          <6>1. SetLocal(Target(mids)).offer = Target(mids)
            BY <2>0, OperationKinds
          <6>2. local' = [sections |-> transceivers', stopped |-> mids, sending |-> sending']
            BY <4>1, <5>2, <6>1 DEF Target
          <6> QED
            BY <5>2, <6>2 DEF OfferInv, Target
        <5> QED
          BY <2>0, <4>1, <4>5, <5>1, <5>2, TailElements
      <4> QED
        BY <3>2, <4>2, <4>3, <4>4, <4>5 DEF OfferInv
    <3> QED
      BY <3>1, <3>2
  <2>10. CASE RunSetRemote
    <3>1. /\ chain # <<>> /\ chain' = Tail(chain) /\ Head(chain).op = "setremote"
          /\ UNCHANGED <<peer_connection_, local, transceivers, sending>>
      BY <2>10 DEF RunSetRemote
    <3>2. Range(chain) = {Head(chain)} \union Range(chain')
      BY <2>0, <3>1, TailElements
    <3>3. Head(chain) # Create
      BY <2>0, <3>1, OperationKinds
    <3>4. ASSUME NEW mids \in SUBSET Mid, Final(chain, SetLocal(Target(mids)), Settings)
          PROVE  Final(chain', SetLocal(Target(mids)), Settings)
      <4>1. Head(chain) # SetLocal(Target(mids))
        BY <2>0, <3>1, OperationKinds
      <4> QED
        BY <2>0, <3>1, <3>4, <4>1, TailElements
    <3> QED
      BY <3>1, <3>2, <3>3, <3>4 DEF OfferInv, Target
  <2>11. CASE OnRemoteSuccess
    <3>1. UNCHANGED <<peer_connection_, local, transceivers, sending>>
      BY <2>11 DEF OnRemoteSuccess, peerVars
    <3>2. UNCHANGED chain \/ chain' = Append(chain, Create)
      BY <2>11 DEF OnRemoteSuccess, Resubscribe
    <3> QED
      BY <2>1, <2>4, <3>1, <3>2
  <2>12. CASE ConnectionEnds \/ OnLocalSuccess \/ OnRemoteFailure \/ OnIceCandidate \/ Server
    BY <2>1, <2>12
    DEF ConnectionEnds, OnLocalSuccess, OnRemoteFailure, OnIceCandidate, Server,
        ServerAnswers, ServerRefuses, peerVars, queueVars
  <2>13. CASE OnSignalingClientStopped \/ Stop
    BY <2>2, <2>13 DEF OnSignalingClientStopped, Stop
  <2>14. CASE UNCHANGED vars
    BY <2>1, <2>14 DEF vars, peerVars, queueVars
  <2> QED
    BY <2>5, <2>6, <2>7, <2>8, <2>9, <2>10, <2>11, <2>12, <2>13, <2>14
    DEF Next, RunThread, SignalingThread, App
<1> QED
  BY <1>1, <1>2, TypeCorrect, PTL DEF Spec

\* Another SUBSCRIBE is sent only when the one before it is dealt with.
LEMMA SentInvHolds == Spec => []SentInv
<1>1. Init => SentInv
  BY DEF Init, SentInv, Range
<1>2. TypeOK /\ FlightInv /\ SentInv /\ [Next]_vars => SentInv'
  <2> SUFFICES ASSUME TypeOK, FlightInv, SentInv, [Next]_vars PROVE SentInv'
    OBVIOUS
  <2>0. /\ chain \in Seq(Operation) /\ answers \in Seq(0 .. MaxTransceivers)
        /\ subscribes \in Seq(Subscribe)
    BY DEF TypeOK
  <2>1. ASSUME \A o \in Range(chain') : o.op = "setremote" => o \in Range(chain),
               UNCHANGED <<subscribes, answers, sent, connected, refused, subscribed>>
        PROVE  SentInv'
    BY <2>1 DEF SentInv
  <2>2. ASSUME chain' = chain \/ chain' = Append(chain, Create)
        PROVE  \A o \in Range(chain') : o.op = "setremote" => o \in Range(chain)
    <3>1. CASE chain' = Append(chain, Create)
      <4>1. Range(chain') = Range(chain) \union {Create}
        BY <2>0, <3>1, OperationTypes, OperationAdded
      <4> QED
        BY <4>1, OperationKinds
    <3> QED
      BY <2>2, <3>1
  <2>3. ASSUME NEW attendees \in SUBSET Attendee, OnSignalingClientStarted(attendees)
        PROVE  SentInv'
    <3>1. \A i \in DOMAIN chain' : chain'[i] = Create
      BY <2>3 DEF OnSignalingClientStarted
    <3>2. \A o \in Range(chain') : o.op # "setremote"
      BY <3>1, OperationKinds DEF Range
    <3> QED
      BY <2>1, <2>3, <3>2 DEF OnSignalingClientStarted, wireVars, historyVars
  <2>4. ASSUME NEW attendees \in SUBSET Attendee,
               \/ OnRemoteVideoSourcesAvailable(attendees)
               \/ OnRemoteVideoSourcesUnavailable(attendees)
               \/ StartLocalVideo
        PROVE  SentInv'
    <3>1. chain' = chain \/ chain' = Append(chain, Create)
      BY <2>4 DEF OnRemoteVideoSourcesAvailable, OnRemoteVideoSourcesUnavailable,
                  StartLocalVideo, CreateOffer
    <3> QED
      BY <2>1, <2>2, <2>4, <3>1
      DEF OnRemoteVideoSourcesAvailable, OnRemoteVideoSourcesUnavailable,
          StartLocalVideo, clientVars, wireVars
  <2>5. CASE OnRemoteDescriptionReceived
    <3>1. /\ answers # <<>> /\ answers' = Tail(answers)
          /\ chain' = Append(chain, SetRemote(Head(answers)))
          /\ UNCHANGED <<subscribes, sent, connected, refused, subscribed>>
      BY <2>5 DEF OnRemoteDescriptionReceived, clientVars, historyVars
    <3>2. Range(answers) = {Head(answers)} \union Range(answers')
            /\ Head(answers) \in 0 .. MaxTransceivers
      BY <2>0, <3>1, TailElements
    <3>3. Range(chain') = Range(chain) \union {SetRemote(Head(answers))}
      BY <2>0, <3>1, <3>2, OperationTypes, AppendElements
    <3>4. \A o \in Range(chain') : o.op = "setremote" => o.sections = sent.sections
      BY <3>2, <3>3, OperationKinds DEF SentInv
    <3> QED
      BY <3>1, <3>2, <3>4 DEF SentInv
  <2>6. CASE ConnectionEnds
    <3>1. /\ ~connected' /\ subscribes' = <<>> /\ answers' = <<>>
          /\ UNCHANGED <<chain, sent>>
      BY <2>6 DEF ConnectionEnds, queueVars, historyVars
    <3> QED
      BY <3>1 DEF SentInv, Range
  <2>7. CASE OnSignalingClientStopped
    <3>1. chain' = <<>>
      BY <2>7 DEF OnSignalingClientStopped
    <3> QED
      BY <2>1, <2>7, <3>1 DEF OnSignalingClientStopped, wireVars, historyVars, clientVars,
                              Range
  <2>8. CASE Stop
    BY <2>8 DEF Stop, SentInv, queueVars, wireVars, historyVars
  <2>9. CASE RunCreate
    <3>1. Range(chain) = {Head(chain)} \union Range(Tail(chain))
            /\ Tail(chain) \in Seq(Operation)
      BY <2>0, <2>9, TailElements DEF RunCreate
    <3>2. PICK o \in Offer : chain' = Tail(chain) \/ chain' = Append(Tail(chain), SetLocal(o))
      <4>1. [sections |-> transceivers, stopped |-> stopped, sending |-> sending] \in Offer
        BY DEF TypeOK, Offer
      <4> QED
        BY <4>1, <2>9 DEF RunCreate
    <3>3. \A p \in Range(chain') : p.op = "setremote" => p \in Range(chain)
      <4>1. CASE chain' = Append(Tail(chain), SetLocal(o))
        <5>1. SetLocal(o) \in Operation
          BY OperationTypes
        <5>2. Range(chain') = Range(Tail(chain)) \union {SetLocal(o)}
          BY <3>1, <4>1, <5>1, OperationAdded
        <5> QED
          BY <3>1, <5>2, OperationKinds
      <4> QED
        BY <3>1, <3>2, <4>1
    <3> QED
      BY <2>1, <2>9, <3>3 DEF RunCreate, clientVars, wireVars, historyVars
  <2>10. CASE RunSetLocal \/ RunSetRemote
    <3>1. /\ chain # <<>> /\ chain' = Tail(chain)
          /\ UNCHANGED <<subscribes, answers, sent, connected, refused, subscribed>>
      BY <2>10 DEF RunSetLocal, RunSetRemote, clientVars, wireVars, historyVars
    <3>2. Range(chain) = {Head(chain)} \union Range(chain')
      BY <2>0, <3>1, TailElements
    <3> QED
      BY <2>1, <3>1, <3>2
  <2>11. ASSUME NEW candidates, SendUpdates(candidates),
                UNCHANGED <<chain, answers, connected, refused, subscribed>>
         PROVE  SentInv'
    <3>1. CASE Sends(candidates)
      <4>1. answers = <<>> /\ Range(chain) \intersect Remotes = {}
        BY <3>1, Idle DEF Sends
      <4>2. \A o \in Range(chain) : o \in Operation
        BY <2>0 DEF Range
      <4>3. \A o \in Range(chain) : o.op # "setremote"
        BY <4>1, <4>2, OperationKinds
      <4>4. subscribes' = <<SubscribeFrame>> /\ sent' = local /\ SubscribeFrame.offer = local
        BY <3>1 DEF Sends, SubscribeFrame
      <4>5. subscribes' # <<>> /\ \A frame \in Range(subscribes') : frame.offer = sent'
        BY <4>4 DEF Range
      <4> QED
        BY <2>11, <4>1, <4>3, <4>5 DEF SentInv, Range
    <3>2. CASE Keeps(candidates)
      BY <2>11, <3>2 DEF Keeps, SentInv
    <3> QED
      BY <2>11, <3>1, <3>2, SendUpdatesOutcome
  <2>12. CASE OnLocalSuccess \/ OnIceCandidate
    BY <2>11, <2>12 DEF OnLocalSuccess, OnIceCandidate, clientVars, queueVars
  <2>13. CASE OnRemoteSuccess
    <3>1. chain' = chain \/ chain' = Append(chain, Create)
      BY <2>13 DEF OnRemoteSuccess, Resubscribe
    <3>2. UNCHANGED <<subscribes, answers, sent, connected, refused, subscribed>>
      BY <2>13 DEF OnRemoteSuccess, wireVars, historyVars
    <3> QED
      BY <2>1, <2>2, <3>1, <3>2
  <2>14. CASE OnRemoteFailure
    BY <2>1, <2>2, <2>14 DEF OnRemoteFailure, clientVars, wireVars, historyVars
  <2>15. CASE ServerAnswers
    <3>1. /\ subscribes # <<>> /\ subscribes' = Tail(subscribes)
          /\ subscribed' = Head(subscribes)
          /\ answers' = Append(answers, Head(subscribes).offer.sections)
          /\ UNCHANGED <<chain, sent, connected, refused>>
      BY <2>15 DEF ServerAnswers, queueVars, clientVars, historyVars
    <3>2. Range(subscribes) = {Head(subscribes)} \union Range(subscribes')
            /\ Head(subscribes) \in Subscribe
      BY <2>0, <3>1, TailElements
    <3>3. Head(subscribes).offer = sent
      BY <3>2 DEF SentInv
    <3>4. Head(subscribes).offer.sections \in 0 .. MaxTransceivers
      BY <3>2 DEF Subscribe, Offer
    <3>5. Range(answers') = Range(answers) \union {sent.sections}
      <4>1. answers' = Append(answers, sent.sections)
        BY <3>1, <3>3
      <4>2. PICK S : S = 0 .. MaxTransceivers
        OBVIOUS
      <4>3. answers \in Seq(S) /\ sent.sections \in S
        BY <2>0, <3>3, <3>4, <4>2
      <4>4. PICK n : n = sent.sections
        OBVIOUS
      <4>5. Range(Append(answers, n)) = Range(answers) \union {n}
        BY <4>3, <4>4, AppendElements
      <4> QED
        BY <4>1, <4>4, <4>5
    <3> QED
      BY <3>1, <3>2, <3>3, <3>5 DEF SentInv
  <2>16. CASE ServerRefuses
    <3>1. /\ subscribes # <<>> /\ subscribes' = Tail(subscribes) /\ refused'
          /\ UNCHANGED <<chain, answers, sent>>
      BY <2>16 DEF ServerRefuses, queueVars
    <3>2. Range(subscribes) = {Head(subscribes)} \union Range(subscribes')
      BY <2>0, <3>1, TailElements
    <3> QED
      BY <3>1, <3>2 DEF SentInv
  <2>17. CASE UNCHANGED vars
    BY <2>1, <2>17 DEF vars, queueVars, clientVars, wireVars, historyVars
  <2> QED
    BY <2>3, <2>4, <2>5, <2>6, <2>7, <2>8, <2>9, <2>10, <2>12, <2>13, <2>14, <2>15, <2>16,
       <2>17
    DEF Next, RunThread, SignalingThread, App, Server
<1> QED
  BY <1>1, <1>2, TypeCorrect, FlightInvHolds, PTL DEF Spec

\* "remote" and "remote failed" are the reports of an answer, "local" is not.
LEMMA ReportNames ==
  "remote" \in Reports /\ "remote failed" \in Reports /\ "local" \notin Reports
BY DEF Reports

\* An answer finds the offer pending that it answers, or another one.
LEMMA HandshakeInvHolds == Spec => []HandshakeInv
<1>1. Init => HandshakeInv
  BY DEF Init, HandshakeInv
<1>2. TypeOK /\ NullInv /\ FlightInv /\ FreshInv /\ SentInv /\ HandshakeInv /\ [Next]_vars
        => HandshakeInv'
  <2> SUFFICES ASSUME TypeOK, NullInv, FlightInv, FreshInv, SentInv, HandshakeInv, [Next]_vars
               PROVE  HandshakeInv'
    OBVIOUS
  <2>0. /\ callbacks \in Seq(Callback) /\ chain \in Seq(Operation)
        /\ "local" \in Callback /\ "remote" \in Callback /\ "remote failed" \in Callback
    BY DEF TypeOK, Callback
  <2>1. CASE UNCHANGED <<peer_connection_, updates_in_flight_, callbacks, signaling_state,
                         sent, local>>
    BY <2>1 DEF HandshakeInv
  <2>2. CASE peer_connection_' # "open"
    BY <2>2 DEF HandshakeInv
  <2>3. ASSUME NEW attendees \in SUBSET Attendee, OnSignalingClientStarted(attendees)
        PROVE  HandshakeInv'
    <3>1. callbacks' = <<>> /\ turn = 0 /\ ~updates_in_flight_'
      BY <2>3 DEF OnSignalingClientStarted, NullInv, FreshInv
    <3>2. Range(callbacks') = {}
      BY <3>1 DEF Range
    <3> QED
      BY <3>1, <3>2, UnfollowedElement DEF HandshakeInv
  <2>4. CASE RunSetLocal
    <3>1. CASE peer_connection_ # "open"
      BY <2>2, <2>4, <3>1 DEF RunSetLocal
    <3>2. CASE peer_connection_ = "open"
      <4>1. signaling_state' = "have-local-offer" /\ callbacks' = Append(callbacks, "local")
        BY <2>4, <3>2 DEF RunSetLocal
      <4>2. \A c \in Reports : ~Unfollowed(callbacks', c)
        <5>1. ASSUME NEW c \in Reports
              PROVE  ~Unfollowed(callbacks', c)
          <6>1. c # "local"
            BY ReportNames
          <6> QED
            BY <2>0, <4>1, <6>1, CallbackAdded
        <5> QED
          BY <4>1, <5>1
      <4> QED
        BY <4>1, <4>2, ReportNames DEF HandshakeInv
    <3> QED
      BY <3>1, <3>2
  <2>5. CASE RunSetRemote
    <3>1. CASE peer_connection_ # "open"
      BY <2>2, <2>5, <3>1 DEF RunSetRemote
    <3>2. CASE peer_connection_ = "open"
      <4>1. /\ chain # <<>> /\ Head(chain).op = "setremote"
            /\ UNCHANGED <<peer_connection_, updates_in_flight_, sent, local>>
        BY <2>5 DEF RunSetRemote, historyVars
      <4>2. updates_in_flight_ /\ Range(callbacks) \intersect Reports = {}
        BY <4>1, Applied
      <4>3. signaling_state = "have-local-offer"
        BY <3>2, <4>2, ReportNames DEF HandshakeInv
      <4>4. Head(chain).sections = sent.sections
        <5>1. Head(chain) \in Range(chain)
          <6>1. Range(chain) = {Head(chain)} \union Range(Tail(chain))
            BY <2>0, <4>1, TailElements
          <6> QED
            BY <6>1
        <5> QED
          BY <4>1, <5>1 DEF SentInv
      <4>5. \A c \in Callback : Range(Append(callbacks, c)) = Range(callbacks) \union {c}
        BY <2>0, AppendElements
      <4>6. CASE Head(chain).sections = local.sections
        <5>1. signaling_state' = "stable" /\ callbacks' = Append(callbacks, "remote")
          BY <2>5, <3>2, <4>3, <4>6 DEF RunSetRemote
        <5>2. Range(callbacks') = Range(callbacks) \union {"remote"}
          BY <2>0, <4>5, <5>1
        <5>3. Unfollowed(callbacks', "remote")
          BY <2>0, <5>1, CallbackAdded
        <5>4. ~Unfollowed(callbacks', "remote failed")
          <6>1. "remote failed" \notin Range(callbacks')
            BY <4>2, <5>2, ReportNames
          <6> QED
            BY <6>1, UnfollowedElement
        <5> QED
          BY <5>1, <5>2, <5>3, <5>4 DEF HandshakeInv
      <4>7. CASE Head(chain).sections # local.sections
        <5>1. /\ UNCHANGED signaling_state /\ sent # local
              /\ callbacks' = Append(callbacks, "remote failed")
          BY <2>5, <4>4, <4>7 DEF RunSetRemote
        <5>2. Range(callbacks') = Range(callbacks) \union {"remote failed"}
          BY <2>0, <4>5, <5>1
        <5>3. "remote" \notin Range(callbacks')
          BY <4>2, <5>2, ReportNames
        <5> QED
          BY <4>1, <4>3, <5>1, <5>3 DEF HandshakeInv
      <4> QED
        BY <4>6, <4>7
    <3> QED
      BY <3>1, <3>2
  <2>6. ASSUME NEW candidates, SendUpdates(candidates),
               UNCHANGED <<peer_connection_, signaling_state, local>>,
               \A c \in Reports : /\ c \in Range(callbacks') <=> c \in Range(callbacks)
                                  /\ Unfollowed(callbacks', c)
                                       <=> Unfollowed(callbacks, c),
               "local" \in Range(callbacks') => "local" \in Range(callbacks)
        PROVE  HandshakeInv'
    <3>1. CASE Sends(candidates)
      <4>1. Range(callbacks) \intersect Reports = {}
        BY <3>1, Idle DEF Sends
      <4>2. \A c \in Reports : ~Unfollowed(callbacks', c) /\ c \notin Range(callbacks')
        BY <2>6, <4>1, UnfollowedElement
      <4> QED
        BY <2>6, <3>1, <4>2, ReportNames DEF HandshakeInv, Sends
    <3>2. CASE Keeps(candidates)
      BY <2>6, <3>2, ReportNames DEF HandshakeInv, Keeps
    <3> QED
      BY <2>6, <3>1, <3>2, SendUpdatesOutcome
  <2>7. CASE OnLocalSuccess
    <3>1. /\ callbacks # <<>> /\ Head(callbacks) = "local" /\ callbacks' = Tail(callbacks)
          /\ SendUpdates(turn) /\ UNCHANGED <<peer_connection_, signaling_state, local>>
      BY <2>7 DEF OnLocalSuccess, peerVars
    <3>2. Range(callbacks) = {"local"} \union Range(callbacks')
      BY <2>0, <3>1, TailElements
    <3>3. \A c \in Reports : Unfollowed(callbacks', c) <=> Unfollowed(callbacks, c)
      <4>1. ASSUME NEW c \in Reports
            PROVE  Unfollowed(callbacks', c) <=> Unfollowed(callbacks, c)
        <5>1. c # "local"
          BY ReportNames
        <5> QED
          BY <3>1, <5>1, CallbackTaken
      <4> QED
        BY <4>1
    <3> QED
      BY <2>6, <3>1, <3>2, <3>3, ReportNames
  <2>8. CASE OnIceCandidate
    BY <2>6, <2>8 DEF OnIceCandidate, queueVars
  <2>9. ASSUME callbacks # <<>>, Head(callbacks) \in Reports, callbacks' = Tail(callbacks),
               ~updates_in_flight_', UNCHANGED peerVars
        PROVE  HandshakeInv'
    <3>1. /\ updates_in_flight_ /\ Range(callbacks') \intersect Reports = {}
      BY <2>9, Reporting
    <3>2. /\ Range(callbacks) = {Head(callbacks)} \union Range(callbacks')
          /\ Unfollowed(callbacks, "remote") =>
               Unfollowed(callbacks', "remote") \/ "local" \notin Range(callbacks')
      BY <2>9, CallbackTaken
    <3>3. \A c \in Reports : ~Unfollowed(callbacks', c) /\ c \notin Range(callbacks')
      BY <3>1, UnfollowedElement
    <3>4. UNCHANGED <<peer_connection_, signaling_state>>
      BY <2>9 DEF peerVars
    <3>5. peer_connection_ = "open" /\ signaling_state = "stable" =>
            "local" \notin Range(callbacks')
      BY <3>1, <3>2, <3>3, ReportNames DEF HandshakeInv
    <3> QED
      BY <2>9, <3>3, <3>4, <3>5, ReportNames DEF HandshakeInv
  <2>10. CASE OnRemoteSuccess
    <3>1. /\ callbacks # <<>> /\ Head(callbacks) = "remote" /\ callbacks' = Tail(callbacks)
          /\ ~updates_in_flight_' /\ UNCHANGED peerVars
      BY <2>10 DEF OnRemoteSuccess
    <3> QED
      BY <2>9, <3>1, ReportNames
  <2>11. CASE OnRemoteFailure
    <3>1. /\ callbacks # <<>> /\ Head(callbacks) = "remote failed"
          /\ callbacks' = Tail(callbacks) /\ ~updates_in_flight_' /\ UNCHANGED peerVars
      BY <2>11 DEF OnRemoteFailure
    <3> QED
      BY <2>9, <3>1, ReportNames
  <2>12. CASE OnSignalingClientStopped \/ Stop
    BY <2>2, <2>12 DEF OnSignalingClientStopped, Stop
  <2>13. ASSUME NEW attendees \in SUBSET Attendee,
                \/ OnRemoteVideoSourcesAvailable(attendees)
                \/ OnRemoteVideoSourcesUnavailable(attendees)
         PROVE  HandshakeInv'
    BY <2>1, <2>13
    DEF OnRemoteVideoSourcesAvailable, OnRemoteVideoSourcesUnavailable, peerVars
  <2>14. CASE OnRemoteDescriptionReceived \/ ConnectionEnds
    BY <2>1, <2>14
    DEF OnRemoteDescriptionReceived, ConnectionEnds, peerVars, queueVars, controllerVars,
        historyVars
  <2>15. CASE RunCreate \/ StartLocalVideo \/ Server
    BY <2>1, <2>15
    DEF RunCreate, StartLocalVideo, Server, ServerAnswers, ServerRefuses, peerVars,
        queueVars, controllerVars, historyVars
  <2>16. CASE UNCHANGED vars
    BY <2>1, <2>16 DEF vars, peerVars, queueVars, controllerVars, historyVars
  <2> QED
    BY <2>3, <2>4, <2>5, <2>7, <2>8, <2>10, <2>11, <2>12, <2>13, <2>14, <2>15, <2>16
    DEF Next, RunThread, SignalingThread, App
<1> QED
  BY <1>1, <1>2, TypeCorrect, NullInvHolds, FlightInvHolds, FreshInvHolds, SentInvHolds, PTL
  DEF Spec

\* Transceivers are added with mids that are greater than all before, one each.
LEMMA NewTransceivers ==
  ASSUME TypeOK, NEW attendees \in SUBSET Attendee, AddTransceivers(attendees)
  PROVE  /\ transceivers' \in Nat /\ transceivers <= transceivers'
         /\ DOMAIN remote_video_transceivers_' = DOMAIN remote_video_transceivers_ \union attendees
         /\ \A a \in DOMAIN remote_video_transceivers_ :
              remote_video_transceivers_'[a] = remote_video_transceivers_[a]
         /\ \A a \in attendees \ DOMAIN remote_video_transceivers_ :
              /\ remote_video_transceivers_'[a] \in Nat
              /\ remote_video_transceivers_'[a] > transceivers
              /\ remote_video_transceivers_'[a] <= transceivers'
         /\ \A a, b \in attendees \ DOMAIN remote_video_transceivers_ :
              remote_video_transceivers_'[a] = remote_video_transceivers_'[b] => a = b
<1> DEFINE had == DOMAIN remote_video_transceivers_
           new == attendees \ had
           count == Cardinality(new)
<1>1. count \in Nat
  <2>1. IsFiniteSet(new)
    BY AttendeeAssumption, FS_Subset DEF AttendeeAssumption
  <2> QED
    BY <2>1, FS_CardinalityType
<1>2. transceivers \in Nat /\ transceivers' = transceivers + count
  BY <1>1 DEF TypeOK, AddTransceivers
<1>3. PICK mids \in Bijection(new, transceivers + 1 .. transceivers + count) :
        remote_video_transceivers_' =
          [a \in had \union new |->
             IF a \in new THEN mids[a] ELSE remote_video_transceivers_[a]]
  BY DEF AddTransceivers
<1>4. /\ mids \in [new -> transceivers + 1 .. transceivers + count]
      /\ \A a, b \in new : mids[a] = mids[b] => a = b
  BY <1>3 DEF Bijection, Injection, IsInjective
<1>5. ASSUME NEW a \in new
      PROVE  /\ mids[a] \in Nat /\ mids[a] > transceivers
             /\ mids[a] <= transceivers + count
  <2>1. mids[a] \in transceivers + 1 .. transceivers + count
    BY <1>4
  <2> HIDE DEF count
  <2> QED
    BY <1>1, <1>2, <2>1
<1>6. /\ DOMAIN remote_video_transceivers_' = had \union attendees
      /\ \A a \in had : remote_video_transceivers_'[a] = remote_video_transceivers_[a]
      /\ \A a \in new : remote_video_transceivers_'[a] = mids[a]
  <2>1. had \union new = had \union attendees
    OBVIOUS
  <2> HIDE DEF new, had
  <2>2. \A a \in had : a \notin new
    BY DEF new
  <2> QED
    BY <1>3, <2>1, <2>2
<1>7. transceivers' \in Nat /\ transceivers <= transceivers'
  <2> HIDE DEF count
  <2> QED
    BY <1>1, <1>2
<1> HIDE DEF count
<1>8. \A a \in new : /\ remote_video_transceivers_'[a] \in Nat
                      /\ remote_video_transceivers_'[a] > transceivers
                      /\ remote_video_transceivers_'[a] <= transceivers'
  BY <1>2, <1>5, <1>6
<1>9. \A a, b \in new : remote_video_transceivers_'[a] = remote_video_transceivers_'[b] => a = b
  BY <1>4, <1>6
<1> QED
  BY <1>6, <1>7, <1>8, <1>9

\* What an answer leaves of the transceivers.
LEMMA TracksRemoved ==
  ASSUME TypeOK, RunSetRemote
  PROVE  \E gone \in SUBSET DOMAIN remote_video_transceivers_ :
           /\ stopped' = stopped \union {remote_video_transceivers_[a] : a \in gone}
           /\ DOMAIN remote_video_transceivers_' = DOMAIN remote_video_transceivers_ \ gone
           /\ \A a \in DOMAIN remote_video_transceivers_ \ gone :
                remote_video_transceivers_'[a] = remote_video_transceivers_[a]
<1>1. CASE UNCHANGED <<stopped, remote_video_transceivers_>>
  <2>1. /\ stopped = stopped \union {remote_video_transceivers_[a] : a \in {}}
        /\ DOMAIN remote_video_transceivers_ = DOMAIN remote_video_transceivers_ \ {}
    OBVIOUS
  <2>2. {} \in SUBSET DOMAIN remote_video_transceivers_
    OBVIOUS
  <2> QED
    BY <1>1, <2>1, <2>2
<1>2. CASE \E attendees \in SUBSET Tracked : OnRemoveTrack(attendees)
  <2>1. PICK gone \in SUBSET Tracked : OnRemoveTrack(gone)
    BY <1>2
  <2>2. gone \in SUBSET DOMAIN remote_video_transceivers_
    BY DEF Tracked
  <2>3. remote_video_transceivers_' = Erase(remote_video_transceivers_, gone)
    BY <2>1 DEF OnRemoveTrack
  <2>4. /\ DOMAIN remote_video_transceivers_' = DOMAIN remote_video_transceivers_ \ gone
        /\ \A a \in DOMAIN remote_video_transceivers_ \ gone :
             remote_video_transceivers_'[a] = remote_video_transceivers_[a]
    BY <2>3, EraseProperties
  <2> QED
    BY <2>1, <2>2, <2>4 DEF OnRemoveTrack
<1> QED
  BY <1>1, <1>2 DEF RunSetRemote

\* What is subscribed to after a step that leaves the transceivers and the
\* subscriptions of those who had one alone.
LEMMA MidsKept ==
  ASSUME TypeOK, MidsInv,
         transceivers' \in Nat, transceivers <= transceivers',
         UNCHANGED <<local, video_sources_to_subscribe_, remote_video_sources_>>,
         \A o \in Range(chain') : o.op = "setlocal" =>
           o \in Range(chain) \/ Old(o.offer.sections),
         \A o \in Range(chain') : o.op = "setlocal" => o.offer.sections \in Nat,
         DOMAIN remote_video_transceivers_' \subseteq available',
         \A a \in DOMAIN remote_video_transceivers_' :
           \/ a \in DOMAIN remote_video_transceivers_
                /\ remote_video_transceivers_'[a] = remote_video_transceivers_[a]
           \/ /\ a \notin DOMAIN remote_video_transceivers_
              /\ remote_video_transceivers_'[a] \in Nat
              /\ remote_video_transceivers_'[a] > transceivers
              /\ remote_video_transceivers_'[a] <= transceivers',
         \A a, b \in DOMAIN remote_video_transceivers_' \ DOMAIN remote_video_transceivers_ :
           remote_video_transceivers_'[a] = remote_video_transceivers_'[b] => a = b
  PROVE  MidsInv'
<1>1. /\ transceivers \in Nat /\ local.sections \in Nat
      /\ \A a \in DOMAIN remote_video_transceivers_ : remote_video_transceivers_[a] \in Nat
      /\ \A m \in DOMAIN video_sources_to_subscribe_ : m \in Nat
  <2>1. transceivers \in Nat /\ local.sections \in Nat
    BY DEF TypeOK, Offer
  <2>2. \A a \in DOMAIN remote_video_transceivers_ : remote_video_transceivers_[a] \in Mid
    BY MapElim DEF TypeOK
  <2>3. DOMAIN video_sources_to_subscribe_ \subseteq Mid
    BY MapElim DEF TypeOK
  <2>4. \A m \in Mid : m \in Nat
    BY DEF Mid
  <2> QED
    BY <2>1, <2>2, <2>3, <2>4 DEF MidsInv
<1>2. Old(local.sections)' /\ \A m \in DOMAIN video_sources_to_subscribe_' : Old(m)'
  BY <1>1 DEF MidsInv, Old
<1>3. \A o \in Range(chain') : o.op = "setlocal" => Old(o.offer.sections)'
  BY <1>1 DEF MidsInv, Old
<1>4. \A a \in DOMAIN remote_video_transceivers_' : Old(remote_video_transceivers_[a])'
  BY <1>1 DEF MidsInv, Old
<1>5. ASSUME NEW a \in DOMAIN remote_video_transceivers_',
             NEW b \in DOMAIN remote_video_transceivers_',
             remote_video_transceivers_'[a] = remote_video_transceivers_'[b]
      PROVE  a = b
  BY <1>1, <1>5 DEF MidsInv, Old
<1>6. ASSUME NEW a \in DOMAIN remote_video_transceivers_',
             remote_video_transceivers_'[a] \in DOMAIN video_sources_to_subscribe_'
      PROVE  /\ remote_video_transceivers_'[a] \in DOMAIN remote_video_sources_'
             /\ remote_video_sources_'[remote_video_transceivers_'[a]] = a
  <2>1. a \in DOMAIN remote_video_transceivers_
          /\ remote_video_transceivers_'[a] = remote_video_transceivers_[a]
    BY <1>1, <1>6 DEF MidsInv, Old
  <2> QED
    BY <1>6, <2>1 DEF MidsInv
<1>7. DOMAIN remote_video_sources_' \subseteq DOMAIN video_sources_to_subscribe_'
  BY DEF MidsInv
<1> QED
  BY <1>2, <1>3, <1>4, <1>5, <1>6, <1>7 DEF MidsInv

\* Before the peer connection is made nobody's video is known.
NobodyInv == peer_connection_ = "null" /\ connected => available = {}

LEMMA NobodyInvHolds == Spec => []NobodyInv
<1>1. Init => NobodyInv
  BY DEF Init, NobodyInv
<1>2. NobodyInv /\ [Next]_vars => NobodyInv'
  <2> SUFFICES ASSUME NobodyInv, [Next]_vars PROVE NobodyInv'
    OBVIOUS
  <2>1. CASE peer_connection_' # "null" \/ ~connected'
    BY <2>1 DEF NobodyInv
  <2>2. CASE UNCHANGED <<peer_connection_, connected, available>>
    BY <2>2 DEF NobodyInv
  <2>3. CASE RunThread
    BY <2>1, <2>2, <2>3
    DEF RunThread, OnSignalingClientStarted, OnRemoteVideoSourcesAvailable,
        OnRemoteVideoSourcesUnavailable, OnRemoteDescriptionReceived, ConnectionEnds,
        OnSignalingClientStopped, peerVars, clientVars
  <2>4. CASE SignalingThread \/ Server
    BY <2>2, <2>4
    DEF SignalingThread, RunCreate, RunSetLocal, RunSetRemote, OnLocalSuccess,
        OnRemoteSuccess, OnRemoteFailure, Server, ServerAnswers, ServerRefuses, peerVars,
        clientVars
  <2>5. CASE OnIceCandidate \/ App
    BY <2>1, <2>2, <2>5 DEF OnIceCandidate, App, StartLocalVideo, Stop, clientVars
  <2>6. CASE UNCHANGED vars
    BY <2>2, <2>6 DEF vars, peerVars, clientVars
  <2> QED
    BY <2>3, <2>4, <2>5, <2>6 DEF Next
<1> QED
  BY <1>1, <1>2, PTL DEF Spec

\* What OnRemoteSuccess subscribes to: every new mid, under its attendee.
LEMMA NewSubscriptions ==
  ASSUME TypeOK, MidsInv, OnRemoteSuccess
  PROVE  /\ DOMAIN video_sources_to_subscribe_' =
              DOMAIN video_sources_to_subscribe_
                \union {remote_video_transceivers_[a] : a \in NewRemoteVideos}
         /\ DOMAIN remote_video_sources_' \subseteq DOMAIN video_sources_to_subscribe_'
         /\ \A m \in DOMAIN remote_video_sources_ :
              m \in DOMAIN remote_video_sources_'
                /\ remote_video_sources_'[m] = remote_video_sources_[m]
         /\ \A a \in NewRemoteVideos :
              /\ remote_video_transceivers_[a] \in DOMAIN remote_video_sources_'
              /\ remote_video_sources_'[remote_video_transceivers_[a]] = a
<1> DEFINE new == NewRemoteVideos
           MidOf(a) == remote_video_transceivers_[a]
           old == DOMAIN video_sources_to_subscribe_
           W == old \union {MidOf(a) : a \in new}
           wanted == [m \in W |->
                        IF \E a \in new : MidOf(a) = m
                        THEN CHOOSE a \in new : MidOf(a) = m
                        ELSE video_sources_to_subscribe_[m]]
<1>1. CASE new = {}
  BY <1>1 DEF OnRemoteSuccess, MidsInv
<1>2. CASE new # {}
  <2>1. video_sources_to_subscribe_' = wanted
          /\ remote_video_sources_' = Subscriptions(wanted)
    BY <1>2 DEF OnRemoteSuccess, Resubscribe
  <2>2. /\ new \subseteq available
        /\ \A a \in new : MidOf(a) \notin old
        /\ \A a, b \in new : MidOf(a) = MidOf(b) => a = b
    BY DEF NewRemoteVideos, MidsInv
  <2>3. \A a \in new : MidOf(a) \in W /\ wanted[MidOf(a)] = a
    BY <2>2
  <2>4. DOMAIN wanted = W
    OBVIOUS
  <2>5. DOMAIN remote_video_sources_ \subseteq old
    BY DEF MidsInv
  <2> HIDE DEF wanted
  <2>6. /\ DOMAIN Subscriptions(wanted) =
             DOMAIN remote_video_sources_ \union {n \in W : wanted[n] \in available}
        /\ \A m \in DOMAIN remote_video_sources_ :
             Subscriptions(wanted)[m] = remote_video_sources_[m]
        /\ \A m \in {n \in W : wanted[n] \in available} :
             m \notin DOMAIN remote_video_sources_ => Subscriptions(wanted)[m] = wanted[m]
    BY <2>4 DEF Subscriptions
  <2>7. \A a \in new : /\ MidOf(a) \in DOMAIN remote_video_sources_'
                        /\ remote_video_sources_'[MidOf(a)] = a
    <3>1. ASSUME NEW a \in new
          PROVE  /\ MidOf(a) \in DOMAIN remote_video_sources_'
                 /\ remote_video_sources_'[MidOf(a)] = a
      <4>1. PICK m : m = MidOf(a)
        OBVIOUS
      <4>2. m \in W /\ wanted[m] = a /\ a \in available /\ m \notin DOMAIN remote_video_sources_
        BY <2>2, <2>3, <2>5, <4>1
      <4>3. Subscriptions(wanted)[m] = a /\ m \in DOMAIN Subscriptions(wanted)
        BY <2>6, <4>2
      <4> QED
        BY <2>1, <4>1, <4>3
    <3> QED
      BY <3>1
  <2> QED
    BY <2>1, <2>4, <2>5, <2>6, <2>7
<1> QED
  BY <1>1, <1>2

\* Mids are given to one attendee each, and never again after Unavailable.
LEMMA MidsInvHolds == Spec => []MidsInv
<1>1. Init => MidsInv
  <2> SUFFICES ASSUME Init PROVE MidsInv
    OBVIOUS
  <2>1. /\ transceivers = 0 /\ local.sections = 0 /\ Range(chain) = {} /\ available = {}
        /\ DOMAIN remote_video_transceivers_ = {}
        /\ DOMAIN video_sources_to_subscribe_ = {} /\ DOMAIN remote_video_sources_ = {}
    BY EmptyMapType DEF Init, NoOffer, Range
  <2> QED
    BY <2>1 DEF MidsInv, Old
<1>2. TypeOK /\ NobodyInv /\ MidsInv /\ [Next]_vars => MidsInv'
  <2> SUFFICES ASSUME TypeOK, NobodyInv, MidsInv, [Next]_vars PROVE MidsInv'
    OBVIOUS
  <2>0. /\ chain \in Seq(Operation) /\ transceivers \in Nat
        /\ Target(stopped) \in Offer /\ Target(stopped).sections = transceivers
        /\ \A o \in Range(chain) : o.op = "setlocal" => o.offer.sections \in Nat
    <3>1. chain \in Seq(Operation) /\ transceivers \in Nat
          /\ Target(stopped) \in Offer /\ Target(stopped).sections = transceivers
      BY DEF TypeOK, Target, Offer
    <3>2. \A o \in Range(chain) : o \in Operation
      BY <3>1 DEF Range
    <3>3. \A o \in Settings : o.offer.sections \in Nat
      BY OperationKinds DEF Settings, Offer
    <3> QED
      BY <3>1, <3>2, <3>3, OperationKinds
  <2>1. ASSUME UNCHANGED <<local, transceivers, remote_video_transceivers_, available,
                           video_sources_to_subscribe_, remote_video_sources_>>,
               \A o \in Range(chain') :
                 o.op = "setlocal" => o \in Range(chain) \/ o.offer.sections = transceivers
        PROVE  MidsInv'
    BY <2>0, <2>1 DEF MidsInv, Old
  <2>2. ASSUME chain' = chain \/ chain' = Append(chain, Create)
        PROVE  \A o \in Range(chain') : o.op = "setlocal" => o \in Range(chain)
    <3>1. CASE chain' = Append(chain, Create)
      <4>1. Range(chain') = Range(chain) \union {Create}
        BY <2>0, <3>1, OperationTypes, OperationAdded
      <4> QED
        BY <4>1, OperationKinds
    <3> QED
      BY <2>2, <3>1
  <2>3. ASSUME NEW attendees \in SUBSET Attendee, AddTransceivers(attendees),
               available' = available \union attendees,
               UNCHANGED <<local, video_sources_to_subscribe_, remote_video_sources_>>,
               \A o \in Range(chain') : o.op = "setlocal" => o \in Range(chain)
        PROVE  MidsInv'
    <3> DEFINE had == DOMAIN remote_video_transceivers_
    <3>1. had \subseteq available
      BY DEF MidsInv
    <3>2. /\ transceivers' \in Nat /\ transceivers <= transceivers'
          /\ DOMAIN remote_video_transceivers_' = had \union attendees
          /\ \A a \in had :
               remote_video_transceivers_'[a] = remote_video_transceivers_[a]
          /\ \A a \in attendees \ had :
               /\ remote_video_transceivers_'[a] \in Nat
               /\ remote_video_transceivers_'[a] > transceivers
               /\ remote_video_transceivers_'[a] <= transceivers'
          /\ \A a, b \in attendees \ had :
               remote_video_transceivers_'[a] = remote_video_transceivers_'[b] => a = b
      BY <2>3, NewTransceivers
    <3>3. DOMAIN remote_video_transceivers_' \ had = attendees \ had
            /\ DOMAIN remote_video_transceivers_' \subseteq available'
      BY <2>3, <3>1, <3>2
    <3>4. \A o \in Range(chain') : o.op = "setlocal" => o.offer.sections \in Nat
      BY <2>0, <2>3
    <3>5. \A a \in DOMAIN remote_video_transceivers_' :
            \/ a \in had /\ remote_video_transceivers_'[a] = remote_video_transceivers_[a]
            \/ /\ a \notin had
               /\ remote_video_transceivers_'[a] \in Nat
               /\ remote_video_transceivers_'[a] > transceivers
               /\ remote_video_transceivers_'[a] <= transceivers'
      <4> HIDE DEF had
      <4> QED
        BY <3>2
    <3> QED
      BY <2>3, <3>2, <3>3, <3>4, <3>5, MidsKept
  <2>4. ASSUME NEW attendees \in SUBSET Attendee, OnSignalingClientStarted(attendees)
        PROVE  MidsInv'
    <3>1. \A i \in DOMAIN chain' : chain'[i] = Create
      BY <2>4 DEF OnSignalingClientStarted
    <3>2. \A o \in Range(chain') : o.op # "setlocal"
      BY <3>1, OperationKinds DEF Range
    <3>3. available = {}
      BY <2>4 DEF OnSignalingClientStarted, NobodyInv
    <3> QED
      BY <2>3, <2>4, <3>2, <3>3 DEF OnSignalingClientStarted
  <2>5. ASSUME NEW attendees \in SUBSET Attendee, OnRemoteVideoSourcesAvailable(attendees)
        PROVE  MidsInv'
    <3>1. chain' = chain \/ chain' = Append(chain, Create)
      BY <2>5 DEF OnRemoteVideoSourcesAvailable, CreateOffer
    <3> QED
      BY <2>2, <2>3, <2>5, <3>1 DEF OnRemoteVideoSourcesAvailable
  <2>6. ASSUME NEW attendees \in SUBSET Attendee, OnRemoteVideoSourcesUnavailable(attendees)
        PROVE  MidsInv'
    <3>1. chain' = chain \/ chain' = Append(chain, Create)
      BY <2>6 DEF OnRemoteVideoSourcesUnavailable, CreateOffer
    <3>2. /\ available' = available \ attendees
          /\ remote_video_transceivers_' = Erase(remote_video_transceivers_, attendees)
          /\ UNCHANGED <<transceivers, local, video_sources_to_subscribe_,
                         remote_video_sources_>>
      BY <2>6 DEF OnRemoteVideoSourcesUnavailable, peerVars
    <3>3. /\ DOMAIN remote_video_transceivers_' \subseteq available'
          /\ DOMAIN remote_video_transceivers_' \subseteq DOMAIN remote_video_transceivers_
          /\ \A a \in DOMAIN remote_video_transceivers_' :
               a \in DOMAIN remote_video_transceivers_
                 /\ remote_video_transceivers_'[a] = remote_video_transceivers_[a]
      <4>1. DOMAIN remote_video_transceivers_ \subseteq available
        BY DEF MidsInv
      <4>2. /\ DOMAIN remote_video_transceivers_' =
                 DOMAIN remote_video_transceivers_ \ attendees
            /\ \A a \in DOMAIN remote_video_transceivers_ \ attendees :
                 remote_video_transceivers_'[a] = remote_video_transceivers_[a]
        BY <3>2, EraseProperties
      <4> QED
        BY <3>2, <4>1, <4>2
    <3>4. \A o \in Range(chain') :
            o.op = "setlocal" => o \in Range(chain) /\ o.offer.sections \in Nat
      BY <2>0, <2>2, <3>1
    <3>5. DOMAIN remote_video_transceivers_' \ DOMAIN remote_video_transceivers_ = {}
      BY <3>3
    <3> QED
      BY <2>0, <3>2, <3>3, <3>4, <3>5, MidsKept
  <2>7. CASE StartLocalVideo
    <3>1. chain' = chain \/ chain' = Append(chain, Create)
      BY <2>7 DEF StartLocalVideo, CreateOffer
    <3> QED
      BY <2>1, <2>2, <2>7, <3>1 DEF StartLocalVideo, controllerVars, clientVars
  <2>8. CASE OnRemoteDescriptionReceived
    <3>1. PICK n \in 0 .. MaxTransceivers : chain' = Append(chain, SetRemote(n))
      <4>1. answers \in Seq(0 .. MaxTransceivers)
        BY DEF TypeOK
      <4> QED
        BY <4>1, <2>8, HeadTailType DEF OnRemoteDescriptionReceived
    <3>2. Range(chain') = Range(chain) \union {SetRemote(n)}
      BY <2>0, <3>1, OperationTypes, OperationAdded
    <3>3. \A o \in Range(chain') : o.op = "setlocal" => o \in Range(chain)
      BY <3>2, OperationKinds
    <3> QED
      BY <2>1, <2>8, <3>3
      DEF OnRemoteDescriptionReceived, peerVars, controllerVars, clientVars
  <2>9. CASE OnSignalingClientStopped
    <3>1. Range(chain') = {}
      BY <2>9 DEF OnSignalingClientStopped, Range
    <3> QED
      BY <2>1, <2>9, <3>1 DEF OnSignalingClientStopped, controllerVars, clientVars
  <2>10. CASE RunCreate
    <3>1. Range(chain) = {Head(chain)} \union Range(Tail(chain))
            /\ Tail(chain) \in Seq(Operation)
      BY <2>0, <2>10, TailElements DEF RunCreate
    <3>2. chain' = Tail(chain) \/ chain' = Append(Tail(chain), SetLocal(Target(stopped)))
      BY <2>10 DEF RunCreate, Target
    <3>3. \A o \in Range(chain') :
            o.op = "setlocal" => o \in Range(chain) \/ o.offer.sections = transceivers
      <4>1. CASE chain' = Append(Tail(chain), SetLocal(Target(stopped)))
        <5>1. PICK o : o = SetLocal(Target(stopped))
          OBVIOUS
        <5>2. o \in Operation /\ o.offer.sections = transceivers
          BY <2>0, <5>1, OperationTypes, OperationKinds
        <5>3. Range(chain') = Range(Tail(chain)) \union {o}
          BY <3>1, <4>1, <5>1, <5>2, OperationAdded
        <5> QED
          BY <3>1, <5>2, <5>3
      <4> QED
        BY <3>1, <3>2, <4>1
    <3> QED
      BY <2>1, <2>10, <3>3 DEF RunCreate, peerVars, controllerVars, clientVars
  <2>11. CASE RunSetLocal
    <3>1. /\ chain # <<>> /\ chain' = Tail(chain) /\ Head(chain).op = "setlocal"
          /\ local' = local \/ local' = Head(chain).offer
          /\ UNCHANGED <<transceivers, remote_video_transceivers_, available,
                         video_sources_to_subscribe_, remote_video_sources_>>
      BY <2>11 DEF RunSetLocal, controllerVars, clientVars
    <3>2. Range(chain) = {Head(chain)} \union Range(chain')
      BY <2>0, <3>1, TailElements
    <3>3. Old(local'.sections)
      BY <3>1, <3>2 DEF MidsInv
    <3> QED
      BY <3>1, <3>2, <3>3 DEF MidsInv, Old
  <2>12. CASE RunSetRemote
    <3>1. chain # <<>> /\ chain' = Tail(chain)
      BY <2>12 DEF RunSetRemote
    <3>2. Range(chain) = {Head(chain)} \union Range(chain')
      BY <2>0, <3>1, TailElements
    <3>3. PICK gone \in SUBSET DOMAIN remote_video_transceivers_ :
            /\ DOMAIN remote_video_transceivers_' = DOMAIN remote_video_transceivers_ \ gone
            /\ \A a \in DOMAIN remote_video_transceivers_ \ gone :
                 remote_video_transceivers_'[a] = remote_video_transceivers_[a]
      BY <2>12, TracksRemoved
    <3>4. UNCHANGED <<transceivers, local, video_sources_to_subscribe_,
                      remote_video_sources_, available>>
      BY <2>12 DEF RunSetRemote, clientVars
    <3>5. \A o \in Range(chain') :
            o.op = "setlocal" => o \in Range(chain) /\ o.offer.sections \in Nat
      BY <2>0, <3>2
    <3>6. /\ DOMAIN remote_video_transceivers_' \subseteq available'
          /\ DOMAIN remote_video_transceivers_' \ DOMAIN remote_video_transceivers_ = {}
          /\ \A a \in DOMAIN remote_video_transceivers_' :
               a \in DOMAIN remote_video_transceivers_
                 /\ remote_video_transceivers_'[a] = remote_video_transceivers_[a]
      BY <3>3, <3>4 DEF MidsInv
    <3> QED
      BY <2>0, <3>4, <3>5, <3>6, MidsKept
  <2>13. CASE OnRemoteSuccess
    <3>1. chain' = chain \/ chain' = Append(chain, Create)
      BY <2>13 DEF OnRemoteSuccess, Resubscribe
    <3>2. \A o \in Range(chain') : o.op = "setlocal" => o \in Range(chain)
      BY <2>2, <3>1
    <3>3. UNCHANGED <<local, transceivers, remote_video_transceivers_, available>>
      BY <2>13 DEF OnRemoteSuccess, peerVars
    <3>4. \A m \in DOMAIN video_sources_to_subscribe_' : Old(m)
      BY <2>13, NewSubscriptions DEF MidsInv, NewRemoteVideos
    <3>5. ASSUME NEW a \in DOMAIN remote_video_transceivers_,
                 remote_video_transceivers_[a] \in DOMAIN video_sources_to_subscribe_'
          PROVE  /\ remote_video_transceivers_[a] \in DOMAIN remote_video_sources_'
                 /\ remote_video_sources_'[remote_video_transceivers_[a]] = a
      <4>1. CASE remote_video_transceivers_[a] \in DOMAIN video_sources_to_subscribe_
        BY <2>13, <4>1, NewSubscriptions DEF MidsInv
      <4>2. CASE remote_video_transceivers_[a] \notin DOMAIN video_sources_to_subscribe_
        <5>1. PICK b \in NewRemoteVideos :
                remote_video_transceivers_[b] = remote_video_transceivers_[a]
          BY <2>13, <3>5, <4>2, NewSubscriptions
        <5>2. b = a
          BY <5>1 DEF MidsInv, NewRemoteVideos
        <5> QED
          BY <2>13, <5>1, <5>2, NewSubscriptions
      <4> QED
        BY <4>1, <4>2
    <3>6. DOMAIN remote_video_sources_' \subseteq DOMAIN video_sources_to_subscribe_'
      BY <2>13, NewSubscriptions
    <3> QED
      BY <3>2, <3>3, <3>4, <3>5, <3>6 DEF MidsInv, Old
  <2>14. CASE ConnectionEnds \/ OnLocalSuccess \/ OnRemoteFailure \/ OnIceCandidate
                \/ Server \/ Stop
    BY <2>1, <2>14
    DEF ConnectionEnds, OnLocalSuccess, OnRemoteFailure, OnIceCandidate, Server,
        ServerAnswers, ServerRefuses, Stop, peerVars, queueVars, controllerVars, clientVars
  <2>15. CASE UNCHANGED vars
    BY <2>1, <2>15 DEF vars, peerVars, queueVars, controllerVars, clientVars
  <2> QED
    BY <2>4, <2>5, <2>6, <2>7, <2>8, <2>9, <2>10, <2>11, <2>12, <2>13, <2>14, <2>15
    DEF Next, RunThread, SignalingThread, App
<1> QED
  BY <1>1, <1>2, TypeCorrect, NobodyInvHolds, PTL DEF Spec

\* Stopped transceivers have been forgotten, and are never given out again.
LEMMA StoppedInvHolds == Spec => []StoppedInv
<1>1. Init => StoppedInv
  <2> SUFFICES ASSUME Init PROVE StoppedInv
    OBVIOUS
  <2>1. /\ stopped = {} /\ local.stopped = {} /\ sent.stopped = {} /\ Range(chain) = {}
        /\ DOMAIN remote_video_transceivers_ = {}
    BY EmptyMapType DEF Init, NoOffer, Range
  <2> QED
    BY <2>1 DEF StoppedInv
<1>2. TypeOK /\ FlightInv /\ MidsInv /\ StoppedInv /\ [Next]_vars => StoppedInv'
  <2> SUFFICES ASSUME TypeOK, FlightInv, MidsInv, StoppedInv, [Next]_vars PROVE StoppedInv'
    OBVIOUS
  <2>0. /\ chain \in Seq(Operation) /\ answers \in Seq(0 .. MaxTransceivers)
        /\ transceivers \in Nat /\ Target(stopped) \in Offer
        /\ \A m \in stopped : m \in Nat
    BY DEF TypeOK, Target, Offer, Mid
  <2>1. ASSUME UNCHANGED <<stopped, transceivers, remote_video_transceivers_>>,
               local' = local \/ local'.stopped \subseteq stopped,
               sent' = sent \/ sent'.stopped \subseteq stopped,
               \A o \in Range(chain') :
                 o.op = "setlocal" => o \in Range(chain) \/ o.offer.stopped \subseteq stopped
        PROVE  StoppedInv'
    BY <2>1 DEF StoppedInv, Old
  <2>2. ASSUME chain' = chain \/ chain' = Append(chain, Create)
        PROVE  \A o \in Range(chain') : o.op = "setlocal" => o \in Range(chain)
    <3>1. CASE chain' = Append(chain, Create)
      <4>1. Range(chain') = Range(chain) \union {Create}
        BY <2>0, <3>1, OperationTypes, OperationAdded
      <4> QED
        BY <4>1, OperationKinds
    <3> QED
      BY <2>2, <3>1
  <2>3. ASSUME NEW attendees \in SUBSET Attendee, AddTransceivers(attendees),
               UNCHANGED <<stopped, local, sent>>,
               \A o \in Range(chain') : o.op = "setlocal" => o \in Range(chain)
        PROVE  StoppedInv'
    <3> DEFINE had == DOMAIN remote_video_transceivers_
    <3>1. /\ transceivers' \in Nat /\ transceivers <= transceivers'
          /\ DOMAIN remote_video_transceivers_' = had \union attendees
          /\ \A a \in had : remote_video_transceivers_'[a] = remote_video_transceivers_[a]
          /\ \A a \in attendees \ had :
               /\ remote_video_transceivers_'[a] \in Nat
               /\ remote_video_transceivers_'[a] > transceivers
      BY <2>3, NewTransceivers
    <3>2. \A m \in stopped : m <= transceivers
      BY DEF StoppedInv, Old
    <3>3. \A m \in stopped' : Old(m)'
      BY <2>0, <2>3, <3>1, <3>2 DEF Old
    <3>4. \A a \in had : remote_video_transceivers_[a] \notin stopped
      BY DEF StoppedInv
    <3>5. \A a \in DOMAIN remote_video_transceivers_' :
            remote_video_transceivers_'[a] \notin stopped
      <4> HIDE DEF had
      <4>1. \A a \in attendees \ had : remote_video_transceivers_'[a] \notin stopped
        BY <2>0, <3>1, <3>2
      <4> QED
        BY <3>1, <3>4, <4>1
    <3> QED
      BY <2>3, <3>3, <3>5 DEF StoppedInv
  <2>4. ASSUME NEW attendees \in SUBSET Attendee, OnSignalingClientStarted(attendees)
        PROVE  StoppedInv'
    <3>1. \A i \in DOMAIN chain' : chain'[i] = Create
      BY <2>4 DEF OnSignalingClientStarted
    <3>2. \A o \in Range(chain') : o.op # "setlocal"
      BY <3>1, OperationKinds DEF Range
    <3> QED
      BY <2>3, <2>4, <3>2 DEF OnSignalingClientStarted, historyVars
  <2>5. ASSUME NEW attendees \in SUBSET Attendee, OnRemoteVideoSourcesAvailable(attendees)
        PROVE  StoppedInv'
    <3>1. chain' = chain \/ chain' = Append(chain, Create)
      BY <2>5 DEF OnRemoteVideoSourcesAvailable, CreateOffer
    <3> QED
      BY <2>2, <2>3, <2>5, <3>1 DEF OnRemoteVideoSourcesAvailable
  <2>6. ASSUME NEW attendees \in SUBSET Attendee, OnRemoteVideoSourcesUnavailable(attendees)
        PROVE  StoppedInv'
    <3>1. chain' = chain \/ chain' = Append(chain, Create)
      BY <2>6 DEF OnRemoteVideoSourcesUnavailable, CreateOffer
    <3>2. /\ remote_video_transceivers_' = Erase(remote_video_transceivers_, attendees)
          /\ UNCHANGED <<stopped, transceivers, local, sent>>
      BY <2>6 DEF OnRemoteVideoSourcesUnavailable, peerVars
    <3>3. /\ DOMAIN remote_video_transceivers_' = DOMAIN remote_video_transceivers_ \ attendees
          /\ \A a \in DOMAIN remote_video_transceivers_ \ attendees :
               remote_video_transceivers_'[a] = remote_video_transceivers_[a]
      BY <3>2, EraseProperties
    <3> QED
      BY <2>2, <3>1, <3>2, <3>3 DEF StoppedInv, Old
  <2>7. CASE StartLocalVideo
    <3>1. chain' = chain \/ chain' = Append(chain, Create)
      BY <2>7 DEF StartLocalVideo, CreateOffer
    <3> QED
      BY <2>1, <2>2, <2>7, <3>1 DEF StartLocalVideo, controllerVars
  <2>8. CASE OnRemoteDescriptionReceived
    <3>1. PICK n \in 0 .. MaxTransceivers : chain' = Append(chain, SetRemote(n))
      BY <2>0, <2>8, HeadTailType DEF OnRemoteDescriptionReceived
    <3>2. Range(chain') = Range(chain) \union {SetRemote(n)}
      BY <2>0, <3>1, OperationTypes, OperationAdded
    <3>3. \A o \in Range(chain') : o.op = "setlocal" => o \in Range(chain)
      BY <3>2, OperationKinds
    <3> QED
      BY <2>1, <2>8, <3>3 DEF OnRemoteDescriptionReceived, peerVars, controllerVars, historyVars
  <2>9. CASE OnSignalingClientStopped
    <3>1. Range(chain') = {}
      BY <2>9 DEF OnSignalingClientStopped, Range
    <3> QED
      BY <2>1, <2>9, <3>1 DEF OnSignalingClientStopped, controllerVars, historyVars
  <2>10. CASE RunCreate
    <3>1. Range(chain) = {Head(chain)} \union Range(Tail(chain))
            /\ Tail(chain) \in Seq(Operation)
      BY <2>0, <2>10, TailElements DEF RunCreate
    <3>2. chain' = Tail(chain) \/ chain' = Append(Tail(chain), SetLocal(Target(stopped)))
      BY <2>10 DEF RunCreate, Target
    <3>3. \A o \in Range(chain') :
            o.op = "setlocal" => o \in Range(chain) \/ o.offer.stopped \subseteq stopped
      <4>1. CASE chain' = Append(Tail(chain), SetLocal(Target(stopped)))
        <5>1. PICK o : o = SetLocal(Target(stopped))
          OBVIOUS
        <5>2. o \in Operation /\ o.offer.stopped = stopped
          BY <2>0, <5>1, OperationTypes, OperationKinds DEF Target
        <5>3. Range(chain') = Range(Tail(chain)) \union {o}
          BY <3>1, <4>1, <5>1, <5>2, OperationAdded
        <5> QED
          BY <3>1, <5>2, <5>3
      <4> QED
        BY <3>1, <3>2, <4>1
    <3> QED
      BY <2>1, <2>10, <3>3 DEF RunCreate, peerVars, controllerVars, historyVars
  <2>11. CASE RunSetLocal
    <3>1. /\ chain # <<>> /\ chain' = Tail(chain) /\ Head(chain).op = "setlocal"
          /\ local' = local \/ local' = Head(chain).offer
          /\ UNCHANGED <<stopped, transceivers, remote_video_transceivers_, sent>>
      BY <2>11 DEF RunSetLocal, controllerVars, historyVars
    <3>2. Range(chain) = {Head(chain)} \union Range(chain')
      BY <2>0, <3>1, TailElements
    <3>3. local' = local \/ local'.stopped \subseteq stopped
      BY <3>1, <3>2 DEF StoppedInv
    <3> QED
      BY <2>1, <3>1, <3>2, <3>3
  <2>12. CASE RunSetRemote
    <3>1. chain # <<>> /\ chain' = Tail(chain) /\ UNCHANGED <<transceivers, local, sent>>
      BY <2>12 DEF RunSetRemote, historyVars
    <3>2. Range(chain) = {Head(chain)} \union Range(chain')
      BY <2>0, <3>1, TailElements
    <3>3. PICK gone \in SUBSET DOMAIN remote_video_transceivers_ :
            /\ stopped' = stopped \union {remote_video_transceivers_[a] : a \in gone}
            /\ DOMAIN remote_video_transceivers_' = DOMAIN remote_video_transceivers_ \ gone
            /\ \A a \in DOMAIN remote_video_transceivers_ \ gone :
                 remote_video_transceivers_'[a] = remote_video_transceivers_[a]
      BY <2>12, TracksRemoved
    <3>4. \A m \in stopped' : Old(m)'
      BY <3>1, <3>3 DEF StoppedInv, MidsInv, Old
    <3>5. ASSUME NEW a \in DOMAIN remote_video_transceivers_'
          PROVE  remote_video_transceivers_'[a] \notin stopped'
      <4>1. /\ a \in DOMAIN remote_video_transceivers_ /\ a \notin gone
            /\ remote_video_transceivers_'[a] = remote_video_transceivers_[a]
        BY <3>3, <3>5
      <4>2. \A b \in gone : remote_video_transceivers_[b] # remote_video_transceivers_[a]
        BY <4>1 DEF MidsInv
      <4> QED
        BY <3>3, <4>1, <4>2 DEF StoppedInv
    <3>6. /\ local'.stopped \subseteq stopped' /\ sent'.stopped \subseteq stopped'
          /\ \A o \in Range(chain') : o.op = "setlocal" => o.offer.stopped \subseteq stopped'
      BY <3>1, <3>2, <3>3 DEF StoppedInv
    <3> QED
      BY <3>4, <3>5, <3>6 DEF StoppedInv
  <2>13. CASE OnRemoteSuccess
    <3>1. chain' = chain \/ chain' = Append(chain, Create)
      BY <2>13 DEF OnRemoteSuccess, Resubscribe
    <3> QED
      BY <2>1, <2>2, <2>13, <3>1 DEF OnRemoteSuccess, peerVars, historyVars
  <2>14. CASE OnLocalSuccess \/ OnIceCandidate
    <3>1. PICK candidates : SendUpdates(candidates)
      BY <2>14 DEF OnLocalSuccess, OnIceCandidate
    <3>2. sent' = sent \/ sent' = local
      BY <3>1 DEF SendUpdates
    <3>3. sent' = sent \/ sent'.stopped \subseteq stopped
      BY <3>2 DEF StoppedInv
    <3>4. UNCHANGED <<stopped, transceivers, remote_video_transceivers_, local, chain>>
      BY <2>14 DEF OnLocalSuccess, OnIceCandidate, peerVars, queueVars
    <3> QED
      BY <2>1, <3>3, <3>4
  <2>15. CASE ConnectionEnds \/ OnRemoteFailure \/ Server \/ Stop
    BY <2>1, <2>15
    DEF ConnectionEnds, OnRemoteFailure, Server, ServerAnswers, ServerRefuses, Stop,
        peerVars, queueVars, controllerVars, historyVars
  <2>16. CASE UNCHANGED vars
    BY <2>1, <2>16 DEF vars, peerVars, queueVars, controllerVars, historyVars
  <2> QED
    BY <2>4, <2>5, <2>6, <2>7, <2>8, <2>9, <2>10, <2>11, <2>12, <2>13, <2>14, <2>15, <2>16
    DEF Next, RunThread, SignalingThread, App
<1> QED
  BY <1>1, <1>2, TypeCorrect, FlightInvHolds, MidsInvHolds, PTL DEF Spec

\* While nothing is in flight and nothing is sent, either no description is
\* pending or the last one has been dealt with.
LEMMA NotSent ==
  ASSUME TypeOK, FlightInv, FreshInv, HandshakeInv, peer_connection_ = "open", connected,
         turn >= 1, Keeps(turn), ~updates_in_flight_
  PROVE  "local" \notin Range(callbacks)
<1>1. signaling_state = "stable"
  BY DEF Keeps, FreshInv, TypeOK
<1>2. "remote" \notin Range(callbacks)
  BY Idle, ReportNames
<1> QED
  BY <1>1, <1>2 DEF HandshakeInv

\* Each of the ways of dealing with a local description or an answer leaves the last
\* description sent, unless it was lost.
LEMMA UpdateInvHolds == Spec => []UpdateInv
<1>1. Init => UpdateInv
  BY DEF Init, UpdateInv
<1>2. TypeOK /\ FlightInv /\ FreshInv /\ HandshakeInv /\ UpdateInv /\ [Next]_vars
        => UpdateInv'
  <2> SUFFICES ASSUME TypeOK, FlightInv, FreshInv, HandshakeInv, UpdateInv, [Next]_vars
               PROVE  UpdateInv'
    OBVIOUS
  <2>0. /\ callbacks \in Seq(Callback) /\ "local" \in Callback
        /\ "remote" \in Callback /\ "remote failed" \in Callback
    BY DEF TypeOK, Callback
  <2>turn. turn \in Nat
    BY DEF TypeOK
  <2>1. CASE UNCHANGED <<peer_connection_, connected, refused, lost, turn, callbacks, sent,
                         local, signaling_state, updates_in_flight_>>
    BY <2>1 DEF UpdateInv
  <2>2. CASE peer_connection_' # "open" \/ ~connected' \/ refused' \/ turn' = 0
                \/ "local" \in Range(callbacks')
    BY <2>2 DEF UpdateInv
  <2>3. ASSUME NEW attendees \in SUBSET Attendee, OnSignalingClientStarted(attendees)
        PROVE  UpdateInv'
    BY <2>2, <2>3 DEF OnSignalingClientStarted, FreshInv
  <2>4. CASE RunSetLocal
    <3>1. CASE peer_connection_ # "open"
      BY <2>2, <2>4, <3>1 DEF RunSetLocal
    <3>2. CASE peer_connection_ = "open"
      <4>1. callbacks' = Append(callbacks, "local")
        BY <2>4, <3>2 DEF RunSetLocal
      <4>2. "local" \in Range(callbacks')
        BY <2>0, <4>1, CallbackAdded
      <4> QED
        BY <2>2, <4>2
    <3> QED
      BY <3>1, <3>2
  <2>5. CASE RunSetRemote
    <3>1. /\ UNCHANGED <<peer_connection_, connected, refused, lost, turn, sent, local,
                         updates_in_flight_>>
          /\ signaling_state' = "have-local-offer" => signaling_state = "have-local-offer"
      BY <2>5 DEF RunSetRemote, clientVars, historyVars
    <3>2. PICK c \in {"remote", "remote failed"} : callbacks' = Append(callbacks, c)
      BY <2>5 DEF RunSetRemote
    <3>3. Range(callbacks') = Range(callbacks) \union {c}
      BY <2>0, <3>2, CallbackAdded
    <3> QED
      BY <3>1, <3>3 DEF UpdateInv
  <2>6. CASE OnLocalSuccess
    <3>1. /\ callbacks # <<>> /\ Head(callbacks) = "local" /\ callbacks' = Tail(callbacks)
          /\ SendUpdates(turn)
          /\ UNCHANGED <<peer_connection_, connected, refused, turn, local, signaling_state>>
      BY <2>6 DEF OnLocalSuccess, peerVars, clientVars
    <3>2. "local" \in Range(callbacks)
      BY <3>1, CallbackTaken
    <3>3. CASE Sends(turn)
      BY <3>1, <3>3 DEF Sends, UpdateInv
    <3>4. CASE Keeps(turn)
      <4>1. updates_in_flight_ \/ peer_connection_ # "open" \/ ~connected \/ ~(turn >= 1)
        BY <3>2, <3>4, NotSent
      <4> QED
        BY <3>1, <3>4, <4>1 DEF Keeps, UpdateInv
    <3> QED
      BY <3>1, <3>3, <3>4, SendUpdatesOutcome
  <2>7. CASE OnIceCandidate
    <3>1. /\ peer_connection_ = "open" /\ signaling_state # "new"
          /\ turn' = turn + 1 /\ SendUpdates(turn + 1)
          /\ UNCHANGED <<peer_connection_, connected, refused, callbacks, local,
                         signaling_state>>
      BY <2>7 DEF OnIceCandidate, clientVars, queueVars
    <3>2. CASE Sends(turn + 1)
      BY <3>1, <3>2 DEF Sends, UpdateInv
    <3>3. CASE Keeps(turn + 1)
      <4>1. turn + 1 >= 1
        BY <2>turn
      <4>2. CASE updates_in_flight_
        BY <3>1, <3>3, <4>1, <4>2 DEF Keeps, UpdateInv
      <4>3. CASE ~updates_in_flight_
        <5>1. connected => signaling_state = "stable" /\ turn >= 1
          BY <2>turn, <3>1, <3>3, <4>1, <4>3 DEF Keeps, FreshInv, TypeOK
        <5> QED
          BY <3>1, <3>3, <5>1 DEF Keeps, UpdateInv
      <4> QED
        BY <4>2, <4>3
    <3> QED
      BY <3>1, <3>2, <3>3, SendUpdatesOutcome
  <2>8. CASE OnRemoteSuccess \/ OnRemoteFailure
    <3>1. /\ callbacks # <<>> /\ callbacks' = Tail(callbacks)
          /\ UNCHANGED <<peer_connection_, connected, refused, lost, turn, sent, local,
                         signaling_state>>
      BY <2>8 DEF OnRemoteSuccess, OnRemoteFailure, peerVars, clientVars, historyVars
    <3>2. CASE "local" \in Range(callbacks') \/ peer_connection_ # "open"
      BY <2>2, <3>1, <3>2
    <3>3. CASE "local" \notin Range(callbacks') /\ peer_connection_ = "open"
      <4>1. Range(callbacks) = {Head(callbacks)} \union Range(callbacks')
        BY <3>1, CallbackTaken
      <4>2. Unfollowed(callbacks, Head(callbacks))
        BY <3>1, <3>3, CallbackTaken
      <4>3. CASE OnRemoteSuccess
        <5>1. Head(callbacks) = "remote"
          BY <4>3 DEF OnRemoteSuccess
        <5>2. signaling_state = "stable"
          BY <3>3, <4>1, <4>2, <5>1 DEF HandshakeInv
        <5> QED
          BY <3>1, <3>3, <4>1, <5>1, <5>2 DEF UpdateInv
      <4>4. CASE OnRemoteFailure
        <5>1. Head(callbacks) = "remote failed"
          BY <4>4 DEF OnRemoteFailure
        <5>2. sent # local
          BY <3>3, <4>2, <5>1 DEF HandshakeInv
        <5> QED
          BY <3>1, <3>3, <4>1, <5>1, <5>2 DEF UpdateInv
      <4> QED
        BY <2>8, <4>3, <4>4
    <3> QED
      BY <3>2, <3>3
  <2>9. CASE ConnectionEnds \/ OnSignalingClientStopped \/ Stop \/ ServerRefuses
    BY <2>2, <2>9 DEF ConnectionEnds, OnSignalingClientStopped, Stop, ServerRefuses
  <2>10. ASSUME NEW attendees \in SUBSET Attendee,
                \/ OnRemoteVideoSourcesAvailable(attendees)
                \/ OnRemoteVideoSourcesUnavailable(attendees)
         PROVE  UpdateInv'
    BY <2>1, <2>10
    DEF OnRemoteVideoSourcesAvailable, OnRemoteVideoSourcesUnavailable, peerVars
  <2>11. CASE OnRemoteDescriptionReceived \/ RunCreate \/ StartLocalVideo \/ ServerAnswers
    BY <2>1, <2>11
    DEF OnRemoteDescriptionReceived, RunCreate, StartLocalVideo, ServerAnswers, peerVars,
        queueVars, controllerVars, clientVars, historyVars
  <2>12. CASE UNCHANGED vars
    BY <2>1, <2>12 DEF vars, peerVars, queueVars, controllerVars, clientVars, historyVars
  <2> QED
    BY <2>3, <2>4, <2>5, <2>6, <2>7, <2>8, <2>9, <2>10, <2>11, <2>12
    DEF Next, RunThread, SignalingThread, App, Server
<1> QED
  BY <1>1, <1>2, TypeCorrect, FlightInvHolds, FreshInvHolds, HandshakeInvHolds, PTL DEF Spec

\* New subscriptions of the client come with another offer.
LEMMA ReceivesInvHolds == Spec => []ReceivesInv
<1>1. Init => ReceivesInv
  BY DEF Init, ReceivesInv
<1>2. TypeOK /\ FlightInv /\ FreshInv /\ HandshakeInv /\ ReceivesInv /\ [Next]_vars
        => ReceivesInv'
  <2> SUFFICES ASSUME TypeOK, FlightInv, FreshInv, HandshakeInv, ReceivesInv, [Next]_vars
               PROVE  ReceivesInv'
    OBVIOUS
  <2>0. /\ chain \in Seq(Operation) /\ callbacks \in Seq(Callback)
        /\ subscribes \in Seq(Subscribe) /\ "local" \in Callback
        /\ Target(stopped) \in Offer
    BY DEF TypeOK, Callback, Target, Offer
  <2>turn. turn \in Nat
    BY DEF TypeOK
  <2>1. ASSUME updates_in_flight_,
               UNCHANGED <<peer_connection_, connected, refused, subscribes, subscribed,
                           remote_video_sources_, sent>>
        PROVE  ReceivesInv'
    BY <2>1 DEF ReceivesInv, Current
  <2>2. CASE peer_connection_' # "open" \/ ~connected' \/ refused'
    BY <2>2 DEF ReceivesInv
  <2>3. ASSUME ~updates_in_flight_',
               \/ turn' = 0 \/ "local" \in Range(callbacks')
               \/ \E o \in Settings \union {Create} : o \in Range(chain')
        PROVE  ReceivesInv'
    BY <2>3 DEF ReceivesInv
  <2>4. CASE UNCHANGED <<peer_connection_, connected, refused, updates_in_flight_, turn,
                         chain, callbacks, subscribes, subscribed,
                         remote_video_sources_, sent>>
    BY <2>4 DEF ReceivesInv, Current
  <2>5. ASSUME NEW attendees \in SUBSET Attendee, OnSignalingClientStarted(attendees)
        PROVE  ReceivesInv'
    BY <2>3, <2>5 DEF OnSignalingClientStarted, FreshInv
  <2>6. ASSUME NEW attendees \in SUBSET Attendee,
               \/ OnRemoteVideoSourcesAvailable(attendees)
               \/ OnRemoteVideoSourcesUnavailable(attendees)
               \/ StartLocalVideo
        PROVE  ReceivesInv'
    <3>1. /\ chain' = Append(chain, Create)
          /\ UNCHANGED <<peer_connection_, connected, refused, updates_in_flight_,
                         subscribes, subscribed, remote_video_sources_, sent>>
      BY <2>6
      DEF OnRemoteVideoSourcesAvailable, OnRemoteVideoSourcesUnavailable, StartLocalVideo,
          CreateOffer, peerVars, controllerVars, clientVars, wireVars
    <3>2. Range(chain') = Range(chain) \union {Create}
      BY <2>0, <3>1, OperationTypes, OperationAdded
    <3> QED
      BY <2>1, <2>3, <3>1, <3>2
  <2>7. CASE OnRemoteDescriptionReceived
    <3>1. updates_in_flight_
      BY <2>7, Waiting DEF OnRemoteDescriptionReceived
    <3> QED
      BY <2>1, <2>7, <3>1
      DEF OnRemoteDescriptionReceived, peerVars, clientVars, historyVars
  <2>8. CASE RunCreate
    <3>1. /\ chain # <<>>
          /\ UNCHANGED <<peer_connection_, connected, refused, updates_in_flight_,
                         subscribes, subscribed, remote_video_sources_, sent>>
      BY <2>8 DEF RunCreate, peerVars, controllerVars, clientVars, wireVars, historyVars
    <3>2. CASE peer_connection_ # "open"
      BY <2>2, <3>1, <3>2
    <3>3. CASE peer_connection_ = "open"
      <4>1. PICK o : o = SetLocal(Target(stopped))
        OBVIOUS
      <4>2. o \in Operation /\ o \in Settings
        BY <2>0, <4>1, OperationTypes DEF Settings
      <4>3. chain' = Append(Tail(chain), o) /\ Tail(chain) \in Seq(Operation)
        BY <2>0, <2>8, <3>1, <3>3, <4>1, HeadTailType DEF RunCreate, Target
      <4>4. Range(chain') = Range(Tail(chain)) \union {o}
        BY <4>2, <4>3, OperationAdded
      <4> QED
        BY <2>1, <2>3, <3>1, <4>2, <4>4
    <3> QED
      BY <3>2, <3>3
  <2>9. CASE RunSetLocal
    <3>1. UNCHANGED <<peer_connection_, connected, refused, updates_in_flight_,
                      subscribes, subscribed, remote_video_sources_, sent>>
      BY <2>9 DEF RunSetLocal, controllerVars, clientVars, wireVars, historyVars
    <3>2. CASE peer_connection_ # "open"
      BY <2>2, <3>1, <3>2
    <3>3. CASE peer_connection_ = "open"
      <4>1. callbacks' = Append(callbacks, "local")
        BY <2>9, <3>3 DEF RunSetLocal
      <4>2. "local" \in Range(callbacks')
        BY <2>0, <4>1, CallbackAdded
      <4> QED
        BY <2>1, <2>3, <3>1, <4>2
    <3> QED
      BY <3>2, <3>3
  <2>10. CASE RunSetRemote
    <3>1. updates_in_flight_
      BY <2>10, Applied DEF RunSetRemote
    <3> QED
      BY <2>1, <2>10, <3>1
      DEF RunSetRemote, clientVars, wireVars, historyVars
  <2>11. ASSUME NEW candidates, Sends(candidates), UNCHANGED remote_video_sources_
         PROVE  ReceivesInv'
    <3>1. subscribes' = <<SubscribeFrame>> /\ sent' = local
      BY <2>11 DEF Sends
    <3>2. SubscribeFrame.receives = Current'
      BY <2>11, <3>1 DEF SubscribeFrame, Current
    <3>3. subscribes' # <<>> /\ \A frame \in Range(subscribes') : frame.receives = Current'
      BY <3>1, <3>2 DEF Range
    <3> QED
      BY <3>3 DEF ReceivesInv
  <2>12. CASE OnLocalSuccess
    <3>1. /\ callbacks # <<>> /\ Head(callbacks) = "local" /\ SendUpdates(turn)
          /\ UNCHANGED <<peer_connection_, connected, refused, turn, subscribed,
                         remote_video_sources_>>
      BY <2>12 DEF OnLocalSuccess, peerVars, clientVars
    <3>2. "local" \in Range(callbacks)
      <4>1. Range(callbacks) = {Head(callbacks)} \union Range(Tail(callbacks))
        BY <2>0, <3>1, TailElements
      <4> QED
        BY <3>1, <4>1
    <3>3. CASE Keeps(turn)
      <4>1. updates_in_flight_ \/ peer_connection_ # "open" \/ ~connected \/ ~(turn >= 1)
        BY <3>2, <3>3, NotSent
      <4>2. UNCHANGED <<updates_in_flight_, subscribes, sent>>
        BY <3>3 DEF Keeps
      <4>3. turn >= 1 \/ turn = 0
        BY <2>turn
      <4> QED
        BY <2>0, <2>1, <2>2, <2>3, <3>1, <4>1, <4>2, <4>3
    <3> QED
      BY <2>11, <3>1, <3>3, SendUpdatesOutcome
  <2>13. CASE OnIceCandidate
    <3>1. /\ peer_connection_ = "open" /\ signaling_state # "new"
          /\ turn' = turn + 1 /\ SendUpdates(turn + 1)
          /\ UNCHANGED <<peer_connection_, connected, refused, chain, callbacks, subscribed,
                         remote_video_sources_>>
      BY <2>13 DEF OnIceCandidate, clientVars, queueVars
    <3>2. CASE Keeps(turn + 1)
      <4>1. turn + 1 >= 1
        BY <2>turn
      <4>2. UNCHANGED <<updates_in_flight_, subscribes, sent>>
        BY <3>2 DEF Keeps
      <4>3. CASE ~updates_in_flight_
        <5>1. connected => signaling_state = "stable" /\ turn >= 1
          BY <2>turn, <3>1, <3>2, <4>1, <4>3 DEF Keeps, FreshInv, TypeOK
        <5> QED
          BY <3>1, <4>2, <5>1 DEF ReceivesInv, Current
      <4> QED
        BY <2>1, <3>1, <4>2, <4>3
    <3> QED
      BY <2>11, <3>1, <3>2, SendUpdatesOutcome
  <2>14. CASE OnRemoteSuccess
    <3>1. /\ callbacks # <<>> /\ Head(callbacks) = "remote" /\ ~updates_in_flight_'
          /\ UNCHANGED <<peer_connection_, connected, refused, subscribes, subscribed, sent>>
      BY <2>14 DEF OnRemoteSuccess, peerVars, wireVars, historyVars
    <3>2. updates_in_flight_
      BY <3>1, Reporting, ReportNames
    <3>3. \/ UNCHANGED remote_video_sources_
          \/ peer_connection_ = "open" => chain' = Append(chain, Create)
      BY <2>14 DEF OnRemoteSuccess, Resubscribe
    <3>4. CASE chain' = Append(chain, Create)
      <4>1. Range(chain') = Range(chain) \union {Create}
        BY <2>0, <3>4, OperationTypes, OperationAdded
      <4> QED
        BY <2>3, <3>1, <4>1
    <3> QED
      BY <2>1, <2>2, <3>1, <3>2, <3>3, <3>4
  <2>15. CASE OnRemoteFailure
    <3>1. updates_in_flight_
      BY <2>15, Reporting, ReportNames DEF OnRemoteFailure
    <3> QED
      BY <2>1, <2>15, <3>1 DEF OnRemoteFailure, peerVars, clientVars, wireVars, historyVars
  <2>16. CASE ServerAnswers
    <3>1. /\ subscribes # <<>> /\ subscribes' = Tail(subscribes)
          /\ subscribed' = Head(subscribes)
          /\ UNCHANGED <<peer_connection_, connected, refused, updates_in_flight_,
                         remote_video_sources_, sent>>
      BY <2>16 DEF ServerAnswers, peerVars, controllerVars, clientVars, historyVars
    <3>2. updates_in_flight_
      BY <3>1, Waiting
    <3>3. Range(subscribes) = {Head(subscribes)} \union Range(subscribes')
      BY <2>0, <3>1, TailElements
    <3>4. Current' = Current
      BY <3>1 DEF Current
    <3> QED
      BY <3>1, <3>2, <3>3, <3>4 DEF ReceivesInv
  <2>17. CASE ConnectionEnds \/ OnSignalingClientStopped \/ Stop \/ ServerRefuses
    BY <2>2, <2>17 DEF ConnectionEnds, OnSignalingClientStopped, Stop, ServerRefuses
  <2>18. CASE UNCHANGED vars
    BY <2>4, <2>18
    DEF vars, peerVars, queueVars, controllerVars, clientVars, wireVars, historyVars
  <2> QED
    BY <2>5, <2>6, <2>7, <2>8, <2>9, <2>10, <2>12, <2>13, <2>14, <2>15, <2>16, <2>17, <2>18
    DEF Next, RunThread, SignalingThread, App, Server
<1> QED
  BY <1>1, <1>2, TypeCorrect, FlightInvHolds, FreshInvHolds, HandshakeInvHolds, PTL DEF Spec

\* OnRemoteSuccess subscribes to every mid that has its section.
LEMMA VideosInvHolds == Spec => []VideosInv
<1>1. Init => VideosInv
  BY DEF Init, VideosInv
<1>2. TypeOK /\ FlightInv /\ FreshInv /\ HandshakeInv /\ MidsInv /\ VideosInv /\ [Next]_vars
        => VideosInv'
  <2> SUFFICES ASSUME TypeOK, FlightInv, FreshInv, HandshakeInv, MidsInv, VideosInv,
                      [Next]_vars
               PROVE  VideosInv'
    OBVIOUS
  <2>1. CASE UNCHANGED <<peer_connection_, signaling_state, updates_in_flight_,
                         remote_video_transceivers_, local, video_sources_to_subscribe_>>
    BY <2>1 DEF VideosInv
  <2>2. CASE peer_connection_' # "open" \/ signaling_state' # "stable" \/ updates_in_flight_'
    BY <2>2 DEF VideosInv
  <2>3. ASSUME NEW attendees \in SUBSET Attendee, OnSignalingClientStarted(attendees)
        PROVE  VideosInv'
    BY <2>2, <2>3 DEF OnSignalingClientStarted, FreshInv
  <2>4. ASSUME NEW attendees \in SUBSET Attendee, OnRemoteVideoSourcesAvailable(attendees)
        PROVE  VideosInv'
    <3>1. /\ AddTransceivers(attendees) 
          /\ UNCHANGED <<peer_connection_, signaling_state, updates_in_flight_, local,
                         video_sources_to_subscribe_>>
      BY <2>4 DEF OnRemoteVideoSourcesAvailable
    <3> DEFINE had == DOMAIN remote_video_transceivers_
    <3>2. /\ transceivers \in Nat /\ local.sections \in Nat
          /\ local.sections <= transceivers
      BY DEF MidsInv, Old, TypeOK, Offer
    <3>3. /\ DOMAIN remote_video_transceivers_' = had \union attendees
          /\ \A a \in had : remote_video_transceivers_'[a] = remote_video_transceivers_[a]
          /\ \A a \in attendees \ had :
               /\ remote_video_transceivers_'[a] \in Nat
               /\ remote_video_transceivers_'[a] > transceivers
      BY <3>1, NewTransceivers
    <3>4. \A a \in DOMAIN remote_video_transceivers_' :
            remote_video_transceivers_'[a] <= local.sections =>
              a \in had /\ remote_video_transceivers_'[a] = remote_video_transceivers_[a]
      <4> HIDE DEF had
      <4> QED
        BY <3>2, <3>3
    <3> QED
      BY <3>1, <3>4 DEF VideosInv
  <2>5. ASSUME NEW attendees \in SUBSET Attendee, OnRemoteVideoSourcesUnavailable(attendees)
        PROVE  VideosInv'
    <3>1. /\ remote_video_transceivers_' = Erase(remote_video_transceivers_, attendees)
          /\ UNCHANGED <<peer_connection_, signaling_state, updates_in_flight_, local,
                         video_sources_to_subscribe_>>
      BY <2>5 DEF OnRemoteVideoSourcesUnavailable, peerVars
    <3>2. /\ DOMAIN remote_video_transceivers_' = DOMAIN remote_video_transceivers_ \ attendees
          /\ \A a \in DOMAIN remote_video_transceivers_ \ attendees :
               remote_video_transceivers_'[a] = remote_video_transceivers_[a]
      BY <3>1, EraseProperties
    <3> QED
      BY <3>1, <3>2 DEF VideosInv
  <2>6. CASE RunSetLocal
    BY <2>2, <2>6 DEF RunSetLocal
  <2>7. CASE RunSetRemote
    <3>1. updates_in_flight_
      BY <2>7, Applied DEF RunSetRemote
    <3> QED
      BY <2>2, <2>7, <3>1 DEF RunSetRemote
  <2>8. CASE OnLocalSuccess \/ OnIceCandidate
    <3>1. PICK candidates : SendUpdates(candidates)
      BY <2>8 DEF OnLocalSuccess, OnIceCandidate
    <3>2. CASE Sends(candidates)
      BY <2>2, <3>2 DEF Sends
    <3>3. CASE Keeps(candidates)
      <4>1. UNCHANGED updates_in_flight_
        BY <3>3 DEF Keeps
      <4> QED
        BY <2>1, <2>8, <4>1 DEF OnLocalSuccess, OnIceCandidate, peerVars, clientVars
    <3> QED
      BY <3>1, <3>2, <3>3, SendUpdatesOutcome
  <2>9. CASE OnRemoteSuccess
    <3>1. UNCHANGED <<peer_connection_, signaling_state,
                      remote_video_transceivers_, local>>
      BY <2>9 DEF OnRemoteSuccess, peerVars
    <3>2. DOMAIN video_sources_to_subscribe_' =
            DOMAIN video_sources_to_subscribe_
              \union {remote_video_transceivers_[a] : a \in NewRemoteVideos}
      BY <2>9, NewSubscriptions
    <3>3. ASSUME signaling_state = "stable", NEW a \in DOMAIN remote_video_transceivers_,
                 remote_video_transceivers_[a] <= local.sections
          PROVE  remote_video_transceivers_[a] \in DOMAIN video_sources_to_subscribe_'
      <4>1. CASE remote_video_transceivers_[a] \in DOMAIN video_sources_to_subscribe_
        BY <3>2, <4>1
      <4>2. CASE remote_video_transceivers_[a] \notin DOMAIN video_sources_to_subscribe_
        <5>1. a \in NewRemoteVideos
          BY <3>3, <4>2 DEF NewRemoteVideos, HasMid, MidsInv
        <5> QED
          BY <3>2, <5>1
      <4> QED
        BY <4>1, <4>2
    <3> QED
      BY <3>1, <3>3 DEF VideosInv
  <2>10. CASE OnRemoteFailure
    <3>1. /\ callbacks # <<>> /\ Head(callbacks) = "remote failed"
          /\ UNCHANGED <<peer_connection_, signaling_state>>
      BY <2>10 DEF OnRemoteFailure, peerVars
    <3>2. updates_in_flight_ /\ Range(Tail(callbacks)) \intersect Reports = {}
      BY <3>1, Reporting, ReportNames
    <3>3. Range(callbacks) = {Head(callbacks)} \union Range(Tail(callbacks))
      <4>1. callbacks \in Seq(Callback)
        BY DEF TypeOK
      <4> QED
        BY <3>1, <4>1, TailElements
    <3>4. "remote" \notin Range(callbacks)
      BY <3>1, <3>2, <3>3, ReportNames
    <3> QED
      BY <2>2, <3>1, <3>2, <3>4 DEF HandshakeInv
  <2>11. CASE OnSignalingClientStopped \/ Stop
    BY <2>2, <2>11 DEF OnSignalingClientStopped, Stop
  <2>12. CASE OnRemoteDescriptionReceived \/ ConnectionEnds \/ RunCreate \/ StartLocalVideo
                \/ Server
    BY <2>1, <2>12
    DEF OnRemoteDescriptionReceived, ConnectionEnds, RunCreate, StartLocalVideo, Server,
        ServerAnswers, ServerRefuses, peerVars, controllerVars, clientVars
  <2>13. CASE UNCHANGED vars
    BY <2>1, <2>13 DEF vars, peerVars, controllerVars, clientVars
  <2> QED
    BY <2>3, <2>4, <2>5, <2>6, <2>7, <2>8, <2>9, <2>10, <2>11, <2>12, <2>13
    DEF Next, RunThread, SignalingThread, App
<1> QED
  BY <1>1, <1>2, TypeCorrect, FlightInvHolds, FreshInvHolds, HandshakeInvHolds,
     MidsInvHolds, PTL
  DEF Spec

\* When nothing is under way the server was told of the camera, and the last
\* SUBSCRIBE lists a stream for every available video whose transceiver has not been
\* stopped, in the cases QuietMeansSubscribed names: whatever videos came and went,
\* whichever transceivers an answer stopped and whichever offers were set while one
\* was due.
THEOREM QuietMeansSubscribedHolds == Spec => []QuietMeansSubscribed
<1>1. /\ TypeOK /\ FlightInv /\ FreshInv /\ OfferInv /\ MidsInv /\ StoppedInv /\ SentInv
      /\ UpdateInv /\ ReceivesInv /\ VideosInv
      => QuietMeansSubscribed
  BY QuietFollows
<1> QED
  BY <1>1, TypeCorrect, FlightInvHolds, FreshInvHolds, OfferInvHolds, MidsInvHolds,
     StoppedInvHolds, SentInvHolds, UpdateInvHolds, ReceivesInvHolds, VideosInvHolds, PTL
=============================================================================
