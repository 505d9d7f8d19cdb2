-------------------------- MODULE AudioRoster_proofs --------------------------
(***************************************************************************)
(* Proofs about AudioRoster: once the adapter has handled what was sent,   *)
(* it knows the open streams, and the observer is right about who is       *)
(* present, muted and how loud.  Every proof looks at the entries on their *)
(* way: which come, in which order, and that the last of a kind is true.   *)
(***************************************************************************)
EXTENDS AudioRoster, StdMap_proofs, SequenceTheorems, FiniteSetTheorems, TLAPS

-----------------------------------------------------------------------------
(* The queue of entries. *)

LEMMA EntryKinds == InfoEntry \cap LevelEntry = {}
<1> SUFFICES ASSUME NEW e \in InfoEntry, e \in LevelEntry PROVE FALSE
  OBVIOUS
<1>1. DOMAIN e = {"stream", "attendee", "muted", "dropped"}
  BY DEF InfoEntry
<1>2. DOMAIN e = {"stream", "volume"}
  BY DEF LevelEntry
<1> QED
  BY <1>1, <1>2

LEMMA EntryTypes ==
  /\ \A s \in StreamId, a \in Attendee \union {NoAttendee}, d \in BOOLEAN :
       \A m \in {"absent", "yes", "no"} : Info(s, a, m, d) \in InfoEntry
  /\ \A s \in StreamId, raw \in RawVolume : Level(s, raw) \in LevelEntry
  /\ \A b \in BOOLEAN : YesNo(b) \in {"yes", "no"} /\ ((YesNo(b) = "yes") = b)
BY DEF Info, InfoEntry, Level, LevelEntry, YesNo

LEMMA Sent ==
  ASSUME TypeOK, NEW e \in Entry, Sends(e)
  PROVE  /\ Len(incoming) \in Nat /\ DOMAIN incoming = 1 .. Len(incoming)
         /\ incoming' \in Seq(Entry)
         /\ DOMAIN incoming' = 1 .. Len(incoming) + 1
         /\ \A i \in 1 .. Len(incoming) : incoming'[i] = incoming[i]
         /\ incoming'[Len(incoming) + 1] = e
<1>1. incoming \in Seq(Entry) /\ incoming' = Append(incoming, e)
  BY DEF TypeOK, Sends
<1>2. Append(incoming, e) \in Seq(Entry) /\ Len(incoming') = Len(incoming) + 1
  BY <1>1, AppendProperties
<1> QED
  BY <1>1, <1>2, AppendProperties, LenProperties

LEMMA Received ==
  ASSUME TypeOK, NEW entries, Receive(entries)
  PROVE  /\ Len(incoming) \in Nat /\ DOMAIN incoming = 1 .. Len(incoming)
         /\ 1 \in DOMAIN incoming /\ incoming[1] = Head(incoming)
         /\ incoming[1] \in entries /\ incoming[1] \in Entry
         /\ incoming' \in Seq(Entry)
         /\ DOMAIN incoming' = 1 .. Len(incoming) - 1
         /\ \A i \in 1 .. Len(incoming) - 1 :
              incoming'[i] = incoming[i + 1] /\ i + 1 \in DOMAIN incoming
<1>1. incoming \in Seq(Entry) /\ incoming # <<>> /\ incoming' = Tail(incoming)
        /\ Head(incoming) \in entries
  BY DEF TypeOK, Receive
<1>2. /\ Len(incoming) \in Nat /\ DOMAIN incoming = 1 .. Len(incoming)
      /\ Len(incoming) > 0
  BY <1>1, LenProperties, EmptySeq
<1>3. Head(incoming) = incoming[1] /\ Head(incoming) \in Entry
  BY <1>1, HeadTailProperties
<1>4. /\ incoming' \in Seq(Entry) /\ Len(incoming') = Len(incoming) - 1
      /\ \A i \in 1 .. Len(incoming) - 1 : incoming'[i] = incoming[i + 1]
  BY <1>1, HeadTailProperties
<1>5. DOMAIN incoming' = 1 .. Len(incoming) - 1
  BY <1>4, LenProperties
<1> QED
  BY <1>1, <1>2, <1>3, <1>4, <1>5

\* The owners of the streams there are stay when another is opened.
LEMMA OwnersStay ==
  ASSUME TypeOK, NEW a \in Attendee, Len(owner) < MaxStream, owner' = Append(owner, a)
  PROVE  /\ Len(owner) \in Nat /\ DOMAIN owner = 1 .. Len(owner)
         /\ Len(owner) + 1 \in StreamId
         /\ owner' \in Seq(Attendee) /\ Len(owner') <= MaxStream
         /\ DOMAIN owner' = 1 .. Len(owner) + 1
         /\ \A s \in 1 .. Len(owner) : owner'[s] = owner[s]
         /\ owner'[Len(owner) + 1] = a
<1>1. owner \in Seq(Attendee)
  BY DEF TypeOK
<1>2. /\ owner' \in Seq(Attendee) /\ Len(owner') = Len(owner) + 1
      /\ Len(owner) \in Nat /\ DOMAIN owner = 1 .. Len(owner)
      /\ DOMAIN owner' = 1 .. Len(owner')
      /\ \A s \in 1 .. Len(owner) : owner'[s] = owner[s]
      /\ owner'[Len(owner) + 1] = a
  BY <1>1, AppendProperties, LenProperties
<1> QED
  BY <1>2, RosterBoundsAssumption DEF StreamId, RosterBoundsAssumption

LEMMA Owners ==
  ASSUME TypeOK
  PROVE  /\ Len(owner) \in Nat /\ DOMAIN owner = 1 .. Len(owner)
         /\ \A s \in DOMAIN owner : s \in StreamId /\ owner[s] \in Attendee
<1>1. owner \in Seq(Attendee) /\ Len(owner) <= MaxStream
  BY DEF TypeOK
<1>2. /\ Len(owner) \in Nat /\ DOMAIN owner = 1 .. Len(owner)
      /\ \A s \in DOMAIN owner : owner[s] \in Attendee
  BY <1>1, LenProperties
<1> QED
  BY <1>1, <1>2, RosterBoundsAssumption DEF StreamId, RosterBoundsAssumption

\* The entries of a new session announce every open stream, an older before a
\* newer one.
LEMMA Reannounced ==
  ASSUME TypeOK, Rejoin, DOMAIN roster \subseteq DOMAIN owner
  PROVE  \E n \in Nat : \E open \in [1 .. n -> DOMAIN roster] :
           /\ incoming' \in Seq(Entry) /\ DOMAIN incoming' = 1 .. n
           /\ \A i \in 1 .. n :
                incoming'[i] = Info(open[i], owner[open[i]], YesNo(roster[open[i]]), FALSE)
           /\ \A i, j \in 1 .. n : i < j => open[i] < open[j]
           /\ \A s \in DOMAIN roster : \E i \in 1 .. n : open[i] = s
<1> DEFINE n == Cardinality(DOMAIN roster)
           Shown(open, i) ==
             Info(open[i], owner[open[i]], YesNo(roster[open[i]]), FALSE)
<1>1. roster \in Map(StreamId, BOOLEAN)
  BY DEF TypeOK
<1>2. DOMAIN roster \subseteq 1 .. MaxStream /\ \A s \in DOMAIN roster : roster[s] \in BOOLEAN
  BY <1>1, MapElim DEF StreamId
<1>3. IsFiniteSet(DOMAIN roster)
  <2>1. IsFiniteSet(1 .. MaxStream)
    BY FS_Interval, RosterBoundsAssumption DEF RosterBoundsAssumption
  <2> QED
    BY <1>2, <2>1, FS_Subset
<1>4. n \in Nat
  BY <1>3, FS_CardinalityType
<1>5. PICK open \in [1 .. n -> DOMAIN roster] :
        /\ \A i, j \in DOMAIN open : i < j => open[i] < open[j]
        /\ incoming' = [i \in DOMAIN open |-> Shown(open, i)]
  BY DEF Rejoin
<1> HIDE DEF n
<1>6. /\ DOMAIN open = 1 .. n
      /\ \A i \in 1 .. n : open[i] \in DOMAIN roster
  BY <1>5
<1>7. \A i \in 1 .. n : Shown(open, i) \in Entry
  <2> TAKE i \in 1 .. n
  <2>1. /\ open[i] \in StreamId /\ owner[open[i]] \in Attendee
        /\ roster[open[i]] \in BOOLEAN
    BY <1>2, <1>6, Owners DEF StreamId
  <2> QED
    BY <2>1, EntryTypes DEF Entry
<1>8. incoming' \in Seq(Entry) /\ DOMAIN incoming' = 1 .. n
  <2>1. incoming' \in [1 .. n -> Entry]
    BY <1>5, <1>6, <1>7
  <2> QED
    BY <1>4, <2>1, SeqDef
<1>9. \A s \in DOMAIN roster : \E i \in 1 .. n : open[i] = s
  <2>1. open \in Injection(1 .. n, DOMAIN roster)
    <3>1. ASSUME NEW i \in 1 .. n, NEW j \in 1 .. n, open[i] = open[j]
          PROVE  i = j
      <4>1. open[i] \in Nat /\ open[j] \in Nat
        BY <1>2, <1>6
      <4>2. ~(i < j) /\ ~(j < i)
        BY <1>5, <1>6, <3>1, <4>1
      <4> QED
        BY <1>4, <4>2
    <3> QED
      BY <1>5, <3>1 DEF Injection, IsInjective
  <2>2. Cardinality(1 .. n) = Cardinality(DOMAIN roster)
    BY <1>4, FS_Interval DEF n
  <2>3. open \in Surjection(1 .. n, DOMAIN roster)
    BY <1>3, <2>1, <2>2, FS_Injection
  <2> QED
    BY <2>3 DEF Surjection
<1> QED
  BY <1>4, <1>5, <1>6, <1>8, <1>9

-----------------------------------------------------------------------------
(* Type correctness.  That a new session's announcements have an attendee    *)
(* needs that every open stream has an owner.                                *)

OpenOwned == DOMAIN roster \subseteq DOMAIN owner

LEMMA NormalizeVolumeType == \A raw \in RawVolume : NormalizeVolume(raw) \in Volume
BY RawVolumeAssumption DEF RawVolumeAssumption, NormalizeVolume, Volume

LEMMA TypeStep ==
  TypeOK /\ OpenOwned /\ [Next]_vars => TypeOK' /\ OpenOwned'
<1> SUFFICES ASSUME TypeOK, OpenOwned, [Next]_vars
             PROVE  TypeOK' /\ OpenOwned'
  OBVIOUS
<1>0. /\ \A s \in DOMAIN roster : /\ s \in StreamId /\ owner[s] \in Attendee
                                  /\ roster[s] \in BOOLEAN
      /\ \A s \in DOMAIN stream_id_to_attendee_id_ :
           stream_id_to_attendee_id_[s] \in Attendee
  <2>1. \A s \in DOMAIN roster : s \in StreamId /\ owner[s] \in Attendee
    BY Owners DEF OpenOwned
  <2> QED
    BY <2>1, MapElim DEF TypeOK
<1>1. ASSUME NEW a \in Attendee, NEW muted \in BOOLEAN, Opens(a, muted)
      PROVE  TypeOK' /\ OpenOwned'
  <2>1. Len(owner) < MaxStream /\ owner' = Append(owner, a)
          /\ roster' = Put(roster, Len(owner) + 1, muted)
    BY <1>1 DEF Opens
  <2>2. Info(Len(owner) + 1, a, YesNo(muted), FALSE) \in Entry
    BY <2>1, OwnersStay, EntryTypes DEF Entry
  <2>3. incoming' \in Seq(Entry)
    BY <1>1, <2>2, Sent DEF Opens
  <2>4. roster' \in Map(StreamId, BOOLEAN)
    BY <2>1, OwnersStay, PutType DEF TypeOK
  <2>5. OpenOwned'
    BY <2>1, OwnersStay DEF OpenOwned, Put
  <2> QED
    BY <1>1, <2>1, <2>3, <2>4, <2>5, OwnersStay
    DEF Opens, TypeOK, adapterVars, observerVars
<1>2. ASSUME NEW s \in DOMAIN roster, TogglesMute(s)
      PROVE  TypeOK' /\ OpenOwned'
  <2>1. Info(s, NoAttendee, YesNo(~roster[s]), FALSE) \in Entry
    BY <1>0, EntryTypes DEF Entry
  <2>2. incoming' \in Seq(Entry)
    BY <1>2, <2>1, Sent DEF TogglesMute
  <2>3. roster' \in [DOMAIN roster -> BOOLEAN]
    BY <1>0, <1>2, MapElim DEF TogglesMute, TypeOK
  <2>4. roster' \in Map(StreamId, BOOLEAN) /\ DOMAIN roster' = DOMAIN roster
    BY <1>0, <2>3, MapIntro
  <2> QED
    BY <1>2, <2>2, <2>4 DEF TogglesMute, TypeOK, OpenOwned, adapterVars, observerVars
<1>3. ASSUME NEW s \in DOMAIN roster, NEW dropped \in BOOLEAN, Ends(s, dropped)
      PROVE  TypeOK' /\ OpenOwned'
  <2>1. Info(s, NoAttendee, "absent", dropped) \in Entry
    BY <1>0, EntryTypes DEF Entry
  <2>2. incoming' \in Seq(Entry)
    BY <1>3, <2>1, Sent DEF Ends
  <2>3. roster' \in Map(StreamId, BOOLEAN)
    BY <1>3, EraseType DEF Ends, TypeOK
  <2>4. OpenOwned'
    BY <1>3 DEF Ends, OpenOwned, Erase, Restrict
  <2> QED
    BY <1>3, <2>2, <2>3, <2>4 DEF Ends, TypeOK, adapterVars, observerVars
<1>4. ASSUME NEW s \in DOMAIN roster, NEW raw \in RawVolume, Speaks(s, raw)
      PROVE  TypeOK' /\ OpenOwned'
  <2>1. Level(s, raw) \in Entry
    BY <1>0, EntryTypes DEF Entry
  <2>2. incoming' \in Seq(Entry)
    BY <1>4, <2>1, Sent DEF Speaks
  <2>3. loudness' \in Map(Attendee, Volume)
    BY <1>0, <1>4, NormalizeVolumeType, PutType DEF Speaks, TypeOK
  <2> QED
    BY <1>4, <2>2, <2>3 DEF Speaks, TypeOK, OpenOwned, adapterVars, observerVars
<1>5. CASE Rejoin
  <2>1. incoming' \in Seq(Entry)
    BY <1>5, Reannounced DEF OpenOwned
  <2>2. rejoins' \in 0 .. MaxRejoins
    BY <1>5, RosterBoundsAssumption DEF Rejoin, TypeOK, RosterBoundsAssumption
  <2>3. /\ heard_muted' \in [Attendee -> BOOLEAN]
        /\ forgotten' \subseteq Attendee
    BY <1>5, MapElim DEF Rejoin, TypeOK
  <2> QED
    BY <1>5, <2>1, <2>2, <2>3 DEF Rejoin, TypeOK, OpenOwned, adapterVars
<1>6. CASE OnAudioStreamIdInfo
  <2> DEFINE info == Head(incoming)
  <2>0. /\ info \in InfoEntry /\ incoming' \in Seq(Entry)
        /\ UNCHANGED <<owner, roster, loudness, rejoins, attendee_id_to_volume_, heard_volume>>
    BY <1>6, Received DEF OnAudioStreamIdInfo, Receive
  <2> DEFINE MutesTyped == /\ attendee_id_to_muted_' \in Map(Attendee, BOOLEAN)
                           /\ heard_muted' \in [Attendee -> BOOLEAN]
                           /\ forgotten' \subseteq Attendee
  <2>1. ASSUME NEW a \in Attendee, NEW muted \in BOOLEAN,
               NEW heard \in [Attendee -> BOOLEAN], NEW missed \in SUBSET Attendee,
               ReportMute(a, muted, heard, missed)
        PROVE  MutesTyped
    <3>1. attendee_id_to_muted_' \in Map(Attendee, BOOLEAN)
      BY <2>1, PutType DEF ReportMute, TypeOK
    <3>2. /\ heard_muted' \in [Attendee -> BOOLEAN]
          /\ forgotten' \subseteq Attendee
      BY <2>1 DEF ReportMute
    <3> QED
      BY <3>1, <3>2
  <2>2. /\ info.stream \in StreamId
        /\ info.attendee # NoAttendee => info.attendee \in Attendee
    BY <2>0 DEF InfoEntry
  <2>3. CASE HandleAttendee(info)
    <3>1. info.attendee \in Attendee /\ LearnAttendee(info)
      BY <2>2, <2>3 DEF HandleAttendee
    <3>2. /\ stream_id_to_attendee_id_' \in Map(StreamId, Attendee)
          /\ attendee_id_to_stream_id_' \in Map(Attendee, StreamId)
          /\ present' \subseteq Attendee
      BY <2>2, <3>1, PutType DEF LearnAttendee, TypeOK
    <3>3. /\ HeardAfter(info.attendee) \in [Attendee -> BOOLEAN]
          /\ ForgottenAfter(info.attendee) \in SUBSET Attendee
      BY <3>1 DEF HeardAfter, ForgottenAfter, TypeOK
    <3>4. MutesTyped
      BY <2>1, <2>3, <3>1, <3>3 DEF HandleAttendee, TypeOK
    <3> QED
      BY <2>0, <3>2, <3>4 DEF TypeOK, OpenOwned
  <2>4. CASE HandleMuted(info)
    <3>1. MutesTyped
      BY <1>0, <2>1, <2>4 DEF HandleMuted, Known, TypeOK
    <3> QED
      BY <2>0, <2>4, <3>1 DEF HandleMuted, TypeOK, OpenOwned
  <2>5. CASE HandleLeave(info)
    <3>1. /\ stream_id_to_attendee_id_' \in Map(StreamId, Attendee)
          /\ attendee_id_to_stream_id_' \in Map(Attendee, StreamId)
          /\ present' \subseteq Attendee
      BY <2>5, EraseType DEF HandleLeave, TypeOK
    <3> QED
      BY <2>0, <2>5, <3>1 DEF HandleLeave, TypeOK, OpenOwned
  <2> QED
    BY <1>6, <2>3, <2>4, <2>5 DEF OnAudioStreamIdInfo
<1>7. CASE OnAudioMetadata
  <2> DEFINE level == Head(incoming)
  <2>0. /\ level \in LevelEntry /\ incoming' \in Seq(Entry)
        /\ UNCHANGED <<owner, roster, loudness, rejoins>>
        /\ UNCHANGED <<stream_id_to_attendee_id_, attendee_id_to_stream_id_,
                       attendee_id_to_muted_, present, heard_muted, forgotten>>
    BY <1>7, Received DEF OnAudioMetadata, Receive
  <2>1. level.volume \in RawVolume
    BY <2>0 DEF LevelEntry
  <2>2. /\ attendee_id_to_volume_' \in Map(Attendee, Volume)
        /\ heard_volume' \in Map(Attendee, Volume)
    <3>1. CASE Known(level.stream)
      <4> DEFINE a == stream_id_to_attendee_id_[level.stream]
                 volume == NormalizeVolume(level.volume)
      <4>1. a \in Attendee /\ volume \in Volume /\ ReportVolume(a, volume)
        BY <1>0, <1>7, <2>1, <3>1, NormalizeVolumeType DEF OnAudioMetadata, Known
      <4> HIDE DEF a, volume
      <4> QED
        BY <4>1, PutType DEF ReportVolume, TypeOK
    <3>2. CASE ~Known(level.stream)
      BY <1>7, <3>2 DEF OnAudioMetadata, TypeOK
    <3> QED
      BY <3>1, <3>2
  <2> QED
    BY <2>0, <2>2 DEF TypeOK, OpenOwned
<1>8. CASE UNCHANGED vars
  BY <1>8 DEF vars, adapterVars, observerVars, serviceVars, TypeOK, OpenOwned
<1> QED
  BY <1>1, <1>2, <1>3, <1>4, <1>5, <1>6, <1>7, <1>8 DEF Next, Service

LEMMA TypeInit == Init => TypeOK /\ OpenOwned
<1> SUFFICES ASSUME Init PROVE TypeOK /\ OpenOwned
  OBVIOUS
<1>1. /\ EmptyMap \in Map(StreamId, Attendee) /\ EmptyMap \in Map(Attendee, StreamId)
      /\ EmptyMap \in Map(Attendee, BOOLEAN) /\ EmptyMap \in Map(Attendee, Volume)
      /\ EmptyMap \in Map(StreamId, BOOLEAN) /\ DOMAIN EmptyMap = {}
  BY EmptyMapType
<1>2. owner \in Seq(Attendee) /\ Len(owner) <= MaxStream /\ incoming \in Seq(Entry)
  BY EmptySeq, RosterBoundsAssumption DEF Init, RosterBoundsAssumption
<1>3. rejoins \in 0 .. MaxRejoins /\ heard_muted \in [Attendee -> BOOLEAN]
  BY RosterBoundsAssumption DEF Init, RosterBoundsAssumption
<1>4. TypeOK
  BY <1>1, <1>2, <1>3, Zenon DEF Init, TypeOK
<1> QED
  BY <1>1, <1>4 DEF Init, OpenOwned

\* Every variable keeps its type: the adapter's maps, what the observer has
\* heard and the entries on their way.
THEOREM TypeCorrect == Spec => []TypeOK
<1> QED
  BY TypeInit, TypeStep, PTL DEF Spec

-----------------------------------------------------------------------------
(* What is on its way. *)

\* The entries that tell whose a stream is, and that it has ended.
Announces(e, s) == e \in InfoEntry /\ e.stream = s /\ e.attendee # NoAttendee
EndsIt(e, s) ==
  e \in InfoEntry /\ e.stream = s /\ e.attendee = NoAttendee /\ e.muted = "absent"

\* An entry is about a stream that was opened, and right about its owner.
Right(e) ==
  /\ e.stream \in DOMAIN owner
  /\ e \in InfoEntry /\ e.attendee # NoAttendee =>
       e.attendee = owner[e.stream] /\ e.muted # "absent"

OwnersInv ==
  /\ \A t \in DOMAIN stream_id_to_attendee_id_ :
       t \in DOMAIN owner /\ stream_id_to_attendee_id_[t] = owner[t]
  /\ \A i \in DOMAIN incoming : Right(incoming[i])

\* An entry has the fields it is made of and is of one kind.
LEMMA InfoIs ==
  ASSUME NEW s \in StreamId, NEW a \in Attendee \union {NoAttendee},
         NEW m \in {"absent", "yes", "no"}, NEW d \in BOOLEAN
  PROVE  /\ Info(s, a, m, d) \in Entry /\ Info(s, a, m, d) \in InfoEntry
         /\ Info(s, a, m, d) \notin LevelEntry
BY EntryTypes, EntryKinds DEF Entry

LEMMA LevelIs ==
  ASSUME NEW s \in StreamId, NEW raw \in RawVolume
  PROVE  /\ Level(s, raw) \in Entry /\ Level(s, raw) \notin InfoEntry
         /\ Level(s, raw) \in LevelEntry
BY EntryTypes, EntryKinds DEF Entry

Typed == TypeOK /\ OpenOwned

\* The queue grows by the entry e, and loses its first entry e.
Queued(e, n) ==
  /\ n \in Nat /\ DOMAIN incoming = 1 .. n /\ DOMAIN incoming' = 1 .. n + 1
  /\ \A i \in 1 .. n : incoming'[i] = incoming[i]
  /\ incoming'[n + 1] = e
Taken(e, n) ==
  /\ n \in Nat /\ DOMAIN incoming = 1 .. n + 1 /\ DOMAIN incoming' = 1 .. n
  /\ incoming[1] = e /\ \A i \in 1 .. n : incoming'[i] = incoming[i + 1]

IsInfo(e) == e \in InfoEntry /\ e \notin LevelEntry
IsLevel(e) == e \notin InfoEntry /\ e \in LevelEntry

\* What the steps of the service send: the announcement of a new stream s, and
\* those of every open stream.
Opened(a, muted, n, e, s) ==
  /\ Queued(e, n) /\ IsInfo(e)
  /\ e.stream = s /\ e.attendee = a /\ a # NoAttendee
  /\ e.muted = YesNo(muted) /\ e.muted # "absent"
  /\ s \in StreamId /\ s \notin DOMAIN owner
  /\ DOMAIN owner' = DOMAIN owner \union {s} /\ owner'[s] = a
  /\ \A t \in DOMAIN owner : owner'[t] = owner[t] /\ t < s
  /\ roster' = Put(roster, s, muted)
Rejoined(n, open) ==
  /\ DOMAIN incoming' = 1 .. n
  /\ \A i \in 1 .. n :
       /\ IsInfo(incoming'[i]) /\ open[i] \in DOMAIN roster
       /\ incoming'[i].stream = open[i]
       /\ incoming'[i].attendee = owner[open[i]] /\ owner[open[i]] # NoAttendee
       /\ incoming'[i].muted = YesNo(roster[open[i]])
       /\ incoming'[i].muted # "absent"
  /\ \A i, j \in 1 .. n : i < j => open[i] < open[j]
  /\ \A s \in DOMAIN roster : \E i \in 1 .. n : open[i] = s

LEMMA Opening ==
  ASSUME Typed, NEW a \in Attendee, NEW muted \in BOOLEAN, Opens(a, muted)
  PROVE  \E n, e, s : Opened(a, muted, n, e, s)
<1> DEFINE s == Len(owner) + 1
<1>1. PICK e : e = Info(s, a, YesNo(muted), FALSE)
  OBVIOUS
<1>2. /\ Len(owner) < MaxStream /\ owner' = Append(owner, a)
      /\ roster' = Put(roster, s, muted) /\ Sends(e)
  BY <1>1 DEF Opens
<1>3. /\ s \in StreamId /\ s \notin DOMAIN owner
      /\ DOMAIN owner' = DOMAIN owner \union {s} /\ owner'[s] = a
      /\ \A t \in DOMAIN owner : owner'[t] = owner[t] /\ t < s
  BY <1>2, OwnersStay DEF Typed
<1> HIDE DEF s
<1>4. YesNo(muted) \in {"yes", "no"}
  BY EntryTypes
<1>5. e \in Entry /\ IsInfo(e)
  BY <1>1, <1>3, <1>4, InfoIs DEF IsInfo
<1>6. /\ e.stream = s /\ e.attendee = a /\ a # NoAttendee
      /\ e.muted = YesNo(muted) /\ e.muted # "absent"
  BY <1>1, <1>4, NoAttendeeAssumption DEF Info, NoAttendeeAssumption
<1>7. Queued(e, Len(incoming))
  BY <1>2, <1>5, Sent DEF Typed, Queued
<1> QED
  BY <1>2, <1>3, <1>5, <1>6, <1>7 DEF Opened

LEMMA Toggling ==
  ASSUME Typed, NEW s \in DOMAIN roster, TogglesMute(s)
  PROVE  \E n, e :
           /\ Queued(e, n) /\ IsInfo(e)
           /\ e.stream = s /\ e.attendee = NoAttendee
           /\ e.muted = YesNo(roster'[s]) /\ e.muted # "absent"
           /\ DOMAIN roster' = DOMAIN roster
           /\ \A t \in DOMAIN roster : t # s => roster'[t] = roster[t]
<1>1. PICK e : e = Info(s, NoAttendee, YesNo(~roster[s]), FALSE)
  OBVIOUS
<1>2. s \in StreamId
  BY Owners DEF Typed, OpenOwned
<1>3. /\ roster' = [roster EXCEPT ![s] = ~roster[s]] /\ Sends(e)
      /\ roster'[s] = ~roster[s] /\ roster[s] \in BOOLEAN
  BY <1>1, MapElim DEF TogglesMute, Typed, TypeOK
<1>4. YesNo(~roster[s]) = YesNo(roster'[s]) /\ YesNo(~roster[s]) \in {"yes", "no"}
  BY <1>3 DEF YesNo
<1>5. e \in Entry /\ IsInfo(e)
  BY <1>1, <1>2, <1>4, InfoIs DEF IsInfo
<1>6. /\ e.stream = s /\ e.attendee = NoAttendee
      /\ e.muted = YesNo(roster'[s]) /\ e.muted # "absent"
  BY <1>1, <1>4 DEF Info
<1>7. Queued(e, Len(incoming))
  BY <1>3, <1>5, Sent DEF Typed, Queued
<1> QED
  BY <1>3, <1>5, <1>6, <1>7

LEMMA Ending ==
  ASSUME Typed, NEW s \in DOMAIN roster, NEW dropped \in BOOLEAN, Ends(s, dropped)
  PROVE  \E n, e :
           /\ Queued(e, n) /\ IsInfo(e)
           /\ e.stream = s /\ e.attendee = NoAttendee /\ e.muted = "absent"
           /\ DOMAIN roster' = DOMAIN roster \ {s}
           /\ \A t \in DOMAIN roster : t # s => roster'[t] = roster[t]
<1>1. PICK e : e = Info(s, NoAttendee, "absent", dropped)
  OBVIOUS
<1>2. s \in StreamId
  BY Owners DEF Typed, OpenOwned
<1>3. e \in Entry /\ IsInfo(e)
  BY <1>1, <1>2, InfoIs DEF IsInfo
<1>4. e.stream = s /\ e.attendee = NoAttendee /\ e.muted = "absent"
  BY <1>1 DEF Info
<1>5. Queued(e, Len(incoming))
  BY <1>1, <1>3, Sent DEF Ends, Typed, Queued
<1> QED
  BY <1>3, <1>4, <1>5 DEF Ends, Erase, Restrict

LEMMA Speaking ==
  ASSUME Typed, NEW s \in DOMAIN roster, NEW raw \in RawVolume, Speaks(s, raw)
  PROVE  \E n, e : /\ Queued(e, n) /\ IsLevel(e)
                   /\ e.stream = s /\ e.volume = raw
<1>1. PICK e : e = Level(s, raw)
  OBVIOUS
<1>2. s \in StreamId
  BY Owners DEF Typed, OpenOwned
<1>3. e \in Entry /\ IsLevel(e)
  BY <1>1, <1>2, LevelIs DEF IsLevel
<1>4. e.stream = s /\ e.volume = raw
  BY <1>1 DEF Level
<1>5. Queued(e, Len(incoming))
  BY <1>1, <1>3, Sent DEF Speaks, Typed, Queued
<1> QED
  BY <1>3, <1>4, <1>5

LEMMA Rejoining ==
  ASSUME Typed, Rejoin
  PROVE  \E n \in Nat : \E open : Rejoined(n, open)
<1>1. PICK n \in Nat : \E open \in [1 .. n -> DOMAIN roster] :
           /\ incoming' \in Seq(Entry) /\ DOMAIN incoming' = 1 .. n
           /\ \A i \in 1 .. n :
                incoming'[i] = Info(open[i], owner[open[i]], YesNo(roster[open[i]]), FALSE)
           /\ \A i, j \in 1 .. n : i < j => open[i] < open[j]
           /\ \A s \in DOMAIN roster : \E i \in 1 .. n : open[i] = s
  BY Reannounced DEF Typed, OpenOwned
<1>2. PICK open \in [1 .. n -> DOMAIN roster] :
           /\ DOMAIN incoming' = 1 .. n
           /\ \A i \in 1 .. n :
                incoming'[i] = Info(open[i], owner[open[i]], YesNo(roster[open[i]]), FALSE)
           /\ \A i, j \in 1 .. n : i < j => open[i] < open[j]
           /\ \A s \in DOMAIN roster : \E i \in 1 .. n : open[i] = s
  BY <1>1
<1>3. ASSUME NEW i \in 1 .. n
      PROVE  /\ IsInfo(incoming'[i])
             /\ incoming'[i].stream = open[i]
             /\ incoming'[i].attendee = owner[open[i]] /\ owner[open[i]] # NoAttendee
             /\ incoming'[i].muted = YesNo(roster[open[i]])
             /\ incoming'[i].muted # "absent"
  <2>1. PICK e, s, a, m : /\ incoming'[i] = e /\ e = Info(s, a, m, FALSE)
                          /\ s = open[i] /\ a = owner[open[i]] /\ m = YesNo(roster[s])
    BY <1>2
  <2>2. s \in DOMAIN roster /\ s \in StreamId /\ a \in Attendee
    BY <2>1, Owners DEF Typed, OpenOwned
  <2>3. m \in {"yes", "no"}
    BY <2>1 DEF YesNo
  <2>4. IsInfo(e)
    BY <2>1, <2>2, <2>3, InfoIs DEF IsInfo
  <2>5. e.stream = s /\ e.attendee = a /\ e.muted = m /\ a # NoAttendee
    BY <2>1, <2>2, NoAttendeeAssumption DEF Info, NoAttendeeAssumption
  <2> QED
    BY <2>1, <2>3, <2>4, <2>5
<1>4. \A i \in 1 .. n : open[i] \in DOMAIN roster
  BY <1>2
<1>5. Rejoined(n, open)
  BY <1>2, <1>3, <1>4 DEF Rejoined
<1> QED
  BY <1>5

\* What the adapter takes off the queue.
LEMMA Handling ==
  ASSUME Typed, OnAudioStreamIdInfo
  PROVE  \E n, e : /\ Taken(e, n) /\ IsInfo(e)
                   /\ HandleAttendee(e) \/ HandleMuted(e) \/ HandleLeave(e)
<1>1. Taken(Head(incoming), Len(incoming) - 1) /\ IsInfo(Head(incoming))
  BY Received, EntryKinds DEF OnAudioStreamIdInfo, Typed, Taken, IsInfo
<1> QED
  BY <1>1 DEF OnAudioStreamIdInfo

LEMMA Hearing ==
  ASSUME Typed, OnAudioMetadata
  PROVE  \E n, e : /\ Taken(e, n) /\ IsLevel(e)
                   /\ IF Known(e.stream)
                      THEN ReportVolume(stream_id_to_attendee_id_[e.stream],
                                        NormalizeVolume(e.volume))
                      ELSE UNCHANGED <<attendee_id_to_volume_, heard_volume>>
<1>1. Taken(Head(incoming), Len(incoming) - 1) /\ IsLevel(Head(incoming))
  BY Received, EntryKinds DEF OnAudioMetadata, Typed, Taken, IsLevel
<1> QED
  BY <1>1 DEF OnAudioMetadata

LEMMA OwnersInvStep ==
  Typed /\ OwnersInv /\ [Next]_vars => OwnersInv'
<1> SUFFICES ASSUME Typed, OwnersInv, [Next]_vars PROVE OwnersInv'
  OBVIOUS
<1>1. ASSUME NEW n, NEW e, Queued(e, n), UNCHANGED <<owner, adapterVars>>,
             e.stream \in DOMAIN owner,
             (IsInfo(e) /\ e.attendee = NoAttendee) \/ IsLevel(e)
      PROVE  OwnersInv'
  BY <1>1 DEF OwnersInv, Queued, Right, IsInfo, IsLevel, adapterVars
<1>2. ASSUME NEW a \in Attendee, NEW muted \in BOOLEAN, Opens(a, muted)
      PROVE  OwnersInv'
  <2>1. PICK n, e, s : Opened(a, muted, n, e, s)
    BY <1>2, Opening
  <2>2. Right(e)'
    BY <2>1 DEF Opened, Right
  <2>3. ASSUME NEW i \in 1 .. n + 1
        PROVE  Right(incoming[i])'
    <3>1. CASE i = n + 1
      BY <2>1, <2>2, <3>1 DEF Opened, Queued
    <3>2. CASE i \in 1 .. n
      <4>1. incoming'[i] = incoming[i] /\ Right(incoming[i])
        BY <2>1, <3>2 DEF Opened, Queued, OwnersInv
      <4> QED
        BY <2>1, <4>1 DEF Opened, Right
    <3> QED
      BY <2>1, <3>1, <3>2 DEF Opened, Queued
  <2>4. \A i \in DOMAIN incoming' : Right(incoming[i])'
    BY <2>1, <2>3 DEF Opened, Queued
  <2>5. UNCHANGED stream_id_to_attendee_id_
    BY <1>2 DEF Opens, adapterVars
  <2>6. \A t \in DOMAIN stream_id_to_attendee_id_' :
          t \in DOMAIN owner' /\ stream_id_to_attendee_id_'[t] = owner'[t]
    BY <2>1, <2>5 DEF Opened, OwnersInv
  <2> QED
    BY <2>4, <2>6 DEF OwnersInv
<1>3. ASSUME NEW s \in DOMAIN roster, TogglesMute(s)
      PROVE  OwnersInv'
  BY <1>1, <1>3, Toggling DEF TogglesMute, Typed, OpenOwned
<1>4. ASSUME NEW s \in DOMAIN roster, NEW dropped \in BOOLEAN, Ends(s, dropped)
      PROVE  OwnersInv'
  BY <1>1, <1>4, Ending DEF Ends, Typed, OpenOwned
<1>5. ASSUME NEW s \in DOMAIN roster, NEW raw \in RawVolume, Speaks(s, raw)
      PROVE  OwnersInv'
  BY <1>1, <1>5, Speaking DEF Speaks, Typed, OpenOwned
<1>6. CASE Rejoin
  <2>1. UNCHANGED <<owner, adapterVars>>
    BY <1>6 DEF Rejoin
  <2>2. \A i \in DOMAIN incoming' : Right(incoming'[i])
    BY <1>6, Rejoining DEF Rejoined, Right, Typed, OpenOwned
  <2> QED
    BY <2>1, <2>2 DEF OwnersInv, Right, adapterVars
<1>7. ASSUME NEW n, NEW e, Taken(e, n), UNCHANGED owner,
             \A t \in DOMAIN stream_id_to_attendee_id_' :
               t \in DOMAIN owner /\ stream_id_to_attendee_id_'[t] = owner[t]
      PROVE  OwnersInv'
  BY <1>7 DEF OwnersInv, Right, Taken
<1>8. CASE OnAudioStreamIdInfo
  <2>1. PICK n, e : /\ Taken(e, n) /\ IsInfo(e)
                    /\ HandleAttendee(e) \/ HandleMuted(e) \/ HandleLeave(e)
    BY <1>8, Handling
  <2>2. UNCHANGED owner /\ Right(e)
    BY <1>8, <2>1 DEF OnAudioStreamIdInfo, Receive, OwnersInv, Taken
  <2>3. \A t \in DOMAIN stream_id_to_attendee_id_' :
          t \in DOMAIN owner /\ stream_id_to_attendee_id_'[t] = owner[t]
    <3>1. CASE HandleAttendee(e)
      BY <2>1, <2>2, <3>1 DEF HandleAttendee, LearnAttendee, Put, OwnersInv, Right, IsInfo
    <3>2. CASE HandleMuted(e)
      BY <3>2 DEF HandleMuted, OwnersInv
    <3>3. CASE HandleLeave(e)
      BY <3>3 DEF HandleLeave, Erase, Restrict, OwnersInv
    <3> QED
      BY <2>1, <3>1, <3>2, <3>3
  <2> QED
    BY <1>7, <2>1, <2>2, <2>3
<1>9. CASE OnAudioMetadata
  <2>1. UNCHANGED <<owner, stream_id_to_attendee_id_>>
    BY <1>9 DEF OnAudioMetadata, Receive
  <2> QED
    BY <1>7, <1>9, <2>1, Hearing DEF OwnersInv
<1>10. CASE UNCHANGED vars
  BY <1>10 DEF vars, adapterVars, serviceVars, OwnersInv, Right
<1> QED
  BY <1>2, <1>3, <1>4, <1>5, <1>6, <1>8, <1>9, <1>10 DEF Next, Service

\* An open stream is known, or the first entry about it on its way tells whose
\* it is; and nothing on its way ends it.
Comes(s) ==
  \/ Known(s)
  \/ \E i \in DOMAIN incoming :
       /\ Announces(incoming[i], s)
       /\ \A j \in DOMAIN incoming : j < i => incoming[j].stream # s
Unended(s) == \A i \in DOMAIN incoming : ~EndsIt(incoming[i], s)
OpenInv == \A s \in DOMAIN roster : Comes(s) /\ Unended(s)

\* An entry that comes last delays nothing and ends its own stream only.
LEMMA StillComes ==
  ASSUME NEW n, NEW e, Queued(e, n), UNCHANGED stream_id_to_attendee_id_,
         NEW s, Comes(s), Unended(s), ~EndsIt(e, s)
  PROVE  Comes(s)' /\ Unended(s)'
<1>1. Comes(s)'
  <2>1. CASE Known(s)
    BY <2>1 DEF Comes, Known
  <2>2. ASSUME NEW i \in DOMAIN incoming, Announces(incoming[i], s),
               \A j \in DOMAIN incoming : j < i => incoming[j].stream # s
        PROVE  Comes(s)'
    <3>1. /\ i \in DOMAIN incoming' /\ Announces(incoming'[i], s)
          /\ \A j \in DOMAIN incoming' : j < i => incoming'[j].stream # s
      BY <2>2 DEF Queued
    <3> QED
      BY <3>1 DEF Comes
  <2> QED
    BY <2>1, <2>2 DEF Comes
<1>2. Unended(s)'
  BY DEF Unended, Queued
<1> QED
  BY <1>1, <1>2

\* The first entry may go: if it announces the stream, the stream gets known.
LEMMA ComesNearer ==
  ASSUME NEW n, NEW e, Taken(e, n), NEW s, Comes(s), Unended(s),
         Known(s) \/ Announces(e, s) => Known(s)'
  PROVE  Comes(s)' /\ Unended(s)'
<1>1. Comes(s)'
  <2>1. CASE Known(s) \/ Announces(e, s)
    BY <2>1 DEF Comes
  <2>2. ASSUME NEW i \in DOMAIN incoming, Announces(incoming[i], s), ~Announces(e, s),
               \A j \in DOMAIN incoming : j < i => incoming[j].stream # s
        PROVE  Comes(s)'
    <3>1. i # 1 /\ i - 1 \in DOMAIN incoming' /\ incoming'[i - 1] = incoming[i]
      BY <2>2 DEF Taken
    <3>2. \A j \in DOMAIN incoming' : j < i - 1 => incoming'[j].stream # s
      BY <2>2 DEF Taken
    <3> QED
      BY <2>2, <3>1, <3>2 DEF Comes
  <2> QED
    BY <2>1, <2>2 DEF Comes
<1>2. Unended(s)'
  BY DEF Unended, Taken
<1> QED
  BY <1>1, <1>2

LEMMA OpenInvStep ==
  Typed /\ OwnersInv /\ OpenInv /\ [Next]_vars => OpenInv'
<1> SUFFICES ASSUME Typed, OwnersInv, OpenInv, [Next]_vars PROVE OpenInv'
  OBVIOUS
<1>1. ASSUME NEW n, NEW e, Queued(e, n), UNCHANGED stream_id_to_attendee_id_,
             \A s \in DOMAIN roster' : s \in DOMAIN roster /\ ~EndsIt(e, s)
      PROVE  OpenInv'
  BY <1>1, StillComes DEF OpenInv
<1>2. ASSUME NEW a \in Attendee, NEW muted \in BOOLEAN, Opens(a, muted)
      PROVE  OpenInv'
  <2>1. PICK n, e, s : Opened(a, muted, n, e, s)
    BY <1>2, Opening
  <2>2. UNCHANGED stream_id_to_attendee_id_
    BY <1>2 DEF Opens, adapterVars
  <2>3. DOMAIN roster' = DOMAIN roster \union {s}
    BY <2>1 DEF Opened, Put
  <2>4. ASSUME NEW t \in DOMAIN roster
        PROVE  Comes(t)' /\ Unended(t)'
    BY <2>1, <2>2, <2>4, StillComes DEF OpenInv, EndsIt, Opened, Typed, OpenOwned
  <2>5. \A i \in DOMAIN incoming : incoming[i].stream # s
    BY <2>1 DEF OwnersInv, Right, Opened
  <2>6. Comes(s)'
    <3>1. /\ n + 1 \in DOMAIN incoming' /\ Announces(incoming'[n + 1], s)
          /\ \A j \in DOMAIN incoming' : j < n + 1 => incoming'[j].stream # s
      BY <2>1, <2>5 DEF Opened, Queued, Announces, IsInfo
    <3> QED
      BY <3>1 DEF Comes
  <2>7. Unended(s)'
    BY <2>1, <2>5 DEF Opened, Unended, Queued, EndsIt
  <2> QED
    BY <2>3, <2>4, <2>6, <2>7 DEF OpenInv
<1>3. ASSUME NEW s \in DOMAIN roster, TogglesMute(s)
      PROVE  OpenInv'
  <2>1. UNCHANGED stream_id_to_attendee_id_
    BY <1>3 DEF TogglesMute, adapterVars
  <2> QED
    BY <1>1, <1>3, <2>1, Toggling DEF EndsIt
<1>4. ASSUME NEW s \in DOMAIN roster, NEW dropped \in BOOLEAN, Ends(s, dropped)
      PROVE  OpenInv'
  <2>1. UNCHANGED stream_id_to_attendee_id_
    BY <1>4 DEF Ends, adapterVars
  <2> QED
    BY <1>1, <1>4, <2>1, Ending DEF EndsIt
<1>5. ASSUME NEW s \in DOMAIN roster, NEW raw \in RawVolume, Speaks(s, raw)
      PROVE  OpenInv'
  <2>1. UNCHANGED <<stream_id_to_attendee_id_, roster>>
    BY <1>5 DEF Speaks, adapterVars
  <2> QED
    BY <1>1, <1>5, <2>1, Speaking DEF EndsIt, IsLevel
<1>6. CASE Rejoin
  <2>1. PICK n, open : n \in Nat /\ Rejoined(n, open)
    BY <1>6, Rejoining
  <2>2. \A s \in DOMAIN roster : s \in Nat
    BY Owners DEF Typed, OpenOwned, StreamId
  <2>3. ASSUME NEW s \in DOMAIN roster
        PROVE  Comes(s)' /\ Unended(s)'
    <3>1. PICK i \in 1 .. n : open[i] = s
      BY <2>1 DEF Rejoined
    <3>2. Announces(incoming'[i], s)
      BY <2>1, <3>1 DEF Rejoined, Announces, IsInfo
    <3>3. ASSUME NEW j \in DOMAIN incoming', j < i
          PROVE  incoming'[j].stream # s
      <4>1. j \in 1 .. n /\ incoming'[j].stream = open[j]
        BY <2>1 DEF Rejoined
      <4>2. open[j] < open[i] /\ open[j] \in Nat /\ open[i] \in Nat
        BY <2>1, <2>2, <3>3, <4>1 DEF Rejoined
      <4> QED
        BY <3>1, <4>1, <4>2
    <3> QED
      BY <2>1, <3>2, <3>3 DEF Rejoined, Comes, Unended, EndsIt
  <2> QED
    BY <1>6, <2>3 DEF OpenInv, Rejoin
<1>7. CASE OnAudioStreamIdInfo
  <2>1. PICK n, e : /\ Taken(e, n) /\ IsInfo(e)
                    /\ HandleAttendee(e) \/ HandleMuted(e) \/ HandleLeave(e)
    BY <1>7, Handling
  <2>2. UNCHANGED roster
    BY <1>7 DEF OnAudioStreamIdInfo, Receive
  <2>3. ASSUME NEW s \in DOMAIN roster, Known(s) \/ Announces(e, s)
        PROVE  Known(s)'
    <3>1. CASE HandleAttendee(e)
      BY <2>3, <3>1 DEF HandleAttendee, LearnAttendee, Put, Known, Announces
    <3>2. CASE HandleMuted(e)
      BY <2>3, <3>2 DEF HandleMuted, Known, Announces
    <3>3. CASE HandleLeave(e)
      <4>1. ~EndsIt(e, s) /\ 1 \in DOMAIN incoming
        BY <2>1 DEF OpenInv, Unended, Taken
      <4>2. e.stream # s /\ Known(s)
        BY <2>1, <2>3, <3>3, <4>1 DEF HandleLeave, EndsIt, IsInfo, Announces
      <4> QED
        BY <3>3, <4>2 DEF HandleLeave, Known, Erase, Restrict
    <3> QED
      BY <2>1, <3>1, <3>2, <3>3
  <2> QED
    BY <2>1, <2>2, <2>3, ComesNearer DEF OpenInv
<1>8. CASE OnAudioMetadata
  <2>1. PICK n, e : Taken(e, n) /\ IsLevel(e)
    BY <1>8, Hearing
  <2>2. UNCHANGED <<roster, stream_id_to_attendee_id_>>
    BY <1>8 DEF OnAudioMetadata, Receive
  <2>3. \A s : Known(s) \/ Announces(e, s) => Known(s)'
    BY <2>1, <2>2 DEF Known, Announces, IsLevel
  <2> QED
    BY <2>1, <2>2, <2>3, ComesNearer DEF OpenInv
<1>9. CASE UNCHANGED vars
  <2>1. UNCHANGED <<roster, stream_id_to_attendee_id_, incoming>>
    BY <1>9 DEF vars, adapterVars, serviceVars
  <2> QED
    BY <2>1 DEF OpenInv, Comes, Unended, Known
<1> QED
  BY <1>2, <1>3, <1>4, <1>5, <1>6, <1>7, <1>8, <1>9 DEF Next, Service

StreamsInv == Typed /\ OwnersInv /\ OpenInv

LEMMA StreamsInvHolds == Spec => []StreamsInv
<1>1. Init => Typed /\ OwnersInv /\ OpenInv
  <2> SUFFICES ASSUME Init PROVE OwnersInv /\ OpenInv
    BY TypeInit DEF Typed
  <2>1. DOMAIN EmptyMap = {} /\ DOMAIN <<>> = {}
    BY EmptyMapType
  <2> QED
    BY <2>1 DEF Init, OwnersInv, OpenInv
<1>2. Typed /\ [Next]_vars => Typed'
  BY TypeStep DEF Typed
<1> QED
  BY <1>1, <1>2, OwnersInvStep, OpenInvStep, PTL DEF Spec, StreamsInv

\* Once the adapter has handled what was sent it knows every stream that is
\* open and whose it is, also in a later session, with the maps of the one
\* before (default_audio_frame_adapter.cc, OnAudioStreamIdInfoFrame).
THEOREM OpenStreamsKnownHolds == Spec => []OpenStreamsKnown
<1>1. StreamsInv => OpenStreamsKnown
  <2> SUFFICES ASSUME StreamsInv, incoming = <<>>, NEW s \in DOMAIN roster
               PROVE  Known(s) /\ stream_id_to_attendee_id_[s] = owner[s]
    BY DEF OpenStreamsKnown
  <2>1. Known(s)
    BY DEF StreamsInv, OpenInv, Comes
  <2> QED
    BY <2>1 DEF StreamsInv, OwnersInv, Known
<1> QED
  BY <1>1, StreamsInvHolds, PTL

-----------------------------------------------------------------------------
(* Who is muted. *)

\* The observer believes what the adapter stores, but for the mutes it has
\* forgotten.
Believes(heard, missed) ==
  \A a \in Attendee : /\ heard[a] => LastMuted(a)
                      /\ a \notin missed => heard[a] = LastMuted(a)
HeardInv == Believes(heard_muted, forgotten)

Mutes(e, a) == e \in InfoEntry /\ owner[e.stream] = a /\ e.muted # "absent"

\* Of the newest open stream of an attendee the adapter has heard the truth,
\* or it is on its way and nothing comes after it.
Heard(s) ==
  /\ LastMuted(owner[s]) = roster[s]
  /\ \A i \in DOMAIN incoming : ~Mutes(incoming[i], owner[s])
TruthComes(s) ==
  \E i \in DOMAIN incoming :
    /\ incoming[i] \in InfoEntry /\ incoming[i].stream = s
    /\ incoming[i].muted = YesNo(roster[s])
    /\ \A j \in DOMAIN incoming : j > i => ~Mutes(incoming[j], owner[s])
MuteInv ==
  \A s \in DOMAIN roster : Newest(s) => Heard(s) \/ TruthComes(s)

\* Only changes are reported, and yet the observer hears what it is told.
LEMMA Reported ==
  ASSUME TypeOK, NEW a \in Attendee, NEW muted \in BOOLEAN,
         NEW heard \in [Attendee -> BOOLEAN], NEW missed,
         Believes(heard, missed), ReportMute(a, muted, heard, missed)
  PROVE  /\ LastMuted(a)' = muted
         /\ \A b \in Attendee : b # a => /\ LastMuted(b)' = LastMuted(b)
                                        /\ heard_muted'[b] = heard[b]
         /\ HeardInv'
<1>1. /\ DOMAIN attendee_id_to_muted_' = DOMAIN attendee_id_to_muted_ \union {a}
      /\ attendee_id_to_muted_'[a] = muted
      /\ \A b \in DOMAIN attendee_id_to_muted_ :
           b # a => attendee_id_to_muted_'[b] = attendee_id_to_muted_[b]
  BY DEF ReportMute, Put
<1>2. /\ LastMuted(a)' = muted
      /\ \A b \in Attendee : b # a => LastMuted(b)' = LastMuted(b)
  BY <1>1 DEF LastMuted
<1>3. CASE LastMuted(a) = muted
  <2>1. heard_muted' = heard /\ forgotten' = missed
    BY <1>3 DEF ReportMute
  <2>2. ASSUME NEW b \in Attendee PROVE LastMuted(b)' = LastMuted(b)
    BY <1>2, <1>3
  <2> QED
    BY <1>2, <2>1, <2>2 DEF HeardInv, Believes
<1>4. CASE LastMuted(a) # muted
  <2>1. /\ heard_muted' = [heard EXCEPT ![a] = muted]
        /\ forgotten' = missed \ {a}
    BY <1>4 DEF ReportMute
  <2>2. /\ heard_muted'[a] = muted
        /\ \A b \in Attendee : b # a => heard_muted'[b] = heard[b]
    BY <2>1
  <2>3. HeardInv'
    <3>1. ASSUME NEW b \in Attendee
          PROVE  /\ heard_muted'[b] => LastMuted(b)'
                 /\ b \notin forgotten' => heard_muted'[b] = LastMuted(b)'
      <4>1. CASE b = a
        BY <1>2, <2>2, <4>1
      <4>2. CASE b # a
        BY <1>2, <2>1, <2>2, <4>2 DEF Believes
      <4> QED
        BY <4>1, <4>2
    <3> QED
      BY <3>1 DEF HeardInv, Believes
  <2> QED
    BY <1>2, <2>2, <2>3
<1> QED
  BY <1>3, <1>4

\* The observer begins the entry of an attendee who joins, and may forget a
\* mute by it.
LEMMA Begun ==
  ASSUME TypeOK, HeardInv, NEW a \in Attendee
  PROVE  /\ HeardAfter(a) \in [Attendee -> BOOLEAN]
         /\ Believes(HeardAfter(a), ForgottenAfter(a))
         /\ \A b \in Attendee : b # a => HeardAfter(a)[b] = heard_muted[b]
<1>1. heard_muted \in [Attendee -> BOOLEAN]
  BY DEF TypeOK
<1>2. CASE Joins(a)
  <2>1. /\ HeardAfter(a) = [heard_muted EXCEPT ![a] = FALSE]
        /\ ForgottenAfter(a) = forgotten \union ({a} \cap DOMAIN attendee_id_to_muted_)
    BY <1>2 DEF HeardAfter, ForgottenAfter
  <2>2. /\ HeardAfter(a)[a] = FALSE
        /\ \A b \in Attendee : b # a => HeardAfter(a)[b] = heard_muted[b]
    BY <1>1, <2>1
  <2>3. a \notin ForgottenAfter(a) => LastMuted(a) = FALSE
    BY <2>1 DEF LastMuted
  <2>4. \A b \in Attendee : b # a /\ b \notin ForgottenAfter(a) => b \notin forgotten
    BY <2>1
  <2>5. ASSUME NEW b \in Attendee
        PROVE  /\ HeardAfter(a)[b] => LastMuted(b)
               /\ b \notin ForgottenAfter(a) => HeardAfter(a)[b] = LastMuted(b)
    <3>1. CASE b = a
      BY <2>2, <2>3, <3>1
    <3>2. CASE b # a
      BY <2>2, <2>4, <3>2 DEF HeardInv, Believes
    <3> QED
      BY <3>1, <3>2
  <2> QED
    BY <1>1, <2>1, <2>2, <2>5 DEF Believes
<1>3. CASE ~Joins(a)
  BY <1>1, <1>3 DEF HeardAfter, ForgottenAfter, HeardInv
<1> QED
  BY <1>2, <1>3

\* What an entry tells of a mute: of the owner of its stream only, and the
\* truth of it if the stream is known or announced.  Of the others nothing
\* that the observer believes changes, unless the entry is theirs.
LEMMA MuteHandled ==
  ASSUME StreamsInv, HeardInv, NEW n, NEW e, Taken(e, n), IsInfo(e),
         HandleAttendee(e) \/ HandleMuted(e) \/ HandleLeave(e)
  PROVE  /\ HeardInv'
         /\ \A a \in Attendee : ~Mutes(e, a) => LastMuted(a)' = LastMuted(a)
         /\ \A a \in Attendee : ~Mutes(e, a) /\ a # e.attendee =>
              heard_muted'[a] = heard_muted[a]
         /\ \A a \in Attendee :
              Mutes(e, a) /\ (Known(e.stream) \/ e.attendee # NoAttendee) =>
                LastMuted(a)' = (e.muted = "yes")
<1>1. TypeOK /\ Right(e)
  BY DEF StreamsInv, Typed, OwnersInv, Taken
<1>2. owner[e.stream] \in Attendee
  BY <1>1, Owners DEF Right
<1>3. Known(e.stream) => stream_id_to_attendee_id_[e.stream] = owner[e.stream]
  BY DEF StreamsInv, OwnersInv, Known
<1>4. PICK muted \in BOOLEAN : muted = (e.muted = "yes")
  OBVIOUS
<1>5. CASE HandleAttendee(e)
  <2>1. e.attendee = owner[e.stream] /\ e.attendee # NoAttendee
    BY <1>1, <1>5 DEF HandleAttendee, Right, IsInfo
  <2>2. PICK a \in Attendee : a = e.attendee
    BY <1>2, <2>1
  <2>3. /\ HeardAfter(a) \in [Attendee -> BOOLEAN]
        /\ Believes(HeardAfter(a), ForgottenAfter(a))
        /\ \A b \in Attendee : b # a => HeardAfter(a)[b] = heard_muted[b]
    BY <1>1, Begun
  <2>4. PICK heard, missed : /\ heard \in [Attendee -> BOOLEAN]
                             /\ heard = HeardAfter(a) /\ missed = ForgottenAfter(a)
    BY <2>3
  <2>5. CASE e.muted = "absent"
    <3>1. /\ heard_muted' = heard /\ forgotten' = missed
          /\ UNCHANGED attendee_id_to_muted_
      BY <1>5, <2>2, <2>4, <2>5 DEF HandleAttendee
    <3>2. \A b : LastMuted(b)' = LastMuted(b)
      BY <3>1 DEF LastMuted
    <3>3. HeardInv'
      BY <2>3, <2>4, <3>1, <3>2 DEF HeardInv, Believes
    <3>4. \A b : ~Mutes(e, b)
      BY <2>5 DEF Mutes
    <3>5. \A b \in Attendee : b # e.attendee => heard_muted'[b] = heard_muted[b]
      BY <2>2, <2>3, <2>4, <3>1
    <3> QED
      BY <3>2, <3>3, <3>4, <3>5
  <2>6. CASE e.muted # "absent"
    <3>1. ReportMute(a, muted, heard, missed)
      BY <1>4, <1>5, <2>2, <2>4, <2>6 DEF HandleAttendee
    <3>2. heard \in [Attendee -> BOOLEAN] /\ Believes(heard, missed)
      BY <2>3, <2>4
    <3>3. /\ LastMuted(a)' = muted
          /\ \A b \in Attendee : b # a => /\ LastMuted(b)' = LastMuted(b)
                                         /\ heard_muted'[b] = heard[b]
          /\ HeardInv'
      BY <1>1, <3>1, <3>2, Reported, Zenon
    <3>4. Mutes(e, a)
      BY <2>1, <2>2, <2>6 DEF Mutes, IsInfo
    <3>5. \A b \in Attendee : ~Mutes(e, b) => b # a
      BY <3>4
    <3>6. \A b \in Attendee : Mutes(e, b) => b = a
      BY <2>1, <2>2 DEF Mutes
    <3>7. \A b \in Attendee : ~Mutes(e, b) =>
            LastMuted(b)' = LastMuted(b) /\ heard_muted'[b] = heard_muted[b]
      BY <2>3, <2>4, <3>3, <3>5
    <3>8. \A b \in Attendee : Mutes(e, b) => LastMuted(b)' = (e.muted = "yes")
      BY <1>4, <3>3, <3>6
    <3> QED
      BY <3>3, <3>7, <3>8
  <2> QED
    BY <2>5, <2>6
<1>6. CASE HandleMuted(e) /\ Known(e.stream)
  <2>1. PICK a \in Attendee : a = owner[e.stream]
    BY <1>2
  <2>2. ReportMute(a, muted, heard_muted, forgotten) /\ e.muted # "absent"
    BY <1>3, <1>4, <1>6, <2>1 DEF HandleMuted
  <2>3. heard_muted \in [Attendee -> BOOLEAN] /\ Believes(heard_muted, forgotten)
    BY <1>1 DEF TypeOK, HeardInv
  <2>4. /\ LastMuted(a)' = muted
        /\ \A b \in Attendee : b # a => /\ LastMuted(b)' = LastMuted(b)
                                       /\ heard_muted'[b] = heard_muted[b]
        /\ HeardInv'
    BY <1>1, <2>2, <2>3, Reported, Zenon
  <2>5. Mutes(e, a)
    BY <2>1, <2>2 DEF Mutes, IsInfo
  <2>6. \A b \in Attendee : ~Mutes(e, b) => b # a
    BY <2>5
  <2>7. \A b \in Attendee : Mutes(e, b) => b = a
    BY <2>1 DEF Mutes
  <2>8. \A b \in Attendee : ~Mutes(e, b) =>
          LastMuted(b)' = LastMuted(b) /\ heard_muted'[b] = heard_muted[b]
    BY <2>4, <2>6
  <2>9. \A b \in Attendee : Mutes(e, b) => LastMuted(b)' = (e.muted = "yes")
    BY <1>4, <2>4, <2>7
  <2> QED
    BY <2>4, <2>8, <2>9
<1>7. CASE HandleLeave(e) \/ (HandleMuted(e) /\ ~Known(e.stream))
  <2>1. /\ UNCHANGED <<attendee_id_to_muted_, heard_muted, forgotten>>
        /\ e.muted = "absent" \/ (~Known(e.stream) /\ e.attendee = NoAttendee)
    BY <1>7 DEF HandleMuted, HandleLeave
  <2>2. \A b : LastMuted(b)' = LastMuted(b)
    BY <2>1 DEF LastMuted
  <2>3. HeardInv'
    BY <2>1, <2>2 DEF HeardInv, Believes
  <2>4. \A b : ~(Mutes(e, b) /\ (Known(e.stream) \/ e.attendee # NoAttendee))
    BY <2>1 DEF Mutes
  <2> QED
    BY <2>1, <2>2, <2>3, <2>4
<1> QED
  BY <1>5, <1>6, <1>7

\* An entry that comes last and is not of the attendee's mute changes nothing.
LEMMA TruthWaits ==
  ASSUME StreamsInv, NEW n, NEW e, Queued(e, n), UNCHANGED attendee_id_to_muted_,
         \A t \in DOMAIN owner : owner'[t] = owner[t],
         NEW s \in DOMAIN roster, roster'[s] = roster[s],
         ~Mutes(e, owner[s])', Heard(s) \/ TruthComes(s)
  PROVE  Heard(s)' \/ TruthComes(s)'
<1>1. owner'[s] = owner[s]
  BY DEF StreamsInv, Typed, OpenOwned
<1>2. \A i \in DOMAIN incoming : Mutes(incoming[i], owner[s])' <=> Mutes(incoming[i], owner[s])
  <2> TAKE i \in DOMAIN incoming
  <2>1. incoming'[i] = incoming[i] /\ incoming[i].stream \in DOMAIN owner
    BY DEF Queued, StreamsInv, OwnersInv, Right
  <2> QED
    BY <1>1, <2>1 DEF Mutes
<1>3. CASE Heard(s)
  <2>1. \A i \in DOMAIN incoming' : ~Mutes(incoming[i], owner[s])'
    BY <1>1, <1>2, <1>3 DEF Heard, Queued
  <2> QED
    BY <1>1, <1>3, <2>1 DEF Heard, LastMuted
<1>4. CASE TruthComes(s)
  <2>1. PICK i \in DOMAIN incoming :
          /\ incoming[i] \in InfoEntry /\ incoming[i].stream = s
          /\ incoming[i].muted = YesNo(roster[s])
          /\ \A j \in DOMAIN incoming : j > i => ~Mutes(incoming[j], owner[s])
    BY <1>4 DEF TruthComes
  <2>2. \A j \in DOMAIN incoming' : j > i => ~Mutes(incoming[j], owner[s])'
    BY <1>1, <1>2, <2>1 DEF Queued
  <2>3. /\ i \in DOMAIN incoming'
        /\ incoming'[i] \in InfoEntry /\ incoming'[i].stream = s
        /\ incoming'[i].muted = YesNo(roster'[s])
    BY <2>1 DEF Queued
  <2> QED
    BY <2>2, <2>3 DEF TruthComes
<1> QED
  BY <1>3, <1>4

LEMMA TruthSent ==
  ASSUME NEW n, NEW e, Queued(e, n), e \in InfoEntry, NEW s, e.stream = s,
         e.muted = YesNo(roster'[s])
  PROVE  TruthComes(s)'
<1>1. /\ n + 1 \in DOMAIN incoming' /\ incoming'[n + 1] = e
      /\ \A j \in DOMAIN incoming' : ~(j > n + 1)
  BY DEF Queued
<1> QED
  BY <1>1 DEF TruthComes

\* The truth comes nearer with every entry taken, and is heard in the end.
LEMMA TruthNearer ==
  ASSUME StreamsInv, HeardInv, NEW n, NEW e, Taken(e, n),
         UNCHANGED <<owner, roster>>,
         \A a \in Attendee : ~Mutes(e, a) => LastMuted(a)' = LastMuted(a),
         \A a \in Attendee :
           IsInfo(e) /\ Mutes(e, a) /\ (Known(e.stream) \/ e.attendee # NoAttendee) =>
             LastMuted(a)' = (e.muted = "yes"),
         NEW s \in DOMAIN roster, Heard(s) \/ TruthComes(s)
  PROVE  Heard(s)' \/ TruthComes(s)'
<1>1. owner[s] \in Attendee /\ roster[s] \in BOOLEAN
  BY Owners, MapElim DEF StreamsInv, Typed, OpenOwned, TypeOK
<1>2. \A i \in 1 .. n : Mutes(incoming[i], owner[s])' <=> Mutes(incoming[i + 1], owner[s])
  BY DEF Taken, Mutes
<1>3. CASE Heard(s)
  <2>1. ~Mutes(e, owner[s])
    <3>1. 1 \in DOMAIN incoming /\ e = incoming[1]
      BY DEF Taken
    <3> QED
      BY <1>3, <3>1 DEF Heard
  <2>2. \A i \in DOMAIN incoming' : ~Mutes(incoming[i], owner[s])'
    BY <1>2, <1>3 DEF Heard, Taken
  <2> QED
    BY <1>1, <1>3, <2>1, <2>2 DEF Heard
<1>4. CASE TruthComes(s)
  <2>1. PICK i \in DOMAIN incoming :
          /\ incoming[i] \in InfoEntry /\ incoming[i].stream = s
          /\ incoming[i].muted = YesNo(roster[s])
          /\ \A j \in DOMAIN incoming : j > i => ~Mutes(incoming[j], owner[s])
    BY <1>4 DEF TruthComes
  <2>2. CASE i = 1
    <3>1. IsInfo(e) /\ e.stream = s /\ e.muted = YesNo(roster[s])
      BY <2>1, <2>2, EntryKinds DEF Taken, IsInfo
    <3>2. e.muted # "absent" /\ (e.muted = "yes") = roster[s]
      BY <1>1, <3>1 DEF YesNo
    <3>3. Known(s) \/ e.attendee # NoAttendee
      <4>1. Comes(s)
        BY DEF StreamsInv, OpenInv
      <4>2. ASSUME NEW k \in DOMAIN incoming, Announces(incoming[k], s),
                   \A j \in DOMAIN incoming : j < k => incoming[j].stream # s
            PROVE  e.attendee # NoAttendee
        <5>1. k = 1
          BY <3>1, <4>2 DEF Taken
        <5> QED
          BY <4>2, <5>1 DEF Announces, Taken
      <4> QED
        BY <4>1, <4>2 DEF Comes
    <3>4. LastMuted(owner[s])' = roster'[s]
      <4>1. PICK a \in Attendee : a = owner[s]
        BY <1>1
      <4>2. Mutes(e, a)
        BY <3>1, <3>2, <4>1 DEF Mutes, IsInfo
      <4>3. LastMuted(a)' = roster[s]
        BY <3>1, <3>2, <3>3, <4>2
      <4> QED
        BY <4>1, <4>3 DEF LastMuted
    <3>5. \A j \in DOMAIN incoming' : ~Mutes(incoming[j], owner[s])'
      BY <1>2, <2>1, <2>2 DEF Taken
    <3> QED
      BY <3>4, <3>5 DEF Heard
  <2>3. CASE i # 1
    <3>1. i - 1 \in DOMAIN incoming' /\ incoming'[i - 1] = incoming[i]
      BY <2>3 DEF Taken
    <3>2. \A j \in DOMAIN incoming' : j > i - 1 => ~Mutes(incoming[j], owner[s])'
      BY <1>2, <2>1, <2>3 DEF Taken
    <3> QED
      BY <2>1, <3>1, <3>2 DEF TruthComes
  <2> QED
    BY <2>2, <2>3
<1> QED
  BY <1>3, <1>4

LEMMA MuteInvStep ==
  StreamsInv /\ HeardInv /\ MuteInv /\ [Next]_vars => HeardInv' /\ MuteInv'
<1> SUFFICES ASSUME StreamsInv, HeardInv, MuteInv, [Next]_vars
             PROVE  HeardInv' /\ MuteInv'
  OBVIOUS
<1> USE DEF StreamsInv
<1>0. /\ \A s \in DOMAIN roster : s \in Nat /\ s \in DOMAIN owner
      /\ \A s \in DOMAIN roster : owner[s] \in Attendee
  BY Owners DEF Typed, OpenOwned, StreamId
<1>1. UNCHANGED <<attendee_id_to_muted_, heard_muted, forgotten>> => HeardInv'
  BY DEF HeardInv, Believes, LastMuted
<1>2. ASSUME NEW a \in Attendee, NEW muted \in BOOLEAN, Opens(a, muted)
      PROVE  HeardInv' /\ MuteInv'
  <2>1. PICK n, e, s : Opened(a, muted, n, e, s)
    BY <1>2, Opening
  <2>2. UNCHANGED <<attendee_id_to_muted_, heard_muted, forgotten>>
    BY <1>2 DEF Opens, adapterVars, observerVars
  <2>3. /\ DOMAIN roster' = DOMAIN roster \union {s} /\ roster'[s] = muted
        /\ \A t \in DOMAIN roster : t # s => roster'[t] = roster[t]
    BY <2>1 DEF Opened, Put
  <2>4. TruthComes(s)'
    BY <2>1, <2>3, TruthSent DEF Opened, IsInfo
  <2>5. ASSUME NEW t \in DOMAIN roster, Newest(t)'
        PROVE  Heard(t)' \/ TruthComes(t)'
    <3>1. t # s /\ t < s /\ owner'[t] = owner[t] /\ owner'[s] = a /\ s \in StreamId
      BY <1>0, <2>1 DEF Opened
    <3>2. owner[t] # a
      BY <1>0, <2>3, <2>5, <3>1 DEF Newest, StreamId
    <3>3. Newest(t)
      BY <1>0, <2>1, <2>3, <2>5 DEF Newest, Opened
    <3>4. ~Mutes(e, owner[t])'
      BY <2>1, <3>1, <3>2 DEF Mutes, Opened
    <3> QED
      BY <2>1, <2>2, <2>3, <3>1, <3>3, <3>4, TruthWaits DEF MuteInv, Opened
  <2> QED
    BY <1>1, <2>2, <2>3, <2>4, <2>5 DEF MuteInv
<1>3. ASSUME NEW s \in DOMAIN roster, TogglesMute(s)
      PROVE  HeardInv' /\ MuteInv'
  <2>1. PICK n, e :
           /\ Queued(e, n) /\ IsInfo(e)
           /\ e.stream = s /\ e.attendee = NoAttendee
           /\ e.muted = YesNo(roster'[s]) /\ e.muted # "absent"
           /\ DOMAIN roster' = DOMAIN roster
           /\ \A t \in DOMAIN roster : t # s => roster'[t] = roster[t]
    BY <1>3, Toggling
  <2>2. UNCHANGED <<attendee_id_to_muted_, heard_muted, forgotten, owner>> /\ Newest(s)
    BY <1>3 DEF TogglesMute, adapterVars, observerVars
  <2>3. TruthComes(s)'
    BY <2>1, TruthSent DEF IsInfo
  <2>4. ASSUME NEW t \in DOMAIN roster, Newest(t)', t # s
        PROVE  Heard(t)' \/ TruthComes(t)'
    <3>1. Newest(t) /\ owner[t] # owner[s]
      BY <1>0, <2>1, <2>2, <2>4 DEF Newest
    <3>2. ~Mutes(e, owner[t])'
      BY <2>1, <2>2, <3>1 DEF Mutes
    <3> QED
      BY <2>1, <2>2, <2>4, <3>1, <3>2, TruthWaits DEF MuteInv
  <2> QED
    BY <1>1, <2>1, <2>2, <2>3, <2>4 DEF MuteInv
<1>4. ASSUME NEW s \in DOMAIN roster, NEW dropped \in BOOLEAN, Ends(s, dropped)
      PROVE  HeardInv' /\ MuteInv'
  <2>1. PICK n, e :
           /\ Queued(e, n) /\ IsInfo(e)
           /\ e.stream = s /\ e.attendee = NoAttendee /\ e.muted = "absent"
           /\ DOMAIN roster' = DOMAIN roster \ {s}
           /\ \A t \in DOMAIN roster : t # s => roster'[t] = roster[t]
    BY <1>4, Ending
  <2>2. UNCHANGED <<attendee_id_to_muted_, heard_muted, forgotten, owner>> /\ Oldest(s)
    BY <1>4 DEF Ends, adapterVars, observerVars
  <2>3. ASSUME NEW t \in DOMAIN roster', Newest(t)'
        PROVE  Heard(t)' \/ TruthComes(t)'
    <3>1. Newest(t) /\ t \in DOMAIN roster /\ t # s
      BY <1>0, <2>1, <2>2, <2>3 DEF Newest, Oldest
    <3>2. ~Mutes(e, owner[t])'
      BY <2>1 DEF Mutes
    <3> QED
      BY <2>1, <2>2, <3>1, <3>2, TruthWaits DEF MuteInv
  <2> QED
    BY <1>1, <2>2, <2>3 DEF MuteInv
<1>5. ASSUME NEW s \in DOMAIN roster, NEW raw \in RawVolume, Speaks(s, raw)
      PROVE  HeardInv' /\ MuteInv'
  <2>1. PICK n, e : Queued(e, n) /\ IsLevel(e)
    BY <1>5, Speaking
  <2>2. UNCHANGED <<attendee_id_to_muted_, heard_muted, forgotten, owner, roster>>
    BY <1>5 DEF Speaks, adapterVars, observerVars
  <2>3. \A a : ~Mutes(e, a)'
    BY <2>1 DEF Mutes, IsLevel
  <2>4. ASSUME NEW t \in DOMAIN roster, Newest(t)'
        PROVE  Heard(t)' \/ TruthComes(t)'
    <3>1. Newest(t)
      BY <2>2, <2>4 DEF Newest
    <3> QED
      BY <2>1, <2>2, <2>3, <3>1, TruthWaits DEF MuteInv
  <2> QED
    BY <1>1, <2>2, <2>4 DEF MuteInv
<1>6. CASE Rejoin
  <2>1. PICK n, open : n \in Nat /\ Rejoined(n, open)
    BY <1>6, Rejoining
  <2>2. /\ UNCHANGED <<attendee_id_to_muted_, owner, roster>>
        /\ heard_muted' = [a \in Attendee |-> FALSE]
        /\ DOMAIN attendee_id_to_muted_ \subseteq forgotten'
    BY <1>6 DEF Rejoin, adapterVars
  <2>0. HeardInv'
    BY <2>2 DEF HeardInv, Believes, LastMuted
  <2>3. ASSUME NEW s \in DOMAIN roster, Newest(s)'
        PROVE  TruthComes(s)'
    <3>1. PICK i \in 1 .. n : open[i] = s
      BY <2>1 DEF Rejoined
    <3>2. ASSUME NEW j \in 1 .. n, j > i
          PROVE  ~Mutes(incoming[j], owner[s])'
      <4>1. open[j] > s /\ open[j] \in DOMAIN roster
        BY <1>0, <2>1, <3>1, <3>2 DEF Rejoined
      <4>2. owner[open[j]] # owner[s]
        BY <1>0, <2>2, <2>3, <4>1 DEF Newest
      <4> QED
        BY <2>1, <2>2, <4>2 DEF Rejoined, Mutes
    <3>3. /\ DOMAIN incoming' = 1 .. n
          /\ incoming'[i] \in InfoEntry /\ incoming'[i].stream = s
          /\ incoming'[i].muted = YesNo(roster'[s])
      BY <2>1, <2>2, <3>1 DEF Rejoined, IsInfo
    <3> QED
      BY <3>2, <3>3 DEF TruthComes
  <2> QED
    BY <2>0, <2>2, <2>3 DEF MuteInv
<1>7. CASE OnAudioStreamIdInfo
  <2>1. PICK n, e : /\ Taken(e, n) /\ IsInfo(e)
                    /\ HandleAttendee(e) \/ HandleMuted(e) \/ HandleLeave(e)
    BY <1>7, Handling
  <2>2. UNCHANGED <<owner, roster>>
    BY <1>7 DEF OnAudioStreamIdInfo, Receive
  <2>3. /\ HeardInv'
        /\ \A a \in Attendee : ~Mutes(e, a) => LastMuted(a)' = LastMuted(a)
        /\ \A a \in Attendee :
             Mutes(e, a) /\ (Known(e.stream) \/ e.attendee # NoAttendee) =>
               LastMuted(a)' = (e.muted = "yes")
    BY <2>1, MuteHandled
  <2>4. ASSUME NEW s \in DOMAIN roster, Newest(s)
        PROVE  Heard(s)' \/ TruthComes(s)'
    BY <2>1, <2>2, <2>3, <2>4, TruthNearer DEF MuteInv
  <2> QED
    BY <2>2, <2>3, <2>4 DEF MuteInv, Newest
<1>8. CASE OnAudioMetadata
  <2>1. PICK n, e : Taken(e, n) /\ IsLevel(e)
    BY <1>8, Hearing
  <2>2. UNCHANGED <<owner, roster, attendee_id_to_muted_, heard_muted, forgotten>>
    BY <1>8 DEF OnAudioMetadata, Receive
  <2>3. /\ ~IsInfo(e)
        /\ \A a \in Attendee : LastMuted(a)' = LastMuted(a)
    BY <2>1, <2>2 DEF IsInfo, IsLevel, LastMuted
  <2>4. ASSUME NEW s \in DOMAIN roster, Newest(s)
        PROVE  Heard(s)' \/ TruthComes(s)'
    BY <2>1, <2>2, <2>3, <2>4, TruthNearer DEF MuteInv
  <2> QED
    BY <1>1, <2>2, <2>4 DEF MuteInv, Newest
<1>9. CASE UNCHANGED vars
  <2>1. UNCHANGED <<attendee_id_to_muted_, heard_muted, forgotten, owner, roster, incoming>>
    BY <1>9 DEF vars, adapterVars, observerVars, serviceVars
  <2> QED
    BY <1>1, <2>1 DEF MuteInv, Newest, Heard, TruthComes, Mutes, LastMuted
<1> QED
  BY <1>2, <1>3, <1>4, <1>5, <1>6, <1>7, <1>8, <1>9 DEF Next, Service

\* Once the adapter has handled what was sent, in whatever session it was sent,
\* the observer takes nobody to be muted who is not, and is right about all but
\* those whose entry it began anew after the adapter had told of their mute
\* (default_audio_frame_adapter.cc, the muted branch of
\* OnAudioStreamIdInfoFrame and attendee_id_to_muted_).
THEOREM MuteAgreesHolds == Spec => []MuteAgrees
<1>1. Init => HeardInv /\ MuteInv
  BY EmptyMapType DEF Init, HeardInv, Believes, LastMuted, MuteInv
<1>2. StreamsInv /\ HeardInv /\ MuteInv => MuteAgrees
  <2> SUFFICES ASSUME StreamsInv, HeardInv, MuteInv, incoming = <<>>,
                      NEW s \in DOMAIN roster, Newest(s)
               PROVE  /\ heard_muted[owner[s]] => roster[s]
                      /\ owner[s] \notin forgotten => heard_muted[owner[s]] = roster[s]
    BY DEF MuteAgrees
  <2>1. LastMuted(owner[s]) = roster[s]
    BY DEF MuteInv, Heard, TruthComes
  <2>2. owner[s] \in Attendee
    BY Owners DEF StreamsInv, Typed, OpenOwned
  <2> QED
    BY <2>1, <2>2 DEF HeardInv, Believes
<1> QED
  BY <1>1, <1>2, StreamsInvHolds, MuteInvStep, PTL DEF Spec

-----------------------------------------------------------------------------
(* Who is present.  The service ends the older stream of an attendee first,  *)
(* and so its end arrives first, however the streams overlap.                *)

\* A stream the adapter knows or is going to know.
Alive(s) == Known(s) \/ \E i \in DOMAIN incoming : Announces(incoming[i], s)
EndComes(s) == \E i \in DOMAIN incoming : EndsIt(incoming[i], s)

EndsInv ==
  /\ \A s : Alive(s) => s \in DOMAIN roster \/ EndComes(s)
  /\ \A s : \A i, j \in DOMAIN incoming :
       Announces(incoming[i], s) /\ EndsIt(incoming[j], s) => i < j
  /\ \A s, t \in DOMAIN owner : \A i \in DOMAIN incoming :
       s < t /\ owner[s] = owner[t] /\ Alive(s) /\ EndsIt(incoming[i], t) =>
         \E j \in DOMAIN incoming : j < i /\ EndsIt(incoming[j], s)

\* Those present are the attendees with a known stream.
PresentInv ==
  /\ DOMAIN attendee_id_to_stream_id_ \subseteq present
  /\ \A a : a \in present <=>
       \E s \in DOMAIN stream_id_to_attendee_id_ : stream_id_to_attendee_id_[s] = a

PresenceInv == rejoins = 0 => EndsInv /\ PresentInv

\* An entry that neither announces nor ends a stream.
LEMMA EndsWait ==
  ASSUME EndsInv, NEW n, NEW e, Queued(e, n),
         UNCHANGED <<stream_id_to_attendee_id_, owner>>,
         DOMAIN roster' = DOMAIN roster,
         \A s : ~Announces(e, s) /\ ~EndsIt(e, s)
  PROVE  EndsInv'
<1>1. /\ \A i \in DOMAIN incoming : i \in DOMAIN incoming' /\ incoming'[i] = incoming[i]
      /\ \A i \in DOMAIN incoming' : i \in DOMAIN incoming \/ incoming'[i] = e
  BY DEF Queued
<1>2. \A s : (Alive(s)' <=> Alive(s)) /\ (EndComes(s)' <=> EndComes(s))
  BY <1>1 DEF Alive, EndComes, Known
<1>3. \A s : Alive(s)' => s \in DOMAIN roster' \/ EndComes(s)'
  BY <1>2 DEF EndsInv
<1>4. \A s : \A i, j \in DOMAIN incoming' :
        Announces(incoming'[i], s) /\ EndsIt(incoming'[j], s) => i < j
  BY <1>1 DEF EndsInv
<1>5. ASSUME NEW s \in DOMAIN owner, NEW t \in DOMAIN owner, NEW i \in DOMAIN incoming',
             s < t, owner[s] = owner[t], Alive(s)', EndsIt(incoming'[i], t)
      PROVE  \E j \in DOMAIN incoming' : j < i /\ EndsIt(incoming'[j], s)
  <2>1. i \in DOMAIN incoming /\ EndsIt(incoming[i], t) /\ Alive(s)
    BY <1>1, <1>2, <1>5
  <2>2. PICK j \in DOMAIN incoming : j < i /\ EndsIt(incoming[j], s)
    BY <1>5, <2>1 DEF EndsInv
  <2> QED
    BY <1>1, <2>2
<1> QED
  BY <1>3, <1>4, <1>5 DEF EndsInv

LEMMA EndsAfterOpening ==
  ASSUME StreamsInv, EndsInv, UNCHANGED stream_id_to_attendee_id_,
         NEW a, NEW muted, NEW n, NEW e, NEW new, Opened(a, muted, n, e, new)
  PROVE  EndsInv'
<1>1. /\ \A i \in DOMAIN incoming : i \in DOMAIN incoming' /\ incoming'[i] = incoming[i]
      /\ \A i \in DOMAIN incoming' : i \in DOMAIN incoming \/ incoming'[i] = e
      /\ \A i \in DOMAIN incoming : incoming[i].stream # new
      /\ DOMAIN roster' = DOMAIN roster \union {new}
      /\ DOMAIN owner' = DOMAIN owner \union {new}
  BY DEF Opened, Queued, Put, StreamsInv, OwnersInv, Right
<1>2. /\ \A s : ~EndsIt(e, s)
      /\ \A s : Announces(e, s) => s = new
  BY DEF Opened, EndsIt, Announces
<1>3. \A s : /\ Alive(s)' => Alive(s) \/ s = new
             /\ EndComes(s)' <=> EndComes(s)
  BY <1>1, <1>2 DEF Alive, EndComes, Known
<1>4. \A s : Alive(s)' => s \in DOMAIN roster' \/ EndComes(s)'
  BY <1>1, <1>3 DEF EndsInv
<1>5. ASSUME NEW s, NEW i \in DOMAIN incoming', NEW j \in DOMAIN incoming',
             Announces(incoming'[i], s), EndsIt(incoming'[j], s)
      PROVE  i < j
  <2>1. j \in DOMAIN incoming /\ EndsIt(incoming[j], s) /\ s # new
    BY <1>1, <1>2, <1>5 DEF EndsIt
  <2>2. i \in DOMAIN incoming /\ Announces(incoming[i], s)
    BY <1>1, <1>2, <1>5, <2>1
  <2> QED
    BY <2>1, <2>2 DEF EndsInv
<1>6. ASSUME NEW s \in DOMAIN owner', NEW t \in DOMAIN owner', NEW i \in DOMAIN incoming',
             s < t, owner'[s] = owner'[t], Alive(s)', EndsIt(incoming'[i], t)
      PROVE  \E j \in DOMAIN incoming' : j < i /\ EndsIt(incoming'[j], s)
  <2>1. i \in DOMAIN incoming /\ EndsIt(incoming[i], t) /\ t # new
    BY <1>1, <1>2, <1>6 DEF EndsIt
  <2>2. s # new /\ s \in DOMAIN owner /\ t \in DOMAIN owner /\ owner[s] = owner[t]
    <3>1. t \in DOMAIN owner /\ t < new /\ t \in Nat /\ new \in Nat
      BY <1>1, <2>1, Owners DEF Opened, StreamsInv, Typed, StreamId
    <3> QED
      BY <1>1, <1>6, <3>1 DEF Opened
  <2>3. PICK j \in DOMAIN incoming : j < i /\ EndsIt(incoming[j], s)
    BY <1>3, <1>6, <2>1, <2>2 DEF EndsInv
  <2> QED
    BY <1>1, <2>3
<1> QED
  BY <1>4, <1>5, <1>6 DEF EndsInv

LEMMA EndsAfterEnding ==
  ASSUME StreamsInv, EndsInv, UNCHANGED <<stream_id_to_attendee_id_, owner>>,
         NEW old \in DOMAIN roster, Oldest(old), DOMAIN roster' = DOMAIN roster \ {old},
         NEW n, NEW e, Queued(e, n), IsInfo(e),
         e.stream = old, e.attendee = NoAttendee, e.muted = "absent"
  PROVE  EndsInv'
<1>1. /\ \A i \in DOMAIN incoming :
           i \in DOMAIN incoming' /\ incoming'[i] = incoming[i] /\ i < n + 1
      /\ \A i \in DOMAIN incoming' : i \in DOMAIN incoming \/ i = n + 1
      /\ n + 1 \in DOMAIN incoming' /\ incoming'[n + 1] = e
  BY DEF Queued
<1>2. \A s : ~Announces(e, s) /\ (EndsIt(e, s) <=> s = old)
  BY DEF EndsIt, Announces, IsInfo
<1>3. \A s : /\ Alive(s)' => Alive(s)
             /\ EndComes(s) \/ s = old => EndComes(s)'
  BY <1>1, <1>2 DEF Alive, EndComes, Known
<1>4. \A s : Alive(s)' => s \in DOMAIN roster' \/ EndComes(s)'
  BY <1>3 DEF EndsInv
<1>5. ASSUME NEW s, NEW i \in DOMAIN incoming', NEW j \in DOMAIN incoming',
             Announces(incoming'[i], s), EndsIt(incoming'[j], s)
      PROVE  i < j
  <2>1. i \in DOMAIN incoming /\ Announces(incoming[i], s)
    BY <1>1, <1>2, <1>5
  <2> QED
    BY <1>1, <1>5, <2>1 DEF EndsInv
<1>6. ASSUME NEW s \in DOMAIN owner, NEW t \in DOMAIN owner, NEW i \in DOMAIN incoming',
             s < t, owner[s] = owner[t], Alive(s)', EndsIt(incoming'[i], t)
      PROVE  \E j \in DOMAIN incoming' : j < i /\ EndsIt(incoming'[j], s)
  <2>1. CASE i \in DOMAIN incoming
    <3>1. PICK j \in DOMAIN incoming : j < i /\ EndsIt(incoming[j], s)
      BY <1>1, <1>3, <1>6, <2>1 DEF EndsInv
    <3> QED
      BY <1>1, <3>1
  <2>2. CASE i = n + 1
    <3>1. t = old
      BY <1>1, <1>2, <1>6, <2>2
    <3>2. s \notin DOMAIN roster
      BY <1>6, <3>1, Owners DEF Oldest, StreamsInv, Typed
    <3>3. PICK j \in DOMAIN incoming : EndsIt(incoming[j], s)
      BY <1>3, <1>6, <3>2 DEF EndsInv, EndComes
    <3> QED
      BY <1>1, <2>2, <3>3
  <2> QED
    BY <1>1, <2>1, <2>2
<1> QED
  BY <1>4, <1>5, <1>6 DEF EndsInv

\* When the end of a stream is taken it is not known afterwards.
LEMMA EndsAfterTaking ==
  ASSUME EndsInv, UNCHANGED <<owner, roster>>, NEW n, NEW e, Taken(e, n),
         \A s : Known(s)' => Known(s) \/ Announces(e, s),
         \A s : EndsIt(e, s) => ~Known(s)'
  PROVE  EndsInv'
<1>1. /\ 1 \in DOMAIN incoming /\ incoming[1] = e
      /\ \A i \in DOMAIN incoming' : i + 1 \in DOMAIN incoming /\ incoming'[i] = incoming[i + 1]
      /\ \A i \in DOMAIN incoming :
           i = 1 \/ (i - 1 \in DOMAIN incoming' /\ incoming'[i - 1] = incoming[i])
      /\ \A i \in DOMAIN incoming : i \in Int
      /\ \A i \in DOMAIN incoming' : i \in Nat \ {0}
  BY DEF Taken
<1>2. \A s : Alive(s)' => Alive(s)
  BY <1>1 DEF Alive
<1>3. \A s : EndsIt(e, s) => ~Alive(s)'
  <2> SUFFICES ASSUME NEW s, EndsIt(e, s), Alive(s)' PROVE FALSE
    OBVIOUS
  <2>1. PICK i \in DOMAIN incoming' : Announces(incoming'[i], s)
    BY DEF Alive
  <2>2. i + 1 < 1
    BY <1>1, <2>1 DEF EndsInv
  <2> QED
    BY <1>1, <2>2
<1>4. \A s : Alive(s)' => s \in DOMAIN roster' \/ EndComes(s)'
  BY <1>1, <1>2, <1>3 DEF EndsInv, EndComes
<1>5. ASSUME NEW s, NEW i \in DOMAIN incoming', NEW j \in DOMAIN incoming',
             Announces(incoming'[i], s), EndsIt(incoming'[j], s)
      PROVE  i < j
  <2>1. i + 1 < j + 1
    BY <1>1, <1>5 DEF EndsInv
  <2> QED
    BY <1>1, <2>1
<1>6. ASSUME NEW s \in DOMAIN owner, NEW t \in DOMAIN owner, NEW i \in DOMAIN incoming',
             s < t, owner[s] = owner[t], Alive(s)', EndsIt(incoming'[i], t)
      PROVE  \E j \in DOMAIN incoming' : j < i /\ EndsIt(incoming'[j], s)
  <2>1. PICK j \in DOMAIN incoming : j < i + 1 /\ EndsIt(incoming[j], s)
    BY <1>1, <1>2, <1>6 DEF EndsInv
  <2>2. j # 1
    BY <1>1, <1>3, <1>6, <2>1
  <2> QED
    BY <1>1, <2>1, <2>2
<1> QED
  BY <1>4, <1>5, <1>6 DEF EndsInv

\* What an entry does to the streams known and the attendees present.
LEMMA PresentHandled ==
  ASSUME StreamsInv, EndsInv, PresentInv, NEW n, NEW e, Taken(e, n), IsInfo(e),
         HandleAttendee(e) \/ HandleMuted(e) \/ HandleLeave(e)
  PROVE  /\ \A s : Known(s)' => Known(s) \/ Announces(e, s)
         /\ \A s : EndsIt(e, s) => ~Known(s)'
         /\ PresentInv'
<1>1. Right(e) /\ 1 \in DOMAIN incoming /\ incoming[1] = e
        /\ \A i \in DOMAIN incoming : ~(i < 1)
  BY DEF StreamsInv, OwnersInv, Taken
<1>2. CASE HandleAttendee(e)
  <2>1. /\ LearnAttendee(e) /\ e.attendee # NoAttendee
        /\ e.attendee = owner[e.stream]
    BY <1>1, <1>2 DEF HandleAttendee, Right, IsInfo
  <2>2. /\ DOMAIN stream_id_to_attendee_id_' = DOMAIN stream_id_to_attendee_id_ \union {e.stream}
        /\ stream_id_to_attendee_id_'[e.stream] = e.attendee
        /\ \A s \in DOMAIN stream_id_to_attendee_id_ : s # e.stream =>
             stream_id_to_attendee_id_'[s] = stream_id_to_attendee_id_[s]
        /\ DOMAIN attendee_id_to_stream_id_' = DOMAIN attendee_id_to_stream_id_ \union {e.attendee}
    BY <2>1 DEF LearnAttendee, Put
  <2>3. present' = present \union {e.attendee}
    BY <2>1 DEF LearnAttendee, PresentInv
  <2>4. Known(e.stream) => stream_id_to_attendee_id_[e.stream] = e.attendee
    BY <2>1 DEF StreamsInv, OwnersInv, Known
  <2>5. PresentInv'
    BY <2>2, <2>3, <2>4 DEF PresentInv, Known
  <2>6. /\ \A s : Known(s)' => Known(s) \/ Announces(e, s)
        /\ \A s : ~EndsIt(e, s)
    BY <2>1, <2>2 DEF Known, Announces, EndsIt, IsInfo
  <2> QED
    BY <2>5, <2>6
<1>3. CASE HandleMuted(e)
  BY <1>3 DEF HandleMuted, Known, EndsIt, PresentInv
<1>4. CASE HandleLeave(e) /\ ~Known(e.stream)
  BY <1>4 DEF HandleLeave, Known, EndsIt, PresentInv
<1>5. CASE HandleLeave(e) /\ Known(e.stream)
  <2> DEFINE a == stream_id_to_attendee_id_[e.stream]
  <2>1. /\ DOMAIN stream_id_to_attendee_id_' = DOMAIN stream_id_to_attendee_id_ \ {e.stream}
        /\ \A s \in DOMAIN stream_id_to_attendee_id_ : s # e.stream =>
             stream_id_to_attendee_id_'[s] = stream_id_to_attendee_id_[s]
        /\ DOMAIN attendee_id_to_stream_id_' = DOMAIN attendee_id_to_stream_id_ \ {a}
    BY <1>5 DEF HandleLeave, Erase, Restrict
  <2>2. present' = IF HasNewStreamId(a, e.stream) THEN present ELSE present \ {a}
    BY <1>5 DEF HandleLeave
  <2>3. EndsIt(e, e.stream)
    BY <1>5 DEF HandleLeave, EndsIt, IsInfo
  <2>4. ASSUME NEW s \in DOMAIN stream_id_to_attendee_id_, s # e.stream,
               stream_id_to_attendee_id_[s] = a
        PROVE  HasNewStreamId(a, e.stream)
    <3>1. /\ s \in DOMAIN owner /\ e.stream \in DOMAIN owner /\ owner[s] = owner[e.stream]
          /\ s \in Nat /\ e.stream \in Nat
      BY <1>5, <2>4, Owners DEF StreamsInv, Typed, OwnersInv, Known, StreamId
    <3>2. ~(s < e.stream)
      BY <1>1, <2>3, <2>4, <3>1 DEF EndsInv, Alive, Known
    <3> QED
      BY <2>4, <3>1, <3>2 DEF HasNewStreamId
  <2>5. HasNewStreamId(a, e.stream) =>
          \E s \in DOMAIN stream_id_to_attendee_id_' : stream_id_to_attendee_id_'[s] = a
    <3>1. e.stream \in Nat
      BY <1>1, Owners DEF Right, StreamsInv, Typed, StreamId
    <3> QED
      BY <2>1, <3>1 DEF HasNewStreamId
  <2> HIDE DEF a
  <2>6. PresentInv'
    <3>1. ASSUME NEW b
          PROVE  b \in present' <=>
                   \E s \in DOMAIN stream_id_to_attendee_id_' : stream_id_to_attendee_id_'[s] = b
      <4>1. CASE b = a
        BY <1>5, <2>1, <2>2, <2>4, <2>5, <4>1 DEF PresentInv, Known, a
      <4>2. CASE b # a
        BY <1>5, <2>1, <2>2, <4>2 DEF PresentInv, a
      <4> QED
        BY <4>1, <4>2
    <3>2. DOMAIN attendee_id_to_stream_id_' \subseteq present'
      BY <2>1, <2>2 DEF PresentInv
    <3> QED
      BY <3>1, <3>2 DEF PresentInv
  <2> QED
    BY <2>1, <2>6 DEF Known, EndsIt
<1> QED
  BY <1>2, <1>3, <1>4, <1>5

LEMMA PresenceInvStep ==
  StreamsInv /\ PresenceInv /\ [Next]_vars => PresenceInv'
<1> SUFFICES ASSUME StreamsInv, PresenceInv, [Next]_vars, rejoins' = 0
             PROVE  EndsInv' /\ PresentInv'
  BY DEF PresenceInv
<1>0. rejoins \in Nat /\ Typed
  BY DEF StreamsInv, Typed, TypeOK
<1>1. ASSUME rejoins = 0
      PROVE  EndsInv /\ PresentInv
  BY <1>1 DEF PresenceInv
<1>2. UNCHANGED <<adapterVars, observerVars>> /\ PresentInv => PresentInv'
  BY DEF adapterVars, observerVars, PresentInv
<1>3. ASSUME NEW a \in Attendee, NEW muted \in BOOLEAN, Opens(a, muted)
      PROVE  EndsInv' /\ PresentInv'
  <2>1. /\ UNCHANGED <<adapterVars, observerVars>> /\ rejoins = 0
        /\ UNCHANGED stream_id_to_attendee_id_
    BY <1>3 DEF Opens, adapterVars
  <2>2. PICK n, e, s : Opened(a, muted, n, e, s)
    BY <1>0, <1>3, Opening
  <2> QED
    BY <1>1, <1>2, <2>1, <2>2, EndsAfterOpening
<1>4. ASSUME NEW s \in DOMAIN roster, TogglesMute(s)
      PROVE  EndsInv' /\ PresentInv'
  <2>1. /\ UNCHANGED <<adapterVars, observerVars>> /\ rejoins = 0
        /\ UNCHANGED <<stream_id_to_attendee_id_, owner>>
    BY <1>4 DEF TogglesMute, adapterVars
  <2>2. PICK n, e : /\ Queued(e, n) /\ IsInfo(e) /\ DOMAIN roster' = DOMAIN roster
                    /\ e.attendee = NoAttendee /\ e.muted # "absent"
    BY <1>0, <1>4, Toggling
  <2>3. \A t : ~Announces(e, t) /\ ~EndsIt(e, t)
    BY <2>2 DEF Announces, EndsIt
  <2> QED
    BY <1>1, <1>2, <2>1, <2>2, <2>3, EndsWait
<1>5. ASSUME NEW s \in DOMAIN roster, NEW dropped \in BOOLEAN, Ends(s, dropped)
      PROVE  EndsInv' /\ PresentInv'
  <2>1. /\ UNCHANGED <<adapterVars, observerVars>> /\ rejoins = 0
        /\ UNCHANGED <<stream_id_to_attendee_id_, owner>> /\ Oldest(s)
    BY <1>5 DEF Ends, adapterVars
  <2>2. PICK n, e :
           /\ Queued(e, n) /\ IsInfo(e)
           /\ e.stream = s /\ e.attendee = NoAttendee /\ e.muted = "absent"
           /\ DOMAIN roster' = DOMAIN roster \ {s}
    BY <1>0, <1>5, Ending
  <2> QED
    BY <1>1, <1>2, <2>1, <2>2, EndsAfterEnding
<1>6. ASSUME NEW s \in DOMAIN roster, NEW raw \in RawVolume, Speaks(s, raw)
      PROVE  EndsInv' /\ PresentInv'
  <2>1. /\ UNCHANGED <<adapterVars, observerVars>> /\ rejoins = 0
        /\ UNCHANGED <<stream_id_to_attendee_id_, owner, roster>>
    BY <1>6 DEF Speaks, adapterVars
  <2>2. PICK n, e : Queued(e, n) /\ IsLevel(e)
    BY <1>0, <1>6, Speaking
  <2>3. \A t : ~Announces(e, t) /\ ~EndsIt(e, t)
    BY <2>2 DEF Announces, EndsIt, IsLevel
  <2> QED
    BY <1>1, <1>2, <2>1, <2>2, <2>3, EndsWait
<1>7. ~Rejoin
  <2>1. Rejoin => rejoins' = rejoins + 1
    BY DEF Rejoin
  <2> QED
    BY <1>0, <2>1
<1>8. CASE OnAudioStreamIdInfo
  <2>1. UNCHANGED <<owner, roster>> /\ rejoins = 0
    BY <1>8 DEF OnAudioStreamIdInfo, Receive
  <2>2. PICK n, e : /\ Taken(e, n) /\ IsInfo(e)
                    /\ HandleAttendee(e) \/ HandleMuted(e) \/ HandleLeave(e)
    BY <1>0, <1>8, Handling
  <2>3. /\ \A s : Known(s)' => Known(s) \/ Announces(e, s)
        /\ \A s : EndsIt(e, s) => ~Known(s)'
        /\ PresentInv'
    BY <1>1, <2>1, <2>2, PresentHandled
  <2> QED
    BY <1>1, <2>1, <2>2, <2>3, EndsAfterTaking
<1>9. CASE OnAudioMetadata
  <2>1. /\ UNCHANGED <<owner, roster>> /\ rejoins = 0
        /\ UNCHANGED <<stream_id_to_attendee_id_, attendee_id_to_stream_id_, present>>
    BY <1>9 DEF OnAudioMetadata, Receive
  <2>2. PICK n, e : Taken(e, n) /\ IsLevel(e)
    BY <1>0, <1>9, Hearing
  <2>3. /\ \A s : Known(s)' => Known(s) \/ Announces(e, s)
        /\ \A s : EndsIt(e, s) => ~Known(s)'
        /\ PresentInv'
    BY <1>1, <2>1, <2>2 DEF Known, EndsIt, IsLevel, PresentInv
  <2> QED
    BY <1>1, <2>1, <2>2, <2>3, EndsAfterTaking
<1>10. CASE UNCHANGED vars
  <2>1. /\ UNCHANGED <<adapterVars, observerVars>> /\ rejoins = 0
        /\ UNCHANGED <<owner, roster, incoming, stream_id_to_attendee_id_>>
    BY <1>10 DEF vars, serviceVars, adapterVars
  <2>2. EndsInv => EndsInv'
    BY <2>1 DEF EndsInv, Alive, EndComes, Known
  <2> QED
    BY <1>1, <1>2, <2>1, <2>2
<1> QED
  BY <1>3, <1>4, <1>5, <1>6, <1>7, <1>8, <1>9, <1>10 DEF Next, Service

LEMMA PresenceInvHolds == Spec => []PresenceInv
<1>1. Init => PresenceInv
  <2>1. DOMAIN EmptyMap = {} /\ DOMAIN <<>> = {}
    BY EmptyMapType
  <2> QED
    BY <2>1 DEF Init, PresenceInv, EndsInv, PresentInv, Alive, Known
<1> QED
  BY <1>1, StreamsInvHolds, PresenceInvStep, PTL DEF Spec

\* In the first session, once the adapter has handled what was sent, those the
\* observer takes to be present are those of the meeting, however they
\* reconnected (default_audio_frame_adapter.cc, HasNewStreamId).
THEOREM PresenceAgreesHolds == Spec => []PresenceAgrees
<1>1. StreamsInv /\ PresenceInv => PresenceAgrees
  <2> SUFFICES ASSUME StreamsInv, PresenceInv, incoming = <<>>, rejoins = 0
               PROVE  present = InMeeting
    BY DEF PresenceAgrees
  <2>1. DOMAIN incoming = {} /\ EndsInv /\ PresentInv
    BY DEF PresenceInv
  <2>2. \A s : Known(s) <=> s \in DOMAIN roster
    BY <2>1 DEF StreamsInv, OpenInv, Comes, EndsInv, Alive, EndComes
  <2>3. \A s : Known(s) => stream_id_to_attendee_id_[s] = owner[s]
    BY DEF StreamsInv, OwnersInv, Known
  <2>4. \A a : a \in present <=> \E s \in DOMAIN roster : owner[s] = a
    BY <2>1, <2>2, <2>3 DEF PresentInv, Known
  <2> QED
    BY <2>4 DEF InMeeting
<1> QED
  BY <1>1, StreamsInvHolds, PresenceInvHolds, PTL

-----------------------------------------------------------------------------
(* How loud everyone is. *)

Sounds(e, a) == e \in LevelEntry /\ owner[e.stream] = a

\* The stream of the entry at i is known when it is taken: its announcement
\* comes before, its end does not.
InTime(i) ==
  /\ \/ Known(incoming[i].stream)
     \/ \E j \in DOMAIN incoming : j < i /\ Announces(incoming[j], incoming[i].stream)
  /\ \A j \in DOMAIN incoming : j < i => ~EndsIt(incoming[j], incoming[i].stream)

\* The observer has heard the volumes the adapter stores, and a volume on its
\* way will not be skipped.
LevelsInv ==
  /\ heard_volume = attendee_id_to_volume_
  /\ \A i \in DOMAIN incoming : incoming[i] \in LevelEntry => InTime(i)

\* The observer has heard how loud an attendee was last, or that is on its way
\* and nothing comes after it.
VolumeKnown(a) ==
  /\ a \in DOMAIN heard_volume <=> a \in DOMAIN loudness
  /\ a \in DOMAIN loudness => heard_volume[a] = loudness[a]
Listened(a) == VolumeKnown(a) /\ \A i \in DOMAIN incoming : ~Sounds(incoming[i], a)
VolumeComes(a) ==
  \E i \in DOMAIN incoming :
    /\ Sounds(incoming[i], a) /\ a \in DOMAIN loudness
    /\ NormalizeVolume(incoming[i].volume) = loudness[a]
    /\ \A j \in DOMAIN incoming : j > i => ~Sounds(incoming[j], a)
VolumeInv ==
  rejoins = 0 => \A a \in Attendee : Listened(a) \/ VolumeComes(a)

LEMMA LevelsWait ==
  ASSUME LevelsInv, NEW n, NEW e, Queued(e, n),
         e \in LevelEntry => Comes(e.stream) /\ Unended(e.stream),
         UNCHANGED <<stream_id_to_attendee_id_, heard_volume, attendee_id_to_volume_>>
  PROVE  LevelsInv'
<1>1. /\ \A i \in DOMAIN incoming : i \in DOMAIN incoming' /\ incoming'[i] = incoming[i]
      /\ \A i \in DOMAIN incoming' : i \in DOMAIN incoming \/ (i = n + 1 /\ incoming'[i] = e)
      /\ \A i \in DOMAIN incoming : i < n + 1 /\ ~(n + 1 < i)
      /\ n \in Nat
  BY DEF Queued
<1>2. ASSUME NEW i \in DOMAIN incoming', incoming'[i] \in LevelEntry
      PROVE  InTime(i)'
  <2>1. CASE i \in DOMAIN incoming
    <3>1. InTime(i) /\ incoming'[i] = incoming[i]
      BY <1>1, <1>2, <2>1 DEF LevelsInv
    <3>2. \A j \in DOMAIN incoming' : j < i => j \in DOMAIN incoming
      BY <1>1, <2>1
    <3> QED
      BY <1>1, <3>1, <3>2 DEF InTime, Known
  <2>2. CASE i = n + 1 /\ incoming'[i] = e
    <3>1. Comes(e.stream) /\ Unended(e.stream)
      BY <1>2, <2>2
    <3>2. \A j \in DOMAIN incoming' : j < i => j \in DOMAIN incoming
      BY <1>1, <2>2
    <3> QED
      BY <1>1, <2>2, <3>1, <3>2 DEF InTime, Known, Comes, Unended
  <2> QED
    BY <1>1, <2>1, <2>2
<1> QED
  BY <1>2 DEF LevelsInv

LEMMA LevelsNearer ==
  ASSUME LevelsInv, NEW n, NEW e, Taken(e, n),
         \A s : (Known(s) \/ Announces(e, s)) /\ ~EndsIt(e, s) => Known(s)',
         heard_volume' = attendee_id_to_volume_'
  PROVE  LevelsInv'
<1>1. /\ 1 \in DOMAIN incoming /\ incoming[1] = e
      /\ \A i \in DOMAIN incoming' :
           i + 1 \in DOMAIN incoming /\ incoming'[i] = incoming[i + 1] /\ i \in Nat \ {0}
      /\ \A i \in DOMAIN incoming : i \in Nat /\
           (i = 1 \/ (i - 1 \in DOMAIN incoming' /\ incoming'[i - 1] = incoming[i]))
  BY DEF Taken
<1>2. ASSUME NEW i \in DOMAIN incoming', incoming'[i] \in LevelEntry
      PROVE  InTime(i)'
  <2>0. PICK s : s = incoming[i + 1].stream
    OBVIOUS
  <2>1. InTime(i + 1) /\ incoming'[i].stream = s /\ i \in Nat \ {0}
    BY <1>1, <1>2, <2>0 DEF LevelsInv
  <2>2. ~EndsIt(e, s) /\ \A j \in DOMAIN incoming' : j < i => ~EndsIt(incoming'[j], s)
    BY <1>1, <2>0, <2>1 DEF InTime
  <2>3. Known(s)' \/ \E j \in DOMAIN incoming' : j < i /\ Announces(incoming'[j], s)
    <3>1. CASE Known(s) \/ Announces(e, s)
      BY <2>2, <3>1
    <3>2. ASSUME NEW j \in DOMAIN incoming, j < i + 1, Announces(incoming[j], s), j # 1
          PROVE  \E k \in DOMAIN incoming' : k < i /\ Announces(incoming'[k], s)
      <4>1. j - 1 \in DOMAIN incoming' /\ j - 1 < i /\ incoming'[j - 1] = incoming[j]
        BY <1>1, <2>1, <3>2
      <4> QED
        BY <3>2, <4>1
    <3> QED
      BY <1>1, <2>0, <2>1, <3>1, <3>2 DEF InTime
  <2> QED
    BY <2>1, <2>2, <2>3 DEF InTime, Known
<1> QED
  BY <1>2 DEF LevelsInv

\* The volumes of attendees other than the entry's are as they were, and the
\* entry's attendee is heard if its stream is known.
LEMMA VolumeReported ==
  ASSUME TypeOK, LevelsInv, NEW a, NEW volume, ReportVolume(a, volume)
  PROVE  /\ heard_volume' = attendee_id_to_volume_'
         /\ DOMAIN heard_volume' = DOMAIN heard_volume \union {a}
         /\ heard_volume'[a] = volume
         /\ \A b \in DOMAIN heard_volume : b # a => heard_volume'[b] = heard_volume[b]
<1>1. heard_volume = attendee_id_to_volume_
  BY DEF LevelsInv
<1>2. attendee_id_to_volume_' = Put(attendee_id_to_volume_, a, volume)
        /\ heard_volume' \in {heard_volume, Put(heard_volume, a, volume)}
  BY DEF ReportVolume
<1>3. CASE a \in DOMAIN heard_volume /\ heard_volume[a] = volume
  <2>1. heard_volume \in [DOMAIN heard_volume -> Volume]
    BY MapElim DEF TypeOK
  <2>2. Put(heard_volume, a, volume) = heard_volume
    BY <1>3, <2>1 DEF Put
  <2> QED
    BY <1>1, <1>2, <1>3, <2>2
<1>4. CASE ~(a \in DOMAIN heard_volume /\ heard_volume[a] = volume)
  BY <1>1, <1>4 DEF ReportVolume, Put
<1> QED
  BY <1>3, <1>4

\* Nothing changes for an attendee whose volume is not at stake.
SameVolume(map, a) ==
  /\ a \in DOMAIN map' <=> a \in DOMAIN map
  /\ a \in DOMAIN map => map'[a] = map[a]

LEMMA VolumeWaits ==
  ASSUME StreamsInv, NEW n, NEW e, Queued(e, n), UNCHANGED heard_volume,
         \A t \in DOMAIN owner : owner'[t] = owner[t],
         NEW a, ~Sounds(e, a)', SameVolume(loudness, a),
         Listened(a) \/ VolumeComes(a)
  PROVE  Listened(a)' \/ VolumeComes(a)'
<1>1. /\ \A i \in DOMAIN incoming : i \in DOMAIN incoming' /\ incoming'[i] = incoming[i]
      /\ \A i \in DOMAIN incoming' : i \in DOMAIN incoming \/ incoming'[i] = e
  BY DEF Queued
<1>2. \A i \in DOMAIN incoming : Sounds(incoming[i], a)' <=> Sounds(incoming[i], a)
  <2> TAKE i \in DOMAIN incoming
  <2>1. incoming'[i] = incoming[i] /\ incoming[i].stream \in DOMAIN owner
    BY <1>1 DEF StreamsInv, OwnersInv, Right
  <2> QED
    BY <2>1 DEF Sounds
<1>3. \A i \in DOMAIN incoming' : i \notin DOMAIN incoming => ~Sounds(incoming[i], a)'
  BY <1>1 DEF Sounds
<1>4. CASE Listened(a)
  BY <1>2, <1>3, <1>4 DEF Listened, VolumeKnown, SameVolume
<1>5. CASE VolumeComes(a)
  <2>1. PICK i \in DOMAIN incoming :
          /\ Sounds(incoming[i], a) /\ a \in DOMAIN loudness
          /\ NormalizeVolume(incoming[i].volume) = loudness[a]
          /\ \A j \in DOMAIN incoming : j > i => ~Sounds(incoming[j], a)
    BY <1>5 DEF VolumeComes
  <2>2. \A j \in DOMAIN incoming' : j > i => ~Sounds(incoming[j], a)'
    BY <1>2, <1>3, <2>1
  <2>3. /\ i \in DOMAIN incoming' /\ Sounds(incoming[i], a)' /\ a \in DOMAIN loudness'
        /\ NormalizeVolume(incoming'[i].volume) = loudness'[a]
    BY <1>1, <1>2, <2>1 DEF SameVolume
  <2> QED
    BY <2>2, <2>3 DEF VolumeComes
<1> QED
  BY <1>4, <1>5

LEMMA VolumeNearer ==
  ASSUME NEW n, NEW e, Taken(e, n), UNCHANGED <<owner, loudness>>, NEW a,
         ~Sounds(e, a) => SameVolume(heard_volume, a),
         Sounds(e, a) => /\ a \in DOMAIN heard_volume'
                         /\ heard_volume'[a] = NormalizeVolume(e.volume),
         Listened(a) \/ VolumeComes(a)
  PROVE  Listened(a)' \/ VolumeComes(a)'
<1>1. /\ 1 \in DOMAIN incoming /\ incoming[1] = e
      /\ \A i \in DOMAIN incoming' :
           i + 1 \in DOMAIN incoming /\ incoming'[i] = incoming[i + 1] /\ i \in Nat \ {0}
      /\ \A i \in DOMAIN incoming : i \in Nat /\
           (i = 1 \/ (i - 1 \in DOMAIN incoming' /\ incoming'[i - 1] = incoming[i]))
  BY DEF Taken
<1>2. \A i \in DOMAIN incoming' : Sounds(incoming[i], a)' <=> Sounds(incoming[i + 1], a)
  BY <1>1 DEF Sounds
<1>3. CASE Listened(a)
  <2>1. ~Sounds(e, a) /\ \A i \in DOMAIN incoming' : ~Sounds(incoming[i], a)'
    BY <1>1, <1>2, <1>3 DEF Listened
  <2>2. VolumeKnown(a)'
    BY <1>3, <2>1 DEF Listened, VolumeKnown, SameVolume
  <2> QED
    BY <2>1, <2>2 DEF Listened
<1>4. CASE VolumeComes(a)
  <2>1. PICK i \in DOMAIN incoming :
          /\ Sounds(incoming[i], a) /\ a \in DOMAIN loudness
          /\ NormalizeVolume(incoming[i].volume) = loudness[a]
          /\ \A j \in DOMAIN incoming : j > i => ~Sounds(incoming[j], a)
    BY <1>4 DEF VolumeComes
  <2>2. CASE i = 1
    <3>1. VolumeKnown(a)'
      BY <1>1, <2>1, <2>2 DEF VolumeKnown
    <3>2. \A j \in DOMAIN incoming' : ~Sounds(incoming[j], a)'
      BY <1>1, <1>2, <2>1, <2>2
    <3> QED
      BY <3>1, <3>2 DEF Listened
  <2>3. CASE i # 1
    <3>1. i - 1 \in DOMAIN incoming' /\ incoming'[i - 1] = incoming[i] /\ (i - 1) + 1 = i
      BY <1>1, <2>1, <2>3
    <3>2. \A j \in DOMAIN incoming' : j > i - 1 => ~Sounds(incoming[j], a)'
      BY <1>1, <1>2, <2>1
    <3>3. Sounds(incoming[i - 1], a)'
      BY <1>2, <2>1, <3>1
    <3> QED
      BY <2>1, <3>1, <3>2, <3>3 DEF VolumeComes
  <2> QED
    BY <2>2, <2>3
<1> QED
  BY <1>3, <1>4

\* What the entry of a volume does to the volumes the observer has heard.
LEMMA VolumeHandled ==
  ASSUME StreamsInv, LevelsInv, NEW n, NEW e, Taken(e, n), IsLevel(e),
         IF Known(e.stream)
         THEN ReportVolume(stream_id_to_attendee_id_[e.stream], NormalizeVolume(e.volume))
         ELSE UNCHANGED <<attendee_id_to_volume_, heard_volume>>
  PROVE  /\ heard_volume' = attendee_id_to_volume_'
         /\ \A a : ~Sounds(e, a) => SameVolume(heard_volume, a)
         /\ \A a : Sounds(e, a) => /\ Known(e.stream)
                                   /\ a \in DOMAIN heard_volume'
                                   /\ heard_volume'[a] = NormalizeVolume(e.volume)
<1>1. Known(e.stream)
  <2>1. InTime(1) /\ incoming[1] = e /\ \A j \in DOMAIN incoming : ~(j < 1)
    BY DEF Taken, LevelsInv, IsLevel
  <2> QED
    BY <2>1 DEF InTime
<1>2. stream_id_to_attendee_id_[e.stream] = owner[e.stream]
  BY <1>1 DEF StreamsInv, OwnersInv, Known
<1>3. PICK a, volume : a = owner[e.stream] /\ volume = NormalizeVolume(e.volume)
  OBVIOUS
<1>4. /\ heard_volume' = attendee_id_to_volume_'
      /\ DOMAIN heard_volume' = DOMAIN heard_volume \union {a}
      /\ heard_volume'[a] = volume
      /\ \A b \in DOMAIN heard_volume : b # a => heard_volume'[b] = heard_volume[b]
  BY <1>1, <1>2, <1>3, VolumeReported DEF StreamsInv, Typed
<1> QED
  BY <1>1, <1>3, <1>4 DEF Sounds, SameVolume, IsLevel

LEMMA VolumeInvStep ==
  StreamsInv /\ LevelsInv /\ VolumeInv /\ [Next]_vars => LevelsInv' /\ VolumeInv'
<1> SUFFICES ASSUME StreamsInv, LevelsInv, VolumeInv, [Next]_vars
             PROVE  LevelsInv' /\ VolumeInv'
  OBVIOUS
<1>0. Typed /\ rejoins \in Nat
  BY DEF StreamsInv, Typed, TypeOK
<1>1. ASSUME rejoins' = rejoins,
             \A a \in Attendee : Listened(a) \/ VolumeComes(a) =>
                                   Listened(a)' \/ VolumeComes(a)'
      PROVE  VolumeInv'
  BY <1>1 DEF VolumeInv
<1>2. ASSUME NEW n, NEW e, Queued(e, n), e \notin LevelEntry,
             \A t \in DOMAIN owner : owner'[t] = owner[t],
             UNCHANGED <<adapterVars, observerVars, loudness, rejoins>>
      PROVE  LevelsInv' /\ VolumeInv'
  <2>1. UNCHANGED <<stream_id_to_attendee_id_, heard_volume, attendee_id_to_volume_>>
          /\ rejoins' = rejoins
    BY <1>2 DEF adapterVars, observerVars
  <2>2. LevelsInv'
    BY <1>2, <2>1, LevelsWait
  <2>3. \A a : ~Sounds(e, a)' /\ SameVolume(loudness, a)
    BY <1>2 DEF Sounds, SameVolume
  <2> QED
    BY <1>1, <1>2, <2>1, <2>2, <2>3, VolumeWaits
<1>3. ASSUME NEW a \in Attendee, NEW muted \in BOOLEAN, Opens(a, muted)
      PROVE  LevelsInv' /\ VolumeInv'
  <2>1. PICK n, e, s : Opened(a, muted, n, e, s)
    BY <1>0, <1>3, Opening
  <2> QED
    BY <1>2, <1>3, <2>1 DEF Opens, Opened, IsInfo
<1>4. ASSUME NEW s \in DOMAIN roster, TogglesMute(s)
      PROVE  LevelsInv' /\ VolumeInv'
  <2>1. PICK n, e : Queued(e, n) /\ IsInfo(e)
    BY <1>0, <1>4, Toggling
  <2> QED
    BY <1>2, <1>4, <2>1 DEF TogglesMute, IsInfo
<1>5. ASSUME NEW s \in DOMAIN roster, NEW dropped \in BOOLEAN, Ends(s, dropped)
      PROVE  LevelsInv' /\ VolumeInv'
  <2>1. PICK n, e : Queued(e, n) /\ IsInfo(e)
    BY <1>0, <1>5, Ending
  <2> QED
    BY <1>2, <1>5, <2>1 DEF Ends, IsInfo
<1>6. ASSUME NEW s \in DOMAIN roster, NEW raw \in RawVolume, Speaks(s, raw)
      PROVE  LevelsInv' /\ VolumeInv'
  <2>1. PICK n, e : Queued(e, n) /\ IsLevel(e) /\ e.stream = s /\ e.volume = raw
    BY <1>0, <1>6, Speaking
  <2>2. UNCHANGED <<stream_id_to_attendee_id_, heard_volume, attendee_id_to_volume_,
                    owner, rejoins>>
    BY <1>6 DEF Speaks, adapterVars, observerVars
  <2>3. PICK speaker, volume : speaker = owner[s] /\ volume = NormalizeVolume(raw)
    OBVIOUS
  <2>4. /\ DOMAIN loudness' = DOMAIN loudness \union {speaker}
        /\ loudness'[speaker] = volume
        /\ \A a \in DOMAIN loudness : a # speaker => loudness'[a] = loudness[a]
    BY <1>6, <2>3 DEF Speaks, Put
  <2>5. LevelsInv'
    BY <2>1, <2>2, LevelsWait DEF StreamsInv, OpenInv
  <2>6. VolumeComes(speaker)'
    <3>1. /\ n + 1 \in DOMAIN incoming' /\ incoming'[n + 1] = e
          /\ \A j \in DOMAIN incoming' : ~(j > n + 1)
      BY <2>1 DEF Queued
    <3>2. Sounds(incoming[n + 1], speaker)'
      BY <2>1, <2>2, <2>3, <3>1 DEF Sounds, IsLevel
    <3> QED
      BY <2>1, <2>3, <2>4, <3>1, <3>2 DEF VolumeComes
  <2>7. ASSUME NEW a \in Attendee, a # speaker, Listened(a) \/ VolumeComes(a)
        PROVE  Listened(a)' \/ VolumeComes(a)'
    <3>1. ~Sounds(e, a)' /\ SameVolume(loudness, a)
      BY <2>1, <2>2, <2>3, <2>4, <2>7 DEF Sounds, SameVolume
    <3> QED
      BY <2>1, <2>2, <2>7, <3>1, VolumeWaits
  <2> QED
    BY <1>1, <2>2, <2>5, <2>6, <2>7
<1>7. CASE Rejoin
  <2>1. PICK n, open : n \in Nat /\ Rejoined(n, open)
    BY <1>0, <1>7, Rejoining
  <2>2. UNCHANGED <<heard_volume, attendee_id_to_volume_>> /\ rejoins' = rejoins + 1
    BY <1>7 DEF Rejoin, adapterVars
  <2>3. \A i \in DOMAIN incoming' : incoming'[i] \notin LevelEntry
    BY <2>1 DEF Rejoined, IsInfo
  <2> QED
    BY <1>0, <2>2, <2>3 DEF LevelsInv, VolumeInv
<1>8. CASE OnAudioStreamIdInfo
  <2>1. PICK n, e : /\ Taken(e, n) /\ IsInfo(e)
                    /\ HandleAttendee(e) \/ HandleMuted(e) \/ HandleLeave(e)
    BY <1>0, <1>8, Handling
  <2>2. UNCHANGED <<owner, loudness, rejoins, attendee_id_to_volume_, heard_volume>>
    BY <1>8 DEF OnAudioStreamIdInfo, Receive
  <2>3. ASSUME NEW s, Known(s) \/ Announces(e, s), ~EndsIt(e, s)
        PROVE  Known(s)'
    <3>1. CASE HandleAttendee(e)
      BY <2>3, <3>1 DEF HandleAttendee, LearnAttendee, Put, Known, Announces
    <3>2. CASE HandleMuted(e)
      BY <2>3, <3>2 DEF HandleMuted, Known, Announces
    <3>3. CASE HandleLeave(e)
      <4>1. Known(s) /\ e.stream # s
        BY <2>1, <2>3, <3>3 DEF HandleLeave, EndsIt, IsInfo, Announces
      <4> QED
        BY <3>3, <4>1 DEF HandleLeave, Known, Erase, Restrict
    <3> QED
      BY <2>1, <3>1, <3>2, <3>3
  <2>4. LevelsInv'
    <3>1. heard_volume' = attendee_id_to_volume_'
      BY <2>2 DEF LevelsInv
    <3> QED
      BY <2>1, <2>3, <3>1, LevelsNearer
  <2>5. \A a : ~Sounds(e, a) /\ SameVolume(heard_volume, a)
    BY <2>1, <2>2 DEF Sounds, IsInfo, SameVolume
  <2> QED
    BY <1>1, <2>1, <2>2, <2>4, <2>5, VolumeNearer
<1>9. CASE OnAudioMetadata
  <2>1. PICK n, e : /\ Taken(e, n) /\ IsLevel(e)
                    /\ IF Known(e.stream)
                       THEN ReportVolume(stream_id_to_attendee_id_[e.stream],
                                         NormalizeVolume(e.volume))
                       ELSE UNCHANGED <<attendee_id_to_volume_, heard_volume>>
    BY <1>0, <1>9, Hearing
  <2>2. UNCHANGED <<owner, loudness, rejoins, stream_id_to_attendee_id_>>
    BY <1>9 DEF OnAudioMetadata, Receive
  <2>3. /\ heard_volume' = attendee_id_to_volume_'
        /\ \A a : ~Sounds(e, a) => SameVolume(heard_volume, a)
        /\ \A a : Sounds(e, a) => /\ Known(e.stream)
                                  /\ a \in DOMAIN heard_volume'
                                  /\ heard_volume'[a] = NormalizeVolume(e.volume)
    BY <2>1, VolumeHandled
  <2>4. \A s : (Known(s) \/ Announces(e, s)) /\ ~EndsIt(e, s) => Known(s)'
    BY <2>1, <2>2 DEF Known, Announces, IsLevel
  <2>5. LevelsInv'
    BY <2>1, <2>3, <2>4, LevelsNearer
  <2> QED
    BY <1>1, <2>1, <2>2, <2>3, <2>5, VolumeNearer
<1>10. CASE UNCHANGED vars
  <2>1. UNCHANGED <<stream_id_to_attendee_id_, heard_volume, attendee_id_to_volume_,
                    owner, loudness, rejoins, incoming>>
    BY <1>10 DEF vars, adapterVars, observerVars, serviceVars
  <2>2. LevelsInv'
    BY <2>1 DEF LevelsInv, InTime, Known
  <2> QED
    BY <2>1, <2>2 DEF VolumeInv, Listened, VolumeKnown, VolumeComes, Sounds
<1> QED
  BY <1>3, <1>4, <1>5, <1>6, <1>7, <1>8, <1>9, <1>10 DEF Next, Service

LEMMA VolumeInvHolds == Spec => [](LevelsInv /\ VolumeInv)
<1>1. Init => LevelsInv /\ VolumeInv
  <2>1. DOMAIN EmptyMap = {} /\ DOMAIN <<>> = {}
    BY EmptyMapType
  <2> QED
    BY <2>1 DEF Init, LevelsInv, VolumeInv, Listened, VolumeKnown
<1> QED
  BY <1>1, StreamsInvHolds, VolumeInvStep, PTL DEF Spec

\* In the first session, once the adapter has handled what was sent, the
\* observer has the latest volume of everyone who has spoken: none is skipped
\* because its stream is not known, and none is kept back that differs from
\* the one before (default_audio_frame_adapter.cc, OnAudioMetadataFrame).
THEOREM VolumeAgreesHolds == Spec => []VolumeAgrees
<1>1. TypeOK /\ VolumeInv => VolumeAgrees
  <2> SUFFICES ASSUME TypeOK, VolumeInv, incoming = <<>>, rejoins = 0
               PROVE  heard_volume = loudness
    BY DEF VolumeAgrees
  <2>1. \A a \in Attendee : VolumeKnown(a)
    BY DEF VolumeInv, Listened, VolumeComes
  <2>2. /\ DOMAIN heard_volume \subseteq Attendee /\ DOMAIN loudness \subseteq Attendee
        /\ heard_volume \in [DOMAIN heard_volume -> Volume]
        /\ loudness \in [DOMAIN loudness -> Volume]
    BY MapElim DEF TypeOK
  <2>3. DOMAIN heard_volume = DOMAIN loudness
    BY <2>1, <2>2 DEF VolumeKnown
  <2>4. \A a \in DOMAIN loudness : heard_volume[a] = loudness[a]
    BY <2>1, <2>2 DEF VolumeKnown
  <2> QED
    BY <2>2, <2>3, <2>4
<1> QED
  BY <1>1, TypeCorrect, VolumeInvHolds, PTL

-----------------------------------------------------------------------------
\* In the first session a mute or a volume is reported of attendees only while
\* they are present: of one whose stream is announced in the same entry, or
\* known, and an attendee with a known stream has joined and not left.
THEOREM HeardOfPresentHolds == Spec => HeardOfPresent
<1> DEFINE Silent == \A a \in Attendee :
                       rejoins' = 0 /\ a \notin present' =>
                         /\ heard_muted'[a] = heard_muted[a]
                         /\ VolumeHeard(a)' = VolumeHeard(a)
<1>1. StreamsInv /\ PresenceInv /\ HeardInv /\ LevelsInv /\ [Next]_vars => [Silent]_vars
  <2> SUFFICES ASSUME StreamsInv, PresenceInv, HeardInv, LevelsInv, Next,
                      NEW a \in Attendee, rejoins' = 0, a \notin present'
               PROVE  heard_muted'[a] = heard_muted[a] /\ VolumeHeard(a)' = VolumeHeard(a)
    OBVIOUS
  <2>0. Typed /\ ~Rejoin /\ PresentInv
    <3>1. Typed
      BY DEF StreamsInv
    <3>2. ASSUME Rejoin PROVE FALSE
      <4>1. rejoins' = rejoins + 1
        BY <3>2 DEF Rejoin
      <4>2. rejoins \in Nat
        BY <3>1, RosterBoundsAssumption DEF Typed, TypeOK, RosterBoundsAssumption
      <4> QED
        BY <4>1, <4>2
    <3>3. UNCHANGED rejoins
      BY <3>2 DEF Next, Service, Opens, TogglesMute, Ends, Speaks,
                  OnAudioStreamIdInfo, OnAudioMetadata, Receive
    <3> QED
      BY <3>1, <3>2, <3>3 DEF PresenceInv
  <2>1. UNCHANGED heard_volume => VolumeHeard(a)' = VolumeHeard(a)
    BY DEF VolumeHeard
  <2>2. CASE Service
    <3>1. UNCHANGED <<heard_volume, heard_muted>>
      BY <2>2 DEF Service, Opens, TogglesMute, Ends, Speaks, observerVars
    <3> QED
      BY <2>1, <3>1
  <2>3. CASE OnAudioStreamIdInfo
    <3>1. PICK n, e : /\ Taken(e, n) /\ IsInfo(e)
                      /\ HandleAttendee(e) \/ HandleMuted(e) \/ HandleLeave(e)
      BY <2>0, <2>3, Handling
    <3>2. UNCHANGED heard_volume
      BY <2>3 DEF OnAudioStreamIdInfo
    <3>3. Right(e)
      BY <3>1 DEF StreamsInv, OwnersInv, Taken
    <3>4. CASE HandleAttendee(e)
      <4>1. e.attendee \in present' /\ a # e.attendee
        BY <2>0, <3>4 DEF HandleAttendee, LearnAttendee, PresentInv
      <4>2. ~Mutes(e, a)
        BY <3>1, <3>3, <3>4, <4>1 DEF Mutes, Right, HandleAttendee
      <4> QED
        BY <2>1, <3>1, <3>2, <4>1, <4>2, MuteHandled
    <3>5. CASE HandleMuted(e)
      <4>1. Known(e.stream) => ~Mutes(e, a)
        BY <2>0, <3>5 DEF HandleMuted, PresentInv, Known, Mutes, StreamsInv, OwnersInv
      <4>3. a # e.attendee
        BY <3>5, NoAttendeeAssumption DEF HandleMuted, NoAttendeeAssumption
      <4>2. ~Known(e.stream) => UNCHANGED heard_muted
        BY <3>5 DEF HandleMuted
      <4> QED
        BY <2>1, <3>1, <3>2, <4>1, <4>2, <4>3, MuteHandled
    <3>6. CASE HandleLeave(e)
      BY <2>1, <3>2, <3>6 DEF HandleLeave
    <3> QED
      BY <3>1, <3>4, <3>5, <3>6
  <2>4. CASE OnAudioMetadata
    <3>1. PICK n, e : /\ Taken(e, n) /\ IsLevel(e)
                      /\ IF Known(e.stream)
                         THEN ReportVolume(stream_id_to_attendee_id_[e.stream],
                                           NormalizeVolume(e.volume))
                         ELSE UNCHANGED <<attendee_id_to_volume_, heard_volume>>
      BY <2>0, <2>4, Hearing
    <3>2. UNCHANGED <<present, heard_muted>>
      BY <2>4 DEF OnAudioMetadata
    <3>3. /\ \A b : ~Sounds(e, b) => SameVolume(heard_volume, b)
          /\ \A b : Sounds(e, b) => Known(e.stream)
      BY <3>1, VolumeHandled
    <3>4. ~Sounds(e, a)
      BY <2>0, <3>2, <3>3 DEF PresentInv, Known, Sounds, StreamsInv, OwnersInv
    <3> QED
      BY <3>2, <3>3, <3>4 DEF SameVolume, VolumeHeard
  <2> QED
    BY <2>0, <2>2, <2>3, <2>4 DEF Next
<1>2. Init => HeardInv /\ MuteInv
  BY EmptyMapType DEF Init, HeardInv, Believes, LastMuted, MuteInv
<1> QED
  BY <1>1, <1>2, StreamsInvHolds, PresenceInvHolds, MuteInvStep, VolumeInvHolds, PTL
  DEF Spec, HeardOfPresent
=============================================================================
