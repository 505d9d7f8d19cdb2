----------------------------- MODULE AudioRoster -----------------------------
(***************************************************************************)
(* DefaultAudioFrameAdapter (src/audio_video/                              *)
(* default_audio_frame_adapter.cc): who is in the meeting, who is muted    *)
(* and how loud everyone is, as the AUDIO_STREAM_ID_INFO and               *)
(* AUDIO_METADATA frames of the audio service tell it.                     *)
(*                                                                         *)
(* The adapter handles a frame entry by entry and keeps nothing between    *)
(* two entries but its maps, so an action is one pass of its loop, and the *)
(* frames on their way are the sequence of their entries.  It belongs to   *)
(* the client and survives the end of a session with its maps.             *)
(***************************************************************************)
EXTENDS Naturals, Sequences, FiniteSets, StdMap

CONSTANTS
  Attendee,
  NoAttendee,    \* has_attendee_id() is false
  RawVolume,     \* the volumes the service reports, in decibels below zero
  MaxStream,     \* bound: audio streams ever opened in the meeting
  MaxIncoming,   \* bound: entries on their way
  MaxRejoins     \* bound: sessions after the first

ASSUME NoAttendeeAssumption == NoAttendee \notin Attendee
ASSUME RawVolumeAssumption == RawVolume \subseteq Nat
ASSUME RosterBoundsAssumption ==
  MaxStream \in Nat /\ MaxIncoming \in Nat /\ MaxRejoins \in Nat

VARIABLES
  \* of the adapter (stream_id_to_external_user_id_ has the domain of the first)
  stream_id_to_attendee_id_,
  attendee_id_to_stream_id_,
  attendee_id_to_muted_,
  attendee_id_to_volume_,
  \* what the observer has been told; its entry of an attendee begins, unmuted,
  \* with OnAttendeeJoined, and all of them with the session
  present,       \* OnAttendeeJoined, less OnAttendeeLeft and OnAttendeeDropped
  heard_muted,   \* OnAttendeeAudioMuted, OnAttendeeAudioUnmuted
  heard_volume,  \* OnVolumeUpdates: the last of each, kept over sessions
  forgotten,     \* history: attendees whose entry has begun anew after a mute
                 \* report, with no mute or unmute told of since
  \* of the audio service
  owner,         \* whose stream each id ever given is
  roster,        \* the open streams: whether they are muted
  loudness,      \* the last volume reported for an attendee
  incoming,      \* entries the adapter has not handled yet
  rejoins

adapterVars  == <<stream_id_to_attendee_id_, attendee_id_to_stream_id_,
                  attendee_id_to_muted_, attendee_id_to_volume_>>
observerVars == <<present, heard_muted, heard_volume, forgotten>>
serviceVars  == <<owner, roster, loudness, incoming, rejoins>>
vars == <<adapterVars, observerVars, serviceVars>>

StreamId == 1 .. MaxStream

\* Mutant: the result is not clipped.
NormalizeVolumeUnclipped(raw) == 42 - raw

\* NormalizeVolume in 28ths: full from -14 dB on, none from -42 dB down.
NormalizeVolume(raw) == IF raw < 14 THEN 28 ELSE IF raw > 42 THEN 0 ELSE 42 - raw
Volume == 0 .. 28

\* An entry of AUDIO_STREAM_ID_INFO: any field but the stream id may be absent.
Info(s, a, m, d) ==
  [stream |-> s, attendee |-> a, muted |-> m, dropped |-> d]
InfoEntry == [stream : StreamId, attendee : Attendee \union {NoAttendee},
              muted : {"absent", "yes", "no"}, dropped : BOOLEAN]

\* An entry of AUDIO_METADATA.
Level(s, raw) == [stream |-> s, volume |-> raw]
LevelEntry == [stream : StreamId, volume : RawVolume]

Entry == InfoEntry \union LevelEntry

TypeOK ==
  /\ stream_id_to_attendee_id_ \in Map(StreamId, Attendee)
  /\ attendee_id_to_stream_id_ \in Map(Attendee, StreamId)
  /\ attendee_id_to_muted_ \in Map(Attendee, BOOLEAN)
  /\ attendee_id_to_volume_ \in Map(Attendee, Volume)
  /\ present \subseteq Attendee
  /\ heard_muted \in [Attendee -> BOOLEAN]
  /\ heard_volume \in Map(Attendee, Volume)
  /\ forgotten \subseteq Attendee
  /\ owner \in Seq(Attendee) /\ Len(owner) <= MaxStream
  /\ roster \in Map(StreamId, BOOLEAN)
  /\ loudness \in Map(Attendee, Volume)
  /\ incoming \in Seq(Entry)
  /\ rejoins \in 0 .. MaxRejoins

Init ==
  /\ stream_id_to_attendee_id_ = EmptyMap
  /\ attendee_id_to_stream_id_ = EmptyMap
  /\ attendee_id_to_muted_ = EmptyMap
  /\ attendee_id_to_volume_ = EmptyMap
  /\ present = {}
  /\ heard_muted = [a \in Attendee |-> FALSE]
  /\ heard_volume = EmptyMap
  /\ forgotten = {}
  /\ owner = <<>>
  /\ roster = EmptyMap
  /\ loudness = EmptyMap
  /\ incoming = <<>>
  /\ rejoins = 0

-----------------------------------------------------------------------------
(* The audio service (external).  Its entries arrive in the order it sends   *)
(* them and it never uses a stream id twice.  An attendee that reconnects    *)
(* has two streams for a while; the older one ends first.                    *)

YesNo(b) == IF b THEN "yes" ELSE "no"
Newest(s) == \A t \in DOMAIN roster : owner[t] = owner[s] => t <= s
Oldest(s) == \A t \in DOMAIN roster : owner[t] = owner[s] => s <= t

Sends(entry) ==
  /\ Len(incoming) < MaxIncoming
  /\ incoming' = Append(incoming, entry)

Opens(a, muted) ==
  /\ Len(owner) < MaxStream
  /\ owner' = Append(owner, a)
  /\ roster' = Put(roster, Len(owner) + 1, muted)
  /\ Sends(Info(Len(owner) + 1, a, YesNo(muted), FALSE))
  /\ UNCHANGED <<adapterVars, observerVars, loudness, rejoins>>

TogglesMute(s) ==
  /\ Newest(s)
  /\ roster' = [roster EXCEPT ![s] = ~@]
  /\ Sends(Info(s, NoAttendee, YesNo(~roster[s]), FALSE))
  /\ UNCHANGED <<adapterVars, observerVars, owner, loudness, rejoins>>

Ends(s, dropped) ==
  /\ Oldest(s)
  /\ roster' = Erase(roster, {s})
  /\ Sends(Info(s, NoAttendee, "absent", dropped))
  /\ UNCHANGED <<adapterVars, observerVars, owner, loudness, rejoins>>

Speaks(s, raw) ==
  /\ Newest(s)
  /\ loudness' = Put(loudness, owner[s], NormalizeVolume(raw))
  /\ Sends(Level(s, raw))
  /\ UNCHANGED <<adapterVars, observerVars, owner, roster, rejoins>>

\* The client comes back with a new session.  The observer starts with nobody
\* present and nobody muted, the adapter with the maps it has; the service
\* announces the open streams, oldest first.
Rejoin ==
  /\ rejoins < MaxRejoins
  /\ rejoins' = rejoins + 1
  /\ present' = {}
  /\ heard_muted' = [a \in Attendee |-> FALSE]
  /\ forgotten' = forgotten \union DOMAIN attendee_id_to_muted_
  /\ \E open \in [1 .. Cardinality(DOMAIN roster) -> DOMAIN roster] :
       /\ \A i, j \in DOMAIN open : i < j => open[i] < open[j]
       /\ incoming' = [i \in DOMAIN open |->
            Info(open[i], owner[open[i]], YesNo(roster[open[i]]), FALSE)]
  /\ UNCHANGED <<adapterVars, heard_volume, owner, roster, loudness>>

-----------------------------------------------------------------------------
(* The adapter. *)

Known(s) == s \in DOMAIN stream_id_to_attendee_id_

\* Whether the attendee was last reported muted; never reported is not muted.
LastMuted(a) == a \in DOMAIN attendee_id_to_muted_ /\ attendee_id_to_muted_[a]

\* Mutant: the first report on an attendee goes unmentioned.
ReportMuteOfSeen(a, muted, heard, missed) ==
  /\ IF LastMuted(a) = muted \/ a \notin DOMAIN attendee_id_to_muted_
     THEN heard_muted' = heard /\ forgotten' = missed
     ELSE /\ heard_muted' = [heard EXCEPT ![a] = muted]
          /\ forgotten' = missed \ {a}
  /\ attendee_id_to_muted_' = Put(attendee_id_to_muted_, a, muted)

\* The part of the loop that stores the mute state and tells of a change, to
\* an observer that has heard so much and missed so much.
ReportMute(a, muted, heard, missed) ==
  /\ IF LastMuted(a) = muted
     THEN heard_muted' = heard /\ forgotten' = missed
     ELSE /\ heard_muted' = [heard EXCEPT ![a] = muted]
          /\ forgotten' = missed \ {a}
  /\ attendee_id_to_muted_' = Put(attendee_id_to_muted_, a, muted)

\* Mutant: the new stream of an attendee already seen is not stored.
LearnAttendeeOnly(info) ==
  /\ present' = IF info.attendee \in DOMAIN attendee_id_to_stream_id_
                THEN present ELSE present \union {info.attendee}
  /\ attendee_id_to_stream_id_' = Put(attendee_id_to_stream_id_, info.attendee, info.stream)
  /\ IF info.attendee \in DOMAIN attendee_id_to_stream_id_
     THEN UNCHANGED stream_id_to_attendee_id_
     ELSE stream_id_to_attendee_id_' =
            Put(stream_id_to_attendee_id_, info.stream, info.attendee)

\* The part that stores a stream's attendee and tells of one not seen before.
LearnAttendee(info) ==
  /\ present' = IF info.attendee \in DOMAIN attendee_id_to_stream_id_
                THEN present ELSE present \union {info.attendee}
  /\ attendee_id_to_stream_id_' = Put(attendee_id_to_stream_id_, info.attendee, info.stream)
  /\ stream_id_to_attendee_id_' = Put(stream_id_to_attendee_id_, info.stream, info.attendee)

Joins(a) == a \notin DOMAIN attendee_id_to_stream_id_

\* What the observer knows of the mutes, its entry begun if the attendee joins.
HeardAfter(a) ==
  IF Joins(a) THEN [heard_muted EXCEPT ![a] = FALSE] ELSE heard_muted
ForgottenAfter(a) ==
  IF Joins(a) THEN forgotten \union ({a} \cap DOMAIN attendee_id_to_muted_)
  ELSE forgotten

HandleAttendee(info) ==
  /\ info.attendee # NoAttendee
  /\ LearnAttendee(info)
  /\ \/ /\ info.muted = "absent"
        /\ heard_muted' = HeardAfter(info.attendee)
        /\ forgotten' = ForgottenAfter(info.attendee)
        /\ UNCHANGED attendee_id_to_muted_
     \/ /\ info.muted # "absent"
        /\ ReportMute(info.attendee, info.muted = "yes",
                      HeardAfter(info.attendee), ForgottenAfter(info.attendee))

\* A mute entry of an unknown stream is skipped.
HandleMuted(info) ==
  /\ info.attendee = NoAttendee /\ info.muted # "absent"
  /\ IF Known(info.stream)
     THEN ReportMute(stream_id_to_attendee_id_[info.stream], info.muted = "yes",
                     heard_muted, forgotten)
     ELSE UNCHANGED <<attendee_id_to_muted_, heard_muted, forgotten>>
  /\ UNCHANGED <<stream_id_to_attendee_id_, attendee_id_to_stream_id_, present>>

\* Mutant: the comparison of the stream ids is turned round.
HasOldStreamId(a, s) ==
  \E t \in DOMAIN stream_id_to_attendee_id_ :
    stream_id_to_attendee_id_[t] = a /\ t < s

HasNewStreamId(a, s) ==
  \E t \in DOMAIN stream_id_to_attendee_id_ :
    stream_id_to_attendee_id_[t] = a /\ t > s

\* The attendee's own entry goes whichever of its streams has ended.
\* OnAttendeeLeft and OnAttendeeDropped differ in name only.
HandleLeave(info) ==
  /\ info.attendee = NoAttendee /\ info.muted = "absent"
  /\ IF Known(info.stream)
     THEN LET a == stream_id_to_attendee_id_[info.stream]
          IN /\ stream_id_to_attendee_id_' =
                  Erase(stream_id_to_attendee_id_, {info.stream})
             /\ attendee_id_to_stream_id_' =
                  Erase(attendee_id_to_stream_id_, {a})
             /\ present' = IF HasNewStreamId(a, info.stream)
                           THEN present ELSE present \ {a}
     ELSE UNCHANGED <<stream_id_to_attendee_id_, attendee_id_to_stream_id_, present>>
  /\ UNCHANGED <<attendee_id_to_muted_, heard_muted, forgotten>>

Receive(entries) ==
  /\ incoming # <<>> /\ Head(incoming) \in entries
  /\ incoming' = Tail(incoming)
  /\ UNCHANGED <<owner, roster, loudness, rejoins>>

OnAudioStreamIdInfo ==
  /\ Receive(InfoEntry)
  /\ \/ HandleAttendee(Head(incoming))
     \/ HandleMuted(Head(incoming))
     \/ HandleLeave(Head(incoming))
  /\ UNCHANGED <<attendee_id_to_volume_, heard_volume>>

\* Mutant: only an attendee's first volume counts as a change.
ReportVolumeOnce(a, volume) ==
  /\ heard_volume' = IF a \in DOMAIN attendee_id_to_volume_
                     THEN heard_volume ELSE Put(heard_volume, a, volume)
  /\ attendee_id_to_volume_' = Put(attendee_id_to_volume_, a, volume)

\* Only a volume that differs from the stored one is reported.
ReportVolume(a, volume) ==
  /\ heard_volume' = IF /\ a \in DOMAIN attendee_id_to_volume_
                        /\ attendee_id_to_volume_[a] = volume
                     THEN heard_volume ELSE Put(heard_volume, a, volume)
  /\ attendee_id_to_volume_' = Put(attendee_id_to_volume_, a, volume)

\* The volumes of a stream that is not known are skipped.  Signal strengths
\* are handled in the same way and not modelled.
OnAudioMetadata ==
  /\ Receive(LevelEntry)
  /\ LET level == Head(incoming)
     IN IF Known(level.stream)
        THEN ReportVolume(stream_id_to_attendee_id_[level.stream],
                          NormalizeVolume(level.volume))
        ELSE UNCHANGED <<attendee_id_to_volume_, heard_volume>>
  /\ UNCHANGED <<stream_id_to_attendee_id_, attendee_id_to_stream_id_,
                 attendee_id_to_muted_, present, heard_muted, forgotten>>

-----------------------------------------------------------------------------
Service ==
  \/ \E a \in Attendee, muted \in BOOLEAN : Opens(a, muted)
  \/ \E s \in DOMAIN roster : \/ TogglesMute(s)
                              \/ \E dropped \in BOOLEAN : Ends(s, dropped)
                              \/ \E raw \in RawVolume : Speaks(s, raw)

Next == Service \/ Rejoin \/ OnAudioStreamIdInfo \/ OnAudioMetadata

Spec == Init /\ [][Next]_vars

-----------------------------------------------------------------------------
(* Properties. *)

InMeeting == {owner[s] : s \in DOMAIN roster}

\* Once the adapter has caught up, it knows the streams that are open and
\* whose they are, in whatever session they were opened.
OpenStreamsKnown ==
  incoming = <<>> =>
    \A s \in DOMAIN roster : Known(s) /\ stream_id_to_attendee_id_[s] = owner[s]

\* In the client's first session, the attendees the observer takes to be
\* present are those of the meeting, however they reconnected: the end of an
\* old stream does not make an attendee leave who has a new one.
PresenceAgrees ==
  incoming = <<>> /\ rejoins = 0 => present = InMeeting

\* Once the adapter has caught up, the observer takes nobody to be muted who is
\* not, and its idea is right for everyone but those of whom it has heard no
\* mute or unmute since it began their entry anew: the adapter tells of changes
\* only and never forgets a mute, so one who comes back as muted as he left, or
\* was in the session before, is taken to be unmuted.
MuteAgrees ==
  incoming = <<>> =>
    \A s \in DOMAIN roster :
      Newest(s) =>
        /\ heard_muted[owner[s]] => roster[s]
        /\ owner[s] \notin forgotten => heard_muted[owner[s]] = roster[s]

\* The observer has the latest volume of everyone who has spoken.
VolumeAgrees == incoming = <<>> /\ rejoins = 0 => heard_volume = loudness

VolumeHeard(a) == IF a \in DOMAIN heard_volume THEN {heard_volume[a]} ELSE {}

\* A mute or a volume is reported of attendees only while they are present.
HeardOfPresent ==
  [][\A a \in Attendee :
       rejoins' = 0 /\ a \notin present' =>
         /\ heard_muted'[a] = heard_muted[a]
         /\ VolumeHeard(a)' = VolumeHeard(a)]_vars
=============================================================================
