# Verification of the Amazon Chime SDK signaling client for C++

TLA+ models of `src/chime-sdk-signaling-cpp`, model-checked with TLC, and
theorems about them checked with TLAPS. Paths below are relative to
`src/chime-sdk-signaling-cpp`.

## 1. The system

A program that joins a Chime meeting owns a `SignalingClient`, which talks
protobuf frames over one websocket to the signaling server. The program calls
the client and is called back through `SignalingClientObserver`; what it does
with SDP and media is its own and WebRTC's business.

| Component | State it keeps | Operations | Model |
|---|---|---|---|
| `LibwebsocketsWebsocket` (`src/websocket/libwebsockets_websocket.cc`) | `context_`, `wsi_`, retry timer, `connection_retry_count_`, `message_queue_`, `received_data_buffer_` | `Connect`, `SendBinary`, `Close`, `Poll`, five callback reasons, `RetryConnect` | `LwsWebsocket` |
| `WebsocketSignalingTransport` (`src/transport/websocket_signaling_transport.cc`) | `is_stopped_` | `Start`, `Stop`, `SendSignalFrame`, four callbacks, `Run`, `StopRun` | `SignalingTransport` |
| `DefaultSignalingClient`, session (`src/signaling/default_signaling_client.cc`) | `state_`, `is_joined_`, `has_received_first_index_`, TURN expiry | `Start`, `Stop`, `SendUpdates`, `SendDataMessage`, connected, error, closed, frame received | `SignalingClient` |
| `DefaultSignalingClient`, remote video | `attendee_id_to_internal_configurations_`, `remote_video_sources_` | `HandleIndexFrame`, `UpdateRemoteVideoSubscriptions`, receive streams of `SendSubscribe`, `Close` | `RemoteVideo` |
| `DefaultAudioFrameAdapter` (`src/audio_video/default_audio_frame_adapter.cc`) | six maps between streams, attendees, mute and levels | `OnAudioStreamIdInfo`, `OnAudioMetadata` | `AudioRoster` |
| `DefaultSignalingClient`, local media | `local_audio_sources_`, `local_video_sources_`, `is_muted_`, `sdp_` | add, update, remove, `SetMute`, send streams of `SendSubscribe`, `HandleSubAckFrame`, `Close` | `LocalMedia` |
| `DefaultSignalingClient`, observers | `observers_` | add, remove, `NotifySignalingObserver` | `ObserverList` |
| `DefaultSignalingClient`, data messages | none | validation, `HandleDataMessageFrame` | not modelled |
| `Runnable` (`src/utils/runnable.h`) | `running_`, `run_thread_` | `Run`, `StopRun`, destructor | `Runnable` |
| `SDPUtils` (`src/utils/sdp_utils.h`) | none | `ParseSDP` | in `LocalMedia` |
| Demo `MeetingController` and observers (`demo/shared`) | `updates_in_flight_`, transceivers, subscriptions | offers, answers, ICE candidates, video events, start and stop | `Negotiation` |
| Factories, configuration, logging, certificates, protobuf, demo command lines | none that matters | construction and input/output | not modelled |

### How they interact

`Start()` goes down client → transport → websocket, which creates an lws context
and a socket. From then on everything comes up from `lws_service` in `Poll()`,
usually on the run thread: ESTABLISHED makes the client send JOIN, RECEIVE hands
it a frame, a connection error or CLOSED makes it tell its observers that it has
stopped. A frame handler calls down again (LEAVE_ACK closes the transport) and
up (observers are called in the middle of handlers, and may call the client). The
application's thread calls `Start`, `Stop`, `SendUpdates` and so on at any time;
nothing locks. A failed connection attempt is retried by a timer inside the
websocket, of which neither the transport nor the client is told.

### What is hard in it, and what makes it correct

- *Three state machines that must agree.* `state_`, `is_stopped_` and the socket
  are changed in different layers at different moments. Correct means: a client
  that counts itself connected has an open socket of its own
  (`ConnectedMeansOpen`), `is_joined_` is about this socket
  (`JoinedOnThisSocket`), a transport that runs has a socket
  or has reported an error (`DeadHasReported`), and the retries of a run never compete
  with its connection (`FirstRunKeepsSocket`).
- *A queue between two threads.* One message is written per writable callback.
  Correct: LEAVE is never lost (`LeaveUnderway`), the dialogue is JOIN, requests,
  LEAVE (`CleanDialogue`).
- *Errors followed by closes.* A failed write produces an error and later a
  close, with whatever the application does in between. Correct: the observer
  still sees at most one start between two orderly stops (`SignalingLifecycle`).
- *State that outlives a session.* The client and its adapter are reused after a
  stop. Correct: fragments, video maps and rosters of an old session do not leak
  into a new one (`MessagesReassembled`, `LeftIsForgotten`, `AvailableAgrees`,
  `PresenceAgrees`).
- *A thread that is joined from everywhere.* `Run`, `StopRun`, the destructor and
  callbacks share `running_` and `run_thread_`. Correct: one thread polls at most
  (`OnePoller`), none once `StopRun` has returned, nor while the members of the
  websocket are destroyed one after the other (`StoppedMeansQuiet`), and `StopRun`
  returns as long as the context has something that wakes it (`StopRunReturns`).
- *Stream ids by position.* The server's allocations are matched with local mids
  by their place in the answer, the streams the client asks for are listed in the order
  of the offer's sections, and the client's mute state travels in two kinds of frame.
  Correct: `LocalStreamsAgree`, `NamesOwnStreams`, `SubscriptionsWanted`,
  `MuteReachesServer`.
- *A negotiation that feeds itself.* In the demo, candidates, videos, the camera and
  answers all ask for updates, one of which may be in flight. Correct: one at a time
  (`OneUpdateAtATime`), never none for ever (`FlightEnds`), an end
  (`NegotiationSettles`) at which every video whose transceiver lives is asked for
  (`QuietMeansSubscribed`).
- *Answers.* A client's `Start()` and `Stop()` come to their callbacks
  (`StartAnswered`, `StopAnswered`).
- *Notifications of changes only.* Rosters, mutes, volumes and video sources are
  told as differences. Correct: they add up to the truth
  (`PresenceAgrees`, `MuteAgrees`, `VolumeAgrees`, `AvailableAgrees`).

`PROJECT.json` lists every hazard at its line with the properties that watch it.

## 2. The modules

    LwsWebsocket <- SignalingTransport <- SignalingClient <- SignalingSession
                                         SignalingLifecycle <--'  (refined)
    StdMap <- RemoteVideo, AudioRoster, LocalMedia, Negotiation
    Runnable      ObserverList

An arrow is EXTENDS. `MC*` modules hold the instances for TLC, `*_proofs` the
theorems, each about the module it is named after; `StdMap_proofs` says what the
map operations do and is extended by those that need it, and `NegotiationQuiet_proofs`
goes on from `Negotiation_proofs`.

**`LwsWebsocket`, `SignalingTransport`, `SignalingClient`** contain one operator
per method or callback, each describing what the code does to the variables of
its own object. They have no `Next`: the call `observer_->OnWebsocketError(...)`
is a conjunction of the operators of the layers it passes through, which
**`SignalingSession`** makes. Its actions are the calls of the application
(`App*`), the callbacks of libwebsockets (`Lws*`, each with everything it causes
in all layers), the server (`Server*`, external) and the passing of the TURN
credentials' ttl.

The socket behind `wsi_` and `context_` is the variable `link`. Four things need
explaining:

- `stale`: `Connect` overwrites `context_` (`libwebsockets_websocket.cc:188`) and
  destroys nothing. `Poll` reads `context_` when it is called, so the old context is
  heard of only from a service call that was already running when another thread, or
  the observer within a callback, called `Start()`. Until that call returns, which it
  need not do soon, it may still report what it finds: the CLOSED of a socket that was
  closing, the retry timer, an attempt's error or success, a fragment (`stale_inbound`),
  a writable socket. These are the `LwsStale*` actions; they act on the same object,
  on its queue and buffer and on the new `wsi_`. The new context is serviced only after
  the call has returned (`LwsStaleReturns`).
- `overheard`: a callback of a replaced socket that was still alive has been taken
  for one of the present socket's. Nothing in the code tells the two apart, and the
  properties that relate the client to its socket make no claim from then on.
- `orphaned`: `Connect` has replaced a socket that was alive, because the transport
  believed that it had stopped while the websocket was retrying.
- `owed`: the calls of the application whose documented callback has not come.

Of a run that is the client's first, `FirstRunKeepsSocket` says that none of the first
three happens; the retry timer is one-shot and armed only by a failed attempt.

`Write` is the callback WRITEABLE, which libwebsockets makes when it was asked to and
may make unasked: it pops a message if there is one (`:145`) and does nothing otherwise.
A `Close()` destroys the context, which in libwebsockets reports CLOSED for an
open socket; the model delivers it as a later step. `connection_retry_count_` has
no initialiser, so it starts with any value of `InitialRetryCounts`; values beyond
`ConcealCount + 1` behave like that one. A frame arrives whole or in two fragments.

**`SignalingLifecycle`** is what an observer may rely on: a start comes only when
none has come since the last orderly stop. `SignalingSession` implements it under
`spent <- has_received_first_index_`.

**`RemoteVideo`** has the two maps of the client that index frames and the
application change, next to what the application believes. A configuration is its
attendee and its stream id. `Merge` and `NotifyChanges` are the loops of
`HandleIndexFrame`; `Subscribed` is `UpdateRemoteVideoSubscriptions`;
`ReceiveStreams` is what the next SUBSCRIBE would ask for, given the order of the
offer's video sections: a list of stream ids without mids, in which a section that is
not subscribed has no entry (`default_signaling_client.cc:213`). How sessions begin and
end follows `SignalingSession`: LEAVE_ACK calls `Close`, which clears the maps; a
failed write or a lost connection does not. CLOSED need not follow LEAVE_ACK: after a
connection made by a retry `Close` leaves the socket alone, and the next session may
begin with the flag of the first index still set and with an application that was not
told of the end. `carried` records that a session began with anything of the one
before. The application may give a mid away without removing it first (`reused`), and
drops all mids when the client has stopped, as one does whose peer connection goes with
the session (the demo's does).

**`AudioRoster`** has the adapter's maps, what the observer was told, and the audio
service: `owner` is whose stream each id ever given is, `roster` the open streams with
their mute state, `loudness` the last volume reported. The adapter loops over the
entries of a frame and keeps nothing between two entries except its maps, so one action
is one pass of the loop and a frame is the sequence of its entries. The service is
external, and modelled by what the adapter's comments say of it ("The order is
guaranteed, and there's no reuse of the stream id in the same meeting", line 38):
entries in order, fresh stream ids, an attendee's older stream ends before its newer
one, and a new stream comes with its attendee and mute state. The observer keeps an
entry for each attendee who is present: it begins, unmuted, at `OnAttendeeJoined` and
anew in every session, while the adapter's maps live on. `forgotten` has the attendees
whose entry was begun after the adapter had stored a mute state for them and of whom no
mute or unmute was told since. `heard_volume` is the last volume of each attendee ever
told and is not begun anew. Volumes are normalised in 28ths of the range, and compared
exactly: two different inputs inside the range differ by 1/28, far more than the code's
epsilon. Raw volumes are decibels below zero of the usual range; the signed overflow
that values near 2^31 would cause is out of the model.

**`LocalMedia`** has the client's local sources, mute flag and SDP, the frames that
wait for the server, and the server's side of them. An SDP is the sequence of its
lines, reduced to the three kinds `ParseSDP` looks at. `ParseSDP` is a function on the
places of the direction lines: a section takes its media and mid from the last such
line before it, as in the code, whose loop keeps the last ones it has seen. `Rank` and
`Nth` count such places, which is how the code counts sections and allocations.
`SendStreams` is the loop of `SendSubscribe` for local sections, `Assigned` the loop
of `HandleSubAckFrame`. The server is external (`Joins`, `Ignores`, `Hears`, `Refuses`,
`Accepts`): it deals with frames in order, ignores what comes before JOIN, allocates a
stream for each descriptor that names none, and may refuse without an answer. A
SUBSCRIBE of an unmuted client leaves `audio_muted` out, and the server then keeps what
it has. A frame on its way is one that is still in the queue; when the connection ends,
a prefix of them is lost and the rest stays, as in `LwsWebsocket`. A LEAVE_ACK ends the
session whenever the connection is open, also when a lost connection left the LEAVE it
answers. `carried`, `leftover` and `changed` record what makes the sources or the queue
out of date, or a match by position impossible; `Clean` is a connection without the
first two.

**`Runnable`** has one step per atomic operation of `Run`, `StopRun`, the destructor
and the loop, because everything that can go wrong lies between two of them.
`run_thread_` is the thread the `std::thread` stands for, or 0. A join of itself, an
assignment to a joinable thread and the destruction of one are `terminated`.
`careless` records what an application does against its own interest: calling
`StopRun()` from a callback, destroying a client that runs. The destructors are three
steps: the members of the websocket whose `Poll()` the loop calls (`Dismantle`), the body
of `~Runnable`, and `~std::thread`. `waking` says whether the context has a socket or a
timer that will end the `lws_service` the run thread is in.

**`ObserverList`** has the vector of observers as its memory: the loop's iterators are
indexes, and `erase` moves cells down and leaves the last one as it was.

**`Negotiation`** is the demo's controller with its observers between three threads,
the application's, the run thread and WebRTC's signaling thread. WebRTC is external
and modelled by how the demo uses it: operations of the peer connection run one at a
time (`chain`), their results reach the observers later (`callbacks`), an answer is
accepted only by a pending offer with as many sections. An offer is the number of its
sections for remote videos, which of them belong to a stopped transceiver, and whether
the camera sends; a section is a transceiver, so WebRTC's reuse of the sections of
stopped ones is left out. An answer may take away the track of any video that had one:
`OnRemoveTrack` stops its transceiver and erases it from the controller's map
(`peer_connection_observer.cc:31`). It then reads the entry it has erased (`:38-40`),
which is undefined; the model lets the last erase do nothing. The client's subscriptions
and `video_sources_to_subscribe_` keep the mid. What a SUBSCRIBE asks for is here the set
of mids that have an entry; in which order the entries stand is `RemoteVideo`'s.
`lost` records that an offer was dropped because another was in flight, `refused` that a
SUBSCRIBE had no answer. The model is one session: both programs of the demo call
`MeetingController::Start()` once (`demo/cli/main.cc:122`, `demo/test_cli/main.cc:134`).
The controller keeps `updates_in_flight_` and its maps when the client stops
(`lifecycle_observer.cc:84-87`), so a second one would begin with them.

**`StdMap`** is `std::map`: a function on the keys present.

## 3. The runs

| Run | Shows |
|---|---|
| `session_full` | All faults, two `Start()`s, two `Stop()`s, a send, two index frames, both kinds of initial retry count: the invariants of section 1 and the refinement of `SignalingLifecycle`; for the first run of the client also one socket at a time, a clean dialogue and reassembled messages. 5.6 million states, about two minutes. |
| `session_answered` | Under fairness, one `Start()` of an application that waits for its answers, and no retries: it is answered, and so is `Stop()`. |
| `audio_roster` | Two attendees, three streams, two entries on their way, two sessions. 1.8 million states. |
| `remote_video` | Two publishers, three streams, two mids, both orders of them in an offer, two index frames on their way, two sessions. 1.2 million states. |
| `local_media` | One audio and one video mid next to a remote one, two offers, two stream ids, two frames on their way, two connections. 1.5 million states. |
| `runnable` | Three run threads, and the application's; under fairness. 486 states: the operations are few. |
| `negotiation` | Two attendees, three transceivers, two TURN candidates, two offers from outside, tracks removed; under fairness. 520 thousand states. |
| `stop_stuck`, `stale_fragment`, `refuses_start`, `stoprun_in_callback`, `observer_removed` | Each violates one property that a document or comment states; see section 5. |

*Bounds.* Two starts are needed for anything that leaks from one connection to the next,
and enough: the third begins in a state that a second can begin in. One retry
(`ConcealCount = 1`) separates "retry scheduled" from "attempts used up". Two index
frames separate the first from the later ones. Three video streams for two attendees let
one come back under another stream id; three audio streams let an attendee reconnect
twice. Two mids let one be reused while the other stays. Two stream ids let audio and
video have one each, and make a mix-up visible; the offer without videos is the one in
which positions and mids differ. With two frames a mute can wait behind a SUBSCRIBE, and
one can be lost without the other. Three run threads are one that ends, one that is
joined and one that is started next. Three transceivers for two attendees let one leave
and come back under a new mid, and two offers from outside put one before and one into a
flight.

*Deadlock* is not checked anywhere: every system here may stop, when the bounds on
calls are used up or the client has been stopped.

*Fairness* (`FairSpec`). The run thread polls in a loop (`runnable.h:26`), so a callback
that stays due is made: weak fairness on each kind of callback. A connection attempt
ends one way or the other, so the two outcomes share one condition and neither is
forced; the same holds for a write and its failure, and for a retry. A loss of the
connection is not fair at all, only the CLOSED callback of a socket that is already
closing. The server answers what it receives and sends index frames to a client that has
joined. Neither the application nor the expiry of credentials is fair. A service call
that still runs on a replaced context is not fair either, except that a socket in it
that is closing reports CLOSED. In the session `Poll()` comes back because its context
has something to do: libwebsockets 4.3 ignores the timeout of 0 in
`lws_service(context_, 0)` (`libwebsockets_websocket.cc:243`) and waits, but a socket
that is connecting or open has a timeout or the timer of its pings
(`secs_since_valid_ping`, `:32-38`), one that failed has its retry, and a frame queued
from another thread is seen when one of these wakes the thread. A context whose
connection has ended has none of them, and `StopRun` does not cancel the call
(`runnable.h:34-39`). So in `Runnable` threads are scheduled, and `Poll()` returns if it
is woken: its fairness is conditioned on `waking`, which may end at any time. What the
application has called goes on, but it need not call anything. In `Negotiation` WebRTC's
thread runs what is posted to it, the server deals with what it gets and the run thread
delivers the answer; nobody need publish, leave, gather a candidate or start the camera.

`session_answered` needs four restrictions, and each is a finding or a hazard when
lifted: one `Start()` (a later one may not be answered: half a message may be left over
and spoil its JOIN_ACK, `stale_fragment`; the transport may be dead, `refuses_start`; or
`Poll()` may not come back from the replaced context), pacing (`stop_stuck`), no retries
(section 5), and no incomplete or expired TURN credentials and no at-capacity index (a
client that joins and is never told, `default_signaling_client.cc:350`, `:384`, `:446`).
A `Stop()` is made by an application that has had its `OnSignalingClientStarted`:
`Stop()` before that is lost (`:131`).

## 4. The proofs

Every theorem holds for every value of the constants; the only assumptions are the named
ones on them. Each invariant below was model-checked before it was proved.

In `SignalingSession_proofs`:

- `TypeCorrect`: `Spec => []TypeOK`, one step per action.
- `ConnectedMeansOpenHolds`. On its own `ConnectedMeansOpen` is not inductive: a retry
  would replace the open socket if it could be due while one is open. `SocketInv` adds
  that it cannot, in the present context.
- `LeaveUnderwayHolds`: a step that takes a frame off the queue puts it on the wire
  (`AppendRange`, `TailRange`), and one that takes the wire away with its socket
  cannot happen to a client that is disconnecting without ending that state, which is
  what `SocketInv` contributes.
- `JoinedOnThisSocketHolds`: `JoinInv` adds that a JOIN_ACK on the wire answers a JOIN
  of the same socket, which the frame that comes out of the buffer inherits
  (`ParsedIsLast`), and that a joined socket that is closing belongs to a transport
  that is not stopped: a `Start()` at that moment is a no-op and cannot put the flag
  on another socket.
- `DeadHasReportedHolds`: inductive as it stands, although `RunningHasSocket` alone is
  not even true: only `Start()` clears `is_stopped_`, for a socket or after an error,
  and only a frame of an open socket can follow an error with another callback.
- `FirstRunKeepsSocketHolds`: `Start()` finds no socket and no timer the first time, and
  a retry finds no socket, which is what `SocketInv` says.
- `CleanDialogueHolds`, `FirstRunReassembledHolds`: `FirstRunInv` says that a first run
  finds the queue, the buffer and the wire empty, whatever attempts and retries its socket
  takes. On it rest `DialogueInv` (the frames written and waiting are clean, and without
  a LEAVE while the client is connected, `CleanAppend`) and `StreamInv`: the wire, with the
  head that is in the buffer put back in front of it, is made of whole messages
  (`Reassembling`). That the buffer is empty is not enough, since a head may be in it.
- `ImplementsLifecycle`: `Spec => LifecycleSpec`. Every handler is a step of
  `SignalingLifecycle` or leaves its two variables alone.

In `RemoteVideo_proofs`:

- `TypeCorrect`: inductive as it stands; `SubscribedType` and `IndexTypes` say what
  a subscription and an index frame make of the maps.
- `LeftIsForgottenHolds`: with an empty source map nothing can be subscribed
  (`NothingToSubscribe`), so late calls of the application do not refill the maps.
- `AvailableAgreesHolds`: `SessionInv` adds to `AvailableAgrees` that in a session that
  began with nothing of the one before the map is empty until the first index;
  `FirstIndexTellsTheMap` and `ChangesTellTheMap` say that each kind of notification
  brings the application to the map as the frame leaves it.
- `EntriesWantedHolds`: `OwnedInv` follows a stream from the server through the
  index frames and the source map into a subscription, always with the attendee that
  published it, although an id that is stored is never replaced; `WantedInv` says that a
  subscribed mid is wanted, and has the attendee it was last asked for unless it is
  `reused`. It is the part of `SubscriptionsWanted` that is about the map. The other, that
  the list of SUBSCRIBE has the entries in the order of the sections, is checked by TLC:
  `SelectSeq` is defined by recursion on the sequence, which the prover cannot induct on.

In `Runnable_proofs`:

- `ThreadInv`, from which three theorems follow, says that a thread that lives can
  still be joined (`Owned`: it is in `run_thread_`, or about to be) and that for a
  careful application `running_` and `run_thread_` change together except inside `Run`
  and `StopRun` (`FlagsAgree`). `StoppedMeansQuiet`, which begins with the first member
  destroyed and not with the last, is not inductive without the second: a cleared flag
  says nothing of a thread that was never stored. `TypeCorrect`
  needs no more than itself.

In `AudioRoster_proofs`, the invariants say what the entries on their way are still going
to do, and an entry put last or handled first changes that in a way that is the same for
all of them:

- `TypeCorrect`, with `OpenOwned`: an open stream has an owner.
- `OpenStreamsKnownHolds`: an entry is right about the owner of its stream
  (`OwnersInv`); an open stream is known or announced by the first entry about it,
  and no entry ends it (`OpenInv`).
- `MuteAgreesHolds`: the observer believes what the adapter stores of everyone not
  `forgotten`, and takes the others to be unmuted (`HeardInv`, since unknown counts as
  unmuted); and of an attendee's newest stream the adapter has stored the truth or the truth
  is on its way with nothing about the attendee behind it (`MuteInv`).
- `PresenceAgreesHolds`: a stream that is known or announced is open or its end is on its
  way, after the announcement, and behind the end of each older stream of the attendee
  (`EndsInv`). So the entry that ends a stream finds in `HasNewStreamId` just the newer
  one that has been announced, and those present are the attendees with a known stream
  (`PresentInv`). The map by attendee loses its entry with the older stream; the
  invariant only needs that it has none of somebody who is absent.
- `VolumeAgreesHolds`: a volume on its way comes before the end of its stream and after
  its announcement (`LevelsInv`), so none is skipped, and the last is the latest
  (`VolumeInv`).
- `HeardOfPresentHolds`, an action property, from `PresenceInv`, `HeardInv` and
  `LevelsInv`: an entry that would report of somebody absent is of an unknown stream.

In `LocalMedia_proofs`, for all SDPs of `OffersAssumption`, with any mids:

- `TypeCorrect`: inductive as it stands; a loss leaves frames in the queue, so its
  bound grows with the connections.
- `MuteReachesServerHolds`: `SessionInv` says what a connection that is gone leaves
  behind. `MuteInv` says that a JOIN is at the server or first in the queue, and that
  either an AUDIO_CONTROL waits from which on every frame is true, or none waits, all
  frames are true, and the server has it right as far as it has a SUBSCRIBE. It takes the
  two cases because a SUBSCRIBE of an unmuted client says nothing: after one, what
  the server has must have been right before.
- `NamesOwnStreamsHolds`: `NamesInv` follows the ids through sources, waiting SUBSCRIBEs
  and answers; that an orderly end clears the sources is what lets the next connection
  begin without any.
- `LocalStreamsAgreeHolds`: `AgreeInv` says that each waiting SUBSCRIBE describes
  the local mids in the order of their sections, and that for every mid the last answer
  on its way that gives it a stream gives the one the server has granted, or there is none
  and the client has that one. That the n-th section takes the n-th allocation is
  a lemma about `Rank` and `Nth`: counting is the same on both sides because both count the
  sections of the same offer.

In `Negotiation_proofs` and `NegotiationQuiet_proofs`:

- `TypeCorrect`: the mids that `AddTransceivers` hands out are within their range,
  whatever bijection WebRTC chooses.
- `OneUpdateAtATimeHolds` and `FlightEndsHolds`: `FlightInv` says where the one update
  under way is (a SUBSCRIBE, an answer, a queued or a reported remote description) and
  that there is one only while `updates_in_flight_` is set. Every step moves it to the
  next place, ends it together with the flag, or leaves it alone; `PlacesAppend` and
  `PlacesTail` say what the steps do to the positions in a sequence. `NullInv` covers
  the time before the peer connection exists and after it is gone.
- `QuietMeansSubscribedHolds`: what the parties agree on at rest, from what each pair of
  them agrees on all the time. The offer that would be made now is asked for, or is the
  last to be set, or is set (`OfferInv`); an offer is pending until its answer is applied
  and an answer that failed was to another offer (`HandshakeInv`); so once local
  descriptions are reported the last one has been sent (`UpdateInv`), and what the server
  has is that offer (`SentInv`) with the client's present sources (`ReceivesInv`). Mids
  are never given twice (`MidsInv`, `NewTransceivers`), and an answer makes the
  client subscribe to all that have a section (`VideosInv`, `NewSubscriptions`). A
  transceiver in the controller's map is not stopped, and stopped ones stay so
  (`StoppedInv`): a SUBSCRIBE leaves out the sections of those only.
  `Unfollowed` is the one fact about order it needs: a result with no local description
  reported after it. `lost` is in `UpdateInv` for the reason section 5 gives: an
  offer that is dropped leaves nothing behind that remembers it.

Not proved, and checked by TLC only: the liveness properties `StartAnswered`,
`StopAnswered`, `StopRunReturns` and `NegotiationSettles`. Liveness under fairness is out
of the prover's reach, as are ENABLED and induction over data; nothing proved
here needs any of them.

## 5. Where code and documents disagree

| Run | Code | What it says |
|---|---|---|
| `stop_stuck` | `libwebsockets_websocket.cc:145` writes one message per callback and asks for no other; requests coalesce | A LEAVE queued next to a JOIN is not written until something else is sent, and `Stop()` is not answered. |
| `refuses_start` | `websocket_signaling_transport.cc:23` clears `is_stopped_` after the failure callback set it | The transport looks as if it ran and refuses every later `Start()`. |
| `stale_fragment` | `libwebsockets_websocket.cc:90` keeps half a message across connections | The first message of the next connection does not parse. |
| `stoprun_in_callback` | `runnable.h:37` joins the run thread on the run thread | The README's example calls `StopRun()` in its `OnSignalingStopped`; the program is terminated. |
| `observer_removed` | `default_signaling_client.h:60` iterates over a vector that callbacks erase from | The README's example removes the observer in its callback; others are skipped or called twice. |

Also seen while modelling, and present in the model without a run of their own:

- after a retried connection the transport still counts as stopped, because the retry
  calls `Connect()` behind its back (`libwebsockets_websocket.cc:185`): the close after
  LEAVE_ACK does nothing and `Stop()` is not answered;
- `OnSignalingClientStarted` leaves out the sources that a lost session had stored
  (`default_signaling_client.cc:415`);
- `OnAttendeeJoined` does not come for attendees the adapter has seen in an earlier
  session (`default_audio_frame_adapter.cc:57`), and comes twice after a second
  reconnection (`:116`);
- a `Start()` on a connected client turns it back to `kConnecting`
  (`default_signaling_client.cc:117`), and one during a retry makes a second connection
  (`orphaned`); `connection_retry_count_` is never reset;
- a `Start()` from another thread while `Poll()` is inside the old context leaves that
  context's timer and socket able to call back (`stale`): its retry then connects a second
  time on top of the new attempt (`libwebsockets_websocket.cc:181`), and the callbacks of
  its socket are taken for the new one's (`overheard`);
- a mid given to another attendee without being removed keeps the old attendee's stream
  (`default_signaling_client.cc:157`; `reused`, which `SubscriptionsWanted` excepts);
- a subscribed section whose attendee the client does not know has no entry in
  `receive_stream_ids`, and the ids behind it move up (`:214`; `SubscriptionsWanted` speaks
  of the case in which the client knows them all);
- an attendee who was muted, left and comes back muted, or who was in the earlier session,
  is not reported as muted again (`default_audio_frame_adapter.cc:88`; `forgotten` in
  `MuteAgrees`): an observer that begins a joining attendee as unmuted is wrong about him;
- after a retried connection and a LEAVE_ACK the next session may begin with the flag of
  the first index still set: the application is then told of changes by
  `OnRemoteVideoSourcesAvailable` and never of a start (`carried`);
- `StopRun()` on a client whose connection has ended without a retry waits until
  `lws_service` comes back, which nothing makes it do (`runnable.h:34`; `waking`);
- a connection that is lost leaves the local stream ids in the maps, and the next
  SUBSCRIBE names them to a server that never allocated them (`carried`, which
  `NamesOwnStreams` excludes by `Clean`); frames left in the queue then also reach the
  server late (`leftover` in `MuteReachesServer`), and a LEAVE among them ends the next
  session as soon as it has begun (`default_signaling_client.cc:276` does not ask who
  wanted to leave);
- in the demo an update that comes while one is in flight is dropped
  (`meeting_controller.cc:140`): when the pending offer has changed meanwhile the answer
  fails, and nothing sends the new offer until something else happens. A SUBSCRIBE
  without an answer leaves `updates_in_flight_` set for good;
- a running client that is destroyed ends the program (`runnable.h:15`), unless its
  transport's destructor stops it first; before that the run thread polls a websocket
  whose members are gone.

## 6. Not modelled, and why

- The code after a retry that the policy refuses or has scheduled
  (`libwebsockets_websocket.cc`, end of the connection error branch) and polling a
  destroyed context: what they do is libwebsockets' undefined territory.
- Data races inside a single read or write of `state_` and the maps: calls are
  atomic in the model, interleaved with callbacks at every point between them. The same
  holds for the demo's controller, whose maps WebRTC's thread and the run thread share.
- Signal strengths: the same code as volumes. Group ids and bitrates: handed
  through. External user ids: kept beside the attendee ids under the same keys.
- Data messages: checks of size, topic and lifetime, and the split of a received frame,
  without any state; that a message is queued is in `SignalingClient`.
- The splitting of an SDP into lines, and lines other than `m=`, `a=mid:` and directions.
- Observers added while observers are notified (the vector may move: undefined).
- The demo's sinks and sources of media (`OnTrack`), which do not influence the
  negotiation; its bitrates and data messages; a second `MeetingController::Start()`,
  which neither of its programs makes; the reuse by WebRTC of the sections of stopped
  transceivers; the map entry that `OnRemoveTrack` reads after it has erased it
  (undefined).
- A `Start()` within a callback of a replaced context's service call that leaves a third
  context behind: the old call still reports the first one's.
- Factories, configuration, logging, certificates, generated protobuf code, the
  demos' command lines: no behaviour that a state machine would show. The scripts under
  `docs` are the search pages of the generated reference documentation, not part of
  the program.

## 7. Plan

Every safety property that a passing run checks, the action properties and the refinement
are proved, except `SubscriptionsWanted`, whose part about the map is
(`EntriesWantedHolds`). What is left:

1. In the models, the remaining parts marked "partly" in `PROJECT.json`: the demo's
   controller without the assumption that its handlers are atomic and over two sessions, and
   an attendee that comes back under a new stream id between two index frames
   (`default_signaling_client.cc:436`).
2. In the proofs, `ObserverList` with observers that remove none while they are
   notified: each of them hears of each notification once.
