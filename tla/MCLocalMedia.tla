----------------------------- MODULE MCLocalMedia -----------------------------
(* Small instances of LocalMedia for TLC. *)
EXTENDS LocalMedia, SequencesExt

\* The lines of an SDP with sections <<media, mid, direction>>.
Lines(sections) ==
  FlattenSeq([i \in DOMAIN sections |->
    <<[line |-> "m", media |-> sections[i][1]],
      [line |-> "mid", mid |-> sections[i][2]],
      [line |-> "direction", direction |-> sections[i][3]]>>])

\* Audio alone; then one video, sending; then two, one of them from others.
MCOffers ==
  {Lines(<<<<"audio", "0", "sendrecv">>>>),
   Lines(<<<<"audio", "0", "sendrecv">>, <<"video", "1", "recvonly">>,
           <<"video", "2", "sendonly">>>>)}
=============================================================================
