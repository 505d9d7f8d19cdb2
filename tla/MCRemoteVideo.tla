---------------------------- MODULE MCRemoteVideo ----------------------------
(* Small instances of RemoteVideo for TLC. *)
EXTENDS RemoteVideo, TLC

Symmetry == Permutations(Attendee) \union Permutations(Mid)
=============================================================================
