---------------------------- MODULE MCAudioRoster ----------------------------
(* Small instances of AudioRoster for TLC. *)
EXTENDS AudioRoster, TLC

Symmetry == Permutations(Attendee)
=============================================================================
