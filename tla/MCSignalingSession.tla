------------------------- MODULE MCSignalingSession -------------------------
(* Small instances of SignalingSession for TLC. *)
EXTENDS SignalingSession

\* Whatever is left in the uninitialised connection_retry_count_: a fresh
\* count, or one that leaves no attempt.
MCInitialRetryCounts == {0, ConcealCount + 1}
MCFreshRetryCount == {0}
MCNoRetry == {ConcealCount + 1}
=============================================================================
