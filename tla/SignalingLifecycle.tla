-------------------------- MODULE SignalingLifecycle --------------------------
(***************************************************************************)
(* What a SignalingClientObserver may rely on, whatever the network, the   *)
(* server and the application do: between two OnSignalingClientStopped     *)
(* with status kOk there is at most one OnSignalingClientStarted.  A stop  *)
(* with status kClientError alone does not allow another start.            *)
(***************************************************************************)
VARIABLES
  observed,   \* the last of the two callbacks, with its status
  spent       \* no further OnSignalingClientStarted before a stop with kOk

Init == observed = "none" /\ spent = FALSE

Started == ~spent /\ spent' = TRUE /\ observed' = "started"

\* The chance to start passes without the callback.
Withheld == ~spent /\ spent' = TRUE /\ UNCHANGED observed

StoppedOk == spent' = FALSE /\ observed' = "stopped_ok"

StoppedError == observed' = "stopped_error" /\ UNCHANGED spent

Next == Started \/ Withheld \/ StoppedOk \/ StoppedError

Spec == Init /\ [][Next]_<<observed, spent>>
=============================================================================
