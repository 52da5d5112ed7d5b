---------------------------- MODULE MCRetryTimer ----------------------------
(* Model checking of RetryTimer: the constants are given in the config.    *)
EXTENDS RetryTimer

(* The instance is one that the theorem about RetryTimer speaks of. *)
ASSUME TimingHolds == TimingBounds
=============================================================================
