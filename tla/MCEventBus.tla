----------------------------- MODULE MCEventBus -----------------------------
(* An instance of EventBus for TLC.  A processing thread is never reused,  *)
(* so the number of threads bounds the number of effective start() calls.  *)
EXTENDS EventBus, TLC
=============================================================================
