---------------------------- MODULE MCIpcClient ----------------------------
(* Instances of IpcClient for TLC.                                         *)
EXTENDS IpcClient, TLC

CONSTANTS small, medium, large

(* The second frame fills the area and crosses its end if it comes behind  *)
(* the first; if it comes before, the first is begun over it, and its      *)
(* reading is torn while it lasts.  The third does not fit.                *)
MCMsgs == {small, medium, large}
MCSize == (small :> 2) @@ (medium :> 3) @@ (large :> 4)
=============================================================================
