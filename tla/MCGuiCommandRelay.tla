-------------------------- MODULE MCGuiCommandRelay --------------------------
(* Instances of GuiCommandRelay for TLC.                                   *)
EXTENDS GuiCommandRelay, TLC
=============================================================================
