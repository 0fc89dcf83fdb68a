---------------------------- MODULE MCBabysitter ----------------------------
(* Instances of Babysitter for TLC.                                        *)
EXTENDS Babysitter, TLC

Symmetry == Permutations(Workers)
=============================================================================
