------------------------------- MODULE MCMedia -------------------------------
(* Media with an Outgoing object, which may be used again and again, an    *)
(* Incoming object, and two slots that are alike.                          *)
EXTENDS Media, TLC

SlotSymmetry == Permutations(Slots)
=============================================================================
