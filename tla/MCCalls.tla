------------------------------ MODULE MCCalls ------------------------------
(* Small instances of Calls for TLC. *)
EXTENDS Calls, TLC

(* One code of each branch of on_call_state: invalid, rejected, other. *)
MCFailCodes == {404, 486, 503}
OnlyBusy == {486}

Symmetry == Permutations(OutCalls) \cup Permutations(InCalls) \cup Permutations(Outs)
=============================================================================
