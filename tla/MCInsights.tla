------------------------------ MODULE MCInsights ------------------------------
(* Insights with the values its configurations give.  Nothing tells one    *)
(* incoming call from another.                                             *)
EXTENDS Insights, TLC

InCallsAlike == Permutations(InCalls)
=============================================================================
