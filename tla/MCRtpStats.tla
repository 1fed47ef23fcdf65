------------------------------ MODULE MCRtpStats ------------------------------
(* RtpStats with two calls, one after the other or at the same time, and   *)
(* few packets.                                                            *)
EXTENDS RtpStats, TLC

CallSymmetry == Permutations(Calls)
=============================================================================
