---------------------------- MODULE MCRegistration ----------------------------
(* Values for the constants of Registration: an accepted REGISTER, a       *)
(* refusal that is final and one after which pjsua tries again.            *)
EXTENDS Registration

MCCodes == {200, 403, 503}
MCTempCodes == {503}
OnlyOK == {200}
=============================================================================
