SPECIFICATION FairSpec
CONSTANTS
  MaxAcc = 2
  Codes <- MCCodes
  TempCodes <- MCTempCodes
  AllowRelogin = FALSE
  AllowReset = FALSE
INVARIANTS LogoutRequestHasSession SessionHasAccount OneLiveAccount
PROPERTIES IsFairSession LoginAnswered LogoutSettled LoginSuccessMeansRegistered
