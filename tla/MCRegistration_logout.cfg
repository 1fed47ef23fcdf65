SPECIFICATION FairSpec
CONSTANTS
  MaxAcc = 1
  Codes <- OnlyOK
  TempCodes = {}
  AllowRelogin = FALSE
  AllowReset = FALSE
PROPERTY LogoutInProgressEnds
