SPECIFICATION Spec
CONSTANTS
  MaxAcc = 2
  Codes <- OnlyOK
  TempCodes = {}
  AllowRelogin = TRUE
  AllowReset = FALSE
PROPERTY LoginSuccessMeansRegistered
