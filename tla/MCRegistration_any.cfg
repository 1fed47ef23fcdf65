SPECIFICATION Spec
CONSTANTS
  MaxAcc = 2
  Codes <- MCCodes
  TempCodes <- MCTempCodes
  AllowRelogin = TRUE
  AllowReset = TRUE
INVARIANTS TypeOK LayersAgree SessionEventsAlternate ListenerKnowsSession
PROPERTIES IsSession
