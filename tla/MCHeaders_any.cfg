CONSTANTS
  Keys = {"X-PH-One", "x-ph-two", "X-PH"}
  ValidKeys = {"X-PH-One", "x-ph-two"}
  Values <- MCValues
  AnyCase = {"X-PH-One", "x-ph-two", "X-PH", "x-ph"}
  AsSpelled = {"X-PH-One", "X-PH"}
  OtherLines <- MCOtherLines
  Uuids = {"uuid"}
  PushValues <- MCPushValues
  Domain <- MCDomain
  None = None
SPECIFICATION Spec
INVARIANTS TypeOK HeadersArrive XCallUUIDIsOwn OutOfRangeByComma NotificationApplied
