SPECIFICATION FairSpec
CONSTANTS
  Buffer = 2
  RequestLen = 3
  ResponseLen = 3
  MaxCrashes = 1
  MaxCalls = 2
INVARIANTS
  TypeOK
PROPERTIES
  CallsSucceed
  CallsEnd
  ServesAgain
CHECK_DEADLOCK FALSE
