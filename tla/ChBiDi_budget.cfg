SPECIFICATION FairSpec
CONSTANTS
  MaxSend = 1
  MaxEmit = 1
  Causes <- AllCauses
PROPERTIES
  EndOfContextStopsTesting
CHECK_DEADLOCK FALSE
