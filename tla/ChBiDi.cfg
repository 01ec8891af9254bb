SPECIFICATION FairSpec
CONSTANTS
  MaxSend = 3
  MaxEmit = 2
  Causes <- AllCauses
INVARIANTS
  AnswerIsForThisMessage
  SentIsOnTheWire
  ReceivedInOrder
  CanceledMeansCanceled
PROPERTIES
  NothingBeginsAfterClose
  CallsReturn
  StopsOrHangsAtHandoff
  ImplementsChannel
CHECK_DEADLOCK FALSE
