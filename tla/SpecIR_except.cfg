CONSTANTS
  NumNames = 2
  Codes = {200}
  MaxNodes = 5
  MaxEndpoints = 2
  Shapes <- MCShapes
  TagNames = {"t1", "t2"}
  IllegalTags = {"T1"}
  CommandLines <- MCCommandLines
  Protocol <- MCProtocol
SPECIFICATION Spec
INVARIANT ExceptedAreNotTested
CHECK_DEADLOCK FALSE
