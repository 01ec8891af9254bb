SPECIFICATION FairSpec
CONSTANTS
  c1 = c1
  c2 = c2
  c3 = c3
  Checks <- ThreeChecks
INVARIANTS
  NoSendAfterClose
  OutcomeIsThatOfAllChecks
PROPERTIES
  GroupEndsOrHangsAtHandOff
  ImplementsVerdicts
CHECK_DEADLOCK FALSE
