SPECIFICATION Spec
CONSTANTS
  Codes = {200, 302, 500}
  Keys = {0, 3, 200}
  SIDs = {1}
  MaxHops = 3
INVARIANTS
  ChecksHaveWhatTheyRead
  VerdictFitsResponse
CHECK_DEADLOCK FALSE
