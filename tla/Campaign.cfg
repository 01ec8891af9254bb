SPECIFICATION FairSpec
CONSTANTS
  CallerChecks = 2
  UserChecks = 2
  MaxInstr = 3
  MaxDepth = 2
  Causes <- AllCauses
INVARIANTS
  ExchangeIsFollowed
  InstructionIsNotSwallowed
  ProgresserMatchesCampaign
  ExitCodeTellsLastStanding
PROPERTIES
  SilentAfterError
  EndOfContextExits
CHECK_DEADLOCK FALSE
