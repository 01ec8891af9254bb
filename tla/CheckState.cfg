SPECIFICATION Spec
CONSTANTS
  Lists <- SmallLists
  MaxSubjects = 2
  States = {"empty", "filled", "odd"}
  state0 = "empty"
  ProtoCompatible = {"empty", "filled"}
INVARIANTS
  NoSubjectDangles
  VerdictTellsWhatRan
  StateIsRepresentable
  ExactlyAndEqualTellTheTruth
  AllAcceptsWhatItShould
