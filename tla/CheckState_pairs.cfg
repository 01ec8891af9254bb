SPECIFICATION Spec
CONSTANTS
  Lists <- SmallLists
  MaxSubjects = 1
  States = {"empty", "filled"}
  state0 = "empty"
  ProtoCompatible = {"empty", "filled"}
INVARIANTS
  PairsMeanItems
