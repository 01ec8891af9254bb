CONSTANTS
  Procs = {p1, p2, p3}
  MaxLines = 2
  PastSlots = {2}
  MaxVersion = 3
  Commands <- MCCommands
SPECIFICATION Spec
SYMMETRY Symmetry
INVARIANTS
  LogsAreWholeUnlessRaced
  PastseedPassesNoLogOver
  ExeIsAReleasedProgram
PROPERTY NeverGoesBackUnlessOvertaken
CHECK_DEADLOCK FALSE
