SPECIFICATION Spec
CHECK_DEADLOCK FALSE
CONSTANTS
  Rows = 400
  MaxSaves = 4
  MaxEvents = 3
  Commands = {"all"}
  Restack = TRUE
INVARIANTS
    NightsAreClean
    QuietStartServesOneStack
    TrainAllIsOutOfFold
