SPECIFICATION Spec
CONSTANTS
    MaxDay = 2
    MaxVersion = 2
    RevealAfter = 1
    MaxPublishes = 2
    RerunDays = {1}
    MaxCrashes = 1
    MaxOthers = 1
    Faults = {"store", "file", "git", "push", "update"}
INVARIANTS
    RevealVerifies
    RecordedCommitHolds
    ReportedIsPublished
PROPERTIES
    KeepsThePromise
CHECK_DEADLOCK FALSE
