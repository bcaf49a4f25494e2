SPECIFICATION SceneSpec
CONSTANTS
    s1 = s1
    s2 = s2
    p1 = p1
    p2 = p2
    p3 = p3
    MaxDay = 3
    MaxVersion = 1
    RevealAfter = 1
    MaxPublishes = 2
    RerunDays = {}
    MaxCrashes = 1
    MaxOthers = 0
    Faults = {"ots", "git", "push", "reread"}
PROPERTIES
    SettledPanicFlattens
    ApprovedInTimeIsExecuted
    DueProofsAreRevealed
CHECK_DEADLOCK FALSE
