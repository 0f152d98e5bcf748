\* A violation run: the OOM killer strikes between two writes of one report.
SPECIFICATION FairSpec
CONSTANTS
    Behaviours = {"raisesLong"}
    PipeCap = 2
    KillPoints = {"exiting"}
PROPERTIES AlwaysReturns
CHECK_DEADLOCK FALSE
