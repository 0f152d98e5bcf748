\* Any loader, and the self-test, under any timing, the OOM killer at any
\* moment of a child's life.  A suite ends, so the system may stop.
SPECIFICATION OracleSpec
CONSTANTS
    Behaviours = {"returns","leaks","raises","raisesLong","raisesHuge","raisesFull","memory","hoards","loops","quits"}
    PipeCap = 3
    KillPoints = {"boot", "fn", "exiting"}
    Suites <- MCSuites
INVARIANTS TypeOK NoOrphan TimeoutMeansStuck NoFalsePass NoFalseAlarm SelftestNeedsCap SelftestExact
PROPERTIES ImplementsCall SuiteEnds
CHECK_DEADLOCK FALSE
