\* A violation run: UBSan recovered from an earlier fault in the same run.
SPECIFICATION Spec
CONSTANTS
    Reports <- RecoveredReports
    MaxReports = 1
INVARIANTS HeapOverflowFailsGate
CHECK_DEADLOCK FALSE
