\* Every order of up to five reports; triage ends, so the system stops.
SPECIFICATION Spec
CONSTANTS
    Reports <- StreamReports
    MaxReports = 5
INVARIANTS TypeOK BucketsExact SourcesAreFirst TableRanked OnlyFaultlessUnparsed
CHECK_DEADLOCK FALSE
PROPERTIES ImplementsGate
