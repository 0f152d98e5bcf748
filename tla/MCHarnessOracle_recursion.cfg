\* A violation run: the stable rebuild-args harness.
SPECIFICATION Spec
CONSTANTS
    Campaigns = {"rebuild_args"}
    Templates <- MCTemplates
    MaxSize = 0
    MaxDepth = 0
INVARIANTS RecursionIsRecorded
CHECK_DEADLOCK FALSE
