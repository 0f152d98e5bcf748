\* A violation run: the config harness alone.
SPECIFICATION Spec
CONSTANTS
    Harnesses = {"config"}
    MaxData = 12
    Recursion = 7
INVARIANTS ConfigBounded
CHECK_DEADLOCK FALSE
