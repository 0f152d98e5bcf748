\* Every run of the three generators on inputs of up to twelve bytes.
SPECIFICATION Spec
CONSTANTS
    Harnesses = {"msgpack_restore", "from_state_dict", "config"}
    MaxData = 12
    Recursion = 7
INVARIANTS NestingPaid SizeLinear
PROPERTIES Completes
CHECK_DEADLOCK FALSE
