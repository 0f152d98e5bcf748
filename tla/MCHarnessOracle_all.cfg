\* Campaigns under eleven harnesses; a campaign ends with its artifact.
SPECIFICATION Spec
CONSTANTS
    Campaigns = {"gguf_py", "weights_only", "msgpack_restore", "from_state_dict", "config", "tokenizers", "differential", "gguf", "minja_parse", "minja_render", "clip"}
    Templates <- MCTemplates
    MaxSize = 4
    MaxDepth = 1
INVARIANTS RecursionIsRecorded PanicIsRecorded BothPathsExercised TempFileRemoved GuardExact DivergenceExact JobsAreExact
CHECK_DEADLOCK FALSE
