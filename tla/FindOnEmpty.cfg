SPECIFICATION Spec
CONSTANTS
    AESDCHAR_MAX_WRITE_OPERATIONS_SUPPORTED = 3
    SizeModulus = 64
    Files = {f1, f2}
    Bytes = {"a", "n"}
    Newline = "n"
    Pieces <- SomePieces
    Counts = {1, 2}
    Shared = {}
    Seeks <- SomeSeeks
    UserStruct <- SomeStructs
    INT_MAX = 7
    HeapBlocks = 5
    TEMP_BUFFER_STARTING_SIZE = 1
    Faults = {}
    MaxPos = 3
    MaxMessage = 2
    MaxLost = 1
INVARIANTS
    NoStrayRead
