SPECIFICATION Spec
CONSTANTS
    AESDCHAR_MAX_WRITE_OPERATIONS_SUPPORTED = 3
    SizeModulus = 64
    Files = {f1}
    Bytes = {"a", "n"}
    Newline = "n"
    Pieces <- SomePieces
    Counts = {1, 2}
    Shared = {f1}
    Seeks <- SomeSeeks
    UserStruct <- SomeStructs
    INT_MAX = 7
    HeapBlocks = 5
    TEMP_BUFFER_STARTING_SIZE = 1
    Faults = {"kmalloc", "krealloc", "copy_from_user", "copy_to_user", "cdev_add"}
    MaxPos = 6
    MaxMessage = 2
    MaxLost = 1
INVARIANTS
    TypeOK
    BuffersLive
    PieceFits
    ReadsTheText
PROPERTIES
    SeekHitsByte
    KeepsNewest
    OnlyUnloadLeaks
