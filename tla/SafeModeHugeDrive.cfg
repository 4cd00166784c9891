SPECIFICATION Spec
CONSTANTS
    Threads = {t1}
    DiskLength = 12
    MaxPartNum = 3
    InitTable <- HugeDrive
    NoPart = NoPart
    Commands <- SingleCommands
    LbaModulus = 8
    SectorSize = 512
    Faults = {}
INVARIANT
    SafeModeHolds
