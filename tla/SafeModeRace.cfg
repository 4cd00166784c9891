SPECIFICATION Spec
CONSTANTS
    Threads = {t1, t2}
    DiskLength = 5
    MaxPartNum = 4
    InitTable <- SmallDrive
    NoPart = NoPart
    Commands <- ReplaceCommands
    LbaModulus = 16
    SectorSize = 512
    Faults = {}
INVARIANT
    SafeModeHolds
