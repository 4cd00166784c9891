SPECIFICATION Spec
CONSTANTS
    Threads = {t1}
    DiskLength = 8
    MaxPartNum = 5
    InitTable <- LargerDrive
    NoPart = NoPart
    Commands <- SingleCommands
    LbaModulus = 16
    SectorSize = 512
    Faults = {"delete"}
INVARIANT
    ToldTheTruth
