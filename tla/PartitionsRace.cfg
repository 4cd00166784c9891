SPECIFICATION Spec
CONSTANTS
    Threads = {t1, t2}
    DiskLength = 5
    MaxPartNum = 4
    InitTable <- SmallDrive
    NoPart = NoPart
    Commands <- RaceCommands
    LbaModulus = 16
    SectorSize = 512
    Faults = {"get", "open", "add", "name", "delete", "dev", "os", "io"}
SYMMETRY ThreadSymmetry
INVARIANTS
    TypeOK
    ProtectedEntriesKept
    TableWellFormed
    UserWritesSpareProtected
