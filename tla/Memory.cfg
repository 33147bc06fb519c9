SPECIFICATION Spec
CONSTANTS
    BankSize = 4
    HeaderSize = 1
    SectorSize = 2
    RomSizes <- MCRomSizes
    CdSize = 40
    Requests <- MCRequests
    MaxLoads = 2
INVARIANTS
    TypeOK
    MappedInside
    RomVisible
    LoadShows
    DiesOnlyOutside
\* The process ends, or dies in a copy that leaves its block.
CHECK_DEADLOCK FALSE
