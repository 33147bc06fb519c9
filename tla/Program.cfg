SPECIFICATION Spec
CONSTANTS
    Zero = zero
    Junk = junk
    Missing = missing
    Bad = bad
    Tokens <- MCTokens
    WordSize = 8
    Increment = 4
    Configs <- MCConfigs
    IrqCount = 2
    IrqOutputs <- MCIrqOutputs
    Vectors <- MCVectors
    Ipls <- MCIpls
    LabelFile <- MCLabelFile
    MainFile = "main.asm"
    TableFile = "main.asm"
    MaxOptions = 7
INVARIANTS
    TypeOK
    ListsTerminated
    SectionsReady
    OutputsRight
PROPERTIES
    DeathExplained
    Ends
\* The program ends.
CHECK_DEADLOCK FALSE
