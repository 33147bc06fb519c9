SPECIFICATION Spec
CONSTANTS
    ByteSize = 8
    PageSize = 8
    WordSize = 64
    DwordSize = 256
    Pages <- MCPages
    Instruction <- MCInstruction
    LabelFiles <- NoLabels
    Images <- MCImages
    Programs <- VectorPrograms
INVARIANT LabelSet
CHECK_DEADLOCK FALSE
