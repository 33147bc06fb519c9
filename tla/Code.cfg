SPECIFICATION Spec
CONSTANTS
    ByteSize = 8
    PageSize = 8
    WordSize = 64
    DwordSize = 256
    Pages <- MCPages
    Instruction <- MCInstruction
    LabelFiles <- MCLabelFiles
    Images <- MCImages
    Programs <- MCPrograms
INVARIANTS
    TypeOK
    LabelSetWhenSized
    InSectionBelowEnd
    ForwardDefined
PROPERTIES
    WalksEnd
\* The program ends, or dies.
CHECK_DEADLOCK FALSE
