SPECIFICATION ProgramSpec
CONSTANTS
    Tokens = {t1, t2, t3, t4}
    WordSize <- SmallWord
    Increment = 2
    Descriptors <- MCDescriptors
SYMMETRY TokenSymmetry
INVARIANTS
    TypeOK
    StringsOwned
    TidySorted
    CoverageKept
    TidyCanonical
\* The process dies when a write leaves the block or calloc fails.
CHECK_DEADLOCK FALSE
