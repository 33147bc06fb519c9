SPECIFICATION ProgramSpec
CONSTANTS
    Tokens = {t1, t2, t3}
    WordSize <- SmallWord
    Increment = 2
    Descriptors <- LastBank
SYMMETRY TokenSymmetry
INVARIANT CoverageKeptToTheEnd
\* The process dies when a write leaves the block or calloc fails.
CHECK_DEADLOCK FALSE
