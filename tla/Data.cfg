SPECIFICATION Spec
CONSTANTS
    Values <- MCValues
    Printable <- MCPrintable
    Jobs <- MCJobs
INVARIANTS
    TypeOK
    LabelsInPlace
    CommentsKept
    WellFormed
PROPERTIES
    ImplementsListing
\* An extraction ends.
CHECK_DEADLOCK FALSE
