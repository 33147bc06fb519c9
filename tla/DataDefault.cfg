SPECIFICATION Spec
CONSTANTS
    Values <- MCValues
    Printable <- MCPrintable
    Jobs <- DefaultJobs
INVARIANT DefaultElementFits
CHECK_DEADLOCK FALSE
