----------------------------- MODULE SectionFile -----------------------------
(***************************************************************************)
(* Section files: what section_load (section/load.c) makes of one object   *)
(* of the configuration file.                                              *)
(*                                                                         *)
(* A member of an object is its value, Missing, or Bad when it has a wrong *)
(* type or is out of range.                                                *)
(***************************************************************************)
EXTENDS Integers, Sequences

CONSTANTS
    Missing,   \* the object has no such member
    Bad        \* a member that is refused by itself

DefaultElementSize == 8
DefaultPerLine == 16

DataTypes == {"binary", "hex", "string", "jumptable"}

\* section_reset's data configuration.
NoConfig == [type |-> "unknown", element |-> DefaultElementSize,
             perLine |-> DefaultPerLine]

\* The members of "data": the element size is for hexadecimal data only, the
\* line length for hexadecimal data and strings, the delimiter for strings.
ConfigAccepted(c) ==
    /\ c.type \in DataTypes
    /\ c.element = Missing \/ (c.type = "hex" /\ c.element \in 0..2)
    /\ c.perLine = Missing \/ (c.type \in {"hex", "string"} /\ c.perLine # Bad)
    /\ c.delimiter = Missing \/ (c.type = "string" /\ c.delimiter # Bad)

DataAccepted(o) == o.data = Missing \/ (o.type = "data" /\ ConfigAccepted(o.data))

\* The members up to the name of the output file, in section_parse's order.
\* An array of registers without elements is refused, a shorter one is not.
AcceptedToOutput(o) ==
    /\ o.type \in {"code", "data"}
    /\ \A m \in {"page", "logical", "mpr", "output"} : o[m] \notin {Missing, Bad}
    /\ o.offset # Bad
    /\ o.size # Bad

Accepted(o) == AcceptedToOutput(o) /\ DataAccepted(o) /\ o.description # Bad

\* section_parse copies the name of the output file, refuses what comes after
\* it, and nobody frees the copy.
LeaksOutput(o) == AcceptedToOutput(o) /\ ~Accepted(o)

Given(v, default) == IF v = Missing THEN default ELSE v

\* Mutant: the size has no default.
ParsedNoSize(o) ==
    LET c == IF o.data = Missing THEN NoConfig ELSE o.data
    IN  [type    |-> o.type,
         dtype   |-> c.type,
         element |-> Given(c.element, DefaultElementSize),
         page    |-> o.page,
         logical |-> o.logical,
         size    |-> o.size,
         output  |-> o.output,
         moved   |-> o.offset # Missing]

\* The section of an accepted object; its offset is its address by default.
Parsed(o) ==
    LET c == IF o.data = Missing THEN NoConfig ELSE o.data
    IN  [type    |-> o.type,
         dtype   |-> c.type,
         element |-> Given(c.element, DefaultElementSize),
         page    |-> o.page,
         logical |-> o.logical,
         size    |-> Given(o.size, 0),
         output  |-> o.output,
         moved   |-> o.offset # Missing]
=============================================================================
