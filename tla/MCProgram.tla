------------------------------ MODULE MCProgram ------------------------------
(* Instances of Program for TLC: an address space of eight bytes, ROMs with *)
(* two interrupt vectors.                                                   *)
EXTENDS Program

MCTokens == {"s1", "s2", "s3", "s4", "s5", "s6", "s7"}
MCIrqOutputs == <<"irq_2.asm", "irq_1.asm">>
MCVectors == {<<1, 6>>, <<1, 1>>}
MCLabelFile == {<<0, 1>>, <<1, 3>>}

Object(type, logical, size, output) ==
    [type |-> type, page |-> 0, logical |-> logical, offset |-> Missing,
     size |-> size, mpr |-> "mpr", output |-> output, data |-> Missing,
     description |-> Missing]

Config(type) ==
    [type |-> type, element |-> Missing, perLine |-> Missing, delimiter |-> Missing]

Code == Object("code", 0, 2, "a.asm")
Table == [Object("data", 2, 4, "a.asm") EXCEPT !.data = Config("jumptable")]
Moved == [Object("code", 5, 1, "b.asm") EXCEPT !.offset = 64]

\* Sections that touch and are merged, and others of one output file, in and
\* out of address order; data without a type, or without an element size; an
\* object refused before its output file is known, and one after.
MCConfigs ==
    {<<>>,
     <<Table, Code>>,
     <<Code, Object("code", 2, Missing, "b.asm"), Table>>,
     <<Moved, Code>>,
     <<Object("data", 1, 2, "b.asm"), Table>>,
     <<[Table EXCEPT !.data = Config("hex")], Code>>,
     <<[Code EXCEPT !.mpr = Missing], Code>>,
     <<[Code EXCEPT !.data = Config("hex")], Code>>}

IplSection(type, page, size, output) ==
    [type |-> type, dtype |-> "binary",
     element |-> IF type = "data" THEN 1 ELSE 0, page |-> page, logical |-> 4, size |-> size,
     output |-> output, moved |-> TRUE]

CdStart == IplSection("code", 2, 2, "cd_start.asm")
GfxStart == IplSection("data", 3, 2, "gfx_start.bin")

MCIpls == {<<>>, <<CdStart>>, <<CdStart, GfxStart>>}
=============================================================================
