---------------------------- MODULE MCDataExtract ----------------------------
(* Instances of DataExtract for TLC.                                       *)
EXTENDS DataExtract

\* Two characters and a byte that is not printed as one.
MCValues == {"a", "b", "00"}
MCPrintable == {"a", "b"}

Section(type, n, element, perLine, delimiter, bytes, labels, comments) ==
    [type |-> type, size |-> n, element |-> element, perLine |-> perLine,
     delimiter |-> delimiter, bytes |-> bytes, labels |-> labels,
     comments |-> comments]

Any == [n \in 0..6 |-> "a"]
Places == SUBSET (0..3)

\* The sizes of elements section_load lets through, and the lines they fill:
\* none (0), each element, a part of the section, more than all of it.
Hex(elements, sizes) ==
    {Section("hex", n, e, w, <<>>, Any, l, c) :
        n \in sizes, e \in elements, w \in {0, 1, 2, 16},
        l \in Places, c \in Places}

\* Strings of characters and other bytes; delimiters of one byte, of two,
\* and one that overlaps itself.
Texts ==
    {[Any EXCEPT ![0] = u, ![1] = v, ![2] = w] :
        u, v, w \in MCValues}

Strings ==
    {Section("string", n, 8, w, d, t, l, c) :
        n \in {3}, w \in {1, 2, 16}, d \in {<<>>, <<"b">>, <<"a", "a", "b">>},
        t \in Texts, l \in SUBSET (0..2), c \in SUBSET (0..2)}

JumpTables ==
    {Section("jumptable", n, 8, w, <<>>, Any, l, c) :
        n \in {0, 3, 4, 5}, w \in {2, 16},
        l \in SUBSET {0, 1, 2, 4}, c \in SUBSET {0, 1, 2, 4}}

Others ==
    {Section("binary", n, 8, 16, <<>>, Any, {0, 2}, {1}) : n \in {-1, 0, 3}}
    \union {Section("unknown", 2, 8, 16, <<>>, Any, {}, {})}

MCJobs == Hex(0..2, {0, 3, 4}) \union Strings \union JumpTables \union Others

\* Hexadecimal data without "element_size": section_reset's value is kept.
DefaultElementSize == 8
DefaultJobs ==
    {s \in Hex({DefaultElementSize}, 0..4) : s.perLine = 16}
=============================================================================
