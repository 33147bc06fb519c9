--------------------------- MODULE MCSectionArray ---------------------------
(* Instances of SectionArray for TLC.                                      *)
EXTENDS SectionArray, TLC

\* A section of page p; code sections have no data configuration.
Code(p, l, n, out) ==
    [type |-> "code", dtype |-> "unknown", page |-> p, logical |-> l,
     size |-> n, output |-> out]

Data(dt, p, l, n) ==
    [type |-> "data", dtype |-> dt, page |-> p, logical |-> l,
     size |-> n, output |-> "data.asm"]

\* A word of 8 values.
SmallWord == 8

\* Sections that touch, nest, overlap, clash, are empty, have a negative
\* size or lie on another page; none reaches the end of the address space.
MCDescriptors ==
    {Code(0, 0, 2, "a"), Code(0, 2, 0, "a"), Code(0, 2, 3, "b"),
     Code(0, 1, 5, "a"), Code(0, 4, -1, "a"), Code(1, 2, 2, "a"),
     Data("hex", 0, 2, 2), Data("string", 0, 4, 2)}

\* As MCDescriptors, with sections that end with the address space.
LastBank ==
    {Code(0, 2, 2, "a"), Code(0, 4, 4, "a"), Code(0, 4, 0, "b"),
     Data("hex", 0, 6, 2)}

TokenSymmetry == Permutations(Tokens)
=============================================================================
