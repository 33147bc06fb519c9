------------------------- MODULE MCLabelRepository --------------------------
(* Instances of LabelRepository and LabelFile for TLC.                     *)
EXTENDS LabelFile, TLC

CONSTANTS ram, rom, plain, broken

MCLogicals == 0..1
MCBounds == 0..2

Element1(p, l, name, note) ==
    [page |-> p, logical |-> l, text |-> name, note |-> note]

\* A label twice, the second time with a description; and a file that ends
\* badly.
MCFiles ==
    {<<Element1(ram, 0, plain, Null), Element1(ram, 0, broken, plain),
       Element1(rom, 1, plain, Null)>>,
     <<Element1(rom, 0, plain, plain), Invalid, Element1(ram, 1, plain, Null)>>}

Symmetry == Permutations(Pointers)
=============================================================================
