----------------------------- MODULE CommandLine -----------------------------
(***************************************************************************)
(* The lists of file names cli_opt_get builds (cli/options.c): one array   *)
(* of names for the options --labels, and one for --comments, each         *)
(* growing by four and ended by a null pointer for the loops that walk it. *)
(*                                                                         *)
(* argparse, which calls opt_callback for every such option and ignores    *)
(* what it returns, is external.                                           *)
(***************************************************************************)
EXTENDS Integers, Sequences

CONSTANTS
    Zero,   \* a null pointer
    Junk    \* what realloc leaves in a cell

\* A name is a pointer.
ASSUME NamesAssumption == Zero # Junk /\ "name" \notin {Zero, Junk}

ListIncrement == 4

\* The payload of the callback: its two counters, and the cells that the block
\* behind the array really has.
NoList == [size |-> 0, capacity |-> 0, cells |-> <<>>]

\* Mutant: the capacity does not grow when the block is full.
FullWhenOver(p) == p.capacity < p.size + 1

Full(p) == p.capacity <= p.size + 1

\* realloc and memset: four cells from the new one are cleared, which leaves
\* the last cell of the new block as it was, but for the first block.
Grown(p, name) ==
    [size     |-> p.size + 1,
     capacity |-> p.capacity + ListIncrement,
     cells    |-> [k \in 1..(p.capacity + ListIncrement) |->
                     IF k = p.size + 1 THEN name
                     ELSE IF k \in (p.size + 1)..(p.size + ListIncrement) THEN Zero
                     ELSE IF k <= Len(p.cells) THEN p.cells[k]
                     ELSE Junk]]

\* realloc fails: the counters have moved all the same.
NotGrown(p) ==
    [size |-> p.size + 1, capacity |-> p.capacity + ListIncrement, cells |-> p.cells]

Stored(p, name) ==
    [size |-> p.size + 1, capacity |-> p.capacity,
     cells |-> [p.cells EXCEPT ![p.size + 1] = name]]

\* The new cell is in the block.
Fits(p) == p.size < Len(p.cells)

\* What load_labels and load_comments find at the index k of the array.
NameAt(p, k) ==
    IF p.cells = <<>> THEN Zero
    ELSE IF k <= Len(p.cells) THEN p.cells[k]
    ELSE Junk

\* The walk over the list meets its names and then the end, and nothing that
\* was never written.
Terminated(p) ==
    \E k \in 1..(Len(p.cells) + 1) :
        /\ NameAt(p, k) = Zero
        /\ \A m \in 1..(k - 1) : NameAt(p, m) \notin {Zero, Junk}
=============================================================================
