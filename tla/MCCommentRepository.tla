------------------------ MODULE MCCommentRepository -------------------------
(* Instances of CommentRepository for TLC.                                 *)
EXTENDS CommentRepository, TLC

CONSTANTS ram, rom, line, lines, quote

MCLogicals == 0..1
\* One range that covers a page, and empty ones.
MCBounds == {0, 2}

Element(p, l, t) == [page |-> p, logical |-> l, text |-> t]

\* An address twice, with a text of several lines; and a file that ends badly.
MCFiles ==
    {<<Element(ram, 0, line), Element(rom, 1, lines), Element(ram, 0, quote)>>,
     <<Element(rom, 0, line), Invalid, Element(ram, 1, line)>>}

=============================================================================
