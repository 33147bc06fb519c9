----------------------------- MODULE MCMemoryMap -----------------------------
(* Instances of MemoryMap for TLC.                                         *)
EXTENDS MemoryMap

Load(s, n, sector, p, o) ==
    [start |-> s, len |-> n, sector |-> sector, page |-> p, offset |-> o]

\* With 4 bytes to a bank and a header of 1: nothing but a header, less than
\* a bank, one with a header, two with the last half full, the two sizes with
\* a layout of their own, and more banks than there are pages.
MCRomSizes == {0, 1, 2, 5, 6, 7, 12, 48 * 4, 48 * 4 + 1, 64 * 4, 128 * 4 - 2,
               129 * 4}

\* Loads that start in the middle of a sector or of a page, cross a page,
\* end a RAM, cross into the next RAM, leave the CD RAM, start past it or
\* on a page with nothing behind it, fill the mirrored base RAM once and
\* twice, reach the end of the image, or have a negative size.
MCRequests ==
    {Load(0, 6, 2, 128, 0), Load(1, 5, 2, 128, 2), Load(1, 5, 3, 105, 3),
     Load(2, 4, 3, 135, 0), Load(0, 2, 2, 135, 3), Load(0, 2, 2, 127, 3),
     Load(2, 4, 2, 127, 2), Load(0, 2, 2, 136, 0), Load(0, 2, 2, 32, 0),
     Load(0, 3, 2, 135, 9), Load(0, 4, 2, 248, 0), Load(0, 8, 2, 248, 0), Load(37, 3, 3, 130, 1),
     Load(0, 1000, 2, 134, 0), Load(0, 0, 2, 130, 0), Load(3, 8, 2, 255, 0)}
=============================================================================
