--------------------------- MODULE MCCodeExtract ----------------------------
(***************************************************************************)
(* Instances of CodeExtract for TLC: a machine with bytes of 3 bits and    *)
(* words of 6, eight pages of eight bytes, and one opcode of each kind.    *)
(***************************************************************************)
EXTENDS CodeExtract

MCPages == 0..7

\* rts, nop, bra, bcc, jmp, jsr, bbr0, tii
MCInstruction ==
    [b \in 0..7 |-> <<16*6, 16*14 + 10, Bra, 16*9, Jmp, Jsr, 15, 16*7 + 3>>[b + 1]]

\* Page k in slot k, except that slot 4 mirrors page 2.
Mapping == [s \in 0..7 |-> IF s = 4 THEN 2 ELSE s]

\* The registers irq_read gives a section: I/O, RAM and the first bank.
BankMapping == [s \in 0..7 |-> CASE s = 0 -> 7 [] s = 1 -> 6 [] OTHER -> 0]

\* The code section of n bytes at address a, in the page the registers map
\* there.
CodeIn(mpr, a, n) ==
    [type |-> "code", page |-> mpr[a \div 8], logical |-> a,
     offset |-> 8 * mpr[a \div 8] + (a % 8), size |-> n, mpr |-> mpr]

Code(a, n) == CodeIn(Mapping, a, n)

Data(a, n) == [Code(a, n) EXCEPT !.type = "data"]

\* A section found through an interrupt vector, and the table of the vectors
\* at the end of the first bank: they have no offset.
Vector(a) == [CodeIn(BankMapping, a, 0) EXCEPT !.offset = 0]

VectorTable == [Vector(62) EXCEPT !.type = "data", !.size = 2]

\* The bytes x, y and z and a branch from offset 1 of pages 0 and 2 on, and
\* from offset 2 of page 3; at the end of page 0, the vector (59); returns
\* elsewhere.
Image(x, y, z) ==
    [p \in MCPages |-> [o \in 0..7 |->
        CASE p \in {0, 2} /\ o \in 1..5 -> <<x, y, z, 3, 5>>[o]
          [] p = 0 /\ o \in 6..7 -> <<3, 7>>[o - 5]
          [] p = 3 /\ o \in 2..4 -> <<x, y, z>>[o - 1]
          [] OTHER -> 0]]

MCImages == {Image(x, y, z) : x, y, z \in 0..7}

\* Code of the configuration in the first bank, and behind it, after a byte
\* that is in neither, the code of the vector.
BehindCode == <<CodeIn(BankMapping, 57, 1), Vector(59), VectorTable>>

\* One unsized section; two in a page, the second sized; data behind code; a
\* section over two pages; the same page seen at two addresses; code whose
\* vector is behind a section of the page; code at the end of the address space.
MCPrograms ==
    {<<Code(17, 0)>>,
     <<Code(17, 0), Code(21, 2)>>,
     <<Code(17, 4), Data(21, 2), Code(26, 0)>>,
     <<Code(17, 12)>>,
     <<Code(17, 0), Code(33, 5)>>,
     BehindCode,
     <<Code(62, 2)>>}

VectorPrograms == {BehindCode}

\* No label, or one at a branch.
MCLabelFiles == {{}, {<<2, 20>>}}

NoLabels == {{}}
=============================================================================
