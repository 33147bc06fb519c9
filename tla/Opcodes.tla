------------------------------ MODULE Opcodes -------------------------------
(***************************************************************************)
(* What the walks over code need to know of the instruction set of         *)
(* opcodes.c: the size of each opcode, and which ones jump or return.      *)
(***************************************************************************)
EXTENDS Integers

Opcode == 0..255

Low(op) == op % 16

OddRow(op) == (op \div 16) % 2 = 1

\* The unused opcodes whose neighbours in the table are longer.
Unused == {16*3 + 3, 16*5 + 12, 16*6 + 3, 16*13 + 12, 16*15 + 12}

\* brk, rti, rts, csl, csh and set.
Implied == {0, 16*4, 16*6, 16*5 + 4, 16*13 + 4, 16*15 + 4}

\* tii, tdd, tin, tia and tai.
BlockMove == {16*7 + 3, 16*12 + 3, 16*13 + 3, 16*14 + 3, 16*15 + 3}

\* tst with an address, and tst with a zero page address.
TestLong == {16*9 + 3, 16*11 + 3}
TestShort == {16*8 + 3, 16*10 + 3}

Jmp == 16*4 + 12
Jsr == 16*2
Bra == 16*8
Bsr == 16*4 + 4

\* The size column of pce_opcode.
Size(op) ==
    CASE op \in BlockMove -> 7
      [] op \in TestLong -> 4
      [] op \in TestShort \union {Jsr} -> 3
      [] op \in Unused \union Implied -> 1
      [] Low(op) \in 12..15 -> 3
      [] Low(op) = 9 /\ OddRow(op) -> 3
      [] Low(op) \in {8, 10, 11} -> 1
      [] Low(op) = 2 /\ ~OddRow(op) /\ op # 16*10 + 2 -> 1
      [] OTHER -> 2

\* bbr* and bbs* keep their displacement in their second operand.
IsBitBranch(op) == Low(op) = 15

\* opcode_is_local_jump: bit branches, the eight conditional branches (every
\* other row of column 0), bra and bsr.
IsLocalJump(op) ==
    \/ IsBitBranch(op)
    \/ Low(op) = 0 /\ OddRow(op)
    \/ op \in {Bra, Bsr}

\* opcode_is_far_jump
IsFarJump(op) == op \in {Jmp, Jsr}

\* rti, rts and brk, which end a routine for decode and compute_size.
IsReturn(op) == op \in {0, 16*4, 16*6}
=============================================================================
