------------------------------ MODULE MemoryMap ------------------------------
(***************************************************************************)
(* The memory blocks and the page table of memory.c and memory_map.c, and  *)
(* the two ways of filling them: rom_load (rom.c) maps the file of a       *)
(* cartridge, cd_memory_map and cd_load (cd.c) allocate the RAM of the CD  *)
(* unit and copy parts of a disc image into it.                            *)
(*                                                                         *)
(* The calls come in main's order: memory_map_init, then rom_load or       *)
(* cd_memory_map, then in the second case one cd_load per section, then    *)
(* memory_map_destroy.  The loop of cd_load is one action per iteration.   *)
(* A byte is named by the file it comes from and its offset in that file.  *)
(***************************************************************************)
EXTENDS Integers, Sequences

CONSTANTS
    BankSize,     \* bytes of a bank (8192)
    HeaderSize,   \* bytes of a ROM header, a power of two (0x200)
    SectorSize,   \* user bytes of a CD sector (2048)
    RomSizes,     \* sizes of the ROM files rom_load is given
    CdSize,       \* bytes in the disc image
    Requests,     \* arguments of cd_load
    MaxLoads      \* bound: calls of cd_load

ASSUME SizesAssumption ==
    /\ BankSize \in Nat \ {0}
    /\ HeaderSize \in Nat \ {0}
    /\ SectorSize \in Nat \ {0}
    /\ RomSizes \subseteq Nat
    /\ CdSize \in Nat
    /\ MaxLoads \in Nat

PageCount == 256
Pages == 0..(PageCount - 1)

Request == [start : Nat, len : Nat, sector : Nat, page : Pages, offset : Nat]

ASSUME RequestsAssumption == Requests \subseteq Request

Blocks == {"rom", "base_ram", "cd_ram", "syscard_ram"}
NoBlock == "none"

Byte == [file : {"rom", "cd", "fill", "junk"}, at : Nat]
Junk == [file |-> "junk", at |-> 0]    \* what malloc returns
Fill == [file |-> "fill", at |-> 0]    \* 0xFF

Entry == [id : Blocks \union {NoBlock}, bank : Nat]
Unmapped == [id |-> NoBlock, bank |-> 0]

CdFirst == 128
CdBanks == 8
SyscardFirst == 104
SyscardBanks == 24
BasePages == 248..251

VARIABLES
    memory,   \* the bytes of each block; no bytes: not allocated
    page,     \* the page table
    pc,       \* "new", "ready", "rom", "cd", "copy", "failed", "gone", "dead"
    load,     \* the request cd_load works or last worked on
    done,     \* the bytes of it copied so far
    ok,       \* what the last cd_load returned
    loads     \* calls of cd_load so far

vars == <<memory, page, pc, load, done, ok, loads>>

NoRequest == [start |-> 0, len |-> 0, sector |-> 0, page |-> 0, offset |-> 0]

Empty == [b \in Blocks |-> <<>>]
Clear == [p \in Pages |-> Unmapped]

\* A new block of n banks, every byte of it c.
Banks(n, c) == [i \in 1..(n * BankSize) |-> c]

\* memory_map_read, for the page a logical address selects.
Read(p, offset) ==
    LET at == (page[p].bank * BankSize) + offset
    IN  IF page[p].id # NoBlock /\ at < Len(memory[page[p].id])
        THEN memory[page[p].id][at + 1]
        ELSE Fill

Init ==
    /\ memory = Empty
    /\ page = Clear
    /\ pc = "new"
    /\ load = NoRequest
    /\ done = 0
    /\ ok = FALSE
    /\ loads = 0

NoLoad == UNCHANGED <<load, done, ok, loads>>

\* An allocation fails, or a file cannot be opened, is empty or is short.
Fail(from) ==
    /\ pc = from
    /\ pc' = "failed"
    /\ NoLoad

InitFail == Fail("new") /\ UNCHANGED <<memory, page>>

MapInit ==
    /\ pc = "new"
    /\ pc' = "ready"
    /\ memory' = [memory EXCEPT !["base_ram"] = Banks(1, Junk)]
    /\ page' = [p \in Pages |-> IF p \in BasePages
                                THEN [id |-> "base_ram", bank |-> 0]
                                ELSE page[p]]
    /\ NoLoad

-----------------------------------------------------------------------------
(* Cartridges.                                                             *)

HasHeader(size) == (size \div HeaderSize) % 2 = 1

\* The bytes of a file that are the ROM: all but the header.
RomImage(size) ==
    IF HasHeader(size)
    THEN [skip |-> HeaderSize, count |-> size - HeaderSize]
    ELSE [skip |-> 0, count |-> size]

\* The banks that hold n bytes.
BanksFor(n) == (n + BankSize - 1) \div BankSize

\* Mutant: the 384K layout is used for 512K too.
RomBankSplit(i, n) ==
    IF n \in {48, 64}
    THEN IF i < 64 THEN i % 32 ELSE (i % 16) + 32
    ELSE i % n

\* Mutant: banks numbered from one.
RomBankFromOne(i, n) == (i % n) - 1

\* The bank page i shows when the ROM has n banks.
RomBank(i, n) ==
    IF n = 48 THEN IF i < 64 THEN i % 32 ELSE (i % 16) + 32
    ELSE IF n = 64 THEN IF i < 64 THEN i ELSE (i % 32) + 32
    ELSE i % n

\* Allocation fails, the file is empty, or it ends early: the block goes.
RomFail ==
    /\ Fail("ready")
    /\ memory' = [memory EXCEPT !["rom"] = <<>>]
    /\ page' = page

RomLoad(size) ==
    LET image == RomImage(size)
        n     == BanksFor(image.count)
    IN  /\ pc = "ready"
        /\ image.count > 0
        /\ pc' = "rom"
        /\ memory' = [memory EXCEPT !["rom"] =
               [i \in 1..(n * BankSize) |->
                   IF i <= image.count
                   THEN [file |-> "rom", at |-> image.skip + i - 1]
                   ELSE Fill]]
        /\ page' = [p \in Pages |->
               IF p < 128 THEN [id |-> "rom", bank |-> RomBank(p, n)]
               ELSE page[p]]
        /\ NoLoad

-----------------------------------------------------------------------------
(* The CD unit.                                                            *)

\* Mutant: the System Card RAM starts a page too early for its banks.
CdEntryShifted(p) ==
    IF p \in SyscardFirst..(SyscardFirst + SyscardBanks - 1)
    THEN [id |-> "syscard_ram", bank |-> p - SyscardFirst + 1]
    ELSE IF p \in CdFirst..(CdFirst + CdBanks)
         THEN [id |-> "cd_ram", bank |-> p - CdFirst]
         ELSE page[p]

\* What cd_memory_map makes of page p: the loop over the CD RAM goes one
\* page too far.
CdEntry(p) ==
    IF p \in SyscardFirst..(SyscardFirst + SyscardBanks - 1)
    THEN [id |-> "syscard_ram", bank |-> p - SyscardFirst]
    ELSE IF p \in CdFirst..(CdFirst + CdBanks)
         THEN [id |-> "cd_ram", bank |-> p - CdFirst]
         ELSE page[p]

CdMap ==
    /\ pc = "ready"
    /\ pc' = "cd"
    /\ memory' = [memory EXCEPT !["cd_ram"] = Banks(CdBanks, Junk),
                                !["syscard_ram"] = Banks(SyscardBanks, Junk)]
    /\ page' = [p \in Pages |-> CdEntry(p)]
    /\ NoLoad

\* One of the two allocations fails: memory_map_destroy.
CdMapFail ==
    /\ Fail("ready")
    /\ memory' = Empty
    /\ page' = Clear

\* cd_load opens the image, or fails to.
CdLoad(r) ==
    /\ pc = "cd"
    /\ loads < MaxLoads
    /\ loads' = loads + 1
    /\ load' = r
    /\ done' = 0
    /\ \/ pc' = "copy" /\ ok' = TRUE
       \/ pc' = "cd" /\ ok' = FALSE
    /\ UNCHANGED <<memory, page>>

\* Mutant: a chunk is a whole sector wherever the copy starts.
ChunkWhole ==
    IF load.len - done < SectorSize THEN load.len - done ELSE SectorSize

\* Mutant: the chunk may be longer than what is left to copy.
ChunkToSectorEnd == SectorSize - ((load.start + done) % SectorSize)

\* The bytes up to the end of the sector, or those that are left.
Chunk ==
    LET toEnd == SectorSize - ((load.start + done) % SectorSize)
        left  == load.len - done
    IN  IF toEnd > left THEN left ELSE toEnd

\* The offset in the image of the byte k of the disc's user data.
FileOffset(k, sector) == ((k \div SectorSize) * sector) + (k % SectorSize)

\* The first byte of a request, counted in bytes from page 0.
Physical(r) == (r.offset % BankSize) + (r.page * BankSize)

\* fread puts n bytes of the image at once into the block of the page where
\* the chunk starts, wherever the chunk ends.
Copy(n) ==
    LET phys   == Physical(load) + done
        p      == phys \div BankSize
        from   == FileOffset(load.start + done, load.sector)
        block  == memory[page[p].id]
        at     == (page[p].bank * BankSize) + (phys % BankSize)
    IN  memory' = [memory EXCEPT ![page[p].id] =
            [i \in 1..Len(block) |->
                IF i > at /\ i <= at + n
                THEN [file |-> "cd", at |-> from + (i - at - 1)]
                ELSE block[i]]]

\* There is a block behind the page the copy has come to, with n more bytes.
Room(n) ==
    LET phys == Physical(load) + done
        p    == phys \div BankSize
    IN  /\ p < PageCount
        /\ page[p].id # NoBlock
        /\ (page[p].bank * BankSize) + (phys % BankSize) + n
               <= Len(memory[page[p].id])

\* fread finds n bytes: all of the chunk, or fewer at the end of the image
\* or after an error.
CdLoadChunk(n) ==
    LET from == FileOffset(load.start + done, load.sector)
    IN  /\ pc = "copy"
        /\ ok
        /\ done < load.len
        /\ n <= Chunk
        /\ n = 0 \/ from + n <= CdSize
        /\ IF Room(n)
           THEN Copy(n) /\ pc' = "copy"
           ELSE memory' = memory /\ pc' = "dead"
        /\ ok' = (n = Chunk)
        /\ done' = done + Chunk
        /\ UNCHANGED <<page, load, loads>>

CdLoadEnd ==
    /\ pc = "copy"
    /\ ~ok \/ done >= load.len
    /\ pc' = "cd"
    /\ UNCHANGED <<memory, page, load, done, ok, loads>>

\* memory_map_destroy, which main always ends with.
Destroy ==
    /\ pc \in {"rom", "cd", "failed"}
    /\ pc' = "gone"
    /\ memory' = Empty
    /\ page' = Clear
    /\ NoLoad

Next ==
    \/ InitFail \/ MapInit
    \/ RomFail \/ \E size \in RomSizes : RomLoad(size)
    \/ CdMap \/ CdMapFail
    \/ \E r \in Requests : CdLoad(r)
    \/ \E n \in 0..SectorSize : CdLoadChunk(n)
    \/ CdLoadEnd
    \/ Destroy

Spec == Init /\ [][Next]_vars

-----------------------------------------------------------------------------
(* Properties.                                                             *)

\* Every variable has its type: the page table covers the 256 pages whatever
\* was loaded.
TypeOK ==
    /\ memory \in [Blocks -> Seq(Byte)]
    /\ page \in [Pages -> Entry]
    /\ pc \in {"new", "ready", "rom", "cd", "copy", "failed", "gone", "dead"}
    /\ load \in Request
    /\ done \in Nat
    /\ ok \in BOOLEAN
    /\ loads \in 0..MaxLoads

\* The page after the CD RAM is mapped to a bank the RAM does not have.
PastCdRam == CdFirst + CdBanks

InsideBlock(p) ==
    (page[p].bank + 1) * BankSize <= Len(memory[page[p].id])

\* A page is never mapped to a bank its block does not have, at whatever
\* moment and however an initialisation failed; the page after the CD RAM is
\* the one exception (memory_map_read and cd_load index blocks by it).
MappedInside ==
    \A p \in Pages \ {PastCdRam} : page[p].id # NoBlock => InsideBlock(p)

\* Once a cartridge of at most 128 banks is loaded, every byte of it can be
\* read through some page, at its place in its bank, and what the file does
\* not fill of its last bank reads as 0xFF (rom.c, memory_map_read).
RomVisible ==
    pc = "rom" => \E size \in RomSizes :
        LET image == RomImage(size)
            n     == BanksFor(image.count)
        IN  /\ n * BankSize = Len(memory["rom"])
            /\ \A b \in 0..(n - 1) : b < 128 =>
                   \E p \in 0..127 : \A o \in 0..(BankSize - 1) :
                       Read(p, o) =
                           IF b * BankSize + o < image.count
                           THEN [file |-> "rom",
                                 at |-> image.skip + b * BankSize + o]
                           ELSE Fill

\* The pages that a request covers, and whether they are banks in a row of
\* one block.
FirstPage(r) == Physical(r) \div BankSize
LastPage(r) == (Physical(r) + r.len - 1) \div BankSize

InOneBlock(r) ==
    \A p \in FirstPage(r)..LastPage(r) :
        /\ p \in Pages
        /\ page[p].id # NoBlock
        /\ page[p].id = page[FirstPage(r)].id
        /\ page[p].bank = page[FirstPage(r)].bank + (p - FirstPage(r))
        /\ InsideBlock(p)

\* After a cd_load that succeeded, and whose pages are banks in a row, every
\* page it covers shows the bytes of the disc it asked for, sector by sector,
\* although the copy goes by sectors and takes no notice of pages.
LoadShows ==
    pc = "cd" /\ ok /\ InOneBlock(load) =>
        \A k \in 0..(load.len - 1) :
            LET phys == Physical(load) + k
            IN  Read(phys \div BankSize, phys % BankSize) =
                    [file |-> "cd",
                     at |-> FileOffset(load.start + k, load.sector)]

\* cd_load writes outside a block only when its pages are not banks in a row
\* of one block: it never does so for a section inside one RAM.
DiesOnlyOutside == pc = "dead" => ~InOneBlock(load)
=============================================================================
