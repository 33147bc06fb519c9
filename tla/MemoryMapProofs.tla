--------------------------- MODULE MemoryMapProofs ---------------------------
(***************************************************************************)
(* What holds of the memory map for every size of bank, header, sector and *)
(* file, and for every request.                                            *)
(***************************************************************************)
EXTENDS MemoryMap, TLAPS

-----------------------------------------------------------------------------
(* Arithmetic.                                                             *)

LEMMA Division ==
    ASSUME NEW a \in Nat, NEW k \in Nat \ {0}
    PROVE  /\ a \div k \in Nat
           /\ a % k \in 0..(k - 1)
           /\ a = (a \div k) * k + (a % k)
  OBVIOUS

LEMMA Products ==
    ASSUME NEW a \in Int, NEW b \in Int, NEW k \in Nat
    PROVE  /\ a * k \in Int
           /\ (a + b) * k = a * k + b * k
           /\ (a - b) * k = a * k - b * k
           /\ (a + 1) * k = a * k + k
           /\ a <= b => a * k <= b * k
           /\ a \in Nat => a * k \in Nat
  OBVIOUS

\* The quotient is the only number with a remainder less than the divisor.
LEMMA Quotient ==
    ASSUME NEW a \in Nat, NEW k \in Nat \ {0}, NEW q \in Int, NEW r \in 0..(k - 1),
           a = q * k + r
    PROVE  q = a \div k /\ r = a % k
  OBVIOUS

LEMMA SmallRemainder ==
    ASSUME NEW k \in Nat \ {0}, NEW a \in 0..(k - 1)
    PROVE  a % k = a
  OBVIOUS

LEMMA QuotientMonotone ==
    ASSUME NEW a \in Nat, NEW b \in Nat, NEW k \in Nat \ {0}, a <= b
    PROVE  a \div k <= b \div k
  OBVIOUS

-----------------------------------------------------------------------------
(* Types.                                                                  *)

LEMMA ByteSeq ==
    ASSUME NEW m \in Nat, NEW f, f = [j \in 1..m |-> f[j]],
           \A j \in 1..m : f[j] \in Byte
    PROVE  f \in Seq(Byte) /\ Len(f) = m
  OBVIOUS

LEMMA FillIsByte == Fill \in Byte /\ Junk \in Byte
  BY DEF Fill, Junk, Byte

LEMMA EmptyType == Empty \in [Blocks -> Seq(Byte)] /\ Clear \in [Pages -> Entry]
  BY DEF Empty, Clear, Unmapped, Entry

LEMMA BanksType ==
    ASSUME NEW m \in Nat, NEW c \in Byte
    PROVE  Banks(m, c) \in Seq(Byte) /\ Len(Banks(m, c)) = m * BankSize
  <1>1. m * BankSize \in Nat
    BY Products, SizesAssumption
  <1> QED BY <1>1 DEF Banks

\* Bytes of the files.
LEMMA FileByte ==
    ASSUME NEW f \in {"rom", "cd"}, NEW a \in Nat
    PROVE  [file |-> f, at |-> a] \in Byte
  BY DEF Byte

\* The block rom_load makes.
RomBlock(size) ==
    [j \in 1..(BanksFor(RomImage(size).count) * BankSize) |->
        IF j <= RomImage(size).count
        THEN [file |-> "rom", at |-> RomImage(size).skip + j - 1]
        ELSE Fill]

LEMMA RomImageType ==
    ASSUME NEW size \in RomSizes
    PROVE  RomImage(size).count \in Int /\ RomImage(size).skip \in Nat
  BY SizesAssumption DEF RomImage

\* There are enough banks for the bytes, and at least one.
LEMMA BanksForType ==
    ASSUME NEW c \in Nat \ {0}
    PROVE  /\ BanksFor(c) \in Nat \ {0}
           /\ c <= BanksFor(c) * BankSize
           /\ BanksFor(c) * BankSize \in Nat
  <1>1. BankSize \in Nat \ {0} /\ c + BankSize - 1 \in Nat
    BY SizesAssumption
  <1> DEFINE d == c + BankSize - 1
  <1>2. /\ d \div BankSize \in Nat
        /\ d % BankSize \in 0..(BankSize - 1)
        /\ d = (d \div BankSize) * BankSize + (d % BankSize)
    BY <1>1, Division
  <1>3. (d \div BankSize) * BankSize \in Nat
    BY <1>1, <1>2, Products
  <1>4. c <= (d \div BankSize) * BankSize
    BY <1>1, <1>2, <1>3
  <1>5. d \div BankSize # 0
    <2>1. SUFFICES ASSUME d \div BankSize = 0 PROVE FALSE
      OBVIOUS
    <2>2. (d \div BankSize) * BankSize = 0
      BY <1>1, <2>1
    <2> QED BY <1>4, <2>2
  <1> QED BY <1>2, <1>3, <1>4, <1>5 DEF BanksFor

LEMMA RomBlockType ==
    ASSUME NEW size \in RomSizes, RomImage(size).count > 0
    PROVE  /\ RomBlock(size) \in Seq(Byte)
           /\ Len(RomBlock(size)) = BanksFor(RomImage(size).count) * BankSize
  <1> DEFINE m == BanksFor(RomImage(size).count) * BankSize
             f == RomBlock(size)
  <1>1. m \in Nat
    BY RomImageType, BanksForType
  <1>2. f = [j \in 1..m |-> f[j]]
    BY DEF RomBlock
  <1>3. \A j \in 1..m : f[j] \in Byte
    <2>1. SUFFICES ASSUME NEW j \in 1..m PROVE f[j] \in Byte
      OBVIOUS
    <2>2. RomImage(size).skip + j - 1 \in Nat
      BY <1>1, RomImageType
    <2> QED BY <2>2, FileByte, FillIsByte DEF RomBlock
  <1> HIDE DEF m, f
  <1>4. f \in Seq(Byte) /\ Len(f) = m
    BY <1>1, <1>2, <1>3, ByteSeq
  <1> QED BY <1>4 DEF m, f

\* Every page of a cartridge shows one of its banks.
LEMMA RomBankType ==
    ASSUME NEW p \in 0..127, NEW n \in Nat \ {0}
    PROVE  RomBank(p, n) \in 0..(n - 1)
  <1>1. p % n \in 0..(n - 1)
    BY Division
  <1> QED BY <1>1 DEF RomBank

\* The copy under way.
From == FileOffset(load.start + done, load.sector)
Phys == Physical(load) + done
Here == Phys \div BankSize
At == (page[Here].bank * BankSize) + (Phys % BankSize)

LEMMA OffsetType ==
    ASSUME NEW k \in Nat, NEW sector \in Nat
    PROVE  FileOffset(k, sector) \in Nat
  <1>1. k \div SectorSize \in Nat /\ k % SectorSize \in Nat
    BY Division, SizesAssumption
  <1>2. (k \div SectorSize) * sector \in Nat
    BY <1>1, Products
  <1> QED BY <1>1, <1>2 DEF FileOffset

LEMMA PhysicalType ==
    ASSUME NEW r \in Request
    PROVE  Physical(r) \in Nat
  <1>1. r.offset \in Nat /\ r.page \in Nat
    BY DEF Request, Pages, PageCount
  <1>2. BankSize \in Nat \ {0}
    BY SizesAssumption
  <1>3. r.offset % BankSize \in Nat
    BY <1>1, <1>2, Division
  <1>4. r.page * BankSize \in Nat
    BY <1>1, <1>2, Products
  <1> QED BY <1>3, <1>4 DEF Physical

LEMMA CopyPoint ==
    ASSUME TypeOK
    PROVE  /\ From \in Nat /\ Phys \in Nat /\ Here \in Nat
           /\ Here \in Pages => At \in Nat
  <1>1. load.start + done \in Nat /\ load.sector \in Nat
    BY DEF TypeOK, Request
  <1>2. Phys \in Nat
    BY PhysicalType DEF TypeOK, Phys
  <1>3. Here \in Nat /\ Phys % BankSize \in Nat
    BY <1>2, Division, SizesAssumption DEF Here
  <1>4. ASSUME Here \in Pages PROVE At \in Nat
    <2>1. page[Here].bank \in Nat
      BY <1>4 DEF TypeOK, Entry
    <2>2. page[Here].bank * BankSize \in Nat
      BY <2>1, Products, SizesAssumption
    <2> QED BY <1>3, <2>2 DEF At
  <1> QED BY <1>1, <1>2, <1>3, <1>4, OffsetType DEF From

LEMMA ChunkType ==
    ASSUME TypeOK, done < load.len
    PROVE  /\ Chunk \in Nat
           /\ Chunk <= load.len - done
           /\ Chunk <= SectorSize - ((load.start + done) % SectorSize)
           /\ Chunk > 0
  <1>1. load.start + done \in Nat /\ load.len - done \in Nat \ {0}
    BY DEF TypeOK, Request
  <1>2. (load.start + done) % SectorSize \in 0..(SectorSize - 1)
    BY <1>1, Division, SizesAssumption
  <1> QED BY <1>1, <1>2, SizesAssumption DEF Chunk

\* What a chunk of n bytes makes of a block.
Copied(block, n) ==
    [j \in 1..Len(block) |->
        IF j > At /\ j <= At + n THEN [file |-> "cd", at |-> From + (j - At - 1)]
        ELSE block[j]]

LEMMA CopiedType ==
    ASSUME TypeOK, Here \in Pages, NEW block \in Seq(Byte), NEW n \in Nat
    PROVE  /\ Copied(block, n) \in Seq(Byte)
           /\ Len(Copied(block, n)) = Len(block)
  <1> DEFINE f == Copied(block, n)
  <1>1. f = [j \in 1..Len(block) |-> f[j]]
    BY DEF Copied
  <1>2. \A j \in 1..Len(block) : f[j] \in Byte
    <2>1. SUFFICES ASSUME NEW j \in 1..Len(block) PROVE f[j] \in Byte
      OBVIOUS
    <2>2. block[j] \in Byte
      OBVIOUS
    <2>3. CASE j > At /\ j <= At + n
      <3>1. From + (j - At - 1) \in Nat
        BY <2>3, CopyPoint
      <3> QED BY <2>3, <3>1, FileByte DEF Copied
    <2>4. CASE ~(j > At /\ j <= At + n)
      BY <2>2, <2>4 DEF Copied
    <2> QED BY <2>3, <2>4
  <1>3. Len(block) \in Nat
    OBVIOUS
  <1> HIDE DEF f
  <1>4. f \in Seq(Byte) /\ Len(f) = Len(block)
    BY <1>1, <1>2, <1>3, ByteSeq
  <1> QED BY <1>4 DEF f

LEMMA CopyResult ==
    ASSUME TypeOK, NEW n \in 0..SectorSize, Room(n), Copy(n)
    PROVE  /\ Here \in Pages /\ page[Here].id \in Blocks
           /\ At + n <= Len(memory[page[Here].id])
           /\ memory' = [memory EXCEPT ![page[Here].id] =
                                           Copied(memory[page[Here].id], n)]
           /\ memory' \in [Blocks -> Seq(Byte)]
           /\ \A b \in Blocks : Len(memory'[b]) = Len(memory[b])
  <1>1. Here \in Pages /\ page[Here].id # NoBlock /\ At + n <= Len(memory[page[Here].id])
    <2>1. Here \in Nat
      BY CopyPoint
    <2>2. Here < PageCount /\ page[Here].id # NoBlock
      BY DEF Room, Here, Phys
    <2>3. At + n <= Len(memory[page[Here].id])
      BY DEF Room, Here, Phys, At
    <2> QED BY <2>1, <2>2, <2>3 DEF Pages, PageCount
  <1>2. page[Here].id \in Blocks
    BY <1>1 DEF TypeOK, Entry
  <1>3. memory' = [memory EXCEPT ![page[Here].id] = Copied(memory[page[Here].id], n)]
    BY DEF Copy, Copied, Here, Phys, At, From
  <1>4. memory[page[Here].id] \in Seq(Byte) /\ n \in Nat
    BY <1>2, SizesAssumption DEF TypeOK
  <1>5. /\ Copied(memory[page[Here].id], n) \in Seq(Byte)
        /\ Len(Copied(memory[page[Here].id], n)) = Len(memory[page[Here].id])
    BY <1>1, <1>4, CopiedType
  <1>6. memory \in [Blocks -> Seq(Byte)]
    BY DEF TypeOK
  <1> HIDE DEF Byte, Blocks
  <1> QED BY <1>1, <1>2, <1>3, <1>5, <1>6

-----------------------------------------------------------------------------
(* Type correctness.                                                       *)

LEMMA MapInitType ==
    ASSUME TypeOK, MapInit
    PROVE  memory' \in [Blocks -> Seq(Byte)] /\ page' \in [Pages -> Entry]
  <1>1. Banks(1, Junk) \in Seq(Byte)
    BY BanksType, FillIsByte
  <1>2. memory \in [Blocks -> Seq(Byte)] /\ page \in [Pages -> Entry]
    BY DEF TypeOK
  <1>3. [id |-> "base_ram", bank |-> 0] \in Entry
    BY DEF Entry, Blocks
  <1>4. page' \in [Pages -> Entry]
    BY <1>2, <1>3 DEF MapInit
  <1>5. memory' \in [Blocks -> Seq(Byte)]
    BY <1>1, <1>2 DEF MapInit
  <1> QED BY <1>4, <1>5

\* What RomLoad makes of the two tables.
LEMMA RomLoadResult ==
    ASSUME TypeOK, NEW size \in RomSizes, RomLoad(size)
    PROVE  /\ memory' = [memory EXCEPT !["rom"] = RomBlock(size)]
           /\ page' = [p \in Pages |->
                 IF p < 128
                 THEN [id |-> "rom", bank |-> RomBank(p, BanksFor(RomImage(size).count))]
                 ELSE page[p]]
           /\ RomImage(size).count > 0
           /\ BanksFor(RomImage(size).count) \in Nat \ {0}
           /\ memory' \in [Blocks -> Seq(Byte)]
           /\ page' \in [Pages -> Entry]
  <1>1. memory' = [memory EXCEPT !["rom"] = RomBlock(size)]
    BY DEF RomLoad, RomBlock
  <1>2. page' = [p \in Pages |->
                 IF p < 128
                 THEN [id |-> "rom", bank |-> RomBank(p, BanksFor(RomImage(size).count))]
                 ELSE page[p]]
    BY DEF RomLoad
  <1>3. RomImage(size).count > 0
    BY DEF RomLoad
  <1>4. BanksFor(RomImage(size).count) \in Nat \ {0}
    BY <1>3, RomImageType, BanksForType
  <1>5. memory \in [Blocks -> Seq(Byte)] /\ page \in [Pages -> Entry]
    BY DEF TypeOK
  <1>6. memory' \in [Blocks -> Seq(Byte)]
    BY <1>1, <1>3, <1>5, RomBlockType
  <1>7. \A p \in Pages : page'[p] \in Entry
    <2>1. SUFFICES ASSUME NEW p \in Pages PROVE page'[p] \in Entry
      OBVIOUS
    <2>2. CASE p < 128
      <3>1. p \in 0..127
        BY <2>2 DEF Pages, PageCount
      <3>2. RomBank(p, BanksFor(RomImage(size).count)) \in Nat
        <4> DEFINE m == BanksFor(RomImage(size).count)
        <4>1. m \in Nat \ {0}
          BY <1>4
        <4> HIDE DEF m
        <4>2. RomBank(p, m) \in 0..(m - 1)
          BY <3>1, <4>1, RomBankType
        <4>3. RomBank(p, m) \in Nat
          BY <4>1, <4>2
        <4> QED BY <4>3 DEF m
      <3> QED BY <1>2, <2>2, <3>2 DEF Entry, Blocks
    <2>3. CASE ~(p < 128)
      BY <1>2, <1>5, <2>3
    <2> QED BY <2>2, <2>3
  <1>8. page' \in [Pages -> Entry]
    BY <1>2, <1>7
  <1> QED BY <1>1, <1>2, <1>3, <1>4, <1>6, <1>8

\* The RAM of the CD unit.
LEMMA CdMapType ==
    ASSUME TypeOK, CdMap
    PROVE  memory' \in [Blocks -> Seq(Byte)] /\ page' \in [Pages -> Entry]
  <1>1. Banks(CdBanks, Junk) \in Seq(Byte) /\ Banks(SyscardBanks, Junk) \in Seq(Byte)
    <2>1. CdBanks \in Nat /\ SyscardBanks \in Nat
      BY DEF CdBanks, SyscardBanks
    <2> QED BY <2>1, BanksType, FillIsByte
  <1>2. memory \in [Blocks -> Seq(Byte)] /\ page \in [Pages -> Entry]
    BY DEF TypeOK
  <1>3. \A p \in Pages : CdEntry(p) \in Entry
    <2>1. SUFFICES ASSUME NEW p \in Pages PROVE CdEntry(p) \in Entry
      OBVIOUS
    <2>2. CASE p \in SyscardFirst..(SyscardFirst + SyscardBanks - 1)
      <3>1. p - SyscardFirst \in Nat
        BY <2>2 DEF SyscardFirst, SyscardBanks
      <3> QED BY <2>2, <3>1 DEF CdEntry, Entry, Blocks
    <2>3. CASE p \notin SyscardFirst..(SyscardFirst + SyscardBanks - 1)
      <3>1. page[p] \in Entry
        BY <1>2
      <3>2. p \in CdFirst..(CdFirst + CdBanks) => p - CdFirst \in Nat
        BY DEF CdFirst, CdBanks
      <3> QED BY <2>3, <3>1, <3>2 DEF CdEntry, Entry, Blocks
    <2> QED BY <2>2, <2>3
  <1>4. page' \in [Pages -> Entry]
    BY <1>3 DEF CdMap
  <1>5. memory' \in [Blocks -> Seq(Byte)]
    BY <1>1, <1>2 DEF CdMap
  <1> QED BY <1>4, <1>5

LEMMA ChunkStepType ==
    ASSUME TypeOK, NEW n \in 0..SectorSize, CdLoadChunk(n)
    PROVE  /\ memory' \in [Blocks -> Seq(Byte)]
           /\ \A b \in Blocks : Len(memory'[b]) = Len(memory[b])
           /\ done' \in Nat
           /\ pc' \in {"copy", "dead"}
  <1>1. done' \in Nat
    BY ChunkType DEF CdLoadChunk, TypeOK
  <1>2. CASE Room(n)
    <2>1. Copy(n) /\ pc' = "copy"
      BY <1>2 DEF CdLoadChunk
    <2>2. /\ memory' \in [Blocks -> Seq(Byte)]
          /\ \A b \in Blocks : Len(memory'[b]) = Len(memory[b])
      BY <1>2, <2>1, CopyResult
    <2> QED BY <1>1, <2>1, <2>2
  <1>3. CASE ~Room(n)
    BY <1>1, <1>3 DEF CdLoadChunk, TypeOK
  <1> QED BY <1>2, <1>3

\* Blocks keep their types, and the page table its 256 entries, for every
\* file and request.
THEOREM TypeCorrect == Spec => []TypeOK
  <1>1. Init => TypeOK
    <2>1. NoRequest \in Request
      BY DEF NoRequest, Request, Pages, PageCount
    <2>2. 0 \in 0..MaxLoads
      BY SizesAssumption
    <2>3. ASSUME Init PROVE ok \in BOOLEAN /\ pc = "new"
      BY <2>3 DEF Init
    <2>4. ASSUME Init
          PROVE  /\ memory \in [Blocks -> Seq(Byte)] /\ page \in [Pages -> Entry]
                 /\ load \in Request /\ done \in Nat /\ loads \in 0..MaxLoads
      BY <2>1, <2>2, <2>4, EmptyType DEF Init
    <2> QED BY <2>3, <2>4 DEF TypeOK
  <1>2. TypeOK /\ [Next]_vars => TypeOK'
    <2> SUFFICES ASSUME TypeOK, [Next]_vars PROVE TypeOK'
      OBVIOUS
    <2>1. /\ memory \in [Blocks -> Seq(Byte)]
          /\ page \in [Pages -> Entry]
          /\ load \in Request /\ done \in Nat
          /\ ok \in BOOLEAN /\ loads \in 0..MaxLoads
      BY DEF TypeOK
    <2>2. CASE InitFail
      BY <2>2 DEF InitFail, Fail, NoLoad, TypeOK
    <2>3. CASE MapInit
      BY <2>3, MapInitType DEF MapInit, NoLoad, TypeOK
    <2>4. CASE RomFail
      <3>1. memory' \in [Blocks -> Seq(Byte)]
        <4>1. <<>> \in Seq(Byte)
          OBVIOUS
        <4> QED BY <2>1, <2>4, <4>1 DEF RomFail
      <3> QED BY <2>4, <3>1 DEF RomFail, Fail, NoLoad, TypeOK
    <2>5. ASSUME NEW size \in RomSizes, RomLoad(size) PROVE TypeOK'
      BY <2>5, RomLoadResult DEF RomLoad, NoLoad, TypeOK
    <2>6. CASE CdMap
      BY <2>6, CdMapType DEF CdMap, NoLoad, TypeOK
    <2>7. CASE CdMapFail
      BY <2>7, EmptyType DEF CdMapFail, Fail, NoLoad, TypeOK
    <2>8. ASSUME NEW r \in Requests, CdLoad(r) PROVE TypeOK'
      <3>1. r \in Request
        BY RequestsAssumption
      <3>2. loads' \in 0..MaxLoads
        BY <2>1, <2>8, SizesAssumption DEF CdLoad
      <3>3. pc' \in {"copy", "cd"} /\ ok' \in BOOLEAN /\ done' = 0 /\ load' = r
            /\ memory' = memory /\ page' = page
        BY <2>8 DEF CdLoad
      <3> QED BY <2>1, <3>1, <3>2, <3>3 DEF TypeOK
    <2>9. ASSUME NEW n \in 0..SectorSize, CdLoadChunk(n) PROVE TypeOK'
      <3>1. ok' \in BOOLEAN /\ UNCHANGED <<page, load, loads>>
        BY <2>9 DEF CdLoadChunk
      <3> QED BY <2>1, <2>9, <3>1, ChunkStepType DEF TypeOK
    <2>10. CASE CdLoadEnd
      BY <2>10 DEF CdLoadEnd, TypeOK
    <2>11. CASE Destroy
      BY <2>11, EmptyType DEF Destroy, NoLoad, TypeOK
    <2>12. CASE UNCHANGED vars
      BY <2>12 DEF vars, TypeOK
    <2> QED BY <2>2, <2>3, <2>4, <2>5, <2>6, <2>7, <2>8, <2>9, <2>10, <2>11, <2>12
            DEF Next
  <1> QED BY <1>1, <1>2, PTL DEF Spec

-----------------------------------------------------------------------------
(* Pages and blocks.                                                       *)

\* Before a cartridge or a disc is mapped, only the base RAM can be behind a
\* page, so that nothing points into the blocks that are made next.
PagesInv ==
    /\ pc = "new" => page = Clear
    /\ pc = "ready" => \A p \in Pages : page[p].id \in {NoBlock, "base_ram"}
    /\ MappedInside

LEMMA InsideIf ==
    ASSUME NEW b \in Nat, NEW n \in Nat, b < n
    PROVE  (b + 1) * BankSize <= n * BankSize
  <1>1. BankSize \in Nat /\ b + 1 \in Int /\ n \in Int /\ b + 1 <= n
    BY SizesAssumption
  <1> QED BY <1>1, Products

LEMMA ClearPages ==
    ASSUME page' = Clear
    PROVE  MappedInside' /\ \A p \in Pages : page'[p].id = NoBlock
  BY DEF MappedInside, Clear, Unmapped

\* Pages keep what is behind them while no block gets shorter.
LEMMA SamePages ==
    ASSUME TypeOK, PagesInv, page' = page,
           \A b \in Blocks : Len(memory'[b]) = Len(memory[b])
    PROVE  MappedInside'
  <1>1. SUFFICES ASSUME NEW p \in Pages \ {PastCdRam}, page[p].id # NoBlock
                 PROVE  InsideBlock(p)'
    BY DEF MappedInside
  <1>2. page[p].id \in Blocks
    BY <1>1 DEF TypeOK, Entry
  <1>3. InsideBlock(p)
    BY <1>1 DEF PagesInv, MappedInside
  <1> QED BY <1>2, <1>3 DEF InsideBlock

LEMMA MapInitPages ==
    ASSUME TypeOK, PagesInv, MapInit
    PROVE  PagesInv'
  <1>1. page = Clear /\ memory \in [Blocks -> Seq(Byte)] /\ pc' = "ready"
    BY DEF MapInit, PagesInv, TypeOK
  <1>2. /\ memory'["base_ram"] = Banks(1, Junk)
        /\ \A p \in Pages : page'[p] = IF p \in BasePages
                                       THEN [id |-> "base_ram", bank |-> 0]
                                       ELSE Unmapped
    BY <1>1 DEF MapInit, Clear, Blocks
  <1>3. Len(Banks(1, Junk)) = 1 * BankSize
    BY BanksType, FillIsByte
  <1>4. (0 + 1) * BankSize <= 1 * BankSize
    BY InsideIf
  <1>5. \A p \in Pages : page'[p].id \in {NoBlock, "base_ram"}
    BY <1>2 DEF Unmapped
  <1>6. ASSUME NEW p \in Pages, page'[p].id # NoBlock
        PROVE  InsideBlock(p)'
    <2>1. page'[p] = [id |-> "base_ram", bank |-> 0]
      BY <1>2, <1>6 DEF Unmapped
    <2> QED BY <1>2, <1>3, <1>4, <2>1 DEF InsideBlock
  <1> QED BY <1>1, <1>5, <1>6 DEF PagesInv, MappedInside

LEMMA RomLoadPages ==
    ASSUME TypeOK, PagesInv, NEW size \in RomSizes, RomLoad(size)
    PROVE  PagesInv'
  <1> DEFINE n == BanksFor(RomImage(size).count)
  <1>1. /\ memory' = [memory EXCEPT !["rom"] = RomBlock(size)]
        /\ page' = [p \in Pages |->
              IF p < 128 THEN [id |-> "rom", bank |-> RomBank(p, n)] ELSE page[p]]
        /\ n \in Nat \ {0}
        /\ RomImage(size).count > 0
    BY RomLoadResult
  <1>2. Len(RomBlock(size)) = n * BankSize
    BY <1>1, RomBlockType
  <1>3. /\ memory \in [Blocks -> Seq(Byte)]
        /\ pc = "ready" /\ pc' = "rom"
    BY DEF TypeOK, RomLoad
  <1> HIDE DEF n
  <1>4. ASSUME NEW p \in Pages \ {PastCdRam}, page'[p].id # NoBlock
        PROVE  InsideBlock(p)'
    <2>1. CASE p < 128
      <3>1. p \in 0..127
        BY <2>1 DEF Pages, PageCount
      <3>2. RomBank(p, n) \in 0..(n - 1)
        BY <1>1, <3>1, RomBankType
      <3>3. (RomBank(p, n) + 1) * BankSize <= n * BankSize
        BY <1>1, <3>2, InsideIf
      <3>4. page'[p] = [id |-> "rom", bank |-> RomBank(p, n)]
        BY <1>1, <2>1
      <3>5. memory'["rom"] = RomBlock(size)
        BY <1>1, <1>3 DEF Blocks
      <3> QED BY <1>2, <3>3, <3>4, <3>5 DEF InsideBlock
    <2>2. CASE ~(p < 128)
      <3>1. page'[p] = page[p] /\ page[p].id = "base_ram"
        BY <1>1, <1>3, <1>4, <2>2 DEF PagesInv
      <3>2. memory'["base_ram"] = memory["base_ram"]
        BY <1>1, <1>3
      <3>3. InsideBlock(p)
        BY <1>4, <3>1 DEF PagesInv, MappedInside, NoBlock
      <3> QED BY <3>1, <3>2, <3>3 DEF InsideBlock
    <2> QED BY <2>1, <2>2
  <1> QED BY <1>3, <1>4 DEF PagesInv, MappedInside

LEMMA CdMapPages ==
    ASSUME TypeOK, PagesInv, CdMap
    PROVE  PagesInv'
  <1>1. /\ memory \in [Blocks -> Seq(Byte)]
        /\ pc = "ready" /\ pc' = "cd"
        /\ \A p \in Pages : page'[p] = CdEntry(p)
    BY DEF TypeOK, CdMap
  <1>2. /\ memory'["cd_ram"] = Banks(CdBanks, Junk)
        /\ memory'["syscard_ram"] = Banks(SyscardBanks, Junk)
        /\ memory'["base_ram"] = memory["base_ram"]
    BY <1>1 DEF CdMap, Blocks
  <1>3. /\ Len(Banks(CdBanks, Junk)) = CdBanks * BankSize
        /\ Len(Banks(SyscardBanks, Junk)) = SyscardBanks * BankSize
    <2>1. CdBanks \in Nat /\ SyscardBanks \in Nat
      BY DEF CdBanks, SyscardBanks
    <2> QED BY <2>1, BanksType, FillIsByte
  <1>4. ASSUME NEW p \in Pages \ {PastCdRam}, page'[p].id # NoBlock
        PROVE  InsideBlock(p)'
    <2>1. CASE p \in SyscardFirst..(SyscardFirst + SyscardBanks - 1)
      <3>1. p - SyscardFirst \in Nat /\ SyscardBanks \in Nat
            /\ p - SyscardFirst < SyscardBanks
        BY <2>1 DEF SyscardFirst, SyscardBanks
      <3>2. (p - SyscardFirst + 1) * BankSize <= SyscardBanks * BankSize
        BY <3>1, InsideIf
      <3>3. page'[p] = [id |-> "syscard_ram", bank |-> p - SyscardFirst]
        BY <1>1, <2>1 DEF CdEntry
      <3> QED BY <1>2, <1>3, <3>2, <3>3 DEF InsideBlock
    <2>2. CASE /\ p \notin SyscardFirst..(SyscardFirst + SyscardBanks - 1)
               /\ p \in CdFirst..(CdFirst + CdBanks)
      <3>1. p - CdFirst \in Nat /\ CdBanks \in Nat /\ p - CdFirst < CdBanks
        BY <2>2 DEF CdFirst, CdBanks, PastCdRam
      <3>2. (p - CdFirst + 1) * BankSize <= CdBanks * BankSize
        BY <3>1, InsideIf
      <3>3. page'[p] = [id |-> "cd_ram", bank |-> p - CdFirst]
        BY <1>1, <2>2 DEF CdEntry
      <3> QED BY <1>2, <1>3, <3>2, <3>3 DEF InsideBlock
    <2>3. CASE /\ p \notin SyscardFirst..(SyscardFirst + SyscardBanks - 1)
               /\ p \notin CdFirst..(CdFirst + CdBanks)
      <3>1. page'[p] = page[p] /\ page[p].id = "base_ram"
        BY <1>1, <1>4, <2>3 DEF CdEntry, PagesInv
      <3>2. InsideBlock(p)
        BY <1>4, <3>1 DEF PagesInv, MappedInside, NoBlock
      <3> QED BY <1>2, <3>1, <3>2 DEF InsideBlock
    <2> QED BY <2>1, <2>2, <2>3
  <1> QED BY <1>1, <1>4 DEF PagesInv, MappedInside

LEMMA PagesInvariant == Spec => []PagesInv
  <1>1. Init => PagesInv
    BY DEF Init, PagesInv, MappedInside, Clear, Unmapped
  <1>2. TypeOK /\ PagesInv /\ [Next]_vars => PagesInv'
    <2> SUFFICES ASSUME TypeOK, PagesInv, [Next]_vars PROVE PagesInv'
      OBVIOUS
    <2>1. CASE InitFail
      <3>1. page' = page /\ memory' = memory /\ pc' = "failed"
        BY <2>1 DEF InitFail, Fail
      <3> QED BY <3>1, SamePages DEF PagesInv
    <2>2. CASE MapInit
      BY <2>2, MapInitPages
    <2>3. CASE RomFail
      <3>1. page' = page /\ pc = "ready" /\ pc' = "failed"
            /\ memory' = [memory EXCEPT !["rom"] = <<>>]
        BY <2>3 DEF RomFail, Fail
      <3>2. ASSUME NEW p \in Pages \ {PastCdRam}, page[p].id # NoBlock
            PROVE  InsideBlock(p)'
        <4>1. page[p].id = "base_ram" /\ InsideBlock(p)
          BY <3>1, <3>2 DEF PagesInv, MappedInside
        <4>2. memory'["base_ram"] = memory["base_ram"]
          BY <3>1 DEF TypeOK
        <4> QED BY <3>1, <4>1, <4>2 DEF InsideBlock
      <3> QED BY <3>1, <3>2 DEF PagesInv, MappedInside
    <2>4. ASSUME NEW size \in RomSizes, RomLoad(size) PROVE PagesInv'
      BY <2>4, RomLoadPages
    <2>5. CASE CdMap
      BY <2>5, CdMapPages
    <2>6. CASE CdMapFail
      <3>1. page' = Clear /\ pc' = "failed"
        BY <2>6 DEF CdMapFail, Fail
      <3> QED BY <3>1, ClearPages DEF PagesInv
    <2>7. ASSUME NEW r \in Requests, CdLoad(r) PROVE PagesInv'
      <3>1. page' = page /\ memory' = memory /\ pc' \in {"copy", "cd"}
        BY <2>7 DEF CdLoad
      <3> QED BY <3>1, SamePages DEF PagesInv
    <2>8. ASSUME NEW n \in 0..SectorSize, CdLoadChunk(n) PROVE PagesInv'
      <3>1. page' = page
        BY <2>8 DEF CdLoadChunk
      <3>2. pc' \in {"copy", "dead"} /\ \A b \in Blocks : Len(memory'[b]) = Len(memory[b])
        BY <2>8, ChunkStepType
      <3> QED BY <3>1, <3>2, SamePages DEF PagesInv
    <2>9. CASE CdLoadEnd
      <3>1. page' = page /\ memory' = memory /\ pc' = "cd"
        BY <2>9 DEF CdLoadEnd
      <3> QED BY <3>1, SamePages DEF PagesInv
    <2>10. CASE Destroy
      <3>1. page' = Clear /\ pc' = "gone"
        BY <2>10 DEF Destroy
      <3> QED BY <3>1, ClearPages DEF PagesInv
    <2>11. CASE UNCHANGED vars
      <3>1. page' = page /\ memory' = memory /\ pc' = pc
        BY <2>11 DEF vars
      <3> QED BY <3>1, SamePages DEF PagesInv
    <2> QED BY <2>1, <2>2, <2>3, <2>4, <2>5, <2>6, <2>7, <2>8, <2>9, <2>10, <2>11 DEF Next
  <1> QED BY <1>1, <1>2, TypeCorrect, PTL DEF Spec

\* No page is mapped to a bank its block does not have, whatever the file and
\* however an initialisation failed, the page after the CD RAM apart.
THEOREM MappedInsideCorrect == Spec => []MappedInside
  <1>1. PagesInv => MappedInside
    BY DEF PagesInv
  <1> QED BY <1>1, PagesInvariant, PTL

-----------------------------------------------------------------------------
(* What a cartridge shows.                                                 *)

\* Each of the first 128 banks is the bank of some page.
LEMMA BankHasPage ==
    ASSUME NEW n \in Nat \ {0}, NEW b \in 0..(n - 1), b < 128
    PROVE  \E p \in 0..127 : RomBank(p, n) = b
  <1>1. CASE n = 48
    <2>1. CASE b < 32
      <3>1. b % 32 = b
        BY <2>1
      <3> QED BY <1>1, <2>1, <3>1 DEF RomBank
    <2>2. CASE ~(b < 32)
      <3>1. b + 32 \in 64..79
        BY <1>1, <2>2
      <3>2. (b + 32) % 16 = b - 32
        BY <1>1, <2>2
      <3>3. RomBank(b + 32, n) = b
        BY <1>1, <3>1, <3>2 DEF RomBank
      <3> QED BY <3>1, <3>3
    <2> QED BY <2>1, <2>2
  <1>2. CASE n = 64
    BY <1>2 DEF RomBank
  <1>3. CASE n # 48 /\ n # 64
    <2>1. b % n = b
      BY SmallRemainder
    <2>2. RomBank(b, n) = b /\ b \in 0..127
      BY <1>3, <2>1 DEF RomBank
    <2> QED BY <2>2
  <1> QED BY <1>1, <1>2, <1>3

LEMMA RomLoadShows ==
    ASSUME TypeOK, NEW size \in RomSizes, RomLoad(size)
    PROVE  RomVisible'
  <1> DEFINE count == RomImage(size).count
             n == BanksFor(count)
             skip == RomImage(size).skip
             block == RomBlock(size)
  <1>1. /\ memory' = [memory EXCEPT !["rom"] = block]
        /\ page' = [p \in Pages |->
              IF p < 128 THEN [id |-> "rom", bank |-> RomBank(p, n)] ELSE page[p]]
        /\ n \in Nat \ {0}
        /\ count > 0
    BY RomLoadResult
  <1>2. Len(block) = n * BankSize
    BY <1>1, RomBlockType
  <1>3. memory'["rom"] = block
    BY <1>1 DEF TypeOK, Blocks
  <1>4. n * BankSize \in Nat /\ count \in Int /\ skip \in Nat
    <2>1. n \in Int /\ n \in Nat /\ BankSize \in Nat
      BY <1>1, SizesAssumption
    <2> QED BY <2>1, Products, RomImageType
  <1>5. block = [j \in 1..(n * BankSize) |->
                    IF j <= count THEN [file |-> "rom", at |-> skip + j - 1] ELSE Fill]
    BY DEF RomBlock
  <1> HIDE DEF n, count, skip, block
  <1>6. ASSUME NEW b \in 0..(n - 1), b < 128
        PROVE  \E p \in 0..127 : \A o \in 0..(BankSize - 1) :
                   Read(p, o)' = IF b * BankSize + o < count
                                 THEN [file |-> "rom", at |-> skip + b * BankSize + o]
                                 ELSE Fill
    <2>1. PICK p \in 0..127 : RomBank(p, n) = b
      BY <1>1, <1>6, BankHasPage
    <2>2. p \in Pages /\ p < 128
      BY DEF Pages, PageCount
    <2>3. page'[p] = [id |-> "rom", bank |-> b]
      BY <1>1, <2>1, <2>2
    <2>4. ASSUME NEW o \in 0..(BankSize - 1)
          PROVE  Read(p, o)' = IF b * BankSize + o < count
                               THEN [file |-> "rom", at |-> skip + b * BankSize + o]
                               ELSE Fill
      <3> DEFINE at == b * BankSize + o
      <3>1. b \in Nat /\ n \in Nat /\ b < n /\ BankSize \in Nat /\ o \in Nat /\ o < BankSize
        BY <1>1, SizesAssumption
      <3>2. (b + 1) * BankSize <= n * BankSize
        BY <3>1, InsideIf
      <3>3. b * BankSize \in Nat /\ (b + 1) * BankSize = b * BankSize + BankSize
        BY <3>1, Products
      <3>4. at \in Nat /\ at < n * BankSize
        BY <1>4, <3>1, <3>2, <3>3
      <3>5. Read(p, o)' = block[at + 1]
        BY <1>2, <1>3, <2>3, <3>4 DEF Read, NoBlock
      <3>6. block[at + 1] = IF at < count THEN [file |-> "rom", at |-> skip + at]
                            ELSE Fill
        <4>1. at + 1 \in 1..(n * BankSize)
          BY <1>4, <3>4
        <4>2. at + 1 <= count <=> at < count
          BY <1>4, <3>4
        <4>3. skip + (at + 1) - 1 = skip + at
          BY <1>4, <3>4
        <4> QED BY <1>5, <4>1, <4>2, <4>3
      <3>7. skip + at = skip + b * BankSize + o
        BY <1>4, <3>1, <3>3
      <3> QED BY <3>5, <3>6, <3>7
    <2> QED BY <2>4
  <1>7. n * BankSize = Len(memory'["rom"])
    BY <1>2, <1>3
  <1> QED BY <1>6, <1>7 DEF RomVisible, n, count, skip

\* Every byte of a cartridge of at most 128 banks can be read through some
\* page, at its place in its bank, for every size of bank, header and file:
\* the layouts of 384K and 512K leave no bank out.
THEOREM RomVisibleCorrect == Spec => []RomVisible
  <1>1. Init => RomVisible
    BY DEF Init, RomVisible
  <1>2. TypeOK /\ RomVisible /\ [Next]_vars => RomVisible'
    <2> SUFFICES ASSUME TypeOK, RomVisible, [Next]_vars PROVE RomVisible'
      OBVIOUS
    <2>1. ASSUME NEW size \in RomSizes, RomLoad(size) PROVE RomVisible'
      BY <2>1, RomLoadShows
    <2>2. CASE UNCHANGED vars
      <3>1. page' = page /\ memory' = memory /\ pc' = pc
        BY <2>2 DEF vars
      <3> QED BY <3>1 DEF RomVisible, Read
    <2>3. CASE /\ [Next]_vars /\ ~UNCHANGED vars
               /\ ~\E size \in RomSizes : RomLoad(size)
      <3>1. pc' # "rom"
        BY <2>3 DEF Next, InitFail, MapInit, RomFail, Fail, CdMap, CdMapFail, CdLoad,
                    CdLoadChunk, CdLoadEnd, Destroy
      <3> QED BY <3>1 DEF RomVisible
    <2> QED BY <2>1, <2>2, <2>3
  <1> QED BY <1>1, <1>2, TypeCorrect, PTL DEF Spec

-----------------------------------------------------------------------------
(* Copies from the disc.                                                   *)

\* The place in its block of the first byte of the request.
Base == (page[FirstPage(load)].bank * BankSize) + (Physical(load) % BankSize)

\* Byte k of a request whose pages are banks in a row is k bytes further in
\* the one block, and inside it.
LEMMA InARow ==
    ASSUME TypeOK, InOneBlock(load), NEW k \in 0..(load.len - 1),
           NEW q, q = (Physical(load) + k) \div BankSize
    PROVE  /\ q \in Pages /\ page[q].id \in Blocks
           /\ page[q].id = page[FirstPage(load)].id
           /\ (page[q].bank * BankSize) + ((Physical(load) + k) % BankSize) = Base + k
           /\ Base \in Nat
           /\ (Base + k - ((Physical(load) + k) % BankSize)) + BankSize
                  <= Len(memory[page[q].id])
  <1> DEFINE phys == Physical(load)
             f == FirstPage(load)
             r0 == phys % BankSize
             r == (phys + k) % BankSize
             bf == page[f].bank
             bq == page[q].bank
  <1>1. BankSize \in Nat \ {0} /\ load.len \in Nat /\ k \in Nat /\ k <= load.len - 1
    BY SizesAssumption DEF TypeOK, Request
  <1>2. phys \in Nat /\ phys + k \in Nat /\ phys + load.len - 1 \in Nat
    <2>1. load \in Request
      BY DEF TypeOK
    <2>2. phys \in Nat
      BY <2>1, PhysicalType
    <2> HIDE DEF phys
    <2> QED BY <1>1, <2>2
  <1>3. f \in Nat /\ r0 \in Nat /\ phys = f * BankSize + r0
    <2>1. f = phys \div BankSize
      BY DEF FirstPage
    <2>2. /\ phys \div BankSize \in Nat
          /\ phys % BankSize \in 0..(BankSize - 1)
          /\ phys = (phys \div BankSize) * BankSize + (phys % BankSize)
      <3> HIDE DEF phys
      <3> QED BY <1>1, <1>2, Division
    <2>3. r0 \in Nat
      BY <1>1, <2>2
    <2> HIDE DEF phys, f
    <2> QED BY <2>1, <2>2, <2>3
  <1>4. q \in Nat /\ r \in Nat /\ phys + k = q * BankSize + r
    <2>1. q = (phys + k) \div BankSize
      OBVIOUS
    <2> DEFINE a == phys + k
    <2>2. /\ a \div BankSize \in Nat
          /\ a % BankSize \in 0..(BankSize - 1)
          /\ a = (a \div BankSize) * BankSize + (a % BankSize)
      <3>1. a \in Nat
        BY <1>2
      <3> HIDE DEF a
      <3> QED BY <1>1, <3>1, Division
    <2>3. r \in Nat
      BY <1>1, <2>2
    <2> HIDE DEF phys
    <2> QED BY <2>1, <2>2, <2>3
  <1>5. f <= q
    <2>1. phys <= phys + k
      BY <1>1, <1>2
    <2> QED BY <1>1, <1>2, <2>1, QuotientMonotone DEF FirstPage
  <1>6. q <= LastPage(load) /\ LastPage(load) \in Nat
    <2>1. phys + k <= phys + load.len - 1
      BY <1>1, <1>2
    <2>2. (phys + load.len - 1) \div BankSize \in Nat
      BY <1>1, <1>2, Division
    <2> QED BY <1>1, <1>2, <2>1, <2>2, QuotientMonotone DEF LastPage
  <1>7. q \in f..LastPage(load) /\ f \in f..LastPage(load)
    BY <1>3, <1>4, <1>5, <1>6
  <1>8. /\ q \in Pages /\ f \in Pages
        /\ page[q].id # NoBlock /\ page[q].id = page[f].id
        /\ bq = bf + (q - f)
        /\ InsideBlock(q)
    BY <1>7 DEF InOneBlock
  <1>9. bq \in Nat /\ bf \in Nat /\ page[q].id \in Blocks
    BY <1>8 DEF TypeOK, Entry
  <1>10. Len(memory[page[q].id]) \in Nat
    BY <1>9 DEF TypeOK
  <1>11. (bq + 1) * BankSize <= Len(memory[page[q].id])
    BY <1>8 DEF InsideBlock
  <1> HIDE DEF phys, f, r0, r, bf, bq
  <1>12. /\ bf * BankSize \in Nat /\ q * BankSize \in Nat /\ f * BankSize \in Nat
         /\ bq * BankSize \in Nat
    BY <1>1, <1>3, <1>4, <1>9, Products
  <1>13. bq * BankSize = bf * BankSize + (q * BankSize - f * BankSize)
    <2>1. (q - f) * BankSize = q * BankSize - f * BankSize
      BY <1>1, <1>3, <1>4, Products
    <2>2. q - f \in Int
      BY <1>3, <1>4
    <2>3. (bf + (q - f)) * BankSize = bf * BankSize + (q - f) * BankSize
      BY <1>1, <1>9, <2>2, Products
    <2> QED BY <1>8, <2>1, <2>3
  <1>14. (bq + 1) * BankSize = bq * BankSize + BankSize
    BY <1>1, <1>9, Products
  <1>15. bq * BankSize + r = (bf * BankSize + r0) + k
    <2> DEFINE A == bf * BankSize
               Q == q * BankSize
               F == f * BankSize
               B == bq * BankSize
    <2>1. A \in Nat /\ Q \in Nat /\ F \in Nat /\ B = A + (Q - F)
      BY <1>12, <1>13
    <2>2. phys = F + r0 /\ phys + k = Q + r
      BY <1>3, <1>4
    <2> HIDE DEF A, Q, F, B
    <2>3. B + r = (A + r0) + k
      BY <1>1, <1>2, <1>3, <1>4, <2>1, <2>2
    <2> QED BY <2>3 DEF A, B
  <1>16. bf * BankSize + r0 \in Nat
    BY <1>3, <1>12
  <1>17. ((bf * BankSize + r0) + k - r) + BankSize <= Len(memory[page[q].id])
    <2> DEFINE A == bf * BankSize + r0
               B == bq * BankSize
               C == Len(memory[page[q].id])
    <2>1. A \in Nat /\ B \in Nat /\ C \in Nat /\ B + r = A + k /\ B + BankSize <= C
      BY <1>10, <1>11, <1>12, <1>14, <1>15, <1>16
    <2> HIDE DEF A, B, C
    <2>2. A + k - r + BankSize <= C
      BY <1>1, <1>4, <2>1
    <2> QED BY <2>2 DEF A, C
  <1> QED BY <1>8, <1>9, <1>15, <1>16, <1>17 DEF Base, phys, f, r0, r, bf, bq

LEMMA InARowInside ==
    ASSUME TypeOK, InOneBlock(load), NEW k \in 0..(load.len - 1)
    PROVE  Base + k + 1 <= Len(memory[page[FirstPage(load)].id])
  <1> DEFINE q == (Physical(load) + k) \div BankSize
             r == (Physical(load) + k) % BankSize
             C == Len(memory[page[FirstPage(load)].id])
  <1>1. /\ page[q].id \in Blocks /\ page[q].id = page[FirstPage(load)].id
        /\ Base \in Nat /\ (Base + k - r) + BankSize <= Len(memory[page[q].id])
    BY InARow
  <1>2. BankSize \in Nat \ {0} /\ k \in Nat
    BY SizesAssumption
  <1>3. r \in 0..(BankSize - 1)
    <2>1. load \in Request
      BY DEF TypeOK
    <2>2. Physical(load) + k \in Nat
      BY <1>2, <2>1, PhysicalType
    <2> QED BY <1>2, <2>2, Division
  <1>4. C \in Nat
    BY <1>1 DEF TypeOK
  <1>5. (Base + k - r) + BankSize <= C
    BY <1>1
  <1> HIDE DEF r, C
  <1>6. Base + k + 1 <= C
    BY <1>1, <1>2, <1>3, <1>4, <1>5
  <1> QED BY <1>6 DEF C

\* Where a copy within one block has come to.
LEMMA CopyInARow ==
    ASSUME TypeOK, InOneBlock(load), done < load.len
    PROVE  /\ Here \in Pages /\ page[Here].id = page[FirstPage(load)].id
           /\ page[Here].id \in Blocks
           /\ At = Base + done /\ Base \in Nat
  <1>1. done \in 0..(load.len - 1)
    BY DEF TypeOK, Request
  <1> QED BY <1>1, InARow DEF Here, At, Phys

LEMMA RoomInARow ==
    ASSUME TypeOK, InOneBlock(load), done < load.len, NEW n \in Nat, n <= Chunk
    PROVE  Room(n)
  <1> DEFINE C == Len(memory[page[FirstPage(load)].id])
  <1>1. load.len \in Nat /\ done \in Nat
    BY DEF TypeOK, Request
  <1>2. n <= load.len - done
    BY <1>1, ChunkType
  <1>3. /\ Here \in Pages /\ page[Here].id = page[FirstPage(load)].id
        /\ page[Here].id \in Blocks /\ At = Base + done /\ Base \in Nat
    BY CopyInARow
  <1>4. C \in Nat
    BY <1>3 DEF TypeOK
  <1>5. At + n <= C
    <2>1. CASE n = 0
      <3>1. done \in 0..(load.len - 1)
        BY <1>1
      <3>2. Base + done + 1 <= C
        BY <3>1, InARowInside
      <3> HIDE DEF C
      <3> QED BY <1>1, <1>3, <1>4, <2>1, <3>2
    <2>2. CASE n > 0
      <3>1. done + n - 1 \in 0..(load.len - 1)
        BY <1>1, <1>2, <2>2
      <3>2. Base + (done + n - 1) + 1 <= C
        BY <3>1, InARowInside
      <3> HIDE DEF C
      <3> QED BY <1>1, <1>3, <1>4, <2>2, <3>2
    <2> QED BY <2>1, <2>2
  <1>6. page[Here].id # NoBlock /\ Here < PageCount
    BY <1>3 DEF Blocks, NoBlock, Pages, PageCount
  <1> QED BY <1>3, <1>5, <1>6 DEF Room, Here, At, Phys

\* cd_load never writes outside a block for a section whose pages are banks
\* in a row of one block, whatever the sizes and however short the reads.
THEOREM DiesOnlyOutsideCorrect == Spec => []DiesOnlyOutside
  <1>1. Init => DiesOnlyOutside
    BY DEF Init, DiesOnlyOutside
  <1>2. TypeOK /\ DiesOnlyOutside /\ [Next]_vars => DiesOnlyOutside'
    <2> SUFFICES ASSUME TypeOK, DiesOnlyOutside, [Next]_vars PROVE DiesOnlyOutside'
      OBVIOUS
    <2>1. ASSUME NEW n \in 0..SectorSize, CdLoadChunk(n) PROVE DiesOnlyOutside'
      <3>1. CASE Room(n)
        BY <2>1, <3>1 DEF CdLoadChunk, DiesOnlyOutside
      <3>2. CASE ~Room(n)
        <4>1. n \in Nat /\ n <= Chunk /\ done < load.len
          BY <2>1, SizesAssumption DEF CdLoadChunk
        <4>2. ~InOneBlock(load)
          BY <3>2, <4>1, RoomInARow
        <4>3. page' = page /\ memory' = memory /\ load' = load
          BY <2>1, <3>2 DEF CdLoadChunk
        <4> QED BY <4>2, <4>3 DEF DiesOnlyOutside, InOneBlock, InsideBlock
      <3> QED BY <3>1, <3>2
    <2>2. CASE UNCHANGED vars
      <3>1. page' = page /\ memory' = memory /\ load' = load /\ pc' = pc
        BY <2>2 DEF vars
      <3> QED BY <3>1 DEF DiesOnlyOutside, InOneBlock, InsideBlock
    <2>3. CASE /\ [Next]_vars /\ ~UNCHANGED vars
               /\ ~\E n \in 0..SectorSize : CdLoadChunk(n)
      <3>1. pc' # "dead"
        BY <2>3 DEF Next, InitFail, MapInit, RomFail, Fail, RomLoad, CdMap, CdMapFail,
                    CdLoad, CdLoadEnd, Destroy
      <3> QED BY <3>1 DEF DiesOnlyOutside
    <2> QED BY <2>1, <2>2, <2>3
  <1> QED BY <1>1, <1>2, TypeCorrect, PTL DEF Spec

-----------------------------------------------------------------------------
(* What a copy shows.                                                      *)

\* The bytes of one sector are in a row in the image.
LEMMA SameSector ==
    ASSUME NEW a \in Nat, NEW d \in Nat, NEW sector \in Nat,
           d < SectorSize - (a % SectorSize)
    PROVE  FileOffset(a + d, sector) = FileOffset(a, sector) + d
  <1> DEFINE q == a \div SectorSize
             r == a % SectorSize
  <1>1. SectorSize \in Nat \ {0}
    BY SizesAssumption
  <1>2. q \in Nat /\ r \in 0..(SectorSize - 1) /\ a = q * SectorSize + r
    BY <1>1, Division
  <1>3. d < SectorSize - r
    OBVIOUS
  <1> HIDE DEF q, r
  <1>4. q * SectorSize \in Nat /\ q * sector \in Nat
    BY <1>1, <1>2, Products
  <1>5. r + d \in 0..(SectorSize - 1)
    BY <1>1, <1>2, <1>3
  <1>6. a + d \in Nat /\ a + d = q * SectorSize + (r + d)
    <2> DEFINE Q == q * SectorSize
    <2>1. Q \in Nat /\ a = Q + r
      BY <1>2, <1>4
    <2> HIDE DEF Q
    <2>2. a + d = Q + (r + d)
      BY <1>1, <1>2, <2>1
    <2> QED BY <2>2 DEF Q
  <1>7. q = (a + d) \div SectorSize /\ r + d = (a + d) % SectorSize
    <2> DEFINE b == a + d
               rb == r + d
    <2>1. b \in Nat /\ q \in Int /\ rb \in 0..(SectorSize - 1)
          /\ b = q * SectorSize + rb
      BY <1>2, <1>5, <1>6
    <2> HIDE DEF b, rb
    <2>2. q = b \div SectorSize /\ rb = b % SectorSize
      BY <1>1, <2>1, Quotient
    <2> QED BY <2>2 DEF b, rb
  <1>8. FileOffset(a + d, sector) = q * sector + (r + d)
    BY <1>7 DEF FileOffset
  <1>9. FileOffset(a, sector) = q * sector + r
    BY DEF FileOffset, q, r
  <1> DEFINE S == q * sector
  <1>10. S \in Nat
    BY <1>4
  <1> HIDE DEF S
  <1>11. S + (r + d) = (S + r) + d
    BY <1>1, <1>2, <1>10
  <1> QED BY <1>8, <1>9, <1>11 DEF S

\* Byte k of the request is what the memory shows.
Shown(k) ==
    Read((Physical(load) + k) \div BankSize, (Physical(load) + k) % BankSize) =
        [file |-> "cd", at |-> FileOffset(load.start + k, load.sector)]

\* In a row of banks that is a byte of the one block.
LEMMA ShownInARow ==
    ASSUME TypeOK, InOneBlock(load), NEW k \in 0..(load.len - 1)
    PROVE  Shown(k) <=>
             memory[page[FirstPage(load)].id][Base + k + 1] =
               [file |-> "cd", at |-> FileOffset(load.start + k, load.sector)]
  <1> DEFINE q == (Physical(load) + k) \div BankSize
             r == (Physical(load) + k) % BankSize
             at == (page[q].bank * BankSize) + r
  <1>1. /\ page[q].id \in Blocks /\ page[q].id = page[FirstPage(load)].id
        /\ at = Base + k /\ Base \in Nat
    BY InARow
  <1>2. Base + k + 1 <= Len(memory[page[FirstPage(load)].id])
    BY InARowInside
  <1>3. Len(memory[page[FirstPage(load)].id]) \in Nat
    BY <1>1 DEF TypeOK
  <1>4. page[q].id # NoBlock
    BY <1>1 DEF Blocks, NoBlock
  <1>5. Base + k < Len(memory[page[FirstPage(load)].id])
    BY <1>1, <1>2, <1>3
  <1>6. Read(q, r) = memory[page[FirstPage(load)].id][Base + k + 1]
    BY <1>1, <1>4, <1>5 DEF Read
  <1> QED BY <1>6 DEF Shown

\* While a copy goes on, and after it, the bytes copied so far are shown.
CopyInv ==
    /\ pc \in {"new", "ready"} => ~ok
    /\ pc = "cd" /\ ok => done >= load.len
    /\ pc \in {"copy", "cd"} /\ ok /\ InOneBlock(load) =>
           \A k \in 0..(load.len - 1) : k < done => Shown(k)

LEMMA ShownPlaces ==
    TypeOK /\ InOneBlock(load) =>
        \A k \in 0..(load.len - 1) :
            Shown(k) <=>
              memory[page[FirstPage(load)].id][Base + k + 1] =
                [file |-> "cd", at |-> FileOffset(load.start + k, load.sector)]
  BY ShownInARow

LEMMA ChunkShows ==
    ASSUME TypeOK, TypeOK', CopyInv, NEW n \in 0..SectorSize, CdLoadChunk(n),
           Room(n), n = Chunk, InOneBlock(load)'
    PROVE  \A k \in 0..(load.len - 1) : k < done' => Shown(k)'
  <1> DEFINE id == page[FirstPage(load)].id
             block == memory[id]
             disc(k) == [file |-> "cd", at |-> FileOffset(load.start + k, load.sector)]
  <1>1. /\ page' = page /\ load' = load /\ Copy(n)
        /\ pc = "copy" /\ ok /\ done < load.len /\ done' = done + n
    BY DEF CdLoadChunk
  <1>2. /\ Here \in Pages /\ page[Here].id \in Blocks
        /\ memory' = [memory EXCEPT ![page[Here].id] = Copied(memory[page[Here].id], n)]
        /\ \A b \in Blocks : Len(memory'[b]) = Len(memory[b])
    BY <1>1, CopyResult
  <1>3. InOneBlock(load)
    <2>1. ASSUME NEW p \in FirstPage(load)..LastPage(load)
          PROVE  /\ p \in Pages /\ page[p].id # NoBlock
                 /\ page[p].id = page[FirstPage(load)].id
                 /\ page[p].bank = page[FirstPage(load)].bank + (p - FirstPage(load))
                 /\ InsideBlock(p)'
      BY <1>1 DEF InOneBlock, FirstPage, LastPage, Physical
    <2>2. ASSUME NEW p \in FirstPage(load)..LastPage(load)
          PROVE  InsideBlock(p)
      <3>1. page[p].id \in Blocks
        BY <2>1 DEF TypeOK, Entry
      <3> QED BY <1>1, <1>2, <2>1, <3>1 DEF InsideBlock
    <2> QED BY <2>1, <2>2 DEF InOneBlock
  <1>4. id = page[Here].id /\ At = Base + done /\ Base \in Nat /\ id \in Blocks
    BY <1>1, <1>3, CopyInARow
  <1>5. memory'[id] = Copied(block, n)
    BY <1>2, <1>4 DEF TypeOK
  <1>6. (TypeOK /\ InOneBlock(load) =>
           \A k \in 0..(load.len - 1) :
             Shown(k) <=>
               memory[page[FirstPage(load)].id][Base + k + 1] =
                 [file |-> "cd", at |-> FileOffset(load.start + k, load.sector)])'
    BY ShownPlaces, PTL
  <1>7. \A k \in 0..(load.len - 1) : Shown(k)' <=> memory'[id][Base + k + 1] = disc(k)
    BY <1>1, <1>6 DEF Base, FirstPage, Physical
  <1>8. \A k \in 0..(load.len - 1) : Shown(k) <=> block[Base + k + 1] = disc(k)
    BY <1>3, ShownPlaces
  <1>9. /\ load.len \in Nat /\ load.start \in Nat /\ load.sector \in Nat
        /\ done \in Nat /\ Len(block) \in Nat /\ n \in Nat
    BY <1>4, SizesAssumption DEF TypeOK, Request
  <1> SUFFICES ASSUME NEW k \in 0..(load.len - 1), k < done + n
               PROVE  memory'[id][Base + k + 1] = disc(k)
    BY <1>1, <1>7
  <1>10. Base + k + 1 \in 1..Len(block)
    <2>1. Base + k + 1 <= Len(block)
      BY <1>3, InARowInside
    <2> QED BY <1>4, <1>9, <2>1
  <1>11. Copied(block, n)[Base + k + 1] =
             IF Base + k + 1 > At /\ Base + k + 1 <= At + n
             THEN [file |-> "cd", at |-> From + ((Base + k + 1) - At - 1)]
             ELSE block[Base + k + 1]
    BY <1>10 DEF Copied
  <1>12. CASE k < done
    <2>1. ~(Base + k + 1 > At)
      BY <1>4, <1>9, <1>12
    <2>2. Shown(k)
      BY <1>1, <1>3, <1>12 DEF CopyInv
    <2> QED BY <1>5, <1>8, <1>11, <2>1, <2>2
  <1>13. CASE ~(k < done)
    <2> DEFINE d == k - done
    <2>1. d \in Nat /\ d < n /\ k = done + d
      BY <1>9, <1>13
    <2>2. Base + k + 1 > At /\ Base + k + 1 <= At + n /\ (Base + k + 1) - At - 1 = d
      BY <1>4, <1>9, <2>1
    <2>3. load.start + done \in Nat /\ load.start + k = (load.start + done) + d
      BY <1>9, <2>1
    <2>4. d < SectorSize - ((load.start + done) % SectorSize)
      <3> DEFINE c == SectorSize - ((load.start + done) % SectorSize)
      <3>1. n <= c
        BY <1>1, ChunkType
      <3>2. c \in Int
        BY <2>3, Division, SizesAssumption
      <3> HIDE DEF c, d
      <3>3. d < c
        BY <1>9, <2>1, <3>1, <3>2
      <3> QED BY <3>3 DEF c
    <2> HIDE DEF d
    <2>5. FileOffset((load.start + done) + d, load.sector) = From + d
      BY <1>9, <2>1, <2>3, <2>4, SameSector DEF From
    <2>6. disc(k) = [file |-> "cd", at |-> From + d]
      BY <2>3, <2>5
    <2> QED BY <1>5, <1>11, <2>2, <2>6
  <1> QED BY <1>12, <1>13

LEMMA ChunkKeeps ==
    ASSUME TypeOK, TypeOK', CopyInv, NEW n \in 0..SectorSize, CdLoadChunk(n)
    PROVE  CopyInv'
  <1>1. load' = load /\ ok' = (n = Chunk)
    BY DEF CdLoadChunk
  <1>2. CASE Room(n) /\ n = Chunk
    <2>1. pc' = "copy"
      BY <1>2 DEF CdLoadChunk
    <2>2. InOneBlock(load)' => \A k \in 0..(load.len - 1) : k < done' => Shown(k)'
      BY <1>2, ChunkShows
    <2> QED BY <1>1, <2>1, <2>2 DEF CopyInv
  <1>3. CASE ~Room(n)
    <2>1. pc' = "dead"
      BY <1>3 DEF CdLoadChunk
    <2> QED BY <2>1 DEF CopyInv
  <1>4. CASE n # Chunk
    <2>1. ~ok'
      BY <1>1, <1>4
    <2> QED BY <2>1 DEF CopyInv
  <1> QED BY <1>2, <1>3, <1>4

LEMMA CopyInvariant == Spec => []CopyInv
  <1>1. Init => CopyInv
    BY DEF Init, CopyInv
  <1>2. TypeOK /\ TypeOK' /\ CopyInv /\ [Next]_vars => CopyInv'
    <2> SUFFICES ASSUME TypeOK, TypeOK', CopyInv, [Next]_vars PROVE CopyInv'
      OBVIOUS
    <2>1. CASE InitFail \/ MapInit
      <3>1. pc = "new" /\ ok' = ok /\ pc' \in {"failed", "ready"}
        BY <2>1 DEF InitFail, MapInit, Fail, NoLoad
      <3> QED BY <3>1 DEF CopyInv
    <2>2. CASE RomFail \/ CdMap \/ CdMapFail \/ \E size \in RomSizes : RomLoad(size)
      <3>1. pc = "ready" /\ ok' = ok
        BY <2>2 DEF RomFail, CdMap, CdMapFail, RomLoad, Fail, NoLoad
      <3> QED BY <3>1 DEF CopyInv
    <2>3. ASSUME NEW r \in Requests, CdLoad(r) PROVE CopyInv'
      <3>1. done' = 0 /\ (pc' = "copy" \/ (pc' = "cd" /\ ~ok'))
        BY <2>3 DEF CdLoad
      <3>2. \A k \in 0..(load'.len - 1) : ~(k < done')
        BY <3>1
      <3> QED BY <3>1, <3>2 DEF CopyInv
    <2>4. ASSUME NEW n \in 0..SectorSize, CdLoadChunk(n) PROVE CopyInv'
      BY <2>4, ChunkKeeps
    <2>5. CASE CdLoadEnd
      <3>1. /\ pc = "copy" /\ pc' = "cd" /\ (ok => done >= load.len)
            /\ UNCHANGED <<memory, page, load, done, ok>>
        BY <2>5 DEF CdLoadEnd
      <3> QED BY <3>1 DEF CopyInv, InOneBlock, InsideBlock, Shown, Read
    <2>6. CASE Destroy
      <3>1. pc' = "gone"
        BY <2>6 DEF Destroy
      <3> QED BY <3>1 DEF CopyInv
    <2>7. CASE UNCHANGED vars
      BY <2>7 DEF vars, CopyInv, InOneBlock, InsideBlock, Shown, Read
    <2> QED BY <2>1, <2>2, <2>3, <2>4, <2>5, <2>6, <2>7 DEF Next
  <1> QED BY <1>1, <1>2, TypeCorrect, PTL DEF Spec

\* After a cd_load that succeeded, every page of a section inside one block
\* shows the bytes of the disc it asked for, for every size of bank and sector
\* and wherever the section starts in either.
THEOREM LoadShowsCorrect == Spec => []LoadShows
  <1>1. TypeOK /\ CopyInv => LoadShows
    <2> SUFFICES ASSUME TypeOK, CopyInv, pc = "cd", ok, InOneBlock(load)
                 PROVE  \A k \in 0..(load.len - 1) : Shown(k)
      BY DEF LoadShows, Shown
    <2>1. done >= load.len /\ load.len \in Nat /\ done \in Nat
      BY DEF CopyInv, TypeOK, Request
    <2>2. \A k \in 0..(load.len - 1) : k < done
      BY <2>1
    <2> QED BY <2>2 DEF CopyInv
  <1> QED BY <1>1, TypeCorrect, CopyInvariant, PTL
=============================================================================
