---------------------------- MODULE CodeExtract -----------------------------
(***************************************************************************)
(* The disassembly of code sections: code_extract of etripator.c with the  *)
(* three walks over memory it makes, compute_size, label_extract and       *)
(* decode of decode.c, for every code section in turn.                     *)
(*                                                                         *)
(* One action is one instruction of one walk.  Bytes, words and double     *)
(* words have a width of their own, so that every truncation of the code   *)
(* happens: the machine may be scaled down, with fewer opcodes.            *)
(***************************************************************************)
EXTENDS Opcodes, Sequences

CONSTANTS
    ByteSize,      \* values of a uint8_t (256)
    PageSize,      \* bytes of a memory page (8192)
    WordSize,      \* values of a uint16_t (65536)
    DwordSize,     \* values of a uint32_t
    Pages,         \* memory pages
    Instruction,   \* the opcode each byte stands for (itself, unless scaled down)
    Images,        \* possible contents of the memory: page -> offset -> byte
    Programs,      \* possible arrays of sections, once they are tidied
    LabelFiles     \* the addresses of the labels that may have been loaded

Byte == 0..(ByteSize - 1)
Word == 0..(WordSize - 1)
Dword == 0..(DwordSize - 1)

\* The memory page registers.
Slots == 0..((WordSize \div PageSize) - 1)

\* int32_t
Int32 == (-(DwordSize \div 2))..(DwordSize \div 2 - 1)

Section ==
    [type : {"code", "data"}, page : Pages, logical : Word, offset : Dword,
     size : Int32, mpr : [Slots -> Pages]]

ASSUME WidthAssumption ==
    /\ {ByteSize, PageSize, WordSize, DwordSize} \subseteq Nat \ {0}
    /\ WordSize = ByteSize * ByteSize
    /\ WordSize % PageSize = 0
    /\ DwordSize % WordSize = 0
    /\ DwordSize % 2 = 0

ASSUME InstructionAssumption == Instruction \in [Byte -> Opcode]

ASSUME ImagesAssumption == Images \subseteq [Pages -> [0..(PageSize - 1) -> Byte]]

ASSUME ProgramsAssumption == Programs \subseteq Seq(Section)

\* What section_array_tidy leaves: sections in the order of their pages and
\* addresses, no code section touching the next one (SectionArrayProofs,
\* NeighboursApart), or they would have been merged.
Tidied(p) ==
    \A k \in 1..(Len(p) - 1) :
        LET a == p[k]
            b == p[k + 1]
        IN  /\ a.page <= b.page
            /\ a.page = b.page => a.logical <= b.logical
            /\ a.page = b.page /\ a.type = "code" /\ b.type = "code" =>
                   a.logical + a.size < b.logical

ASSUME TidiedAssumption == \A p \in Programs : Tidied(p)

ASSUME LabelFilesAssumption == LabelFiles \subseteq SUBSET (Pages \X Word)

VARIABLES
    memory,    \* the contents of the pages
    arr,       \* arr->data[0 .. count-1]
    index,     \* the section disassemble is at, from 1
    pc,        \* "next" (head of the loop of disassemble), the walk it is in
               \* ("size", "extract" or "decode"), "done" or "dead"
    logical,   \* the cursor of the walk
    max,       \* max_offset of compute_size
    labels,    \* <<page, logical>> of the labels in the repository
    seen,      \* history: addresses label_extract read an instruction at
    lines,     \* history: the instructions decode has output
    skipped    \* history: label_extract failed for some section

vars == <<memory, arr, index, pc, logical, max, labels, seen, lines, skipped>>

Current == arr[index]

End == Current.logical + Current.size

\* The jump address of an instruction that has none.
NoTarget == <<>>

-----------------------------------------------------------------------------
(* Memory, through the registers of the section being disassembled.        *)

\* memory_map_page
Page(a) == Current.mpr[(a % WordSize) \div PageSize]

\* memory_map_read; what an image holds at an unmapped page is 0xff.
Read(a) == memory[Page(a)][a % PageSize]

Inst(a) == Instruction[Read(a)]

\* The displacement of a branch at address a, a signed byte.
Displacement(a) ==
    LET d == Read(a + (IF IsBitBranch(Inst(a)) THEN 2 ELSE 1))
    IN  IF 2 * d >= ByteSize THEN d - ByteSize ELSE d

\* The address operand of jmp and jsr.
Absolute(a) == Read(a + 1) + ByteSize * Read(a + 2)

IsJump(op) == IsLocalJump(op) \/ IsFarJump(op)

Key(a) == <<Page(a), a % WordSize>>

\* Mutant: the displacement counts from the branch, not from its successor.
ExtractTargetFromBranch(a) ==
    IF IsLocalJump(Inst(a))
    THEN (a + Displacement(a)) % WordSize
    ELSE Absolute(a) % WordSize

\* Where label_extract sees the instruction at a jump to.
ExtractTarget(a) ==
    IF IsLocalJump(Inst(a))
    THEN (a + Displacement(a) + Size(Inst(a))) % WordSize
    ELSE Absolute(a) % WordSize

\* Mutant: the cursor is wider than a word.
AfterWide(a) == a + Size(Inst(a))

\* The word that follows the instruction at a.
After(a) == (a + Size(Inst(a))) % WordSize

\* Where decode sees it jump to; its offset is a uint32_t.
DecodeTarget(a) ==
    IF IsLocalJump(Inst(a))
    THEN (After(a) + Displacement(a)) % DwordSize
    ELSE Absolute(a)

-----------------------------------------------------------------------------
\* Labels have been loaded, fill_label_reporitory has named the sections, and
\* the array has been tidied, before disassemble starts.
Init ==
    /\ memory \in Images
    /\ arr \in Programs
    /\ index = 1
    /\ pc = "next"
    /\ logical = 0
    /\ max = 0
    /\ \E f \in LabelFiles :
        labels = f \union {<<arr[k].page, arr[k].logical>> : k \in 1..Len(arr)}
    /\ seen = {}
    /\ lines = {}
    /\ skipped = FALSE

\* Mutant: the labels are those of one section.
NextSectionForgets ==
    /\ pc' = "next"
    /\ index' = index + 1
    /\ labels' = {<<arr[k].page, arr[k].logical>> : k \in 1..Len(arr)}
    /\ UNCHANGED <<memory, arr, logical, max, seen, skipped>>

\* The loop of disassemble goes on with the next section.
NextSection ==
    /\ pc' = "next"
    /\ index' = index + 1
    /\ UNCHANGED <<memory, arr, logical, max, labels, seen, skipped>>

\* A data section, which data_extract outputs without changing a label, or one
\* whose output file cannot be opened.
PassOver ==
    /\ pc = "next"
    /\ index <= Len(arr)
    /\ NextSection
    /\ UNCHANGED lines

Finish ==
    /\ pc = "next"
    /\ index > Len(arr)
    /\ pc' = "done"
    /\ UNCHANGED <<memory, arr, index, logical, max, labels, seen, lines, skipped>>

-----------------------------------------------------------------------------
(* compute_size                                                            *)

\* The sections of the page whose offset is past that of the current one.
Past ==
    {k \in 1..Len(arr) :
        /\ k # index
        /\ arr[k].page = Current.page
        /\ Current.offset % PageSize < arr[k].offset % PageSize}

\* max_offset is the least of their offsets, or 0xffffffff.
Limits == {arr[k].offset % PageSize : k \in Past} \union {DwordSize - 1}

SizeStart ==
    /\ pc = "next"
    /\ index <= Len(arr)
    /\ Current.type = "code"
    /\ Current.size <= 0
    /\ pc' = "size"
    /\ logical' = Current.logical
    /\ max' \in Limits
    /\ \A m \in Limits : max' <= m
    /\ UNCHANGED <<memory, arr, index, labels, seen, lines, skipped>>

Successor == (logical + Size(Inst(logical))) % DwordSize

\* Where a branch leads, as a uint32_t.
Branch == (Successor + Displacement(logical)) % DwordSize

\* A jump within the page, or bra, to an address already passed.
EndsBackwards ==
    \/ /\ Inst(logical) = Jmp
       /\ Page(logical) = Page(Absolute(logical))
       /\ Absolute(logical) < Successor
    \/ /\ Inst(logical) = Bra
       /\ Branch < Successor

EndsRoutine == EndsBackwards \/ IsReturn(Inst(logical))

\* Jumps forward are followed: what they skip belongs to the section.
Follow ==
    IF IsLocalJump(Inst(logical))
    THEN IF Inst(logical) # Bra /\ Branch > Successor THEN Branch ELSE Successor
    ELSE IF Inst(logical) = Jmp /\ Page(logical) = Page(Absolute(logical))
         THEN Absolute(logical)
         ELSE Successor

\* The result of compute_size is an int32_t.
Signed(n) ==
    LET d == n % DwordSize IN IF 2 * d >= DwordSize THEN d - DwordSize ELSE d

\* code_extract stores the size, and label_extract starts.
Sized(end) ==
    /\ arr' = [arr EXCEPT ![index].size = Signed(end - Current.logical)]
    /\ pc' = "extract"
    /\ logical' = Current.logical
    /\ seen' = {}
    /\ UNCHANGED <<memory, index, max, labels, lines, skipped>>

\* The next section has been reached.
SizeStop ==
    /\ pc = "size"
    /\ logical % PageSize >= max
    /\ Sized(logical)

SizeReturn ==
    /\ pc = "size"
    /\ logical % PageSize < max
    /\ EndsRoutine
    /\ Sized(Successor)

SizeStep ==
    /\ pc = "size"
    /\ logical % PageSize < max
    /\ ~EndsRoutine
    /\ logical' = Follow
    /\ UNCHANGED <<memory, arr, index, pc, max, labels, seen, lines, skipped>>

ComputeSize == SizeStart \/ SizeStop \/ SizeReturn \/ SizeStep

-----------------------------------------------------------------------------
(* label_extract                                                           *)

\* The section has a size: label_extract starts at once.
ExtractStart ==
    /\ pc = "next"
    /\ index <= Len(arr)
    /\ Current.type = "code"
    /\ Current.size > 0
    /\ pc' = "extract"
    /\ logical' = Current.logical
    /\ seen' = {}
    /\ UNCHANGED <<memory, arr, index, max, labels, lines, skipped>>

\* Mutant: off by one at the end of the section.
ExtractStepPastEnd ==
    /\ pc = "extract"
    /\ logical <= End
    /\ logical' = After(logical)
    /\ seen' = seen \union {logical}
    /\ labels' = labels \union
         (IF IsJump(Inst(logical)) THEN {Key(ExtractTarget(logical))} ELSE {})
    /\ UNCHANGED <<memory, arr, index, pc, max, lines, skipped>>

\* One iteration: the label of a jump is added, unless its address has one.
ExtractStep ==
    /\ pc = "extract"
    /\ logical < End
    /\ logical' = After(logical)
    /\ seen' = seen \union {logical}
    /\ labels' = labels \union
         (IF IsJump(Inst(logical)) THEN {Key(ExtractTarget(logical))} ELSE {})
    /\ UNCHANGED <<memory, arr, index, pc, max, lines, skipped>>

\* The label is new, and the repository is destroyed for want of memory:
\* code_extract gives the section up and reports success.
ExtractOutOfMemory ==
    /\ pc = "extract"
    /\ logical < End
    /\ IsJump(Inst(logical))
    /\ Key(ExtractTarget(logical)) \notin labels
    /\ labels' = {}
    /\ skipped' = TRUE
    /\ pc' = "next"
    /\ index' = index + 1
    /\ UNCHANGED <<memory, arr, logical, max, seen, lines>>

ExtractDone ==
    /\ pc = "extract"
    /\ logical >= End
    /\ pc' = "decode"
    /\ logical' = Current.logical
    /\ UNCHANGED <<memory, arr, index, max, labels, seen, lines, skipped>>

LabelExtract == ExtractStart \/ ExtractStep \/ ExtractOutOfMemory \/ ExtractDone

-----------------------------------------------------------------------------
(* decode                                                                  *)

\* The line output for the instruction at a.
Line(a) ==
    [section |-> index, page |-> Page(a), logical |-> a,
     named |-> Key(a) \in labels,
     target |-> IF IsJump(Inst(a)) THEN Key(DecodeTarget(a)) ELSE NoTarget]

\* A jump whose target has no label: decode reads a null name.
Unresolved(a) == IsJump(Inst(a)) /\ Key(DecodeTarget(a)) \notin labels

DecodeCrash ==
    /\ pc = "decode"
    /\ Unresolved(logical)
    /\ pc' = "dead"
    /\ UNCHANGED <<memory, arr, index, logical, max, labels, seen, lines, skipped>>

\* Mutant: the cursor does not move.
DecodeStepStuck ==
    /\ pc = "decode"
    /\ ~Unresolved(logical)
    /\ After(logical) < End
    /\ lines' = lines \union {Line(logical)}
    /\ UNCHANGED <<memory, arr, index, pc, logical, max, labels, seen, skipped>>

\* One call of decode, and code_extract calls it again.
DecodeStep ==
    /\ pc = "decode"
    /\ ~Unresolved(logical)
    /\ After(logical) < End
    /\ lines' = lines \union {Line(logical)}
    /\ logical' = After(logical)
    /\ UNCHANGED <<memory, arr, index, pc, max, labels, seen, skipped>>

\* The last call of decode for this section.
DecodeLast ==
    /\ pc = "decode"
    /\ ~Unresolved(logical)
    /\ After(logical) >= End
    /\ lines' = lines \union {Line(logical)}
    /\ NextSection

Decode == DecodeCrash \/ DecodeStep \/ DecodeLast

Next == PassOver \/ ComputeSize \/ LabelExtract \/ Decode \/ Finish

\* disassemble is sequential code: it goes on as long as it can.
Spec == Init /\ [][Next]_vars /\ WF_vars(Next)

-----------------------------------------------------------------------------
(* Properties.                                                             *)

LineType ==
    [section : Nat, page : Pages, logical : Word, named : BOOLEAN,
     target : (Pages \X Word) \union {NoTarget}]

\* The variables keep the types the C declarations give them.
TypeOK ==
    /\ memory \in [Pages -> [0..(PageSize - 1) -> Byte]]
    /\ arr \in Seq(Section)
    /\ index \in 1..(Len(arr) + 1)
    /\ pc \in {"next", "size", "extract", "decode", "done", "dead"}
    /\ pc \in {"size", "extract", "decode", "dead"} => index <= Len(arr)
    /\ logical \in (IF pc = "size" THEN Dword ELSE Word)
    /\ max \in Dword
    /\ labels \subseteq Pages \X Word
    /\ seen \subseteq Word
    /\ lines \subseteq LineType
    /\ skipped \in BOOLEAN

\* "Label name should have been set by the label extraction pass" (decode.c):
\* decode finds a label for every jump it outputs.
LabelSet == pc # "dead"

\* What is true of it: only a section that compute_size leaves empty, which
\* label_extract skips and decode does not, can have a jump without a label.
LabelSetWhenSized == pc = "dead" => Current.size <= 0

\* The section, its last instruction included, ends before the address space.
Fits == End + 7 < WordSize

Body == {a \in Word : Current.logical <= a /\ a < End}

\* "Finds any jump address from the current section" (decode.c): label_extract
\* reads instructions of the section only, unless the section is at the end of
\* the address space.
InSectionBelowEnd == pc = "extract" /\ Fits => seen \subseteq Body

\* A jump to an instruction of its own section, or of a section output later,
\* finds the label in the output: the label was known when the instruction
\* was output.  (For sections already output it may not be.)
ForwardDefined ==
    ~skipped => \A l, m \in lines :
        l.target = <<m.page, m.logical>> /\ l.section <= m.section => m.named

\* compute_size ends, for code that has a return where it looks for one;
\* label_extract and decode end, for a section that ends before the address
\* space: their cursor is a word, and the end of the section is not.
WalksEnd ==
    /\ pc = "size" ~> pc # "size"
    /\ pc = "extract" /\ Fits ~> pc \in {"next", "dead"}
=============================================================================
