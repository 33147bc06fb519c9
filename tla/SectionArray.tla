---------------------------- MODULE SectionArray ----------------------------
(***************************************************************************)
(* The growable array of sections of section.c / section.h: add, reset,    *)
(* delete and the in-place "merge and sort" pass (section_array_tidy).     *)
(*                                                                         *)
(* The loop of section_array_tidy is one action per iteration, so that its *)
(* loop invariant is a state predicate.  A section is the part of the C    *)
(* structure the array functions read: the strings a section owns (name,   *)
(* output, description) are one heap token, "str".                         *)
(***************************************************************************)
EXTENDS Integers, Sequences, Functions

CONSTANTS
    Descriptors,   \* the sections callers hand over, without their strings
    Tokens,        \* heap blocks that may hold a section's strings
    WordSize,      \* number of values of a uint16_t
    Increment      \* sections by which the buffer grows

Types == {"code", "data"}

ASSUME DescriptorsAssumption ==
    \A d \in Descriptors :
        /\ d.type \in Types
        /\ d.page \in Nat
        /\ d.logical \in 0..(WordSize - 1)
        /\ d.size \in Int

ASSUME WordSizeAssumption == WordSize \in Nat \ {0}

ASSUME IncrementAssumption == Increment \in Nat \ {0}

VARIABLES
    data,       \* arr->data[0 .. arr->count-1]
    capacity,   \* arr->capacity
    alloc,      \* sections the block behind arr->data really has room for
    heap,       \* string blocks allocated for sections and not yet freed
    pc,         \* "idle", "merge" (inside section_array_tidy) or "dead"
    next,       \* the loop counter i of section_array_tidy, from 1
    section,    \* section[0 .. j] of section_array_tidy
    given,      \* history: sections added since the array was last emptied
    tidied      \* history: the last call that changed the array was a tidy

vars == <<data, capacity, alloc, heap, pc, next, section, given, tidied>>

-----------------------------------------------------------------------------
(* Sections.                                                               *)

\* The section d with its strings in block t.
WithStrings(d, t) ==
    [type |-> d.type, dtype |-> d.dtype, page |-> d.page,
     logical |-> d.logical, size |-> d.size, output |-> d.output, str |-> t]

End(s) == s.logical + s.size

\* The configuration of its data is part of what a data section is.
Kind(s) == IF s.type = "data" THEN <<s.type, s.dtype>> ELSE <<s.type>>

SameKind(a, b) == Kind(a) = Kind(b)

\* Mutant: compares pages only.
PrecedesByPage(a, b) == a.page <= b.page

\* section_compare: the order qsort is called with.
Precedes(a, b) ==
    \/ a.page < b.page
    \/ a.page = b.page /\ a.logical <= b.logical

\* Mutant: sections that touch do not overlap.
OverlapInOrderStrict(a, b) ==
    IF b.logical < End(a)
    THEN IF SameKind(a, b) THEN 1 ELSE -1
    ELSE 0

\* section_overlap, for a and b already swapped in address order.
OverlapInOrder(a, b) ==
    IF a.type # b.type
    THEN IF b.logical < End(a) THEN -1 ELSE 0
    ELSE IF b.logical <= End(a)
         THEN IF a.type = "data" /\ a.dtype # b.dtype THEN -1 ELSE 1
         ELSE 0

Overlap(a, b) ==
    IF a.page # b.page THEN 0
    ELSE IF a.logical > b.logical THEN OverlapInOrder(b, a)
         ELSE OverlapInOrder(a, b)

\* maxi32 returns a uint16_t: the larger end is truncated to a word.
Maxi32(x, y) == (IF x > y THEN x ELSE y) % WordSize

Minu16(x, y) == IF x < y THEN x ELSE y

\* Mutant: takes the second section's end, as if sections never nested.
MergeSecondEnd(a, b) ==
    [a EXCEPT !.logical = Minu16(a.logical, b.logical),
              !.size = End(b) - Minu16(a.logical, b.logical)]

Merge(a, b) ==
    LET begin == Minu16(a.logical, b.logical)
        end   == Maxi32(End(a), End(b))
    IN  [a EXCEPT !.logical = begin, !.size = end - begin]

\* The orders in which qsort, which is not stable, may leave the array s.
Sorts(s) ==
    {r \in Bijection(1..Len(s), 1..Len(s)) :
        \A i, j \in 1..Len(s) : i < j => Precedes(s[r[i]], s[r[j]])}

-----------------------------------------------------------------------------
Init ==
    /\ data = <<>>
    /\ capacity = 0
    /\ alloc = 0
    /\ heap = {}
    /\ pc = "idle"
    /\ next = 1
    /\ section = <<>>
    /\ given = {}
    /\ tidied = FALSE

\* The section is copied in; a write past the block kills the process.
Push(s, room) ==
    /\ data' = Append(data, s)
    /\ heap' = heap \union {s.str}
    /\ given' = given \union {s}
    /\ tidied' = FALSE
    /\ pc' = IF Len(data) < room THEN "idle" ELSE "dead"
    /\ UNCHANGED <<next, section>>

\* Mutant: off by one in the test for a full buffer.
AddInPlaceFull(s) ==
    /\ Len(data) <= capacity
    /\ Push(s, alloc)
    /\ UNCHANGED <<capacity, alloc>>

\* The buffer is not full according to its capacity.
AddInPlace(s) ==
    /\ Len(data) < capacity
    /\ Push(s, alloc)
    /\ UNCHANGED <<capacity, alloc>>

\* The buffer is full and realloc succeeds.
AddGrow(s) ==
    /\ Len(data) >= capacity
    /\ capacity' = capacity + Increment
    /\ alloc' = capacity + Increment
    /\ Push(s, capacity + Increment)

\* section_array_add; when realloc fails the array is unchanged and the
\* caller keeps its strings (it returns -1).
Add ==
    /\ pc = "idle"
    /\ \E d \in Descriptors, t \in Tokens \ heap :
        LET s == WithStrings(d, t) IN
            \/ AddInPlace(s)
            \/ AddGrow(s)

\* section_array_reset: the strings go, the block and its capacity stay.
Reset ==
    /\ pc = "idle"
    /\ heap' = heap \ {data[k].str : k \in DOMAIN data}
    /\ data' = <<>>
    /\ given' = {}
    /\ tidied' = FALSE
    /\ UNCHANGED <<capacity, alloc, pc, next, section>>

\* Mutant: takes one increment off the capacity.
DeleteIncrement ==
    /\ pc = "idle"
    /\ heap' = heap \ {data[k].str : k \in DOMAIN data}
    /\ data' = <<>>
    /\ capacity' = capacity - Increment
    /\ alloc' = 0
    /\ given' = {}
    /\ tidied' = FALSE
    /\ UNCHANGED <<pc, next, section>>

\* section_array_delete
Delete ==
    /\ pc = "idle"
    /\ heap' = heap \ {data[k].str : k \in DOMAIN data}
    /\ data' = <<>>
    /\ capacity' = 0
    /\ alloc' = 0
    /\ given' = {}
    /\ tidied' = FALSE
    /\ UNCHANGED <<pc, next, section>>

\* section_array_tidy up to its loop.  An empty array trips its assertion.
TidyStart ==
    /\ pc = "idle"
    /\ data # <<>>
    /\ \E r \in Sorts(data) : data' = [k \in 1..Len(data) |-> data[r[k]]]
    /\ section' = <<data'[1]>>
    /\ next' = 2
    /\ pc' = "merge"
    /\ UNCHANGED <<capacity, alloc, heap, given, tidied>>

\* calloc fails: its result is used unchecked.
TidyOutOfMemory ==
    /\ pc = "idle"
    /\ data # <<>>
    /\ pc' = "dead"
    /\ UNCHANGED <<data, capacity, alloc, heap, next, section, given, tidied>>

\* Mutant: the merged section is dropped without section_delete.
TidyMergeLeaks ==
    /\ pc = "merge"
    /\ next <= Len(data)
    /\ Overlap(section[Len(section)], data[next]) = 1
    /\ section' = [section EXCEPT ![Len(section)] = Merge(@, data[next])]
    /\ next' = next + 1
    /\ UNCHANGED <<data, capacity, alloc, heap, pc, given, tidied>>

\* One iteration: data[i] is merged into section[j], and its strings freed.
TidyMerge ==
    /\ pc = "merge"
    /\ next <= Len(data)
    /\ Overlap(section[Len(section)], data[next]) = 1
    /\ section' = [section EXCEPT ![Len(section)] = Merge(@, data[next])]
    /\ heap' = heap \ {data[next].str}
    /\ next' = next + 1
    /\ UNCHANGED <<data, capacity, alloc, pc, given, tidied>>

\* One iteration: data[i] becomes section[++j].
TidyKeep ==
    /\ pc = "merge"
    /\ next <= Len(data)
    /\ Overlap(section[Len(section)], data[next]) # 1
    /\ section' = Append(section, data[next])
    /\ next' = next + 1
    /\ UNCHANGED <<data, capacity, alloc, heap, pc, given, tidied>>

\* The new block replaces the old one; it was allocated for arr->count
\* sections, and arr->capacity keeps its value.
TidyDone ==
    /\ pc = "merge"
    /\ next > Len(data)
    /\ data' = section
    /\ alloc' = Len(data)
    /\ section' = <<>>
    /\ next' = 1
    /\ pc' = "idle"
    /\ tidied' = TRUE
    /\ UNCHANGED <<capacity, heap, given>>

Tidy == TidyStart \/ TidyOutOfMemory \/ TidyMerge \/ TidyKeep \/ TidyDone

\* Every sequence of calls the interface allows.
Next == Add \/ Reset \/ Delete \/ Tidy

Spec == Init /\ [][Next]_vars

\* The calls of the program: sections are loaded, the array is tidied, read
\* and deleted; nothing is added to a tidied array.
ProgramNext ==
    \/ ~tidied /\ (Add \/ Reset)
    \/ Delete
    \/ Tidy

ProgramSpec == Init /\ [][ProgramNext]_vars

-----------------------------------------------------------------------------
(* Properties.                                                             *)

SectionType ==
    [type : Types, dtype : {d.dtype : d \in Descriptors}, page : Nat,
     logical : 0..(WordSize - 1), size : Int,
     output : {d.output : d \in Descriptors}, str : Tokens]

\* The variables keep the types the C declarations give them.
TypeOK ==
    /\ data \in Seq(SectionType)
    /\ section \in Seq(SectionType)
    /\ capacity \in Nat
    /\ alloc \in Nat
    /\ heap \subseteq Tokens
    /\ pc \in {"idle", "merge", "dead"}
    /\ next \in Nat \ {0}
    /\ given \subseteq SectionType
    /\ tidied \in BOOLEAN

\* Sections whose strings are still referenced: while tidying, those already
\* placed in section[] and those the loop has not reached.
Placed == {section[k].str : k \in 1..Len(section)}

Todo == IF pc = "merge" THEN next ELSE 1

Pending == {data[k].str : k \in Todo..Len(data)}

\* From index first on, no two sections of s share their strings.
Unshared(s, first) ==
    \A i, j \in first..Len(s) : s[i].str = s[j].str => i = j

\* Each string block belongs to exactly one section, no section holds a freed
\* block, and none is lost: merging frees exactly the strings of the section
\* that disappears (section_delete in section_array_tidy).
StringsOwned ==
    pc # "dead" =>
        /\ heap = Placed \union Pending
        /\ Placed \intersect Pending = {}
        /\ Unshared(section, 1)
        /\ Unshared(data, Todo)

\* A tidied array is in (page, logical) order, merged sections included:
\* print_header and disassemble rely on it to compare a section with the
\* one before it.
TidySorted ==
    tidied => \A i, j \in DOMAIN data :
        i < j => /\ data[i].page <= data[j].page
                 /\ data[i].page = data[j].page => data[i].logical <= data[j].logical

Bytes(s) == s.logical..(End(s) - 1)

\* What a section covers: addresses of its page, as data of its kind.
Cell(s) == {<<Kind(s), s.page, a>> : a \in Bytes(s)}

Cells(S) == UNION {Cell(s) : s \in S}

\* No section reaches the end of the address space.
FitsWord == \A g \in given : End(g) < WordSize

\* Tidying neither loses nor invents bytes: an address is in a section of a
\* kind afterwards exactly when it was in one before (section_merge).
CoverageKept ==
    tidied /\ FitsWord => Cells(Range(data)) = Cells(given)

\* Sections of different kinds that start together, or one inside the other.
Clash(a, b) ==
    /\ a.page = b.page
    /\ ~SameKind(a, b)
    /\ \/ a.logical = b.logical
       \/ a.logical \in Bytes(b)
       \/ b.logical \in Bytes(a)

\* When no two sections of different kinds clash, the result is canonical:
\* sections of one kind on one page are separated by a gap, whatever order
\* the sections were loaded in and however qsort resolved ties.
TidyCanonical ==
    tidied /\ FitsWord /\ (\A a, b \in given : ~Clash(a, b)) =>
        \A i, j \in DOMAIN data :
            /\ i < j
            /\ SameKind(data[i], data[j])
            /\ data[i].page = data[j].page
            => End(data[i]) < data[j].logical

\* The program never writes a section past the block the array owns
\* (section_array_add after section_array_tidy would).
NoOverrun == Len(data) <= alloc

\* CoverageKept without its condition: sections may reach the end of the
\* address space, as those of the last bank do ("Merge 2 sections the 2nd
\* section into the 1st one.").
CoverageKeptToTheEnd ==
    tidied => Cells(Range(data)) = Cells(given)
=============================================================================
