-------------------------- MODULE LabelRepository ---------------------------
(***************************************************************************)
(* The label repository of label.c: a growable array of labels whose names *)
(* and descriptions are strings of their own on the heap.                  *)
(*                                                                         *)
(* Any allocation may fail.  label_repository_delete, which moves the last *)
(* label into the place of each one it deletes, is one action per step of  *)
(* its loop.                                                               *)
(***************************************************************************)
EXTENDS Integers, Sequences, Functions

CONSTANTS
    Pages,      \* memory pages
    Logicals,   \* logical addresses of labels
    Bounds,     \* bounds of ranges of logical addresses
    Texts,      \* contents of names and descriptions
    Pointers,   \* heap blocks that may hold a string
    Null,       \* the null pointer, and a missing text
    Increment   \* LABEL_ARRAY_INC

ASSUME LogicalsAssumption == Logicals \union Bounds \subseteq Int

ASSUME NullAssumption == Null \notin Pointers \union Texts

ASSUME IncrementAssumption == Increment \in Nat \ {0}

VARIABLES
    labels,   \* labels[0 .. last-1]
    size,     \* repository->size: labels the array has room for (0: no array)
    heap,     \* the live strings: pointer -> contents
    pc,       \* "idle", or "delete" inside label_repository_delete
    i,        \* the loop counter of label_repository_delete, from 1
    range     \* the arguments of label_repository_delete

vars == <<labels, size, heap, pc, i, range>>

NoRange == [first |-> 0, end |-> 0, page |-> Null]

Init ==
    /\ labels = <<>>
    /\ size = 0
    /\ heap = [p \in {} |-> Null]
    /\ pc = "idle"
    /\ i = 1
    /\ range = NoRange

-----------------------------------------------------------------------------
\* label_repository_index: no label has this address.
Absent(logical, page) ==
    \A k \in 1..Len(labels) :
        ~(labels[k].page = page /\ labels[k].logical = logical)

\* strdup: what it may return and leave on the heap h.  It returns the null
\* pointer when memory is exhausted, and is not called without a text.
Strdup(h, text) ==
    {[ptr |-> Null, heap |-> h]} \union
    {[ptr |-> p, heap |-> [q \in DOMAIN h \union {p} |-> IF q = p THEN text ELSE h[q]]] :
        p \in {r \in Pointers \ DOMAIN h : text # Null}}

Free(h, P) == [q \in DOMAIN h \ P |-> h[q]]

\* label_repository_create; when malloc fails the repository stays empty.
Create ==
    /\ pc = "idle"
    /\ size = 0
    /\ size' = Increment
    /\ labels' = <<>>
    /\ UNCHANGED <<heap, pc, i, range>>

\* label_repository_destroy clears last before the loop that frees the strings
\* of labels[0 .. last-1], so the loop frees none.
Release ==
    /\ size' = 0
    /\ labels' = <<>>
    /\ UNCHANGED <<heap, pc, i, range>>

Destroy ==
    /\ pc = "idle"
    /\ Release

\* Mutant: the name of a label that exists is replaced, and not freed.
AddExistingRenames(name, logical, page, description) ==
    \E k \in 1..Len(labels), c \in Strdup(heap, name) :
        /\ labels[k].page = page
        /\ labels[k].logical = logical
        /\ labels' = [labels EXCEPT ![k].name = c.ptr]
        /\ heap' = c.heap
        /\ UNCHANGED <<size, pc, i, range>>

\* The address has a label: its name stays, a missing description is filled.
AddExisting(name, logical, page, description) ==
    \E k \in 1..Len(labels), c \in Strdup(heap, description) :
        /\ labels[k].page = page
        /\ labels[k].logical = logical
        /\ labels[k].description = Null
        /\ labels' = [labels EXCEPT ![k].description = c.ptr]
        /\ heap' = c.heap
        /\ UNCHANGED <<size, pc, i, range>>

\* Mutant: the description is the caller's string, not a copy.
PushBorrows(name, logical, page, description) ==
    /\ \E c \in Strdup(heap, name) :
        /\ labels' = Append(labels, [logical |-> logical, page |-> page,
                                     name |-> c.ptr, description |-> description])
        /\ heap' = c.heap
    /\ UNCHANGED <<pc, i, range>>

Push(name, logical, page, description) ==
    /\ \E c \in Strdup(heap, name) : \E d \in Strdup(c.heap, description) :
        /\ labels' = Append(labels, [logical |-> logical, page |-> page,
                                     name |-> c.ptr, description |-> d.ptr])
        /\ heap' = d.heap
    /\ UNCHANGED <<pc, i, range>>

\* Mutant: no search for a label with this address.
AddNewUnchecked(name, logical, page, description) ==
    /\ Len(labels) < size
    /\ size' = size
    /\ Push(name, logical, page, description)

\* A new address, and the array has room.
AddNew(name, logical, page, description) ==
    /\ Absent(logical, page)
    /\ Len(labels) < size
    /\ size' = size
    /\ Push(name, logical, page, description)

\* A new address, and realloc extends the full array.
AddGrow(name, logical, page, description) ==
    /\ Absent(logical, page)
    /\ Len(labels) >= size
    /\ size' = size + Increment
    /\ Push(name, logical, page, description)

\* A new address, and realloc fails: the whole repository is destroyed.
AddOutOfMemory(logical, page) ==
    /\ Absent(logical, page)
    /\ Len(labels) >= size
    /\ Release

\* label_repository_add
Add ==
    /\ pc = "idle"
    /\ \E logical \in Logicals, page \in Pages :
        \/ AddOutOfMemory(logical, page)
        \/ \E name \in Texts, description \in Texts \union {Null} :
            \/ AddExisting(name, logical, page, description)
            \/ AddNew(name, logical, page, description)
            \/ AddGrow(name, logical, page, description)

Within(l) ==
    /\ l.page = range.page
    /\ l.logical >= range.first
    /\ l.logical < range.end

\* label_repository_delete is called.
DeleteStart ==
    /\ pc = "idle"
    /\ pc' = "delete"
    /\ i' = 1
    /\ \E first, end \in Bounds, page \in Pages :
        range' = [first |-> first, end |-> end, page |-> page]
    /\ UNCHANGED <<labels, size, heap>>

\* Mutant: the counter is not stepped back, so the moved label is skipped.
DeleteOneAdvances ==
    LET l == labels[i]  n == Len(labels) IN
    /\ pc = "delete"
    /\ i <= n
    /\ Within(l)
    /\ heap' = Free(heap, {l.name, l.description})
    /\ labels' = [k \in 1..(n - 1) |-> IF k = i THEN labels[n] ELSE labels[k]]
    /\ i' = i + 1
    /\ UNCHANGED <<size, pc, range>>

\* Mutant: the description is not freed.
DeleteOneLeaks ==
    LET l == labels[i]  n == Len(labels) IN
    /\ pc = "delete"
    /\ i <= n
    /\ Within(l)
    /\ heap' = Free(heap, {l.name})
    /\ labels' = [k \in 1..(n - 1) |-> IF k = i THEN labels[n] ELSE labels[k]]
    /\ UNCHANGED <<size, pc, i, range>>

\* Mutant: the last label is dropped instead of moved.
DeleteOneDropsLast ==
    LET l == labels[i]  n == Len(labels) IN
    /\ pc = "delete"
    /\ i <= n
    /\ Within(l)
    /\ heap' = Free(heap, {l.name, l.description})
    /\ labels' = SubSeq(labels, 1, n - 1)
    /\ UNCHANGED <<size, pc, i, range>>

\* One iteration that deletes: the last label takes the place of this one and
\* is examined next.
DeleteOne ==
    LET l == labels[i]  n == Len(labels) IN
    /\ pc = "delete"
    /\ i <= n
    /\ Within(l)
    /\ heap' = Free(heap, {l.name, l.description})
    /\ labels' = [k \in 1..(n - 1) |-> IF k = i THEN labels[n] ELSE labels[k]]
    /\ UNCHANGED <<size, pc, i, range>>

\* One iteration that keeps the label.
DeleteSkip ==
    /\ pc = "delete"
    /\ i <= Len(labels)
    /\ ~Within(labels[i])
    /\ i' = i + 1
    /\ UNCHANGED <<labels, size, heap, pc, range>>

DeleteDone ==
    /\ pc = "delete"
    /\ i > Len(labels)
    /\ pc' = "idle"
    /\ i' = 1
    /\ range' = NoRange
    /\ UNCHANGED <<labels, size, heap>>

Delete == DeleteStart \/ DeleteOne \/ DeleteSkip \/ DeleteDone

Next == Create \/ Destroy \/ Add \/ Delete

Spec == Init /\ [][Next]_vars

-----------------------------------------------------------------------------
(* Properties.                                                             *)

Label == [logical : Logicals, page : Pages, name : Pointers \union {Null},
          description : Pointers \union {Null}]

\* The variables keep their types; the heap maps live blocks to texts.
TypeOK ==
    /\ labels \in Seq(Label)
    /\ size \in Nat
    /\ DOMAIN heap \subseteq Pointers
    /\ \A p \in DOMAIN heap : heap[p] \in Texts
    /\ pc \in {"idle", "delete"}
    /\ i \in Nat \ {0}
    /\ range \in [first : Bounds, end : Bounds, page : Pages] \union {NoRange}

\* The array never holds more labels than it was allocated for.
LabelsFit == Len(labels) <= size

\* The address of a label identifies it, as the search by address assumes:
\* label_repository_add never adds a second label for an address, and deleting
\* by moving labels never duplicates one.
AddressesUnique ==
    \A j, k \in 1..Len(labels) :
        /\ labels[j].page = labels[k].page
        /\ labels[j].logical = labels[k].logical
        => j = k

Strings(l) == {l.name, l.description} \ {Null}

\* Each string a label refers to is live and belongs to that label alone:
\* no label is left with a freed name, and no string is freed twice.
StringsOwned ==
    \A j \in 1..Len(labels) :
        /\ Strings(labels[j]) \subseteq DOMAIN heap
        /\ labels[j].name # Null => labels[j].name # labels[j].description
        /\ \A k \in 1..Len(labels) :
            k # j => Strings(labels[j]) \intersect Strings(labels[k]) = {}

\* The strings of the labels in the repository.
Owned == UNION {Strings(labels[k]) : k \in 1..Len(labels)}

\* Adding and deleting labels loses no string: a block is lost only when the
\* repository is destroyed.
OnlyDestroyLeaks ==
    [][size' # 0 => (DOMAIN heap \ Owned)' \subseteq DOMAIN heap \ Owned]_vars

\* The repository is an address map: its labels, those label_repository_delete
\* is about to delete left out.
Text(p) == IF p = Null THEN Null ELSE heap[p]

Kept(l) == pc = "delete" => ~Within(l)

EntryOf(l) == [page |-> l.page, logical |-> l.logical,
               text |-> Text(l.name), note |-> Text(l.description)]

Entries == {EntryOf(labels[k]) : k \in {j \in 1..Len(labels) : Kept(labels[j])}}

Abstract == INSTANCE AddressMap WITH entries <- Entries, NoText <- Null

\* Every operation acts as one operation on the map: names are never replaced,
\* and deleting removes exactly the labels of the range.
ImplementsAddressMap == Abstract!Spec

\* The loop of label_repository_delete is invisible: when it is entered the
\* labels of the range are gone from the map, its moves change nothing, and
\* when it is left none of the range remains.
DeleteInvisible == [][pc = "delete" => Entries' = Entries]_vars
=============================================================================
