------------------------------ MODULE LabelFile ------------------------------
(***************************************************************************)
(* Label files: label_repository_load (label/load.c), which adds the       *)
(* labels of a JSON file one by one, and label_repository_save             *)
(* (label/save.c), which prints JSON without escaping anything.            *)
(*                                                                         *)
(* Each loop is one action per iteration; no other call comes in between.  *)
(* A quote in a text, a description that ends with a line feed (printed    *)
(* with a comma too many) and an empty one (an array of no lines, which is *)
(* refused) make a file that cannot be loaded.                             *)
(***************************************************************************)
EXTENDS LabelRepository

CONSTANTS
    Files,     \* the files that may be loaded: sequences of elements
    Invalid,   \* an element label_repository_load refuses
    Broken     \* the texts that make a file that cannot be loaded

Element == [page : Pages, logical : Logicals, text : Texts,
            note : Texts \union {Null}]

ASSUME FilesAssumption == Files \subseteq Seq(Element \union {Invalid})

ASSUME TextsAssumption == Broken \subseteq Texts

VARIABLES
    task,    \* "none", "load", "save", or "dead"
    n,       \* the loop counter, from 1
    file,    \* the elements of the file that is read or written
    before   \* history: the labels there were when loading began

fileVars == <<task, n, file, before>>

FileInit ==
    /\ Init
    /\ task = "none"
    /\ n = 1
    /\ file = <<>>
    /\ before = {}

Return ==
    /\ task' = "none"
    /\ n' = 1
    /\ file' = <<>>
    /\ before' = {}

-----------------------------------------------------------------------------
\* The file is a JSON array; any other changes nothing.
LoadStart ==
    /\ task = "none"
    /\ pc = "idle"
    /\ task' = "load"
    /\ n' = 1
    /\ file' \in Files
    /\ before' = Entries
    /\ UNCHANGED vars

\* label_repository_add has nothing to add to a label with a description.
AddNothing(logical, page) ==
    /\ \E k \in 1..Len(labels) :
        /\ labels[k].page = page
        /\ labels[k].logical = logical
        /\ labels[k].description # Null
    /\ UNCHANGED vars

\* Mutant: the label that is there is replaced by the one of the file.
StoreReplaces(e) ==
    \/ AddExistingRenames(e.text, e.logical, e.page, e.note)
    \/ AddNew(e.text, e.logical, e.page, e.note)
    \/ AddGrow(e.text, e.logical, e.page, e.note)

\* label_repository_add returns true, whether or not the strings of the label
\* could be copied.
Store(e) ==
    \/ AddExisting(e.text, e.logical, e.page, e.note)
    \/ AddNothing(e.logical, e.page)
    \/ AddNew(e.text, e.logical, e.page, e.note)
    \/ AddGrow(e.text, e.logical, e.page, e.note)

LoadEntry ==
    /\ task = "load"
    /\ n <= Len(file)
    /\ file[n] # Invalid
    /\ Store(file[n])
    /\ n' = n + 1
    /\ UNCHANGED <<task, file, before>>

\* Loading stops at the first element that is refused, or when the repository
\* is destroyed for want of memory; what was added before stays.
LoadFail ==
    /\ task = "load"
    /\ n <= Len(file)
    /\ \/ file[n] = Invalid /\ UNCHANGED vars
       \/ file[n] # Invalid /\ AddOutOfMemory(file[n].logical, file[n].page)
    /\ Return

\* An element without an address or a page is worse: json_validate_int
\* asserts that it is given a value.
LoadCrash ==
    /\ task = "load"
    /\ n <= Len(file)
    /\ file[n] = Invalid
    /\ task' = "dead"
    /\ UNCHANGED vars
    /\ UNCHANGED <<n, file, before>>

LoadDone ==
    /\ task = "load"
    /\ n > Len(file)
    /\ Return
    /\ UNCHANGED vars

-----------------------------------------------------------------------------
SaveStart ==
    /\ task = "none"
    /\ pc = "idle"
    /\ task' = "save"
    /\ n' = 1
    /\ file' = <<>>
    /\ UNCHANGED <<labels, size, heap, pc, i, range, before>>

\* Mutant: the last label has a comma too.
SavedAlwaysComma(k) == [entry |-> EntryOf(labels[k]), comma |-> TRUE]

\* A label as it is printed: a comma comes after it unless it is the last.
Saved(k) == [entry |-> EntryOf(labels[k]), comma |-> k < Len(labels)]

SaveEntry ==
    /\ task = "save"
    /\ n <= Len(labels)
    /\ labels[n].name # Null
    /\ file' = Append(file, Saved(n))
    /\ n' = n + 1
    /\ UNCHANGED vars
    /\ UNCHANGED <<task, before>>

\* fprintf is given the null pointer of a name that was not copied.
SaveNull ==
    /\ task = "save"
    /\ n <= Len(labels)
    /\ labels[n].name = Null
    /\ task' = "dead"
    /\ UNCHANGED vars
    /\ UNCHANGED <<n, file, before>>

SaveDone ==
    /\ task = "save"
    /\ n > Len(labels)
    /\ Return
    /\ UNCHANGED vars

-----------------------------------------------------------------------------
Call == task = "none" /\ Next /\ UNCHANGED fileVars

FileNext ==
    \/ Call
    \/ LoadStart \/ LoadEntry \/ LoadFail \/ LoadCrash \/ LoadDone
    \/ SaveStart \/ SaveEntry \/ SaveNull \/ SaveDone

FileSpec == FileInit /\ [][FileNext]_<<vars, fileVars>>

-----------------------------------------------------------------------------
(* Properties.                                                             *)

AtAddressOf(S, e) == {f \in S : f.page = e.page /\ f.logical = e.logical}

\* The elements of the file that were read so far.
Read == {file[k] : k \in 1..(n - 1)}

\* The first element of the file for the address of e.
First(e) ==
    LET k == CHOOSE m \in 1..(n - 1) :
                 /\ AtAddressOf({file[m]}, e) # {}
                 /\ \A l \in 1..(m - 1) : AtAddressOf({file[l]}, e) = {}
    IN  file[k]

\* Loading merges: a label that was there keeps its name and its description;
\* the others are those of the file, each with the name of its first element
\* and a description of one of them (or none, when a copy failed).  Every
\* address of the file so far has a label.
LoadMerges ==
    task = "load" =>
        /\ \A e \in before \union Read : AtAddressOf(Entries, e) # {}
        /\ \A e \in Entries :
               /\ IF AtAddressOf(before, e) # {}
                  THEN \A f \in AtAddressOf(before, e) :
                           e.text = f.text /\ f.note \in {e.note, Null}
                  ELSE AtAddressOf(Read, e) # {} /\ e.text \in {First(e).text, Null}
               /\ e.note \in {f.note : f \in AtAddressOf(before \union Read, e)}
                             \union {Null}

TextsOf(e) == {e.text, e.note}

\* What label_repository_load adds of a file label_repository_save wrote:
\* nothing, for want of a comma, for one too many, or for a broken text.
Reloaded(f) ==
    IF \E k \in 1..Len(f) : \/ f[k].comma # (k < Len(f))
                            \/ TextsOf(f[k].entry) \intersect Broken # {}
    THEN {}
    ELSE {f[k].entry : k \in 1..Len(f)}

\* The file that was saved gives back all the labels when it is loaded, unless
\* a text is one that cannot be loaded again.
SaveThenLoad ==
    [][/\ task = "save" /\ task' = "none"
       /\ \A e \in Entries : TextsOf(e) \intersect Broken = {}
       => Reloaded(file) = Entries]_<<vars, fileVars>>
=============================================================================
