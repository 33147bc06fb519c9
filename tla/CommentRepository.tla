------------------------- MODULE CommentRepository --------------------------
(***************************************************************************)
(* The comment repository of comment.c, and the functions that load it     *)
(* from a JSON file and save it (comment/load.c, comment/save.c).          *)
(*                                                                         *)
(* Any allocation may fail.  Each loop is one action per iteration.  Of a  *)
(* text only what the functions distinguish is kept: whether it has        *)
(* several lines, and whether a double quote in it ends a JSON string.     *)
(***************************************************************************)
EXTENDS Integers, Sequences, Functions

CONSTANTS
    Pages,      \* memory pages
    Logicals,   \* logical addresses of comments
    Bounds,     \* bounds of ranges of logical addresses
    Texts,      \* texts of comments
    Multiline,  \* those with a line feed
    Quoted,     \* those with a double quote
    Pointers,   \* heap blocks that may hold a string
    Null,       \* the null pointer, and a missing text
    Invalid,    \* an element of a file that is not a comment
    Files,      \* files to load: the elements of their array
    Increment   \* COMMENT_ARRAY_INC

Entry == [page : Pages, logical : Logicals, text : Texts]

ASSUME CommentLogicalsAssumption == Logicals \union Bounds \subseteq Int

ASSUME CommentNullAssumption == Null \notin Pointers \union Texts

ASSUME CommentIncrementAssumption == Increment \in Nat \ {0}

ASSUME CommentFilesAssumption ==
    Invalid \notin Entry /\ Files \subseteq Seq(Entry \union {Invalid})

VARIABLES
    comments,  \* comments[0 .. last-1]
    size,      \* repository->size: comments the array has room for (0: no array)
    heap,      \* the live strings: pointer -> contents
    pc,        \* "idle", the function under way ("delete", "load", "save",
               \* "lines" in the inner loop of save), or "dead"
    i,         \* its loop counter, from 1
    arg,       \* the range it deletes, or the file it loads
    file,      \* what the comment_repository_save under way has written
    before     \* history: the entries when loading started

vars == <<comments, size, heap, pc, i, arg, file, before>>

NoArg == <<>>

Init ==
    /\ comments = <<>>
    /\ size = 0
    /\ heap = [p \in {} |-> Null]
    /\ pc = "idle"
    /\ i = 1
    /\ arg = NoArg
    /\ file = <<>>
    /\ before = {}

\* The comments as the caller sees them.
EntryOf(c) ==
    [page |-> c.page, logical |-> c.logical,
     text |-> IF c.text = Null THEN Null ELSE heap[c.text]]

Contents == {EntryOf(comments[k]) : k \in 1..Len(comments)}

SameAddress(e, f) == e.page = f.page /\ e.logical = f.logical

\* A function starts, and returns.
Call(f, a) == pc = "idle" /\ pc' = f /\ i' = 1 /\ arg' = a

Return == pc' = "idle" /\ i' = 1 /\ arg' = NoArg /\ file' = <<>> /\ before' = {}

-----------------------------------------------------------------------------
\* comment_repository_create; when malloc fails the repository stays empty.
Create ==
    /\ pc = "idle"
    /\ size = 0
    /\ size' = Increment
    /\ UNCHANGED <<comments, heap, pc, i, arg, file, before>>

\* comment_repository_destroy clears last before the loop that frees the
\* texts of comments[0 .. last-1], so the loop frees none.
Release == size' = 0 /\ comments' = <<>> /\ heap' = heap

Destroy ==
    /\ pc = "idle"
    /\ Release
    /\ UNCHANGED <<pc, i, arg, file, before>>

\* comment_repository_index finds a comment.
Present(e) == \E k \in 1..Len(comments) : SameAddress(comments[k], e)

Full == Len(comments) >= size

\* strdup: the string pointed to and the heap; null when memory is exhausted.
Strdup(text) ==
    {[ptr |-> Null, heap |-> heap]} \union
    {[ptr |-> p, heap |-> [q \in DOMAIN heap \union {p} |-> IF q = p THEN text ELSE heap[q]]] :
        p \in Pointers \ DOMAIN heap}

\* A new comment, in an array that has room for n.
Push(e, n) ==
    /\ size' = n
    /\ \E s \in Strdup(e.text) :
        /\ comments' = Append(comments, [page |-> e.page, logical |-> e.logical, text |-> s.ptr])
        /\ heap' = s.heap

\* Mutant: the last comment for an address wins.
StoreReplaces(e) ==
    \/ \E k \in 1..Len(comments), s \in Strdup(e.text) :
        /\ SameAddress(comments[k], e)
        /\ comments' = [comments EXCEPT ![k].text = s.ptr]
        /\ heap' = s.heap
        /\ size' = size
    \/ ~Present(e) /\ ~Full /\ Push(e, size)
    \/ ~Present(e) /\ Full /\ Push(e, size + Increment)

\* Mutant: the array is never extended.
StoreOverflows(e) ==
    \/ Present(e) /\ UNCHANGED <<comments, size, heap>>
    \/ ~Present(e) /\ Push(e, size)

\* comment_repository_add succeeds; the first comment for an address stays.
Store(e) ==
    \/ Present(e) /\ UNCHANGED <<comments, size, heap>>
    \/ ~Present(e) /\ ~Full /\ Push(e, size)
    \/ ~Present(e) /\ Full /\ Push(e, size + Increment)

\* It fails, when realloc does: the whole repository is destroyed.
Exhaust(e) == ~Present(e) /\ Full /\ Release

Add ==
    /\ pc = "idle"
    /\ \E e \in Entry : Store(e) \/ Exhaust(e)
    /\ UNCHANGED <<pc, i, arg, file, before>>

-----------------------------------------------------------------------------
(* comment_repository_delete                                               *)

Within(c) == c.page = arg.page /\ c.logical >= arg.first /\ c.logical < arg.end

DeleteStart ==
    /\ \E first, end \in Bounds, page \in Pages :
        Call("delete", [first |-> first, end |-> end, page |-> page])
    /\ UNCHANGED <<comments, size, heap, file, before>>

\* Mutant: the text is freed after the last comment took its place.
DeleteOneFreesMoved ==
    LET n == Len(comments) IN
    /\ pc = "delete"
    /\ i <= n
    /\ Within(comments[i])
    /\ heap' = Restrict(heap, DOMAIN heap \ {comments[n].text})
    /\ comments' = [k \in 1..(n - 1) |-> IF k = i THEN comments[n] ELSE comments[k]]
    /\ UNCHANGED <<size, pc, i, arg, file, before>>

\* The last comment takes the place of this one and is examined next.
DeleteOne ==
    LET n == Len(comments) IN
    /\ pc = "delete"
    /\ i <= n
    /\ Within(comments[i])
    /\ heap' = Restrict(heap, DOMAIN heap \ {comments[i].text})
    /\ comments' = [k \in 1..(n - 1) |-> IF k = i THEN comments[n] ELSE comments[k]]
    /\ UNCHANGED <<size, pc, i, arg, file, before>>

DeleteSkip ==
    /\ pc = "delete"
    /\ i <= Len(comments)
    /\ ~Within(comments[i])
    /\ i' = i + 1
    /\ UNCHANGED <<comments, size, heap, pc, arg, file, before>>

DeleteDone ==
    /\ pc = "delete"
    /\ i > Len(comments)
    /\ Return
    /\ UNCHANGED <<comments, size, heap>>

Delete == DeleteStart \/ DeleteOne \/ DeleteSkip \/ DeleteDone

-----------------------------------------------------------------------------
(* comment_repository_load, from a file that is a JSON array; from any     *)
(* other it returns false and changes nothing.                             *)

LoadStart ==
    /\ \E f \in Files : Call("load", f)
    /\ before' = Contents
    /\ UNCHANGED <<comments, size, heap, file>>

LoadEntry ==
    /\ pc = "load"
    /\ i <= Len(arg)
    /\ arg[i] # Invalid
    /\ Store(arg[i])
    /\ i' = i + 1
    /\ UNCHANGED <<pc, arg, file, before>>

\* Mutant: an element that is not a comment is skipped.
LoadFailSkips ==
    /\ pc = "load"
    /\ i <= Len(arg)
    /\ arg[i] = Invalid
    /\ i' = i + 1
    /\ UNCHANGED <<comments, size, heap, pc, arg, file, before>>

\* Loading stops at the first element that is not a comment, or when the
\* repository is destroyed for want of memory.
LoadFail ==
    /\ pc = "load"
    /\ i <= Len(arg)
    /\ \/ arg[i] = Invalid /\ UNCHANGED <<comments, size, heap>>
       \/ arg[i] # Invalid /\ Exhaust(arg[i])
    /\ Return

\* An element without an address or a page is worse: json_validate_int
\* asserts that it is given a value.
LoadCrash ==
    /\ pc = "load"
    /\ i <= Len(arg)
    /\ arg[i] = Invalid
    /\ pc' = "dead"
    /\ arg' = NoArg
    /\ UNCHANGED <<comments, size, heap, i, file, before>>

LoadDone ==
    /\ pc = "load"
    /\ i > Len(arg)
    /\ Return
    /\ UNCHANGED <<comments, size, heap>>

Load == LoadStart \/ LoadEntry \/ LoadFail \/ LoadCrash \/ LoadDone

-----------------------------------------------------------------------------
(* comment_repository_save; when fopen fails nothing changes.              *)

SaveStart ==
    /\ Call("save", NoArg)
    /\ UNCHANGED <<comments, size, heap, file, before>>

\* Mutant: the loop does not go on.
SaveEntryStuck ==
    LET e == EntryOf(comments[i]) IN
    /\ pc = "save"
    /\ i <= Len(comments)
    /\ e.text \in Texts \ Multiline
    /\ UNCHANGED vars

\* Mutant: comments are counted from 1.
SaveEntrySkipsFirst ==
    LET e == EntryOf(comments[i]) IN
    /\ pc = "save"
    /\ i <= Len(comments)
    /\ e.text \in Texts \ Multiline
    /\ file' = IF i = 1 THEN file ELSE Append(file, e)
    /\ i' = i + 1
    /\ UNCHANGED <<comments, size, heap, pc, arg, before>>

SaveEntry ==
    LET e == EntryOf(comments[i]) IN
    /\ pc = "save"
    /\ i <= Len(comments)
    /\ e.text \in Texts \ Multiline
    /\ file' = Append(file, e)
    /\ i' = i + 1
    /\ UNCHANGED <<comments, size, heap, pc, arg, before>>

\* strchr reads the null pointer of a text that was not copied.
SaveCrash ==
    /\ pc = "save"
    /\ i <= Len(comments)
    /\ comments[i].text = Null
    /\ pc' = "dead"
    /\ UNCHANGED <<comments, size, heap, i, arg, file, before>>

\* The first line of several is written, and the pointer is at the line feed.
\* The next search for a line feed finds that one, for ever.
SaveLines ==
    /\ \/ /\ pc = "save"
          /\ i <= Len(comments)
          /\ EntryOf(comments[i]).text \in Multiline
       \/ pc = "lines"
    /\ pc' = "lines"
    /\ UNCHANGED <<comments, size, heap, i, arg, file, before>>

SaveDone ==
    /\ pc = "save"
    /\ i > Len(comments)
    /\ Return
    /\ UNCHANGED <<comments, size, heap>>

Save == SaveStart \/ SaveEntry \/ SaveCrash \/ SaveLines \/ SaveDone

-----------------------------------------------------------------------------
\* A function that was called goes on.
Step == pc # "idle" /\ (Delete \/ Load \/ Save)

Next == Create \/ Destroy \/ Add \/ Delete \/ Load \/ Save

Spec == Init /\ [][Next]_vars /\ WF_vars(Step)

-----------------------------------------------------------------------------
(* Properties.                                                             *)

\* The variables keep their types; the heap maps live blocks to texts, and
\* the array has room for its comments.
TypeOK ==
    /\ comments \in Seq([page : Pages, logical : Logicals, text : Pointers \union {Null}])
    /\ size \in Nat
    /\ Len(comments) <= size
    /\ DOMAIN heap \subseteq Pointers
    /\ \A p \in DOMAIN heap : heap[p] \in Texts
    /\ pc \in {"idle", "delete", "load", "save", "lines", "dead"}
    /\ i \in Nat \ {0}
    /\ arg \in CASE pc = "delete" -> [first : Bounds, end : Bounds, page : Pages]
                 [] pc = "load" -> Seq(Entry \union {Invalid})
                 [] OTHER -> {NoArg}
    /\ file \in Seq(Entry)
    /\ before \subseteq [page : Pages, logical : Logicals, text : Texts \union {Null}]

\* Every text of a comment is live and belongs to it alone, whatever was
\* added, deleted or loaded before: no text is read or freed twice after free.
StringsOwned ==
    \A j, k \in 1..Len(comments) :
        comments[j].text # Null =>
            /\ comments[j].text \in DOMAIN heap
            /\ comments[k].text = comments[j].text => k = j

\* What the file f adds to an empty repository: its elements up to the first
\* that is not a comment, and of those for one address the first.
Loaded(f, n) ==
    {f[k] : k \in {m \in 1..n :
        /\ \A j \in 1..m : f[j] # Invalid
        /\ \A j \in 1..(m - 1) : ~SameAddress(f[j], f[m])}}

\* Loading merges: comments that were there stay as they were, and those of
\* the file so far are added for the other addresses, at most one for each.
\* A comment whose text could not be copied is there without it.
LoadMerges ==
    pc = "load" =>
        LET expected == before \union
                {e \in Loaded(arg, i - 1) : \A f \in before : ~SameAddress(e, f)}
        IN  /\ \A e \in expected : \E f \in Contents :
                    SameAddress(e, f) /\ f.text \in {e.text, Null}
            /\ \A f \in Contents : \E e \in expected :
                    SameAddress(e, f) /\ f.text \in {e.text, Null}

\* The elements a file holds for json_load_file: none if a quote is in a text,
\* for the file is not JSON then.
Parsed(f) == IF \E k \in 1..Len(f) : f[k].text \in Quoted THEN <<>> ELSE f

\* Loading the file that was saved gives back what was saved, as long as no
\* text has a quote: nothing is lost, and no element of the file is refused.
SaveThenLoad ==
    [][pc = "save" /\ pc' = "idle" /\ (\A e \in Contents : e.text \notin Quoted) =>
         Loaded(Parsed(file), Len(Parsed(file))) = Contents]_vars

\* Comments of one line are saved, whatever their number.
SaveEnds ==
    pc = "save" /\ (\A e \in Contents : e.text \notin Multiline \union {Null}) ~> pc = "idle"

\* comment.h: "Save comments to file."  Saving ends.
SaveReturns == pc = "save" ~> pc # "save" /\ pc # "lines"

\* The repository is an address map: its comments, those that
\* comment_repository_delete is about to delete left out, and no notes.
Entries ==
    {[page |-> c.page, logical |-> c.logical, text |-> EntryOf(c).text, note |-> Null] :
        c \in {d \in {comments[k] : k \in 1..Len(comments)} : pc = "delete" => ~Within(d)}}

Abstract == INSTANCE AddressMap WITH entries <- Entries, NoText <- Null

\* Adding, loading and deleting act as operations on the map; a comment for an
\* address is never replaced, and deleting removes exactly its range.
ImplementsAddressMap == Abstract!Spec
=============================================================================
