----------------------- MODULE CommentRepositoryProofs -----------------------
(***************************************************************************)
(* The comment repository keeps its types, its strings, and one comment    *)
(* for an address, whatever is added, deleted, loaded and saved; and what  *)
(* is loaded from a file never replaces a comment that was there.          *)
(***************************************************************************)
EXTENDS CommentRepository, TLAPS

Comment == [page : Pages, logical : Logicals, text : Pointers \union {Null}]

\* No address has two comments.
AddressesUnique ==
    \A j, k \in 1..Len(comments) : SameAddress(comments[j], comments[k]) => j = k

Inv == TypeOK /\ StringsOwned /\ AddressesUnique

\* The comments t and the heap h, next to those there are: one comment more,
\* for e, with its text in a block that was free, or without it.
Pushed(e, p) ==
    /\ comments' = Append(comments, [page |-> e.page, logical |-> e.logical, text |-> p])
    /\ \/ p = Null /\ heap' = heap
       \/ /\ p \in Pointers \ DOMAIN heap
          /\ heap' = [q \in DOMAIN heap \union {p} |-> IF q = p THEN e.text ELSE heap[q]]

LEMMA PushedResult ==
    ASSUME NEW e, NEW n, Push(e, n)
    PROVE  \E p : Pushed(e, p)
  <1>1. PICK s \in Strdup(e.text) :
          /\ comments' = Append(comments, [page |-> e.page, logical |-> e.logical, text |-> s.ptr])
          /\ heap' = s.heap
    BY DEF Push
  <1>2. CASE s = [ptr |-> Null, heap |-> heap]
    BY <1>1, <1>2 DEF Pushed
  <1>3. CASE s # [ptr |-> Null, heap |-> heap]
    <2>1. PICK p \in Pointers \ DOMAIN heap :
            s = [ptr |-> p, heap |-> [q \in DOMAIN heap \union {p} |->
                                         IF q = p THEN e.text ELSE heap[q]]]
      BY <1>1, <1>3 DEF Strdup
    <2> QED BY <1>1, <2>1 DEF Pushed
  <1> QED BY <1>2, <1>3

\* The types of the array and of the heap, and what the invariant says of them.
ArrayInv ==
    /\ comments \in Seq(Comment)
    /\ size \in Nat
    /\ Len(comments) <= size
    /\ DOMAIN heap \subseteq Pointers
    /\ \A p \in DOMAIN heap : heap[p] \in Texts
    /\ StringsOwned
    /\ AddressesUnique

LEMMA InvArray ==
    ASSUME Inv PROVE ArrayInv
  BY DEF Inv, TypeOK, ArrayInv, Comment

\* comment_repository_add keeps it, when it adds a comment,
LEMMA PushArray ==
    ASSUME ArrayInv, NEW e \in Entry, NEW n \in Nat, Len(comments) < n,
           ~Present(e), Push(e, n)
    PROVE  ArrayInv'
  <1>1. PICK p : Pushed(e, p)
    BY PushedResult
  <1>2. /\ comments \in Seq(Comment) /\ Len(comments) \in Nat
        /\ \A k \in 1..Len(comments) : comments[k] \in Comment
    BY DEF ArrayInv
  <1>3. p \in Pointers \union {Null}
    BY <1>1 DEF Pushed
  <1> DEFINE c == [page |-> e.page, logical |-> e.logical, text |-> p]
  <1>4. c \in Comment
    BY <1>3 DEF Comment, Entry
  <1>5. /\ comments' = Append(comments, c)
        /\ comments' \in Seq(Comment)
        /\ Len(comments') = Len(comments) + 1
        /\ comments'[Len(comments) + 1] = c
        /\ \A k \in 1..Len(comments) : comments'[k] = comments[k]
    <2>1. comments' = Append(comments, c)
      BY <1>1 DEF Pushed
    <2> HIDE DEF c
    <2> QED BY <1>2, <1>4, <2>1
  <1>6. size' = n
    BY DEF Push
  <1>7. /\ DOMAIN heap' \subseteq Pointers
        /\ \A q \in DOMAIN heap' : heap'[q] \in Texts
        /\ DOMAIN heap \subseteq DOMAIN heap'
        /\ p # Null => p \in DOMAIN heap' /\ p \notin DOMAIN heap
    <2>1. CASE p = Null /\ heap' = heap
      BY <2>1 DEF ArrayInv
    <2>2. CASE p \in Pointers \ DOMAIN heap /\
               heap' = [q \in DOMAIN heap \union {p} |-> IF q = p THEN e.text ELSE heap[q]]
      BY <2>2 DEF ArrayInv, Entry
    <2> QED BY <1>1, <2>1, <2>2 DEF Pushed
  <1>8. StringsOwned'
    <2>1. SUFFICES ASSUME NEW j \in 1..(Len(comments) + 1), NEW k \in 1..(Len(comments) + 1),
                          comments'[j].text # Null
                   PROVE  /\ comments'[j].text \in DOMAIN heap'
                          /\ comments'[k].text = comments'[j].text => k = j
      BY <1>5 DEF StringsOwned
    <2>2. CASE j = Len(comments) + 1
      <3>1. comments'[j].text = p /\ p # Null
        BY <1>5, <2>1, <2>2
      <3>2. k # j => comments'[k] = comments[k] /\ k \in 1..Len(comments)
        BY <1>2, <1>5, <2>2
      <3>3. k # j => comments[k].text = Null \/ comments[k].text \in DOMAIN heap
        BY <3>2 DEF ArrayInv, StringsOwned
      <3> QED BY <1>7, <3>1, <3>2, <3>3
    <2>3. CASE j # Len(comments) + 1
      <3>1. j \in 1..Len(comments) /\ comments'[j] = comments[j]
        BY <1>2, <1>5, <2>3
      <3>2. comments[j].text \in DOMAIN heap
        BY <2>1, <3>1 DEF ArrayInv, StringsOwned
      <3>3. CASE k = Len(comments) + 1
        <4>1. comments'[k].text = p
          BY <1>5, <3>3
        <4> QED BY <1>7, <2>1, <3>1, <3>2, <4>1
      <3>4. CASE k # Len(comments) + 1
        <4>1. k \in 1..Len(comments) /\ comments'[k] = comments[k]
          BY <1>2, <1>5, <3>4
        <4> QED BY <1>7, <2>1, <3>1, <3>2, <4>1 DEF ArrayInv, StringsOwned
      <3> QED BY <3>3, <3>4
    <2> QED BY <2>2, <2>3
  <1>9. AddressesUnique'
    <2>1. \A k \in 1..Len(comments) : ~SameAddress(comments[k], e)
      BY DEF Present
    <2>2. comments'[Len(comments) + 1].page = e.page
          /\ comments'[Len(comments) + 1].logical = e.logical
      BY <1>5
    <2>3. ASSUME NEW j \in 1..(Len(comments) + 1), NEW k \in 1..(Len(comments) + 1),
                 SameAddress(comments'[j], comments'[k])
          PROVE  j = k
      <3>1. CASE j \in 1..Len(comments) /\ k \in 1..Len(comments)
        BY <1>5, <2>3, <3>1 DEF ArrayInv, AddressesUnique
      <3>2. CASE j = Len(comments) + 1 /\ k \in 1..Len(comments)
        BY <1>5, <2>1, <2>2, <2>3, <3>2 DEF SameAddress
      <3>3. CASE k = Len(comments) + 1 /\ j \in 1..Len(comments)
        BY <1>5, <2>1, <2>2, <2>3, <3>3 DEF SameAddress
      <3>4. \A m \in 1..(Len(comments) + 1) : m \in 1..Len(comments) \/ m = Len(comments) + 1
        BY <1>2
      <3> QED BY <3>1, <3>2, <3>3, <3>4
    <2> QED BY <1>5, <2>3 DEF AddressesUnique
  <1> QED BY <1>2, <1>5, <1>6, <1>7, <1>8, <1>9 DEF ArrayInv

\* when it finds one or is left without memory,
LEMMA StoreArray ==
    ASSUME ArrayInv, NEW e \in Entry, Store(e) \/ Exhaust(e)
    PROVE  ArrayInv'
  <1>1. CASE Present(e) /\ UNCHANGED <<comments, size, heap>>
    BY <1>1 DEF ArrayInv, StringsOwned, AddressesUnique, SameAddress
  <1>2. CASE ~Present(e) /\ ~Full /\ Push(e, size)
    <2>1. Len(comments) < size /\ size \in Nat
      BY <1>2 DEF Full, ArrayInv
    <2> QED BY <1>2, <2>1, PushArray
  <1>3. CASE ~Present(e) /\ Full /\ Push(e, size + Increment)
    <2>1. Len(comments) < size + Increment /\ size + Increment \in Nat
      BY CommentIncrementAssumption DEF ArrayInv
    <2> QED BY <1>3, <2>1, PushArray
  <1>4. CASE Exhaust(e)
    BY <1>4 DEF Exhaust, Release, ArrayInv, StringsOwned, AddressesUnique
  <1> QED BY <1>1, <1>2, <1>3, <1>4 DEF Store

\* and one iteration of comment_repository_delete.
LEMMA DeleteOneArray ==
    ASSUME ArrayInv, NEW m \in 1..Len(comments), size' = size,
           heap' = Restrict(heap, DOMAIN heap \ {comments[m].text}),
           comments' = [k \in 1..(Len(comments) - 1) |->
                           IF k = m THEN comments[Len(comments)] ELSE comments[k]]
    PROVE  ArrayInv'
  <1> DEFINE from == [k \in 1..(Len(comments) - 1) |-> IF k = m THEN Len(comments) ELSE k]
  <1>1. /\ comments \in Seq(Comment) /\ Len(comments) \in Nat \ {0}
        /\ \A k \in 1..Len(comments) : comments[k] \in Comment
    BY DEF ArrayInv
  <1>2. \A k \in 1..(Len(comments) - 1) :
            from[k] \in 1..Len(comments) /\ from[k] # m
    BY <1>1
  <1>3. \A j, k \in 1..(Len(comments) - 1) : from[j] = from[k] => j = k
    BY <1>1
  <1>4. \A k \in 1..(Len(comments) - 1) : comments'[k] = comments[from[k]]
    BY <1>1
  <1>5. comments' \in Seq(Comment) /\ Len(comments') = Len(comments) - 1
    <2>1. comments' \in [1..(Len(comments) - 1) -> Comment]
      BY <1>1
    <2> QED BY <1>1, <2>1
  <1>6. /\ DOMAIN heap' = DOMAIN heap \ {comments[m].text}
        /\ \A q \in DOMAIN heap' : heap'[q] = heap[q]
    BY DEF Restrict
  <1> HIDE DEF from
  <1>7. StringsOwned'
    <2>1. SUFFICES ASSUME NEW j \in 1..(Len(comments) - 1), NEW k \in 1..(Len(comments) - 1),
                          comments'[j].text # Null
                   PROVE  /\ comments'[j].text \in DOMAIN heap'
                          /\ comments'[k].text = comments'[j].text => k = j
      BY <1>5 DEF StringsOwned
    <2>2. comments[from[j]].text # Null
      BY <1>4, <2>1
    <2>3. /\ comments[from[j]].text \in DOMAIN heap
          /\ comments[from[k]].text = comments[from[j]].text => from[k] = from[j]
          /\ comments[m].text = comments[from[j]].text => m = from[j]
      BY <1>2, <2>2 DEF ArrayInv, StringsOwned
    <2> QED BY <1>2, <1>3, <1>4, <1>6, <2>3
  <1>8. AddressesUnique'
    <2>1. SUFFICES ASSUME NEW j \in 1..(Len(comments) - 1), NEW k \in 1..(Len(comments) - 1),
                          SameAddress(comments'[j], comments'[k])
                   PROVE  j = k
      BY <1>5 DEF AddressesUnique, SameAddress
    <2>2. SameAddress(comments[from[j]], comments[from[k]])
      BY <1>4, <2>1
    <2>3. from[j] = from[k]
      BY <1>2, <2>2 DEF ArrayInv, AddressesUnique
    <2> QED BY <1>3, <2>3
  <1>9. /\ Len(comments') <= size' /\ size' \in Nat
        /\ DOMAIN heap' \subseteq Pointers
        /\ \A p \in DOMAIN heap' : heap'[p] \in Texts
    <2>1. /\ Len(comments) <= size /\ size \in Nat
          /\ DOMAIN heap \subseteq Pointers
          /\ \A p \in DOMAIN heap : heap[p] \in Texts
      BY DEF ArrayInv
    <2>2. Len(comments') <= size'
      BY <1>1, <1>5, <2>1
    <2> QED BY <1>6, <2>1, <2>2
  <1> QED BY <1>5, <1>7, <1>8, <1>9 DEF ArrayInv

\* What the caller sees is of the type of entries, but for texts that could
\* not be copied.
LEMMA ContentsType ==
    ASSUME ArrayInv
    PROVE  Contents \subseteq [page : Pages, logical : Logicals, text : Texts \union {Null}]
  <1>1. \A k \in 1..Len(comments) : comments[k] \in Comment
    BY DEF ArrayInv
  <1>2. \A k \in 1..Len(comments) :
            comments[k].text # Null => heap[comments[k].text] \in Texts
    BY DEF ArrayInv, StringsOwned
  <1> QED BY <1>1, <1>2 DEF Contents, EntryOf, Comment

\* The rest of the types: of the function under way.
CallInv ==
    /\ pc \in {"idle", "delete", "load", "save", "lines", "dead"}
    /\ i \in Nat \ {0}
    /\ pc = "delete" => arg \in [first : Bounds, end : Bounds, page : Pages]
    /\ pc = "load" => arg \in Seq(Entry \union {Invalid})
    /\ pc \notin {"delete", "load"} => arg = NoArg
    /\ file \in Seq(Entry)
    /\ before \subseteq [page : Pages, logical : Logicals, text : Texts \union {Null}]

LEMMA InvSplit == Inv <=> ArrayInv /\ CallInv
  <1>1. (arg \in CASE pc = "delete" -> [first : Bounds, end : Bounds, page : Pages]
                   [] pc = "load" -> Seq(Entry \union {Invalid})
                   [] OTHER -> {NoArg})
        <=> /\ pc = "delete" => arg \in [first : Bounds, end : Bounds, page : Pages]
            /\ pc = "load" => arg \in Seq(Entry \union {Invalid})
            /\ pc \notin {"delete", "load"} => arg = NoArg
    OBVIOUS
  <1> QED BY <1>1 DEF Inv, TypeOK, ArrayInv, CallInv, Comment

\* Steps that leave the array alone.
LEMMA SameArray ==
    ASSUME ArrayInv, UNCHANGED <<comments, size, heap>>
    PROVE  ArrayInv'
  BY DEF ArrayInv, StringsOwned, AddressesUnique, SameAddress

LEMMA ArrayStep ==
    ASSUME ArrayInv, CallInv, [Next]_vars
    PROVE  ArrayInv'
  <1>1. CASE Create
    <2>1. Len(comments) = 0 /\ Increment \in Nat
      BY <1>1, CommentIncrementAssumption DEF Create, ArrayInv
    <2> QED BY <1>1, <2>1 DEF Create, ArrayInv, StringsOwned, AddressesUnique, SameAddress
  <1>2. CASE Destroy
    BY <1>2 DEF Destroy, Release, ArrayInv, StringsOwned, AddressesUnique
  <1>3. CASE Add
    BY <1>3, StoreArray DEF Add
  <1>4. CASE DeleteOne
    <2>1. i \in 1..Len(comments)
      BY <1>4 DEF DeleteOne, CallInv, ArrayInv
    <2> QED BY <1>4, <2>1, DeleteOneArray DEF DeleteOne
  <1>5. CASE LoadEntry
    <2>1. arg[i] \in Entry
      BY <1>5 DEF LoadEntry, CallInv
    <2> QED BY <1>5, <2>1, StoreArray DEF LoadEntry
  <1>6. CASE LoadFail
    <2>1. CASE UNCHANGED <<comments, size, heap>>
      BY <2>1, SameArray
    <2>2. CASE arg[i] # Invalid /\ Exhaust(arg[i])
      <3>1. arg[i] \in Entry
        BY <1>6, <2>2 DEF LoadFail, CallInv
      <3> QED BY <2>2, <3>1, StoreArray
    <2> QED BY <1>6, <2>1, <2>2 DEF LoadFail
  <1>7. CASE \/ DeleteStart \/ DeleteSkip \/ DeleteDone
             \/ LoadStart \/ LoadCrash \/ LoadDone \/ Save \/ UNCHANGED vars
    BY <1>7, SameArray DEF DeleteStart, DeleteSkip, DeleteDone, LoadStart, LoadDone,
       Save, SaveStart, SaveEntry, SaveCrash, SaveLines, SaveDone, LoadCrash, vars
  <1> QED BY <1>1, <1>2, <1>3, <1>4, <1>5, <1>6, <1>7 DEF Next, Delete, Load

LEMMA CallStep ==
    ASSUME ArrayInv, CallInv, [Next]_vars
    PROVE  CallInv'
  <1>1. CASE Create \/ Destroy \/ Add
    BY <1>1 DEF Create, Destroy, Add, CallInv
  <1>2. CASE DeleteStart
    BY <1>2 DEF DeleteStart, Call, CallInv
  <1>3. CASE DeleteOne \/ DeleteSkip
    BY <1>3 DEF DeleteOne, DeleteSkip, CallInv
  <1>4. CASE DeleteDone \/ LoadFail \/ LoadDone \/ SaveDone
    <2>1. Return
      BY <1>4 DEF DeleteDone, LoadFail, LoadDone, SaveDone
    <2>2. <<>> \in Seq(Entry)
      OBVIOUS
    <2> HIDE DEF Entry
    <2> QED BY <2>1, <2>2 DEF Return, CallInv
  <1>5. CASE LoadStart
    BY <1>5, ContentsType, CommentFilesAssumption DEF LoadStart, Call, CallInv
  <1>6. CASE LoadEntry
    BY <1>6 DEF LoadEntry, CallInv
  <1>7. CASE SaveStart \/ SaveCrash \/ SaveLines \/ LoadCrash
    BY <1>7 DEF SaveStart, SaveCrash, SaveLines, LoadCrash, Call, CallInv
  <1>8. CASE SaveEntry
    <2>1. i \in 1..Len(comments)
      BY <1>8 DEF SaveEntry, CallInv, ArrayInv
    <2>2. EntryOf(comments[i]) \in Entry
      <3>1. comments[i] \in Comment
        BY <2>1 DEF ArrayInv
      <3>2. EntryOf(comments[i]).text \in Texts
        BY <1>8 DEF SaveEntry
      <3> QED BY <3>1, <3>2 DEF EntryOf, Comment, Entry
    <2>3. file' = Append(file, EntryOf(comments[i]))
      BY <1>8 DEF SaveEntry
    <2>4. file' \in Seq(Entry)
      BY <2>2, <2>3 DEF CallInv
    <2> QED BY <1>8, <2>4 DEF SaveEntry, CallInv
  <1>9. CASE UNCHANGED vars
    BY <1>9 DEF vars, CallInv
  <1> QED BY <1>1, <1>2, <1>3, <1>4, <1>5, <1>6, <1>7, <1>8, <1>9
          DEF Next, Delete, Load, Save

LEMMA InvCorrect == Spec => []Inv
<1>1. Init => Inv
  <2> SUFFICES ASSUME Init PROVE Inv
    OBVIOUS
  <2> QED BY DEF Init, Inv, TypeOK, StringsOwned, AddressesUnique
<1>2. Inv /\ [Next]_vars => Inv'
  <2> SUFFICES ASSUME Inv, [Next]_vars PROVE Inv'
    OBVIOUS
  <2>1. ArrayInv /\ CallInv
    BY InvSplit
  <2>2. ArrayInv' /\ CallInv'
    BY <2>1, ArrayStep, CallStep
  <2> QED BY <2>2, InvSplit, PTL
<1> QED BY <1>1, <1>2, PTL DEF Spec

\* The variables keep their types, and the array always has room for its
\* comments, although a realloc that fails leaves it without one.
THEOREM TypeCorrect == Spec => []TypeOK
<1>1. Inv => TypeOK
  BY DEF Inv
<1> QED BY <1>1, InvCorrect, PTL

\* No comment is left with a freed text and no text belongs to two, through
\* every order of additions, deletions and loads.
THEOREM StringsOwnedCorrect == Spec => []StringsOwned
<1>1. Inv => StringsOwned
  BY DEF Inv
<1> QED BY <1>1, InvCorrect, PTL

-----------------------------------------------------------------------------
(* Saving.                                                                 *)

\* The file under way holds the comments before the loop counter; there is
\* none before a save.
SaveInv ==
    /\ pc \in {"idle", "delete", "load"} => file = <<>>
    /\ pc = "save" => /\ i <= Len(comments) + 1
                      /\ Len(file) = i - 1
                      /\ \A k \in 1..(i - 1) : file[k] = EntryOf(comments[k])

LEMMA SaveInvStep ==
    ASSUME Inv, SaveInv, [Next]_vars
    PROVE  SaveInv'
  <1>0. /\ Len(comments) \in Nat /\ i \in Nat \ {0} /\ file \in Seq(Entry)
    BY DEF Inv, TypeOK
  <1>1. CASE Create \/ Destroy \/ Add
    BY <1>1 DEF Create, Destroy, Add, SaveInv
  <1>2. CASE Delete \/ Load
    BY <1>2 DEF Delete, DeleteStart, DeleteOne, DeleteSkip, DeleteDone,
       Load, LoadStart, LoadEntry, LoadFail, LoadCrash, LoadDone, Call, Return, SaveInv
  <1>3. CASE SaveStart
    <2>1. i' = 1 /\ file' = file /\ comments' = comments /\ pc' = "save" /\ file = <<>>
      BY <1>3 DEF SaveStart, Call, SaveInv
    <2> QED BY <1>0, <2>1 DEF SaveInv
  <1>4. CASE SaveEntry
    <2>1. /\ i <= Len(comments) /\ i' = i + 1
          /\ file' = Append(file, EntryOf(comments[i]))
          /\ comments' = comments /\ heap' = heap
          /\ pc = "save" /\ pc' = "save"
      BY <1>4 DEF SaveEntry
    <2>2. /\ Len(file') = i
          /\ \A k \in 1..(i - 1) : file'[k] = file[k]
          /\ file'[i] = EntryOf(comments[i])
      BY <1>0, <2>1 DEF SaveInv
    <2>3. \A k \in 1..i : file'[k] = EntryOf(comments[k])
      BY <1>0, <2>1, <2>2 DEF SaveInv
    <2>4. \A k \in 1..i : EntryOf(comments[k])' = EntryOf(comments[k])
      BY <2>1 DEF EntryOf
    <2> QED BY <1>0, <2>1, <2>2, <2>3, <2>4 DEF SaveInv
  <1>5. CASE SaveCrash \/ SaveLines \/ SaveDone
    BY <1>5 DEF SaveCrash, SaveLines, SaveDone, Return, SaveInv
  <1>6. CASE UNCHANGED vars
    BY <1>6 DEF vars, SaveInv, EntryOf
  <1> QED BY <1>1, <1>2, <1>3, <1>4, <1>5, <1>6 DEF Next, Save

LEMMA SaveInvCorrect == Spec => []SaveInv
<1>1. Init => SaveInv
  BY DEF Init, SaveInv
<1> QED BY <1>1, SaveInvStep, InvCorrect, PTL DEF Spec

\* When comment_repository_save returns, comment_repository_load makes of the
\* file the comments of the repository, unless one of them has a quote: every
\* element is valid, and no two are for one address.
THEOREM SaveThenLoadCorrect == Spec => SaveThenLoad
<1>1. ASSUME Inv, SaveInv, [Next]_vars, pc = "save", pc' = "idle",
             \A e \in Contents : e.text \notin Quoted
      PROVE  Loaded(Parsed(file), Len(Parsed(file))) = Contents
  <2>0. /\ Len(comments) \in Nat /\ i \in Nat \ {0} /\ file \in Seq(Entry)
    BY <1>1 DEF Inv, TypeOK
  <2>1. SaveDone
    BY <1>1 DEF Next, Create, Destroy, Add, Delete, DeleteStart, DeleteOne, DeleteSkip,
       DeleteDone, Load, LoadStart, LoadEntry, LoadFail, LoadCrash, LoadDone, Save, SaveStart,
       SaveEntry, SaveCrash, SaveLines, Call, Return, vars
  <2>2. i = Len(comments) + 1
    BY <1>1, <2>0, <2>1 DEF SaveDone, SaveInv
  <2>3. /\ Len(file) = Len(comments)
        /\ \A k \in 1..Len(comments) : file[k] = EntryOf(comments[k])
    BY <1>1, <2>0, <2>2 DEF SaveInv
  <2>4. Contents = {file[k] : k \in 1..Len(file)}
    BY <2>3 DEF Contents
  <2>5. Parsed(file) = file
    BY <1>1, <2>4 DEF Parsed
  <2>6. \A k \in 1..Len(file) : file[k] # Invalid
    BY <2>0, CommentFilesAssumption
  <2>7. \A j, k \in 1..Len(file) : SameAddress(file[j], file[k]) => j = k
    <3>1. \A j, k \in 1..Len(comments) : SameAddress(comments[j], comments[k]) => j = k
      BY <1>1 DEF Inv, AddressesUnique
    <3>2. \A k \in 1..Len(comments) : /\ file[k].page = comments[k].page
                                      /\ file[k].logical = comments[k].logical
      <4>1. \A c : EntryOf(c).page = c.page /\ EntryOf(c).logical = c.logical
        BY DEF EntryOf
      <4> QED BY <2>3, <4>1
    <3>3. ASSUME NEW j \in 1..Len(comments), NEW k \in 1..Len(comments),
                 SameAddress(file[j], file[k])
          PROVE  j = k
      <4>1. SameAddress(comments[j], comments[k])
        BY <3>2, <3>3 DEF SameAddress
      <4> QED BY <3>1, <4>1
    <3> QED BY <2>3, <3>3
  <2>8. \A k \in 1..Len(file) :
            /\ \A j \in 1..k : file[j] # Invalid
            /\ \A j \in 1..(k - 1) : ~SameAddress(file[j], file[k])
    <3>1. \A k \in 1..Len(file) : \A j \in 1..k : j \in 1..Len(file)
      BY <2>0
    <3>2. \A k \in 1..Len(file) : \A j \in 1..(k - 1) : j \in 1..Len(file) /\ j # k
      BY <2>0
    <3> QED BY <2>6, <2>7, <3>1, <3>2
  <2>9. Loaded(file, Len(file)) = {file[k] : k \in 1..Len(file)}
    BY <2>8 DEF Loaded
  <2> QED BY <2>4, <2>5, <2>9
<1>2. Inv /\ SaveInv /\ [Next]_vars
      => [pc = "save" /\ pc' = "idle" /\ (\A e \in Contents : e.text \notin Quoted)
          => Loaded(Parsed(file), Len(Parsed(file))) = Contents]_vars
  BY <1>1
<1> QED BY <1>2, InvCorrect, SaveInvCorrect, PTL DEF Spec, SaveThenLoad

-----------------------------------------------------------------------------
(* Loading merges.                                                         *)

\* The element m of the file f is one that is loaded into an empty repository.
Counted(f, m) ==
    /\ \A j \in 1..m : f[j] # Invalid
    /\ \A j \in 1..(m - 1) : ~SameAddress(f[j], f[m])

LEMMA LoadedMore ==
    ASSUME NEW f, NEW m \in Nat \ {0}
    PROVE  Loaded(f, m) = Loaded(f, m - 1) \union {f[k] : k \in {l \in {m} : Counted(f, l)}}
  <1>1. \A k : k \in 1..m <=> k \in 1..(m - 1) \/ k = m
    OBVIOUS
  <1> QED BY <1>1 DEF Loaded, Counted

LEMMA LoadedNone ==
    ASSUME NEW f
    PROVE  Loaded(f, 0) = {}
  BY DEF Loaded

\* A comment as the caller sees it, its text in the heap h.
EntryIn(h, c) ==
    [page |-> c.page, logical |-> c.logical,
     text |-> IF c.text = Null THEN Null ELSE h[c.text]]

\* Adding a comment adds it to the contents, with its text or without.
LEMMA PushContents ==
    ASSUME ArrayInv, NEW e, NEW n, Push(e, n)
    PROVE  \E t \in {e.text, Null} :
             Contents' = Contents \union {[page |-> e.page, logical |-> e.logical, text |-> t]}
  <1>1. PICK p : Pushed(e, p)
    BY PushedResult
  <1> DEFINE c   == [page |-> e.page, logical |-> e.logical, text |-> p]
             t   == IF p = Null THEN Null ELSE e.text
             new == [page |-> e.page, logical |-> e.logical, text |-> t]
  <1>2. comments \in Seq(Comment) /\ Len(comments) \in Nat
    BY DEF ArrayInv
  <1>3. /\ Len(comments') = Len(comments) + 1
        /\ comments'[Len(comments) + 1] = c
        /\ \A k \in 1..Len(comments) : comments'[k] = comments[k]
    <2>1. comments' = Append(comments, c)
      BY <1>1 DEF Pushed
    <2> HIDE DEF c
    <2> QED BY <1>2, <2>1
  <1>4. /\ \A q \in DOMAIN heap : heap'[q] = heap[q]
        /\ p # Null => heap'[p] = e.text
    BY <1>1 DEF Pushed
  <1>5. \A k \in 1..Len(comments) : EntryIn(heap', comments'[k]) = EntryIn(heap, comments[k])
    <2>1. \A k \in 1..Len(comments) :
            comments[k].text # Null => comments[k].text \in DOMAIN heap
      BY DEF ArrayInv, StringsOwned
    <2> QED BY <1>3, <1>4, <2>1 DEF EntryIn
  <1>6. EntryIn(heap', comments'[Len(comments) + 1]) = new
    BY <1>3, <1>4 DEF EntryIn
  <1>7. Contents = {EntryIn(heap, comments[k]) : k \in 1..Len(comments)}
    BY DEF Contents, EntryOf, EntryIn
  <1>8. Contents' = {EntryIn(heap', comments'[k]) : k \in 1..(Len(comments) + 1)}
    BY <1>3 DEF Contents, EntryOf, EntryIn
  <1> HIDE DEF new, c
  <1>9. \A k : k \in 1..(Len(comments) + 1) <=> k \in 1..Len(comments) \/ k = Len(comments) + 1
    BY <1>2
  <1>10. Contents' = Contents \union {new}
    BY <1>5, <1>6, <1>7, <1>8, <1>9
  <1> QED BY <1>10 DEF new

\* What the repository should hold when the file f was loaded up to m into a
\* repository with the comments b.
Expected(b, f, m) == b \union {e \in Loaded(f, m) : \A g \in b : ~SameAddress(e, g)}

\* The comments of X are among those of Y, or lack a text there.
Shown(X, Y) == \A e \in X : \E f \in Y : SameAddress(e, f) /\ f.text \in {e.text, Null}

\* The comments of X are among those of Y, or lack the text they have there.
Known(X, Y) == \A f \in X : \E e \in Y : SameAddress(e, f) /\ f.text \in {e.text, Null}

\* The elements that were read are comments, each for an address that has one.
MergeInv ==
    pc = "load" =>
        /\ \A k \in 1..(i - 1) :
               arg[k] # Invalid /\ \E f \in Contents : SameAddress(f, arg[k])
        /\ Shown(Expected(before, arg, i - 1), Contents)
        /\ Known(Contents, Expected(before, arg, i - 1))

LEMMA SameContents ==
    ASSUME comments' = comments, heap' = heap
    PROVE  Contents' = Contents
  BY DEF Contents, EntryOf

LEMMA PresentContents ==
    ASSUME NEW e
    PROVE  Present(e) <=> \E f \in Contents : SameAddress(f, e)
  <1>1. \A c : EntryOf(c).page = c.page /\ EntryOf(c).logical = c.logical
    BY DEF EntryOf
  <1>2. \A c : SameAddress(EntryOf(c), e) <=> SameAddress(c, e)
    BY <1>1 DEF SameAddress
  <1> QED BY <1>2 DEF Present, Contents

\* One element is loaded.
LEMMA LoadEntryMerges ==
    ASSUME ArrayInv, i \in Nat \ {0}, arg \in Seq(Entry \union {Invalid}), MergeInv, LoadEntry
    PROVE  MergeInv'
  <1> DEFINE e    == arg[i]
             old  == Expected(before, arg, i - 1)
             new  == Expected(before, arg, i)
  <1>1. /\ pc = "load" /\ pc' = "load" /\ i' = i + 1 /\ i' - 1 = i
        /\ arg' = arg /\ before' = before
        /\ e # Invalid /\ Store(e)
    BY DEF LoadEntry
  <1>2. /\ \A k \in 1..(i - 1) : arg[k] # Invalid /\ \E f \in Contents : SameAddress(f, arg[k])
        /\ Shown(old, Contents) /\ Known(Contents, old)
    BY <1>1 DEF MergeInv
  <1>3. \A k : k \in 1..i <=> k \in 1..(i - 1) \/ k = i
    OBVIOUS
  <1>4. Loaded(arg, i) = Loaded(arg, i - 1) \union {arg[k] : k \in {l \in {i} : Counted(arg, l)}}
    BY LoadedMore
  <1>5. \A x \in Loaded(arg, i - 1) : \E k \in 1..(i - 1) : x = arg[k]
    BY DEF Loaded
  <1>6. CASE Present(e)
    <2>1. Contents' = Contents
      BY <1>1, <1>6, SameContents DEF Store
    <2>2. PICK f \in Contents : SameAddress(f, e)
      BY <1>6, PresentContents
    <2>3. PICK x \in old : SameAddress(x, f)
      BY <1>2, <2>2 DEF Known
    <2>4. SameAddress(x, e) /\ SameAddress(e, x)
      BY <2>2, <2>3 DEF SameAddress
    <2>5. ASSUME Counted(arg, i) PROVE x \in before
      <3>1. x \notin Loaded(arg, i - 1)
        BY <1>5, <2>4, <2>5 DEF Counted
      <3> QED BY <2>3, <3>1 DEF Expected
    <2>6. new = old
      BY <1>4, <2>4, <2>5 DEF Expected
    <2> HIDE DEF e, new, old
    <2>7. \A k \in 1..i : arg[k] # Invalid /\ \E g \in Contents : SameAddress(g, arg[k])
      BY <1>1, <1>2, <1>3, <2>2 DEF e
    <2> QED BY <1>1, <1>2, <2>1, <2>6, <2>7 DEF MergeInv, new
  <1>7. CASE ~Present(e)
    <2>1. PICK n : Push(e, n)
      BY <1>1, <1>7 DEF Store
    <2>2. PICK t \in {e.text, Null} :
            Contents' = Contents \union {[page |-> e.page, logical |-> e.logical, text |-> t]}
      BY <2>1, PushContents
    <2> DEFINE c == [page |-> e.page, logical |-> e.logical, text |-> t]
    <2>3. SameAddress(c, e) /\ SameAddress(e, c) /\ c.text \in {e.text, Null}
      BY DEF SameAddress
    <2> HIDE DEF c
    <2>4. ~\E f \in Contents : SameAddress(f, e)
      BY <1>7, PresentContents
    <2>5. Counted(arg, i)
      <3>1. \A k \in 1..(i - 1) : ~SameAddress(arg[k], e)
        BY <1>2, <2>4 DEF SameAddress
      <3> QED BY <1>1, <1>2, <1>3, <3>1 DEF Counted
    <2>6. \A g \in before : ~SameAddress(e, g)
      <3>1. before \subseteq old
        BY DEF Expected
      <3> QED BY <1>2, <2>4, <3>1 DEF Shown, SameAddress
    <2>7. new = old \union {e}
      BY <1>4, <2>5, <2>6 DEF Expected
    <2> HIDE DEF e, new, old
    <2>8. Contents' = Contents \union {c}
      BY <2>2 DEF c
    <2>9. Shown(new, Contents') /\ Known(Contents', new)
      BY <1>2, <2>3, <2>7, <2>8 DEF Shown, Known
    <2>10. \A k \in 1..i : arg[k] # Invalid /\ \E g \in Contents' : SameAddress(g, arg[k])
      BY <1>1, <1>2, <1>3, <2>3, <2>8 DEF e
    <2> QED BY <1>1, <2>9, <2>10 DEF MergeInv, new
  <1> QED BY <1>6, <1>7

LEMMA MergeInvStep ==
    ASSUME Inv, MergeInv, [Next]_vars
    PROVE  MergeInv'
  <1>0. i \in Nat \ {0} /\ (pc = "load" => arg \in Seq(Entry \union {Invalid}))
    BY DEF Inv, TypeOK
  <1>1. CASE Create \/ Destroy \/ Add \/ Delete \/ LoadFail \/ LoadCrash \/ LoadDone \/ Save
    BY <1>1 DEF Create, Destroy, Add, Delete, DeleteStart, DeleteOne, DeleteSkip, DeleteDone,
       LoadFail, LoadCrash, LoadDone, Save, SaveStart, SaveEntry, SaveCrash, SaveLines,
       SaveDone, Call, Return, MergeInv
  <1>2. CASE LoadStart
    <2>1. /\ pc' = "load" /\ i' = 1 /\ i' - 1 = 0 /\ before' = Contents
          /\ comments' = comments /\ heap' = heap
      BY <1>2 DEF LoadStart, Call
    <2>2. Contents' = Contents
      BY <2>1, SameContents
    <2>3. Expected(before', arg', 0) = Contents
      BY <2>1, LoadedNone DEF Expected
    <2>4. Shown(Contents, Contents) /\ Known(Contents, Contents)
      BY DEF Shown, Known, SameAddress
    <2> QED BY <2>1, <2>2, <2>3, <2>4 DEF MergeInv
  <1>3. CASE LoadEntry
    BY <1>0, <1>3, LoadEntryMerges, InvArray DEF LoadEntry
  <1>4. CASE UNCHANGED vars
    <2>1. Contents' = Contents
      BY <1>4, SameContents DEF vars
    <2> QED BY <1>4, <2>1 DEF vars, MergeInv
  <1> QED BY <1>1, <1>2, <1>3, <1>4 DEF Next, Load

\* While comment_repository_load is under way, what was there is there as it
\* was, and the file so far is there for the other addresses, the first
\* element for each; there is nothing else.
THEOREM LoadMergesCorrect == Spec => []LoadMerges
<1>1. Init => MergeInv
  BY DEF Init, MergeInv
<1>2. MergeInv => LoadMerges
  BY DEF MergeInv, LoadMerges, Expected, Shown, Known
<1> QED BY <1>1, <1>2, MergeInvStep, InvCorrect, PTL DEF Spec

-----------------------------------------------------------------------------
(* The refinement.                                                         *)

\* Behind the counter of comment_repository_delete no comment of the range is
\* left.
DeleteInv ==
    pc = "delete" => \A k \in 1..Len(comments) : k < i => ~Within(comments[k])

LEMMA DeleteInvStep ==
    ASSUME Inv, DeleteInv, [Next]_vars
    PROVE  DeleteInv'
  <1>0. Len(comments) \in Nat /\ i \in Nat \ {0} /\ comments \in Seq(Comment)
    BY DEF Inv, TypeOK, Comment
  <1>1. CASE Create \/ Destroy \/ Add
    BY <1>1 DEF Create, Destroy, Add, DeleteInv
  <1>2. CASE DeleteStart
    BY <1>2 DEF DeleteStart, Call, DeleteInv
  <1>3. CASE DeleteOne
    <2>1. \A k \in 1..Len(comments') :
            k < i => k \in 1..Len(comments) /\ comments'[k] = comments[k]
      BY <1>0, <1>3 DEF DeleteOne
    <2>2. i' = i /\ arg' = arg /\ pc = "delete"
      BY <1>3 DEF DeleteOne
    <2> QED BY <2>1, <2>2 DEF DeleteInv, Within
  <1>4. CASE DeleteSkip
    <2>1. \A k \in 1..Len(comments) : k < i + 1 => k < i \/ k = i
      BY <1>0
    <2> QED BY <1>0, <1>4, <2>1 DEF DeleteSkip, DeleteInv, Within
  <1>5. CASE DeleteDone \/ Load \/ Save
    BY <1>5 DEF DeleteDone, Load, LoadStart, LoadEntry, LoadFail, LoadCrash, LoadDone, Save,
       SaveStart, SaveEntry, SaveCrash, SaveLines, SaveDone, Call, Return, DeleteInv
  <1>6. CASE UNCHANGED vars
    BY <1>6 DEF vars, DeleteInv, Within
  <1> QED BY <1>1, <1>2, <1>3, <1>4, <1>5, <1>6 DEF Next, Delete

\* A comment as an entry of the map, its text in the heap h.
ShownIn(h, c) ==
    [page |-> c.page, logical |-> c.logical,
     text |-> IF c.text = Null THEN Null ELSE h[c.text], note |-> Null]

Counts(c) == pc = "delete" => ~Within(c)

LEMMA EntriesAre ==
    Entries = {ShownIn(heap, comments[k]) :
                  k \in {j \in 1..Len(comments) : Counts(comments[j])}}
  BY DEF Entries, EntryOf, ShownIn, Counts

LEMMA EntriesNext ==
    Entries' = {ShownIn(heap', comments'[k]) :
                   k \in {j \in 1..Len(comments') : Counts(comments[j])'}}
  BY DEF Entries, EntryOf, ShownIn, Counts

LEMMA EntriesAll ==
    ASSUME pc # "delete"
    PROVE  Entries = {ShownIn(heap, comments[k]) : k \in 1..Len(comments)}
  BY EntriesAre DEF Counts

LEMMA ShownSame ==
    ASSUME NEW g, NEW h, NEW c, c.text # Null => g[c.text] = h[c.text]
    PROVE  ShownIn(g, c) = ShownIn(h, c)
  BY DEF ShownIn

\* comment_repository_add puts an entry.
LEMMA PushEntries ==
    ASSUME ArrayInv, NEW e \in Entry, NEW n, pc # "delete", pc' # "delete",
           ~Present(e), Push(e, n)
    PROVE  Abstract!Put
  <1>1. PICK p : Pushed(e, p)
    BY PushedResult
  <1> DEFINE c   == [page |-> e.page, logical |-> e.logical, text |-> p]
             new == [page |-> e.page, logical |-> e.logical,
                     text |-> IF p = Null THEN Null ELSE e.text, note |-> Null]
  <1>2. comments \in Seq(Comment) /\ Len(comments) \in Nat
    BY DEF ArrayInv
  <1>3. /\ Len(comments') = Len(comments) + 1
        /\ comments'[Len(comments) + 1] = c
        /\ \A k \in 1..Len(comments) : comments'[k] = comments[k]
    <2>1. comments' = Append(comments, c)
      BY <1>1 DEF Pushed
    <2> HIDE DEF c
    <2> QED BY <1>2, <2>1
  <1>4. /\ \A q \in DOMAIN heap : heap'[q] = heap[q]
        /\ p # Null => heap'[p] = e.text
    BY <1>1 DEF Pushed
  <1>5. \A k \in 1..Len(comments) : ShownIn(heap', comments'[k]) = ShownIn(heap, comments[k])
    <2>1. \A k \in 1..Len(comments) :
            comments[k].text # Null => comments[k].text \in DOMAIN heap
      BY DEF ArrayInv, StringsOwned
    <2> QED BY <1>3, <1>4, <2>1, ShownSame
  <1>6. ShownIn(heap', comments'[Len(comments) + 1]) = new
    BY <1>3, <1>4 DEF ShownIn
  <1>7. Entries = {ShownIn(heap, comments[k]) : k \in 1..Len(comments)}
    BY EntriesAll
  <1>8. Entries' = {ShownIn(heap', comments'[k]) : k \in 1..Len(comments')}
    BY EntriesNext DEF Counts
  <1> HIDE DEF new, c
  <1>9. Entries' = Entries \union {new}
    <2>1. \A k \in 1..(Len(comments) + 1) : k \in 1..Len(comments) \/ k = Len(comments) + 1
      BY <1>2
    <2>2. \A k \in 1..Len(comments) : k \in 1..(Len(comments) + 1)
      BY <1>2
    <2>3. Len(comments) + 1 \in 1..(Len(comments) + 1)
      BY <1>2
    <2>4. Entries' \subseteq Entries \union {new}
      BY <1>3, <1>5, <1>6, <1>7, <1>8, <2>1
    <2>5. Entries \subseteq Entries'
      BY <1>3, <1>5, <1>7, <1>8, <2>2
    <2>6. new \in Entries'
      BY <1>3, <1>6, <1>8, <2>3
    <2> QED BY <2>4, <2>5, <2>6
  <1>10. new \in Abstract!Entry
    BY DEF new, Abstract!Entry, Entry
  <1>11. \A f \in Entries : ~Abstract!SameAddress(new, f)
    <2>1. \A k \in 1..Len(comments) :
            ~(comments[k].page = e.page /\ comments[k].logical = e.logical)
      BY DEF Present, SameAddress
    <2>2. new.page = e.page /\ new.logical = e.logical
      BY DEF new
    <2>3. \A d : ShownIn(heap, d).page = d.page /\ ShownIn(heap, d).logical = d.logical
      BY DEF ShownIn
    <2> QED BY <1>7, <2>1, <2>2, <2>3 DEF Abstract!SameAddress
  <1> QED BY <1>9, <1>10, <1>11 DEF Abstract!Put

LEMMA StoreEntries ==
    ASSUME ArrayInv, NEW e \in Entry, pc # "delete", pc' # "delete",
           Store(e) \/ Exhaust(e)
    PROVE  Abstract!Next \/ Entries' = Entries
  <1>1. CASE UNCHANGED <<comments, size, heap>>
    <2>1. Entries' = Entries
      <3>1. comments' = comments /\ heap' = heap
        BY <1>1
      <3> QED BY <3>1 DEF Entries, EntryOf
    <2> QED BY <2>1
  <1>2. CASE ~Present(e) /\ (Push(e, size) \/ Push(e, size + Increment))
    BY <1>2, PushEntries DEF Abstract!Next
  <1>3. CASE Exhaust(e)
    <2>1. comments' = <<>>
      BY <1>3 DEF Exhaust, Release
    <2>2. Entries' = {}
      BY <2>1 DEF Entries
    <2> QED BY <2>2 DEF Abstract!Next, Abstract!Clear
  <1> QED BY <1>1, <1>2, <1>3 DEF Store

\* Calling comment_repository_delete removes the range from the map,
LEMMA DeleteStartEntries ==
    ASSUME DeleteStart
    PROVE  Abstract!Delete
  <1>1. PICK first \in Bounds, end \in Bounds, page \in Pages :
          Call("delete", [first |-> first, end |-> end, page |-> page])
    BY DEF DeleteStart
  <1>2. /\ pc = "idle" /\ pc' = "delete"
        /\ arg' = [first |-> first, end |-> end, page |-> page]
        /\ comments' = comments /\ heap' = heap
    BY <1>1 DEF Call, DeleteStart
  <1>3. Entries = {ShownIn(heap, comments[k]) : k \in 1..Len(comments)}
    BY <1>2, EntriesAll
  <1> DEFINE Out(c) == c.page = page /\ c.logical >= first /\ c.logical < end
  <1>4. \A k : Counts(comments[k])' <=> ~Out(comments[k])
    BY <1>2 DEF Counts, Within
  <1>5. Entries' = {ShownIn(heap, comments[k]) :
                       k \in {j \in 1..Len(comments) : ~Out(comments[j])}}
    BY <1>2, <1>4, EntriesNext
  <1>6. \A c : Out(ShownIn(heap, c)) <=> Out(c)
    BY DEF ShownIn
  <1> HIDE DEF Out
  <1>7. Entries' = {f \in Entries : ~Out(f)}
    BY <1>3, <1>5, <1>6
  <1> QED BY <1>7 DEF Out, Abstract!Delete, Abstract!Within

\* and its loop only removes comments that are not there any more.
LEMMA DeleteOneEntries ==
    ASSUME ArrayInv, i \in Nat \ {0}, DeleteOne
    PROVE  Entries' = Entries
  <1> DEFINE n    == Len(comments)
             from == [k \in 1..(n - 1) |-> IF k = i THEN n ELSE k]
  <1>1. /\ n \in Nat /\ i \in 1..n /\ arg' = arg /\ pc = "delete" /\ pc' = "delete"
        /\ Within(comments[i])
        /\ heap' = Restrict(heap, DOMAIN heap \ {comments[i].text})
        /\ comments' = [k \in 1..(n - 1) |-> IF k = i THEN comments[n] ELSE comments[k]]
    BY DEF DeleteOne, ArrayInv
  <1>2. Len(comments') = n - 1
    BY <1>1
  <1>3. \A k \in 1..(n - 1) : /\ from[k] \in 1..n /\ from[k] # i
                             /\ comments'[k] = comments[from[k]]
    BY <1>1
  <1>4. \A j \in 1..n : j # i => \E k \in 1..(n - 1) : from[k] = j
    <2>1. SUFFICES ASSUME NEW j \in 1..n, j # i
                   PROVE  \E k \in 1..(n - 1) : from[k] = j
      OBVIOUS
    <2>2. CASE j = n
      <3>1. i \in 1..(n - 1)
        BY <1>1, <2>1, <2>2
      <3>2. from[i] = j
        BY <2>2, <3>1
      <3> QED BY <3>1, <3>2
    <2>3. CASE j # n
      <3>1. j \in 1..(n - 1)
        BY <1>1, <2>3
      <3>2. from[j] = j
        BY <2>1, <3>1
      <3> QED BY <3>1, <3>2
    <2> QED BY <2>2, <2>3
  <1> HIDE DEF from
  <1>5. \A j \in 1..n : j # i => ShownIn(heap', comments[j]) = ShownIn(heap, comments[j])
    <2>1. SUFFICES ASSUME NEW j \in 1..n, j # i, comments[j].text # Null
                   PROVE  heap'[comments[j].text] = heap[comments[j].text]
      BY ShownSame
    <2>2. comments[j].text \in DOMAIN heap /\ comments[j].text # comments[i].text
      BY <1>1, <2>1 DEF ArrayInv, StringsOwned
    <2> QED BY <1>1, <2>2 DEF Restrict
  <1>6. \A k : Counts(comments[k])' <=> ~Within(comments'[k])
    BY <1>1 DEF Counts, Within
  <1>7. \A k : Counts(comments[k]) <=> ~Within(comments[k])
    BY <1>1 DEF Counts
  <1>8. Entries' = {ShownIn(heap', comments'[k]) :
                       k \in {j \in 1..(n - 1) : ~Within(comments'[j])}}
    BY <1>2, <1>6, EntriesNext
  <1>9. Entries = {ShownIn(heap, comments[k]) :
                      k \in {j \in 1..n : ~Within(comments[j])}}
    BY <1>7, EntriesAre
  <1> HIDE DEF n
  <1>10. Entries' \subseteq Entries
    <2>1. SUFFICES ASSUME NEW k \in 1..(n - 1), ~Within(comments'[k])
                   PROVE  ShownIn(heap', comments'[k]) \in Entries
      BY <1>8
    <2>2. /\ from[k] \in 1..n /\ ~Within(comments[from[k]])
          /\ ShownIn(heap', comments'[k]) = ShownIn(heap, comments[from[k]])
      BY <1>3, <1>5, <2>1
    <2> QED BY <1>9, <2>2
  <1>11. Entries \subseteq Entries'
    <2>1. SUFFICES ASSUME NEW j \in 1..n, ~Within(comments[j])
                   PROVE  ShownIn(heap, comments[j]) \in Entries'
      BY <1>9
    <2>2. j # i
      BY <1>1, <2>1
    <2>3. PICK k \in 1..(n - 1) : from[k] = j
      BY <1>4, <2>2
    <2>4. /\ ~Within(comments'[k])
          /\ ShownIn(heap', comments'[k]) = ShownIn(heap, comments[j])
      BY <1>3, <1>5, <2>1, <2>2, <2>3
    <2> QED BY <1>8, <2>4
  <1> QED BY <1>10, <1>11

\* Steps that leave the comments and their texts alone.
LEMMA SameEntries ==
    ASSUME comments' = comments, heap' = heap, pc # "delete", pc' # "delete"
    PROVE  Entries' = Entries
  BY DEF Entries, EntryOf

LEMMA DeleteRestEntries ==
    ASSUME Inv, DeleteInv, DeleteSkip \/ DeleteDone
    PROVE  Entries' = Entries
  <1>1. CASE DeleteSkip
    BY <1>1 DEF DeleteSkip, Entries, EntryOf, Within
  <1>2. CASE DeleteDone
    <2>1. /\ pc = "delete" /\ i > Len(comments) /\ pc' = "idle"
          /\ comments' = comments /\ heap' = heap
      BY <1>2 DEF DeleteDone, Return
    <2>2. \A k \in 1..Len(comments) : k < i
      BY <2>1 DEF Inv, TypeOK
    <2>3. \A k \in 1..Len(comments) : Counts(comments[k])
      BY <2>1, <2>2 DEF DeleteInv, Counts
    <2>4. Entries = {ShownIn(heap, comments[k]) : k \in 1..Len(comments)}
      BY <2>3, EntriesAre
    <2>5. Entries' = {ShownIn(heap', comments'[k]) : k \in 1..Len(comments')}
      BY <2>1, EntriesNext DEF Counts
    <2> QED BY <2>1, <2>4, <2>5
  <1> QED BY <1>1, <1>2

LEMMA StepRefines ==
    ASSUME Inv, DeleteInv, [Next]_vars
    PROVE  [Abstract!Next]_Entries
  <1>0. ArrayInv /\ CallInv
    BY InvSplit
  <1>1. CASE Create
    BY <1>1, SameEntries DEF Create
  <1>2. CASE Destroy
    <2>1. Entries' = {}
      BY <1>2 DEF Destroy, Release, Entries
    <2> QED BY <2>1 DEF Abstract!Next, Abstract!Clear
  <1>3. CASE Add
    BY <1>0, <1>3, StoreEntries DEF Add
  <1>4. CASE LoadEntry
    <2>1. arg[i] \in Entry /\ pc = "load" /\ pc' = "load"
      BY <1>0, <1>4 DEF LoadEntry, CallInv
    <2> QED BY <1>0, <1>4, <2>1, StoreEntries DEF LoadEntry
  <1>5. CASE LoadFail
    <2>1. pc = "load" /\ pc' = "idle"
      BY <1>5 DEF LoadFail, Return
    <2>2. CASE UNCHANGED <<comments, size, heap>>
      BY <2>1, <2>2, SameEntries
    <2>3. CASE arg[i] # Invalid /\ Exhaust(arg[i])
      <3>1. arg[i] \in Entry
        BY <1>0, <1>5, <2>1, <2>3 DEF LoadFail, CallInv
      <3> QED BY <1>0, <2>1, <2>3, <3>1, StoreEntries
    <2> QED BY <1>5, <2>2, <2>3 DEF LoadFail
  <1>6. CASE LoadStart \/ LoadCrash \/ LoadDone \/ Save
    BY <1>6, SameEntries DEF LoadStart, LoadCrash, LoadDone, Save, SaveStart, SaveEntry, SaveCrash,
       SaveLines, SaveDone, Call, Return
  <1>7. CASE DeleteStart
    BY <1>7, DeleteStartEntries DEF Abstract!Next
  <1>8. CASE DeleteOne
    BY <1>0, <1>8, DeleteOneEntries DEF CallInv
  <1>9. CASE DeleteSkip \/ DeleteDone
    BY <1>9, DeleteRestEntries
  <1>10. CASE UNCHANGED vars
    BY <1>10 DEF vars, Entries, EntryOf, Within
  <1> QED BY <1>1, <1>2, <1>3, <1>4, <1>5, <1>6, <1>7, <1>8, <1>9, <1>10
          DEF Next, Delete, Load

\* The repository implements the map of addresses to texts: loading, saving,
\* the moves of comment_repository_delete and the heap are invisible.
THEOREM Refinement == Spec => ImplementsAddressMap
<1>1. Init => Abstract!Init
  <2> SUFFICES ASSUME Init PROVE Abstract!Init
    OBVIOUS
  <2>1. comments = <<>>
    BY DEF Init
  <2> QED BY <2>1 DEF Entries, Abstract!Init
<1>2. Init => DeleteInv
  BY DEF Init, DeleteInv
<1> QED BY <1>1, <1>2, DeleteInvStep, StepRefines, InvCorrect, PTL
        DEF Spec, Abstract!Spec, ImplementsAddressMap

-----------------------------------------------------------------------------
(* The end of the functions.                                               *)

\* What is left for the function under way: the elements it has not come to,
\* and its return.
CallLeft ==
    CASE pc \in {"delete", "save"} -> Len(comments) - i + 2
      [] pc = "load"               -> Len(arg) - i + 2
      [] OTHER                     -> 0

CounterInv ==
    /\ pc \in {"delete", "save"} => i <= Len(comments) + 1
    /\ pc = "load" => i <= Len(arg) + 1

SingleLines == \A e \in Contents : e.text \notin Multiline \union {Null}

Shortened(left, leftNext) == left \in Nat /\ leftNext \in Nat /\ leftNext < left

\* A deletion leaves one comment less and looks again at the same place
\* (comment_repository_delete).
LEMMA OneLess ==
    ASSUME Inv, DeleteOne
    PROVE  /\ pc = "delete" /\ pc' = "delete" /\ i' = i /\ i <= Len(comments)
           /\ Len(comments') = Len(comments) - 1
  <1> DEFINE n == Len(comments)
  <1>1. n \in Nat /\ i \in Nat \ {0}
    BY DEF Inv, TypeOK
  <1>2. /\ pc = "delete" /\ pc' = "delete" /\ i' = i /\ i <= n
        /\ comments' = [k \in 1..(n - 1) |-> IF k = i THEN comments[n] ELSE comments[k]]
    BY DEF DeleteOne
  <1>3. n - 1 \in Nat
    BY <1>1, <1>2
  <1> HIDE DEF n
  <1>4. Len(comments') = n - 1
    BY <1>2, <1>3
  <1> QED BY <1>2, <1>4 DEF n

\* Every iteration of comment_repository_delete and comment_repository_load,
\* whatever it finds, and every one of comment_repository_save, if each
\* comment has one line, brings the function nearer to its return: a deletion
\* that moves the last comment to the place of the one deleted has one comment
\* less to look at, and nothing adds to what is being saved.
THEOREM FunctionsAdvance ==
    Spec => [][/\ pc \in {"delete", "load"} => Shortened(CallLeft, CallLeft')
               /\ pc = "save" /\ SingleLines =>
                      /\ Shortened(CallLeft, CallLeft')
                      /\ pc' = "idle" \/ (pc' = "save" /\ SingleLines')]_vars
<1>1. Init => CounterInv
  BY DEF Init, CounterInv
<1>2. ASSUME Inv, CounterInv
      PROVE  Len(comments) \in Nat /\ i \in Nat /\ (pc = "load" => Len(arg) \in Nat)
  <2>1. pc = "load" => arg \in Seq(Entry \union {Invalid})
    BY <1>2 DEF Inv, TypeOK
  <2> QED BY <1>2, <2>1 DEF Inv, TypeOK
<1>3. Inv /\ CounterInv /\ [Next]_vars => CounterInv'
  <2> SUFFICES ASSUME Inv, CounterInv, [Next]_vars PROVE CounterInv'
    OBVIOUS
  <2>1. Len(comments) \in Nat /\ i \in Nat /\ (pc = "load" => Len(arg) \in Nat)
    BY <1>2
  <2>2. CASE DeleteOne
    <3>1. Len(comments') = Len(comments) - 1 /\ pc' = "delete" /\ i' = i /\ i <= Len(comments)
      BY <1>2, <2>2, OneLess
    <3> QED BY <2>1, <3>1 DEF CounterInv
  <2>3. CASE DeleteSkip \/ SaveEntry
    BY <2>1, <2>3 DEF DeleteSkip, SaveEntry, CounterInv
  <2>4. CASE LoadEntry
    BY <2>1, <2>4 DEF LoadEntry, CounterInv
  <2>5. CASE DeleteStart \/ SaveStart
    BY <2>1, <2>5 DEF DeleteStart, SaveStart, Call, CounterInv
  <2>6. CASE LoadStart
    <3>1. Len(arg') \in Nat /\ i' = 1 /\ pc' = "load"
      BY <2>6, CommentFilesAssumption DEF LoadStart, Call
    <3> QED BY <3>1 DEF CounterInv
  <2>7. CASE UNCHANGED vars
    BY <2>7 DEF vars, CounterInv
  <2>8. CASE \/ Create \/ Destroy \/ Add \/ DeleteDone \/ LoadFail \/ LoadCrash \/ LoadDone
             \/ SaveCrash \/ SaveLines \/ SaveDone
    <3>1. pc' \notin {"delete", "load", "save"}
      BY <2>8 DEF Create, Destroy, Add, DeleteDone, LoadFail, LoadCrash, LoadDone,
         SaveCrash, SaveLines, SaveDone, Return
    <3> QED BY <3>1 DEF CounterInv
  <2> QED BY <2>2, <2>3, <2>4, <2>5, <2>6, <2>7, <2>8 DEF Next, Delete, Load, Save
<1>4. ASSUME Inv, CounterInv, Next, pc \in {"delete", "load", "save"}
      PROVE  /\ pc' # "lines" => Shortened(CallLeft, CallLeft')
             /\ pc = "save" /\ SingleLines => pc' = "idle" \/ (pc' = "save" /\ SingleLines')
  <2>1. Len(comments) \in Nat /\ i \in Nat /\ (pc = "load" => Len(arg) \in Nat)
    BY <1>2, <1>4
  <2>2. CallLeft \in Nat /\ CallLeft > 0
    BY <1>4, <2>1 DEF CallLeft, CounterInv
  <2>3. ASSUME pc' \notin {"delete", "load", "save"} PROVE Shortened(CallLeft, CallLeft')
    <3>1. CallLeft' = 0
      BY <2>3 DEF CallLeft
    <3> QED BY <2>2, <3>1 DEF Shortened
  <2>4. CASE DeleteOne
    <3>1. pc = "delete" /\ pc' = "delete" /\ i' = i /\ i <= Len(comments)
      BY <1>4, <2>4, OneLess
    <3>2. Len(comments') = Len(comments) - 1
      BY <1>4, <2>4, OneLess
    <3>3. CallLeft = Len(comments) - i + 2 /\ CallLeft' = Len(comments) - 1 - i + 2
      BY <3>1, <3>2 DEF CallLeft
    <3> QED BY <2>1, <3>1, <3>3 DEF Shortened
  <2>5. CASE DeleteSkip
    <3>1. pc = "delete" /\ pc' = "delete" /\ i' = i + 1 /\ i <= Len(comments)
          /\ comments' = comments
      BY <2>5 DEF DeleteSkip
    <3>2. CallLeft = Len(comments) - i + 2 /\ CallLeft' = Len(comments) - (i + 1) + 2
      BY <3>1 DEF CallLeft
    <3> QED BY <2>1, <3>1, <3>2 DEF Shortened
  <2>6. CASE LoadEntry
    <3>1. pc = "load" /\ pc' = "load" /\ i' = i + 1 /\ i <= Len(arg) /\ arg' = arg
      BY <2>6 DEF LoadEntry
    <3>2. CallLeft = Len(arg) - i + 2 /\ CallLeft' = Len(arg) - (i + 1) + 2
      BY <3>1 DEF CallLeft
    <3> QED BY <2>1, <3>1, <3>2 DEF Shortened
  <2>7. CASE SaveEntry
    <3>1. pc = "save" /\ pc' = "save" /\ i' = i + 1 /\ i <= Len(comments)
          /\ comments' = comments /\ heap' = heap
      BY <2>7 DEF SaveEntry
    <3>2. CallLeft = Len(comments) - i + 2 /\ CallLeft' = Len(comments) - (i + 1) + 2
      BY <3>1 DEF CallLeft
    <3>3. SingleLines' = SingleLines
      BY <3>1 DEF SingleLines, Contents, EntryOf
    <3> QED BY <2>1, <3>1, <3>2, <3>3 DEF Shortened
  <2>8. CASE SaveCrash \/ SaveLines
    <3>1. pc = "save" /\ i <= Len(comments) /\ pc' \in {"dead", "lines"}
          /\ \/ comments[i].text = Null
             \/ EntryOf(comments[i]).text \in Multiline
      BY <1>4, <2>8 DEF SaveCrash, SaveLines
    <3>2. i \in 1..Len(comments)
      BY <1>4, <2>1, <3>1 DEF Inv, TypeOK
    <3>3. EntryOf(comments[i]) \in Contents
      BY <3>2 DEF Contents
    <3>4. EntryOf(comments[i]).text \in Multiline \union {Null}
      BY <3>1 DEF EntryOf
    <3>5. ~SingleLines
      BY <3>3, <3>4 DEF SingleLines
    <3> QED BY <2>3, <3>1, <3>5
  <2>9. CASE DeleteDone \/ LoadFail \/ LoadCrash \/ LoadDone \/ SaveDone
    <3>1. pc' \in {"idle", "dead"} /\ (pc = "save" => pc' = "idle")
      BY <2>9 DEF DeleteDone, LoadFail, LoadCrash, LoadDone, SaveDone, Return
    <3>2. pc' \notin {"delete", "load", "save"}
      BY <3>1
    <3>3. Shortened(CallLeft, CallLeft')
      BY <2>3, <3>2
    <3>4. pc = "save" => pc' = "idle"
      BY <3>1
    <3> QED BY <3>3, <3>4
  <2>10. ~(Create \/ Destroy \/ Add \/ DeleteStart \/ LoadStart \/ SaveStart)
    BY <1>4 DEF Create, Destroy, Add, DeleteStart, LoadStart, SaveStart, Call
  <2>11. \/ DeleteOne \/ DeleteSkip \/ LoadEntry \/ SaveEntry \/ SaveCrash \/ SaveLines
         \/ DeleteDone \/ LoadFail \/ LoadCrash \/ LoadDone \/ SaveDone
    BY <1>4, <2>10 DEF Next, Delete, Load, Save
  <2> QED BY <2>4, <2>5, <2>6, <2>7, <2>8, <2>9, <2>11
<1>5. ASSUME Next, pc \in {"delete", "load"} PROVE pc' # "lines"
  BY <1>5 DEF Next, Create, Destroy, Add, Delete, DeleteStart, DeleteOne, DeleteSkip,
     DeleteDone, Load, LoadStart, LoadEntry, LoadFail, LoadCrash, LoadDone, Save, SaveStart,
     SaveEntry, SaveCrash, SaveLines, SaveDone, Call, Return
<1>6. Inv /\ CounterInv /\ [Next]_vars =>
          [/\ pc \in {"delete", "load"} => Shortened(CallLeft, CallLeft')
           /\ pc = "save" /\ SingleLines =>
                  /\ Shortened(CallLeft, CallLeft')
                  /\ pc' = "idle" \/ (pc' = "save" /\ SingleLines')]_vars
  BY <1>4, <1>5
<1> QED BY <1>1, <1>3, <1>6, InvCorrect, PTL DEF Spec

=============================================================================
