--------------------------- MODULE LabelFileProofs ---------------------------
(***************************************************************************)
(* Loading and saving label files: they act on the repository through its  *)
(* own operations, so that all that is proved of it holds of them too; a   *)
(* load keeps the labels there were, and a file that was saved gives back  *)
(* the labels.                                                             *)
(***************************************************************************)
EXTENDS LabelFile, LabelRepositoryProofs

\* What label_repository_save has written of the first m labels.
SavedTo(m) == [k \in 1..m |-> Saved(k)]

\* While a file is read or written nothing else is called: the repository is
\* between two operations, and the file that is written is the labels so far.
FileInv ==
    /\ task \in {"none", "load", "save", "dead"}
    /\ n \in Nat \ {0}
    /\ task = "load" => /\ pc = "idle"
                        /\ file \in Seq(Element \union {Invalid})
    /\ task = "save" => /\ pc = "idle"
                        /\ n <= Len(labels) + 1
                        /\ file = SavedTo(n - 1)

allVars == <<vars, fileVars>>

\* An element that is not refused is added by label_repository_add.
LEMMA StoreAdds ==
    ASSUME pc = "idle", NEW e \in Element, Store(e)
    PROVE  [Next]_vars
  <1>1. /\ e.logical \in Logicals /\ e.page \in Pages
        /\ e.text \in Texts /\ e.note \in Texts \union {Null}
    BY DEF Element
  <1>2. CASE AddNothing(e.logical, e.page)
    BY <1>2 DEF AddNothing
  <1>3. CASE \/ AddExisting(e.text, e.logical, e.page, e.note)
             \/ AddNew(e.text, e.logical, e.page, e.note)
             \/ AddGrow(e.text, e.logical, e.page, e.note)
    <2>1. Add
      BY <1>1, <1>3 DEF Add
    <2> QED BY <2>1 DEF Next
  <1> QED BY <1>2, <1>3 DEF Store

\* Every step of the files is an operation of the repository or leaves it
\* alone.
LEMMA FileStep ==
    ASSUME FileInv, [FileNext]_allVars
    PROVE  [Next]_vars
  <1>1. CASE Call
    BY <1>1 DEF Call
  <1>2. CASE LoadEntry
    <2>1. file[n] \in Element /\ pc = "idle"
      BY <1>2 DEF LoadEntry, FileInv
    <2> QED BY <1>2, <2>1, StoreAdds DEF LoadEntry
  <1>3. CASE LoadFail
    <2>1. CASE UNCHANGED vars
      BY <2>1
    <2>2. CASE file[n] # Invalid /\ AddOutOfMemory(file[n].logical, file[n].page)
      <3>1. file[n] \in Element /\ pc = "idle"
        BY <1>3, <2>2 DEF LoadFail, FileInv
      <3>2. file[n].logical \in Logicals /\ file[n].page \in Pages
        BY <3>1 DEF Element
      <3>3. Add
        BY <2>2, <3>1, <3>2 DEF Add
      <3> QED BY <3>3 DEF Next
    <2> QED BY <1>3, <2>1, <2>2 DEF LoadFail
  <1>4. CASE LoadStart \/ LoadCrash \/ LoadDone \/ SaveStart \/ SaveEntry \/ SaveNull \/ SaveDone
    BY <1>4 DEF LoadStart, LoadCrash, LoadDone, SaveStart, SaveEntry, SaveNull, SaveDone, vars
  <1>5. CASE UNCHANGED allVars
    BY <1>5 DEF allVars
  <1> QED BY <1>1, <1>2, <1>3, <1>4, <1>5 DEF FileNext

\* label_repository_add does not enter label_repository_delete.
LEMMA StoreIdle ==
    ASSUME NEW e, Store(e)
    PROVE  pc' = pc
  BY DEF Store, AddExisting, AddNothing, AddNew, AddGrow, Push, vars

\* Writing one more label.
LEMMA SavedMore ==
    ASSUME NEW m \in Nat, NEW f, f = SavedTo(m)
    PROVE  Append(f, Saved(m + 1)) = SavedTo(m + 1)
  <1>1. Len(f) = m
    BY DEF SavedTo
  <1>2. Append(f, Saved(m + 1)) = [k \in 1..(m + 1) |-> IF k = m + 1 THEN Saved(m + 1) ELSE f[k]]
    BY <1>1 DEF SavedTo
  <1>3. \A k \in 1..(m + 1) : k # m + 1 => f[k] = Saved(k)
    BY DEF SavedTo
  <1> QED BY <1>2, <1>3 DEF SavedTo

\* A step that leaves the labels and their texts alone writes the same file.
LEMMA SavedSame ==
    ASSUME UNCHANGED vars
    PROVE  \A k : Saved(k)' = Saved(k)
  BY DEF Saved, EntryOf, Text, vars

LEMMA FileInvStep ==
    ASSUME TypeOK, FileInv, [FileNext]_allVars
    PROVE  FileInv'
  <1> USE DEF FileInv
  <1>1. Len(labels) \in Nat
    BY DEF TypeOK
  <1>2. CASE Call
    BY <1>2 DEF Call, fileVars
  <1>3. CASE LoadStart
    BY <1>3, FilesAssumption DEF LoadStart, vars
  <1>4. CASE LoadEntry
    BY <1>4, StoreIdle DEF LoadEntry
  <1>5. CASE LoadFail \/ LoadDone \/ SaveDone
    BY <1>5 DEF LoadFail, LoadDone, SaveDone, Return
  <1>6. CASE SaveStart
    <2>1. file' = SavedTo(0)'
      BY <1>6 DEF SaveStart, SavedTo
    <2> QED BY <1>1, <1>6, <2>1 DEF SaveStart
  <1>7. CASE SaveEntry
    <2>1. file' = SavedTo(n)
      <3>1. n - 1 \in Nat /\ (n - 1) + 1 = n /\ file = SavedTo(n - 1)
        BY <1>7 DEF SaveEntry
      <3>2. Append(file, Saved((n - 1) + 1)) = SavedTo((n - 1) + 1)
        BY ONLY <3>1, SavedMore
      <3> QED BY <1>7, <3>1, <3>2 DEF SaveEntry
    <2>2. UNCHANGED vars /\ n' = n + 1 /\ task' = "save"
      BY <1>7 DEF SaveEntry
    <2>3. n' - 1 = n
      BY <2>2
    <2>4. file' = SavedTo(n - 1)'
      BY <2>1, <2>2, <2>3, SavedSame DEF SavedTo
    <2> QED BY <1>1, <1>7, <2>2, <2>4 DEF SaveEntry, vars
  <1>8. CASE LoadCrash \/ SaveNull
    BY <1>8 DEF LoadCrash, SaveNull
  <1>9. CASE UNCHANGED allVars
    <2>1. UNCHANGED vars /\ UNCHANGED fileVars
      BY <1>9 DEF allVars
    <2>2. task' = task /\ n' = n /\ file' = file /\ pc' = pc /\ labels' = labels
      BY <2>1 DEF vars, fileVars
    <2>3. SavedTo(n - 1)' = SavedTo(n - 1)
      BY <2>1, <2>2, SavedSame DEF SavedTo
    <2> QED BY <2>2, <2>3
  <1> QED BY <1>2, <1>3, <1>4, <1>5, <1>6, <1>7, <1>8, <1>9 DEF FileNext

LEMMA FileInvCorrect == FileSpec => [](TypeOK /\ FileInv)
<1>1. FileInit => TypeOK /\ FileInv
  <2> SUFFICES ASSUME FileInit PROVE TypeOK /\ FileInv
    OBVIOUS
  <2>1. TypeOK
    BY DEF FileInit, Init, TypeOK
  <2> QED BY <2>1 DEF FileInit, FileInv
<1>2. TypeOK /\ FileInv /\ [FileNext]_allVars => (TypeOK /\ FileInv)'
  BY FileStep, FileInvStep, TypeStep
<1> QED BY <1>1, <1>2, PTL DEF FileSpec, allVars

\* Loading and saving files uses the repository as its interface allows: what
\* is proved of the repository holds while files are loaded and saved.
THEOREM FilesUseRepository == FileSpec => Spec
<1>1. FileInit => Init
  BY DEF FileInit
<1>2. FileInv /\ [FileNext]_allVars => [Next]_vars
  BY FileStep
<1> QED BY <1>1, <1>2, FileInvCorrect, PTL DEF FileSpec, Spec, allVars

\* While files are loaded and saved, an address has one label and each label
\* its own live strings, whatever the files hold.
THEOREM FilesKeepRepository == FileSpec => [](TypeOK /\ AddressesUnique /\ StringsOwned)
BY FilesUseRepository, TypeCorrect, AddressesUniqueCorrect, StringsOwnedCorrect, PTL

-----------------------------------------------------------------------------
(* Loading merges.                                                         *)

SameAddress(e, f) == e.page = f.page /\ e.logical = f.logical

\* What label_repository_add does to the entries when it is given x: nothing,
\* or it annotates the entry that is there, or it adds one.
Nothing(x) == Entries' = Entries /\ \E f \in Entries : SameAddress(f, x)

Annotates(x) ==
    \E d \in Entries : \E e :
        /\ SameAddress(d, x) /\ SameAddress(e, x)
        /\ d.note = Null /\ e.note = x.note /\ e.text = d.text
        /\ Entries' = (Entries \ {d}) \union {e}

Adds(x) ==
    /\ \A f \in Entries : ~SameAddress(f, x)
    /\ \E e :
        /\ SameAddress(e, x)
        /\ e.text \in {x.text, Null} /\ e.note \in {x.note, Null}
        /\ Entries' = Entries \union {e}

LEMMA AtFields ==
    ASSUME NEW k
    PROVE  /\ At(k).page = labels[k].page /\ At(k).logical = labels[k].logical
           /\ At(k).text = Text(labels[k].name)
           /\ At(k).note = Text(labels[k].description)
  BY DEF At, EntryOf

LEMMA StoreEffect ==
    ASSUME Inv, pc = "idle", NEW x \in Element, Store(x)
    PROVE  Nothing(x) \/ Annotates(x) \/ Adds(x)
  <1>0. /\ x.logical \in Logicals /\ x.page \in Pages
        /\ x.text \in Texts /\ x.note \in Texts \union {Null}
    BY DEF Element
  <1>1. pc' = "idle" /\ TypeOK
    BY StoreIdle DEF Inv
  <1>2. Entries = {At(k) : k \in 1..Len(labels)}
    BY IdleEntries
  <1>3. CASE AddNothing(x.logical, x.page)
    <2>1. PICK k \in 1..Len(labels) : labels[k].page = x.page /\ labels[k].logical = x.logical
      BY <1>3 DEF AddNothing
    <2>2. SameAddress(At(k), x)
      BY <2>1, AtFields DEF SameAddress
    <2>3. Entries' = Entries
      BY <1>3 DEF AddNothing, vars, Entries, EntryOf, Text, Kept, Within
    <2> QED BY <1>2, <2>2, <2>3 DEF Nothing
  <1>4. CASE AddExisting(x.text, x.logical, x.page, x.note)
    <2>1. PICK k \in 1..Len(labels), p \in Pointers \union {Null} :
            /\ labels[k].page = x.page /\ labels[k].logical = x.logical
            /\ labels[k].description = Null
            /\ Described(k, p, x.note)
            /\ p # Null => x.note \in Texts
      BY <1>0, <1>1, <1>4, DescribedResult
    <2>2. SameAddress(At(k), x)
      BY <2>1, AtFields DEF SameAddress
    <2>3. /\ At(k) \in Entries
          /\ \/ Entries' = Entries
             \/ x.note \in Texts /\ Annotated(At(k), x.note)
      BY <1>1, <2>1, DescribedEntries
    <2>4. CASE Annotated(At(k), x.note)
      <3> DEFINE e == [At(k) EXCEPT !.note = x.note]
      <3>1. e.page = At(k).page /\ e.logical = At(k).logical /\ e.text = At(k).text /\ e.note = x.note
        BY DEF At, EntryOf
      <3>2. At(k).note = Null /\ Entries' = (Entries \ {At(k)}) \union {e}
        BY <2>4 DEF Annotated
      <3> HIDE DEF e
      <3> QED BY <2>2, <2>3, <3>1, <3>2 DEF Annotates, SameAddress
    <2> QED BY <2>2, <2>3, <2>4 DEF Nothing
  <1>5. CASE \/ AddNew(x.text, x.logical, x.page, x.note)
             \/ AddGrow(x.text, x.logical, x.page, x.note)
    <2>1. Push(x.text, x.logical, x.page, x.note) /\ Absent(x.logical, x.page)
      BY <1>5 DEF AddNew, AddGrow
    <2>2. PICK p, q \in Pointers \union {Null} :
            /\ Pushed(x.logical, x.page, p, q, x.text, x.note)
            /\ q # Null => x.note \in Texts
      BY <1>0, <1>1, <2>1, PushedResult
    <2> DEFINE e == Added(x.logical, x.page, p, q, x.text, x.note)
    <2>3. Entries' = Entries \union {e}
      BY <1>0, <1>1, <2>1, <2>2, PushedEntries
    <2>4. SameAddress(e, x) /\ e.text \in {x.text, Null} /\ e.note \in {x.note, Null}
      BY DEF SameAddress, Added
    <2> HIDE DEF e
    <2>5. \A f \in Entries : ~SameAddress(f, x)
      BY <1>2, <2>1, AtFields DEF Absent, SameAddress
    <2> QED BY <2>3, <2>4, <2>5 DEF Adds
  <1> QED BY <1>3, <1>4, <1>5 DEF Store

\* Element m is the first one of the file for the address of e.
IsFirst(m, e) ==
    SameAddress(file[m], e) /\ \A l \in 1..(m - 1) : ~SameAddress(file[l], e)

LEMMA FirstIs ==
    ASSUME n \in Nat, NEW e, NEW m \in 1..(n - 1), IsFirst(m, e)
    PROVE  First(e) = file[m]
  <1> DEFINE Is(k) == /\ AtAddressOf({file[k]}, e) # {}
                      /\ \A l \in 1..(k - 1) : AtAddressOf({file[l]}, e) = {}
             c     == CHOOSE k \in 1..(n - 1) : Is(k)
  <1>1. \A k : AtAddressOf({file[k]}, e) # {} <=> SameAddress(file[k], e)
    BY DEF AtAddressOf, SameAddress
  <1>2. \A k : Is(k) <=> IsFirst(k, e)
    BY <1>1 DEF IsFirst
  <1>3. First(e) = file[c]
    BY DEF First
  <1> HIDE DEF Is
  <1>4. c \in 1..(n - 1) /\ Is(c)
    BY <1>2
  <1> HIDE DEF c
  <1>5. IsFirst(c, e)
    BY <1>2, <1>4
  <1>6. ~(c < m) /\ ~(m < c)
    BY <1>4, <1>5 DEF IsFirst
  <1> QED BY <1>3, <1>4, <1>6

\* The entry e is what was there at its address, or is called as the first
\* element of the file for it.
Named(e) ==
    \/ /\ \E f \in before : SameAddress(f, e)
       /\ \A f \in before : SameAddress(f, e) => e.text = f.text /\ f.note \in {e.note, Null}
    \/ /\ \A f \in before : ~SameAddress(f, e)
       /\ \E m \in 1..(n - 1) : IsFirst(m, e) /\ e.text \in {file[m].text, Null}

\* It has no description, or one that was there or that the file gives it.
Noted(e) ==
    \/ e.note = Null
    \/ \E f \in before \union Read : SameAddress(f, e) /\ f.note = e.note

MergeInv ==
    task = "load" =>
        /\ \A f \in before \union Read : \E e \in Entries : SameAddress(e, f)
        /\ \A e \in Entries : Named(e) /\ Noted(e)

LEMMA MergeInvShows ==
    ASSUME n \in Nat, MergeInv
    PROVE  LoadMerges
  <1> SUFFICES ASSUME task = "load"
               PROVE  /\ \A e \in before \union Read : AtAddressOf(Entries, e) # {}
                      /\ \A e \in Entries :
                            /\ IF AtAddressOf(before, e) # {}
                               THEN \A f \in AtAddressOf(before, e) :
                                        e.text = f.text /\ f.note \in {e.note, Null}
                               ELSE AtAddressOf(Read, e) # {} /\ e.text \in {First(e).text, Null}
                            /\ e.note \in {f.note : f \in AtAddressOf(before \union Read, e)}
                                          \union {Null}
    BY DEF LoadMerges
  <1>1. \A S, e, f : f \in AtAddressOf(S, e) <=> f \in S /\ SameAddress(f, e)
    BY DEF AtAddressOf, SameAddress
  <1>2. \A e \in before \union Read : AtAddressOf(Entries, e) # {}
    BY <1>1 DEF MergeInv
  <1>3. ASSUME NEW e \in Entries
        PROVE  /\ IF AtAddressOf(before, e) # {}
                  THEN \A f \in AtAddressOf(before, e) :
                           e.text = f.text /\ f.note \in {e.note, Null}
                  ELSE AtAddressOf(Read, e) # {} /\ e.text \in {First(e).text, Null}
               /\ e.note \in {f.note : f \in AtAddressOf(before \union Read, e)} \union {Null}
    <2>1. Named(e) /\ Noted(e)
      BY DEF MergeInv
    <2>2. e.note \in {f.note : f \in AtAddressOf(before \union Read, e)} \union {Null}
      BY <1>1, <2>1 DEF Noted
    <2>3. CASE \E f \in before : SameAddress(f, e)
      BY <1>1, <2>1, <2>2, <2>3 DEF Named
    <2>4. CASE \A f \in before : ~SameAddress(f, e)
      <3>1. PICK m \in 1..(n - 1) : IsFirst(m, e) /\ e.text \in {file[m].text, Null}
        BY <2>1, <2>4 DEF Named
      <3>2. First(e) = file[m]
        BY <3>1, FirstIs
      <3>3. file[m] \in AtAddressOf(Read, e)
        BY <1>1, <3>1 DEF Read, IsFirst
      <3>4. AtAddressOf(before, e) = {}
        BY <1>1, <2>4
      <3> QED BY <2>2, <3>1, <3>2, <3>3, <3>4
    <2> QED BY <2>3, <2>4
  <1> QED BY <1>2, <1>3

\* The first element for an address stays the first when more is read, and so
\* does what an entry has from the file.
LEMMA ReadMore ==
    ASSUME n \in Nat \ {0}, n' = n + 1, file' = file, before' = before
    PROVE  /\ Read' = Read \union {file[n]}
           /\ \A e : Named(e) => Named(e)'
           /\ \A e : Noted(e) => Noted(e)'
  <1>1. \A k : k \in 1..(n' - 1) <=> k \in 1..(n - 1) \/ k = n
    OBVIOUS
  <1>2. Read' = Read \union {file[n]}
    BY <1>1 DEF Read
  <1>3. \A m, e : IsFirst(m, e)' <=> IsFirst(m, e)
    BY DEF IsFirst
  <1> QED BY <1>1, <1>2, <1>3 DEF Named, Noted

LEMMA LoadEntryMerges ==
    ASSUME Inv, FileInv, MergeInv, LoadEntry
    PROVE  MergeInv'
  <1>0. PICK m : m = n
    OBVIOUS
  <1>00. PICK x : x = file[n]
    OBVIOUS
  <1>1. /\ m = n /\ x = file[m] /\ n \in Nat \ {0} /\ n' = n + 1 /\ file' = file /\ before' = before
        /\ task = "load" /\ task' = "load" /\ pc = "idle"
        /\ x \in Element /\ Store(x)
    BY <1>0, <1>00 DEF LoadEntry, FileInv
  <1>2. /\ Read' = Read \union {x}
        /\ \A e : Named(e) => Named(e)'
        /\ \A e : Noted(e) => Noted(e)'
    BY <1>1, ReadMore
  <1>3. /\ \A f \in before \union Read : \E e \in Entries : SameAddress(e, f)
        /\ \A e \in Entries : Named(e) /\ Noted(e)
    BY <1>1 DEF MergeInv
  <1>4. m \in 1..(n' - 1)
    BY <1>1
  <1>5. \A k \in 1..(m - 1) : file[k] \in Read
    BY <1>1 DEF Read
  <1>7. CASE Nothing(x)
    <2>1. \A f \in before' \union Read' : \E e \in Entries' : SameAddress(e, f)
      BY <1>1, <1>2, <1>3, <1>7 DEF Nothing
    <2>2. \A e \in Entries' : Named(e)' /\ Noted(e)'
      BY <1>2, <1>3, <1>7 DEF Nothing
    <2> QED BY <2>1, <2>2 DEF MergeInv
  <1>8. CASE Annotates(x)
    <2>0. PICK d \in Entries : \E e :
            /\ SameAddress(d, x) /\ SameAddress(e, x)
            /\ d.note = Null /\ e.note = x.note /\ e.text = d.text
            /\ Entries' = (Entries \ {d}) \union {e}
      BY <1>8 DEF Annotates
    <2>1. PICK e :
            /\ SameAddress(d, x) /\ SameAddress(e, x)
            /\ d.note = Null /\ e.note = x.note /\ e.text = d.text
            /\ Entries' = (Entries \ {d}) \union {e}
      BY <2>0
    <2>2. \A f : SameAddress(f, e) <=> SameAddress(f, d)
      BY <2>1 DEF SameAddress
    <2>3. \A f : SameAddress(d, f) => SameAddress(e, f)
      BY <2>1 DEF SameAddress
    <2>4. \A f \in before' \union Read' : \E g \in Entries' : SameAddress(g, f)
      BY <1>1, <1>2, <1>3, <2>1, <2>3
    <2>5. Named(e)'
      <3>1. Named(d)
        BY <1>3
      <3>2. \A k : IsFirst(k, e) <=> IsFirst(k, d)
        BY <2>2 DEF IsFirst
      <3>3. Named(e)
        BY <2>1, <2>2, <3>1, <3>2 DEF Named
      <3> QED BY <1>2, <3>3
    <2>6. Noted(e)'
      BY <1>2, <2>1 DEF Noted, SameAddress
    <2>7. \A g \in Entries' : Named(g)' /\ Noted(g)'
      BY <1>2, <1>3, <2>1, <2>5, <2>6
    <2> QED BY <2>4, <2>7 DEF MergeInv
  <1>9. CASE Adds(x)
    <2>1. PICK e :
            /\ SameAddress(e, x)
            /\ e.text \in {x.text, Null} /\ e.note \in {x.note, Null}
            /\ Entries' = Entries \union {e}
      BY <1>9 DEF Adds
    <2>2. \A f \in before \union Read : ~SameAddress(f, x)
      <3>1. \A f \in Entries : ~SameAddress(f, x)
        BY <1>9 DEF Adds
      <3> QED BY <1>3, <3>1 DEF SameAddress
    <2>3. IsFirst(m, e)'
      <3>1. \A l \in 1..(m - 1) : ~SameAddress(file[l], e)
        BY <1>5, <2>1, <2>2 DEF SameAddress
      <3>2. SameAddress(file[m], e)
        BY <1>1, <2>1 DEF SameAddress
      <3>3. IsFirst(m, e)
        BY <3>1, <3>2 DEF IsFirst
      <3>4. IsFirst(m, e)' <=> IsFirst(m, e)
        BY <1>1 DEF IsFirst
      <3> QED BY <3>3, <3>4
    <2>4. \A f \in before : ~SameAddress(f, e)
      BY <2>1, <2>2 DEF SameAddress
    <2>5. Named(e)'
      <3>1. e.text \in {file'[m].text, Null}
        BY <1>1, <2>1
      <3> QED BY <1>1, <1>4, <2>3, <2>4, <3>1 DEF Named
    <2>6. Noted(e)'
      <3>1. e.note = Null \/ x.note = e.note
        BY <2>1
      <3>2. SameAddress(x, e) /\ x \in Read'
        BY <1>2, <2>1 DEF SameAddress
      <3> QED BY <3>1, <3>2 DEF Noted
    <2>7. \A g \in Entries' : Named(g)' /\ Noted(g)'
      BY <1>2, <1>3, <2>1, <2>5, <2>6
    <2>8. \A f \in before' \union Read' : \E g \in Entries' : SameAddress(g, f)
      BY <1>1, <1>2, <1>3, <2>1
    <2> QED BY <2>7, <2>8 DEF MergeInv
  <1> QED BY <1>1, <1>7, <1>8, <1>9, StoreEffect

\* An address has one entry.
LEMMA EntriesUnique ==
    ASSUME Inv, pc = "idle", NEW e \in Entries, NEW f \in Entries, SameAddress(e, f)
    PROVE  e = f
  <1>1. PICK j \in 1..Len(labels), k \in 1..Len(labels) : e = At(j) /\ f = At(k)
    BY IdleEntries
  <1>2. j = k
    BY <1>1, AtFields DEF Inv, AddressesUnique, SameAddress
  <1> QED BY <1>1, <1>2

LEMMA MergeInvStep ==
    ASSUME Inv, FileInv, MergeInv, [FileNext]_allVars
    PROVE  MergeInv'
  <1>1. CASE Call \/ LoadFail \/ LoadCrash \/ LoadDone \/ SaveStart \/ SaveEntry \/ SaveNull \/ SaveDone
    BY <1>1 DEF Call, LoadFail, LoadCrash, LoadDone, SaveStart, SaveEntry, SaveNull, SaveDone,
       Return, fileVars, MergeInv
  <1>2. CASE LoadStart
    <2>1. n' = 1 /\ before' = Entries /\ pc = "idle" /\ UNCHANGED vars
      BY <1>2 DEF LoadStart
    <2>2. Entries' = Entries
      BY <2>1 DEF vars, Entries, EntryOf, Text, Kept, Within
    <2>3. Read' = {}
      BY <2>1 DEF Read
    <2>4. \A e : SameAddress(e, e)
      BY DEF SameAddress
    <2>5. ASSUME NEW e \in Entries PROVE Named(e)' /\ Noted(e)'
      <3>1. \A f \in before' : SameAddress(f, e) => f = e
        BY <2>1, EntriesUnique
      <3> QED BY <2>1, <2>4, <3>1 DEF Named, Noted
    <2> QED BY <2>1, <2>2, <2>3, <2>4, <2>5 DEF MergeInv
  <1>3. CASE LoadEntry
    BY <1>3, LoadEntryMerges
  <1>4. CASE UNCHANGED allVars
    <2>1. Entries' = Entries /\ Read' = Read
      BY <1>4 DEF allVars, fileVars, vars, Entries, EntryOf, Text, Kept, Within, Read
    <2>2. \A e : (Named(e)' <=> Named(e)) /\ (Noted(e)' <=> Noted(e))
      BY <1>4, <2>1 DEF allVars, fileVars, Named, Noted, IsFirst
    <2> QED BY <1>4, <2>1, <2>2 DEF allVars, fileVars, MergeInv
  <1> QED BY <1>1, <1>2, <1>3, <1>4 DEF FileNext

\* While label_repository_load is under way, a label that was there keeps its
\* name and its description, the others are those of the file so far, each
\* with the name of its first element, and every element read has a label.
THEOREM LoadMergesCorrect == FileSpec => []LoadMerges
<1>1. FileInit => MergeInv
  BY DEF FileInit, MergeInv
<1>2. FileInv /\ MergeInv => LoadMerges
  BY MergeInvShows DEF FileInv
<1>3. FileSpec => []Inv
  BY FilesUseRepository, InvCorrect, PTL
<1> QED BY <1>1, <1>2, <1>3, MergeInvStep, FileInvCorrect, PTL DEF FileSpec, allVars

-----------------------------------------------------------------------------
(* Saving.                                                                 *)

\* When label_repository_save returns, label_repository_load makes of the file
\* the labels of the repository, all of them and no others, unless one of
\* their texts is of a kind that is not escaped.
THEOREM SaveThenLoadCorrect == FileSpec => SaveThenLoad
<1>1. ASSUME TypeOK, FileInv, [FileNext]_allVars, task = "save", task' = "none",
             \A e \in Entries : TextsOf(e) \intersect Broken = {}
      PROVE  Reloaded(file) = Entries
  <2>1. SaveDone
    BY <1>1 DEF FileNext, Call, LoadStart, LoadEntry, LoadFail, LoadCrash, LoadDone,
       SaveStart, SaveEntry, SaveNull, fileVars, allVars
  <2>2. Len(labels) \in Nat
    BY <1>1 DEF TypeOK
  <2>3. pc = "idle" /\ file = SavedTo(Len(labels))
    <3>1. n = Len(labels) + 1
      BY <1>1, <2>1, <2>2 DEF SaveDone, FileInv
    <3> QED BY <1>1, <2>2, <3>1 DEF FileInv
  <2>4. Entries = {EntryOf(labels[k]) : k \in 1..Len(labels)}
    BY <2>3 DEF Entries, Kept
  <2>5. /\ Len(file) = Len(labels)
        /\ \A k \in 1..Len(labels) : /\ file[k].entry = EntryOf(labels[k])
                                     /\ file[k].comma = (k < Len(labels))
    BY <2>2, <2>3 DEF SavedTo, Saved
  <2>6. \A k \in 1..Len(file) : /\ file[k].comma = (k < Len(file))
                                /\ TextsOf(file[k].entry) \intersect Broken = {}
    BY <1>1, <2>4, <2>5
  <2>7. Reloaded(file) = {file[k].entry : k \in 1..Len(file)}
    BY <2>6 DEF Reloaded
  <2> QED BY <2>4, <2>5, <2>7
<1>2. TypeOK /\ FileInv /\ [FileNext]_allVars
      => [/\ task = "save" /\ task' = "none"
          /\ \A e \in Entries : TextsOf(e) \intersect Broken = {}
          => Reloaded(file) = Entries]_allVars
  BY <1>1
<1> QED BY <1>2, FileInvCorrect, PTL DEF FileSpec, SaveThenLoad, allVars
=============================================================================
