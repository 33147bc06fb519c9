------------------------- MODULE SectionArrayProofs -------------------------
(***************************************************************************)
(* Proofs about SectionArray, for every set of descriptors and tokens and  *)
(* every word size: the types, the ownership of strings, the order, the    *)
(* coverage and the gaps of a tidied array, and that the program never     *)
(* overruns it.                                                            *)
(***************************************************************************)
EXTENDS SectionArray, TLAPS

-----------------------------------------------------------------------------
(* Lemmas about sections.                                                  *)

\* A word truncated to a word is itself, and truncation yields a word.
LEMMA WordMod ==
    ASSUME NEW x \in Int
    PROVE  /\ x % WordSize \in 0..(WordSize - 1)
           /\ x \in 0..(WordSize - 1) => x % WordSize = x
  BY WordSizeAssumption, Z3T(30)

\* A descriptor given a block of strings is a section.
LEMMA WithStringsType ==
    ASSUME NEW d \in Descriptors, NEW t \in Tokens
    PROVE  /\ WithStrings(d, t) \in SectionType
           /\ WithStrings(d, t).str = t
  BY DescriptorsAssumption DEF WithStrings, SectionType

\* Merging (section_merge) keeps everything but the address and the size.
LEMMA MergeType ==
    ASSUME NEW a \in SectionType, NEW b \in SectionType
    PROVE  /\ Merge(a, b) \in SectionType
           /\ Merge(a, b).str = a.str
           /\ Merge(a, b).page = a.page
           /\ Merge(a, b).type = a.type
           /\ Merge(a, b).dtype = a.dtype
  <1> DEFINE begin == Minu16(a.logical, b.logical)
             end   == Maxi32(End(a), End(b))
  <1>1. begin \in 0..(WordSize - 1)
    BY DEF Minu16, SectionType
  <1>2. End(a) \in Int /\ End(b) \in Int
    BY DEF End, SectionType
  <1>3. end \in 0..(WordSize - 1)
    BY <1>2, WordMod DEF Maxi32
  <1>4. end - begin \in Int
    BY <1>1, <1>3
  <1>5. Merge(a, b) = [a EXCEPT !.logical = begin, !.size = end - begin]
    BY DEF Merge
  <1> HIDE DEF begin, end
  <1> QED BY <1>1, <1>4, <1>5 DEF SectionType

\* In address order, and when neither section reaches the end of the address
\* space, merging covers exactly what the two sections covered.
LEMMA MergeCells ==
    ASSUME NEW a \in SectionType, NEW b \in SectionType,
           Precedes(a, b), Overlap(a, b) = 1,
           End(a) < WordSize, End(b) < WordSize
    PROVE  /\ Merge(a, b).logical = a.logical
           /\ End(Merge(a, b)) < WordSize
           /\ Cell(Merge(a, b)) = Cell(a) \union Cell(b)
  <1>1. /\ a.page = b.page
        /\ a.logical <= b.logical
        /\ b.logical <= End(a)
        /\ a.type = b.type
    BY DEF Precedes, Overlap, OverlapInOrder, SectionType, End
  <1>2. SameKind(a, b)
    BY <1>1 DEF Precedes, Overlap, OverlapInOrder, SectionType, End, SameKind, Kind
  <1> DEFINE last == IF End(a) > End(b) THEN End(a) ELSE End(b)
             m    == Merge(a, b)
  <1>3. /\ End(a) \in Int /\ End(b) \in Int
        /\ a.logical \in 0..(WordSize - 1)
        /\ b.logical \in 0..(WordSize - 1)
    BY DEF End, SectionType
  <1>4. Minu16(a.logical, b.logical) = a.logical
    BY <1>1, <1>3 DEF Minu16
  <1>5. last \in 0..(WordSize - 1)
    BY <1>1, <1>3, WordSizeAssumption
  <1>6. Maxi32(End(a), End(b)) = last
    BY <1>3, <1>5, WordMod DEF Maxi32
  <1> HIDE DEF last
  <1>7. m.logical = a.logical /\ m.size = last - a.logical
    BY <1>3, <1>4, <1>6 DEF Merge, SectionType
  <1>8. End(m) = last
    BY <1>3, <1>5, <1>7 DEF End
  <1>9. Bytes(m) = Bytes(a) \union Bytes(b)
    BY <1>1, <1>3, <1>5, <1>7, <1>8, WordSizeAssumption DEF Bytes, last
  <1>10. Kind(m) = Kind(a) /\ Kind(b) = Kind(a) /\ m.page = a.page /\ b.page = a.page
    BY <1>1, <1>2, MergeType DEF Kind, SameKind
  <1> HIDE DEF m
  <1>11. Cell(m) = Cell(a) \union Cell(b)
    BY <1>9, <1>10 DEF Cell
  <1> QED BY <1>5, <1>7, <1>8, <1>11, WordSizeAssumption DEF m

\* A merged section keeps its place in the order.
LEMMA MergeOrder ==
    ASSUME NEW a \in SectionType, NEW b \in SectionType,
           Precedes(a, b), Overlap(a, b) = 1
    PROVE  Merge(a, b).logical = a.logical
  <1>1. a.logical <= b.logical
    BY DEF Precedes, Overlap, SectionType
  <1>2. Minu16(a.logical, b.logical) = a.logical
    BY <1>1 DEF Minu16, SectionType
  <1> QED BY <1>2 DEF Merge, SectionType

Ordered(s) == \A i, j \in 1..Len(s) : i < j => Precedes(s[i], s[j])

\* The array after qsort: a permutation of the array before.
LEMMA SortedArray ==
    ASSUME NEW s \in Seq(SectionType), NEW r \in Sorts(s), NEW t,
           t = [k \in 1..Len(s) |-> s[r[k]]]
    PROVE  /\ t \in Seq(SectionType)
           /\ Len(t) = Len(s)
           /\ Ordered(t)
           /\ \A i \in 1..Len(s) : r[i] \in 1..Len(s) /\ t[i] = s[r[i]]
           /\ \A i, j \in 1..Len(s) : r[i] = r[j] => i = j
           /\ \A i \in 1..Len(s) : \E j \in 1..Len(s) : r[j] = i
           /\ Range(t) = Range(s)
  <1>1. r \in [1..Len(s) -> 1..Len(s)]
    BY DEF Sorts, Bijection, Injection, IsInjective
  <1>2. \A i \in 1..Len(s) : r[i] \in 1..Len(s) /\ t[i] = s[r[i]]
    BY <1>1
  <1>3. t \in [1..Len(s) -> SectionType]
    BY <1>1
  <1>4. t \in Seq(SectionType) /\ Len(t) = Len(s)
    BY <1>3
  <1>5. \A i, j \in 1..Len(s) : i < j => Precedes(s[r[i]], s[r[j]])
    BY DEF Sorts
  <1>6. \A i, j \in 1..Len(s) : r[i] = r[j] => i = j
    BY DEF Sorts, Bijection, Injection, IsInjective
  <1>7. \A i \in 1..Len(s) : \E j \in 1..Len(s) : r[j] = i
    BY DEF Sorts, Bijection, Surjection
  <1>8. \A x : x \in Range(t) <=> x \in Range(s)
    <2>1. DOMAIN t = 1..Len(s) /\ DOMAIN s = 1..Len(s)
      BY <1>4
    <2> QED BY <1>2, <1>7, <2>1 DEF Range
  <1>9. Ordered(t)
    BY <1>2, <1>4, <1>5 DEF Ordered
  <1> QED BY <1>2, <1>4, <1>6, <1>7, <1>8, <1>9

-----------------------------------------------------------------------------
(* Types.                                                                  *)

\* Where the loop of section_array_tidy stands.
Loop ==
    /\ pc = "idle" => section = <<>>
    /\ pc = "merge" => section # <<>> /\ next \in 2..(Len(data) + 1)

TypeInv == TypeOK /\ Loop

\* Every step keeps the types.
LEMMA TypeStep ==
    ASSUME TypeInv, [Next]_vars
    PROVE  TypeInv'
<1> USE DEF TypeInv, TypeOK, Loop
<1>0. \A s \in SectionType : Append(data, s) \in Seq(SectionType)
  OBVIOUS
<1>1. ASSUME Add PROVE TypeInv'
  <2>1. PICK d \in Descriptors, t \in Tokens :
          AddInPlace(WithStrings(d, t)) \/ AddGrow(WithStrings(d, t))
    BY <1>1 DEF Add
  <2> DEFINE s == WithStrings(d, t)
  <2>2. s \in SectionType /\ s.str \in Tokens
    BY WithStringsType
  <2>3. pc = "idle"
    BY <1>1 DEF Add
  <2> HIDE DEF s
  <2>4. CASE AddInPlace(s)
    BY <1>0, <2>2, <2>3, <2>4 DEF AddInPlace, Push
  <2>5. CASE AddGrow(s)
    <3>1. capacity' \in Nat /\ alloc' \in Nat
      BY <2>5, IncrementAssumption DEF AddGrow
    <3>2. tidied' \in BOOLEAN
      BY <2>5 DEF AddGrow, Push
    <3>3. data' \in Seq(SectionType) /\ heap' \subseteq Tokens /\ given' \subseteq SectionType
      BY <1>0, <2>2, <2>5 DEF AddGrow, Push
    <3> QED BY <2>3, <2>5, <3>1, <3>2, <3>3 DEF AddGrow, Push
  <2> QED BY <2>1, <2>4, <2>5 DEF s
<1>2. ASSUME Reset PROVE TypeInv'
  BY <1>2 DEF Reset
<1>3. ASSUME Delete PROVE TypeInv'
  BY <1>3 DEF Delete
<1>4. ASSUME TidyStart PROVE TypeInv'
  <2>1. PICK r \in Sorts(data) : data' = [k \in 1..Len(data) |-> data[r[k]]]
    BY <1>4 DEF TidyStart
  <2>2. data' \in Seq(SectionType) /\ Len(data') = Len(data)
    BY <2>1, SortedArray
  <2>3. Len(data) >= 1 /\ data'[1] \in SectionType
    BY <1>4, <2>2 DEF TidyStart
  <2> QED BY <1>4, <2>2, <2>3 DEF TidyStart
<1>5. ASSUME TidyOutOfMemory PROVE TypeInv'
  BY <1>5 DEF TidyOutOfMemory
<1>6. ASSUME TidyMerge PROVE TypeInv'
  <2> DEFINE m == Merge(section[Len(section)], data[next])
  <2>1. /\ Len(section) \in 1..Len(section)
        /\ section[Len(section)] \in SectionType
        /\ data[next] \in SectionType
    BY <1>6 DEF TidyMerge
  <2>2. m \in SectionType
    BY <2>1, MergeType
  <2>3. section' = [section EXCEPT ![Len(section)] = m]
    BY <1>6 DEF TidyMerge
  <2> HIDE DEF m
  <2>4. section' \in Seq(SectionType) /\ section' # <<>>
    BY <2>1, <2>2, <2>3
  <2> QED BY <1>6, <2>4 DEF TidyMerge
<1>7. ASSUME TidyKeep PROVE TypeInv'
  BY <1>7 DEF TidyKeep
<1>8. ASSUME TidyDone PROVE TypeInv'
  BY <1>8 DEF TidyDone
<1>9. CASE UNCHANGED vars
  BY <1>9 DEF vars
<1> QED BY <1>1, <1>2, <1>3, <1>4, <1>5, <1>6, <1>7, <1>8, <1>9 DEF Next, Tidy

LEMMA TypeInvCorrect == Spec => []TypeInv
<1>1. ASSUME Init PROVE TypeInv
  <2>1. <<>> \in Seq(SectionType)
    OBVIOUS
  <2>2. tidied \in BOOLEAN
    BY <1>1 DEF Init
  <2>3. capacity \in Nat /\ alloc \in Nat /\ next \in Nat \ {0}
    BY <1>1 DEF Init
  <2> QED BY <1>1, <2>1, <2>2, <2>3 DEF Init, TypeInv, TypeOK, Loop
<1>2. TypeInv /\ [Next]_vars => TypeInv'
  BY TypeStep
<1> QED BY <1>1, <1>2, PTL DEF Spec

\* The variables keep their types through every sequence of calls.
THEOREM TypeCorrect == Spec => []TypeOK
<1>1. TypeInv => TypeOK
  BY DEF TypeInv
<1> QED BY <1>1, TypeInvCorrect, PTL

-----------------------------------------------------------------------------
(* Ownership of the strings.                                               *)

\* Every block of strings has exactly one owner, and none is lost.
THEOREM StringsOwnedCorrect == Spec => []StringsOwned
<1>1. ASSUME Init PROVE StringsOwned
  BY <1>1 DEF Init, StringsOwned, Placed, Pending, Unshared, Todo
<1>2. ASSUME TypeInv, StringsOwned, [Next]_vars PROVE StringsOwned'
  <2>0. /\ data \in Seq(SectionType) /\ section \in Seq(SectionType)
        /\ next \in Nat \ {0}
        /\ Loop /\ StringsOwned
    BY <1>2 DEF TypeInv, TypeOK
  <2> USE <2>0 DEF Loop, Todo
  <2>1. ASSUME Add PROVE StringsOwned'
    <3>1. PICK d \in Descriptors, t \in Tokens \ heap :
            AddInPlace(WithStrings(d, t)) \/ AddGrow(WithStrings(d, t))
      BY <2>1 DEF Add
    <3> DEFINE s == WithStrings(d, t)
    <3>2. s \in SectionType /\ s.str \notin heap
      BY WithStringsType
    <3> HIDE DEF s
    <3>3. pc = "idle" /\ section = <<>>
      BY <2>1 DEF Add
    <3>4. /\ data' = Append(data, s)
          /\ heap' = heap \union {s.str}
          /\ section' = section
          /\ pc' \in {"idle", "dead"}
      BY <3>1 DEF AddInPlace, AddGrow, Push, s
    <3>5. /\ DOMAIN data' = 1..(Len(data) + 1)
          /\ \A k \in 1..Len(data) : data'[k] = data[k]
          /\ data'[Len(data) + 1] = s
      BY <3>2, <3>4
    <3>6. heap = Pending /\ Unshared(data, 1)
      <4>1. Placed = {}
        BY <3>3 DEF Placed
      <4> QED BY <3>3, <4>1 DEF StringsOwned
    <3>7. \A k \in 1..Len(data) : data[k].str # s.str
      BY <3>2, <3>3, <3>6 DEF Pending
    <3>8. CASE pc' = "idle"
      <4>1. Placed' = {}
        BY <3>3, <3>4 DEF Placed
      <4>2. Pending' = Pending \union {s.str}
        BY <3>3, <3>5, <3>8 DEF Pending
      <4>3. Unshared(data, 1)'
        BY <3>5, <3>6, <3>7 DEF Unshared
      <4>4. Unshared(section, 1)'
        BY <3>3, <3>4 DEF Unshared
      <4> QED BY <3>4, <3>6, <3>8, <4>1, <4>2, <4>3, <4>4 DEF StringsOwned
    <3>9. CASE pc' = "dead"
      BY <3>9 DEF StringsOwned
    <3> QED BY <3>4, <3>8, <3>9
  <2>2. ASSUME Reset \/ Delete PROVE StringsOwned'
    <3>1. /\ heap' = heap \ {data[k].str : k \in DOMAIN data}
          /\ data' = <<>> /\ section' = <<>> /\ section = <<>>
          /\ pc = "idle" /\ pc' = "idle"
      BY <2>2 DEF Reset, Delete
    <3>2. heap' = {}
      BY <3>1 DEF StringsOwned, Placed, Pending
    <3> QED BY <3>1, <3>2 DEF StringsOwned, Placed, Pending, Unshared
  <2>3. ASSUME TidyStart PROVE StringsOwned'
    <3>1. PICK r \in Sorts(data) : data' = [k \in 1..Len(data) |-> data[r[k]]]
      BY <2>3 DEF TidyStart
    <3>2. /\ Len(data') = Len(data)
          /\ \A i \in 1..Len(data) : r[i] \in 1..Len(data) /\ data'[i] = data[r[i]]
          /\ \A i, j \in 1..Len(data) : r[i] = r[j] => i = j
          /\ \A i \in 1..Len(data) : \E j \in 1..Len(data) : r[j] = i
          /\ data' \in Seq(SectionType)
      BY <3>1, SortedArray
    <3>3. /\ pc = "idle" /\ pc' = "merge" /\ next' = 2 /\ heap' = heap
          /\ section' = <<data'[1]>> /\ Len(data) >= 1
      BY <2>3 DEF TidyStart
    <3>4. heap = {data[k].str : k \in 1..Len(data)} /\ Unshared(data, 1)
      BY <3>3 DEF StringsOwned, Placed, Pending
    <3>5. Placed' = {data'[1].str}
      BY <3>3 DEF Placed
    <3>6. Pending' = {data'[k].str : k \in 2..Len(data)}
      BY <3>2, <3>3 DEF Pending
    <3>7. \A i, j \in 1..Len(data) : data'[i].str = data'[j].str => i = j
      <4> SUFFICES ASSUME NEW i \in 1..Len(data), NEW j \in 1..Len(data),
                          data'[i].str = data'[j].str
                   PROVE  i = j
        OBVIOUS
      <4>1. r[i] \in 1..Len(data) /\ r[j] \in 1..Len(data)
        BY <3>2
      <4>2. data[r[i]].str = data[r[j]].str
        BY <3>2
      <4>3. r[i] = r[j]
        BY <3>4, <4>1, <4>2 DEF Unshared
      <4> QED BY <3>2, <4>3
    <3>8. Placed' \intersect Pending' = {}
      BY <3>3, <3>5, <3>6, <3>7
    <3>9. heap' = Placed' \union Pending'
      <4>1. Placed' \union Pending' = {data'[k].str : k \in 1..Len(data)}
        BY <3>3, <3>5, <3>6
      <4>2. ASSUME NEW k \in 1..Len(data) PROVE data'[k].str \in heap
        <5>1. r[k] \in 1..Len(data) /\ data'[k].str = data[r[k]].str
          BY <3>2
        <5> QED BY <3>4, <5>1
      <4>3. ASSUME NEW k \in 1..Len(data)
            PROVE  \E m \in 1..Len(data) : data'[m].str = data[k].str
        <5>1. PICK m \in 1..Len(data) : r[m] = k
          BY <3>2
        <5>2. data'[m] = data[k]
          BY <3>2, <5>1
        <5> QED BY <5>2
      <4> QED BY <3>3, <3>4, <4>1, <4>2, <4>3
    <3>10. Unshared(data, Todo)' /\ Unshared(section, 1)'
      BY <3>2, <3>3, <3>7 DEF Unshared
    <3> QED BY <3>8, <3>9, <3>10 DEF StringsOwned
  <2>4. ASSUME TidyOutOfMemory PROVE StringsOwned'
    BY <2>4 DEF TidyOutOfMemory, StringsOwned
  <2>5. ASSUME TidyMerge PROVE StringsOwned'
    <3> DEFINE last == Len(section)
               m    == Merge(section[last], data[next])
    <3>1. /\ last \in 1..Len(section) /\ next \in 1..Len(data)
          /\ section[last] \in SectionType /\ data[next] \in SectionType
          /\ pc = "merge" /\ pc' = "merge" /\ next' = next + 1 /\ data' = data
          /\ heap' = heap \ {data[next].str}
          /\ section' = [section EXCEPT ![last] = m]
      BY <2>5 DEF TidyMerge
    <3>2. m.str = section[last].str
      BY <3>1, MergeType
    <3> HIDE DEF last, m
    <3>3. DOMAIN section' = DOMAIN section /\ \A k \in DOMAIN section : section'[k].str = section[k].str
      BY <3>1, <3>2
    <3>4. Placed' = Placed
      BY <3>3 DEF Placed
    <3>5. Pending = Pending' \union {data[next].str} /\ data[next].str \notin Pending'
      BY <3>1 DEF Pending, StringsOwned, Unshared
    <3>6. Unshared(section, 1)' /\ Unshared(data, Todo)'
      BY <3>1, <3>3 DEF StringsOwned, Unshared
    <3> QED BY <3>1, <3>4, <3>5, <3>6 DEF StringsOwned
  <2>6. ASSUME TidyKeep PROVE StringsOwned'
    <3>1. /\ next \in 1..Len(data) /\ data[next] \in SectionType
          /\ pc = "merge" /\ pc' = "merge" /\ next' = next + 1 /\ data' = data
          /\ heap' = heap /\ section' = Append(section, data[next])
      BY <2>6 DEF TidyKeep
    <3>2. /\ DOMAIN section' = 1..(Len(section) + 1)
          /\ \A k \in 1..Len(section) : section'[k] = section[k]
          /\ section'[Len(section) + 1] = data[next]
      BY <3>1
    <3>3. Placed' = Placed \union {data[next].str}
      BY <3>2 DEF Placed
    <3>4. Pending = Pending' \union {data[next].str} /\ data[next].str \notin Pending'
      BY <3>1 DEF Pending, StringsOwned, Unshared
    <3>5. data[next].str \notin Placed
      BY <3>1, <3>4 DEF StringsOwned
    <3>6. Unshared(section, 1)'
      BY <3>1, <3>2, <3>5 DEF StringsOwned, Unshared, Placed
    <3>7. Unshared(data, Todo)'
      BY <3>1 DEF StringsOwned, Unshared
    <3> QED BY <3>1, <3>3, <3>4, <3>5, <3>6, <3>7 DEF StringsOwned
  <2>7. ASSUME TidyDone PROVE StringsOwned'
    <3>1. /\ data' = section /\ section' = <<>> /\ heap' = heap
          /\ pc = "merge" /\ pc' = "idle" /\ next > Len(data)
      BY <2>7 DEF TidyDone
    <3>2. Pending = {} /\ Placed' = {} /\ Pending' = Placed
      BY <3>1 DEF Pending, Placed
    <3> QED BY <3>1, <3>2 DEF StringsOwned, Unshared
  <2>8. ASSUME UNCHANGED vars PROVE StringsOwned'
    <3>1. data' = data /\ section' = section /\ heap' = heap /\ pc' = pc /\ next' = next
      BY <2>8 DEF vars
    <3>2. Placed' = Placed /\ Todo' = Todo
      BY <3>1 DEF Placed
    <3>3. Pending' = Pending
      BY <3>1 DEF Pending
    <3> QED BY <3>1, <3>2, <3>3 DEF StringsOwned, Unshared
  <2> QED BY <1>2, <2>1, <2>2, <2>3, <2>4, <2>5, <2>6, <2>7, <2>8 DEF Next, Tidy
<1> QED BY <1>1, <1>2, TypeInvCorrect, PTL DEF Spec

-----------------------------------------------------------------------------
(* The order of a tidied array.                                            *)

\* The loop invariant of section_array_tidy: section[] is in order, and its
\* last section precedes every section the loop has not reached.
OrderInv ==
    /\ tidied \/ pc = "merge" => Ordered(data)
    /\ pc = "merge" =>
        /\ Ordered(section)
        /\ \A k \in next..Len(data) : Precedes(section[Len(section)], data[k])

LEMMA PrecedesTransitive ==
    ASSUME NEW a \in SectionType, NEW b \in SectionType, NEW c \in SectionType,
           Precedes(a, b), Precedes(b, c)
    PROVE  Precedes(a, c)
  BY DEF Precedes, SectionType

\* The loop invariant holds throughout.
LEMMA OrderCorrect == Spec => []OrderInv
<1>1. ASSUME Init PROVE OrderInv
  BY <1>1 DEF Init, OrderInv
<1>2. ASSUME TypeInv, OrderInv, [Next]_vars PROVE OrderInv'
  <2>0. /\ data \in Seq(SectionType) /\ section \in Seq(SectionType)
        /\ next \in Nat \ {0}
        /\ Loop /\ OrderInv
    BY <1>2 DEF TypeInv, TypeOK
  <2> USE <2>0 DEF Loop
  <2>1. ASSUME Add \/ Reset \/ Delete PROVE OrderInv'
    <3>1. tidied' = FALSE /\ pc' \in {"idle", "dead"}
      BY <2>1 DEF Add, AddInPlace, AddGrow, Push, Reset, Delete
    <3> QED BY <3>1 DEF OrderInv
  <2>2. ASSUME TidyStart PROVE OrderInv'
    <3>1. PICK r \in Sorts(data) : data' = [k \in 1..Len(data) |-> data[r[k]]]
      BY <2>2 DEF TidyStart
    <3>2. /\ Len(data') = Len(data) /\ data' \in Seq(SectionType)
          /\ Ordered(data')
      BY <3>1, SortedArray
    <3>3. section' = <<data'[1]>> /\ next' = 2 /\ pc' = "merge" /\ Len(data) >= 1
      BY <2>2 DEF TidyStart
    <3>4. Len(section') = 1 /\ section'[1] = data'[1]
      BY <3>3
    <3>5. \A k \in 2..Len(data') : Precedes(data'[1], data'[k])
      BY <3>2, <3>3 DEF Ordered
    <3> QED BY <3>2, <3>3, <3>4, <3>5 DEF OrderInv, Ordered
  <2>3. ASSUME TidyOutOfMemory PROVE OrderInv'
    <3>1. data' = data /\ (tidied' <=> tidied) /\ pc' = "dead"
      BY <2>3 DEF TidyOutOfMemory
    <3> QED BY <3>1 DEF OrderInv, Ordered
  <2>4. ASSUME TidyMerge PROVE OrderInv'
    <3> DEFINE last == Len(section)
               a    == section[last]
               m    == Merge(a, data[next])
    <3>1. /\ last \in 1..Len(section) /\ next \in 1..Len(data)
          /\ a \in SectionType /\ data[next] \in SectionType
          /\ pc = "merge" /\ pc' = "merge" /\ next' = next + 1 /\ data' = data
          /\ section' = [section EXCEPT ![last] = m]
          /\ Overlap(a, data[next]) = 1
      BY <2>4 DEF TidyMerge
    <3>2. Precedes(a, data[next])
      BY <3>1 DEF OrderInv
    <3>3. m.logical = a.logical /\ m.page = a.page
      BY <3>1, <3>2, MergeOrder, MergeType
    <3> HIDE DEF m
    <3>4. /\ Len(section') = last
          /\ \A k \in 1..last : /\ section'[k].logical = section[k].logical
                                /\ section'[k].page = section[k].page
      BY <3>1, <3>3
    <3>7. \A k \in 1..last : \A x :
             /\ Precedes(section'[k], x) <=> Precedes(section[k], x)
             /\ Precedes(x, section'[k]) <=> Precedes(x, section[k])
      BY <3>4 DEF Precedes
    <3>5. Ordered(section')
      <4>1. Ordered(section)
        BY <3>1 DEF OrderInv
      <4> QED BY <3>4, <3>7, <4>1 DEF Ordered
    <3>6. \A k \in next'..Len(data) : Precedes(section'[last], data[k])
      <4>1. \A k \in next'..Len(data) : Precedes(section[last], data[k])
        BY <3>1 DEF OrderInv
      <4> QED BY <3>1, <3>7, <4>1
    <3>8. Ordered(data)
      BY <3>1 DEF OrderInv
    <3> QED BY <3>1, <3>4, <3>5, <3>6, <3>8 DEF OrderInv, Ordered
  <2>5. ASSUME TidyKeep PROVE OrderInv'
    <3>1. /\ Len(section) >= 1 /\ next \in 1..Len(data) /\ data[next] \in SectionType
          /\ pc = "merge" /\ pc' = "merge" /\ next' = next + 1 /\ data' = data
          /\ section' = Append(section, data[next])
      BY <2>5 DEF TidyKeep
    <3>2. /\ Len(section') = Len(section) + 1
          /\ \A k \in 1..Len(section) : section'[k] = section[k]
          /\ section'[Len(section) + 1] = data[next]
      BY <3>1
    <3>3. Ordered(data) /\ Ordered(section) /\ Precedes(section[Len(section)], data[next])
      BY <3>1 DEF OrderInv
    <3>4. ASSUME NEW k \in 1..Len(section) PROVE Precedes(section[k], data[next])
      <4>1. k = Len(section) \/ Precedes(section[k], section[Len(section)])
        BY <3>3 DEF Ordered
      <4> QED BY <3>1, <3>3, <4>1, PrecedesTransitive
    <3>5. Ordered(section')
      BY <3>2, <3>3, <3>4 DEF Ordered
    <3>6. \A k \in next'..Len(data) : Precedes(data[next], data[k])
      BY <3>1, <3>3 DEF Ordered
    <3> QED BY <3>1, <3>2, <3>3, <3>5, <3>6 DEF OrderInv, Ordered
  <2>6. ASSUME TidyDone PROVE OrderInv'
    <3>1. data' = section /\ pc' = "idle" /\ Ordered(section)
      BY <2>6 DEF TidyDone, OrderInv
    <3> QED BY <3>1 DEF OrderInv, Ordered
  <2>7. ASSUME UNCHANGED vars PROVE OrderInv'
    <3>1. /\ data' = data /\ section' = section /\ next' = next /\ pc' = pc
          /\ tidied' <=> tidied
      BY <2>7 DEF vars
    <3> QED BY <3>1 DEF OrderInv, Ordered
  <2> QED BY <1>2, <2>1, <2>2, <2>3, <2>4, <2>5, <2>6, <2>7 DEF Next, Tidy
<1> QED BY <1>1, <1>2, TypeInvCorrect, PTL DEF Spec

\* A tidied array is sorted by page and address.
THEOREM TidySortedCorrect == Spec => []TidySorted
<1>1. ASSUME TypeInv, OrderInv PROVE TidySorted
  <2>1. data \in Seq(SectionType)
    BY <1>1 DEF TypeInv, TypeOK
  <2>2. ASSUME tidied, NEW i \in DOMAIN data, NEW j \in DOMAIN data, i < j
        PROVE  /\ data[i].page <= data[j].page
               /\ data[i].page = data[j].page => data[i].logical <= data[j].logical
    <3>1. Precedes(data[i], data[j])
      BY <1>1, <2>1, <2>2 DEF OrderInv, Ordered
    <3>2. data[i] \in SectionType /\ data[j] \in SectionType
      BY <2>1
    <3> QED BY <3>1, <3>2 DEF Precedes, SectionType
  <2> QED BY <2>2 DEF TidySorted
<1> QED BY <1>1, TypeInvCorrect, OrderCorrect, PTL

-----------------------------------------------------------------------------
(* Coverage.                                                               *)

\* What the sections first .. Len(s) of the array s cover.
CellsFrom(s, first) == {c \in Cells(Range(s)) : \E k \in first..Len(s) : c \in Cell(s[k])}

LEMMA CellsOfArray ==
    ASSUME NEW s \in Seq(SectionType), NEW first \in Nat \ {0}, NEW c
    PROVE  /\ c \in Cells(Range(s)) <=> \E k \in 1..Len(s) : c \in Cell(s[k])
           /\ c \in CellsFrom(s, first) <=> \E k \in first..Len(s) : c \in Cell(s[k])
  <1>1. c \in Cells(Range(s)) <=> \E k \in 1..Len(s) : c \in Cell(s[k])
    <2>1. DOMAIN s = 1..Len(s)
      OBVIOUS
    <2> QED BY <2>1 DEF Cells, Range
  <1>2. \A k \in first..Len(s) : k \in 1..Len(s)
    OBVIOUS
  <1> QED BY <1>1, <1>2 DEF CellsFrom

EndsFit(s) == \A k \in 1..Len(s) : End(s[k]) < WordSize

\* While tidying, what was placed and what is left cover what was given.
CoverInv ==
    FitsWord =>
        /\ EndsFit(data)
        /\ Cells(Range(data)) = Cells(given)
        /\ pc = "merge" =>
            /\ EndsFit(section)
            /\ Cells(Range(section)) \union CellsFrom(data, next) = Cells(given)

\* The loop of section_array_tidy preserves what is covered.
LEMMA CoverCorrect == Spec => []CoverInv
<1>1. ASSUME Init PROVE CoverInv
  <2>1. data = <<>> /\ given = {} /\ pc = "idle"
    BY <1>1 DEF Init
  <2> QED BY <2>1 DEF CoverInv, EndsFit, Cells, Range
<1>2. ASSUME TypeInv, OrderInv, CoverInv, [Next]_vars PROVE CoverInv'
  <2>0. /\ data \in Seq(SectionType) /\ section \in Seq(SectionType)
        /\ next \in Nat \ {0}
        /\ data' \in Seq(SectionType) /\ section' \in Seq(SectionType)
        /\ next' \in Nat \ {0}
        /\ Loop /\ OrderInv /\ CoverInv
    <3>1. TypeInv'
      BY <1>2, TypeStep
    <3> QED BY <1>2, <3>1 DEF TypeInv, TypeOK
  <2> USE <2>0
  <2>1. ASSUME Add PROVE CoverInv'
    <3>1. PICK s \in SectionType :
            /\ data' = Append(data, s) /\ given' = given \union {s}
            /\ pc' \in {"idle", "dead"}
      BY <2>1, WithStringsType DEF Add, AddInPlace, AddGrow, Push
    <3>2. Range(data') = Range(data) \union {s}
      BY <3>1 DEF Range
    <3>3. Cells(Range(data')) = Cells(Range(data)) \union Cell(s)
      BY <3>2 DEF Cells
    <3>4. Cells(given') = Cells(given) \union Cell(s)
      BY <3>1 DEF Cells
    <3>5. ASSUME FitsWord' PROVE FitsWord /\ End(s) < WordSize
      BY <3>1, <3>5 DEF FitsWord
    <3>6. ASSUME FitsWord' PROVE EndsFit(data')
      BY <3>1, <3>5, <3>6 DEF CoverInv, EndsFit
    <3> QED BY <3>1, <3>3, <3>4, <3>5, <3>6 DEF CoverInv
  <2>2. ASSUME Reset \/ Delete PROVE CoverInv'
    <3>1. data' = <<>> /\ given' = {} /\ pc' = "idle"
      BY <2>2 DEF Reset, Delete
    <3> QED BY <3>1 DEF CoverInv, EndsFit, Cells, Range
  <2>3. ASSUME TidyStart PROVE CoverInv'
    <3>1. PICK r \in Sorts(data) : data' = [k \in 1..Len(data) |-> data[r[k]]]
      BY <2>3 DEF TidyStart
    <3>2. /\ Len(data') = Len(data) /\ Range(data') = Range(data)
          /\ \A k \in 1..Len(data) : r[k] \in 1..Len(data) /\ data'[k] = data[r[k]]
      BY <3>1, SortedArray
    <3>3. /\ section' = <<data'[1]>> /\ next' = 2 /\ pc' = "merge" /\ given' = given
          /\ Len(data) >= 1
      BY <2>3 DEF TidyStart
    <3>4. FitsWord' = FitsWord
      BY <3>3 DEF FitsWord
    <3>5. ASSUME FitsWord PROVE EndsFit(data') /\ EndsFit(section')
      BY <3>2, <3>3, <3>5 DEF CoverInv, EndsFit
    <3>6. ASSUME NEW c
          PROVE  c \in Cells(Range(section')) \union CellsFrom(data', next')
                   <=> c \in Cells(Range(data'))
      <4>1. c \in Cells(Range(section')) <=> c \in Cell(data'[1])
        <5>1. Len(section') = 1 /\ section'[1] = data'[1]
          BY <3>3
        <5>2. c \in Cells(Range(section')) <=> \E k \in 1..Len(section') : c \in Cell(section'[k])
          BY CellsOfArray
        <5> QED BY <5>1, <5>2
      <4>2. c \in CellsFrom(data', next') <=> \E k \in 2..Len(data) : c \in Cell(data'[k])
        BY <3>2, <3>3, CellsOfArray
      <4>3. c \in Cells(Range(data')) <=> \E k \in 1..Len(data) : c \in Cell(data'[k])
        BY <3>2, CellsOfArray
      <4> QED BY <3>3, <4>1, <4>2, <4>3
    <3>7. Cells(Range(section')) \union CellsFrom(data', next') = Cells(Range(data'))
      BY <3>6
    <3> QED BY <3>2, <3>3, <3>4, <3>5, <3>7 DEF CoverInv
  <2>4. ASSUME TidyOutOfMemory PROVE CoverInv'
    <3>1. data' = data /\ given' = given /\ pc' = "dead"
      BY <2>4 DEF TidyOutOfMemory
    <3> QED BY <3>1 DEF CoverInv, FitsWord
  <2>5. ASSUME TidyMerge PROVE CoverInv'
    <3> DEFINE last == Len(section)
               a    == section[last]
               b    == data[next]
               m    == Merge(a, b)
    <3>1. /\ last \in 1..Len(section) /\ next \in 1..Len(data)
          /\ a \in SectionType /\ b \in SectionType
          /\ pc = "merge" /\ pc' = "merge" /\ next' = next + 1 /\ data' = data
          /\ section' = [section EXCEPT ![last] = m]
          /\ Overlap(a, b) = 1 /\ given' = given
      BY <2>5 DEF TidyMerge, Loop
    <3>2. Precedes(a, b)
      BY <3>1 DEF OrderInv
    <3>3. FitsWord' = FitsWord
      BY <3>1 DEF FitsWord
    <3> SUFFICES ASSUME FitsWord PROVE CoverInv'
      BY <3>3 DEF CoverInv
    <3>4. End(a) < WordSize /\ End(b) < WordSize
      BY <3>1 DEF CoverInv, EndsFit
    <3>5. End(m) < WordSize /\ Cell(m) = Cell(a) \union Cell(b)
      BY <3>1, <3>2, <3>4, MergeCells
    <3> HIDE DEF m
    <3>6. /\ Len(section') = last /\ section'[last] = m
          /\ \A k \in 1..last : k # last => section'[k] = section[k]
      BY <3>1
    <3>7. EndsFit(section')
      BY <3>1, <3>5, <3>6 DEF CoverInv, EndsFit
    <3>8. ASSUME NEW c
          PROVE  c \in Cells(Range(section')) \union CellsFrom(data', next')
                   <=> c \in Cells(Range(section)) \union CellsFrom(data, next)
      <4>1. c \in Cells(Range(section')) <=> c \in Cells(Range(section)) \/ c \in Cell(b)
        <5>1. c \in Cells(Range(section)) <=> \E k \in 1..last : c \in Cell(section[k])
          BY CellsOfArray
        <5>2. c \in Cells(Range(section')) <=> \E k \in 1..last : c \in Cell(section'[k])
          BY <3>6, CellsOfArray
        <5> QED BY <3>1, <3>5, <3>6, <5>1, <5>2
      <4>2. c \in CellsFrom(data, next) <=> c \in CellsFrom(data', next') \/ c \in Cell(b)
        BY <3>1, CellsOfArray
      <4> QED BY <4>1, <4>2
    <3>9. Cells(Range(section')) \union CellsFrom(data', next') = Cells(given)
      BY <3>1, <3>8 DEF CoverInv
    <3> QED BY <3>1, <3>7, <3>9 DEF CoverInv
  <2>6. ASSUME TidyKeep PROVE CoverInv'
    <3> DEFINE b == data[next]
    <3>1. /\ next \in 1..Len(data) /\ b \in SectionType
          /\ pc = "merge" /\ pc' = "merge" /\ next' = next + 1 /\ data' = data
          /\ section' = Append(section, b) /\ given' = given
      BY <2>6 DEF TidyKeep
    <3>2. /\ Len(section') = Len(section) + 1 /\ section'[Len(section) + 1] = b
          /\ \A k \in 1..Len(section) : section'[k] = section[k]
      BY <3>1
    <3>3. FitsWord' = FitsWord
      BY <3>1 DEF FitsWord
    <3> SUFFICES ASSUME FitsWord PROVE CoverInv'
      BY <3>3 DEF CoverInv
    <3>4. EndsFit(section')
      BY <3>1, <3>2 DEF CoverInv, EndsFit
    <3>5. ASSUME NEW c
          PROVE  c \in Cells(Range(section')) \union CellsFrom(data', next')
                   <=> c \in Cells(Range(section)) \union CellsFrom(data, next)
      <4>1. c \in Cells(Range(section')) <=> c \in Cells(Range(section)) \/ c \in Cell(b)
        <5>1. c \in Cells(Range(section))
                <=> \E k \in 1..Len(section) : c \in Cell(section[k])
          BY CellsOfArray
        <5>2. c \in Cells(Range(section'))
                <=> \E k \in 1..(Len(section) + 1) : c \in Cell(section'[k])
          BY <3>2, CellsOfArray
        <5>3. \A k \in 1..(Len(section) + 1) : k \in 1..Len(section) \/ k = Len(section) + 1
          OBVIOUS
        <5>4. /\ Len(section) + 1 \in 1..(Len(section) + 1)
              /\ \A k \in 1..Len(section) : k \in 1..(Len(section) + 1)
          OBVIOUS
        <5> QED BY <3>2, <5>1, <5>2, <5>3, <5>4
      <4>2. c \in CellsFrom(data, next) <=> c \in CellsFrom(data', next') \/ c \in Cell(b)
        BY <3>1, CellsOfArray
      <4> QED BY <4>1, <4>2
    <3>6. Cells(Range(section')) \union CellsFrom(data', next') = Cells(given)
      BY <3>1, <3>5 DEF CoverInv
    <3> QED BY <3>1, <3>4, <3>6 DEF CoverInv
  <2>7. ASSUME TidyDone PROVE CoverInv'
    <3>1. /\ data' = section /\ pc = "merge" /\ pc' = "idle" /\ next > Len(data)
          /\ given' = given
      BY <2>7 DEF TidyDone
    <3>2. CellsFrom(data, next) = {}
      BY <3>1, CellsOfArray DEF CellsFrom
    <3>3. FitsWord' = FitsWord
      BY <3>1 DEF FitsWord
    <3> QED BY <3>1, <3>2, <3>3 DEF CoverInv
  <2>8. ASSUME UNCHANGED vars PROVE CoverInv'
    <3>1. /\ data' = data /\ section' = section /\ next' = next /\ pc' = pc
          /\ given' = given
      BY <2>8 DEF vars
    <3> QED BY <3>1 DEF CoverInv, FitsWord
  <2> QED BY <1>2, <2>1, <2>2, <2>3, <2>4, <2>5, <2>6, <2>7, <2>8 DEF Next, Tidy
<1> QED BY <1>1, <1>2, TypeInvCorrect, OrderCorrect, PTL DEF Spec

\* As long as no section reaches the end of the address space, tidying
\* neither loses nor invents bytes.
THEOREM CoverageKeptCorrect == Spec => []CoverageKept
<1>1. CoverInv => CoverageKept
  BY DEF CoverInv, CoverageKept
<1> QED BY <1>1, CoverCorrect, PTL

-----------------------------------------------------------------------------
(* Sections of one kind are kept apart.                                    *)

\* The given sections of different kinds keep out of each other.
NoClash == \A a, b \in given : ~Clash(a, b)

Together(a, b) == SameKind(a, b) /\ a.page = b.page

Apart(a, b) == Together(a, b) => End(a) < b.logical

\* A given section starts where s does.
StartsAt(s, g) == Together(s, g) /\ g.logical = s.logical

Starts(s) == \A k \in 1..Len(s) : \E g \in given : StartsAt(s[k], g)

\* A section, merged or not, starts where a given section of its kind does.
StartInv == Starts(data) /\ (pc = "merge" => Starts(section))

LEMMA StartCorrect == Spec => []StartInv
<1>1. ASSUME Init PROVE StartInv
  BY <1>1 DEF Init, StartInv, Starts
<1>2. ASSUME TypeInv, OrderInv, StartInv, [Next]_vars PROVE StartInv'
  <2>0. /\ data \in Seq(SectionType) /\ section \in Seq(SectionType)
        /\ next \in Nat \ {0}
        /\ Loop /\ OrderInv /\ StartInv
    BY <1>2 DEF TypeInv, TypeOK
  <2> USE <2>0
  <2>1. ASSUME Add PROVE StartInv'
    <3>1. PICK s \in SectionType :
            /\ data' = Append(data, s) /\ given' = given \union {s}
            /\ pc' \in {"idle", "dead"}
      BY <2>1, WithStringsType DEF Add, AddInPlace, AddGrow, Push
    <3>2. /\ Len(data') = Len(data) + 1 /\ data'[Len(data) + 1] = s
          /\ \A k \in 1..Len(data) : data'[k] = data[k]
      BY <3>1
    <3>3. StartsAt(s, s)
      BY DEF StartsAt, Together, SameKind
    <3>4. ASSUME NEW k \in 1..Len(data') PROVE \E g \in given' : StartsAt(data'[k], g)
      <4>1. CASE k \in 1..Len(data)
        BY <3>1, <3>2, <4>1 DEF StartInv, Starts
      <4>2. CASE k = Len(data) + 1
        BY <3>1, <3>2, <3>3, <4>2
      <4> QED BY <3>2, <4>1, <4>2
    <3> QED BY <3>1, <3>4 DEF StartInv, Starts
  <2>2. ASSUME Reset \/ Delete PROVE StartInv'
    <3>1. data' = <<>> /\ pc' = "idle"
      BY <2>2 DEF Reset, Delete
    <3> QED BY <3>1 DEF StartInv, Starts
  <2>3. ASSUME TidyStart PROVE StartInv'
    <3>1. PICK r \in Sorts(data) : data' = [k \in 1..Len(data) |-> data[r[k]]]
      BY <2>3 DEF TidyStart
    <3>2. /\ Len(data') = Len(data)
          /\ \A k \in 1..Len(data) : r[k] \in 1..Len(data) /\ data'[k] = data[r[k]]
      BY <3>1, SortedArray
    <3>3. /\ Len(section') = 1 /\ section'[1] = data'[1] /\ given' = given
          /\ 1 \in 1..Len(data)
      BY <2>3 DEF TidyStart
    <3>4. \A k \in 1..Len(data) : \E g \in given : StartsAt(data'[k], g)
      BY <3>2 DEF StartInv, Starts
    <3> QED BY <3>2, <3>3, <3>4 DEF StartInv, Starts
  <2>4. ASSUME TidyOutOfMemory PROVE StartInv'
    BY <2>4 DEF TidyOutOfMemory, StartInv, Starts
  <2>5. ASSUME TidyMerge PROVE StartInv'
    <3> DEFINE last == Len(section)
               a    == section[last]
               m    == Merge(a, data[next])
    <3>1. /\ last \in 1..Len(section) /\ a \in SectionType
          /\ next \in 1..Len(data) /\ data[next] \in SectionType
          /\ pc = "merge" /\ data' = data /\ given' = given
          /\ section' = [section EXCEPT ![last] = m]
          /\ Overlap(a, data[next]) = 1
      BY <2>5 DEF TidyMerge, Loop
    <3>2. Precedes(a, data[next])
      BY <3>1 DEF OrderInv
    <3>3. m.logical = a.logical /\ m.page = a.page /\ Kind(m) = Kind(a)
      BY <3>1, <3>2, MergeOrder, MergeType DEF Kind
    <3>4. \A g : StartsAt(a, g) => StartsAt(m, g)
      BY <3>3 DEF StartsAt, Together, SameKind
    <3> HIDE DEF m
    <3>5. /\ Len(section') = last /\ section'[last] = m
          /\ \A k \in 1..last : k # last => section'[k] = section[k]
      BY <3>1
    <3>6. \A k \in 1..last : \E g \in given : StartsAt(section'[k], g)
      BY <3>1, <3>4, <3>5 DEF StartInv, Starts
    <3> QED BY <3>1, <3>5, <3>6 DEF StartInv, Starts
  <2>6. ASSUME TidyKeep PROVE StartInv'
    <3>1. /\ next \in 1..Len(data) /\ data[next] \in SectionType
          /\ pc = "merge" /\ data' = data /\ given' = given
          /\ section' = Append(section, data[next])
      BY <2>6 DEF TidyKeep, Loop
    <3>2. /\ Len(section') = Len(section) + 1
          /\ section'[Len(section) + 1] = data[next]
          /\ \A k \in 1..Len(section) : section'[k] = section[k]
      BY <3>1
    <3>3. \A k \in 1..(Len(section) + 1) : \E g \in given : StartsAt(section'[k], g)
      <4>1. \A k \in 1..(Len(section) + 1) : k \in 1..Len(section) \/ k = Len(section) + 1
        OBVIOUS
      <4> QED BY <3>1, <3>2, <4>1 DEF StartInv, Starts
    <3> QED BY <3>1, <3>2, <3>3 DEF StartInv, Starts
  <2>7. ASSUME TidyDone PROVE StartInv'
    BY <2>7 DEF TidyDone, StartInv, Starts
  <2>8. ASSUME UNCHANGED vars PROVE StartInv'
    BY <2>8 DEF vars, StartInv, Starts
  <2> QED BY <1>2, <2>1, <2>2, <2>3, <2>4, <2>5, <2>6, <2>7, <2>8 DEF Next, Tidy
<1> QED BY <1>1, <1>2, TypeInvCorrect, OrderCorrect, PTL DEF Spec

\* Once a section b that is not merged follows a, no later section c of the
\* kind of a touches a: either b is of that kind and starts behind a, or b
\* starts inside or at the end of a, and clashes with a or with c.
LEMMA KeptApart ==
    ASSUME NEW a \in SectionType, NEW b \in SectionType, NEW c \in SectionType,
           Precedes(a, b), Precedes(b, c), Overlap(a, b) # 1, Together(a, c),
           Cell(a) \subseteq Cells(given), NoClash,
           NEW g \in given, StartsAt(b, g),
           NEW h \in given, StartsAt(c, h)
    PROVE  End(a) < c.logical
  <1>1. /\ a.page = b.page /\ b.page = c.page
        /\ a.logical <= b.logical /\ b.logical <= c.logical
        /\ {a.logical, b.logical, c.logical} \subseteq Nat
        /\ End(a) \in Int
    BY DEF Together, Precedes, SectionType, End
  <1>2. CASE SameKind(a, b)
    <2>1. a.type = b.type /\ (a.type = "data" => a.dtype = b.dtype)
      BY <1>2 DEF SameKind, Kind
    <2>2. ~(b.logical <= End(a))
      BY <1>1, <2>1 DEF Overlap, OverlapInOrder
    <2> QED BY <1>1, <2>2
  <1>3. CASE ~SameKind(a, b)
    <2>1. End(a) <= b.logical
      <3> SUFFICES ASSUME b.logical < End(a) PROVE FALSE
        BY <1>1
      <3>1. b.logical \in Bytes(a)
        BY <1>1 DEF Bytes
      <3>2. <<Kind(a), a.page, b.logical>> \in Cells(given)
        BY <3>1 DEF Cell
      <3>3. PICK f \in given : <<Kind(a), a.page, b.logical>> \in Cell(f)
        BY <3>2 DEF Cells
      <3>4. Kind(f) = Kind(a) /\ f.page = a.page /\ b.logical \in Bytes(f)
        BY <3>3 DEF Cell
      <3>5. Clash(g, f)
        BY <1>1, <1>3, <3>4 DEF Clash, StartsAt, Together, SameKind
      <3> QED BY <3>5 DEF NoClash
    <2>2. b.logical # c.logical
      <3> SUFFICES ASSUME b.logical = c.logical PROVE FALSE
        OBVIOUS
      <3>1. Clash(g, h)
        BY <1>1, <1>3 DEF Clash, StartsAt, Together, SameKind
      <3> QED BY <3>1 DEF NoClash
    <2> QED BY <1>1, <2>1, <2>2
  <1> QED BY <1>2, <1>3

AllApart(s) == \A j, k \in 1..Len(s) : j < k => Apart(s[j], s[k])

\* While tidying, the placed sections are apart from each other and, the last
\* one left out, from what is left.
ApartInv ==
    FitsWord /\ NoClash =>
        /\ tidied /\ pc = "idle" => AllApart(data)
        /\ pc = "merge" =>
            /\ AllApart(section)
            /\ \A j \in 1..(Len(section) - 1), k \in next..Len(data) :
                    Apart(section[j], data[k])

LEMMA ApartCorrect == Spec => []ApartInv
<1>1. ASSUME Init PROVE ApartInv
  BY <1>1 DEF Init, ApartInv
<1>2. ASSUME TypeInv, OrderInv, CoverInv, StartInv, ApartInv, [Next]_vars PROVE ApartInv'
  <2>0. /\ data \in Seq(SectionType) /\ section \in Seq(SectionType)
        /\ next \in Nat \ {0}
        /\ Loop /\ OrderInv /\ CoverInv /\ StartInv /\ ApartInv
    BY <1>2 DEF TypeInv, TypeOK
  <2> USE <2>0
  <2>1. ASSUME Add \/ Reset \/ Delete PROVE ApartInv'
    <3>1. tidied' = FALSE /\ pc' \in {"idle", "dead"}
      BY <2>1 DEF Add, AddInPlace, AddGrow, Push, Reset, Delete
    <3> QED BY <3>1 DEF ApartInv
  <2>2. ASSUME TidyStart PROVE ApartInv'
    <3>1. Len(section') = 1 /\ pc' = "merge"
      BY <2>2 DEF TidyStart
    <3> QED BY <3>1 DEF ApartInv, AllApart
  <2>3. ASSUME TidyOutOfMemory PROVE ApartInv'
    <3>1. pc' = "dead"
      BY <2>3 DEF TidyOutOfMemory
    <3> QED BY <3>1 DEF ApartInv
  <2>4. ASSUME TidyMerge PROVE ApartInv'
    <3> DEFINE last == Len(section)
               a    == section[last]
               m    == Merge(a, data[next])
    <3>1. /\ last \in 1..Len(section) /\ a \in SectionType
          /\ next \in 1..Len(data) /\ data[next] \in SectionType
          /\ pc = "merge" /\ pc' = "merge" /\ next' = next + 1
          /\ data' = data /\ given' = given
          /\ section' = [section EXCEPT ![last] = m]
          /\ Overlap(a, data[next]) = 1
      BY <2>4 DEF TidyMerge, Loop
    <3>2. Precedes(a, data[next])
      BY <3>1 DEF OrderInv
    <3>3. m.logical = a.logical /\ m.page = a.page /\ Kind(m) = Kind(a)
      BY <3>1, <3>2, MergeOrder, MergeType DEF Kind
    <3>4. \A s : Apart(s, a) => Apart(s, m)
      BY <3>3 DEF Apart, Together, SameKind
    <3> HIDE DEF m
    <3>5. /\ Len(section') = last /\ section'[last] = m
          /\ \A k \in 1..last : k # last => section'[k] = section[k]
      BY <3>1
    <3>6. (FitsWord /\ NoClash)' = (FitsWord /\ NoClash)
      BY <3>1 DEF FitsWord, NoClash
    <3> SUFFICES ASSUME FitsWord, NoClash PROVE ApartInv'
      BY <3>6 DEF ApartInv
    <3>7. AllApart(section')
      <4>1. AllApart(section)
        BY <3>1 DEF ApartInv
      <4>2. ASSUME NEW j \in 1..last, NEW k \in 1..last, j < k
            PROVE  Apart(section'[j], section'[k])
        <5>1. section'[j] = section[j] /\ Apart(section[j], section[k])
          <6>1. j # last
            BY <3>1, <4>2
          <6>2. Apart(section[j], section[k])
            BY <4>1, <4>2 DEF AllApart
          <6> HIDE DEF last, a
          <6> QED BY <3>5, <6>1, <6>2
        <5>2. CASE k = last
          BY <3>4, <3>5, <5>1, <5>2
        <5>3. CASE k # last
          BY <3>5, <5>1, <5>3
        <5> QED BY <5>2, <5>3
      <4> HIDE DEF last
      <4> QED BY <3>5, <4>2 DEF AllApart
    <3>8. \A j \in 1..(last - 1), k \in (next + 1)..Len(data) : Apart(section'[j], data[k])
      <4>1. \A j \in 1..(last - 1), k \in next..Len(data) : Apart(section[j], data[k])
        BY <3>1 DEF ApartInv
      <4>2. \A j \in 1..(last - 1) : j \in 1..last /\ j # last
        BY <3>1
      <4>3. \A k \in (next + 1)..Len(data) : k \in next..Len(data)
        BY <3>1
      <4> HIDE DEF last, a
      <4> QED BY <3>5, <4>1, <4>2, <4>3
    <3> QED BY <3>1, <3>5, <3>7, <3>8 DEF ApartInv
  <2>5. ASSUME TidyKeep PROVE ApartInv'
    <3> DEFINE last == Len(section)
               a    == section[last]
               b    == data[next]
    <3>1. /\ last \in 1..Len(section) /\ a \in SectionType
          /\ next \in 1..Len(data) /\ b \in SectionType
          /\ pc = "merge" /\ pc' = "merge" /\ next' = next + 1
          /\ data' = data /\ given' = given
          /\ section' = Append(section, b)
          /\ Overlap(a, b) # 1
      BY <2>5 DEF TidyKeep, Loop
    <3>2. /\ Len(section') = last + 1 /\ section'[last + 1] = b
          /\ \A k \in 1..last : section'[k] = section[k]
      BY <3>1
    <3>3. (FitsWord /\ NoClash)' = (FitsWord /\ NoClash)
      BY <3>1 DEF FitsWord, NoClash
    <3> SUFFICES ASSUME FitsWord, NoClash PROVE ApartInv'
      BY <3>3 DEF ApartInv
    <3>4. Cell(a) \subseteq Cells(given)
      <4>1. \A c : c \in Cell(a) => c \in Cells(Range(section))
        BY <3>1, CellsOfArray
      <4> QED BY <3>1, <4>1 DEF CoverInv
    <3>5. PICK g \in given : StartsAt(b, g)
      BY <3>1 DEF StartInv, Starts
    <3>6. Precedes(a, b)
      BY <3>1 DEF OrderInv
    <3>7. ASSUME NEW k \in next..Len(data) PROVE Apart(a, data[k])
      <4>1. k \in 1..Len(data) /\ data[k] \in SectionType
        BY <3>1
      <4>2. PICK h \in given : StartsAt(data[k], h)
        BY <4>1 DEF StartInv, Starts
      <4>3. Precedes(b, data[k])
        <5>1. CASE k = next
          <6>1. b.logical \in Int /\ data[k] = b
            BY <3>1, <5>1 DEF SectionType
          <6> QED BY <6>1 DEF Precedes
        <5>2. CASE k # next
          BY <3>1, <4>1, <5>2 DEF OrderInv, Ordered
        <5> QED BY <5>1, <5>2
      <4>4. Together(a, data[k]) => End(a) < data[k].logical
        BY <3>1, <3>4, <3>5, <3>6, <4>1, <4>2, <4>3, KeptApart
      <4> QED BY <4>4 DEF Apart
    <3>8. \A j \in 1..last, k \in next..Len(data) : Apart(section[j], data[k])
      <4>1. \A j \in 1..(last - 1), k \in next..Len(data) : Apart(section[j], data[k])
        BY <3>1 DEF ApartInv
      <4>2. \A j \in 1..last : j \in 1..(last - 1) \/ j = last
        BY <3>1
      <4> QED BY <3>7, <4>1, <4>2
    <3> HIDE DEF a, b
    <3>9. AllApart(section')
      <4>1. \A j \in 1..last : Apart(section[j], b)
        BY <3>1, <3>8 DEF b
      <4>2. AllApart(section)
        BY <3>1 DEF ApartInv
      <4> QED BY <3>1, <3>2, <4>1, <4>2 DEF AllApart
    <3>10. \A j \in 1..last, k \in (next + 1)..Len(data) : Apart(section'[j], data[k])
      BY <3>1, <3>2, <3>8
    <3> QED BY <3>1, <3>2, <3>9, <3>10 DEF ApartInv
  <2>6. ASSUME TidyDone PROVE ApartInv'
    <3>1. data' = section /\ given' = given /\ pc = "merge" /\ pc' = "idle"
      BY <2>6 DEF TidyDone
    <3> QED BY <3>1 DEF ApartInv, AllApart, FitsWord, NoClash
  <2>7. ASSUME UNCHANGED vars PROVE ApartInv'
    <3>1. /\ data' = data /\ section' = section /\ next' = next /\ pc' = pc
          /\ given' = given /\ (tidied' <=> tidied)
      BY <2>7 DEF vars
    <3> QED BY <3>1 DEF ApartInv, AllApart, FitsWord, NoClash
  <2> QED BY <1>2, <2>1, <2>2, <2>3, <2>4, <2>5, <2>6, <2>7 DEF Next, Tidy
<1> QED BY <1>1, <1>2, TypeInvCorrect, OrderCorrect, CoverCorrect, StartCorrect, PTL DEF Spec

\* When section_array_tidy has returned, sections of one kind on a page are
\* separated by a gap, unless sections of different kinds clash or one reaches
\* the end of the address space.
THEOREM TidyCanonicalCorrect == Spec => [](pc = "idle" => TidyCanonical)
<1>1. ASSUME TypeInv, ApartInv, pc = "idle" PROVE TidyCanonical
  <2>1. DOMAIN data = 1..Len(data)
    BY <1>1 DEF TypeInv, TypeOK
  <2> QED BY <1>1, <2>1 DEF TidyCanonical, ApartInv, AllApart, Apart, Together, NoClash
<1> QED BY <1>1, TypeInvCorrect, ApartCorrect, PTL

-----------------------------------------------------------------------------
(* The neighbours of a tidied array, whatever was given.                   *)

\* No section would be merged with the one behind it.
Unmerged(s) == \A k \in 1..(Len(s) - 1) : Overlap(s[k], s[k + 1]) # 1

NeighbourInv ==
    /\ tidied /\ pc = "idle" => Unmerged(data)
    /\ pc = "merge" => Unmerged(section)

\* Whether b is merged into a section before it depends on where b starts.
LEMMA OverlapByStart ==
    ASSUME NEW a \in SectionType, NEW b \in SectionType, NEW c \in SectionType,
           Precedes(a, b), b.page = c.page, b.logical = c.logical, Kind(b) = Kind(c)
    PROVE  Overlap(a, c) = Overlap(a, b)
  <1>1. b.type = c.type /\ (b.type = "data" => b.dtype = c.dtype)
    BY DEF Kind
  <1>2. a.page = b.page => ~(a.logical > b.logical) /\ ~(a.logical > c.logical)
    BY DEF Precedes, SectionType
  <1>3. OverlapInOrder(a, c) = OverlapInOrder(a, b)
    BY <1>1 DEF OverlapInOrder
  <1> QED BY <1>2, <1>3 DEF Overlap

LEMMA NeighbourCorrect == Spec => []NeighbourInv
<1>1. ASSUME Init PROVE NeighbourInv
  BY <1>1 DEF Init, NeighbourInv
<1>2. ASSUME TypeInv, OrderInv, NeighbourInv, [Next]_vars PROVE NeighbourInv'
  <2>0. /\ data \in Seq(SectionType) /\ section \in Seq(SectionType)
        /\ next \in Nat \ {0}
        /\ Loop /\ OrderInv /\ NeighbourInv
    BY <1>2 DEF TypeInv, TypeOK
  <2> USE <2>0
  <2>1. ASSUME Add \/ Reset \/ Delete PROVE NeighbourInv'
    <3>1. tidied' = FALSE /\ pc' \in {"idle", "dead"}
      BY <2>1 DEF Add, AddInPlace, AddGrow, Push, Reset, Delete
    <3> QED BY <3>1 DEF NeighbourInv
  <2>2. ASSUME TidyStart PROVE NeighbourInv'
    <3>1. Len(section') = 1 /\ pc' = "merge"
      BY <2>2 DEF TidyStart
    <3> QED BY <3>1 DEF NeighbourInv, Unmerged
  <2>3. ASSUME TidyOutOfMemory PROVE NeighbourInv'
    <3>1. pc' = "dead"
      BY <2>3 DEF TidyOutOfMemory
    <3> QED BY <3>1 DEF NeighbourInv
  <2>4. ASSUME TidyMerge PROVE NeighbourInv'
    <3> DEFINE last == Len(section)
               a    == section[last]
               m    == Merge(a, data[next])
    <3>1. /\ last \in 1..Len(section) /\ a \in SectionType
          /\ next \in 1..Len(data) /\ data[next] \in SectionType
          /\ pc = "merge" /\ pc' = "merge"
          /\ section' = [section EXCEPT ![last] = m]
          /\ Overlap(a, data[next]) = 1
      BY <2>4 DEF TidyMerge, Loop
    <3>2. Precedes(a, data[next])
      BY <3>1 DEF OrderInv
    <3>3. m.logical = a.logical /\ m.page = a.page /\ Kind(m) = Kind(a) /\ m \in SectionType
      BY <3>1, <3>2, MergeOrder, MergeType DEF Kind
    <3> HIDE DEF m
    <3>4. /\ Len(section') = last /\ section'[last] = m
          /\ \A k \in 1..last : k # last => section'[k] = section[k]
      BY <3>1
    <3>5. ASSUME NEW k \in 1..(last - 1)
          PROVE  Overlap(section'[k], section'[k + 1]) # 1
      <4>1. k \in 1..last /\ k + 1 \in 1..last /\ k # last /\ section[k] \in SectionType
        BY <3>1
      <4>2. section'[k] = section[k] /\ Overlap(section[k], section[k + 1]) # 1
        BY <3>1, <3>4, <4>1 DEF NeighbourInv, Unmerged
      <4>3. CASE k + 1 = last
        <5>1. Precedes(section[k], a)
          BY <3>1, <4>1, <4>3 DEF OrderInv, Ordered
        <5>2. Overlap(section[k], m) = Overlap(section[k], a)
          BY <3>1, <3>3, <4>1, <5>1, OverlapByStart
        <5> QED BY <3>4, <4>2, <4>3, <5>2
      <4>4. CASE k + 1 # last
        BY <3>4, <4>1, <4>2, <4>4
      <4> QED BY <4>3, <4>4
    <3> HIDE DEF last
    <3> QED BY <3>1, <3>4, <3>5 DEF NeighbourInv, Unmerged
  <2>5. ASSUME TidyKeep PROVE NeighbourInv'
    <3>1. /\ Len(section) \in 1..Len(section)
          /\ pc = "merge" /\ pc' = "merge"
          /\ section' = Append(section, data[next])
          /\ Overlap(section[Len(section)], data[next]) # 1
      BY <2>5 DEF TidyKeep, Loop
    <3>2. /\ Len(section') = Len(section) + 1
          /\ section'[Len(section) + 1] = data[next]
          /\ \A k \in 1..Len(section) : section'[k] = section[k]
      BY <3>1
    <3>3. ASSUME NEW k \in 1..Len(section)
          PROVE  Overlap(section'[k], section'[k + 1]) # 1
      <4>1. CASE k = Len(section)
        BY <3>1, <3>2, <4>1
      <4>2. CASE k # Len(section)
        <5>1. k \in 1..(Len(section) - 1) /\ k + 1 \in 1..Len(section)
          BY <4>2
        <5> QED BY <3>1, <3>2, <5>1 DEF NeighbourInv, Unmerged
      <4> QED BY <4>1, <4>2
    <3> QED BY <3>1, <3>2, <3>3 DEF NeighbourInv, Unmerged
  <2>6. ASSUME TidyDone PROVE NeighbourInv'
    BY <2>6 DEF TidyDone, NeighbourInv, Unmerged
  <2>7. ASSUME UNCHANGED vars PROVE NeighbourInv'
    BY <2>7 DEF vars, NeighbourInv, Unmerged
  <2> QED BY <1>2, <2>1, <2>2, <2>3, <2>4, <2>5, <2>6, <2>7 DEF Next, Tidy
<1> QED BY <1>1, <1>2, TypeInvCorrect, OrderCorrect, PTL DEF Spec

\* When section_array_tidy has returned, a section comes before the next one
\* and would not be merged with it by another tidy, whatever was given: two
\* code sections of a page do not even touch.  CodeExtract assumes this of the
\* arrays disassemble is given.
THEOREM NeighboursApart ==
    Spec => [](tidied /\ pc = "idle" =>
                   \A k \in 1..(Len(data) - 1) :
                       /\ Precedes(data[k], data[k + 1])
                       /\ Overlap(data[k], data[k + 1]) # 1)
<1> DEFINE P == tidied /\ pc = "idle" =>
                   \A k \in 1..(Len(data) - 1) :
                       /\ Precedes(data[k], data[k + 1])
                       /\ Overlap(data[k], data[k + 1]) # 1
<1>1. TypeInv /\ OrderInv /\ NeighbourInv => P
  <2> SUFFICES ASSUME TypeInv, OrderInv, NeighbourInv, tidied, pc = "idle",
                      NEW k \in 1..(Len(data) - 1)
               PROVE  /\ Precedes(data[k], data[k + 1])
                      /\ Overlap(data[k], data[k + 1]) # 1
    OBVIOUS
  <2>1. k \in 1..Len(data) /\ k + 1 \in 1..Len(data) /\ k < k + 1
    BY DEF TypeInv, TypeOK
  <2> QED BY <2>1 DEF OrderInv, Ordered, NeighbourInv, Unmerged
<1> HIDE DEF P
<1>2. Spec => []P
  BY <1>1, TypeInvCorrect, OrderCorrect, NeighbourCorrect, PTL
<1> QED BY <1>2 DEF P

-----------------------------------------------------------------------------
(* The program's use of the array.                                         *)

\* The program makes calls the interface allows.
LEMMA ProgramImplementsSpec == ProgramSpec => Spec
<1>1. [ProgramNext]_vars => [Next]_vars
  BY DEF ProgramNext, Next
<1> QED BY <1>1, PTL DEF ProgramSpec, Spec

\* Until the array is tidied its block is as large as its capacity says;
\* afterwards it is as large as its contents.
RoomInv ==
    /\ Len(data) <= alloc
    /\ Len(data) <= capacity
    /\ pc = "merge" => Len(section) < next
    /\ ~tidied /\ pc # "dead" => capacity <= alloc

\* The program never writes past the block of the array.
THEOREM NoOverrunCorrect == ProgramSpec => []NoOverrun
<1>1. ASSUME Init PROVE RoomInv
  BY <1>1 DEF Init, RoomInv
<1>2. ASSUME TypeInv, TypeInv', RoomInv, [ProgramNext]_vars PROVE RoomInv'
  <2>0. /\ data \in Seq(SectionType) /\ section \in Seq(SectionType)
        /\ next \in Nat \ {0} /\ capacity \in Nat /\ alloc \in Nat
        /\ Loop /\ RoomInv
    BY <1>2 DEF TypeInv, TypeOK
  <2> USE <2>0
  <2>1. ASSUME ~tidied, Add PROVE RoomInv'
    <3>1. PICK s :
            /\ data' = Append(data, s)
            /\ pc = "idle" /\ pc' # "merge"
            /\ \/ Len(data) < capacity /\ capacity' = capacity /\ alloc' = alloc
               \/ /\ Len(data) >= capacity
                  /\ capacity' = capacity + Increment /\ alloc' = capacity + Increment
      BY <2>1 DEF Add, AddInPlace, AddGrow, Push
    <3>2. Len(data') = Len(data) + 1
      BY <3>1
    <3>3. Len(data') <= capacity' /\ capacity' <= alloc' /\ alloc' \in Nat /\ capacity' \in Nat
      BY <2>1, <3>1, <3>2, IncrementAssumption DEF RoomInv
    <3> QED BY <3>1, <3>2, <3>3 DEF RoomInv
  <2>2. ASSUME ~tidied, Reset PROVE RoomInv'
    <3>1. data' = <<>> /\ pc' = "idle" /\ capacity' <= alloc' /\ alloc' = alloc /\ capacity' = capacity
      BY <2>2 DEF Reset, RoomInv
    <3> QED BY <3>1 DEF RoomInv
  <2>3. ASSUME Delete PROVE RoomInv'
    <3>1. data' = <<>> /\ pc' = "idle" /\ capacity' = 0 /\ alloc' = 0
      BY <2>3 DEF Delete
    <3> QED BY <3>1 DEF RoomInv
  <2>4. ASSUME TidyStart PROVE RoomInv'
    <3>1. PICK r \in Sorts(data) : data' = [k \in 1..Len(data) |-> data[r[k]]]
      BY <2>4 DEF TidyStart
    <3>2. Len(data') = Len(data)
      BY <3>1, SortedArray
    <3>3. /\ Len(section') = 1 /\ next' = 2 /\ pc = "idle" /\ pc' = "merge"
          /\ capacity' = capacity /\ alloc' = alloc /\ (tidied' <=> tidied)
      BY <2>4 DEF TidyStart
    <3> QED BY <3>2, <3>3 DEF RoomInv
  <2>5. ASSUME TidyOutOfMemory PROVE RoomInv'
    BY <2>5 DEF TidyOutOfMemory, RoomInv
  <2>6. ASSUME TidyMerge \/ TidyKeep PROVE RoomInv'
    <3>1. /\ data' = data /\ capacity' = capacity /\ alloc' = alloc
          /\ (tidied' <=> tidied) /\ pc = "merge" /\ pc' = "merge" /\ next' = next + 1
      BY <2>6 DEF TidyMerge, TidyKeep
    <3>2. Len(section') <= Len(section) + 1
      <4>1. CASE TidyMerge
        BY <4>1 DEF TidyMerge
      <4>2. CASE TidyKeep
        <5>1. data[next] \in SectionType
          BY <4>2 DEF TidyKeep
        <5> QED BY <4>2, <5>1 DEF TidyKeep
      <4> QED BY <2>6, <4>1, <4>2
    <3>3. Len(section') < next'
      BY <3>1, <3>2 DEF RoomInv
    <3> QED BY <3>1, <3>3 DEF RoomInv
  <2>7. ASSUME TidyDone PROVE RoomInv'
    <3>1. /\ data' = section /\ alloc' = Len(data) /\ tidied' /\ pc' = "idle"
          /\ next > Len(data) /\ pc = "merge" /\ capacity' = capacity
      BY <2>7 DEF TidyDone
    <3>2. Len(section) < next /\ next <= Len(data) + 1 /\ Len(data) <= capacity
      BY <3>1 DEF RoomInv, Loop
    <3>3. Len(data') <= alloc' /\ Len(data') <= capacity'
      BY <3>1, <3>2
    <3> QED BY <3>1, <3>3 DEF RoomInv
  <2>8. ASSUME UNCHANGED vars PROVE RoomInv'
    BY <2>8 DEF vars, RoomInv
  <2> QED BY <1>2, <2>1, <2>2, <2>3, <2>4, <2>5, <2>6, <2>7, <2>8 DEF ProgramNext, Tidy
<1>3. RoomInv => NoOverrun
  BY DEF RoomInv, NoOverrun
<1> QED BY <1>1, <1>2, <1>3, TypeInvCorrect, ProgramImplementsSpec, PTL DEF ProgramSpec
=============================================================================
