----------------------- MODULE LabelRepositoryProofs ------------------------
(***************************************************************************)
(* Proofs about LabelRepository, for every set of addresses, texts and     *)
(* heap blocks: types, uniqueness of addresses, ownership of the strings,  *)
(* and that the repository implements AddressMap.                          *)
(***************************************************************************)
EXTENDS LabelRepository, TLAPS

-----------------------------------------------------------------------------
(* Lemmas.                                                                 *)

\* strdup either returns the null pointer and leaves the heap alone, or
\* returns a new block that holds the text.
LEMMA StrdupResult ==
    ASSUME NEW h, DOMAIN h \subseteq Pointers, NEW text, NEW c \in Strdup(h, text)
    PROVE  \/ /\ c.ptr = Null
              /\ c.heap = h
           \/ /\ text # Null
              /\ c.ptr \in Pointers
              /\ c.ptr # Null
              /\ c.ptr \notin DOMAIN h
              /\ DOMAIN c.heap = DOMAIN h \union {c.ptr}
              /\ c.heap[c.ptr] = text
              /\ \A q \in DOMAIN h : c.heap[q] = h[q]
  <1>1. CASE c = [ptr |-> Null, heap |-> h]
    BY <1>1
  <1>2. ASSUME NEW p \in {r \in Pointers \ DOMAIN h : text # Null},
               c = [ptr |-> p, heap |-> [q \in DOMAIN h \union {p} |->
                                           IF q = p THEN text ELSE h[q]]]
        PROVE  /\ text # Null
               /\ c.ptr \in Pointers
               /\ c.ptr # Null
               /\ c.ptr \notin DOMAIN h
               /\ DOMAIN c.heap = DOMAIN h \union {c.ptr}
               /\ c.heap[c.ptr] = text
               /\ \A q \in DOMAIN h : c.heap[q] = h[q]
    <2>1. c.ptr = p /\ c.heap = [q \in DOMAIN h \union {p} |-> IF q = p THEN text ELSE h[q]]
      BY <1>2
    <2>2. p \in Pointers /\ p \notin DOMAIN h /\ p # Null /\ text # Null
      BY <1>2, NullAssumption
    <2> QED BY <2>1, <2>2
  <1> QED BY <1>1, <1>2 DEF Strdup

\* An index that is not the last one.
LEMMA Below ==
    ASSUME NEW n \in Nat, NEW m \in 1..n, m # n
    PROVE  m \in 1..(n - 1)
  OBVIOUS

\* What is left of an array when its element i is replaced by the last one:
\* the other elements, each once.
LEMMA SwapOut ==
    ASSUME NEW s \in Seq(Label), NEW m \in 1..Len(s), NEW t,
           t = [k \in 1..(Len(s) - 1) |-> IF k = m THEN s[Len(s)] ELSE s[k]]
    PROVE  /\ t \in Seq(Label)
           /\ Len(t) = Len(s) - 1
           /\ \A k \in 1..Len(t) :
                /\ k # m => t[k] = s[k] /\ k \in 1..Len(s)
                /\ k = m => t[k] = s[Len(s)] /\ Len(s) # m /\ Len(s) \in 1..Len(s)
           /\ \A k \in 1..Len(s) : k # m => k \in 1..Len(t) \/ (k = Len(s) /\ m \in 1..Len(t))
  <1>1. \A k \in 1..Len(s) : s[k] \in Label
    OBVIOUS
  <1>2. Len(s) \in Nat /\ Len(s) - 1 \in Nat /\ m \in Int
    OBVIOUS
  <1>3. t \in [1..(Len(s) - 1) -> Label]
    BY <1>1, <1>2
  <1>4. t \in Seq(Label) /\ Len(t) = Len(s) - 1
    BY <1>2, <1>3
  <1>5. \A k \in 1..(Len(s) - 1) : t[k] = IF k = m THEN s[Len(s)] ELSE s[k]
    OBVIOUS
  <1> SUFFICES ASSUME NEW n \in Nat, n = Len(s)
               PROVE  /\ \A k \in 1..(n - 1) :
                           /\ k # m => t[k] = s[k] /\ k \in 1..n
                           /\ k = m => t[k] = s[n] /\ n # m /\ n \in 1..n
                      /\ \A k \in 1..n : k # m => k \in 1..(n - 1) \/ (k = n /\ m \in 1..(n - 1))
    BY <1>2, <1>4
  <1>6. \A k \in 1..(n - 1) : t[k] = IF k = m THEN s[n] ELSE s[k]
    BY <1>5
  <1>7. m \in 1..n
    OBVIOUS
  <1> HIDE DEF Label
  <1>8. ASSUME NEW k \in 1..(n - 1)
        PROVE  /\ k # m => t[k] = s[k] /\ k \in 1..n
               /\ k = m => t[k] = s[n] /\ n # m /\ n \in 1..n
    <2>1. t[k] = IF k = m THEN s[n] ELSE s[k]
      BY <1>6
    <2>2. k \in 1..n /\ k # n /\ n \in 1..n
      BY <1>7
    <2> QED BY <2>1, <2>2
  <1>9. ASSUME NEW k \in 1..n, k # m
        PROVE  k \in 1..(n - 1) \/ (k = n /\ m \in 1..(n - 1))
    <2>1. CASE k = n
      <3>1. m # n /\ n \in 1..n
        BY <1>9, <2>1
      <3>2. m \in 1..(n - 1)
        BY <1>7, <3>1, Below
      <3> QED BY <2>1, <3>2
    <2>2. CASE k # n
      BY <2>2
    <2> QED BY <2>1, <2>2
  <1> QED BY <1>8, <1>9

-----------------------------------------------------------------------------
(* Types.                                                                  *)

\* Every step keeps the types.
LEMMA TypeStep ==
    ASSUME TypeOK, [Next]_vars
    PROVE  TypeOK'
  <1> USE DEF TypeOK
  <1>1. ASSUME Create PROVE TypeOK'
    BY <1>1, IncrementAssumption DEF Create
  <1>2. ASSUME Destroy PROVE TypeOK'
    BY <1>2 DEF Destroy, Release
  <1>3. ASSUME NEW logical \in Logicals, NEW page \in Pages, AddOutOfMemory(logical, page)
        PROVE  TypeOK'
    BY <1>3 DEF AddOutOfMemory, Release
  <1>4. ASSUME NEW logical \in Logicals, NEW page \in Pages,
               NEW name \in Texts, NEW description \in Texts \union {Null},
               AddExisting(name, logical, page, description)
        PROVE  TypeOK'
    <2>1. PICK k \in 1..Len(labels), c \in Strdup(heap, description) :
            /\ labels' = [labels EXCEPT ![k].description = c.ptr]
            /\ heap' = c.heap
            /\ UNCHANGED <<size, pc, i, range>>
      BY <1>4 DEF AddExisting
    <2>2. /\ c.ptr \in Pointers \union {Null}
          /\ DOMAIN heap' \subseteq Pointers
          /\ \A p \in DOMAIN heap' : heap'[p] \in Texts
      BY <2>1, StrdupResult
    <2>3. [labels[k] EXCEPT !.description = c.ptr] \in Label
      <3>1. labels[k] \in Label
        OBVIOUS
      <3> QED BY <2>2, <3>1 DEF Label
    <2>4. labels' \in Seq(Label)
      BY <2>1, <2>3
    <2> QED BY <2>1, <2>2, <2>4
  <1>5. ASSUME NEW logical \in Logicals, NEW page \in Pages,
               NEW name \in Texts, NEW description \in Texts \union {Null},
               Push(name, logical, page, description), size' \in Nat
        PROVE  TypeOK'
    <2>1. PICK c \in Strdup(heap, name) : \E d \in Strdup(c.heap, description) :
            /\ labels' = Append(labels, [logical |-> logical, page |-> page,
                                         name |-> c.ptr, description |-> d.ptr])
            /\ heap' = d.heap
      BY <1>5 DEF Push
    <2>2. PICK d \in Strdup(c.heap, description) :
            /\ labels' = Append(labels, [logical |-> logical, page |-> page,
                                         name |-> c.ptr, description |-> d.ptr])
            /\ heap' = d.heap
      BY <2>1
    <2>3. /\ c.ptr \in Pointers \union {Null}
          /\ DOMAIN c.heap \subseteq Pointers
          /\ \A p \in DOMAIN c.heap : c.heap[p] \in Texts
      BY StrdupResult
    <2>4. /\ d.ptr \in Pointers \union {Null}
          /\ DOMAIN d.heap \subseteq Pointers
          /\ \A p \in DOMAIN d.heap : d.heap[p] \in Texts
      BY <2>3, StrdupResult
    <2>5. labels' \in Seq(Label)
      BY <2>2, <2>3, <2>4 DEF Label
    <2> QED BY <1>5, <2>2, <2>4, <2>5 DEF Push
  <1>6. ASSUME Add PROVE TypeOK'
    <2>1. PICK logical \in Logicals, page \in Pages :
            \/ AddOutOfMemory(logical, page)
            \/ \E name \in Texts, description \in Texts \union {Null} :
                \/ AddExisting(name, logical, page, description)
                \/ AddNew(name, logical, page, description)
                \/ AddGrow(name, logical, page, description)
      BY <1>6 DEF Add
    <2>2. CASE AddOutOfMemory(logical, page)
      BY <1>3, <2>2
    <2>3. ASSUME NEW name \in Texts, NEW description \in Texts \union {Null},
                 \/ AddExisting(name, logical, page, description)
                 \/ AddNew(name, logical, page, description)
                 \/ AddGrow(name, logical, page, description)
          PROVE  TypeOK'
      BY <1>4, <1>5, <2>3, IncrementAssumption DEF AddNew, AddGrow
    <2> QED BY <2>1, <2>2, <2>3
  <1>7. ASSUME DeleteStart PROVE TypeOK'
    BY <1>7 DEF DeleteStart
  <1>8. ASSUME DeleteOne PROVE TypeOK'
    <2>1. labels' \in Seq(Label)
      BY <1>8, SwapOut DEF DeleteOne
    <2>2. DOMAIN heap' \subseteq Pointers /\ \A p \in DOMAIN heap' : heap'[p] \in Texts
      BY <1>8 DEF DeleteOne, Free
    <2> QED BY <1>8, <2>1, <2>2 DEF DeleteOne
  <1>9. ASSUME DeleteSkip PROVE TypeOK'
    BY <1>9 DEF DeleteSkip
  <1>10. ASSUME DeleteDone PROVE TypeOK'
    BY <1>10 DEF DeleteDone
  <1>11. ASSUME UNCHANGED vars PROVE TypeOK'
    BY <1>11 DEF vars
  <1> QED BY <1>1, <1>2, <1>6, <1>7, <1>8, <1>9, <1>10, <1>11 DEF Next, Delete

\* The variables keep their types, whatever the operations and the failures.
THEOREM TypeCorrect == Spec => []TypeOK
<1>1. ASSUME Init PROVE TypeOK
  <2>1. labels = <<>> /\ DOMAIN heap = {} /\ size = 0 /\ pc = "idle" /\ i = 1 /\ range = NoRange
    BY <1>1 DEF Init
  <2> QED BY <2>1 DEF TypeOK
<1>2. TypeOK /\ [Next]_vars => TypeOK'
  BY TypeStep
<1> QED BY <1>1, <1>2, PTL DEF Spec

-----------------------------------------------------------------------------
(* What the operations do to the array and the heap, without the order in  *)
(* which they do it.                                                       *)

\* The heap keeps its strings and gains those of the blocks P.
Gains(P) ==
    /\ DOMAIN heap' = DOMAIN heap \union (P \ {Null})
    /\ \A q \in DOMAIN heap : heap'[q] = heap[q]
    /\ P \intersect DOMAIN heap = {}
    /\ P \subseteq Pointers \union {Null}

\* Label k takes the block p as its description.
Described(k, p, description) ==
    /\ Len(labels') = Len(labels)
    /\ labels'[k] = [labels[k] EXCEPT !.description = p]
    /\ \A j \in 1..Len(labels) : j # k => labels'[j] = labels[j]
    /\ Gains({p})
    /\ p # Null => heap'[p] = description

\* A label is appended, with the blocks p and q as its strings.
Pushed(logical, page, p, q, name, description) ==
    /\ Len(labels') = Len(labels) + 1
    /\ labels'[Len(labels) + 1] = [logical |-> logical, page |-> page,
                                   name |-> p, description |-> q]
    /\ \A j \in 1..Len(labels) : labels'[j] = labels[j]
    /\ Gains({p, q})
    /\ p # Null => p # q /\ heap'[p] = name
    /\ q # Null => heap'[q] = description

LEMMA DescribedResult ==
    ASSUME TypeOK, NEW logical \in Logicals, NEW page \in Pages,
           NEW name \in Texts, NEW description \in Texts \union {Null},
           AddExisting(name, logical, page, description)
    PROVE  \E k \in 1..Len(labels), p \in Pointers \union {Null} :
             /\ labels[k].page = page /\ labels[k].logical = logical
             /\ labels[k].description = Null
             /\ Described(k, p, description)
             /\ p # Null => description \in Texts
  <1>1. PICK k \in 1..Len(labels), c \in Strdup(heap, description) :
          /\ labels[k].page = page /\ labels[k].logical = logical
          /\ labels[k].description = Null
          /\ labels' = [labels EXCEPT ![k].description = c.ptr]
          /\ heap' = c.heap
    BY DEF AddExisting
  <1>2. labels \in Seq(Label) /\ DOMAIN heap \subseteq Pointers
    BY DEF TypeOK
  <1>3. \/ c.ptr = Null /\ c.heap = heap
        \/ /\ description # Null /\ c.ptr \in Pointers /\ c.ptr # Null
           /\ c.ptr \notin DOMAIN heap
           /\ DOMAIN c.heap = DOMAIN heap \union {c.ptr}
           /\ c.heap[c.ptr] = description
           /\ \A q \in DOMAIN heap : c.heap[q] = heap[q]
    BY <1>2, StrdupResult
  <1>4. Null \notin DOMAIN heap
    BY <1>2, NullAssumption
  <1>5. Gains({c.ptr}) /\ (c.ptr # Null => heap'[c.ptr] = description /\ description \in Texts)
    <2>1. CASE c.ptr = Null /\ c.heap = heap
      BY <1>1, <1>4, <2>1 DEF Gains
    <2>2. CASE c.ptr # Null
      BY <1>1, <1>3, <2>2 DEF Gains
    <2> QED BY <1>3, <2>1, <2>2
  <1>6. /\ Len(labels') = Len(labels)
        /\ labels'[k] = [labels[k] EXCEPT !.description = c.ptr]
        /\ \A j \in 1..Len(labels) : j # k => labels'[j] = labels[j]
    BY <1>1, <1>2
  <1>7. c.ptr \in Pointers \union {Null}
    BY <1>3
  <1> QED BY <1>1, <1>5, <1>6, <1>7 DEF Described

LEMMA PushedResult ==
    ASSUME TypeOK, NEW logical \in Logicals, NEW page \in Pages,
           NEW name \in Texts, NEW description \in Texts \union {Null},
           Push(name, logical, page, description)
    PROVE  \E p, q \in Pointers \union {Null} :
             /\ Pushed(logical, page, p, q, name, description)
             /\ q # Null => description \in Texts
  <1>1. PICK c \in Strdup(heap, name) : \E d \in Strdup(c.heap, description) :
          /\ labels' = Append(labels, [logical |-> logical, page |-> page,
                                       name |-> c.ptr, description |-> d.ptr])
          /\ heap' = d.heap
    BY DEF Push
  <1>2. PICK d \in Strdup(c.heap, description) :
          /\ labels' = Append(labels, [logical |-> logical, page |-> page,
                                       name |-> c.ptr, description |-> d.ptr])
          /\ heap' = d.heap
    BY <1>1
  <1>3. labels \in Seq(Label) /\ DOMAIN heap \subseteq Pointers /\ Null \notin DOMAIN heap
    BY NullAssumption DEF TypeOK
  <1>4. \/ c.ptr = Null /\ c.heap = heap
        \/ /\ c.ptr \in Pointers /\ c.ptr # Null
           /\ c.ptr \notin DOMAIN heap
           /\ DOMAIN c.heap = DOMAIN heap \union {c.ptr}
           /\ c.heap[c.ptr] = name
           /\ \A r \in DOMAIN heap : c.heap[r] = heap[r]
    BY <1>3, StrdupResult
  <1>5. DOMAIN c.heap \subseteq Pointers
    BY <1>3, <1>4
  <1>6. \/ d.ptr = Null /\ d.heap = c.heap
        \/ /\ description # Null /\ d.ptr \in Pointers /\ d.ptr # Null
           /\ d.ptr \notin DOMAIN c.heap
           /\ DOMAIN d.heap = DOMAIN c.heap \union {d.ptr}
           /\ d.heap[d.ptr] = description
           /\ \A r \in DOMAIN c.heap : d.heap[r] = c.heap[r]
    BY <1>5, StrdupResult
  <1>7. /\ Len(labels') = Len(labels) + 1
        /\ labels'[Len(labels) + 1] = [logical |-> logical, page |-> page,
                                       name |-> c.ptr, description |-> d.ptr]
        /\ \A j \in 1..Len(labels) : labels'[j] = labels[j]
    BY <1>2, <1>3
  <1>8. /\ Gains({c.ptr, d.ptr})
        /\ c.ptr # Null => c.ptr # d.ptr /\ heap'[c.ptr] = name
        /\ d.ptr # Null => heap'[d.ptr] = description /\ description \in Texts
    <2>1. CASE c.ptr = Null /\ c.heap = heap
      <3>1. CASE d.ptr = Null /\ d.heap = c.heap
        BY <1>2, <1>3, <2>1, <3>1 DEF Gains
      <3>2. CASE d.ptr # Null
        BY <1>2, <1>3, <1>6, <2>1, <3>2 DEF Gains
      <3> QED BY <1>6, <3>1, <3>2
    <2>2. CASE c.ptr # Null
      <3>1. CASE d.ptr = Null /\ d.heap = c.heap
        BY <1>2, <1>3, <1>4, <2>2, <3>1 DEF Gains
      <3>2. CASE d.ptr # Null
        BY <1>2, <1>3, <1>4, <1>6, <2>2, <3>2 DEF Gains
      <3> QED BY <1>6, <3>1, <3>2
    <2> QED BY <1>4, <2>1, <2>2
  <1>9. c.ptr \in Pointers \union {Null} /\ d.ptr \in Pointers \union {Null}
    BY <1>4, <1>6
  <1> QED BY <1>7, <1>8, <1>9 DEF Pushed

\* The array s without its element m.
TakenOut(s, m) == [k \in 1..(Len(s) - 1) |-> IF k = m THEN s[Len(s)] ELSE s[k]]

\* The array t holds the labels of s but the one at m, each once, and all but
\* the one at m where it was: from says where each label of t is in s.
Sources(from, s, m, t) ==
    /\ from \in [1..Len(t) -> 1..Len(s)]
    /\ \A k \in 1..Len(t) : t[k] = s[from[k]] /\ from[k] # m
    /\ \A j, k \in 1..Len(t) : j # k => from[j] # from[k]
    /\ \A k \in 1..Len(t) : k # m => from[k] = k
    /\ \A k \in 1..Len(s) : k # m => \E j \in 1..Len(t) : from[j] = k

\* label_repository_delete moves the last label, and no other.
LEMMA SwapOutSources ==
    ASSUME NEW s \in Seq(Label), NEW m \in 1..Len(s), NEW t, t = TakenOut(s, m)
    PROVE  \E from : Sources(from, s, m, t)
  <1> DEFINE from == [k \in 1..Len(t) |-> IF k = m THEN Len(s) ELSE k]
  <1>1. /\ Len(s) \in Nat
        /\ Len(t) = Len(s) - 1
        /\ \A k \in 1..Len(t) :
             /\ k # m => t[k] = s[k] /\ k \in 1..Len(s)
             /\ k = m => t[k] = s[Len(s)] /\ Len(s) # m /\ Len(s) \in 1..Len(s)
        /\ \A k \in 1..Len(s) : k # m => k \in 1..Len(t) \/ (k = Len(s) /\ m \in 1..Len(t))
    BY SwapOut DEF TakenOut
  <1>2. \A k \in 1..Len(t) : from[k] = IF k = m THEN Len(s) ELSE k
    OBVIOUS
  <1>3. \A k \in 1..Len(t) : k # Len(s)
    BY <1>1
  <1> HIDE DEF from, Label
  <1>4. from \in [1..Len(t) -> 1..Len(s)]
    BY <1>1 DEF from
  <1>5. \A k \in 1..Len(t) : t[k] = s[from[k]] /\ from[k] # m
    BY <1>1, <1>2
  <1>6. \A j, k \in 1..Len(t) : j # k => from[j] # from[k]
    BY <1>2, <1>3
  <1>7. \A k \in 1..Len(t) : k # m => from[k] = k
    BY <1>2
  <1>8. \A k \in 1..Len(s) : k # m => \E j \in 1..Len(t) : from[j] = k
    BY <1>1, <1>2
  <1> QED BY <1>4, <1>5, <1>6, <1>7, <1>8 DEF Sources

-----------------------------------------------------------------------------
(* The inductive invariant.                                                *)

\* Behind the counter of label_repository_delete no label of the range is left.
DeleteInv ==
    pc = "delete" => \A k \in 1..Len(labels) : k < i => ~Within(labels[k])

Inv == TypeOK /\ LabelsFit /\ AddressesUnique /\ StringsOwned /\ DeleteInv

\* An empty repository.
LEMMA EmptyStep ==
    ASSUME TypeOK', labels' = <<>>
    PROVE  LabelsFit' /\ AddressesUnique' /\ StringsOwned' /\ DeleteInv'
  BY DEF TypeOK, LabelsFit, AddressesUnique, StringsOwned, DeleteInv

LEMMA DescribedStep ==
    ASSUME Inv, TypeOK', NEW k \in 1..Len(labels), NEW p \in Pointers \union {Null},
           NEW description, labels[k].description = Null,
           Described(k, p, description), size' = size, pc' = "idle"
    PROVE  LabelsFit' /\ AddressesUnique' /\ StringsOwned' /\ DeleteInv'
  <1>1. \A j \in 1..Len(labels) : labels[j] \in Label
    BY DEF Inv, TypeOK
  <1>2. /\ labels'[k].page = labels[k].page
        /\ labels'[k].logical = labels[k].logical
        /\ labels'[k].name = labels[k].name
        /\ labels'[k].description = p
    BY <1>1 DEF Described, Label
  <1>3. \A j \in 1..Len(labels) :
          labels'[j].page = labels[j].page /\ labels'[j].logical = labels[j].logical
    BY <1>2 DEF Described
  <1>4. LabelsFit' /\ AddressesUnique' /\ DeleteInv'
    <2>1. LabelsFit' /\ DeleteInv'
      BY DEF Inv, LabelsFit, DeleteInv, Described
    <2>2. AddressesUnique'
      BY <1>3 DEF Inv, AddressesUnique, Described
    <2> QED BY <2>1, <2>2
  <1>5. p = Null \/ p \notin DOMAIN heap
    BY DEF Described, Gains
  <1>6. \A j \in 1..Len(labels) :
          /\ Strings(labels[j]) \subseteq DOMAIN heap
          /\ labels[j].name # Null => labels[j].name # labels[j].description
    BY DEF Inv, StringsOwned
  <1>7. \A j, m \in 1..Len(labels) : j # m => Strings(labels[j]) \intersect Strings(labels[m]) = {}
    BY DEF Inv, StringsOwned
  <1>8. Strings(labels'[k]) = Strings(labels[k]) \union ({p} \ {Null})
    BY <1>2 DEF Strings
  <1>9. \A j \in 1..Len(labels) : j # k => labels'[j] = labels[j]
    BY DEF Described
  <1>10. DOMAIN heap' = DOMAIN heap \union ({p} \ {Null}) /\ Len(labels') = Len(labels)
    BY DEF Described, Gains
  <1>11. ASSUME NEW j \in 1..Len(labels)
         PROVE  /\ Strings(labels'[j]) \subseteq DOMAIN heap'
                /\ labels'[j].name # Null => labels'[j].name # labels'[j].description
    <2>1. CASE j = k
      <3>1. labels[k].name # Null => labels[k].name \in DOMAIN heap
        BY <1>6 DEF Strings
      <3>2. Strings(labels'[k]) \subseteq DOMAIN heap'
        BY <1>6, <1>8, <1>10
      <3> QED BY <1>2, <1>5, <2>1, <3>1, <3>2
    <2>2. CASE j # k
      BY <1>6, <1>9, <1>10, <2>2
    <2> QED BY <2>1, <2>2
  <1>12. ASSUME NEW j \in 1..Len(labels), NEW m \in 1..Len(labels), j # m
         PROVE  Strings(labels'[j]) \intersect Strings(labels'[m]) = {}
    <2>1. CASE j = k
      <3>1. labels'[m] = labels[m] /\ Strings(labels[k]) \intersect Strings(labels[m]) = {}
        BY <1>7, <1>9, <1>12, <2>1
      <3> QED BY <1>5, <1>6, <1>8, <2>1, <3>1
    <2>2. CASE m = k
      <3>1. labels'[j] = labels[j] /\ Strings(labels[j]) \intersect Strings(labels[k]) = {}
        BY <1>7, <1>9, <1>12, <2>2
      <3> QED BY <1>5, <1>6, <1>8, <2>2, <3>1
    <2>3. CASE j # k /\ m # k
      BY <1>7, <1>9, <1>12, <2>3
    <2> QED BY <2>1, <2>2, <2>3
  <1>13. StringsOwned'
    BY <1>10, <1>11, <1>12 DEF StringsOwned, Strings
  <1> QED BY <1>4, <1>13

LEMMA PushedStep ==
    ASSUME Inv, TypeOK', NEW logical, NEW page, Absent(logical, page),
           NEW p, NEW q, NEW name, NEW description,
           Pushed(logical, page, p, q, name, description),
           Len(labels) < size', pc' = "idle"
    PROVE  LabelsFit' /\ AddressesUnique' /\ StringsOwned' /\ DeleteInv'
  <1> DEFINE n == Len(labels) + 1
  <1>1. Len(labels) \in Nat /\ Len(labels') = n /\ n \in Nat /\ n = Len(labels) + 1
    BY DEF Inv, TypeOK, Pushed
  <1> HIDE DEF n
  <1>2. /\ labels'[n].page = page /\ labels'[n].logical = logical
        /\ labels'[n].name = p /\ labels'[n].description = q
    BY <1>1 DEF Pushed
  <1>3. \A j \in 1..n : j # n => j \in 1..Len(labels) /\ labels'[j] = labels[j]
    BY <1>1 DEF Pushed
  <1>4. LabelsFit' /\ DeleteInv'
    BY <1>1 DEF LabelsFit, DeleteInv, TypeOK
  <1>5. AddressesUnique'
    <2>1. \A j \in 1..n : j # n =>
            ~(labels'[j].page = page /\ labels'[j].logical = logical)
      BY <1>3 DEF Absent
    <2>2. \A j, m \in 1..n : j # n /\ m # n /\ labels'[j].page = labels'[m].page
                                /\ labels'[j].logical = labels'[m].logical => j = m
      BY <1>3 DEF Inv, AddressesUnique
    <2> QED BY <1>1, <1>2, <2>1, <2>2 DEF AddressesUnique
  <1>6. \A j \in 1..Len(labels) :
          /\ Strings(labels[j]) \subseteq DOMAIN heap
          /\ labels[j].name # Null => labels[j].name # labels[j].description
    BY DEF Inv, StringsOwned
  <1>7. \A j, m \in 1..Len(labels) : j # m => Strings(labels[j]) \intersect Strings(labels[m]) = {}
    BY DEF Inv, StringsOwned
  <1>8. /\ DOMAIN heap' = DOMAIN heap \union ({p, q} \ {Null})
        /\ {p, q} \intersect DOMAIN heap = {}
        /\ p # Null => p # q
    BY DEF Pushed, Gains
  <1>9. Strings(labels'[n]) = {p, q} \ {Null}
    BY <1>2 DEF Strings
  <1>10. ASSUME NEW j \in 1..n
         PROVE  /\ Strings(labels'[j]) \subseteq DOMAIN heap'
                /\ labels'[j].name # Null => labels'[j].name # labels'[j].description
    <2>1. CASE j = n
      BY <1>2, <1>8, <1>9, <2>1
    <2>2. CASE j # n
      BY <1>3, <1>6, <1>8, <2>2
    <2> QED BY <2>1, <2>2
  <1>11. ASSUME NEW j \in 1..n, NEW m \in 1..n, j # m
         PROVE  Strings(labels'[j]) \intersect Strings(labels'[m]) = {}
    <2>1. CASE j = n
      <3>1. m \in 1..Len(labels) /\ labels'[m] = labels[m]
        BY <1>3, <1>11, <2>1
      <3> QED BY <1>6, <1>8, <1>9, <2>1, <3>1
    <2>2. CASE m = n
      <3>1. j \in 1..Len(labels) /\ labels'[j] = labels[j]
        BY <1>3, <1>11, <2>2
      <3> QED BY <1>6, <1>8, <1>9, <2>2, <3>1
    <2>3. CASE j # n /\ m # n
      BY <1>3, <1>7, <1>11, <2>3
    <2> QED BY <2>1, <2>2, <2>3
  <1>12. StringsOwned'
    BY <1>1, <1>10, <1>11 DEF StringsOwned, Strings
  <1> QED BY <1>4, <1>5, <1>12

\* What label_repository_delete leaves is still unique and still owned: the
\* strings it frees are those of the label it takes out.
LEMMA DeleteOneStep ==
    ASSUME Inv, TypeOK', DeleteOne
    PROVE  LabelsFit' /\ AddressesUnique' /\ StringsOwned' /\ DeleteInv'
  <1>1. labels \in Seq(Label) /\ i \in 1..Len(labels) /\ i \in Nat
    BY DEF Inv, TypeOK, DeleteOne
  <1>2. labels' = TakenOut(labels, i)
    BY DEF DeleteOne, TakenOut
  <1>0. PICK from : Sources(from, labels, i, labels')
    <2> HIDE DEF Label
    <2> QED BY <1>1, <1>2, SwapOutSources
  <1>3. /\ from \in [1..Len(labels') -> 1..Len(labels)]
        /\ \A k \in 1..Len(labels') : labels'[k] = labels[from[k]] /\ from[k] # i
        /\ \A j, k \in 1..Len(labels') : j # k => from[j] # from[k]
        /\ \A k \in 1..Len(labels') : k # i => from[k] = k
        /\ \A k \in 1..Len(labels) : k # i => \E j \in 1..Len(labels') : from[j] = k
    BY <1>0 DEF Sources
  <1>4. Len(labels') = Len(labels) - 1
    <2> HIDE DEF Label
    <2> QED BY <1>1, <1>2, SwapOut DEF TakenOut
  <1>5. DOMAIN heap' = DOMAIN heap \ {labels[i].name, labels[i].description}
    BY DEF DeleteOne, Free
  <1>6. i' = i /\ pc' = pc /\ pc = "delete" /\ size' = size /\ range' = range
    BY DEF DeleteOne
  <1>7. LabelsFit'
    BY <1>1, <1>4, <1>6 DEF Inv, LabelsFit, TypeOK
  <1>8. AddressesUnique'
    BY <1>3 DEF Inv, AddressesUnique
  <1>9. DeleteInv'
    <2>1. \A k \in 1..Len(labels') : k < i => from[k] = k /\ labels'[k] = labels[k] /\ k \in 1..Len(labels)
      BY <1>1, <1>3
    <2>2. \A k \in 1..Len(labels) : k < i => ~Within(labels[k])
      BY <1>6 DEF Inv, DeleteInv
    <2> QED BY <1>6, <2>1, <2>2 DEF DeleteInv, Within
  <1>10. \A j \in 1..Len(labels) :
           /\ Strings(labels[j]) \subseteq DOMAIN heap
           /\ labels[j].name # Null => labels[j].name # labels[j].description
           /\ \A k \in 1..Len(labels) : k # j => Strings(labels[j]) \intersect Strings(labels[k]) = {}
    BY DEF Inv, StringsOwned
  <1>11. ASSUME NEW j \in 1..Len(labels')
         PROVE  /\ Strings(labels'[j]) \subseteq DOMAIN heap'
                /\ labels'[j].name # Null => labels'[j].name # labels'[j].description
    <2>1. from[j] \in 1..Len(labels) /\ from[j] # i /\ labels'[j] = labels[from[j]]
      BY <1>3
    <2>2. Strings(labels[from[j]]) \intersect Strings(labels[i]) = {}
      BY <1>1, <1>10, <2>1
    <2>3. Null \notin Strings(labels[from[j]])
      BY DEF Strings
    <2>4. Strings(labels[i]) = {labels[i].name, labels[i].description} \ {Null}
      BY DEF Strings
    <2>5. Strings(labels[from[j]]) \subseteq DOMAIN heap
      BY <1>10, <2>1
    <2>6. Strings(labels[from[j]]) \subseteq DOMAIN heap'
      BY <1>5, <2>2, <2>3, <2>4, <2>5
    <2> QED BY <1>10, <2>1, <2>6
  <1>12. ASSUME NEW j \in 1..Len(labels'), NEW k \in 1..Len(labels'), j # k
         PROVE  Strings(labels'[j]) \intersect Strings(labels'[k]) = {}
    <2>1. from[j] \in 1..Len(labels) /\ from[k] \in 1..Len(labels) /\ from[j] # from[k]
      BY <1>3, <1>12
    <2>2. labels'[j] = labels[from[j]] /\ labels'[k] = labels[from[k]]
      BY <1>3
    <2> QED BY <1>10, <2>1, <2>2
  <1>13. StringsOwned'
    BY <1>11, <1>12 DEF StringsOwned, Strings
  <1> QED BY <1>7, <1>8, <1>9, <1>13

LEMMA InvStep ==
    ASSUME Inv, [Next]_vars
    PROVE  Inv'
  <1> DEFINE Rest == LabelsFit /\ AddressesUnique /\ StringsOwned /\ DeleteInv
  <1>1. TypeOK'
    BY TypeStep DEF Inv
  <1>2. labels' = <<>> => Rest'
    BY <1>1, EmptyStep
  <1> SUFFICES Rest'
    BY <1>1 DEF Inv
  <1>3. ASSUME labels' = labels, size' = size, heap' = heap, DeleteInv' PROVE Rest'
    <2>1. LabelsFit' /\ AddressesUnique'
      BY <1>3 DEF Inv, LabelsFit, AddressesUnique
    <2>2. StringsOwned'
      BY <1>3 DEF Inv, StringsOwned, Strings
    <2> QED BY <1>3, <2>1, <2>2
  <1> HIDE DEF Rest
  <1>4. ASSUME Create \/ Destroy PROVE Rest'
    BY <1>2, <1>4 DEF Create, Destroy, Release
  <1>5. ASSUME NEW logical \in Logicals, NEW page \in Pages,
               NEW name \in Texts, NEW description \in Texts \union {Null},
               AddExisting(name, logical, page, description), pc = "idle"
        PROVE  Rest'
    <2>1. TypeOK
      BY DEF Inv
    <2>2. PICK k \in 1..Len(labels), p \in Pointers \union {Null} :
            labels[k].description = Null /\ Described(k, p, description)
      BY <1>5, <2>1, DescribedResult
    <2>3. size' = size /\ pc' = "idle"
      BY <1>5 DEF AddExisting
    <2> QED BY <1>1, <2>2, <2>3, DescribedStep DEF Rest
  <1>6. ASSUME NEW logical \in Logicals, NEW page \in Pages,
               NEW name \in Texts, NEW description \in Texts \union {Null},
               AddNew(name, logical, page, description) \/ AddGrow(name, logical, page, description),
               pc = "idle"
        PROVE  Rest'
    <2>1. TypeOK
      BY DEF Inv
    <2>2. Push(name, logical, page, description) /\ Absent(logical, page)
      BY <1>6 DEF AddNew, AddGrow
    <2>3. PICK p, q \in Pointers \union {Null} : Pushed(logical, page, p, q, name, description)
      BY <2>1, <2>2, PushedResult
    <2>4. pc' = "idle"
      BY <1>6, <2>2 DEF Push
    <2>5. Len(labels) < size'
      <3>1. Len(labels) \in Nat /\ size \in Nat /\ Increment \in Nat /\ Increment > 0 /\ Len(labels) <= size
        BY IncrementAssumption DEF Inv, TypeOK, LabelsFit
      <3> QED BY <1>6, <3>1 DEF AddNew, AddGrow
    <2> QED BY <1>1, <2>2, <2>3, <2>4, <2>5, PushedStep DEF Rest
  <1>7. ASSUME Add PROVE Rest'
    <2>1. PICK logical \in Logicals, page \in Pages :
            \/ AddOutOfMemory(logical, page)
            \/ \E name \in Texts, description \in Texts \union {Null} :
                \/ AddExisting(name, logical, page, description)
                \/ AddNew(name, logical, page, description)
                \/ AddGrow(name, logical, page, description)
      BY <1>7 DEF Add
    <2>2. pc = "idle"
      BY <1>7 DEF Add
    <2>3. CASE AddOutOfMemory(logical, page)
      BY <1>2, <2>3 DEF AddOutOfMemory, Release
    <2>4. CASE \E name \in Texts, description \in Texts \union {Null} :
                 \/ AddExisting(name, logical, page, description)
                 \/ AddNew(name, logical, page, description)
                 \/ AddGrow(name, logical, page, description)
      BY <1>5, <1>6, <2>2, <2>4
    <2> QED BY <2>1, <2>3, <2>4
  <1>8. ASSUME DeleteStart PROVE Rest'
    <2>1. DeleteInv'
      BY <1>8 DEF DeleteStart, DeleteInv
    <2> QED BY <1>3, <1>8, <2>1 DEF DeleteStart
  <1>9. ASSUME DeleteOne PROVE Rest'
    BY <1>1, <1>9, DeleteOneStep DEF Rest
  <1>10. ASSUME DeleteSkip PROVE Rest'
    <2>1. i \in Nat /\ Len(labels) \in Nat
      BY DEF Inv, TypeOK
    <2>2. \A k \in 1..Len(labels) : k < i + 1 => k < i \/ k = i
      BY <2>1
    <2>3. DeleteInv'
      BY <1>10, <2>2 DEF Inv, DeleteSkip, DeleteInv, Within
    <2> QED BY <1>3, <1>10, <2>3 DEF DeleteSkip
  <1>11. ASSUME DeleteDone PROVE Rest'
    <2>1. DeleteInv'
      BY <1>11 DEF DeleteDone, DeleteInv
    <2> QED BY <1>3, <1>11, <2>1 DEF DeleteDone
  <1>12. ASSUME UNCHANGED vars PROVE Rest'
    <2>1. DeleteInv'
      BY <1>12 DEF Inv, vars, DeleteInv, Within
    <2> QED BY <1>3, <1>12, <2>1 DEF vars
  <1> QED BY <1>4, <1>7, <1>8, <1>9, <1>10, <1>11, <1>12 DEF Next, Delete

LEMMA InvCorrect == Spec => []Inv
<1>1. ASSUME Init PROVE Inv
  <2>1. labels = <<>> /\ DOMAIN heap = {} /\ size = 0 /\ pc = "idle" /\ i = 1 /\ range = NoRange
    BY <1>1 DEF Init
  <2>2. TypeOK
    BY <2>1 DEF TypeOK
  <2> QED BY <2>1, <2>2 DEF Inv, LabelsFit, AddressesUnique, StringsOwned, DeleteInv
<1>2. Inv /\ [Next]_vars => Inv'
  BY InvStep
<1> QED BY <1>1, <1>2, PTL DEF Spec

\* An address has at most one label, however adding and deleting interleave.
THEOREM AddressesUniqueCorrect == Spec => []AddressesUnique
<1>1. Inv => AddressesUnique
  BY DEF Inv
<1> QED BY <1>1, InvCorrect, PTL

\* The array never outgrows its block.
THEOREM LabelsFitCorrect == Spec => []LabelsFit
<1>1. Inv => LabelsFit
  BY DEF Inv
<1> QED BY <1>1, InvCorrect, PTL

\* Each string of a label is live and no other label's.
THEOREM StringsOwnedCorrect == Spec => []StringsOwned
<1>1. Inv => StringsOwned
  BY DEF Inv
<1> QED BY <1>1, InvCorrect, PTL

-----------------------------------------------------------------------------
(* Nothing is lost before the repository is destroyed.                     *)

\* The strings that no label refers to.
Lost == DOMAIN heap \ Owned

\* If every block that is live afterwards was live or is some label's, and no
\* label's string is dropped while live, nothing is lost.
LEMMA LostNothing ==
    ASSUME \A q \in DOMAIN heap' : q \in DOMAIN heap \/ q \in Owned',
           \A j \in 1..Len(labels) : \A q \in Strings(labels[j]) :
               q \in DOMAIN heap' => q \in Owned'
    PROVE  Lost' \subseteq Lost
  <1>1. \A q \in Owned : \E j \in 1..Len(labels) : q \in Strings(labels[j])
    BY DEF Owned
  <1> QED BY <1>1 DEF Lost

LEMMA OwnedAfter ==
    ASSUME NEW q
    PROVE  q \in Owned' <=> \E j \in 1..Len(labels') : q \in Strings(labels'[j])
  BY DEF Owned, Strings

LEMMA DescribedLoses ==
    ASSUME TypeOK, NEW k \in 1..Len(labels), NEW p, NEW description,
           labels[k].description = Null, Described(k, p, description)
    PROVE  Lost' \subseteq Lost
  <1>1. /\ Len(labels') = Len(labels) /\ labels[k] \in Label
        /\ labels'[k].name = labels[k].name /\ labels'[k].description = p
        /\ \A j \in 1..Len(labels) : j # k => labels'[j] = labels[j]
    <2>1. labels[k] \in Label
      BY DEF TypeOK
    <2>2. /\ labels'[k].name = labels[k].name
          /\ labels'[k].description = p
      BY <2>1 DEF Described, Label
    <2> QED BY <2>1, <2>2 DEF Described
  <1>2. DOMAIN heap' = DOMAIN heap \union ({p} \ {Null})
    BY DEF Described, Gains
  <1>3. \A j \in 1..Len(labels) : Strings(labels[j]) \subseteq Strings(labels'[j])
    BY <1>1 DEF Strings
  <1>4. p # Null => p \in Strings(labels'[k])
    BY <1>1 DEF Strings
  <1>5. \A q \in DOMAIN heap' : q \in DOMAIN heap \/ q \in Owned'
    BY <1>1, <1>2, <1>4, OwnedAfter
  <1>6. \A j \in 1..Len(labels) : \A q \in Strings(labels[j]) : q \in Owned'
    BY <1>1, <1>3, OwnedAfter
  <1> QED BY <1>5, <1>6, LostNothing

LEMMA PushedLoses ==
    ASSUME TypeOK, NEW logical, NEW page, NEW p, NEW q, NEW name, NEW description,
           Pushed(logical, page, p, q, name, description)
    PROVE  Lost' \subseteq Lost
  <1>0. PICK m : m = Len(labels) + 1
    OBVIOUS
  <1>1. /\ Len(labels) \in Nat /\ Len(labels') = m
        /\ labels'[m].name = p /\ labels'[m].description = q
        /\ \A j \in 1..Len(labels) : labels'[j] = labels[j]
    BY <1>0 DEF Pushed, TypeOK
  <1>2. m \in 1..m /\ \A j \in 1..Len(labels) : j \in 1..m
    BY <1>0, <1>1
  <1>3. DOMAIN heap' = DOMAIN heap \union ({p, q} \ {Null})
    BY DEF Pushed, Gains
  <1>4. {p, q} \ {Null} \subseteq Strings(labels'[m])
    BY <1>1 DEF Strings
  <1>5. \A r \in DOMAIN heap' : r \in DOMAIN heap \/ r \in Owned'
    BY <1>1, <1>2, <1>3, <1>4, OwnedAfter
  <1>6. \A j \in 1..Len(labels) : \A r \in Strings(labels[j]) : r \in Owned'
    BY <1>1, <1>2, OwnedAfter
  <1> QED BY <1>5, <1>6, LostNothing

LEMMA DeleteOneLoses ==
    ASSUME Inv, DeleteOne
    PROVE  Lost' \subseteq Lost
  <1>1. labels \in Seq(Label) /\ i \in 1..Len(labels)
    BY DEF Inv, TypeOK, DeleteOne
  <1>2. labels' = TakenOut(labels, i)
    BY DEF DeleteOne, TakenOut
  <1>3. PICK from : Sources(from, labels, i, labels')
    <2> HIDE DEF Label
    <2> QED BY <1>1, <1>2, SwapOutSources
  <1>4. DOMAIN heap' = DOMAIN heap \ {labels[i].name, labels[i].description}
    BY DEF DeleteOne, Free
  <1>5. ASSUME NEW j \in 1..Len(labels), NEW q \in Strings(labels[j]), q \in DOMAIN heap'
        PROVE  q \in Owned'
    <2>1. j # i
      BY <1>4, <1>5 DEF Strings
    <2>2. PICK k \in 1..Len(labels') : from[k] = j
      BY <1>3, <2>1 DEF Sources
    <2>3. labels'[k] = labels[j]
      BY <1>3, <2>2 DEF Sources
    <2> QED BY <2>3, OwnedAfter
  <1> QED BY <1>4, <1>5, LostNothing

LEMMA SameLoses ==
    ASSUME labels' = labels, heap' = heap
    PROVE  Lost' = Lost
  BY DEF Lost, Owned, Strings

\* Adding and deleting labels lose no string.
THEOREM OnlyDestroyLeaksCorrect == Spec => OnlyDestroyLeaks
<1>1. Inv /\ [Next]_vars =>
        [size' # 0 => (DOMAIN heap \ Owned)' \subseteq DOMAIN heap \ Owned]_vars
  <2> SUFFICES ASSUME Inv, [Next]_vars, size' # 0
               PROVE  Lost' \subseteq Lost
    BY DEF Lost
  <2>0. TypeOK /\ Len(labels) \in Nat
    BY DEF Inv, TypeOK
  <2>1. CASE Create
    <3>1. Len(labels) = 0 /\ labels' = <<>> /\ heap' = heap
      BY <2>0, <2>1 DEF Create, Inv, LabelsFit
    <3>2. labels = <<>>
      BY <2>0, <3>1 DEF TypeOK
    <3> QED BY <3>1, <3>2, SameLoses
  <2>2. CASE Destroy
    BY <2>2 DEF Destroy, Release
  <2>3. CASE Add
    <3>1. PICK logical \in Logicals, page \in Pages :
            \/ AddOutOfMemory(logical, page)
            \/ \E name \in Texts, description \in Texts \union {Null} :
                \/ AddExisting(name, logical, page, description)
                \/ AddNew(name, logical, page, description)
                \/ AddGrow(name, logical, page, description)
      BY <2>3 DEF Add
    <3>2. ~AddOutOfMemory(logical, page)
      BY DEF AddOutOfMemory, Release
    <3>3. PICK name \in Texts, description \in Texts \union {Null} :
            \/ AddExisting(name, logical, page, description)
            \/ AddNew(name, logical, page, description)
            \/ AddGrow(name, logical, page, description)
      BY <3>1, <3>2
    <3>4. CASE AddExisting(name, logical, page, description)
      <4>1. PICK k \in 1..Len(labels), p \in Pointers \union {Null} :
              labels[k].description = Null /\ Described(k, p, description)
        BY <2>0, <3>4, DescribedResult
      <4> QED BY <2>0, <4>1, DescribedLoses
    <3>5. CASE AddNew(name, logical, page, description) \/ AddGrow(name, logical, page, description)
      <4>1. Push(name, logical, page, description)
        BY <3>5 DEF AddNew, AddGrow
      <4>2. PICK p, q \in Pointers \union {Null} :
              Pushed(logical, page, p, q, name, description)
        BY <2>0, <4>1, PushedResult
      <4> QED BY <2>0, <4>2, PushedLoses
    <3> QED BY <3>3, <3>4, <3>5
  <2>4. CASE DeleteOne
    BY <2>4, DeleteOneLoses
  <2>5. CASE DeleteStart \/ DeleteSkip \/ DeleteDone
    BY <2>5, SameLoses DEF DeleteStart, DeleteSkip, DeleteDone
  <2>6. CASE UNCHANGED vars
    BY <2>6, SameLoses DEF vars
  <2> QED BY <2>1, <2>2, <2>3, <2>4, <2>5, <2>6 DEF Next, Delete
<1> QED BY <1>1, InvCorrect, PTL DEF Spec, OnlyDestroyLeaks

-----------------------------------------------------------------------------
(* The repository implements AddressMap.                                   *)

\* Label k and its entry.
At(k) == EntryOf(labels[k])

\* A label that keeps its strings keeps its entry.
LEMMA SameEntry ==
    ASSUME NEW j \in 1..Len(labels), NEW k \in 1..Len(labels'), labels'[k] = labels[j],
           \A q \in Strings(labels[j]) : heap'[q] = heap[q]
    PROVE  At(k)' = At(j)
  BY DEF At, EntryOf, Text, Strings

\* With no deletion under way, the entries are those of all labels.
LEMMA IdleEntries ==
    ASSUME pc = "idle"
    PROVE  Entries = {At(k) : k \in 1..Len(labels)}
  <1>1. \A k \in 1..Len(labels) : Kept(labels[k])
    BY DEF Kept
  <1> QED BY <1>1 DEF Entries, At

LEMMA IdleEntriesAfter ==
    ASSUME pc' = "idle"
    PROVE  Entries' = {At(k)' : k \in 1..Len(labels')}
  <1>1. \A k \in 1..Len(labels') : Kept(labels[k])'
    BY DEF Kept
  <1> QED BY <1>1 DEF Entries, At

\* The entry d takes the description.
Annotated(d, description) ==
    /\ d.note = Null
    /\ Entries' = (Entries \ {d}) \union {[d EXCEPT !.note = description]}

LEMMA DescribedEntries ==
    ASSUME Inv, NEW k \in 1..Len(labels), NEW p \in Pointers \union {Null},
           NEW description, labels[k].description = Null,
           Described(k, p, description), p # Null => description \in Texts,
           pc = "idle", pc' = "idle"
    PROVE  /\ At(k) \in Entries
           /\ \/ Entries' = Entries
              \/ description \in Texts /\ Annotated(At(k), description)
  <1>1. \A j \in 1..Len(labels) : labels[j] \in Label
    BY DEF Inv, TypeOK
  <1>2. \A j \in 1..Len(labels) : Strings(labels[j]) \subseteq DOMAIN heap
    BY DEF Inv, StringsOwned
  <1>3. ASSUME NEW j \in 1..Len(labels), j # k
        PROVE  At(j)' = At(j)
    <2>1. labels'[j] = labels[j] /\ j \in 1..Len(labels')
      BY <1>3 DEF Described
    <2>2. \A q \in Strings(labels[j]) : heap'[q] = heap[q]
      BY <1>2 DEF Described, Gains
    <2> QED BY <2>1, <2>2, SameEntry
  <1>4. /\ At(k) = [page |-> labels[k].page, logical |-> labels[k].logical,
                    text |-> Text(labels[k].name), note |-> Null]
        /\ At(k)' = [page |-> labels[k].page, logical |-> labels[k].logical,
                     text |-> Text(labels[k].name), note |-> IF p = Null THEN Null ELSE description]
    <2>1. /\ labels'[k].page = labels[k].page /\ labels'[k].logical = labels[k].logical
          /\ labels'[k].name = labels[k].name /\ labels'[k].description = p
      BY <1>1 DEF Described, Label
    <2>2. labels[k].name # Null => heap'[labels[k].name] = heap[labels[k].name]
      BY <1>2 DEF Strings, Described, Gains
    <2>3. p # Null => heap'[p] = description
      BY DEF Described
    <2>4. At(k) = [page |-> labels[k].page, logical |-> labels[k].logical,
                   text |-> Text(labels[k].name), note |-> Null]
      BY DEF At, EntryOf, Text
    <2>5. Text(labels[k].name)' = Text(labels[k].name)
      BY <2>1, <2>2 DEF Text
    <2>6. Text(labels[k].description)' = IF p = Null THEN Null ELSE description
      BY <2>1, <2>3 DEF Text
    <2>7. At(k)' = [page |-> labels[k].page, logical |-> labels[k].logical,
                    text |-> Text(labels[k].name), note |-> IF p = Null THEN Null ELSE description]
      BY <2>1, <2>5, <2>6 DEF At, EntryOf
    <2> QED BY <2>4, <2>7
  <1>5. Len(labels') = Len(labels)
    BY DEF Described
  <1>6. Entries = {At(j) : j \in 1..Len(labels)} /\ Entries' = {At(j)' : j \in 1..Len(labels)}
    BY <1>5, IdleEntries, IdleEntriesAfter
  <1>7. CASE p = Null
    <2>1. \A j \in 1..Len(labels) : At(j)' = At(j)
      BY <1>3, <1>4, <1>7
    <2> QED BY <1>6, <2>1
  <1>8. CASE p # Null
    <2>1. At(k)' = [At(k) EXCEPT !.note = description]
      BY <1>4, <1>8
    <2>2. \A j \in 1..Len(labels) : j # k => At(j) # At(k)
      <3>1. \A j \in 1..Len(labels) : At(j).page = labels[j].page /\ At(j).logical = labels[j].logical
        BY DEF At, EntryOf
      <3> QED BY <3>1 DEF Inv, AddressesUnique
    <2>3. Entries' = (Entries \ {At(k)}) \union {[At(k) EXCEPT !.note = description]}
      BY <1>3, <1>6, <2>1, <2>2
    <2>4. At(k) \in Entries /\ At(k).note = Null /\ description \in Texts
      BY <1>4, <1>6, <1>8
    <2> QED BY <2>3, <2>4 DEF Annotated
  <1> QED BY <1>7, <1>8

\* The entry of a label whose strings were copied to the blocks p and q.
Added(logical, page, p, q, name, description) ==
    [page |-> page, logical |-> logical,
     text |-> IF p = Null THEN Null ELSE name,
     note |-> IF q = Null THEN Null ELSE description]

LEMMA PushedEntries ==
    ASSUME Inv, NEW logical \in Logicals, NEW page \in Pages, Absent(logical, page),
           NEW p, NEW q, NEW name \in Texts, NEW description,
           Pushed(logical, page, p, q, name, description),
           q # Null => description \in Texts,
           pc = "idle", pc' = "idle"
    PROVE  /\ Abstract!Put
           /\ Entries' = Entries \union {Added(logical, page, p, q, name, description)}
  <1>0. PICK n : n = Len(labels) + 1
    OBVIOUS
  <1> DEFINE e == [page |-> page, logical |-> logical,
                   text |-> IF p = Null THEN Null ELSE name,
                   note |-> IF q = Null THEN Null ELSE description]
  <1>1. Len(labels) \in Nat /\ Len(labels') = n /\ n = Len(labels) + 1
    BY <1>0 DEF Inv, TypeOK, Pushed
  <1>2. At(n)' = e
    <2>1. /\ labels'[n].page = page /\ labels'[n].logical = logical
          /\ labels'[n].name = p /\ labels'[n].description = q
      BY <1>0 DEF Pushed
    <2>2. Text(labels[n].name)' = IF p = Null THEN Null ELSE name
      BY <2>1 DEF Text, Pushed
    <2>3. Text(labels[n].description)' = IF q = Null THEN Null ELSE description
      BY <2>1 DEF Text, Pushed
    <2> QED BY <2>1, <2>2, <2>3 DEF At, EntryOf
  <1>3. ASSUME NEW j \in 1..Len(labels)
        PROVE  At(j)' = At(j)
    <2>1. labels'[j] = labels[j] /\ j \in 1..Len(labels')
      BY <1>1 DEF Pushed
    <2>2. \A r \in Strings(labels[j]) : heap'[r] = heap[r]
      BY DEF Inv, StringsOwned, Pushed, Gains
    <2> QED BY <2>1, <2>2, SameEntry
  <1>4. \A j \in 1..n : j = n \/ j \in 1..Len(labels)
    BY <1>1
  <1>5. n \in 1..n /\ \A j \in 1..Len(labels) : j \in 1..n
    BY <1>1
  <1>6. Entries = {At(j) : j \in 1..Len(labels)} /\ Entries' = {At(j)' : j \in 1..n}
    BY <1>1, IdleEntries, IdleEntriesAfter
  <1>7. Entries' = Entries \union {e}
    BY <1>2, <1>3, <1>4, <1>5, <1>6
  <1>8. \A f \in Entries : ~Abstract!SameAddress(e, f)
    <2>1. \A j \in 1..Len(labels) : At(j).page = labels[j].page /\ At(j).logical = labels[j].logical
      BY DEF At, EntryOf
    <2> QED BY <1>6, <2>1 DEF Absent, Abstract!SameAddress
  <1>9. e \in Abstract!Entry
    BY DEF Abstract!Entry
  <1> QED BY <1>7, <1>8, <1>9 DEF Abstract!Put, Added

\* The call of label_repository_delete is where the range disappears.
LEMMA DeleteStartEntries ==
    ASSUME Inv, DeleteStart
    PROVE  Abstract!Delete
  <1>1. PICK first \in Bounds, end \in Bounds, page \in Pages :
          range' = [first |-> first, end |-> end, page |-> page]
    BY DEF DeleteStart
  <1>2. pc = "idle" /\ pc' = "delete" /\ labels' = labels /\ heap' = heap
    BY DEF DeleteStart
  <1>3. \A k \in 1..Len(labels) : At(k)' = At(k)
    BY <1>2 DEF At, EntryOf, Text
  <1>4. \A k \in 1..Len(labels) :
          Kept(labels[k])' <=> ~Abstract!Within(At(k), first, end, page)
    BY <1>1, <1>2 DEF Kept, Within, Abstract!Within, At, EntryOf
  <1>5. Entries = {At(k) : k \in 1..Len(labels)}
    BY <1>2, IdleEntries
  <1>6. Entries' = {At(k)' : k \in {j \in 1..Len(labels) : Kept(labels[j])'}}
    BY <1>2 DEF Entries, At
  <1>7. Entries' = {e \in Entries : ~Abstract!Within(e, first, end, page)}
    BY <1>3, <1>4, <1>5, <1>6
  <1> QED BY <1>7 DEF Abstract!Delete

\* Taking out one label of the range changes no entry.
LEMMA DeleteOneEntries ==
    ASSUME Inv, DeleteOne
    PROVE  Entries' = Entries
  <1>1. labels \in Seq(Label) /\ i \in 1..Len(labels) /\ i \in Nat
    BY DEF Inv, TypeOK, DeleteOne
  <1>2. labels' = TakenOut(labels, i)
    BY DEF DeleteOne, TakenOut
  <1>0. PICK from : Sources(from, labels, i, labels')
    <2> HIDE DEF Label
    <2> QED BY <1>1, <1>2, SwapOutSources
  <1>3. /\ from \in [1..Len(labels') -> 1..Len(labels)]
        /\ \A k \in 1..Len(labels') : labels'[k] = labels[from[k]] /\ from[k] # i
        /\ \A j, k \in 1..Len(labels') : j # k => from[j] # from[k]
        /\ \A k \in 1..Len(labels') : k # i => from[k] = k
        /\ \A k \in 1..Len(labels) : k # i => \E j \in 1..Len(labels') : from[j] = k
    BY <1>0 DEF Sources
  <1>4. pc = "delete" /\ pc' = "delete" /\ range' = range /\ Within(labels[i])
    BY DEF DeleteOne
  <1>5. \A k \in 1..Len(labels') : At(k)' = At(from[k])
    <2> SUFFICES ASSUME NEW k \in 1..Len(labels')
                 PROVE  At(k)' = At(from[k])
      OBVIOUS
    <2>1. from[k] \in 1..Len(labels) /\ from[k] # i /\ labels'[k] = labels[from[k]]
      BY <1>3
    <2>2. /\ Strings(labels[from[k]]) \intersect Strings(labels[i]) = {}
          /\ Strings(labels[from[k]]) \subseteq DOMAIN heap
      <3>1. \A j, m \in 1..Len(labels) : m # j =>
              /\ Strings(labels[j]) \subseteq DOMAIN heap
              /\ Strings(labels[j]) \intersect Strings(labels[m]) = {}
        BY DEF Inv, StringsOwned
      <3> QED BY <1>1, <2>1, <3>1
    <2>3. \A q \in Strings(labels[from[k]]) :
            q \in DOMAIN heap \ {labels[i].name, labels[i].description}
      BY <2>2 DEF Strings
    <2>4. \A q \in Strings(labels[from[k]]) : heap'[q] = heap[q]
      BY <2>3 DEF DeleteOne, Free
    <2> QED BY <2>1, <2>4, SameEntry
  <1>6. \A k \in 1..Len(labels') : Kept(labels[k])' <=> Kept(labels[from[k]])
    BY <1>3, <1>4 DEF Kept, Within
  <1>7. ~Kept(labels[i])
    BY <1>4 DEF Kept
  <1>8. Entries = {At(k) : k \in {j \in 1..Len(labels) : Kept(labels[j])}}
    BY DEF Entries, At
  <1>9. Entries' = {At(k)' : k \in {j \in 1..Len(labels') : Kept(labels[j])'}}
    BY DEF Entries, At
  <1>10. Entries' \subseteq Entries
    BY <1>3, <1>5, <1>6, <1>8, <1>9
  <1>11. Entries \subseteq Entries'
    BY <1>3, <1>5, <1>6, <1>7, <1>8, <1>9
  <1> QED BY <1>10, <1>11

\* The rest of the loop changes no entry: when the counter has passed the last
\* label no label of the range is left.
LEMMA DeleteRestEntries ==
    ASSUME Inv, DeleteSkip \/ DeleteDone \/ UNCHANGED vars
    PROVE  Entries' = Entries
  <1>1. labels' = labels /\ heap' = heap
    BY DEF DeleteSkip, DeleteDone, vars
  <1>2. \A k \in 1..Len(labels) : At(k)' = At(k)
    BY <1>1 DEF At, EntryOf, Text
  <1>3. \A k \in 1..Len(labels) : Kept(labels[k])' <=> Kept(labels[k])
    <2>1. CASE DeleteSkip \/ UNCHANGED vars
      BY <2>1 DEF DeleteSkip, vars, Kept, Within
    <2>2. CASE DeleteDone
      <3>1. \A k \in 1..Len(labels) : k < i
        BY <2>2 DEF Inv, TypeOK, DeleteDone
      <3>2. \A k \in 1..Len(labels) : ~Within(labels[k])
        BY <2>2, <3>1 DEF Inv, DeleteInv, DeleteDone
      <3> QED BY <1>1, <2>2, <3>2 DEF DeleteDone, Kept
    <2> QED BY <2>1, <2>2
  <1>4. Entries = {At(k) : k \in {j \in 1..Len(labels) : Kept(labels[j])}}
    BY DEF Entries, At
  <1>5. Entries' = {At(k)' : k \in {j \in 1..Len(labels') : Kept(labels[j])'}}
    BY DEF Entries, At
  <1> QED BY <1>1, <1>2, <1>3, <1>4, <1>5

\* Every step of the repository is one operation on the map, or none.
LEMMA StepRefines ==
    ASSUME Inv, [Next]_vars
    PROVE  Abstract!Next \/ Entries' = Entries
  <1>1. labels' = <<>> => Abstract!Clear
    BY DEF Entries, Abstract!Clear
  <1>2. ASSUME NEW logical \in Logicals, NEW page \in Pages,
               NEW name \in Texts, NEW description \in Texts \union {Null},
               AddExisting(name, logical, page, description), pc = "idle"
        PROVE  Abstract!Annotate \/ Entries' = Entries
    <2>1. TypeOK
      BY DEF Inv
    <2>2. PICK k \in 1..Len(labels), p \in Pointers \union {Null} :
            /\ labels[k].description = Null
            /\ Described(k, p, description)
            /\ p # Null => description \in Texts
      BY <1>2, <2>1, DescribedResult
    <2>3. pc' = "idle"
      BY <1>2 DEF AddExisting
    <2>4. /\ At(k) \in Entries
          /\ \/ Entries' = Entries
             \/ description \in Texts /\ Annotated(At(k), description)
      BY <1>2, <2>2, <2>3, DescribedEntries
    <2> QED BY <2>4 DEF Annotated, Abstract!Annotate
  <1>3. ASSUME NEW logical \in Logicals, NEW page \in Pages,
               NEW name \in Texts, NEW description \in Texts \union {Null},
               AddNew(name, logical, page, description) \/ AddGrow(name, logical, page, description),
               pc = "idle"
        PROVE  Abstract!Put
    <2>1. TypeOK
      BY DEF Inv
    <2>2. Push(name, logical, page, description) /\ Absent(logical, page)
      BY <1>3 DEF AddNew, AddGrow
    <2>3. PICK p, q \in Pointers \union {Null} :
            /\ Pushed(logical, page, p, q, name, description)
            /\ q # Null => description \in Texts
      BY <2>1, <2>2, PushedResult
    <2>4. pc' = "idle"
      BY <1>3, <2>2 DEF Push
    <2> QED BY <1>3, <2>2, <2>3, <2>4, PushedEntries
  <1>4. ASSUME Add PROVE Abstract!Next \/ Entries' = Entries
    <2>1. PICK logical \in Logicals, page \in Pages :
            \/ AddOutOfMemory(logical, page)
            \/ \E name \in Texts, description \in Texts \union {Null} :
                \/ AddExisting(name, logical, page, description)
                \/ AddNew(name, logical, page, description)
                \/ AddGrow(name, logical, page, description)
      BY <1>4 DEF Add
    <2>2. pc = "idle"
      BY <1>4 DEF Add
    <2>3. CASE AddOutOfMemory(logical, page)
      BY <1>1, <2>3 DEF AddOutOfMemory, Release, Abstract!Next
    <2>4. CASE \E name \in Texts, description \in Texts \union {Null} :
                 \/ AddExisting(name, logical, page, description)
                 \/ AddNew(name, logical, page, description)
                 \/ AddGrow(name, logical, page, description)
      <3>1. PICK name \in Texts, description \in Texts \union {Null} :
                 \/ AddExisting(name, logical, page, description)
                 \/ AddNew(name, logical, page, description)
                 \/ AddGrow(name, logical, page, description)
        BY <2>4
      <3> QED BY <1>2, <1>3, <2>2, <3>1 DEF Abstract!Next
    <2> QED BY <2>1, <2>3, <2>4
  <1>5. ASSUME Create \/ Destroy PROVE Abstract!Clear
    BY <1>1, <1>5 DEF Create, Destroy, Release
  <1> QED BY <1>4, <1>5, DeleteStartEntries, DeleteOneEntries, DeleteRestEntries
          DEF Next, Delete, Abstract!Next

\* The repository implements the map of addresses to texts: the array, the
\* heap and the loop of label_repository_delete are invisible.
THEOREM Refinement == Spec => ImplementsAddressMap
<1>1. ASSUME Init PROVE Abstract!Init
  <2>1. labels = <<>>
    BY <1>1 DEF Init
  <2> QED BY <2>1 DEF Entries, Abstract!Init
<1>2. Inv /\ [Next]_vars => [Abstract!Next]_Entries
  BY StepRefines
<1> QED BY <1>1, <1>2, InvCorrect, PTL DEF Spec, Abstract!Spec, ImplementsAddressMap

\* Inside label_repository_delete nothing changes in the map.
THEOREM DeleteInvisibleCorrect == Spec => DeleteInvisible
<1>1. Inv /\ [Next]_vars => [pc = "delete" => Entries' = Entries]_vars
  <2> SUFFICES ASSUME Inv, [Next]_vars, pc = "delete"
               PROVE  Entries' = Entries
    OBVIOUS
  <2>1. DeleteOne \/ DeleteSkip \/ DeleteDone \/ UNCHANGED vars
    BY DEF Next, Create, Destroy, Add, Delete, DeleteStart
  <2> QED BY <2>1, DeleteOneEntries, DeleteRestEntries
<1> QED BY <1>1, InvCorrect, PTL DEF Spec, DeleteInvisible
=============================================================================
