------------------------- MODULE CodeExtractProofs --------------------------
(***************************************************************************)
(* Proofs about CodeExtract, for every memory, every array of sections and *)
(* every width of bytes, words and double words.                           *)
(***************************************************************************)
EXTENDS CodeExtract, TLAPS

-----------------------------------------------------------------------------
(* Arithmetic of truncation.                                               *)

LEMMA ModRange ==
    ASSUME NEW n \in Int, NEW w \in Nat \ {0}
    PROVE  /\ n % w \in 0..(w - 1)
           /\ n \div w \in Int
           /\ n = w * (n \div w) + (n % w)
  OBVIOUS

LEMMA Grows ==
    ASSUME NEW d \in Int, NEW w \in Nat \ {0}, d >= 1
    PROVE  w * d >= w
  OBVIOUS

\* Quotient and remainder are unique.
LEMMA ModUnique ==
    ASSUME NEW w \in Nat \ {0}, NEW q1 \in Int, NEW q2 \in Int,
           NEW r1 \in 0..(w - 1), NEW r2 \in 0..(w - 1),
           w * q1 + r1 = w * q2 + r2
    PROVE  q1 = q2 /\ r1 = r2
  <1>1. w * (q1 - q2) = r2 - r1 /\ w * (q2 - q1) = r1 - r2
    OBVIOUS
  <1>2. ~(q1 - q2 >= 1)
    BY <1>1, Grows
  <1>3. ~(q2 - q1 >= 1)
    BY <1>1, Grows
  <1>4. q1 = q2
    BY <1>2, <1>3
  <1> QED BY <1>4

\* Truncating to a word forgets truncations before.
LEMMA ModAbsorb ==
    ASSUME NEW w \in Nat \ {0}, NEW n \in Int, NEW q \in Int
    PROVE  (n + w * q) % w = n % w
  <1> DEFINE m == n + w * q
  <1>1. m \in Int
    OBVIOUS
  <1>2. /\ n % w \in 0..(w - 1) /\ n \div w \in Int
        /\ n = w * (n \div w) + (n % w)
    BY ModRange
  <1>3. /\ m % w \in 0..(w - 1) /\ m \div w \in Int
        /\ m = w * (m \div w) + (m % w)
    <2> HIDE DEF m
    <2> QED BY <1>1, ModRange
  <1>4. w * (m \div w) + (m % w) = w * (n \div w + q) + (n % w)
    <2>1. w * (n \div w + q) = w * (n \div w) + w * q
      BY <1>2
    <2> QED BY <1>2, <1>3, <2>1
  <1>5. PICK q1 \in Int, q2 \in Int, r1 \in 0..(w - 1), r2 \in 0..(w - 1) :
          q1 = m \div w /\ q2 = n \div w + q /\ r1 = m % w /\ r2 = n % w
    <2>1. n \div w + q \in Int
      BY <1>2
    <2> HIDE DEF m
    <2> QED BY <1>2, <1>3, <2>1
  <1>6. w * q1 + r1 = w * q2 + r2
    BY <1>4, <1>5
  <1>7. r1 = r2
    BY <1>6, ModUnique
  <1> QED BY <1>5, <1>7

LEMMA ModSmall ==
    ASSUME NEW w \in Nat \ {0}, NEW n \in 0..(w - 1)
    PROVE  n % w = n
  <1>1. n % w \in 0..(w - 1) /\ n \div w \in Int /\ n = w * (n \div w) + (n % w)
    BY ModRange
  <1>2. w * 0 + n = w * (n \div w) + (n % w)
    BY <1>1
  <1> QED BY <1>1, <1>2, ModUnique

\* A multiple is no smaller.
LEMMA Multiple ==
    ASSUME NEW w \in Nat \ {0}, NEW n \in Nat \ {0}, n % w = 0
    PROVE  w <= n
  <1>1. /\ n \div w \in Int
        /\ n = w * (n \div w) + (n % w)
    BY ModRange
  <1>2. PICK k \in Int : n = w * k
    BY <1>1
  <1>3. k >= 1
    BY <1>2
  <1> QED BY <1>2, <1>3, Grows

LEMMA Widths ==
    /\ ByteSize \in Nat \ {0} /\ PageSize \in Nat \ {0}
    /\ WordSize \in Nat \ {0} /\ DwordSize \in Nat \ {0}
    /\ PageSize <= WordSize /\ WordSize <= DwordSize
    /\ WordSize = ByteSize * ByteSize
  BY WidthAssumption, Multiple

\* A cursor that is a word may be truncated to a word at any point.
LEMMA WordOfDword ==
    ASSUME NEW n \in Int, NEW d \in Int
    PROVE  (((n % WordSize) + d) % DwordSize) % WordSize = (n + d) % WordSize
  <1>1. WordSize \in Nat \ {0} /\ DwordSize \in Nat \ {0} /\ DwordSize % WordSize = 0
    BY WidthAssumption
  <1>2. PICK k \in Int : DwordSize = WordSize * k
    BY <1>1, ModRange
  <1> DEFINE r == n % WordSize
             q == n \div WordSize
             x == r + d
             y == x % DwordSize
             z == x \div DwordSize
  <1>3. r \in Int /\ q \in Int /\ n = WordSize * q + r
    BY <1>1, ModRange
  <1>4. x \in Int
    BY <1>3
  <1>5. y \in Int /\ z \in Int /\ x = DwordSize * z + y
    <2> HIDE DEF x
    <2> QED BY <1>1, <1>4, ModRange
  <1>6. n + d = x + WordSize * q
    BY <1>1, <1>3
  <1>7. x = y + WordSize * (k * z)
    <2> HIDE DEF x, y, z
    <2> QED BY <1>1, <1>2, <1>5
  <1>8. (n + d) % WordSize = x % WordSize
    <2> HIDE DEF x, q
    <2>1. (x + WordSize * q) % WordSize = x % WordSize
      BY <1>1, <1>3, <1>4, ModAbsorb
    <2> QED BY <1>6, <2>1
  <1>9. x % WordSize = y % WordSize
    <2>1. k * z \in Int
      BY <1>5
    <2> HIDE DEF x, y, z
    <2>2. (y + WordSize * (k * z)) % WordSize = y % WordSize
      BY <1>1, <1>5, <2>1, ModAbsorb
    <2> QED BY <1>7, <2>2
  <1> QED BY <1>8, <1>9

\* Every word is in one of the pages a section maps.
LEMMA SlotOfWord ==
    ASSUME NEW a \in Word
    PROVE  a \div PageSize \in Slots
  <1>1. PageSize \in Nat \ {0} /\ WordSize \in Nat \ {0} /\ WordSize % PageSize = 0
    BY WidthAssumption
  <1>2. PICK k \in Int : k = WordSize \div PageSize /\ WordSize = PageSize * k
    BY <1>1, ModRange
  <1>3. PICK q \in Int, r \in 0..(PageSize - 1) :
          q = a \div PageSize /\ a = PageSize * q + r
    <2>1. a \in Int
      BY <1>1 DEF Word
    <2>2. a % PageSize \in 0..(PageSize - 1) /\ a \div PageSize \in Int
      BY <1>1, <2>1, ModRange
    <2>3. a = PageSize * (a \div PageSize) + (a % PageSize)
      BY <1>1, <2>1, ModRange
    <2> QED BY <2>2, <2>3
  <1>4. 0 <= PageSize * q + r /\ PageSize * q + r < PageSize * k
    BY <1>1, <1>2, <1>3 DEF Word
  <1>5. ~(q - k >= 0)
    <2> SUFFICES ASSUME q - k >= 0 PROVE FALSE
      OBVIOUS
    <2>1. PageSize * (q - k) >= 0
      BY <1>1
    <2> QED BY <1>1, <1>4, <2>1
  <1>6. ~(-q >= 1)
    <2> SUFFICES ASSUME -q >= 1 PROVE FALSE
      OBVIOUS
    <2>1. PageSize * (-q) >= PageSize
      BY <1>1, Grows
    <2> QED BY <1>1, <1>4, <2>1
  <1>7. q \in 0..(k - 1)
    BY <1>5, <1>6
  <1> QED BY <1>2, <1>3, <1>7 DEF Slots

\* The result of compute_size is an int32_t.
LEMMA SignedRange ==
    ASSUME NEW n \in Int
    PROVE  Signed(n) \in Int32
  <1>1. DwordSize \in Nat \ {0} /\ DwordSize % 2 = 0
    BY WidthAssumption
  <1>2. PICK h \in Int : h = DwordSize \div 2 /\ DwordSize = 2 * h
    BY <1>1
  <1>3. PICK d \in 0..(DwordSize - 1) : d = n % DwordSize
    BY <1>1, ModRange
  <1>4. Signed(n) = IF 2 * d >= DwordSize THEN d - DwordSize ELSE d
    BY <1>3 DEF Signed
  <1>5. Signed(n) \in -h..(h - 1)
    BY <1>1, <1>2, <1>3, <1>4
  <1> QED BY <1>2, <1>5 DEF Int32

LEMMA SizeRange == \A op : Size(op) \in 1..7
  BY DEF Size

-----------------------------------------------------------------------------
(* Types.                                                                  *)

\* What a walk reads in a section of the array.
LEMMA ReadType ==
    ASSUME TypeOK, index <= Len(arr), NEW a \in Int
    PROVE  /\ Current \in Section
           /\ Page(a) \in Pages
           /\ Read(a) \in Byte
           /\ Displacement(a) \in Int
           /\ Absolute(a) \in Int
           /\ After(a) \in Word
           /\ Key(a) \in Pages \X Word
           /\ ExtractTarget(a) \in Int
           /\ DecodeTarget(a) \in Int
  <1>1. Current \in Section
    BY DEF TypeOK, Current
  <1>2. /\ WordSize \in Nat \ {0} /\ DwordSize \in Nat \ {0}
        /\ PageSize \in Nat \ {0} /\ ByteSize \in Nat \ {0}
    BY WidthAssumption
  <1>3. \A b \in Int : b % WordSize \in Word
    BY <1>2, ModRange DEF Word
  <1>4. \A b \in Int : Page(b) \in Pages
    <2>1. Current.mpr \in [Slots -> Pages]
      BY <1>1 DEF Section
    <2> QED BY <1>3, <2>1, SlotOfWord DEF Page
  <1>5. \A b \in Int : Read(b) \in Byte
    <2>1. memory \in [Pages -> [0..(PageSize - 1) -> Byte]]
      BY DEF TypeOK
    <2>2. \A b \in Int : b % PageSize \in 0..(PageSize - 1)
      BY <1>2, ModRange
    <2> QED BY <1>4, <2>1, <2>2 DEF Read
  <1>6. \A b \in Int : Read(b) \in Int
    BY <1>2, <1>5 DEF Byte
  <1>7. Displacement(a) \in Int
    <2>1. Read(a + 1) \in Int /\ Read(a + 2) \in Int
      BY <1>6
    <2> QED BY <1>2, <2>1 DEF Displacement
  <1>8. Absolute(a) \in Int
    BY <1>2, <1>6 DEF Absolute
  <1>9. Size(Inst(a)) \in Int
    BY SizeRange
  <1>10. After(a) \in Word
    BY <1>3, <1>9 DEF After
  <1>11. Key(a) \in Pages \X Word
    BY <1>3, <1>4 DEF Key
  <1>12. ExtractTarget(a) \in Int
    <2>1. ExtractTarget(a) \in Word
      BY <1>3, <1>7, <1>8, <1>9 DEF ExtractTarget
    <2> QED BY <1>2, <2>1 DEF Word
  <1>13. DecodeTarget(a) \in Int
    <2>1. After(a) + Displacement(a) \in Int
      BY <1>2, <1>7, <1>10 DEF Word
    <2>2. (After(a) + Displacement(a)) % DwordSize \in Int
      BY <1>2, <2>1, ModRange
    <2> QED BY <1>8, <2>2 DEF DecodeTarget
  <1> QED BY <1>1, <1>4, <1>5, <1>7, <1>8, <1>10, <1>11, <1>12, <1>13

\* label_extract and decode find the same jump address.
LEMMA SameTarget ==
    ASSUME TypeOK, index <= Len(arr), NEW a \in Int
    PROVE  Key(ExtractTarget(a)) = Key(DecodeTarget(a))
  <1>1. Size(Inst(a)) \in Int /\ Displacement(a) \in Int /\ Absolute(a) \in Int
    <2>1. Size(Inst(a)) \in 1..7
      BY SizeRange
    <2>2. Displacement(a) \in Int /\ Absolute(a) \in Int
      BY ReadType
    <2> QED BY <2>1, <2>2
  <1>2. WordSize \in Nat \ {0}
    BY WidthAssumption
  <1>3. \A b \in Int : (b % WordSize) % WordSize = b % WordSize
    BY <1>2, ModRange, ModSmall
  <1>4. ExtractTarget(a) % WordSize = DecodeTarget(a) % WordSize
    <2>1. CASE IsLocalJump(Inst(a))
      <3> DEFINE n == a + Size(Inst(a))
                 d == Displacement(a)
      <3>1. n \in Int /\ d \in Int
        BY <1>1
      <3>2. ExtractTarget(a) = (n + d) % WordSize
        <4>1. a + Displacement(a) + Size(Inst(a)) = n + d
          BY <1>1
        <4> QED BY <2>1, <4>1 DEF ExtractTarget
      <3>3. DecodeTarget(a) = ((n % WordSize) + d) % DwordSize
        BY <2>1 DEF DecodeTarget, After
      <3> HIDE DEF n, d
      <3>4. n + d \in Int
        BY <3>1
      <3> QED BY <1>3, <3>1, <3>2, <3>3, <3>4, WordOfDword
    <2>2. CASE ~IsLocalJump(Inst(a))
      BY <1>1, <1>3, <2>2 DEF ExtractTarget, DecodeTarget
    <2> QED BY <2>1, <2>2
  <1> QED BY <1>4 DEF Key, Page

\* Every step keeps the types.
LEMMA TypeStep ==
    ASSUME TypeOK, [Next]_vars
    PROVE  TypeOK'
  <1> DEFINE Fixed == memory' = memory /\ arr' = arr /\ max' = max
  <1>1. /\ WordSize \in Nat \ {0} /\ DwordSize \in Nat \ {0}
        /\ Len(arr) \in Nat /\ index \in Nat
    BY WidthAssumption DEF TypeOK
  <1>2. Word \subseteq Int /\ Dword \subseteq Int /\ Word \subseteq Dword
    <2>1. WordSize <= DwordSize
      BY Widths
    <2> QED BY <1>1, <2>1 DEF Word, Dword
  <1>3. logical \in Int
    BY <1>2 DEF TypeOK
  <1>4. \A n \in Int : n % DwordSize \in Dword
    BY <1>1, ModRange DEF Dword
  <1>5. ASSUME index <= Len(arr)
        PROVE  Current.logical \in Word /\ Current.size \in Int
    <2>1. Current \in Section
      BY <1>5, ReadType, <1>3
    <2> QED BY <1>1, <2>1 DEF Section, Int32
  <1>6. ASSUME PassOver PROVE TypeOK'
    <2>1. index <= Len(arr) /\ pc = "next"
      BY <1>6 DEF PassOver
    <2>2. index + 1 \in 1..(Len(arr) + 1)
      BY <1>1, <2>1 DEF TypeOK
    <2> QED BY <1>6, <2>1, <2>2 DEF PassOver, NextSection, TypeOK
  <1>7. ASSUME Finish PROVE TypeOK'
    BY <1>7 DEF Finish, TypeOK
  <1>8. ASSUME SizeStart PROVE TypeOK'
    <2>1. index <= Len(arr) /\ logical' \in Word
      BY <1>5, <1>8 DEF SizeStart
    <2>2. max' \in Dword
      <3>1. \A k \in 1..Len(arr) : arr[k].offset \in Int
        <4>1. \A k \in 1..Len(arr) : arr[k] \in Section
          BY DEF TypeOK
        <4> QED BY <1>2, <4>1 DEF Section
      <3>2. \A n \in Int : n % PageSize \in Dword
        <4>1. PageSize \in Nat \ {0} /\ PageSize <= WordSize
          BY Widths
        <4>2. \A n \in Int : n % PageSize \in Word
          BY <1>1, <4>1, ModRange DEF Word
        <4> QED BY <1>2, <4>2
      <3>3. DwordSize - 1 \in Dword
        BY <1>1 DEF Dword
      <3> QED BY <1>8, <3>1, <3>2, <3>3 DEF SizeStart, Limits, Past
    <2> QED BY <1>2, <1>8, <2>1, <2>2 DEF SizeStart, TypeOK
  <1>9. ASSUME NEW end \in Int, Sized(end), index <= Len(arr)
        PROVE  TypeOK'
    <2>1. Signed(end - Current.logical) \in Int32
      <3>1. Current.logical \in Int
        BY <1>2, <1>5, <1>9
      <3>2. end - Current.logical \in Int
        BY <1>9, <3>1
      <3> QED BY <3>2, SignedRange
    <2>2. arr' \in Seq(Section) /\ Len(arr') = Len(arr)
      <3>1. arr[index] \in Section /\ arr \in Seq(Section) /\ index \in 1..Len(arr)
        BY <1>1, <1>9 DEF TypeOK
      <3>2. [arr[index] EXCEPT !.size = Signed(end - Current.logical)] \in Section
        BY <2>1, <3>1 DEF Section
      <3> HIDE DEF Section
      <3> QED BY <1>9, <3>1, <3>2 DEF Sized
    <2>3. logical' \in Word
      BY <1>5, <1>9 DEF Sized
    <2>4. pc' = "extract" /\ index' = index /\ memory' = memory /\ max' = max
      BY <1>9 DEF Sized
    <2>5. labels' = labels /\ lines' = lines /\ skipped' = skipped /\ seen' = {}
      BY <1>9 DEF Sized
    <2> HIDE DEF Section
    <2> QED BY <1>9, <2>2, <2>3, <2>4, <2>5 DEF TypeOK
  <1>10. index <= Len(arr) => Successor \in Dword /\ Branch \in Dword
    <2>1. index <= Len(arr) => Displacement(logical) \in Int
      BY <1>3, ReadType
    <2>2. Size(Inst(logical)) \in Int
      BY SizeRange
    <2>3. Successor \in Dword
      BY <1>3, <1>4, <2>2 DEF Successor
    <2> QED BY <1>2, <1>4, <2>1, <2>3 DEF Branch
  <1>11. ASSUME SizeStop \/ SizeReturn PROVE TypeOK'
    <2>1. index <= Len(arr)
      BY <1>11 DEF SizeStop, SizeReturn, TypeOK
    <2>2. Successor \in Int
      BY <1>2, <1>10, <2>1
    <2> QED BY <1>3, <1>9, <1>11, <2>1, <2>2 DEF SizeStop, SizeReturn
  <1>12. ASSUME SizeStep PROVE TypeOK'
    <2>1. index <= Len(arr) /\ pc = "size"
      BY <1>12 DEF SizeStep, TypeOK
    <2>2. Absolute(logical) \in Dword
      <3>1. logical + 1 \in Int /\ logical + 2 \in Int
        BY <1>3
      <3>2. Read(logical + 1) \in Byte /\ Read(logical + 2) \in Byte
        BY <2>1, <3>1, ReadType
      <3>3. ASSUME NEW x \in Byte, NEW y \in Byte
            PROVE  x + ByteSize * y \in Word
        <4>1. ByteSize - 1 - y >= 0 /\ x >= 0 /\ x <= ByteSize - 1 /\ y >= 0
          BY Widths DEF Byte
        <4>2. ByteSize * (ByteSize - 1 - y) >= 0 /\ ByteSize * y >= 0
          BY <4>1, Widths DEF Byte
        <4> QED BY <4>1, <4>2, Widths DEF Byte, Word
      <3> QED BY <1>2, <3>2, <3>3 DEF Absolute
    <2>3. Follow \in Dword
      BY <1>10, <2>1, <2>2 DEF Follow
    <2> QED BY <1>12, <2>1, <2>3 DEF SizeStep, TypeOK
  <1>13. ASSUME ExtractStart PROVE TypeOK'
    <2>1. index <= Len(arr) /\ logical' \in Word
      BY <1>5, <1>13 DEF ExtractStart
    <2> QED BY <1>13, <2>1 DEF ExtractStart, TypeOK
  <1>14. ASSUME ExtractStep PROVE TypeOK'
    <2>1. index <= Len(arr) /\ pc = "extract" /\ logical \in Word
      BY <1>14 DEF ExtractStep, TypeOK
    <2>2. After(logical) \in Word
      BY <1>3, <2>1, ReadType
    <2>3. Key(ExtractTarget(logical)) \in Pages \X Word
      <3>1. ExtractTarget(logical) \in Int
        BY <1>3, <2>1, ReadType
      <3> QED BY <2>1, <3>1, ReadType
    <2>4. labels' \subseteq Pages \X Word
      BY <1>14, <2>3 DEF ExtractStep, TypeOK
    <2> QED BY <1>14, <2>1, <2>2, <2>4 DEF ExtractStep, TypeOK
  <1>15. ASSUME ExtractOutOfMemory PROVE TypeOK'
    <2>1. index <= Len(arr) /\ pc = "extract" /\ logical \in Word
      BY <1>15 DEF ExtractOutOfMemory, TypeOK
    <2>2. index + 1 \in 1..(Len(arr) + 1)
      BY <1>1, <2>1 DEF TypeOK
    <2> QED BY <1>15, <2>1, <2>2 DEF ExtractOutOfMemory, TypeOK
  <1>16. ASSUME ExtractDone PROVE TypeOK'
    <2>1. index <= Len(arr) /\ pc = "extract"
      BY <1>16 DEF ExtractDone, TypeOK
    <2>2. logical' \in Word
      BY <1>5, <1>16, <2>1 DEF ExtractDone
    <2> QED BY <1>16, <2>1, <2>2 DEF ExtractDone, TypeOK
  <1>17. ASSUME DecodeCrash PROVE TypeOK'
    <2>1. index <= Len(arr) /\ pc = "decode" /\ logical \in Word
      BY <1>17 DEF DecodeCrash, TypeOK
    <2> QED BY <1>17, <2>1 DEF DecodeCrash, TypeOK
  <1>18. ASSUME DecodeStep \/ DecodeLast PROVE TypeOK'
    <2>1. index <= Len(arr) /\ pc = "decode" /\ logical \in Word
      BY <1>18 DEF DecodeStep, DecodeLast, TypeOK
    <2>2. Line(logical) \in LineType
      <3>1. Page(logical) \in Pages /\ index \in Nat
        BY <1>1, <1>3, <2>1, ReadType
      <3>2. (Key(logical) \in labels) \in BOOLEAN
        OBVIOUS
      <3>3. DecodeTarget(logical) \in Int
        BY <1>3, <2>1, ReadType
      <3>4. Key(DecodeTarget(logical)) \in Pages \X Word
        BY <2>1, <3>3, ReadType
      <3> QED BY <2>1, <3>1, <3>2, <3>4 DEF Line, LineType
    <2>3. lines' \subseteq LineType
      BY <1>18, <2>2 DEF DecodeStep, DecodeLast, TypeOK
    <2>4. After(logical) \in Word
      BY <1>3, <2>1, ReadType
    <2>5. index + 1 \in 1..(Len(arr) + 1)
      BY <1>1, <2>1 DEF TypeOK
    <2>6. CASE DecodeStep
      BY <2>1, <2>3, <2>4, <2>6 DEF DecodeStep, TypeOK
    <2>7. CASE DecodeLast
      BY <2>1, <2>3, <2>5, <2>7 DEF DecodeLast, NextSection, TypeOK
    <2> QED BY <1>18, <2>6, <2>7
  <1>19. ASSUME UNCHANGED vars PROVE TypeOK'
    BY <1>19 DEF vars, TypeOK
  <1> QED BY <1>6, <1>7, <1>8, <1>11, <1>12, <1>13, <1>14, <1>15, <1>16, <1>17, <1>18, <1>19
          DEF Next, ComputeSize, LabelExtract, Decode

LEMMA TypeInit ==
    ASSUME Init
    PROVE  TypeOK
  <1>1. memory \in [Pages -> [0..(PageSize - 1) -> Byte]]
    BY ImagesAssumption DEF Init
  <1>2. arr \in Seq(Section)
    BY ProgramsAssumption DEF Init
  <1>3. labels \subseteq Pages \X Word
    <2>1. \A k \in 1..Len(arr) : arr[k] \in Section
      BY <1>2
    <2>2. \A k \in 1..Len(arr) : arr[k].page \in Pages /\ arr[k].logical \in Word
      BY <2>1 DEF Section
    <2>3. {<<arr[k].page, arr[k].logical>> : k \in 1..Len(arr)} \subseteq Pages \X Word
      BY <2>2
    <2>4. \A f \in LabelFiles : f \subseteq Pages \X Word
      BY LabelFilesAssumption
    <2> QED BY <2>3, <2>4 DEF Init
  <1>4. 0 \in Word /\ 0 \in Dword
    BY Widths DEF Word, Dword
  <1>5. index \in 1..(Len(arr) + 1)
    <2> HIDE DEF Section
    <2> QED BY <1>2 DEF Init
  <1> HIDE DEF Section
  <1> QED BY <1>1, <1>2, <1>3, <1>4, <1>5 DEF Init, TypeOK

\* The variables keep their types, the widths of the code included.
THEOREM TypeCorrect == Spec => []TypeOK
<1>1. Init => TypeOK
  BY TypeInit
<1>2. TypeOK /\ [Next]_vars => TypeOK'
  BY TypeStep
<1> QED BY <1>1, <1>2, PTL DEF Spec

-----------------------------------------------------------------------------
(* The inductive invariant.                                                *)

\* The instruction at a, if it jumps, jumps to a label.
Resolved(a) == IsJump(Inst(a)) => Key(DecodeTarget(a)) \in labels

\* label_extract has seen the start of the section and, for each instruction
\* it has seen, the one that follows, up to its cursor.
ExtractInv ==
    pc = "extract" =>
        /\ logical = Current.logical \/ Current.logical \in seen
        /\ \A a \in seen :
            /\ After(a) \in seen \union {logical}
            /\ Resolved(a)

\* decode goes where label_extract has been.
DecodeInv ==
    pc = "decode" =>
        /\ Current.size > 0 => logical \in seen
        /\ \A a \in seen :
            /\ After(a) \in seen \/ After(a) >= End
            /\ Resolved(a)

Inv == TypeOK /\ ExtractInv /\ DecodeInv /\ LabelSetWhenSized

LEMMA InvStep ==
    ASSUME Inv, [Next]_vars
    PROVE  Inv'
  <1>1. TypeOK /\ TypeOK'
    BY TypeStep DEF Inv
  <1>2. logical \in Int
    BY <1>1, Widths DEF TypeOK, Word, Dword
  <1> SUFFICES (ExtractInv /\ DecodeInv /\ LabelSetWhenSized)'
    BY <1>1 DEF Inv
  <1>3. ASSUME pc' \notin {"extract", "decode", "dead"}
        PROVE  (ExtractInv /\ DecodeInv /\ LabelSetWhenSized)'
    BY <1>3 DEF ExtractInv, DecodeInv, LabelSetWhenSized
  <1>4. ASSUME PassOver \/ Finish \/ SizeStart \/ ExtractOutOfMemory \/ DecodeLast
        PROVE  (ExtractInv /\ DecodeInv /\ LabelSetWhenSized)'
    BY <1>3, <1>4 DEF PassOver, NextSection, Finish, SizeStart, ExtractOutOfMemory, DecodeLast
  <1>5. ASSUME SizeStep PROVE (ExtractInv /\ DecodeInv /\ LabelSetWhenSized)'
    BY <1>3, <1>5 DEF SizeStep
  <1>6. ASSUME ExtractStart PROVE (ExtractInv /\ DecodeInv /\ LabelSetWhenSized)'
    BY <1>6 DEF ExtractStart, ExtractInv, DecodeInv, LabelSetWhenSized, Current
  <1>7. ASSUME NEW end, Sized(end), index <= Len(arr)
        PROVE  (ExtractInv /\ DecodeInv /\ LabelSetWhenSized)'
    <2>1. Current'.logical = Current.logical
      <3>1. arr[index] \in Section /\ index \in DOMAIN arr
        BY <1>1, <1>7 DEF TypeOK
      <3> QED BY <1>7, <3>1 DEF Sized, Current, Section
    <2> QED BY <1>7, <2>1 DEF Sized, ExtractInv, DecodeInv, LabelSetWhenSized
  <1>8. ASSUME SizeStop \/ SizeReturn PROVE (ExtractInv /\ DecodeInv /\ LabelSetWhenSized)'
    <2>1. index <= Len(arr)
      BY <1>1, <1>8 DEF SizeStop, SizeReturn, TypeOK
    <2> QED BY <1>7, <1>8, <2>1 DEF SizeStop, SizeReturn
  <1>9. ASSUME ExtractStep PROVE (ExtractInv /\ DecodeInv /\ LabelSetWhenSized)'
    <2>1. /\ pc = "extract" /\ pc' = "extract" /\ index <= Len(arr)
          /\ memory' = memory /\ arr' = arr /\ index' = index
      BY <1>1, <1>9 DEF ExtractStep, TypeOK
    <2>2. /\ \A a : After(a)' = After(a) /\ Inst(a)' = Inst(a)
          /\ \A a : Key(DecodeTarget(a))' = Key(DecodeTarget(a))
          /\ Current' = Current
      BY <2>1 DEF After, Inst, Read, Page, Current, Key, DecodeTarget, Displacement, Absolute
    <2>3. labels \subseteq labels' /\ seen' = seen \union {logical} /\ logical' = After(logical)
      BY <1>9 DEF ExtractStep
    <2>4. \A a : Resolved(a)' <=> (IsJump(Inst(a)) => Key(DecodeTarget(a)) \in labels')
      BY <2>2 DEF Resolved
    <2>5. IsJump(Inst(logical)) => Key(DecodeTarget(logical)) \in labels'
      <3>1. IsJump(Inst(logical)) => Key(ExtractTarget(logical)) \in labels'
        BY <1>9 DEF ExtractStep
      <3>2. Key(ExtractTarget(logical)) = Key(DecodeTarget(logical))
        BY <1>1, <1>2, <2>1, SameTarget
      <3> QED BY <3>1, <3>2
    <2>6. \A a \in seen : After(a) \in seen \union {logical} /\ Resolved(a)
      BY <2>1 DEF Inv, ExtractInv
    <2>7. \A a \in seen' : After(a) \in seen' \union {logical'}
      BY <2>3, <2>6
    <2>8. \A a \in seen' : Resolved(a)'
      BY <2>3, <2>4, <2>5, <2>6 DEF Resolved
    <2>9. logical' = Current.logical \/ Current.logical \in seen'
      BY <2>1, <2>3 DEF Inv, ExtractInv
    <2> QED BY <2>1, <2>2, <2>7, <2>8, <2>9 DEF ExtractInv, DecodeInv, LabelSetWhenSized
  <1>10. ASSUME ExtractDone PROVE (ExtractInv /\ DecodeInv /\ LabelSetWhenSized)'
    <2>1. /\ pc = "extract" /\ pc' = "decode" /\ index <= Len(arr)
          /\ memory' = memory /\ arr' = arr /\ index' = index
          /\ labels' = labels /\ seen' = seen
          /\ logical' = Current.logical /\ logical >= End
      BY <1>1, <1>10 DEF ExtractDone, TypeOK
    <2>2. /\ \A a : After(a)' = After(a)
          /\ \A a : Resolved(a)' <=> Resolved(a)
          /\ Current' = Current /\ End' = End
      BY <2>1 DEF After, Inst, Read, Page, Current, Key, DecodeTarget, Displacement, Absolute,
                  Resolved, End
    <2>3. Current.logical \in Int /\ Current.size \in Int
      <3>1. Current \in Section
        BY <1>1, <1>2, <2>1, ReadType
      <3> QED BY <3>1, Widths DEF Section, Word, Int32
    <2>4. Current.size > 0 => Current.logical \in seen
      BY <1>2, <2>1, <2>3 DEF Inv, ExtractInv, End
    <2>5. \A a \in seen : (After(a) \in seen \/ After(a) >= End) /\ Resolved(a)
      BY <2>1 DEF Inv, ExtractInv
    <2> QED BY <2>1, <2>2, <2>4, <2>5 DEF ExtractInv, DecodeInv, LabelSetWhenSized
  <1>11. ASSUME DecodeCrash PROVE (ExtractInv /\ DecodeInv /\ LabelSetWhenSized)'
    <2>1. /\ pc = "decode" /\ pc' = "dead" /\ index <= Len(arr) /\ Unresolved(logical)
          /\ arr' = arr /\ index' = index
      BY <1>1, <1>11 DEF DecodeCrash, TypeOK
    <2>2. ~(Current.size > 0)
      BY <2>1 DEF Inv, DecodeInv, Resolved, Unresolved
    <2>3. Current.size \in Int
      <3>1. Current \in Section
        BY <1>1, <1>2, <2>1, ReadType
      <3> QED BY <3>1, Widths DEF Section, Int32
    <2>4. Current'.size <= 0
      BY <2>1, <2>2, <2>3 DEF Current
    <2> QED BY <2>1, <2>4 DEF ExtractInv, DecodeInv, LabelSetWhenSized
  <1>12. ASSUME DecodeStep PROVE (ExtractInv /\ DecodeInv /\ LabelSetWhenSized)'
    <2>1. /\ pc = "decode" /\ pc' = "decode" /\ index <= Len(arr)
          /\ memory' = memory /\ arr' = arr /\ index' = index
          /\ labels' = labels /\ seen' = seen
          /\ logical' = After(logical) /\ After(logical) < End
      BY <1>1, <1>12 DEF DecodeStep, TypeOK
    <2>2. /\ \A a : After(a)' = After(a)
          /\ \A a : Resolved(a)' <=> Resolved(a)
          /\ Current' = Current /\ End' = End
      BY <2>1 DEF After, Inst, Read, Page, Current, Key, DecodeTarget, Displacement, Absolute,
                  Resolved, End
    <2>3. After(logical) \in Int /\ End \in Int
      <3>1. After(logical) \in Word /\ Current \in Section
        BY <1>1, <1>2, <2>1, ReadType
      <3>2. Current.logical \in Int /\ Current.size \in Int
        BY <3>1, Widths DEF Section, Word, Int32
      <3> QED BY <3>1, <3>2, Widths DEF Word, End
    <2>4. Current.size > 0 => After(logical) \in seen
      BY <2>1, <2>3 DEF Inv, DecodeInv
    <2>5. \A a \in seen : (After(a) \in seen \/ After(a) >= End) /\ Resolved(a)
      BY <2>1 DEF Inv, DecodeInv
    <2> QED BY <2>1, <2>2, <2>4, <2>5 DEF ExtractInv, DecodeInv, LabelSetWhenSized
  <1>13. ASSUME UNCHANGED vars PROVE (ExtractInv /\ DecodeInv /\ LabelSetWhenSized)'
    <2>1. /\ \A a : After(a)' = After(a)
          /\ \A a : Resolved(a)' <=> Resolved(a)
          /\ Current' = Current /\ End' = End
      BY <1>13 DEF vars, After, Inst, Read, Page, Current, Key, DecodeTarget, Displacement,
                   Absolute, Resolved, End
    <2> QED BY <1>13, <2>1 DEF Inv, vars, ExtractInv, DecodeInv, LabelSetWhenSized
  <1> QED BY <1>4, <1>5, <1>6, <1>8, <1>9, <1>10, <1>11, <1>12, <1>13
          DEF Next, ComputeSize, LabelExtract, Decode

LEMMA InvCorrect == Spec => []Inv
<1>1. Init => Inv
  BY TypeInit DEF Init, Inv, ExtractInv, DecodeInv, LabelSetWhenSized
<1>2. Inv /\ [Next]_vars => Inv'
  BY InvStep
<1> QED BY <1>1, <1>2, PTL DEF Spec

\* decode finds the label of every jump of a section that is not empty.
THEOREM LabelSetCorrect == Spec => []LabelSetWhenSized
<1>1. Inv => LabelSetWhenSized
  BY DEF Inv
<1> QED BY <1>1, InvCorrect, PTL

-----------------------------------------------------------------------------
(* label_extract stays in its section.                                     *)

SeenInv ==
    pc = "extract" /\ Fits => Current.logical <= logical /\ seen \subseteq Body

LEMMA CurrentType ==
    ASSUME TypeOK, index <= Len(arr)
    PROVE  Current.logical \in Int
<1>1. index \in 1..Len(arr)
  BY DEF TypeOK
<1>2. arr \in Seq(Section)
  BY DEF TypeOK
<1> HIDE DEF Section
<1>3. arr[index] \in Section
  BY <1>1, <1>2
<1>4. Current \in Section
  BY <1>3 DEF Current
<1> QED BY <1>4, Widths DEF Section, Word

LEMMA SeenStep ==
    ASSUME TypeOK, SeenInv, [Next]_vars
    PROVE  SeenInv'
  <1>1. ASSUME ExtractStep PROVE SeenInv'
    <2>1. /\ pc = "extract" /\ index <= Len(arr) /\ logical \in Word /\ logical < End
          /\ memory' = memory /\ arr' = arr /\ index' = index
          /\ seen' = seen \union {logical} /\ logical' = After(logical)
      BY <1>1 DEF ExtractStep, TypeOK
    <2>2. Current' = Current /\ End' = End
      BY <2>1 DEF Current, End
    <2>3. logical \in Int /\ WordSize \in Nat \ {0} /\ 0 <= logical
      BY <2>1, Widths DEF Word
    <2>4. Current.logical \in Int /\ Current.size \in Int /\ End \in Int
      <3>1. Current \in Section
        BY <2>1, <2>3, ReadType
      <3>2. Current.logical \in Int /\ Current.size \in Int
        BY <3>1, Widths DEF Section, Word, Int32
      <3> QED BY <3>2 DEF End
    <2>5. ASSUME Fits PROVE After(logical) >= logical
      <3>1. PICK n \in 1..7 : n = Size(Inst(logical))
        BY SizeRange
      <3>2. logical + n \in 0..(WordSize - 1)
        BY <2>1, <2>3, <2>4, <2>5, <3>1 DEF Fits
      <3>3. After(logical) = logical + n
        BY <2>3, <3>1, <3>2, ModSmall DEF After
      <3> QED BY <2>3, <3>1, <3>3
    <2>6. ASSUME Fits PROVE Current.logical <= logical /\ seen \subseteq Body
      BY <2>1, <2>6 DEF SeenInv
    <2>7. ASSUME Fits PROVE After(logical) \in Int
      <3>1. After(logical) \in Word
        BY <2>1, <2>3, ReadType
      <3> QED BY <3>1, Widths DEF Word
    <2>8. Fits' <=> Fits
      BY <2>2 DEF Fits
    <2>9. Body' = Body
      BY <2>2 DEF Body
    <2>10. ASSUME Fits PROVE Current.logical <= After(logical) /\ seen \union {logical} \subseteq Body
      <3>1. Current.logical <= After(logical)
        BY <2>3, <2>4, <2>5, <2>6, <2>7, <2>10
      <3>2. logical \in Body
        BY <2>1, <2>6, <2>10 DEF Body
      <3> QED BY <2>6, <2>10, <3>1, <3>2
    <2> QED BY <2>1, <2>2, <2>8, <2>9, <2>10 DEF SeenInv
  <1>2. ASSUME ExtractStart PROVE SeenInv'
    <2>1. index <= Len(arr) /\ arr' = arr /\ index' = index /\ seen' = {} /\ logical' = Current.logical
      BY <1>2 DEF ExtractStart
    <2>2. Current.logical \in Int
      BY <2>1, CurrentType
    <2>3. Current' = Current
      BY <2>1 DEF Current
    <2> QED BY <2>1, <2>2, <2>3 DEF SeenInv
  <1>3. ASSUME NEW end, Sized(end), index <= Len(arr) PROVE SeenInv'
    <2>1. Current'.logical = Current.logical /\ Current.logical \in Int
      <3> DEFINE size == Signed(end - Current.logical)
      <3>1. /\ index \in 1..Len(arr) /\ arr \in Seq(Section)
            /\ index' = index /\ arr' = [arr EXCEPT ![index].size = size]
        BY <1>3 DEF TypeOK, Sized
      <3> HIDE DEF size, Section
      <3>2. index \in DOMAIN arr
        BY <3>1
      <3>3. arr'[index] = [arr[index] EXCEPT !.size = size]
        BY <3>1, <3>2
      <3>4. arr'[index].logical = arr[index].logical
        <4>1. arr[index] \in Section
          BY <3>1
        <4> QED BY <3>3, <4>1 DEF Section
      <3>5. Current'.logical = Current.logical
        BY <3>1, <3>4 DEF Current
      <3> QED BY <1>3, <3>5, CurrentType
    <2> QED BY <1>3, <2>1 DEF Sized, SeenInv
  <1>4. ASSUME SizeStop \/ SizeReturn PROVE SeenInv'
    <2>1. index <= Len(arr)
      BY <1>4 DEF SizeStop, SizeReturn, TypeOK
    <2> QED BY <1>3, <1>4, <2>1 DEF SizeStop, SizeReturn
  <1>5. ASSUME pc' # "extract" PROVE SeenInv'
    BY <1>5 DEF SeenInv
  <1>6. ASSUME UNCHANGED vars PROVE SeenInv'
    BY <1>6 DEF vars, SeenInv, Fits, Body, End, Current
  <1>7. ASSUME PassOver \/ Finish \/ SizeStart \/ SizeStep \/ ExtractOutOfMemory \/ ExtractDone \/ Decode
        PROVE  pc' # "extract"
    BY <1>7 DEF PassOver, Finish, SizeStart, SizeStep, ExtractOutOfMemory, ExtractDone,
                Decode, DecodeCrash, DecodeStep, DecodeLast, NextSection
  <1> QED BY <1>1, <1>2, <1>4, <1>5, <1>6, <1>7 DEF Next, ComputeSize, LabelExtract

\* A section that ends before the address space is read from its start to its
\* end: the cursor does not wrap.
THEOREM InSectionCorrect == Spec => []InSectionBelowEnd
<1>1. Init => SeenInv
  BY DEF Init, SeenInv
<1>2. TypeOK /\ SeenInv /\ [Next]_vars => SeenInv'
  BY SeenStep
<1>3. SeenInv => InSectionBelowEnd
  BY DEF SeenInv, InSectionBelowEnd
<1> QED BY <1>1, <1>2, <1>3, TypeCorrect, PTL DEF Spec

-----------------------------------------------------------------------------
(* Labels of later code are in the output.                                 *)

Address(m) == <<m.page, m.logical>>

LinesInv ==
    /\ \A l \in lines : l.section \in Nat /\ l.section <= index
    /\ pc \notin {"decode", "dead"} => \A l \in lines : l.section # index
    /\ ~skipped => \A l \in lines : l.target # NoTarget => l.target \in labels
    /\ \A m \in lines : m.section = index => (m.named <=> Address(m) \in labels)

LEMMA LineResult ==
    ASSUME TypeOK, pc = "decode", ~Unresolved(logical)
    PROVE  LET n == Line(logical)
           IN  /\ n.section = index
               /\ n.named <=> Address(n) \in labels
               /\ n.target # NoTarget => n.target \in labels
  <1>1. logical \in Word
    BY DEF TypeOK
  <1>2. logical % WordSize = logical
    BY <1>1, ModSmall, Widths DEF Word
  <1> DEFINE n == Line(logical)
  <1>3. n.section = index /\ n.page = Page(logical) /\ n.logical = logical
    BY DEF Line
  <1>4. Address(n) = Key(logical)
    BY <1>2, <1>3 DEF Address, Key
  <1>5. n.named <=> Key(logical) \in labels
    BY DEF Line
  <1>6. n.target # NoTarget => n.target \in labels
    BY DEF Line, Unresolved
  <1> QED BY <1>3, <1>4, <1>5, <1>6

LEMMA LinesStep ==
    ASSUME TypeOK, LinesInv, ForwardDefined, [Next]_vars
    PROVE  LinesInv' /\ ForwardDefined'
  <1>1. index \in Nat
    BY DEF TypeOK
  <1>2. ASSUME lines' = lines, skipped' = skipped PROVE ForwardDefined'
    BY <1>2 DEF ForwardDefined
  <1>3. ASSUME lines' = lines, skipped' = skipped, index' = index, labels' = labels,
               pc' \in {"decode", "dead"} \/ pc \notin {"decode", "dead"}
        PROVE  LinesInv'
    BY <1>3 DEF LinesInv
  <1>4. ASSUME Finish \/ ComputeSize \/ ExtractStart \/ ExtractDone \/ DecodeCrash \/ UNCHANGED vars
        PROVE  LinesInv' /\ ForwardDefined'
    <2>1. /\ lines' = lines /\ skipped' = skipped /\ index' = index /\ labels' = labels
          /\ pc' \in {"decode", "dead"} \/ pc \notin {"decode", "dead"}
      BY <1>4 DEF Finish, ComputeSize, SizeStart, SizeStop, SizeReturn, SizeStep, Sized,
                  ExtractStart, ExtractDone, DecodeCrash, vars
    <2> QED BY <1>2, <1>3, <2>1
  <1>5. ASSUME ExtractStep PROVE LinesInv' /\ ForwardDefined'
    <2>1. /\ lines' = lines /\ skipped' = skipped /\ index' = index /\ labels \subseteq labels'
          /\ pc = "extract" /\ pc' = "extract"
      BY <1>5 DEF ExtractStep
    <2>2. LinesInv'
      BY <2>1 DEF LinesInv
    <2> QED BY <1>2, <2>1, <2>2
  <1>6. ASSUME NextSection, lines' = lines PROVE LinesInv' /\ ForwardDefined'
    <2>1. /\ skipped' = skipped /\ labels' = labels /\ index' = index + 1 /\ pc' = "next"
      BY <1>6 DEF NextSection
    <2>2. \A l \in lines : l.section # index + 1 /\ l.section <= index + 1
      BY <1>1 DEF LinesInv
    <2>3. LinesInv'
      BY <1>6, <2>1, <2>2 DEF LinesInv
    <2> QED BY <1>2, <1>6, <2>1, <2>3
  <1>7. ASSUME ExtractOutOfMemory PROVE LinesInv' /\ ForwardDefined'
    <2>1. /\ skipped' = TRUE /\ lines' = lines /\ index' = index + 1
      BY <1>7 DEF ExtractOutOfMemory
    <2>2. \A l \in lines : l.section # index + 1 /\ l.section <= index + 1
      BY <1>1 DEF LinesInv
    <2> QED BY <2>1, <2>2 DEF LinesInv, ForwardDefined
  <1>8. ASSUME DecodeStep \/ DecodeLast PROVE LinesInv' /\ ForwardDefined'
    <2>1. PICK n : n = Line(logical)
      OBVIOUS
    <2>2. /\ pc = "decode" /\ lines' = lines \union {n} /\ skipped' = skipped /\ labels' = labels
      BY <1>8, <2>1 DEF DecodeStep, DecodeLast, NextSection
    <2>3. /\ n.section = index
          /\ n.named <=> Address(n) \in labels
          /\ n.target # NoTarget => n.target \in labels
      BY <1>8, <2>1, LineResult DEF DecodeStep, DecodeLast
    <2>4. \A l \in lines' : l.section \in Nat /\ l.section <= index
      BY <1>1, <2>2, <2>3 DEF LinesInv
    <2>5. ~skipped => \A l \in lines' : l.target # NoTarget => l.target \in labels
      BY <2>2, <2>3 DEF LinesInv
    <2>6. \A m \in lines' : m.section = index => (m.named <=> Address(m) \in labels)
      BY <2>2, <2>3 DEF LinesInv
    <2>7. LinesInv'
      <3>1. CASE DecodeStep
        BY <2>2, <2>4, <2>5, <2>6, <3>1 DEF LinesInv, DecodeStep
      <3>2. CASE DecodeLast
        <4>1. index' = index + 1
          BY <3>2 DEF DecodeLast, NextSection
        <4>2. \A l \in lines' : l.section # index + 1 /\ l.section <= index + 1
          BY <1>1, <2>4
        <4> QED BY <2>2, <2>4, <2>5, <4>1, <4>2 DEF LinesInv
      <3> QED BY <1>8, <3>1, <3>2
    <2>8. ForwardDefined'
      <3> SUFFICES ASSUME ~skipped, NEW l \in lines', NEW m \in lines',
                          l.target = Address(m), l.section <= m.section
                   PROVE  m.named
        BY <2>2 DEF ForwardDefined, Address
      <3>1. l.target # NoTarget
        BY DEF Address, NoTarget
      <3>2. l.target \in labels
        BY <2>5, <3>1
      <3>3. CASE m.section = index
        BY <2>6, <3>2, <3>3
      <3>4. CASE m.section # index
        <4>1. m.section < index /\ m \in lines
          BY <1>1, <2>2, <2>3, <2>4, <3>4
        <4>2. l \in lines
          BY <1>1, <2>2, <2>3, <2>4, <4>1
        <4> QED BY <4>1, <4>2 DEF ForwardDefined, Address
      <3> QED BY <3>3, <3>4
    <2> QED BY <2>7, <2>8
  <1> QED BY <1>4, <1>5, <1>6, <1>7, <1>8 DEF Next, PassOver, LabelExtract, Decode

\* A jump forward, or within its section, finds its label in the output.
THEOREM ForwardDefinedCorrect == Spec => []ForwardDefined
<1>1. Init => LinesInv /\ ForwardDefined
  BY DEF Init, LinesInv, ForwardDefined
<1>2. TypeOK /\ (LinesInv /\ ForwardDefined) /\ [Next]_vars => (LinesInv /\ ForwardDefined)'
  BY LinesStep
<1> QED BY <1>1, <1>2, TypeCorrect, PTL DEF Spec

-----------------------------------------------------------------------------
(* The end of the walks of label_extract and decode.                       *)

\* A bound on what is left of them for a section that fits.  The cursor of
\* decode is past the end of an empty section, and may wrap once.
WalkLeft ==
    CASE pc = "extract" -> (IF logical < End THEN End - logical ELSE 0) + WordSize + 2
      [] pc = "decode"  -> IF logical < End THEN End - logical ELSE WordSize + 1
      [] OTHER          -> 0

Shortened(left, leftNext) == left \in Nat /\ leftNext \in Nat /\ leftNext < left

\* label_extract and decode do not go round in the address space: each
\* instruction brings them nearer to the end of a section that ends before it,
\* whatever the bytes of the section are.
THEOREM WalksAdvance ==
    Spec => [][Fits /\ pc \in {"extract", "decode"} => Shortened(WalkLeft, WalkLeft')]_vars
<1>1. TypeOK /\ [Next]_vars =>
          [Fits /\ pc \in {"extract", "decode"} => Shortened(WalkLeft, WalkLeft')]_vars
  <2> SUFFICES ASSUME TypeOK, Next, pc \in {"extract", "decode"}, Fits
               PROVE  Shortened(WalkLeft, WalkLeft')
    OBVIOUS
  <2>1. /\ index <= Len(arr) /\ logical \in Word /\ logical \in Int /\ 0 <= logical
        /\ WordSize \in Nat \ {0} /\ logical < WordSize
    BY Widths DEF TypeOK, Word
  <2>2. Current.logical \in Int /\ 0 <= Current.logical /\ Current.logical < WordSize /\ End \in Int
    <3>1. Current \in Section
      BY <2>1, ReadType
    <3>2. Current.logical \in Int /\ 0 <= Current.logical /\ Current.logical < WordSize
          /\ Current.size \in Int
      BY <3>1, Widths DEF Section, Word, Int32
    <3> QED BY <3>2 DEF End
  <2>3. End < WordSize
    BY <2>1, <2>2 DEF Fits
  <2>4. After(logical) \in Int /\ 0 <= After(logical) /\ After(logical) < WordSize
    <3>1. After(logical) \in Word
      BY <2>1, ReadType
    <3> QED BY <3>1, Widths DEF Word
  <2>5. ASSUME logical < End PROVE logical < After(logical)
    <3>1. PICK n \in 1..7 : n = Size(Inst(logical))
      BY SizeRange
    <3>2. logical + n \in 0..(WordSize - 1)
      BY <2>1, <2>2, <2>5, <3>1 DEF Fits
    <3>3. After(logical) = logical + n
      BY <2>1, <3>1, <3>2, ModSmall DEF After
    <3> QED BY <2>1, <3>1, <3>3
  <2>6. WalkLeft \in Nat /\ WalkLeft > 0
    <3>1. CASE pc = "extract"
      BY <2>1, <2>2, <3>1 DEF WalkLeft
    <3>2. CASE pc = "decode"
      BY <2>1, <2>2, <3>2 DEF WalkLeft
    <3> QED BY <3>1, <3>2
  <2>7. ASSUME pc' \notin {"extract", "decode"} PROVE Shortened(WalkLeft, WalkLeft')
    <3>1. WalkLeft' = 0
      BY <2>7 DEF WalkLeft
    <3> QED BY <2>6, <3>1 DEF Shortened
  <2>8. ASSUME ExtractStep PROVE Shortened(WalkLeft, WalkLeft')
    <3>1. pc = "extract" /\ pc' = "extract" /\ logical < End /\ logical' = After(logical)
          /\ arr' = arr /\ index' = index
      BY <2>8 DEF ExtractStep
    <3>2. End' = End
      BY <3>1 DEF End, Current
    <3>3. WalkLeft = (End - logical) + WordSize + 2
      BY <3>1 DEF WalkLeft
    <3>4. WalkLeft' = (IF After(logical) < End THEN End - After(logical) ELSE 0) + WordSize + 2
      BY <3>1, <3>2 DEF WalkLeft
    <3> QED BY <2>1, <2>2, <2>4, <2>5, <3>1, <3>3, <3>4 DEF Shortened
  <2>9. ASSUME ExtractDone PROVE Shortened(WalkLeft, WalkLeft')
    <3>1. pc = "extract" /\ pc' = "decode" /\ ~(logical < End) /\ logical' = Current.logical
          /\ arr' = arr /\ index' = index
      BY <2>1, <2>2, <2>9 DEF ExtractDone
    <3>2. End' = End
      BY <3>1 DEF End, Current
    <3>3. WalkLeft = 0 + WordSize + 2
      BY <3>1 DEF WalkLeft
    <3>4. WalkLeft' = IF Current.logical < End THEN End - Current.logical ELSE WordSize + 1
      BY <3>1, <3>2 DEF WalkLeft
    <3> QED BY <2>1, <2>2, <2>3, <3>3, <3>4 DEF Shortened
  <2>10. ASSUME DecodeStep PROVE Shortened(WalkLeft, WalkLeft')
    <3>1. pc = "decode" /\ pc' = "decode" /\ After(logical) < End /\ logical' = After(logical)
          /\ arr' = arr /\ index' = index
      BY <2>10 DEF DecodeStep
    <3>2. End' = End
      BY <3>1 DEF End, Current
    <3>3. WalkLeft = IF logical < End THEN End - logical ELSE WordSize + 1
      BY <3>1 DEF WalkLeft
    <3>4. WalkLeft' = End - After(logical)
      BY <3>1, <3>2 DEF WalkLeft
    <3> QED BY <2>1, <2>2, <2>3, <2>4, <2>5, <3>1, <3>3, <3>4 DEF Shortened
  <2>11. ExtractOutOfMemory \/ DecodeCrash \/ DecodeLast => pc' \notin {"extract", "decode"}
    BY DEF ExtractOutOfMemory, DecodeCrash, DecodeLast, NextSection
  <2>12. ~(PassOver \/ ComputeSize \/ ExtractStart \/ Finish)
    BY DEF PassOver, ComputeSize, SizeStart, SizeStop, SizeReturn, SizeStep, ExtractStart, Finish
  <2> QED BY <2>7, <2>8, <2>9, <2>10, <2>11, <2>12 DEF Next, LabelExtract, Decode
<1> QED BY <1>1, TypeCorrect, PTL DEF Spec

=============================================================================
