--------------------------- MODULE ProgramProofs ---------------------------
(***************************************************************************)
(* What holds of main for every configuration, set of vectors, disc header *)
(* and number of options.                                                  *)
(***************************************************************************)
EXTENDS Program, TLAPS

-----------------------------------------------------------------------------
(* Sections.                                                               *)

LEMMA FreeTokenType ==
    ASSUME BlockLeft
    PROVE  FreeToken \in Tokens
  BY DEF BlockLeft, FreeToken

LEMMA OwningType ==
    ASSUME NEW s \in BareSection, NEW t \in Tokens
    PROVE  Owning(s, t) \in SectionType
  BY DEF Owning, BareSection, SectionType

\* The sections of a configuration file are complete.
LEMMA ParsedType ==
    ASSUME NEW c \in Configs, NEW k \in 1..Len(c), Accepted(c[k])
    PROVE  Parsed(c[k]) \in BareSection
  <1> DEFINE o == c[k]
             d == IF o.data = Missing THEN NoConfig ELSE o.data
  <1>1. o.type \in {"code", "data"}
    BY DEF Accepted, AcceptedToOutput
  <1>2. d.type \in DataTypes \union {"unknown"}
    BY DEF Accepted, DataAccepted, ConfigAccepted, NoConfig
  <1>3. Given(d.element, DefaultElementSize) \in Int
    <2>1. CASE o.data = Missing
      BY <2>1 DEF NoConfig, Given, DefaultElementSize
    <2>2. CASE o.data # Missing
      BY <2>2 DEF Accepted, DataAccepted, ConfigAccepted, Given, DefaultElementSize
    <2> QED BY <2>1, <2>2
  <1>4. o.page \in Nat /\ o.logical \in 0..(WordSize - 1)
    BY ConfigsAssumption DEF Accepted, AcceptedToOutput
  <1>5. Given(o.size, 0) \in Int
    BY ConfigsAssumption DEF Accepted, AcceptedToOutput, Given
  <1>6. o.output \in Outputs
    <2>1. o.output \notin {Missing, Bad}
      BY DEF Accepted, AcceptedToOutput
    <2> DEFINE Named(x) == {x[j].output : j \in 1..Len(x)} \ {Missing, Bad}
    <2>2. o.output \in Named(c)
      BY <2>1
    <2>3. UNION {Named(x) : x \in Configs} \subseteq Outputs
      BY DEF Outputs
    <2> HIDE DEF Named, o
    <2> QED BY <2>2, <2>3
  <1>7. (o.offset # Missing) \in BOOLEAN
    OBVIOUS
  <1> QED BY <1>1, <1>2, <1>3, <1>4, <1>5, <1>6, <1>7 DEF Parsed, BareSection

\* So are those of the vectors, and the table of them.
LEMMA VectorsType ==
    ASSUME NEW v \in Vectors, NEW k \in 1..IrqCount
    PROVE  IrqSection(v[k], IrqOutputs[k]) \in BareSection
  <1>1. IrqOutputs[k] \in Outputs
    BY DEF Outputs
  <1> QED BY <1>1, VectorsAssumption DEF IrqSection, BareSection, DataTypes

LEMMA TableType == IrqTable \in BareSection
  <1>1. TableFile \in Outputs
    BY DEF Outputs
  <1> QED BY <1>1, VectorsAssumption, WordAssumption DEF IrqTable, BareSection, DataTypes

\* A merged section starts where one of the two did.
LEMMA MergedType ==
    ASSUME NEW a \in SectionType, NEW b \in SectionType, Array!Overlap(a, b) = 1
    PROVE  /\ Array!Merge(a, b) \in SectionType
           /\ Array!Merge(a, b).output = a.output
           /\ Address(Array!Merge(a, b)) \in {Address(a), Address(b)}
  <1> DEFINE begin == Array!Minu16(a.logical, b.logical)
             end   == Array!Maxi32(Array!End(a), Array!End(b))
  <1>1. begin \in {a.logical, b.logical}
    BY DEF Array!Minu16
  <1>2. end \in Int
    BY WordAssumption DEF Array!Maxi32, Array!End, SectionType
  <1>3. a.page = b.page
    BY DEF Array!Overlap
  <1>4. Array!Merge(a, b) = [a EXCEPT !.logical = begin, !.size = end - begin]
    BY DEF Array!Merge
  <1> HIDE DEF begin, end
  <1>5. begin \in 0..(WordSize - 1) /\ end - begin \in Int
    BY <1>1, <1>2, WordAssumption DEF SectionType
  <1>6. /\ Array!Merge(a, b) \in SectionType
        /\ Array!Merge(a, b).output = a.output
        /\ Array!Merge(a, b).page = a.page
        /\ Array!Merge(a, b).logical = begin
    BY <1>4, <1>5 DEF SectionType
  <1> QED BY <1>1, <1>3, <1>6 DEF Address

-----------------------------------------------------------------------------
(* The parts of main: what comes before the disassembly is prepared leaves *)
(* the outputs alone.                                                      *)

Early == {"start", "options", "map", "sections", "objects", "labels",
          "comments", "rom", "irq", "vectors"}

EarlyNext ==
    \/ StartFail \/ Start
    \/ \E kind \in {"labels", "comments"} : Option(kind)
    \/ Usage
    \/ \E cfg, irq, cdrom \in BOOLEAN : CommandParsed(cfg, irq, cdrom)
    \/ MapInit
    \/ NoSections \/ OpenSections \/ LoadObject \/ SectionsLoaded
    \/ \E kind \in {"labels", "comments"} : LoadTexts(kind)
    \/ LoadRom
    \/ NoIrq \/ NoVectors \/ ReadVectors \/ AddVector \/ SkipVector \/ VectorsAdded

LateNext ==
    \/ ResetOutput \/ OutputsReset \/ FillLabel \/ Filled
    \/ TidyStep \/ OutputMain
    \/ SkipSection \/ LoadedFromDisc \/ Extract \/ Overrun \/ Disassembled
    \/ LabelOutput \/ Release

LEMMA NextParts == Next => EarlyNext \/ LateNext
  BY Zenon DEF Next, EarlyNext, LateNext

LEMMA LoadTextsStep ==
    ASSUME NEW kind \in {"labels", "comments"}, LoadTexts(kind)
    PROVE  /\ stage = kind
           /\ stage' \in {kind, After[kind], "release", "dead"}
           /\ UNCHANGED <<arrayVars, lists, options, objects, outVars>>
  <1>1. CASE CreateFail(kind) \/ LoadNamed(kind)
    BY <1>1 DEF CreateFail, LoadNamed, Go, Iterate, outVars, setupVars, arrayVars
  <1>2. CASE LoadsEnd(kind) \/ LoadsAstray(kind)
    BY <1>2 DEF LoadsEnd, LoadsAstray, Go, Die, loopVars, outVars, setupVars, arrayVars
  <1> QED BY <1>1, <1>2 DEF LoadTexts

LEMMA EarlyStep ==
    ASSUME EarlyNext
    PROVE  /\ stage \in Early
           /\ stage' \in Early \union {"reset", "release", "dead"}
           /\ UNCHANGED outVars
  <1>1. CASE \/ StartFail \/ Start \/ Usage \/ MapInit
             \/ \E cfg, irq, cdrom \in BOOLEAN : CommandParsed(cfg, irq, cdrom)
    BY <1>1 DEF StartFail, Start, Usage, MapInit, CommandParsed, Go, Early
  <1>2. CASE \E kind \in {"labels", "comments"} : Option(kind)
    BY <1>2 DEF Option, Die, Early
  <1>3. CASE NoSections \/ OpenSections \/ SectionsLoaded \/ LoadRom
    BY <1>3 DEF NoSections, OpenSections, SectionsLoaded, LoadRom, Go, Early
  <1>4. CASE LoadObject
    BY <1>4 DEF LoadObject, AddSection, Iterate, Early
  <1>5. CASE \E kind \in {"labels", "comments"} : LoadTexts(kind)
    BY <1>5, LoadTextsStep DEF After, Early
  <1>6. CASE NoIrq \/ NoVectors \/ ReadVectors \/ VectorsAdded
    BY <1>6 DEF NoIrq, NoVectors, ReadVectors, VectorsAdded, Go, Early
  <1>7. CASE AddVector \/ SkipVector
    BY <1>7 DEF AddVector, SkipVector, AddSection, Iterate, Early
  <1> QED BY <1>1, <1>2, <1>3, <1>4, <1>5, <1>6, <1>7 DEF EarlyNext

\* Who changes the array, and the lists of names.
LEMMA ArrayChanges ==
    ASSUME Next
    PROVE  LoadObject \/ AddVector \/ TidyStep \/ Release \/ UNCHANGED arrayVars
  <1>1. CASE \/ StartFail \/ Start \/ Usage \/ MapInit
             \/ \E cfg, irq, cdrom \in BOOLEAN : CommandParsed(cfg, irq, cdrom)
    BY <1>1 DEF StartFail, Start, Usage, MapInit, CommandParsed
  <1>2. CASE \E kind \in {"labels", "comments"} : Option(kind)
    BY <1>2 DEF Option
  <1>3. CASE NoSections \/ OpenSections \/ SectionsLoaded \/ LoadRom
    BY <1>3 DEF NoSections, OpenSections, SectionsLoaded, LoadRom
  <1>4. CASE \E kind \in {"labels", "comments"} : LoadTexts(kind)
    BY <1>4, LoadTextsStep
  <1>5. CASE NoIrq \/ NoVectors \/ ReadVectors \/ SkipVector \/ VectorsAdded
    BY <1>5 DEF NoIrq, NoVectors, ReadVectors, SkipVector, VectorsAdded
  <1>6. CASE ResetOutput \/ OutputsReset \/ FillLabel \/ Filled \/ OutputMain
    BY <1>6 DEF ResetOutput, OutputsReset, FillLabel, Filled, OutputMain
  <1>7. CASE \/ SkipSection \/ LoadedFromDisc \/ Extract \/ Overrun
             \/ Disassembled \/ LabelOutput
    BY <1>7 DEF SkipSection, LoadedFromDisc, Extract, Overrun, Disassembled, LabelOutput
  <1> QED BY <1>1, <1>2, <1>3, <1>4, <1>5, <1>6, <1>7, Zenon DEF Next

LEMMA ListsChange ==
    ASSUME Next
    PROVE  \/ \E kind \in {"labels", "comments"} : Option(kind)
           \/ Release
           \/ UNCHANGED lists
  <1>1. CASE \/ StartFail \/ Start \/ Usage \/ MapInit
             \/ \E cfg, irq, cdrom \in BOOLEAN : CommandParsed(cfg, irq, cdrom)
    BY <1>1 DEF StartFail, Start, Usage, MapInit, CommandParsed, setupVars
  <1>2. CASE \/ NoSections \/ OpenSections \/ LoadObject \/ SectionsLoaded \/ LoadRom
             \/ \E kind \in {"labels", "comments"} : LoadTexts(kind)
    BY <1>2, LoadTextsStep
    DEF NoSections, OpenSections, LoadObject, SectionsLoaded, LoadRom, setupVars
  <1>3. CASE NoIrq \/ NoVectors \/ ReadVectors \/ AddVector \/ SkipVector \/ VectorsAdded
    BY <1>3 DEF NoIrq, NoVectors, ReadVectors, AddVector, SkipVector, VectorsAdded, setupVars
  <1>4. CASE \/ ResetOutput \/ OutputsReset \/ FillLabel \/ Filled
             \/ TidyStep \/ OutputMain
    BY <1>4 DEF ResetOutput, OutputsReset, FillLabel, Filled, TidyStep, OutputMain, setupVars
  <1>5. CASE \/ SkipSection \/ LoadedFromDisc \/ Extract \/ Overrun
             \/ Disassembled \/ LabelOutput
    BY <1>5 DEF SkipSection, LoadedFromDisc, Extract, Overrun, Disassembled, LabelOutput,
                setupVars
  <1> QED BY <1>1, <1>2, <1>3, <1>4, <1>5, Zenon DEF Next

-----------------------------------------------------------------------------
(* Types.                                                                  *)

ArrayType ==
    /\ data \in Seq(SectionType)
    /\ section \in Seq(SectionType)
    /\ heap \subseteq Tokens
    /\ capacity \in Nat
    /\ alloc \in Nat
    /\ next \in Nat \ {0}
    /\ pc \in {"idle", "merge", "dead"}
    /\ pc = "merge" => section # <<>>

ListType == [size : Nat, capacity : Nat, cells : Seq({"name", Zero, Junk})]

\* What the loops over objects are over.
ObjectsType ==
    /\ stage = "objects" => objects \in Configs
    /\ stage = "vectors" => objects \in Seq(BareSection)

MainType ==
    /\ stage \in Stages
    /\ printers \in {<<>>, <<"console", "file">>}
    /\ n \in Nat \ {0}
    /\ good \in BOOLEAN
    /\ files \in [Outputs -> Seq({Old, "labels"} \union Tokens)]
    /\ skipped \subseteq Nat
    /\ status \in {"success", "failure"}

TypeInv ==
    /\ ArrayType
    /\ lists \in [labels : ListType, comments : ListType]
    /\ ObjectsType
    /\ MainType

LEMMA TypeInvOK == TypeInv => TypeOK
  BY DEF TypeInv, ArrayType, ListType, MainType, TypeOK

LEMMA AddSectionType ==
    ASSUME ArrayType, NEW at, NEW s \in BareSection, AddSection(at, s)
    PROVE  ArrayType'
  <1> DEFINE new == Owning(s, FreeToken)
  <1>1. FreeToken \in Tokens
    BY FreeTokenType DEF AddSection
  <1>2. new \in SectionType /\ new.str \in Tokens
    BY <1>1, OwningType DEF Owning
  <1>3. \E room : Array!Push(new, room)
    BY DEF AddSection, Array!AddInPlace, Array!AddGrow
  <1>4. capacity' \in Nat /\ alloc' \in Nat
    BY WordAssumption DEF AddSection, Array!AddInPlace, Array!AddGrow, ArrayType
  <1> HIDE DEF new
  <1>5. /\ data' = Append(data, new)
        /\ heap' = heap \union {new.str}
        /\ pc' \in {"idle", "dead"}
        /\ next' = next /\ section' = section
    BY <1>3 DEF Array!Push
  <1>6. data' \in Seq(SectionType)
    BY <1>2, <1>5 DEF ArrayType
  <1> QED BY <1>2, <1>4, <1>5, <1>6 DEF ArrayType

LEMMA TidyType ==
    ASSUME ArrayType, Array!Tidy
    PROVE  ArrayType'
  <1>1. CASE Array!TidyStart
    <2>1. PICK r \in Array!Sorts(data) : data' = [k \in 1..Len(data) |-> data[r[k]]]
      BY <1>1 DEF Array!TidyStart
    <2>2. \A k \in 1..Len(data) : r[k] \in 1..Len(data)
      BY <2>1 DEF Array!Sorts, Array!Bijection, Array!Injection, Array!Surjection
    <2>3. Len(data) \in Nat /\ Len(data) # 0 /\ data' \in Seq(SectionType)
      <3>1. Len(data) \in Nat /\ Len(data) # 0
        BY <1>1 DEF Array!TidyStart, ArrayType
      <3>2. \A k \in 1..Len(data) : data[r[k]] \in SectionType
        BY <2>2 DEF ArrayType
      <3> QED BY <2>1, <3>1, <3>2
    <2>4. data'[1] \in SectionType
      BY <2>1, <2>2, <2>3 DEF ArrayType
    <2>5. section' \in Seq(SectionType) /\ section' # <<>>
      BY <1>1, <2>4 DEF Array!TidyStart
    <2> QED BY <1>1, <2>3, <2>5 DEF Array!TidyStart, ArrayType
  <1>2. CASE Array!TidyOutOfMemory
    BY <1>2 DEF Array!TidyOutOfMemory, ArrayType
  <1>3. CASE Array!TidyMerge
    <2> DEFINE merged == Array!Merge(section[Len(section)], data[next])
    <2>1. Len(section) \in 1..Len(section) /\ next \in 1..Len(data)
      BY <1>3 DEF Array!TidyMerge, ArrayType
    <2>2. section[Len(section)] \in SectionType /\ data[next] \in SectionType
      BY <2>1 DEF ArrayType
    <2>3. merged \in SectionType
      BY <1>3, <2>2, MergedType DEF Array!TidyMerge
    <2>4. section' = [section EXCEPT ![Len(section)] = merged]
      BY <1>3 DEF Array!TidyMerge
    <2> HIDE DEF merged
    <2>5. section' \in Seq(SectionType) /\ section' # <<>>
      BY <2>1, <2>3, <2>4 DEF ArrayType
    <2> QED BY <1>3, <2>5 DEF Array!TidyMerge, ArrayType
  <1>4. CASE Array!TidyKeep
    <2>1. next \in 1..Len(data)
      BY <1>4 DEF Array!TidyKeep, ArrayType
    <2>2. data[next] \in SectionType
      BY <2>1 DEF ArrayType
    <2> QED BY <1>4, <2>2 DEF Array!TidyKeep, ArrayType
  <1>5. CASE Array!TidyDone
    BY <1>5 DEF Array!TidyDone, ArrayType
  <1> QED BY <1>1, <1>2, <1>3, <1>4, <1>5 DEF Array!Tidy

LEMMA ArrayTypeStep ==
    ASSUME TypeInv, Next
    PROVE  ArrayType'
  <1> USE DEF TypeInv
  <1>1. CASE LoadObject
    <2>1. n \in 1..Len(objects) /\ stage = "objects" /\ objects \in Configs
      BY <1>1, ConfigsAssumption DEF LoadObject, AddSection, Iterate, ObjectsType, MainType
    <2>2. CASE AddSection("objects", Parsed(objects[n])) /\ Accepted(objects[n])
      BY <2>1, <2>2, ParsedType, AddSectionType
    <2>3. CASE UNCHANGED arrayVars
      BY <2>3 DEF arrayVars, ArrayType
    <2>4. CASE /\ LeaksOutput(objects[n]) => BlockLeft
               /\ heap' = heap \union (IF LeaksOutput(objects[n]) THEN {FreeToken} ELSE {})
               /\ UNCHANGED <<data, capacity, alloc, pc, next, section, given, tidied>>
      BY <2>4, FreeTokenType DEF ArrayType
    <2> QED BY <1>1, <2>2, <2>3, <2>4 DEF LoadObject
  <1>2. CASE AddVector
    <2>1. stage = "vectors" /\ objects[n] \in BareSection
      BY <1>2 DEF AddVector, AddSection, Iterate, ObjectsType, MainType
    <2>2. CASE AddSection("vectors", objects[n])
      BY <2>1, <2>2, AddSectionType
    <2>3. CASE /\ options.cdrom \/ BlockLeft
               /\ heap' = heap \union (IF options.cdrom THEN {} ELSE {FreeToken})
               /\ UNCHANGED <<data, capacity, alloc, pc, next, section, given, tidied>>
      BY <2>3, FreeTokenType DEF ArrayType
    <2> QED BY <1>2, <2>2, <2>3 DEF AddVector
  <1>3. CASE TidyStep
    BY <1>3, TidyType DEF TidyStep
  <1>4. CASE Release
    BY <1>4 DEF Release, Array!Delete, ArrayType
  <1>5. CASE UNCHANGED arrayVars
    BY <1>5 DEF arrayVars, ArrayType
  <1> QED BY <1>1, <1>2, <1>3, <1>4, <1>5, ArrayChanges

LEMMA GrownType ==
    ASSUME NEW p \in ListType
    PROVE  /\ Grown(p, "name") \in ListType
           /\ NotGrown(p) \in ListType
           /\ Fits(p) => Stored(p, "name") \in ListType
  <1>1. Grown(p, "name").cells \in Seq({"name", Zero, Junk})
    BY DEF Grown, ListType, ListIncrement
  <1>2. Fits(p) => [p.cells EXCEPT ![p.size + 1] = "name"] \in Seq({"name", Zero, Junk})
    BY DEF Fits, ListType
  <1> QED BY <1>1, <1>2 DEF Grown, NotGrown, Stored, ListType, ListIncrement

\* An option changes its own list.
LEMMA OptionEffect ==
    ASSUME NEW kind \in {"labels", "comments"}, Option(kind)
    PROVE  \/ /\ lists' = [lists EXCEPT ![kind] = Grown(@, "name")]
              /\ Full(lists[kind])
              /\ stage' = stage
           \/ /\ lists' = [lists EXCEPT ![kind] = NotGrown(@)]
              /\ Full(lists[kind])
              /\ stage' = stage
           \/ /\ lists' = [lists EXCEPT ![kind] = Stored(@, "name")]
              /\ ~Full(lists[kind])
              /\ Fits(lists[kind])
              /\ stage' = stage
           \/ /\ lists' = lists
              /\ ~Full(lists[kind])
              /\ ~Fits(lists[kind])
              /\ stage' = "dead"
  BY DEF Option, Die

LEMMA ListsTypeStep ==
    ASSUME TypeInv, Next
    PROVE  lists' \in [labels : ListType, comments : ListType]
  <1>1. lists \in [labels : ListType, comments : ListType]
    BY DEF TypeInv
  <1>2. ASSUME NEW kind \in {"labels", "comments"}, Option(kind)
        PROVE  lists' \in [labels : ListType, comments : ListType]
    <2>1. lists[kind] \in ListType
      BY <1>1
    <2>2. /\ Grown(lists[kind], "name") \in ListType
          /\ NotGrown(lists[kind]) \in ListType
          /\ Fits(lists[kind]) => Stored(lists[kind], "name") \in ListType
      BY <2>1, GrownType
    <2> QED BY <1>1, <1>2, <2>2, OptionEffect
  <1>3. CASE Release
    BY <1>3 DEF Release, NoList, ListType
  <1>4. CASE UNCHANGED lists
    BY <1>1, <1>4
  <1> QED BY <1>2, <1>3, <1>4, ListsChange

LEMMA ObjectsTypeStep ==
    ASSUME TypeInv, Next
    PROVE  ObjectsType'
  <1> USE DEF TypeInv
  <1>1. CASE \/ StartFail \/ Start \/ Usage \/ MapInit
             \/ \E cfg, irq, cdrom \in BOOLEAN : CommandParsed(cfg, irq, cdrom)
    BY <1>1 DEF StartFail, Start, Usage, MapInit, CommandParsed, Go, ObjectsType
  <1>2. CASE \/ \E kind \in {"labels", "comments"} : Option(kind)
             \/ \E kind \in {"labels", "comments"} : LoadTexts(kind)
    BY <1>2, LoadTextsStep DEF Option, Die, loopVars, After, ObjectsType
  <1>3. CASE NoSections \/ OpenSections \/ SectionsLoaded \/ LoadRom
    BY <1>3 DEF NoSections, OpenSections, SectionsLoaded, LoadRom, Go, ObjectsType
  <1>4. CASE LoadObject
    BY <1>4 DEF LoadObject, AddSection, Iterate, ObjectsType
  <1>5. CASE NoIrq \/ NoVectors \/ VectorsAdded
    BY <1>5 DEF NoIrq, NoVectors, VectorsAdded, Go, ObjectsType
  <1>6. CASE ReadVectors
    <2>1. CASE options.cdrom
      BY <1>6, <2>1, IplsAssumption DEF ReadVectors, ObjectsType
    <2>2. CASE ~options.cdrom
      <3>1. PICK v \in Vectors :
              objects' = Append([k \in 1..IrqCount |-> IrqSection(v[k], IrqOutputs[k])],
                                IrqTable)
        BY <1>6, <2>2 DEF ReadVectors
      <3>2. [k \in 1..IrqCount |-> IrqSection(v[k], IrqOutputs[k])] \in Seq(BareSection)
        BY VectorsType, VectorsAssumption
      <3>3. objects' \in Seq(BareSection)
        BY <3>1, <3>2, TableType
      <3> QED BY <1>6, <2>2, <3>3 DEF ReadVectors, ObjectsType
    <2> QED BY <2>1, <2>2
  <1>7. CASE AddVector \/ SkipVector
    BY <1>7 DEF AddVector, SkipVector, AddSection, Iterate, ObjectsType
  <1>8. CASE ResetOutput \/ OutputsReset \/ FillLabel \/ Filled \/ OutputMain
    BY <1>8 DEF ResetOutput, OutputsReset, FillLabel, Filled, OutputMain, Go, Iterate,
                ObjectsType
  <1>9. CASE TidyStep \/ Overrun
    BY <1>9 DEF TidyStep, Overrun, Die, loopVars, ObjectsType
  <1>10. CASE \/ SkipSection \/ LoadedFromDisc \/ Extract \/ Disassembled
              \/ LabelOutput \/ Release
    BY <1>10 DEF SkipSection, LoadedFromDisc, Extract, Disassembled, LabelOutput, Release,
                 Go, Iterate, ObjectsType
  <1> QED BY <1>1, <1>2, <1>3, <1>4, <1>5, <1>6, <1>7, <1>8, <1>9, <1>10, NextParts
       DEF EarlyNext, LateNext

\* The parts of MainType: where main is, and what the outputs hold.
OutputType ==
    /\ files \in [Outputs -> Seq({Old, "labels"} \union Tokens)]
    /\ skipped \subseteq Nat
    /\ status \in {"success", "failure"}

LEMMA StageStep ==
    ASSUME TypeInv, Next
    PROVE  stage' \in Stages
  <1>1. CASE EarlyNext
    BY <1>1, EarlyStep DEF Early, Stages
  <1>2. CASE ResetOutput \/ OutputsReset \/ FillLabel \/ Filled \/ OutputMain
    BY <1>2 DEF ResetOutput, OutputsReset, FillLabel, Filled, OutputMain, Go, Iterate, Stages
  <1>3. CASE TidyStep \/ Overrun
    BY <1>3 DEF TidyStep, Overrun, Die, Stages
  <1>4. CASE \/ SkipSection \/ LoadedFromDisc \/ Extract \/ Disassembled
             \/ LabelOutput \/ Release
    BY <1>4 DEF SkipSection, LoadedFromDisc, Extract, Disassembled, LabelOutput, Release,
                Go, Iterate, Stages
  <1> QED BY <1>1, <1>2, <1>3, <1>4, NextParts DEF LateNext

\* The counter of a loop starts over, stays, or goes on.
LEMMA CounterStep ==
    ASSUME TypeInv, Next
    PROVE  n' \in {1, n, n + 1} /\ good' \in BOOLEAN
  <1>0. n \in Nat \ {0} /\ good \in BOOLEAN
    BY DEF TypeInv, MainType
  <1>1. CASE \/ StartFail \/ Start \/ Usage \/ MapInit
             \/ \E cfg, irq, cdrom \in BOOLEAN : CommandParsed(cfg, irq, cdrom)
    BY <1>1 DEF StartFail, Start, Usage, MapInit, CommandParsed, Go
  <1>2. CASE \E kind \in {"labels", "comments"} : Option(kind)
    BY <1>0, <1>2 DEF Option, loopVars
  <1>3. CASE NoSections \/ OpenSections \/ SectionsLoaded \/ LoadRom
    BY <1>0, <1>3 DEF NoSections, OpenSections, SectionsLoaded, LoadRom, Go
  <1>4. CASE LoadObject
    BY <1>0, <1>4 DEF LoadObject, AddSection, Iterate
  <1>5. ASSUME NEW kind \in {"labels", "comments"}, LoadTexts(kind)
        PROVE  n' \in {1, n, n + 1} /\ good' \in BOOLEAN
    BY <1>0, <1>5 DEF LoadTexts, CreateFail, LoadNamed, LoadsEnd, LoadsAstray, Go, Iterate,
                      loopVars
  <1>6. CASE NoIrq \/ NoVectors \/ ReadVectors \/ VectorsAdded
    BY <1>6 DEF NoIrq, NoVectors, ReadVectors, VectorsAdded, Go
  <1>7. CASE AddVector \/ SkipVector
    BY <1>0, <1>7 DEF AddVector, SkipVector, AddSection, Iterate
  <1>8. CASE ResetOutput \/ OutputsReset \/ FillLabel \/ Filled \/ OutputMain
    BY <1>0, <1>8 DEF ResetOutput, OutputsReset, FillLabel, Filled, OutputMain, Go, Iterate
  <1>9. CASE TidyStep \/ Overrun
    BY <1>0, <1>9 DEF TidyStep, Overrun, loopVars
  <1>10. CASE SkipSection \/ LoadedFromDisc \/ Disassembled \/ LabelOutput \/ Release
    BY <1>0, <1>10 DEF SkipSection, LoadedFromDisc, Disassembled, LabelOutput, Release,
                       Go, Iterate
  <1>11. CASE Extract
    <2>1. n' = n + 1 /\ good' = Extracts(data[n])
      BY <1>11 DEF Extract, Iterate
    <2>2. Extracts(data[n]) \in BOOLEAN
      BY DEF Extracts
    <2> QED BY <2>1, <2>2
  <1> QED BY <1>1, <1>2, <1>3, <1>4, <1>5, <1>6, <1>7, <1>8, <1>9, <1>10, <1>11, NextParts
       DEF EarlyNext, LateNext

LEMMA PrintersStep ==
    ASSUME TypeInv, Next
    PROVE  printers' \in {<<>>, <<"console", "file">>}
  <1>0. printers \in {<<>>, <<"console", "file">>}
    BY DEF TypeInv, MainType
  <1>1. CASE \/ StartFail \/ Start \/ Usage \/ MapInit
             \/ \E cfg, irq, cdrom \in BOOLEAN : CommandParsed(cfg, irq, cdrom)
    BY <1>0, <1>1 DEF StartFail, Start, Usage, MapInit, CommandParsed, setupVars
  <1>2. CASE \/ \E kind \in {"labels", "comments"} : Option(kind)
             \/ \E kind \in {"labels", "comments"} : LoadTexts(kind)
    BY <1>0, <1>2 DEF Option, LoadTexts, CreateFail, LoadNamed, LoadsEnd, LoadsAstray,
                      setupVars
  <1>3. CASE NoSections \/ OpenSections \/ LoadObject \/ SectionsLoaded \/ LoadRom
    BY <1>0, <1>3 DEF NoSections, OpenSections, LoadObject, SectionsLoaded, LoadRom, setupVars
  <1>4. CASE NoIrq \/ NoVectors \/ ReadVectors \/ AddVector \/ SkipVector \/ VectorsAdded
    BY <1>0, <1>4 DEF NoIrq, NoVectors, ReadVectors, AddVector, SkipVector, VectorsAdded,
                      setupVars
  <1>5. CASE \/ ResetOutput \/ OutputsReset \/ FillLabel \/ Filled
             \/ TidyStep \/ OutputMain
    BY <1>0, <1>5 DEF ResetOutput, OutputsReset, FillLabel, Filled, TidyStep, OutputMain,
                      setupVars
  <1>6. CASE \/ SkipSection \/ LoadedFromDisc \/ Extract \/ Overrun
             \/ Disassembled \/ LabelOutput \/ Release
    BY <1>0, <1>6 DEF SkipSection, LoadedFromDisc, Extract, Overrun, Disassembled,
                      LabelOutput, Release, setupVars
  <1> QED BY <1>1, <1>2, <1>3, <1>4, <1>5, <1>6, NextParts DEF EarlyNext, LateNext

LEMMA OutputTypeStep ==
    ASSUME TypeInv, Next
    PROVE  OutputType'
  <1>0. /\ OutputType
        /\ n \in Nat \ {0}
        /\ data \in Seq(SectionType)
    BY DEF TypeInv, ArrayType, MainType, OutputType
  <1>1. CASE EarlyNext
    BY <1>0, <1>1, EarlyStep DEF outVars, OutputType
  <1>2. CASE ResetOutput
    <2>1. files' \in [Outputs -> Seq({Old, "labels"} \union Tokens)]
      <3>1. <<>> \in Seq({Old, "labels"} \union Tokens)
        OBVIOUS
      <3>2. files' = files \/ files' = [files EXCEPT ![data[n].output] = <<>>]
        BY <1>2 DEF ResetOutput
      <3> QED BY <1>0, <3>1, <3>2, Zenon DEF OutputType
    <2> QED BY <1>0, <1>2, <2>1 DEF ResetOutput, OutputType
  <1>3. CASE OutputsReset \/ FillLabel \/ Filled \/ TidyStep
    BY <1>0, <1>3 DEF OutputsReset, FillLabel, Filled, TidyStep, outVars, OutputType
  <1>4. CASE OutputMain
    <2>1. files' \in [Outputs -> Seq({Old, "labels"} \union Tokens)]
      <3>1. <<"labels">> \in Seq({Old, "labels"} \union Tokens)
        OBVIOUS
      <3>2. files' = files \/ files' = [files EXCEPT ![MainFile] = <<"labels">>]
        BY <1>4 DEF OutputMain
      <3> QED BY <1>0, <3>1, <3>2, Zenon DEF OutputType
    <2> QED BY <1>0, <1>4, <2>1 DEF OutputMain, OutputType
  <1>5. CASE SkipSection \/ LoadedFromDisc \/ Overrun \/ Disassembled \/ LabelOutput \/ Release
    BY <1>0, <1>5 DEF SkipSection, LoadedFromDisc, Overrun, Disassembled, LabelOutput, Release,
                      outVars, OutputType
  <1>6. CASE Extract
    <2>1. n \in 1..Len(data)
      BY <1>0, <1>6 DEF Extract
    <2>2. data[n].output \in Outputs /\ data[n].str \in Tokens
      <3>1. data[n] \in SectionType
        BY <1>0, <2>1
      <3> QED BY <3>1 DEF SectionType
    <2>3. Append(files[data[n].output], data[n].str) \in Seq({Old, "labels"} \union Tokens)
      BY <1>0, <2>2 DEF OutputType
    <2> QED BY <1>0, <1>6, <2>2, <2>3 DEF Extract, OutputType
  <1> QED BY <1>1, <1>2, <1>3, <1>4, <1>5, <1>6, NextParts DEF LateNext

LEMMA TypeInvCorrect == Spec => []TypeInv
<1>1. Init => TypeInv
  BY WordAssumption
  DEF Init, Array!Init, TypeInv, ArrayType, ListType, NoList, ObjectsType, MainType, Stages
<1>2. TypeInv /\ [Next]_vars => TypeInv'
  <2> SUFFICES ASSUME TypeInv, [Next]_vars
               PROVE  TypeInv'
    OBVIOUS
  <2>1. CASE Next
    <3>1. ArrayType' /\ ObjectsType' /\ lists' \in [labels : ListType, comments : ListType]
      BY <2>1, ArrayTypeStep, ObjectsTypeStep, ListsTypeStep
    <3>2. n' \in Nat \ {0}
      BY <2>1, CounterStep DEF TypeInv, MainType
    <3>3. MainType'
      BY <2>1, <3>2, StageStep, PrintersStep, CounterStep, OutputTypeStep
      DEF MainType, OutputType
    <3> QED BY <3>1, <3>3 DEF TypeInv
  <2>2. CASE UNCHANGED vars
    BY <2>2 DEF vars, arrayVars, TypeInv, ArrayType, ObjectsType, MainType
  <2> QED BY <2>1, <2>2
<1> QED BY <1>1, <1>2, PTL DEF Spec

\* The variables of main keep their types: whatever the configuration, the
\* vectors and the header of a disc hold, every section in the array is
\* complete, and every file main writes is the output of a section or its own.
THEOREM TypeCorrect == Spec => []TypeOK
  BY TypeInvCorrect, TypeInvOK, PTL

-----------------------------------------------------------------------------
(* The lists of names.                                                     *)

\* A list that grew whenever it had to: its names, cells that were cleared,
\* and, in all but the first block, a last cell that was not.
WellGrown(p) ==
    /\ p.capacity = Len(p.cells)
    /\ p.capacity % ListIncrement = 0
    /\ p.size \in (p.capacity - ListIncrement)..(p.capacity - 1)
    /\ p.size >= 1
    /\ \A k \in 1..p.size : p.cells[k] = "name"
    /\ \A k \in (p.size + 1)..(p.capacity - 1) : p.cells[k] = Zero
    /\ p.capacity = ListIncrement => p.cells[ListIncrement] = Zero

\* A list that could not grow: the next name kills the process.
Stunted(p) ==
    /\ p.capacity = Len(p.cells) + ListIncrement
    /\ p.size \in {Len(p.cells), Len(p.cells) + 1}

ListShape(p) == p = NoList \/ WellGrown(p) \/ Stunted(p)

LEMMA WholeBlock ==
    ASSUME NEW c \in Nat, c % 4 = 0, c # 0
    PROVE  c >= 4
  OBVIOUS

\* Blocks of four cells, filled but for one.
LEMMA NextBlock ==
    ASSUME NEW c \in Nat, NEW s \in Nat, c % 4 = 0,
           (s = 0 /\ c = 0) \/ (s = c - 1 /\ c >= 4)
    PROVE  /\ (c + 4) % 4 = 0
           /\ s + 1 \in ((c + 4) - 4)..((c + 4) - 1)
           /\ s + 1 >= 1
           /\ \A k \in (s + 2)..(c + 3) : k \in 1..(c + 4) /\ k \in (s + 1)..(s + 4) /\ k # s + 1
           /\ c + 4 = 4 => s = 0
  OBVIOUS

LEMMA ListShapeStep ==
    ASSUME NEW p \in ListType, ListShape(p)
    PROVE  /\ Full(p) => WellGrown(Grown(p, "name")) /\ Stunted(NotGrown(p))
           /\ ~Full(p) /\ Fits(p) => WellGrown(Stored(p, "name"))
  <1>0. /\ p.size \in Nat /\ p.capacity \in Nat /\ Len(p.cells) \in Nat
        /\ p.cells \in Seq({"name", Zero, Junk})
    BY DEF ListType
  <1>1. ASSUME Full(p)
        PROVE  p = NoList \/ (WellGrown(p) /\ p.size = p.capacity - 1)
    BY <1>0, <1>1 DEF ListShape, Full, Stunted, WellGrown, ListIncrement
  <1>2. ASSUME Full(p)
        PROVE  WellGrown(Grown(p, "name"))
    <2> DEFINE q == Grown(p, "name")
    <2>1. /\ q.size = p.size + 1
          /\ q.capacity = p.capacity + ListIncrement
          /\ Len(q.cells) = p.capacity + ListIncrement
      BY <1>0 DEF Grown, ListIncrement
    <2>2. \A k \in 1..(p.capacity + ListIncrement) :
            q.cells[k] = IF k = p.size + 1 THEN "name"
                         ELSE IF k \in (p.size + 1)..(p.size + ListIncrement) THEN Zero
                         ELSE IF k <= Len(p.cells) THEN p.cells[k]
                         ELSE Junk
      BY DEF Grown
    <2> HIDE DEF q
    <2>3. /\ p.capacity % 4 = 0
          /\ (p.size = 0 /\ p.capacity = 0) \/ (p.size = p.capacity - 1 /\ p.capacity >= 4)
          /\ \A k \in 1..p.size : k <= Len(p.cells) /\ p.cells[k] = "name"
      <3>1. CASE p = NoList
        <4>1. p.size = 0 /\ p.capacity = 0
          BY <3>1 DEF NoList
        <4> QED BY <4>1
      <3>2. CASE WellGrown(p) /\ p.size = p.capacity - 1
        <4>1. p.capacity % 4 = 0 /\ p.size >= 1 /\ p.capacity = Len(p.cells)
          BY <3>2 DEF WellGrown, ListIncrement
        <4>2. p.capacity >= 4
          <5>1. p.capacity \in Nat /\ p.capacity # 0
            BY <1>0, <3>2, <4>1
          <5> QED BY <4>1, <5>1, WholeBlock
        <4>3. \A k \in 1..p.size : p.cells[k] = "name"
          BY <3>2 DEF WellGrown
        <4>4. \A k \in 1..p.size : k <= Len(p.cells)
          BY <1>0, <3>2, <4>1
        <4> QED BY <3>2, <4>1, <4>2, <4>3, <4>4
      <3> QED BY <1>1, <1>2, <3>1, <3>2
    <2>4. ASSUME NEW k \in 1..q.size
          PROVE  q.cells[k] = "name"
      <3>1. k \in 1..(p.capacity + ListIncrement)
        BY <1>0, <2>1, <2>3 DEF ListIncrement
      <3>2. CASE k = p.size + 1
        BY <2>2, <3>1, <3>2
      <3>3. CASE k # p.size + 1
        <4>1. k \in 1..p.size
          BY <1>0, <2>1, <3>3
        <4>2. k <= Len(p.cells) /\ p.cells[k] = "name"
          BY <1>0, <2>3, <4>1
        <4>3. k \notin (p.size + 1)..(p.size + ListIncrement)
          BY <1>0, <4>1 DEF ListIncrement
        <4> QED BY <2>2, <3>1, <3>3, <4>2, <4>3
      <3> QED BY <3>2, <3>3
    <2>5. ASSUME NEW k \in (q.size + 1)..(q.capacity - 1)
          PROVE  q.cells[k] = Zero
      <3>1. /\ k \in 1..(p.capacity + ListIncrement)
            /\ k # p.size + 1
            /\ k \in (p.size + 1)..(p.size + ListIncrement)
        BY <1>0, <2>1, <2>3, NextBlock DEF ListIncrement
      <3> QED BY <2>2, <3>1
    <2>6. /\ q.capacity = Len(q.cells)
          /\ q.capacity % 4 = 0
          /\ q.size \in (q.capacity - 4)..(q.capacity - 1)
          /\ q.size >= 1
      BY <1>0, <2>1, <2>3, NextBlock DEF ListIncrement
    <2>7. q.capacity = ListIncrement => q.cells[ListIncrement] = Zero
      <3> SUFFICES ASSUME q.capacity = ListIncrement
                   PROVE  q.cells[ListIncrement] = Zero
        OBVIOUS
      <3>1. p.size = 0 /\ p.capacity = 0
        BY <1>0, <2>1, <2>3, NextBlock DEF ListIncrement
      <3>2. 4 \in 1..(p.capacity + ListIncrement) /\ 4 \in (p.size + 1)..(p.size + ListIncrement)
        BY <3>1 DEF ListIncrement
      <3> QED BY <2>2, <3>1, <3>2 DEF ListIncrement
    <2> QED BY <2>4, <2>5, <2>6, <2>7 DEF WellGrown, ListIncrement, q
  <1>3. ASSUME Full(p)
        PROVE  Stunted(NotGrown(p))
    BY <1>0, <1>1, <1>3 DEF NotGrown, NoList, WellGrown, Stunted, ListIncrement
  <1>4. ASSUME ~Full(p), Fits(p)
        PROVE  WellGrown(Stored(p, "name"))
    <2>1. WellGrown(p) /\ p.size + 1 < p.capacity
      BY <1>0, <1>4 DEF ListShape, Full, Fits, NoList, Stunted
    <2> DEFINE q == Stored(p, "name")
    <2>2. /\ q.size = p.size + 1 /\ q.capacity = p.capacity
          /\ Len(q.cells) = Len(p.cells)
          /\ \A k \in 1..Len(p.cells) :
                q.cells[k] = IF k = p.size + 1 THEN "name" ELSE p.cells[k]
      BY <1>0 DEF Stored
    <2> HIDE DEF q
    <2>3. /\ p.capacity = Len(p.cells)
          /\ p.capacity % 4 = 0
          /\ p.size \in (p.capacity - 4)..(p.capacity - 1)
          /\ p.size >= 1
      BY <2>1 DEF WellGrown, ListIncrement
    <2>4. \A k \in 1..q.size : q.cells[k] = "name"
      BY <1>0, <2>1, <2>2, <2>3 DEF WellGrown
    <2>5. \A k \in (q.size + 1)..(q.capacity - 1) : q.cells[k] = Zero
      BY <1>0, <2>1, <2>2, <2>3 DEF WellGrown
    <2>6. q.capacity = ListIncrement => q.cells[ListIncrement] = Zero
      BY <1>0, <2>1, <2>2, <2>3 DEF WellGrown, ListIncrement
    <2>7. q.size \in (q.capacity - 4)..(q.capacity - 1) /\ q.size >= 1
      BY <1>0, <2>1, <2>2, <2>3
    <2> QED BY <2>2, <2>3, <2>4, <2>5, <2>6, <2>7 DEF WellGrown, ListIncrement, q
  <1> QED BY <1>2, <1>3, <1>4

LEMMA WellGrownTerminated ==
    ASSUME NEW p \in ListType, WellGrown(p), ~(p.size > 4 /\ p.size % 4 = 3)
    PROVE  /\ Terminated(p)
           /\ \A k \in 1..p.size : NameAt(p, k) = "name"
  <1>0. /\ p.size \in Nat /\ p.capacity \in Nat
        /\ Len(p.cells) = p.capacity /\ p.size + 1 \in 1..Len(p.cells)
        /\ p.cells # <<>>
    BY DEF ListType, WellGrown, ListIncrement
  <1>1. \A k \in 1..p.size : NameAt(p, k) = "name"
    BY <1>0 DEF NameAt, WellGrown
  <1>2. p.cells[p.size + 1] = Zero
    <2>1. CASE p.size + 1 < p.capacity
      BY <1>0, <2>1 DEF WellGrown
    <2>2. CASE p.size + 1 = p.capacity
      <3>1. p.capacity % 4 = 0
        BY DEF WellGrown, ListIncrement
      <3>2. p.size % 4 = 3
        BY <1>0, <2>2, <3>1
      <3>3. p.capacity = ListIncrement
        BY <1>0, <2>2, <3>1, <3>2 DEF ListIncrement
      <3> QED BY <2>2, <3>3 DEF WellGrown
    <2> QED BY <1>0, <2>1, <2>2
  <1>3. NameAt(p, p.size + 1) = Zero
    BY <1>0, <1>2 DEF NameAt
  <1> QED BY <1>0, <1>1, <1>3, NamesAssumption DEF Terminated

ListsInv == ListShape(lists.labels) /\ ListShape(lists.comments)

LEMMA ListsInvCorrect == Spec => []ListsInv
<1>1. Init => ListsInv
  BY DEF Init, ListsInv, ListShape
<1>2. TypeInv /\ ListsInv /\ [Next]_vars => ListsInv'
  <2> SUFFICES ASSUME TypeInv, ListsInv, [Next]_vars
               PROVE  ListsInv'
    OBVIOUS
  <2>1. lists \in [labels : ListType, comments : ListType]
    BY DEF TypeInv
  <2>2. ASSUME NEW kind \in {"labels", "comments"}, Option(kind)
        PROVE  ListsInv'
    <3>1. lists[kind] \in ListType /\ ListShape(lists[kind])
      BY <2>1 DEF ListsInv
    <3>2. /\ Full(lists[kind]) => /\ ListShape(Grown(lists[kind], "name"))
                                  /\ ListShape(NotGrown(lists[kind]))
          /\ ~Full(lists[kind]) /\ Fits(lists[kind]) => ListShape(Stored(lists[kind], "name"))
      BY <3>1, ListShapeStep DEF ListShape
    <3>3. \/ lists' = lists
          \/ \E p : ListShape(p) /\ lists' = [lists EXCEPT ![kind] = p]
      BY <2>2, <3>2, OptionEffect
    <3> QED BY <2>1, <3>3 DEF ListsInv
  <2>3. CASE Release
    BY <2>3 DEF Release, ListsInv, ListShape
  <2>4. CASE UNCHANGED lists
    BY <2>4 DEF ListsInv
  <2> QED BY <2>2, <2>3, <2>4, ListsChange DEF vars
<1> QED BY <1>1, <1>2, TypeInvCorrect, PTL DEF Spec

LEMMA ListsInvTerminated == TypeInv /\ ListsInv => ListsTerminated
  <1> SUFFICES ASSUME TypeInv, ListsInv, NEW kind \in {"labels", "comments"},
                      lists[kind].capacity = Len(lists[kind].cells),
                      ~(lists[kind].size > 4 /\ lists[kind].size % 4 = 3)
               PROVE  /\ Terminated(lists[kind])
                      /\ \A k \in 1..lists[kind].size : NameAt(lists[kind], k) = "name"
    BY DEF ListsTerminated
  <1>1. lists[kind] \in ListType /\ ListShape(lists[kind])
    BY DEF TypeInv, ListsInv
  <1>2. CASE lists[kind] = NoList
    BY <1>2 DEF NoList, Terminated, NameAt
  <1>3. CASE WellGrown(lists[kind])
    BY <1>1, <1>3, WellGrownTerminated
  <1> QED BY <1>1, <1>2, <1>3 DEF ListShape, Stunted, ListType, ListIncrement

\* However many options name label or comment files, and whichever realloc
\* fails, the walk over a list that grew ends after its last name, unless the
\* number of names is 7, 11 and so on.
THEOREM ListsTerminatedCorrect == Spec => []ListsTerminated
  BY TypeInvCorrect, ListsInvCorrect, ListsInvTerminated, PTL

-----------------------------------------------------------------------------
(* How main can die.                                                       *)

\* Until it is tidied the array has the room its capacity says.
RoomInv ==
    stage \in Early \union {"reset", "fill"} =>
        /\ pc = "idle"
        /\ section = <<>>
        /\ alloc = capacity
        /\ Len(data) <= capacity

\* What a walk over the names of an option has behind it are names.
WalkInv ==
    \A kind \in {"labels", "comments"} :
        stage = kind => \A m \in 1..(n - 1) : NameAt(lists[kind], m) \notin {Zero, Junk}

\* An array with room takes the section.
LEMMA AddSectionRoom ==
    ASSUME TypeInv, RoomInv, NEW at \in Early, NEW s, AddSection(at, s)
    PROVE  /\ stage' = at
           /\ pc' = "idle"
           /\ section' = <<>>
           /\ alloc' = capacity'
           /\ Len(data') <= capacity'
  <1>1. /\ capacity \in Nat /\ alloc \in Nat /\ Len(data) \in Nat
        /\ data \in Seq(SectionType)
    BY DEF TypeInv, ArrayType
  <1>2. /\ stage = at /\ pc = "idle" /\ section = <<>>
        /\ alloc = capacity /\ Len(data) <= capacity
    BY DEF AddSection, RoomInv
  <1> DEFINE new == Owning(s, FreeToken)
  <1>3. CASE Array!AddInPlace(new)
    <2>1. Array!Push(new, capacity) /\ Len(data) < capacity /\ UNCHANGED <<capacity, alloc>>
      BY <1>2, <1>3 DEF Array!AddInPlace
    <2>2. data' = Append(data, new) /\ pc' = "idle" /\ section' = section
      BY <1>1, <2>1 DEF Array!Push
    <2>3. Len(data') = Len(data) + 1
      BY <1>1, <2>2
    <2> QED BY <1>1, <1>2, <2>1, <2>2, <2>3 DEF AddSection
  <1>4. CASE Array!AddGrow(new)
    <2>1. /\ Array!Push(new, capacity + Increment)
          /\ capacity' = capacity + Increment
          /\ alloc' = capacity + Increment
      BY <1>4 DEF Array!AddGrow
    <2>2. data' = Append(data, new) /\ pc' = "idle" /\ section' = section
      BY <1>1, <1>2, <2>1, WordAssumption DEF Array!Push
    <2>3. Len(data') = Len(data) + 1
      BY <1>1, <2>2
    <2> QED BY <1>1, <1>2, <2>1, <2>2, <2>3, WordAssumption DEF AddSection
  <1> QED BY <1>3, <1>4 DEF AddSection

LEMMA RoomInvStep ==
    ASSUME TypeInv, RoomInv, Next
    PROVE  RoomInv'
  <1>1. CASE LoadObject
    <2>1. CASE AddSection("objects", Parsed(objects[n]))
      BY <2>1, AddSectionRoom DEF Early, RoomInv
    <2>2. CASE /\ UNCHANGED <<data, capacity, alloc, pc, section>>
               /\ stage = "objects"
      BY <2>2 DEF RoomInv, Early
    <2> QED BY <1>1, <2>1, <2>2 DEF LoadObject, Iterate, arrayVars
  <1>2. CASE AddVector
    <2>1. CASE AddSection("vectors", objects[n])
      BY <2>1, AddSectionRoom DEF Early, RoomInv
    <2>2. CASE /\ UNCHANGED <<data, capacity, alloc, pc, section>>
               /\ stage = "vectors"
      BY <2>2 DEF RoomInv, Early
    <2> QED BY <1>2, <2>1, <2>2 DEF AddVector, Iterate
  <1>3. CASE EarlyNext /\ UNCHANGED arrayVars
    BY <1>3, EarlyStep DEF RoomInv, arrayVars
  <1>4. CASE ResetOutput \/ OutputsReset \/ FillLabel \/ Filled \/ OutputMain
    BY <1>4 DEF ResetOutput, OutputsReset, FillLabel, Filled, OutputMain, Go, Iterate,
                RoomInv, Early, arrayVars
  <1>5. CASE TidyStep \/ Overrun
    BY <1>5 DEF TidyStep, Overrun, Die, RoomInv, Early
  <1>6. CASE \/ SkipSection \/ LoadedFromDisc \/ Extract \/ Disassembled
             \/ LabelOutput \/ Release
    BY <1>6 DEF SkipSection, LoadedFromDisc, Extract, Disassembled, LabelOutput, Release,
                Go, Iterate, RoomInv, Early
  <1> QED BY <1>1, <1>2, <1>3, <1>4, <1>5, <1>6, ArrayChanges, NextParts DEF LateNext

\* A walk begins with the first name, and goes on past names only.
LEMMA WalkStep ==
    ASSUME TypeInv, Next, NEW kind \in {"labels", "comments"}, stage' = kind
    PROVE  \/ n' = 1
           \/ /\ stage = kind /\ lists' = lists /\ n' = n + 1
              /\ NameAt(lists[kind], n) \notin {Zero, Junk}
  <1>1. ASSUME NEW other \in {"labels", "comments"}, LoadTexts(other)
        PROVE  \/ n' = 1
               \/ /\ stage = kind /\ lists' = lists /\ n' = n + 1
                  /\ NameAt(lists[kind], n) \notin {Zero, Junk}
    BY <1>1 DEF LoadTexts, CreateFail, LoadNamed, LoadsEnd, LoadsAstray, Go, Iterate, Die,
                setupVars
  <1>2. CASE \/ StartFail \/ Start \/ Usage \/ MapInit
             \/ \E cfg, irq, cdrom \in BOOLEAN : CommandParsed(cfg, irq, cdrom)
    BY <1>2 DEF StartFail, Start, Usage, MapInit, CommandParsed, Go
  <1>3. CASE \E other \in {"labels", "comments"} : Option(other)
    BY <1>3 DEF Option, Die
  <1>4. CASE NoSections \/ OpenSections \/ SectionsLoaded \/ LoadRom
    BY <1>4 DEF NoSections, OpenSections, SectionsLoaded, LoadRom, Go
  <1>5. CASE LoadObject \/ AddVector \/ SkipVector
    BY <1>5 DEF LoadObject, AddVector, SkipVector, AddSection, Iterate
  <1>6. CASE NoIrq \/ NoVectors \/ ReadVectors \/ VectorsAdded
    BY <1>6 DEF NoIrq, NoVectors, ReadVectors, VectorsAdded, Go
  <1>7. CASE ResetOutput \/ OutputsReset \/ FillLabel \/ Filled \/ OutputMain
    BY <1>7 DEF ResetOutput, OutputsReset, FillLabel, Filled, OutputMain, Go, Iterate
  <1>8. CASE TidyStep \/ Overrun
    BY <1>8 DEF TidyStep, Overrun, Die
  <1>9. CASE \/ SkipSection \/ LoadedFromDisc \/ Extract \/ Disassembled
             \/ LabelOutput \/ Release
    BY <1>9 DEF SkipSection, LoadedFromDisc, Extract, Disassembled, LabelOutput, Release,
                Go, Iterate
  <1> QED BY <1>1, <1>2, <1>3, <1>4, <1>5, <1>6, <1>7, <1>8, <1>9, NextParts
       DEF EarlyNext, LateNext

LEMMA WalkInvStep ==
    ASSUME TypeInv, WalkInv, Next
    PROVE  WalkInv'
  <1> SUFFICES ASSUME NEW kind \in {"labels", "comments"}, stage' = kind,
                      NEW m \in 1..(n' - 1)
               PROVE  NameAt(lists[kind]', m) \notin {Zero, Junk}
    BY DEF WalkInv
  <1>1. n \in Nat
    BY DEF TypeInv, MainType
  <1>2. CASE n' = 1
    BY <1>2
  <1>3. CASE /\ stage = kind /\ lists' = lists /\ n' = n + 1
             /\ NameAt(lists[kind], n) \notin {Zero, Junk}
    BY <1>1, <1>3 DEF WalkInv
  <1> QED BY <1>2, <1>3, WalkStep

\* The states main dies in, as DeathExplained has them.
Dies ==
    \/ stage = "options" /\ \E kind \in DOMAIN lists :
                                lists[kind].capacity # Len(lists[kind].cells)
    \/ stage \in {"labels", "comments"} /\ ~Terminated(lists[stage])
    \/ stage = "irq" /\ options.cdrom /\ capacity = 0
    \/ stage = "fill" /\ data = <<>>
    \/ stage = "tidy" /\ pc = "idle"
    \/ stage = "disassemble" /\ Overruns(data[n])

LEMMA DeathStep ==
    ASSUME TypeInv, ListsInv, RoomInv, WalkInv, Next, stage' = "dead"
    PROVE  Dies
  <1>1. CASE \/ StartFail \/ Start \/ Usage \/ MapInit
             \/ \E cfg, irq, cdrom \in BOOLEAN : CommandParsed(cfg, irq, cdrom)
    BY <1>1 DEF StartFail, Start, Usage, MapInit, CommandParsed, Go
  <1>2. ASSUME NEW kind \in {"labels", "comments"}, Option(kind)
        PROVE  Dies
    <2>1. stage = "options"
      BY <1>2 DEF Option
    <2>2. ~Full(lists[kind]) /\ ~Fits(lists[kind])
      BY <1>2, <2>1, OptionEffect
    <2>3. lists[kind] \in ListType /\ ListShape(lists[kind])
      BY DEF TypeInv, ListsInv
    <2>4. lists[kind].capacity # Len(lists[kind].cells)
      <3>1. CASE lists[kind] = NoList
        BY <2>2, <3>1 DEF NoList, Full
      <3>2. CASE WellGrown(lists[kind])
        BY <2>2, <2>3, <3>2 DEF WellGrown, Fits, ListType
      <3>3. CASE Stunted(lists[kind])
        BY <2>3, <3>3 DEF Stunted, ListType, ListIncrement
      <3> QED BY <2>3, <3>1, <3>2, <3>3 DEF ListShape
    <2>5. kind \in DOMAIN lists
      BY DEF TypeInv
    <2> QED BY <2>1, <2>4, <2>5 DEF Dies
  <1>3. CASE NoSections \/ OpenSections \/ SectionsLoaded \/ LoadRom
    BY <1>3 DEF NoSections, OpenSections, SectionsLoaded, LoadRom, Go
  <1>4. CASE LoadObject
    BY <1>4, AddSectionRoom DEF LoadObject, Iterate, Early
  <1>5. ASSUME NEW kind \in {"labels", "comments"}, LoadTexts(kind)
        PROVE  Dies
    <2>1. stage = kind /\ NameAt(lists[kind], n) = Junk
      BY <1>5 DEF LoadTexts, CreateFail, LoadNamed, LoadsEnd, LoadsAstray, Go, Iterate, After
    <2>2. \A m \in 1..(n - 1) : NameAt(lists[kind], m) \notin {Zero, Junk}
      BY <2>1 DEF WalkInv
    <2>3. n \in Nat \ {0} /\ Len(lists[kind].cells) \in Nat
      BY DEF TypeInv, MainType, ListType
    <2>4. ASSUME NEW k \in 1..(Len(lists[kind].cells) + 1),
                 NameAt(lists[kind], k) = Zero,
                 \A m \in 1..(k - 1) : NameAt(lists[kind], m) \notin {Zero, Junk}
          PROVE  FALSE
      <3>1. CASE k < n
        BY <2>2, <2>3, <2>4, <3>1
      <3>2. CASE k = n
        BY <2>1, <2>4, <3>2, NamesAssumption
      <3>3. CASE k > n
        BY <2>1, <2>3, <2>4, <3>3
      <3> QED BY <2>3, <3>1, <3>2, <3>3
    <2>5. ~Terminated(lists[kind])
      BY <2>4 DEF Terminated
    <2> QED BY <2>1, <2>5 DEF Dies
  <1>6. CASE NoIrq \/ NoVectors \/ VectorsAdded \/ SkipVector
    BY <1>6 DEF NoIrq, NoVectors, VectorsAdded, SkipVector, Go, Iterate
  <1>7. CASE ReadVectors
    BY <1>7 DEF ReadVectors, Dies
  <1>8. CASE AddVector
    BY <1>8, AddSectionRoom DEF AddVector, Iterate, Early
  <1>9. CASE ResetOutput \/ OutputsReset \/ FillLabel \/ Filled \/ OutputMain
    BY <1>9 DEF ResetOutput, OutputsReset, FillLabel, Filled, OutputMain, Go, Iterate, Dies
  <1>10. CASE TidyStep
    BY <1>10 DEF TidyStep, Array!Tidy, Array!TidyStart, Array!TidyOutOfMemory,
                 Array!TidyMerge, Array!TidyKeep, Array!TidyDone, Dies
  <1>11. CASE Overrun
    BY <1>11 DEF Overrun, Dies
  <1>12. CASE \/ SkipSection \/ LoadedFromDisc \/ Extract \/ Disassembled
              \/ LabelOutput \/ Release
    BY <1>12 DEF SkipSection, LoadedFromDisc, Extract, Disassembled, LabelOutput, Release,
                 Go, Iterate
  <1> QED BY <1>1, <1>2, <1>3, <1>4, <1>5, <1>6, <1>7, <1>8, <1>9, <1>10, <1>11, <1>12,
             NextParts DEF EarlyNext, LateNext

LEMMA RoomInvCorrect == Spec => [](RoomInv /\ WalkInv)
<1>1. Init => RoomInv /\ WalkInv
  BY DEF Init, Array!Init, RoomInv, WalkInv
<1>2. TypeInv /\ RoomInv /\ WalkInv /\ [Next]_vars => (RoomInv /\ WalkInv)'
  <2>1. CASE UNCHANGED vars
    BY <2>1 DEF vars, arrayVars, RoomInv, WalkInv
  <2> QED BY <2>1, RoomInvStep, WalkInvStep
<1> QED BY <1>1, <1>2, TypeInvCorrect, PTL DEF Spec

\* main stops short of its exit in six places only; in particular no source
\* of sections writes one past the array, and a walk over the names of an
\* option that ends does not meet what was never written.
THEOREM DeathExplainedCorrect == Spec => DeathExplained
<1>1. TypeInv /\ ListsInv /\ RoomInv /\ WalkInv /\ [Next]_vars => [stage' = "dead" => Dies]_vars
  BY DeathStep
<1>2. DeathExplained <=> [][stage' = "dead" => Dies]_vars
  BY DEF DeathExplained, Dies
<1> QED BY <1>1, <1>2, TypeInvCorrect, ListsInvCorrect, RoomInvCorrect, PTL DEF Spec

-----------------------------------------------------------------------------
(* What is ready when the disassembly starts.                              *)

\* The sections of the array, and those a tidy has placed.
Members ==
    {data[k] : k \in 1..Len(data)} \union {section[k] : k \in 1..Len(section)}

\* Merging gives no section an output, or an address, that none had.
LEMMA TidyMembers ==
    ASSUME ArrayType, Array!Tidy, NEW s \in Members'
    PROVE  \E a, b \in Members : s.output = a.output /\ Address(s) = Address(b)
  <1>0. /\ data \in Seq(SectionType) /\ section \in Seq(SectionType)
        /\ next \in Nat \ {0}
    BY DEF ArrayType
  <1>1. CASE Array!TidyStart
    <2>1. PICK r \in Array!Sorts(data) : data' = [k \in 1..Len(data) |-> data[r[k]]]
      BY <1>1 DEF Array!TidyStart
    <2>2. \A k \in 1..Len(data) : r[k] \in 1..Len(data)
      BY <2>1 DEF Array!Sorts, Array!Bijection, Array!Injection, Array!Surjection
    <2>3. Len(data) \in Nat /\ Len(data) # 0 /\ Len(data') = Len(data)
      BY <1>0, <1>1, <2>1 DEF Array!TidyStart
    <2>4. \A k \in 1..Len(data) : data'[k] \in Members
      BY <2>1, <2>2 DEF Members
    <2>5. section' = <<data'[1]>>
      BY <1>1 DEF Array!TidyStart
    <2>6. s \in Members
      BY <2>3, <2>4, <2>5 DEF Members
    <2> QED BY <2>6
  <1>2. CASE Array!TidyOutOfMemory
    BY <1>2 DEF Array!TidyOutOfMemory, Members
  <1>3. CASE Array!TidyMerge
    <2> DEFINE merged == Array!Merge(section[Len(section)], data[next])
    <2>1. Len(section) \in 1..Len(section) /\ next \in 1..Len(data)
      BY <1>0, <1>3 DEF Array!TidyMerge, ArrayType
    <2>2. section[Len(section)] \in SectionType /\ data[next] \in SectionType
      BY <1>0, <2>1
    <2>3. /\ section[Len(section)] \in Members /\ data[next] \in Members
          /\ merged.output = section[Len(section)].output
          /\ Address(merged) \in {Address(section[Len(section)]), Address(data[next])}
      BY <1>3, <2>1, <2>2, MergedType DEF Array!TidyMerge, Members
    <2>4. data' = data /\ section' = [section EXCEPT ![Len(section)] = merged]
      BY <1>3 DEF Array!TidyMerge
    <2> HIDE DEF merged
    <2>5. s \in Members \/ s = merged
      BY <1>0, <2>4 DEF Members
    <2> QED BY <2>3, <2>5
  <1>4. CASE Array!TidyKeep
    <2>1. next \in 1..Len(data)
      BY <1>0, <1>4 DEF Array!TidyKeep
    <2>2. data' = data /\ section' = Append(section, data[next])
      BY <1>4 DEF Array!TidyKeep
    <2>3. s \in Members
      BY <1>0, <2>1, <2>2 DEF Members
    <2> QED BY <2>3
  <1>5. CASE Array!TidyDone
    <2>1. s \in Members
      BY <1>5 DEF Array!TidyDone, Members
    <2> QED BY <2>1
  <1> QED BY <1>1, <1>2, <1>3, <1>4, <1>5 DEF Array!Tidy

\* reset_output has emptied the outputs so far; then all of them are empty,
\* until main writes the first.
EmptyInv ==
    /\ stage = "reset" =>
           \A k \in 1..Len(data) : k < n => files[data[k].output] = <<>>
    /\ stage \in {"fill", "tidy"} => \A s \in Members : files[s.output] = <<>>

\* The same for the labels of the sections.
LabelledInv ==
    /\ stage = "fill" => \A k \in 1..Len(data) : k < n => Address(data[k]) \in labels
    /\ stage = "tidy" => \A s \in Members : Address(s) \in labels

ReadyInv == EmptyInv /\ LabelledInv /\ SectionsReady

LEMMA ReadyInvStep ==
    ASSUME TypeInv, RoomInv, ReadyInv, Next
    PROVE  ReadyInv'
  <1>0. /\ data \in Seq(SectionType) /\ n \in Nat \ {0}
        /\ files \in [Outputs -> Seq({Old, "labels"} \union Tokens)]
    BY DEF TypeInv, ArrayType, MainType
  <1>1. CASE EarlyNext
    <2>1. stage' = "reset" => n' = 1
      <3>1. CASE NoIrq \/ VectorsAdded
        BY <3>1 DEF NoIrq, VectorsAdded, Go
      <3>2. CASE ~(NoIrq \/ VectorsAdded)
        <4>1. CASE \/ StartFail \/ Start \/ Usage \/ MapInit
                   \/ \E cfg, irq, cdrom \in BOOLEAN : CommandParsed(cfg, irq, cdrom)
          BY <4>1 DEF StartFail, Start, Usage, MapInit, CommandParsed, Go
        <4>2. CASE \/ \E kind \in {"labels", "comments"} : Option(kind)
                   \/ \E kind \in {"labels", "comments"} : LoadTexts(kind)
          BY <4>2, LoadTextsStep DEF Option, Die, After
        <4>3. CASE NoSections \/ OpenSections \/ LoadObject \/ SectionsLoaded \/ LoadRom
          BY <4>3 DEF NoSections, OpenSections, LoadObject, AddSection, Iterate,
                      SectionsLoaded, LoadRom, Go
        <4>4. CASE NoVectors \/ ReadVectors \/ AddVector \/ SkipVector
          BY <4>4 DEF NoVectors, ReadVectors, AddVector, SkipVector, AddSection, Iterate, Go
        <4> QED BY <1>1, <3>2, <4>1, <4>2, <4>3, <4>4 DEF EarlyNext
      <3> QED BY <3>1, <3>2
    <2>2. stage' \in Early \union {"reset", "release", "dead"}
      BY <1>1, EarlyStep
    <2> QED BY <2>1, <2>2 DEF ReadyInv, EmptyInv, LabelledInv, SectionsReady, Early
  <1>2. CASE ResetOutput
    <2>1. /\ stage = "reset" /\ data' = data /\ n \in 1..Len(data)
          /\ \/ stage' = "release"
             \/ /\ stage' = "reset" /\ n' = n + 1
                /\ files' = [files EXCEPT ![data[n].output] = <<>>]
      BY <1>0, <1>2 DEF ResetOutput, Go, Iterate, arrayVars
    <2>2. \A k \in 1..Len(data) : data[k].output \in Outputs
      <3>1. \A k \in 1..Len(data) : data[k] \in SectionType
        BY <1>0
      <3> QED BY <3>1 DEF SectionType
    <2>3. CASE stage' = "reset"
      <3> SUFFICES ASSUME NEW k \in 1..Len(data), k < n + 1
                   PROVE  files'[data[k].output] = <<>>
        BY <2>1, <2>3 DEF ReadyInv, EmptyInv, LabelledInv, SectionsReady
      <3>1. CASE data[k].output = data[n].output
        BY <1>0, <2>1, <2>2, <2>3, <3>1
      <3>2. CASE data[k].output # data[n].output
        <4>1. files[data[k].output] = <<>>
          BY <1>0, <2>1, <3>2 DEF ReadyInv, EmptyInv
        <4> QED BY <1>0, <2>1, <2>2, <2>3, <3>2, <4>1
      <3> QED BY <3>1, <3>2
    <2> QED BY <2>1, <2>3 DEF ReadyInv, EmptyInv, LabelledInv, SectionsReady
  <1>3. CASE OutputsReset
    <2>1. /\ stage = "reset" /\ stage' = "fill" /\ n > Len(data) /\ n' = 1
          /\ UNCHANGED <<data, section, files>>
      BY <1>3 DEF OutputsReset, Go, arrayVars, outVars
    <2>2. Members = {data[k] : k \in 1..Len(data)}
      BY <2>1 DEF RoomInv, Members
    <2>3. \A k \in 1..Len(data) : files[data[k].output] = <<>>
      BY <1>0, <2>1 DEF ReadyInv, EmptyInv
    <2>4. \A s \in Members' : files'[s.output] = <<>>
      <3>1. Members' = Members
        BY <2>1 DEF Members
      <3> QED BY <2>1, <2>2, <2>3, <3>1
    <2> QED BY <2>1, <2>4 DEF ReadyInv, EmptyInv, LabelledInv, SectionsReady
  <1>4. CASE FillLabel
    <2>1. /\ stage = "fill" /\ n \in 1..Len(data) /\ UNCHANGED <<data, section, files>>
          /\ \/ stage' = "release"
             \/ /\ stage' = "fill" /\ n' = n + 1
                /\ labels' = labels \union {Address(data[n])}
      BY <1>0, <1>4 DEF FillLabel, Go, Iterate, arrayVars, outVars
    <2>2. CASE stage' = "fill"
      <3>1. \A k \in 1..Len(data) : k < n + 1 => Address(data[k]) \in labels'
        BY <1>0, <2>1, <2>2 DEF ReadyInv, LabelledInv
      <3>2. \A k \in 1..Len(data) : Address(data[k])' = Address(data[k])
        BY <2>1 DEF Address
      <3>3. LabelledInv'
        BY <2>1, <2>2, <3>1, <3>2 DEF LabelledInv
      <3> QED BY <2>1, <2>2, <3>3 DEF ReadyInv, EmptyInv, SectionsReady, Members
    <2> QED BY <2>1, <2>2 DEF ReadyInv, EmptyInv, LabelledInv, SectionsReady
  <1>5. CASE Filled
    <2>1. /\ stage = "fill" /\ n > Len(data) /\ UNCHANGED <<data, section, files, labels>>
          /\ stage' \in {"dead", "tidy"}
      BY <1>5 DEF Filled, Go, arrayVars, outVars
    <2>2. Members' = Members /\ Members = {data[k] : k \in 1..Len(data)}
      BY <2>1 DEF RoomInv, Members
    <2>3. \A s \in Members : files[s.output] = <<>> /\ Address(s) \in labels
      BY <1>0, <2>1, <2>2 DEF ReadyInv, EmptyInv, LabelledInv
    <2>4. EmptyInv' /\ LabelledInv'
      BY <2>1, <2>2, <2>3 DEF EmptyInv, LabelledInv, Address
    <2>5. SectionsReady'
      BY <2>1, <2>2, <2>3 DEF SectionsReady, Address
    <2> QED BY <2>4, <2>5 DEF ReadyInv
  <1>6. CASE TidyStep
    <2>1. /\ stage = "tidy" /\ stage' \in {"tidy", "dead"} /\ Array!Tidy
          /\ UNCHANGED <<files, labels>>
      BY <1>6 DEF TidyStep, outVars
    <2>2. \A s \in Members' : files[s.output] = <<>> /\ Address(s) \in labels
      BY <2>1, TidyMembers DEF TypeInv, ReadyInv, EmptyInv, LabelledInv
    <2>3. EmptyInv' /\ LabelledInv'
      BY <2>1, <2>2 DEF EmptyInv, LabelledInv, Address
    <2>4. \A k \in 1..Len(data') : data'[k] \in Members'
      BY DEF Members
    <2>5. SectionsReady'
      BY <2>1, <2>2, <2>4 DEF SectionsReady, Address
    <2> QED BY <2>3, <2>5 DEF ReadyInv
  <1>7. CASE OutputMain
    <2>1. /\ stage = "tidy" /\ UNCHANGED <<data, labels>>
          /\ \/ stage' = "release"
             \/ /\ stage' = "disassemble"
                /\ files' = [files EXCEPT ![MainFile] = <<"labels">>]
      BY <1>7 DEF OutputMain, Go, arrayVars
    <2>2. CASE stage' = "disassemble"
      <3> SUFFICES ASSUME NEW k \in 1..Len(data),
                          NEW m \in 1..Len(files'[data[k].output])
                   PROVE  files'[data[k].output][m] # Old /\ Address(data[k]) \in labels
        BY <2>1, <2>2 DEF ReadyInv, EmptyInv, LabelledInv, SectionsReady, Address
      <3>1. data[k] \in Members
        BY DEF Members
      <3>2. files[data[k].output] = <<>> /\ Address(data[k]) \in labels
        BY <2>1, <3>1 DEF ReadyInv, EmptyInv, LabelledInv
      <3>3. files'[data[k].output] \in {<<>>, <<"labels">>}
        <4>1. data[k] \in SectionType
          BY <1>0
        <4>2. data[k].output \in Outputs
          BY <4>1 DEF SectionType
        <4>3. CASE data[k].output = MainFile
          BY <1>0, <2>1, <2>2, <4>2, <4>3
        <4>4. CASE data[k].output # MainFile
          BY <1>0, <2>1, <2>2, <3>2, <4>2, <4>4
        <4> QED BY <4>3, <4>4
      <3> QED BY <3>2, <3>3 DEF Old
    <2> QED BY <2>1, <2>2 DEF ReadyInv, EmptyInv, LabelledInv, SectionsReady
  <1>8. CASE SkipSection \/ LoadedFromDisc \/ Overrun \/ Disassembled \/ LabelOutput \/ Release
    <2>1. \/ stage' \notin {"reset", "fill", "tidy", "disassemble", "save"}
          \/ /\ stage \in {"disassemble", "save"} /\ UNCHANGED <<data, files, labels>>
             /\ stage' \in {"disassemble", "save"}
      BY <1>8 DEF SkipSection, LoadedFromDisc, Overrun, Disassembled, LabelOutput, Release,
                  Go, Iterate, Die, arrayVars, outVars
    <2> QED BY <2>1 DEF ReadyInv, EmptyInv, LabelledInv, SectionsReady, Address
  <1>9. CASE Extract
    <2>1. /\ stage = "disassemble" /\ stage' = "disassemble" /\ n \in 1..Len(data)
          /\ UNCHANGED <<data, labels>>
          /\ files' = [files EXCEPT ![data[n].output] = Append(@, data[n].str)]
      BY <1>0, <1>9 DEF Extract, Iterate, arrayVars
    <2>2. \A k \in 1..Len(data) : data[k].output \in Outputs /\ data[k].str \in Tokens
      <3>1. \A k \in 1..Len(data) : data[k] \in SectionType
        BY <1>0
      <3> QED BY <3>1 DEF SectionType
    <2>3. data[n].str # Old
      BY <2>1, <2>2, TokensAssumption
    <2> SUFFICES ASSUME NEW k \in 1..Len(data),
                        NEW m \in 1..Len(files'[data[k].output])
                 PROVE  files'[data[k].output][m] # Old /\ Address(data[k]) \in labels
      BY <2>1 DEF ReadyInv, EmptyInv, LabelledInv, SectionsReady, Address
    <2>4. /\ \A j \in 1..Len(files[data[k].output]) : files[data[k].output][j] # Old
          /\ Address(data[k]) \in labels
      BY <2>1 DEF ReadyInv, SectionsReady
    <2>5. files[data[k].output] \in Seq({Old, "labels"} \union Tokens)
      BY <1>0, <2>2
    <2>6. \/ files'[data[k].output] = files[data[k].output]
          \/ files'[data[k].output] = Append(files[data[k].output], data[n].str)
      BY <1>0, <2>1, <2>2
    <2> QED BY <2>3, <2>4, <2>5, <2>6
  <1> QED BY <1>1, <1>2, <1>3, <1>4, <1>5, <1>6, <1>7, <1>8, <1>9, NextParts DEF LateNext

LEMMA ReadyInvCorrect == Spec => []ReadyInv
<1>1. Init => ReadyInv
  BY DEF Init, ReadyInv, EmptyInv, LabelledInv, SectionsReady
<1>2. TypeInv /\ RoomInv /\ ReadyInv /\ [Next]_vars => ReadyInv'
  <2>1. CASE UNCHANGED vars
    BY <2>1 DEF vars, arrayVars, ReadyInv, EmptyInv, LabelledInv, SectionsReady, Members,
                Address
  <2> QED BY <2>1, ReadyInvStep
<1> QED BY <1>1, <1>2, TypeInvCorrect, RoomInvCorrect, PTL DEF Spec

\* When main disassembles, the files it appends to hold nothing of an earlier
\* session, and every section, merged or not, has its label.
THEOREM SectionsReadyCorrect == Spec => []SectionsReady
<1>1. ReadyInv => SectionsReady
  BY DEF ReadyInv
<1> QED BY <1>1, ReadyInvCorrect, PTL

-----------------------------------------------------------------------------
(* What the disassembly leaves in the output files.                        *)

\* The files the sections are written to, and the main file.
Targets == {MainFile} \union {data[k].output : k \in 1..Len(data)}

HoldsInv ==
    /\ stage \in Early \union {"reset", "fill", "tidy"} => status = "failure" /\ skipped = {}
    /\ stage = "disassemble" /\ good =>
           /\ n <= Len(data) + 1
           /\ skipped \subseteq 1..(n - 1)
           /\ \A f \in Targets : Holds(f, n - 1)
    /\ OutputsRight

LEMMA AppendToBoth ==
    ASSUME NEW S, NEW s \in Seq(S), NEW t \in Seq(S), NEW e \in S
    PROVE  Append(s \o t, e) = s \o Append(t, e)
  OBVIOUS

\* The next section is of another file, or skipped.
LEMMA HoldsMore ==
    ASSUME NEW f, NEW m \in Nat, Holds(f, m), UNCHANGED data, files'[f] = files[f],
           data[m + 1].output # f \/ m + 1 \in skipped',
           \A k \in 1..m : k \in skipped' <=> k \in skipped
    PROVE  Holds(f, m + 1)'
  <1> DEFINE P == IF f = MainFile THEN <<"labels">> ELSE <<>>
  <1>0. PICK l \in 0..m : \E ks \in [1..l -> 1..m] :
          /\ Lists(ks, f, m)
          /\ files[f] = P \o [i \in 1..l |-> data[ks[i]].str]
    BY DEF Holds
  <1>1. PICK ks \in [1..l -> 1..m] :
          /\ Lists(ks, f, m)
          /\ files[f] = P \o [i \in 1..l |-> data[ks[i]].str]
    BY <1>0
  <1>2. l \in 0..(m + 1) /\ ks \in [1..l -> 1..(m + 1)]
    BY <1>1
  <1>3. {k \in 1..(m + 1) : data[k].output = f /\ k \notin skipped'}
          = {k \in 1..m : data[k].output = f /\ k \notin skipped}
    OBVIOUS
  <1>4. Lists(ks, f, m + 1)'
    BY <1>1, <1>3 DEF Lists
  <1> QED BY <1>1, <1>2, <1>4 DEF Holds

\* The next section is appended to its file.
LEMMA HoldsNext ==
    ASSUME NEW f, NEW m \in Nat, Holds(f, m), UNCHANGED <<data, skipped>>,
           \A k \in 1..(m + 1) : data[k].str \in Tokens,
           data[m + 1].output = f, m + 1 \notin skipped,
           files'[f] = Append(files[f], data[m + 1].str)
    PROVE  Holds(f, m + 1)'
  <1> DEFINE P == IF f = MainFile THEN <<"labels">> ELSE <<>>
             Items == {"labels"} \union Tokens
  <1>0. PICK l \in 0..m : \E ks \in [1..l -> 1..m] :
          /\ Lists(ks, f, m)
          /\ files[f] = P \o [i \in 1..l |-> data[ks[i]].str]
    BY DEF Holds
  <1>1. PICK ks \in [1..l -> 1..m] :
          /\ Lists(ks, f, m)
          /\ files[f] = P \o [i \in 1..l |-> data[ks[i]].str]
    BY <1>0
  <1> DEFINE js == [i \in 1..(l + 1) |-> IF i = l + 1 THEN m + 1 ELSE ks[i]]
             q  == [i \in 1..l |-> data[ks[i]].str]
  <1>2. l + 1 \in 0..(m + 1) /\ js \in [1..(l + 1) -> 1..(m + 1)]
    BY <1>1
  <1>3. Lists(js, f, m + 1)
    <2>1. \A i, j \in 1..l : i < j => ks[i] < ks[j]
      BY <1>1 DEF Lists
    <2>2. \A i, j \in DOMAIN js : i < j => js[i] < js[j]
      BY <1>1, <2>1
    <2>3. {ks[i] : i \in 1..l} = {k \in 1..m : data[k].output = f /\ k \notin skipped}
      BY <1>1 DEF Lists
    <2>4. {js[i] : i \in 1..(l + 1)} = {ks[i] : i \in 1..l} \union {m + 1}
      <3>1. ASSUME NEW i \in 1..(l + 1)
            PROVE  js[i] \in {ks[j] : j \in 1..l} \union {m + 1}
        <4>1. i \in 1..l \/ i = l + 1
          OBVIOUS
        <4> QED BY <4>1
      <3>2. ASSUME NEW i \in 1..l
            PROVE  ks[i] \in {js[j] : j \in 1..(l + 1)}
        <4>1. i \in 1..(l + 1) /\ js[i] = ks[i]
          OBVIOUS
        <4> QED BY <4>1
      <3>3. m + 1 \in {js[j] : j \in 1..(l + 1)}
        <4>1. l + 1 \in 1..(l + 1) /\ js[l + 1] = m + 1
          OBVIOUS
        <4> QED BY <4>1
      <3> HIDE DEF js
      <3> QED BY <3>1, <3>2, <3>3
    <2>5. {k \in 1..(m + 1) : data[k].output = f /\ k \notin skipped}
            = {k \in 1..m : data[k].output = f /\ k \notin skipped} \union {m + 1}
      <3>1. 1..(m + 1) = (1..m) \union {m + 1}
        OBVIOUS
      <3> HIDE DEF js
      <3> QED BY <3>1, Zenon
    <2>6. DOMAIN js = 1..(l + 1)
      OBVIOUS
    <2> HIDE DEF js
    <2> QED BY <2>2, <2>3, <2>4, <2>5, <2>6 DEF Lists
  <1>4. files'[f] = P \o [i \in 1..(l + 1) |-> data[js[i]].str]
    <2>1. \A i \in 1..l : ks[i] \in 1..m /\ data[ks[i]].str \in Items
      <3>1. \A i \in 1..l : ks[i] \in 1..m
        BY <1>1
      <3>2. \A k \in 1..m : data[k].str \in Items
        OBVIOUS
      <3> QED BY <3>1, <3>2
    <2>2. q \in Seq(Items) /\ P \in Seq(Items) /\ data[m + 1].str \in Items
      <3>1. q \in Seq(Items)
        BY <2>1
      <3>2. P \in Seq(Items)
        <4>1. CASE f = MainFile
          BY <4>1
        <4>2. CASE f # MainFile
          BY <4>2
        <4> QED BY <4>1, <4>2
      <3>3. data[m + 1].str \in Items
        OBVIOUS
      <3> QED BY <3>1, <3>2, <3>3
    <2>3. [i \in 1..(l + 1) |-> data[js[i]].str] = Append(q, data[m + 1].str)
      <3>1. Len(q) = l
        BY <1>1
      <3>2. Append(q, data[m + 1].str)
              = [i \in 1..(l + 1) |-> IF i = l + 1 THEN data[m + 1].str ELSE q[i]]
        BY <2>2, <3>1
      <3>3. \A i \in 1..(l + 1) :
              data[js[i]].str = IF i = l + 1 THEN data[m + 1].str ELSE q[i]
        OBVIOUS
      <3> QED BY <3>2, <3>3
    <2>4. files[f] = P \o q
      BY <1>1
    <2>5. Append(P \o q, data[m + 1].str) = P \o Append(q, data[m + 1].str)
      BY <2>2, AppendToBoth
    <2> HIDE DEF P, Items, q, js
    <2> QED BY <2>3, <2>4, <2>5
  <1>5. Lists(js, f, m + 1)'
    BY <1>3 DEF Lists
  <1> HIDE DEF js
  <1> QED BY <1>2, <1>4, <1>5 DEF Holds

LEMMA HoldsSoFar ==
    ASSUME NEW f, NEW k, n' - 1 = k, Holds(f, k)'
    PROVE  Holds(f, n - 1)'
  BY DEF Holds, Lists

LEMMA HoldsInvStep ==
    ASSUME TypeInv, RoomInv, ReadyInv, HoldsInv, Next
    PROVE  HoldsInv'
  <1>0. /\ data \in Seq(SectionType) /\ n \in Nat \ {0} /\ good \in BOOLEAN
        /\ files \in [Outputs -> Seq({Old, "labels"} \union Tokens)]
        /\ skipped \subseteq Nat
    BY DEF TypeInv, ArrayType, MainType
  <1>d. /\ Len(data) \in Nat
        /\ \A k \in 1..Len(data) : data[k].output \in Outputs /\ data[k].str \in Tokens
    <2>1. \A k \in 1..Len(data) : data[k] \in SectionType
      BY <1>0
    <2>2. \A k \in 1..Len(data) : data[k].output \in Outputs /\ data[k].str \in Tokens
      BY <2>1 DEF SectionType
    <2> QED BY <1>0, <2>2
  <1>1. CASE EarlyNext
    BY <1>1, EarlyStep DEF outVars, HoldsInv, OutputsRight, Early
  <1>2. CASE ResetOutput \/ OutputsReset \/ FillLabel \/ Filled
    <2>1. /\ stage \in {"reset", "fill"}
          /\ stage' \in {"reset", "fill", "tidy", "release", "dead"}
          /\ UNCHANGED <<status, skipped>>
      BY <1>2 DEF ResetOutput, OutputsReset, FillLabel, Filled, Go, Iterate, outVars
    <2> QED BY <2>1 DEF HoldsInv, OutputsRight, Early
  <1>3. CASE TidyStep
    BY <1>3 DEF TidyStep, outVars, HoldsInv, OutputsRight, Early
  <1>4. CASE OutputMain
    <2>1. /\ stage = "tidy" /\ UNCHANGED <<data, skipped>>
          /\ \/ stage' = "release"
             \/ /\ stage' = "disassemble" /\ n' = 1 /\ status' = "success"
                /\ files' = [files EXCEPT ![MainFile] = <<"labels">>]
      BY <1>4 DEF OutputMain, Go, arrayVars
    <2>2. CASE stage' = "disassemble"
      <3>1. skipped = {}
        BY <2>1 DEF HoldsInv
      <3>2. MainFile \in Outputs
        BY DEF Outputs
      <3>3. ASSUME NEW f \in Targets'
            PROVE  Holds(f, 0)'
        <4>1. files'[f] = IF f = MainFile THEN <<"labels">> ELSE <<>>
          <5>1. CASE f = MainFile
            BY <1>0, <2>1, <2>2, <3>2, <5>1
          <5>2. CASE f # MainFile
            <6>1. PICK k \in 1..Len(data) : f = data[k].output
              BY <2>1, <5>2 DEF Targets
            <6>2. data[k] \in Members
              BY DEF Members
            <6>3. files[f] = <<>>
              BY <2>1, <6>1, <6>2 DEF ReadyInv, EmptyInv
            <6> QED BY <1>0, <1>d, <2>1, <2>2, <5>2, <6>1, <6>3
          <5> QED BY <5>1, <5>2
        <4> DEFINE P  == IF f = MainFile THEN <<"labels">> ELSE <<>>
                   ks == <<>>
        <4>2. ks \in [1..0 -> 1..0] /\ 0 \in 0..0
          OBVIOUS
        <4>3. Lists(ks, f, 0)'
          BY DEF Lists
        <4>4. files'[f] = P \o [i \in 1..0 |-> data'[ks[i]].str]
          <5>1. [i \in 1..0 |-> data'[ks[i]].str] = <<>>
            OBVIOUS
          <5>2. P = P \o <<>>
            <6>1. CASE f = MainFile
              BY <6>1
            <6>2. CASE f # MainFile
              BY <6>2
            <6> QED BY <6>1, <6>2
          <5> QED BY <4>1, <5>1, <5>2
        <4> HIDE DEF ks
        <4> QED BY <4>2, <4>3, <4>4 DEF Holds
      <3>4. n' - 1 = 0 /\ n' <= Len(data') + 1
        BY <1>d, <2>1, <2>2
      <3>5. \A f \in Targets' : Holds(f, n - 1)'
        BY <3>3, <3>4 DEF Holds, Lists
      <3> QED BY <2>1, <2>2, <3>1, <3>4, <3>5 DEF HoldsInv, OutputsRight, Early
    <2> QED BY <2>1, <2>2 DEF HoldsInv, OutputsRight, Early
  <1>5. CASE SkipSection
    <2>1. /\ stage = "disassemble" /\ stage' = stage /\ good /\ good' = good
          /\ n \in 1..Len(data) /\ n' = n + 1 /\ skipped' = skipped \union {n}
          /\ UNCHANGED <<data, files, status>>
      BY <1>0, <1>5 DEF SkipSection, Iterate, arrayVars
    <2>2. /\ skipped \subseteq 1..(n - 1) /\ Targets' = Targets
          /\ \A f \in Targets : Holds(f, n - 1)
      <3>1. Targets' = Targets
        BY <2>1 DEF Targets
      <3> QED BY <2>1, <3>1 DEF HoldsInv
    <2>3. PICK m \in Nat : m = n - 1
      BY <1>0
    <2>4. ASSUME NEW f \in Targets
          PROVE  Holds(f, n - 1)'
      <3>1. Holds(f, m)
        BY <2>2, <2>3
      <3>2. \A k \in 1..m : k \in skipped' <=> k \in skipped
        BY <1>0, <2>1, <2>3
      <3>3. m + 1 \in skipped' /\ n' - 1 = m + 1
        BY <1>0, <2>1, <2>3
      <3>4. Holds(f, m + 1)'
        BY <2>1, <3>1, <3>2, <3>3, HoldsMore
      <3> QED BY <3>3, <3>4, HoldsSoFar
    <2>5. n' <= Len(data') + 1 /\ skipped' \subseteq 1..(n' - 1)
      BY <1>0, <1>d, <2>1, <2>2
    <2> QED BY <2>1, <2>2, <2>4, <2>5 DEF HoldsInv, OutputsRight, Early
  <1>6. CASE LoadedFromDisc
    BY <1>6 DEF LoadedFromDisc, Iterate, HoldsInv, OutputsRight, Early
  <1>7. CASE Extract
    <2>1. /\ stage = "disassemble" /\ stage' = stage /\ good
          /\ n \in 1..Len(data) /\ n' = n + 1
          /\ files' = [files EXCEPT ![data[n].output] = Append(@, data[n].str)]
          /\ UNCHANGED <<data, skipped, status>>
      BY <1>0, <1>7 DEF Extract, Iterate, arrayVars
    <2>2. /\ skipped \subseteq 1..(n - 1) /\ Targets' = Targets
          /\ \A f \in Targets : Holds(f, n - 1)
      <3>1. Targets' = Targets
        BY <2>1 DEF Targets
      <3> QED BY <2>1, <3>1 DEF HoldsInv
    <2>3. PICK m \in Nat : m = n - 1
      BY <1>0
    <2>4. ASSUME NEW f \in Targets
          PROVE  Holds(f, n - 1)'
      <3>1. Holds(f, m) /\ m + 1 = n /\ n' - 1 = m + 1
        BY <1>0, <2>1, <2>2, <2>3
      <3>2. f \in Outputs
        BY <1>d DEF Targets, Outputs
      <3>3. CASE data[m + 1].output = f
        <4>1. files'[f] = Append(files[f], data[m + 1].str)
          BY <1>0, <2>1, <3>1, <3>2, <3>3
        <4>2. m + 1 \notin skipped /\ \A k \in 1..(m + 1) : data[k].str \in Tokens
          BY <1>0, <1>d, <2>1, <2>2, <3>1
        <4>3. Holds(f, m + 1)'
          BY <2>1, <3>1, <3>3, <4>1, <4>2, HoldsNext
        <4> QED BY <3>1, <4>3, HoldsSoFar
      <3>4. CASE data[m + 1].output # f
        <4>1. files'[f] = files[f]
          BY <1>0, <2>1, <3>1, <3>2, <3>4
        <4>2. Holds(f, m + 1)'
          BY <2>1, <3>1, <3>4, <4>1, HoldsMore
        <4> QED BY <3>1, <4>2, HoldsSoFar
      <3> QED BY <3>3, <3>4
    <2>5. n' <= Len(data') + 1 /\ skipped' \subseteq 1..(n' - 1)
      BY <1>0, <1>d, <2>1, <2>2
    <2> QED BY <2>1, <2>2, <2>4, <2>5 DEF HoldsInv, OutputsRight, Early
  <1>8. CASE Overrun \/ LabelOutput \/ Release
    BY <1>8 DEF Overrun, Die, LabelOutput, Release, Go, HoldsInv, OutputsRight, Early
  <1>9. CASE Disassembled
    <2>1. /\ stage = "disassemble" /\ stage' = "save"
          /\ n > Len(data) \/ ~good
          /\ status' = IF good THEN status ELSE "failure"
          /\ UNCHANGED <<data, files, skipped>>
      BY <1>9 DEF Disassembled, Go, arrayVars
    <2>2. ASSUME status' = "success", NEW f \in Targets
          PROVE  Holds(f, Len(data))'
      <3>1. good /\ n = Len(data) + 1 /\ Holds(f, n - 1)
        BY <1>0, <1>d, <2>1, <2>2 DEF HoldsInv
      <3>2. n - 1 = Len(data)
        BY <1>0, <1>d, <3>1
      <3>3. Holds(f, Len(data))
        BY <3>1, <3>2
      <3> QED BY <2>1, <3>3 DEF Holds, Lists
    <2>3. Targets' = Targets
      BY <2>1 DEF Targets
    <2>4. OutputsRight'
      BY <2>2, <2>3 DEF OutputsRight, Targets
    <2> QED BY <2>1, <2>4 DEF HoldsInv, Early
  <1> QED BY <1>1, <1>2, <1>3, <1>4, <1>5, <1>6, <1>7, <1>8, <1>9, NextParts DEF LateNext

LEMMA HoldsInvCorrect == Spec => []HoldsInv
<1>1. Init => HoldsInv
  BY DEF Init, HoldsInv, OutputsRight
<1>2. TypeInv /\ RoomInv /\ ReadyInv /\ HoldsInv /\ [Next]_vars => HoldsInv'
  <2>1. CASE UNCHANGED vars
    <3> SUFFICES ASSUME TypeInv, HoldsInv
                 PROVE  HoldsInv'
      BY <2>1
    <3>1. /\ UNCHANGED <<data, files, skipped, stage, status, good, n>>
          /\ Targets' = Targets
      BY <2>1 DEF vars, arrayVars, Targets
    <3>2. ASSUME NEW f, NEW m, Holds(f, m)
          PROVE  Holds(f, m)'
      BY <3>1, <3>2 DEF Holds, Lists
    <3>3. ASSUME NEW f, Holds(f, n - 1)
          PROVE  Holds(f, n - 1)'
      <4>1. PICK m : m = n - 1
        OBVIOUS
      <4> QED BY <3>1, <3>2, <3>3, <4>1, HoldsSoFar
    <3>4. ASSUME NEW f, Holds(f, Len(data))
          PROVE  Holds(f, Len(data))'
      BY <3>1, <3>4 DEF Holds, Lists
    <3>5. OutputsRight'
      BY <3>1, <3>4 DEF HoldsInv, OutputsRight
    <3> QED BY <3>1, <3>3, <3>5 DEF HoldsInv
  <2> QED BY <2>1, HoldsInvStep
<1> QED BY <1>1, <1>2, TypeInvCorrect, RoomInvCorrect, ReadyInvCorrect, PTL DEF Spec

\* When the disassembly has succeeded, every output file holds the sections
\* written to it, each once and in the order of the array, and nothing else
\* but, in the main file, the labels before them.
THEOREM OutputsRightCorrect == Spec => []OutputsRight
<1>1. HoldsInv => OutputsRight
  BY DEF HoldsInv
<1> QED BY <1>1, HoldsInvCorrect, PTL

-----------------------------------------------------------------------------
(* The end of main.                                                        *)

\* The order of the stages.
Position ==
    [start |-> 1, options |-> 2, map |-> 3, sections |-> 4, objects |-> 5,
     labels |-> 6, comments |-> 7, rom |-> 8, irq |-> 9, vectors |-> 10,
     reset |-> 11, fill |-> 12, tidy |-> 13, disassemble |-> 14, save |-> 15,
     release |-> 16, exit |-> 17, dead |-> 17]

\* The iterations from the counter k up to the last, m.
UpTo(k, m) == IF k <= m THEN m + 1 - k ELSE 0

OptionsLeft(kind) == UpTo(lists[kind].size, Bound(kind))

\* What is left for the loop of a stage.  When the sections are tidied, the
\* sort and the end of the loop come on top of its iterations.
LoopLeft ==
    CASE stage = "options"                          -> OptionsLeft("labels") + OptionsLeft("comments")
      [] stage \in {"objects", "vectors"}           -> UpTo(n, Len(objects))
      [] stage \in {"labels", "comments"}           -> UpTo(n, Len(lists[stage].cells))
      [] stage \in {"reset", "fill", "disassemble"} -> UpTo(n, Len(data))
      [] stage = "tidy" /\ pc = "merge"             -> 1 + UpTo(next, Len(data))
      [] stage = "tidy" /\ pc = "idle" /\ ~tidied   -> 2 + Len(data)
      [] OTHER                                      -> 0

Shortened(left, leftNext) == left \in Nat /\ leftNext \in Nat /\ leftNext < left

\* main goes on to a later stage, or gets nearer to the end of a loop.
Advances ==
    \/ Position[stage] < Position[stage']
    \/ stage' = stage /\ Shortened(LoopLeft, LoopLeft')

LEMMA CountedDown ==
    ASSUME NEW k \in Nat, NEW m \in Nat, k <= m
    PROVE  Shortened(UpTo(k, m), UpTo(k + 1, m))
  BY DEF UpTo, Shortened

\* One iteration of a loop over the objects, over the names of an option, and
\* over the sections.
LEMMA ObjectCounted ==
    ASSUME TypeInv, stage \in {"objects", "vectors"}, stage' = stage,
           n <= Len(objects), n' = n + 1, objects' = objects
    PROVE  Shortened(LoopLeft, LoopLeft')
  <1>1. n \in Nat /\ Len(objects) \in Nat
    BY ConfigsAssumption DEF TypeInv, MainType, ObjectsType
  <1>2. LoopLeft = UpTo(n, Len(objects)) /\ LoopLeft' = UpTo(n + 1, Len(objects))
    BY DEF LoopLeft, UpTo
  <1> QED BY <1>1, <1>2, CountedDown

LEMMA NameCounted ==
    ASSUME TypeInv, NEW kind \in {"labels", "comments"}, stage = kind, stage' = stage,
           NameAt(lists[kind], n) \notin {Zero, Junk}, n' = n + 1, lists' = lists
    PROVE  Shortened(LoopLeft, LoopLeft')
  <1>1. n \in Nat /\ Len(lists[kind].cells) \in Nat
    BY DEF TypeInv, MainType, ListType
  <1>2. n <= Len(lists[kind].cells)
    BY <1>1 DEF NameAt
  <1>3. /\ LoopLeft = UpTo(n, Len(lists[kind].cells))
        /\ LoopLeft' = UpTo(n + 1, Len(lists[kind].cells))
    BY DEF LoopLeft, UpTo
  <1> QED BY <1>1, <1>2, <1>3, CountedDown

LEMMA SectionCounted ==
    ASSUME TypeInv, stage \in {"reset", "fill", "disassemble"}, stage' = stage,
           n <= Len(data), n' = n + 1, data' = data
    PROVE  Shortened(LoopLeft, LoopLeft')
  <1>1. n \in Nat /\ Len(data) \in Nat
    BY DEF TypeInv, MainType, ArrayType
  <1>2. LoopLeft = UpTo(n, Len(data)) /\ LoopLeft' = UpTo(n + 1, Len(data))
    BY DEF LoopLeft, UpTo
  <1> QED BY <1>1, <1>2, CountedDown

\* An option takes a name off the command line, or the process dies.
LEMMA OptionCounted ==
    ASSUME TypeInv, NEW kind \in {"labels", "comments"}, Option(kind)
    PROVE  Advances
  <1>1. lists \in [labels : ListType, comments : ListType] /\ MaxOptions \in Nat
    BY OptionsAssumption DEF TypeInv
  <1>2. stage = "options" /\ lists[kind].size < Bound(kind)
    BY DEF Option
  <1>3. CASE stage' = "dead"
    BY <1>2, <1>3 DEF Advances, Position
  <1>4. CASE stage' # "dead"
    <2>1. /\ stage' = "options"
          /\ lists'[kind].size = lists[kind].size + 1
          /\ \A other \in {"labels", "comments"} \ {kind} : lists'[other] = lists[other]
      <3>1. PICK p : /\ p \in {Grown(lists[kind], "name"), NotGrown(lists[kind]),
                               Stored(lists[kind], "name")}
                     /\ lists' = [lists EXCEPT ![kind] = p]
        BY <1>4, OptionEffect
      <3>2. p.size = lists[kind].size + 1
        BY <3>1 DEF Grown, NotGrown, Stored
      <3>3. lists'[kind] = p
        BY <1>1, <3>1
      <3>4. \A other \in {"labels", "comments"} \ {kind} : lists'[other] = lists[other]
        BY <1>1, <3>1
      <3> QED BY <1>2, <1>4, <3>2, <3>3, <3>4, OptionEffect
    <2>2. \A other \in {"labels", "comments"} :
              lists[other].size \in Nat /\ Bound(other) \in Nat
      BY <1>1 DEF ListType, Bound
    <2>3. Shortened(OptionsLeft(kind), OptionsLeft(kind)')
      BY <1>2, <2>1, <2>2 DEF OptionsLeft, UpTo, Shortened
    <2>4. \A other \in {"labels", "comments"} \ {kind} :
              OptionsLeft(other) \in Nat /\ OptionsLeft(other)' = OptionsLeft(other)
      BY <2>1, <2>2 DEF OptionsLeft, UpTo
    <2>5. /\ LoopLeft = OptionsLeft("labels") + OptionsLeft("comments")
          /\ LoopLeft' = OptionsLeft("labels")' + OptionsLeft("comments")'
      BY <1>2, <2>1 DEF LoopLeft
    <2>6. Shortened(LoopLeft, LoopLeft')
      BY <2>3, <2>4, <2>5 DEF Shortened
    <2> QED BY <1>2, <2>1, <2>6 DEF Advances
  <1> QED BY <1>3, <1>4

LEMMA TidyCounted ==
    ASSUME TypeInv, TidyStep
    PROVE  Advances
  <1>1. stage = "tidy" /\ ~tidied /\ Len(data) \in Nat /\ next \in Nat
    BY DEF TidyStep, TypeInv, ArrayType
  <1>2. CASE Array!TidyStart
    <2>1. stage' = stage /\ pc = "idle" /\ pc' = "merge" /\ next' = 2 /\ data # <<>>
      BY <1>2 DEF TidyStep, Array!TidyStart
    <2>2. Len(data') = Len(data)
      BY <1>1, <1>2 DEF Array!TidyStart
    <2>3. LoopLeft = 2 + Len(data) /\ LoopLeft' = 1 + UpTo(2, Len(data))
      BY <1>1, <2>1, <2>2 DEF LoopLeft, UpTo
    <2> QED BY <1>1, <2>1, <2>3 DEF UpTo, Shortened, Advances
  <1>3. CASE Array!TidyOutOfMemory
    BY <1>1, <1>3 DEF TidyStep, Array!TidyOutOfMemory, Advances, Position
  <1>4. CASE Array!TidyMerge \/ Array!TidyKeep
    <2>1. /\ stage' = stage /\ pc = "merge" /\ pc' = "merge" /\ data' = data
          /\ next <= Len(data) /\ next' = next + 1
      BY <1>4 DEF TidyStep, Array!TidyMerge, Array!TidyKeep
    <2>2. LoopLeft = 1 + UpTo(next, Len(data)) /\ LoopLeft' = 1 + UpTo(next + 1, Len(data))
      BY <1>1, <2>1 DEF LoopLeft, UpTo
    <2>3. Shortened(UpTo(next, Len(data)), UpTo(next + 1, Len(data)))
      BY <1>1, <2>1, CountedDown
    <2>4. Shortened(LoopLeft, LoopLeft')
      BY <2>2, <2>3 DEF Shortened
    <2> QED BY <2>1, <2>4 DEF Advances
  <1>5. CASE Array!TidyDone
    <2>1. stage' = stage /\ pc = "merge" /\ pc' = "idle" /\ tidied' /\ next > Len(data)
      BY <1>5 DEF TidyStep, Array!TidyDone
    <2>2. LoopLeft = 1 + UpTo(next, Len(data)) /\ LoopLeft' = 0
      BY <1>1, <2>1 DEF LoopLeft
    <2> QED BY <1>1, <2>1, <2>2 DEF UpTo, Shortened, Advances
  <1> QED BY <1>2, <1>3, <1>4, <1>5 DEF TidyStep, Array!Tidy

\* main does not come back to a stage it has left, and each loop of a stage
\* ends: whatever the files hold, and whichever of them fail, every step goes
\* on to a later stage or brings the loop of its stage, over the options, the
\* objects, the names, the sections or the vectors, nearer to its end.
THEOREM StagesAdvance == Spec => [][Advances]_vars
<1>1. TypeInv /\ Next => Advances
  <2> SUFFICES ASSUME TypeInv, Next PROVE Advances
    OBVIOUS
  <2>1. CASE \/ StartFail \/ Start \/ Usage \/ MapInit
             \/ \E cfg, irq, cdrom \in BOOLEAN : CommandParsed(cfg, irq, cdrom)
    BY <2>1 DEF StartFail, Start, Usage, MapInit, CommandParsed, Go, Advances, Position
  <2>2. CASE \E kind \in {"labels", "comments"} : Option(kind)
    BY <2>2, OptionCounted
  <2>3. CASE NoSections \/ OpenSections \/ SectionsLoaded \/ LoadRom
    BY <2>3 DEF NoSections, OpenSections, SectionsLoaded, LoadRom, Go, Advances, Position
  <2>4. CASE LoadObject \/ AddVector \/ SkipVector
    <3>1. /\ stage \in {"objects", "vectors"} /\ stage' \in {stage, "dead"}
          /\ n <= Len(objects) /\ n' = n + 1 /\ objects' = objects
      BY <2>4 DEF LoadObject, AddVector, SkipVector, AddSection, Iterate
    <3> QED BY <3>1, ObjectCounted DEF Advances, Position
  <2>5. ASSUME NEW kind \in {"labels", "comments"}, LoadTexts(kind)
        PROVE  Advances
    <3>1. CASE LoadNamed(kind) /\ Iterate(kind)
      <4>1. /\ stage = kind /\ stage' = stage /\ n' = n + 1 /\ lists' = lists
            /\ NameAt(lists[kind], n) \notin {Zero, Junk}
        BY <3>1 DEF LoadNamed, Iterate, setupVars
      <4> QED BY <4>1, NameCounted DEF Advances
    <3>2. CASE stage = kind /\ stage' \in {After[kind], "release", "dead"}
      BY <3>2 DEF After, Advances, Position
    <3> QED BY <2>5, <3>1, <3>2
         DEF LoadTexts, CreateFail, LoadNamed, LoadsEnd, LoadsAstray, Go, Die
  <2>6. CASE NoIrq \/ NoVectors \/ ReadVectors \/ VectorsAdded
    BY <2>6 DEF NoIrq, NoVectors, ReadVectors, VectorsAdded, Go, Advances, Position
  <2>7. CASE \/ ResetOutput \/ FillLabel \/ SkipSection \/ LoadedFromDisc \/ Extract
    <3>1. \/ /\ stage \in {"reset", "fill", "disassemble"} /\ stage' = stage
             /\ n <= Len(data) /\ n' = n + 1 /\ data' = data
          \/ stage \in {"reset", "fill"} /\ stage' = "release"
      BY <2>7 DEF ResetOutput, FillLabel, SkipSection, LoadedFromDisc, Extract, Iterate, Go,
                  arrayVars
    <3> QED BY <3>1, SectionCounted DEF Advances, Position
  <2>8. CASE OutputsReset \/ Filled \/ OutputMain \/ Overrun
    BY <2>8 DEF OutputsReset, Filled, OutputMain, Overrun, Go, Die, Advances, Position
  <2>9. CASE TidyStep
    BY <2>9, TidyCounted
  <2>10. CASE Disassembled \/ LabelOutput \/ Release
    BY <2>10 DEF Disassembled, LabelOutput, Release, Go, Advances, Position
  <2> QED BY <2>1, <2>2, <2>3, <2>4, <2>5, <2>6, <2>7, <2>8, <2>9, <2>10, NextParts
       DEF EarlyNext, LateNext
<1> QED BY <1>1, TypeInvCorrect, PTL DEF Spec

=============================================================================
