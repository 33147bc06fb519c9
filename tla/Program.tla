------------------------------- MODULE Program -------------------------------
(***************************************************************************)
(* The program (main of cli/etripator.c): from the command line to the     *)
(* exit status, over the section array of SectionArray.  Each stage of     *)
(* main may fail, and all of them end in the same release of resources.    *)
(*                                                                         *)
(* The loops of main are one action per iteration.  The two repositories   *)
(* are what AddressMap says of them, sets of addresses; the extraction of  *)
(* a section is one step, the parts of which are DataExtract, CodeExtract  *)
(* and MemoryMap.  Every file may fail to open, every allocation to be     *)
(* made.                                                                   *)
(***************************************************************************)
EXTENDS CommandLine, SectionFile

CONSTANTS
    Tokens, WordSize, Increment,   \* see SectionArray
    Configs,     \* configuration files: the sequences of their objects
    IrqCount,    \* interrupt vectors of a ROM (5)
    IrqOutputs,  \* the names irq_read gives their output files
    Vectors,     \* what the vectors of a ROM may be
    Ipls,        \* the sections the header of a disc may describe
    LabelFile,   \* the addresses a label file may add
    MainFile,    \* options.main_filename
    TableFile,   \* the file irq_read names for the vector table
    MaxOptions   \* bound: options --labels, and one --comments

\* What an earlier session left in the output files.
Old == "old"

ASSUME WordAssumption ==
    /\ WordSize \in Nat \ {0}
    /\ Increment \in Nat \ {0}

\* A command line has so many options, and no more.
ASSUME OptionsAssumption == MaxOptions \in Nat

ASSUME TokensAssumption == Tokens \intersect {Old, "labels"} = {}

\* The vectors, and a table of them, fit the address space.
ASSUME VectorsAssumption ==
    /\ IrqCount \in Nat \ {0}
    /\ 2 * IrqCount <= WordSize
    /\ \A v \in Vectors, k \in 1..IrqCount : v[k] \in 0..(WordSize - 1)

\* What a member that is neither missing nor refused can be.
ASSUME ConfigsAssumption ==
    \A c \in Configs :
        /\ Len(c) \in Nat
        /\ \A k \in 1..Len(c) :
              /\ c[k].page \in {Missing, Bad} \union Nat
              /\ c[k].logical \in {Missing, Bad} \union 0..(WordSize - 1)
              /\ c[k].size \in {Missing, Bad} \union Int

VARIABLES
    data, capacity, alloc, heap, pc, next, section, given, tidied,
    stage,      \* where main is
    printers,   \* the message printers, the last one added first
    lists,      \* the payloads of --labels and --comments
    options,    \* cfg, irq and cdrom
    objects,    \* the objects of the configuration file
    n,          \* the counter of the loop main is in, from 1
    good,       \* the result of the loop so far
    labels,     \* addresses with a label
    map,        \* what the memory map holds
    files,      \* what each output file holds
    skipped,    \* history: sections whose output could not be opened
    saved,      \* history: the labels were written
    status      \* the exit status

arrayVars == <<data, capacity, alloc, heap, pc, next, section, given, tidied>>
vars == <<arrayVars, stage, printers, lists, options, objects, n, good, labels,
          map, files, skipped, saved, status>>

Array == INSTANCE SectionArray WITH Descriptors <- {}

Outputs == {MainFile, TableFile} \union {IrqOutputs[k] : k \in 1..IrqCount}
           \union UNION {{c[k].output : k \in 1..Len(c)} \ {Missing, Bad} : c \in Configs}
           \union UNION {{s.output : s \in {i[k] : k \in 1..Len(i)}} : i \in Ipls}

\* A section, without its strings and with them.
BareSection ==
    [type : {"code", "data"}, dtype : DataTypes \union {"unknown"},
     element : Int, page : Nat, logical : 0..(WordSize - 1), size : Int,
     output : Outputs, moved : BOOLEAN]

Owning(s, t) ==
    [type |-> s.type, dtype |-> s.dtype, element |-> s.element, page |-> s.page,
     logical |-> s.logical, size |-> s.size, output |-> s.output,
     moved |-> s.moved, str |-> t]

ASSUME IplsAssumption == \A i \in Ipls : i \in Seq(BareSection)

Init ==
    /\ Array!Init
    /\ stage = "start"
    /\ printers = <<>>
    /\ lists = [labels |-> NoList, comments |-> NoList]
    /\ options = [cfg |-> FALSE, irq |-> FALSE, cdrom |-> FALSE]
    /\ objects = <<>>
    /\ n = 1
    /\ good = TRUE
    /\ labels = {}
    /\ map = "none"
    /\ files = [f \in Outputs |-> <<Old>>]
    /\ skipped = {}
    /\ saved = FALSE
    /\ status = "failure"

\* The parts of the state, to say what a step leaves alone.
outVars == <<files, skipped, saved, status>>
setupVars == <<printers, lists, options>>
loopVars == <<objects, n, good>>

\* main goes on from one stage to another; every loop starts over.
Go(from, to) ==
    /\ stage = from
    /\ stage' = to
    /\ n' = 1
    /\ good' = TRUE
    /\ UNCHANGED objects

\* One iteration of the loop of a stage.
Iterate(s) ==
    /\ stage = s
    /\ n' = n + 1
    /\ UNCHANGED <<stage, objects>>

Die == stage' = "dead"

-----------------------------------------------------------------------------
(* Message printers, command line, memory map.                             *)

\* The log file cannot be written, or the command line cannot be copied.
StartFail ==
    /\ Go("start", "release")
    /\ printers' \in {<<>>, <<"console", "file">>}
    /\ UNCHANGED <<arrayVars, lists, options, labels, map, outVars>>

Start ==
    /\ Go("start", "options")
    /\ printers' = <<"console", "file">>
    /\ UNCHANGED <<arrayVars, lists, options, labels, map, outVars>>

Bound(kind) == IF kind = "labels" THEN MaxOptions ELSE 1

\* opt_callback for the next name of a list.
Option(kind) ==
    LET p == lists[kind]
    IN  /\ stage = "options"
        /\ p.size < Bound(kind)
        /\ IF Full(p)
           THEN \/ stage' = stage /\ lists' = [lists EXCEPT ![kind] = Grown(p, "name")]
                \/ stage' = stage /\ lists' = [lists EXCEPT ![kind] = NotGrown(p)]
           ELSE IF Fits(p)
           THEN stage' = stage /\ lists' = [lists EXCEPT ![kind] = Stored(p, "name")]
           ELSE Die /\ lists' = lists
        /\ UNCHANGED <<arrayVars, printers, options, loopVars, labels, map, outVars>>

\* A configuration file may only be left out with --irq-detect.
CommandParsed(cfg, irq, cdrom) ==
    /\ cfg \/ irq
    /\ Go("options", "map")
    /\ options' = [cfg |-> cfg, irq |-> irq, cdrom |-> cdrom]
    /\ UNCHANGED <<arrayVars, printers, lists, labels, map, outVars>>

Usage ==
    /\ Go("options", "release")
    /\ UNCHANGED <<arrayVars, setupVars, labels, map, outVars>>

MapInit ==
    /\ \/ Go("map", "sections") /\ map' = "base"
       \/ Go("map", "release") /\ map' = map
    /\ UNCHANGED <<arrayVars, setupVars, labels, outVars>>

-----------------------------------------------------------------------------
(* Sections of the configuration file.                                     *)

NoSections ==
    /\ ~options.cfg
    /\ Go("sections", "labels")
    /\ UNCHANGED <<arrayVars, setupVars, labels, map, outVars>>

\* The file is not a JSON object, or it is one.
OpenSections ==
    /\ options.cfg
    /\ \/ Go("sections", "release")
       \/ /\ stage = "sections"
          /\ stage' = "objects"
          /\ objects' \in Configs
          /\ UNCHANGED <<n, good>>
    /\ UNCHANGED <<arrayVars, setupVars, labels, map, outVars>>

\* Bound: there is a block for the strings of one section more.
BlockLeft == Tokens \ heap # {}

FreeToken == CHOOSE t \in Tokens : t \notin heap

\* An iteration that adds the section s, with strings of its own, to the
\* array (section_array_add).
AddSection(at, s) ==
    /\ stage = at
    /\ BlockLeft
    /\ Array!AddInPlace(Owning(s, FreeToken)) \/ Array!AddGrow(Owning(s, FreeToken))
    /\ stage' = IF pc' = "dead" THEN "dead" ELSE stage
    /\ n' = n + 1
    /\ UNCHANGED <<objects, good>>

\* A section that cannot be added is dropped without a word; an object that
\* is refused is too, but the load fails in the end.
LoadObject ==
    /\ stage = "objects"
    /\ n <= Len(objects)
    /\ IF Accepted(objects[n])
       THEN \/ AddSection("objects", Parsed(objects[n]))
            \/ /\ Len(data) >= capacity
               /\ Iterate("objects")
               /\ UNCHANGED <<arrayVars, good>>
       ELSE /\ Iterate("objects")
            /\ good' = FALSE
            /\ LeaksOutput(objects[n]) => BlockLeft
            /\ heap' = heap \union (IF LeaksOutput(objects[n]) THEN {FreeToken} ELSE {})
            /\ UNCHANGED <<data, capacity, alloc, pc, next, section, given, tidied>>
    /\ UNCHANGED <<setupVars, labels, map, outVars>>

SectionsLoaded ==
    /\ n > Len(objects)
    /\ Go("objects", IF good THEN "labels" ELSE "release")
    /\ UNCHANGED <<arrayVars, setupVars, labels, map, outVars>>

-----------------------------------------------------------------------------
(* Labels and comments: one file after the other.                          *)

After == [labels |-> "comments", comments |-> "rom"]

CreateFail(kind) ==
    /\ n = 1
    /\ Go(kind, "release")
    /\ UNCHANGED <<arrayVars, setupVars, labels, map, outVars>>

\* A file is loaded, or the load ends badly after some of it.
LoadNamed(kind) ==
    /\ NameAt(lists[kind], n) \notin {Zero, Junk}
    /\ \/ Iterate(kind) /\ good' = good
       \/ Go(kind, "release")
    /\ labels' = IF kind = "labels" THEN labels \union LabelFile ELSE labels
    /\ UNCHANGED <<arrayVars, setupVars, map, outVars>>

LoadsEnd(kind) ==
    /\ NameAt(lists[kind], n) = Zero
    /\ Go(kind, After[kind])
    /\ UNCHANGED <<arrayVars, setupVars, labels, map, outVars>>

\* A cell that was never written is taken for a name, or happens to be null.
LoadsAstray(kind) ==
    /\ stage = kind
    /\ NameAt(lists[kind], n) = Junk
    /\ \/ Die /\ UNCHANGED loopVars
       \/ Go(kind, After[kind])
    /\ UNCHANGED <<arrayVars, setupVars, labels, map, outVars>>

LoadTexts(kind) ==
    CreateFail(kind) \/ LoadNamed(kind) \/ LoadsEnd(kind) \/ LoadsAstray(kind)

LoadRom ==
    /\ \/ Go("rom", "irq") /\ map' = IF options.cdrom THEN "cd" ELSE "rom"
       \/ Go("rom", "release") /\ map' = IF options.cdrom THEN "none" ELSE map
    /\ UNCHANGED <<arrayVars, setupVars, labels, outVars>>

-----------------------------------------------------------------------------
(* Interrupt vectors and IPL.                                              *)

NoIrq ==
    /\ ~options.irq
    /\ Go("irq", "reset")
    /\ UNCHANGED <<arrayVars, setupVars, labels, map, outVars>>

\* The ROM is too small for its vectors, or the disc has no header.
NoVectors ==
    /\ options.irq
    /\ Go("irq", "release")
    /\ UNCHANGED <<arrayVars, setupVars, labels, map, outVars>>

IrqSection(logical, output) ==
    [type |-> "code", dtype |-> "binary", element |-> 0, page |-> 0,
     logical |-> logical, size |-> 0, output |-> output, moved |-> FALSE]

\* The table is the end of the address space, and of the first bank.
IrqTable ==
    [type |-> "data", dtype |-> "jumptable", element |-> 0, page |-> 0,
     logical |-> WordSize - 2 * IrqCount, size |-> 2 * IrqCount,
     output |-> TableFile, moved |-> FALSE]

\* What irq_read and ipl_sections add is a list of sections, too.
ReadVectors ==
    /\ options.irq
    /\ stage = "irq"
    /\ n' = 1
    /\ good' = TRUE
    /\ IF options.cdrom
       THEN /\ objects' \in Ipls
            \* ipl_sections asserts that the array was allocated before.
            /\ stage' \in {"vectors"} \union
                           (IF capacity = 0 THEN {"dead"} ELSE {})
       ELSE /\ \E v \in Vectors :
                 objects' = Append([k \in 1..IrqCount |->
                                       IrqSection(v[k], IrqOutputs[k])], IrqTable)
            /\ stage' = "vectors"
    /\ UNCHANGED <<arrayVars, setupVars, labels, map, outVars>>

\* After a section that could not be added the others are left out, but for
\* the vector table.  irq_read does not free the strings of such a section.
AddVector ==
    /\ n <= Len(objects)
    /\ good \/ (~options.cdrom /\ n = Len(objects))
    /\ \/ AddSection("vectors", objects[n])
       \/ /\ Len(data) >= capacity
          /\ Iterate("vectors")
          /\ good' = FALSE
          /\ options.cdrom \/ BlockLeft
          /\ heap' = heap \union (IF options.cdrom THEN {} ELSE {FreeToken})
          /\ UNCHANGED <<data, capacity, alloc, pc, next, section, given, tidied>>
    /\ UNCHANGED <<setupVars, labels, map, outVars>>

SkipVector ==
    /\ n <= Len(objects)
    /\ ~good
    /\ options.cdrom \/ n < Len(objects)
    /\ Iterate("vectors")
    /\ UNCHANGED <<arrayVars, setupVars, good, labels, map, outVars>>

VectorsAdded ==
    /\ n > Len(objects)
    /\ Go("vectors", IF good THEN "reset" ELSE "release")
    /\ UNCHANGED <<arrayVars, setupVars, labels, map, outVars>>

-----------------------------------------------------------------------------
(* Outputs and labels of the sections, and tidying.                        *)

\* Mutant: tries again from the first section.
ResetOutputAgain ==
    /\ n <= Len(data)
    /\ \/ /\ Iterate("reset")
          /\ files' = [files EXCEPT ![data[n].output] = <<>>]
          /\ good' = good
       \/ Go("reset", "reset") /\ files' = files
    /\ UNCHANGED <<arrayVars, setupVars, labels, map, skipped, saved, status>>

\* reset_output empties the output of each section, until one fails to open.
ResetOutput ==
    /\ n <= Len(data)
    /\ \/ /\ Iterate("reset")
          /\ files' = [files EXCEPT ![data[n].output] = <<>>]
          /\ good' = good
       \/ Go("reset", "release") /\ files' = files
    /\ UNCHANGED <<arrayVars, setupVars, labels, map, skipped, saved, status>>

OutputsReset ==
    /\ n > Len(data)
    /\ Go("reset", "fill")
    /\ UNCHANGED <<arrayVars, setupVars, labels, map, outVars>>

Address(s) == <<s.page, s.logical>>

\* The name of each section is a label; the repository may be destroyed when
\* it cannot grow.
FillLabel ==
    /\ n <= Len(data)
    /\ \/ /\ Iterate("fill")
          /\ labels' = labels \union {Address(data[n])}
          /\ good' = good
       \/ Go("fill", "release") /\ labels' = {}
    /\ UNCHANGED <<arrayVars, setupVars, map, outVars>>

\* Mutant: the last section is left out.
FilledShort ==
    /\ n >= Len(data)
    /\ Go("fill", IF data = <<>> THEN "dead" ELSE "tidy")
    /\ UNCHANGED <<arrayVars, setupVars, labels, map, outVars>>

\* section_array_tidy does not accept an empty array.
Filled ==
    /\ n > Len(data)
    /\ Go("fill", IF data = <<>> THEN "dead" ELSE "tidy")
    /\ UNCHANGED <<arrayVars, setupVars, labels, map, outVars>>

TidyStep ==
    /\ stage = "tidy"
    /\ ~tidied
    /\ Array!Tidy
    /\ stage' = IF pc' = "dead" THEN "dead" ELSE stage
    /\ UNCHANGED <<setupVars, loopVars, labels, map, outVars>>

\* output_main: the labels of the RAM and of the hardware go to the main file.
OutputMain ==
    /\ tidied
    /\ \/ /\ Go("tidy", "disassemble")
          /\ files' = [files EXCEPT ![MainFile] = <<"labels">>]
          /\ status' = "success"
       \/ Go("tidy", "release") /\ UNCHANGED <<files, status>>
    /\ UNCHANGED <<arrayVars, setupVars, labels, map, skipped, saved>>

-----------------------------------------------------------------------------
(* Disassembly.                                                            *)

\* The output of the section cannot be opened: on to the next.
SkipSection ==
    /\ good
    /\ n <= Len(data)
    /\ Iterate("disassemble")
    /\ skipped' = skipped \union {n}
    /\ UNCHANGED <<arrayVars, setupVars, good, labels, map, files, saved, status>>

FromDisc(s) == options.cdrom /\ s.moved

\* cd_load succeeds, and that ends the disassembly.
LoadedFromDisc ==
    /\ good
    /\ n <= Len(data)
    /\ FromDisc(data[n])
    /\ Iterate("disassemble")
    /\ good' = FALSE
    /\ UNCHANGED <<arrayVars, setupVars, labels, map, outVars>>

\* The element buffer of data_extract_hex has two bytes.
Overruns(s) == s.type = "data" /\ s.dtype = "hex" /\ s.element > 2 /\ s.size > 2

\* data_extract fails for a section without a data type.
Extracts(s) == s.type = "code" \/ s.dtype \in DataTypes

\* Mutant: the output file is emptied when it is opened.
ExtractTruncated ==
    /\ good
    /\ n <= Len(data)
    /\ Iterate("disassemble")
    /\ good' = Extracts(data[n])
    /\ files' = [files EXCEPT ![data[n].output] = <<data[n].str>>]
    /\ UNCHANGED <<arrayVars, setupVars, labels, map, skipped, saved, status>>

\* The section is extracted to the end of its output file, with whatever the
\* memory holds when cd_load failed.
Extract ==
    /\ good
    /\ n <= Len(data)
    /\ Iterate("disassemble")
    /\ good' = Extracts(data[n])
    /\ files' = [files EXCEPT ![data[n].output] = Append(@, data[n].str)]
    /\ UNCHANGED <<arrayVars, setupVars, labels, map, skipped, saved, status>>

\* Bytes written past the element buffer may kill the process.
Overrun ==
    /\ stage = "disassemble"
    /\ good
    /\ n <= Len(data)
    /\ Overruns(data[n])
    /\ Die
    /\ UNCHANGED <<arrayVars, setupVars, loopVars, labels, map, outVars>>

Disassembled ==
    /\ n > Len(data) \/ ~good
    /\ Go("disassemble", "save")
    /\ status' = IF good THEN status ELSE "failure"
    /\ UNCHANGED <<arrayVars, setupVars, labels, map, files, skipped, saved>>

\* main takes the success of label_output for a failure.
LabelOutput ==
    /\ Go("save", "release")
    /\ \/ saved' = TRUE /\ status' = "failure"
       \/ UNCHANGED <<saved, status>>
    /\ UNCHANGED <<arrayVars, setupVars, labels, map, files, skipped>>

\* Everything is released, and the printers are closed at exit.
Release ==
    /\ Go("release", "exit")
    /\ Array!Delete
    /\ labels' = {}
    /\ map' = "none"
    /\ lists' = [labels |-> NoList, comments |-> NoList]
    /\ printers' = <<>>
    /\ UNCHANGED <<options, outVars>>

Next ==
    \/ StartFail \/ Start
    \/ \E kind \in {"labels", "comments"} : Option(kind)
    \/ Usage
    \/ \E cfg, irq, cdrom \in BOOLEAN : CommandParsed(cfg, irq, cdrom)
    \/ MapInit
    \/ NoSections \/ OpenSections \/ LoadObject \/ SectionsLoaded
    \/ \E kind \in {"labels", "comments"} : LoadTexts(kind)
    \/ LoadRom
    \/ NoIrq \/ NoVectors \/ ReadVectors \/ AddVector \/ SkipVector \/ VectorsAdded
    \/ ResetOutput \/ OutputsReset \/ FillLabel \/ Filled
    \/ TidyStep \/ OutputMain
    \/ SkipSection \/ LoadedFromDisc \/ Extract \/ Overrun \/ Disassembled
    \/ LabelOutput \/ Release

\* A process that can go on does.
Spec == Init /\ [][Next]_vars /\ WF_vars(Next)

-----------------------------------------------------------------------------
(* Properties.                                                             *)

Stages == {"start", "options", "map", "sections", "objects", "labels",
           "comments", "rom", "irq", "vectors", "reset", "fill", "tidy",
           "disassemble", "save", "release", "exit", "dead"}

SectionType ==
    [type : {"code", "data"}, dtype : DataTypes \union {"unknown"},
     element : Int, page : Nat, logical : 0..(WordSize - 1), size : Int,
     output : Outputs, moved : BOOLEAN, str : Tokens]

\* The variables keep their types; the sections of every source, the
\* configuration, the vectors and the header of a disc, are complete.
TypeOK ==
    /\ data \in Seq(SectionType)
    /\ section \in Seq(SectionType)
    /\ heap \subseteq Tokens
    /\ stage \in Stages
    /\ printers \in {<<>>, <<"console", "file">>}
    /\ \A kind \in {"labels", "comments"} :
          lists[kind].cells \in Seq({"name", Zero, Junk})
    /\ n \in Nat \ {0}
    /\ good \in BOOLEAN
    /\ files \in [Outputs -> Seq({Old, "labels"} \union Tokens)]
    /\ skipped \subseteq Nat
    /\ status \in {"success", "failure"}

\* The walk of load_labels and load_comments over the names of an option
\* ends where the names do, unless memory ran out or the number of options
\* is one less than a block of more than four (7, 11, ...), for which
\* opt_callback clears the cells of the last block one cell too early.
ListsTerminated ==
    \A kind \in {"labels", "comments"} :
        LET p == lists[kind]
        IN  p.capacity = Len(p.cells) /\ ~(p.size > 4 /\ p.size % 4 = 3)
            => /\ Terminated(p)
               /\ \A k \in 1..p.size : NameAt(p, k) = "name"

\* When main disassembles, nothing of an earlier session is left in the
\* files it appends to (README: they are overwritten at each session), and
\* the address of every section has its label, those of merged sections
\* included.
SectionsReady ==
    stage \in {"tidy", "disassemble", "save"} =>
        \A k \in 1..Len(data) :
            /\ \A m \in 1..Len(files[data[k].output]) :
                  files[data[k].output][m] # Old
            /\ Address(data[k]) \in labels

\* The sections up to m that an output file is made of, in address order.
Lists(ks, f, m) ==
    /\ \A i, j \in DOMAIN ks : i < j => ks[i] < ks[j]
    /\ {ks[i] : i \in DOMAIN ks} =
           {k \in 1..m : data[k].output = f /\ k \notin skipped}

\* The file f holds the sections up to m; the main file, after the labels of
\* output_main.
Holds(f, m) ==
    \E l \in 0..m : \E ks \in [1..l -> 1..m] :
        /\ Lists(ks, f, m)
        /\ files[f] = (IF f = MainFile THEN <<"labels">> ELSE <<>>)
                      \o [i \in 1..l |-> data[ks[i]].str]

\* A disassembly that succeeds leaves each section that is not skipped, once,
\* in its output file, in address order; the main file begins with the labels
\* of output_main.
OutputsRight ==
    stage = "save" /\ status = "success" =>
        \A f \in {MainFile} \union {data[k].output : k \in 1..Len(data)} :
            Holds(f, Len(data))

\* But for the deaths within cd_load, code_extract and the label and comment
\* files (MemoryMap, CodeExtract, LabelFile and CommentRepository have those),
\* main stops short of its exit in six places only: an option is stored in a
\* list that could not grow, a list of names is not terminated, the header of
\* a disc is read into an array never allocated, there is no section to tidy,
\* no memory to tidy them, or the elements of a section do not fit their
\* buffer.  No source of sections writes one past the array.
DeathExplained ==
    [][stage' = "dead" =>
        \/ stage = "options" /\ \E kind \in DOMAIN lists :
                                    lists[kind].capacity # Len(lists[kind].cells)
        \/ stage \in {"labels", "comments"} /\ ~Terminated(lists[stage])
        \/ stage = "irq" /\ options.cdrom /\ capacity = 0
        \/ stage = "fill" /\ data = <<>>
        \/ stage = "tidy" /\ pc = "idle"
        \/ stage = "disassemble" /\ Overruns(data[n])]_vars

\* The program comes to its end, provided that the extraction of each section
\* does.
Ends == <>(stage \in {"exit", "dead"})

\* README.md: the labels are written to a file.  When the program reports
\* success they have been.
SuccessMeansSaved == stage = "exit" /\ status = "success" => saved
=============================================================================
