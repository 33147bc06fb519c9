# A model of Etripator

Etripator disassembles PC Engine (HuC6280) ROM and CD images. It reads a
configuration (a JSON object of *sections*), labels and comments, merges and
sorts the sections, and outputs each one as assembly or data. It is a
sequential C program: nothing is persisted between sessions but the files it
writes, and there are no threads. What is hard about it is data that several
functions change in turn: arrays that grow, shrink and are sorted in place,
strings on the heap copied by reference, three walks over the same code that
must agree, integers of different widths, and failures half-way.

This directory holds TLA+ specifications of its core, the TLC runs that check
them on small instances, and TLAPS proofs of their main properties for all
values of the constants. File and line references are to the sources in
`src/`.

## Inventory

| Component | State | Operations | Hard behaviour | What makes it correct |
|---|---|---|---|---|
| Section array (`section.c`) | array, count, capacity, strings of the sections | add, reset, delete, tidy | in-place merging, unstable sort, word arithmetic, stale capacity | coverage kept, order, canonical result, strings owned, no overrun |
| Label repository (`label.c`) | array, size, last, strings | create, destroy, add, find, delete | failing allocations, deletion by moving the last label | one label per address, names never replaced, strings owned, map semantics |
| Comment repository (`comment.c`) | the same, one string each | the same | the same | the same |
| Label and comment files (`label/`, `comment/`) | the position in the file | load, save | a bad element, a repository destroyed half-way, lines of a text | loading merges a prefix; what is saved loads; saving ends |
| Code extraction (`decode.c`: `compute_size`, `label_extract`, `decode`; `code_extract` of `cli/etripator.c`) | cursors, sizes, labels | three walks per section | the walks use other widths and limits | the walks agree, stay in the section, end |
| Data extraction (`decode.c`: `data_extract`) | element buffer, pending comment, line | four formats | buffers flushed at labels, comments, lines | every byte is output once, comments are on their line |
| Opcode tables (`opcodes.c`) | none | size, jump tests | | the tests agree with the walks |
| Memory (`memory.c`, `memory_map.c`) | blocks, page table, page registers | init, destroy, read, map | mirrors, unmapped pages | a page shows a bank its block has |
| ROM and CD (`rom.c`, `cd.c`) | page table, blocks | load | sizes not a power of two, overlapping regions, copies across sectors and pages | every byte of a cartridge is visible, a load shows what it asked for and stays in its block |
| Vectors and IPL (`irq.c`, `ipl.c`) | sections added | read | sections without size or offset | each vector becomes a section |
| Section files (`section/`) | array | load, save | goes on after errors | a failure is reported |
| Message printers (`message.c`, `message/`) | linked list | add, print, destroy | adding twice | the list ends |
| Command line (`cli/options.c`) | option arrays | parse, release | growth by four | the arrays are terminated |
| Main (`cli/etripator.c`) | all of these | the sequence of calls, early exits, cleanup | inverted tests, order of passes | what is ready before disassembling, what the output files hold, how it may end |

How they interact: `main` fills the section array (files, then vectors or
IPL), creates and loads the repositories, names the sections in the label
repository, tidies the array, and then `disassemble` takes the sections one by
one: it sets the page registers of the memory map and calls `code_extract` or
`data_extract`. `label_extract` adds to the label repository what `decode`
then looks up; a size found by `compute_size` is stored in the section. All of
it is by direct calls and shared structures; there are no callbacks but those
of the argument parser and the message printers.

## Modules

The modules form five groups; an arrow means "extends or instantiates".

    AddressMap <- LabelRepository <- LabelFile         (label.c, label/)
    AddressMap <- CommentRepository                    (comment.c, comment/)
    Opcodes    <- CodeExtract                          (code walks of decode.c)
    Listing    <- DataExtract                          (data walks of decode.c)
                  MemoryMap                            (memory*.c, rom.c, cd.c)
    SectionArray, SectionFile, CommandLine <- Program  (section.c, section/, cli/)

* `SectionArray` models `section.c`. `data`, `capacity` and `alloc` are the
  array, its recorded capacity and the room its block really has (they differ
  after `section_array_tidy`); `heap` holds the string blocks, one token for
  the three strings of a section, which are always allocated and freed
  together. `section_array_tidy` is `TidyStart` (any order `qsort` may leave),
  then one `TidyMerge` or `TidyKeep` per iteration, then `TidyDone`. A write
  outside the block or an unchecked failing `calloc` leads to `"dead"`.
  `given` and `tidied` are history variables. `Spec` allows any sequence of
  calls, `ProgramSpec` those of `main`: nothing is added to a tidied array.
* `AddressMap` is the abstract specification of a repository: a set of texts,
  at most one per address, changed by putting, annotating, deleting a range
  and clearing.
* `LabelRepository` models `label.c`: the array of labels, its size, and a heap
  of strings from pointer to text. Every `malloc`, `realloc` and `strdup` may
  fail. The deletion loop is one action per iteration. `Entries`, the labels
  as an abstract map (without those the loop under way will still delete),
  is the refinement mapping to `AddressMap`.
* `LabelFile` adds `label_repository_load` and `label_repository_save`, one
  element or label per step, as compositions of the repository's own actions:
  a load calls `label_repository_add`, and stops at a bad element, when memory
  runs out, or dies in the assertion of `json_validate_int`.
* `CommentRepository` models `comment.c` in the same way, and
  `comment_repository_load` and `comment_repository_save` one element at a
  time. A text is one of a few values of which the model knows whether it has
  several lines and whether it contains a quote. Which JSON values make an
  element invalid is abstracted to one invalid element; a file that is not an
  array, or cannot be opened, changes nothing and is no action.
* `Opcodes` is the table of `opcodes.c` reduced to sizes, jumps and returns,
  for all the 256 opcodes.
* `CodeExtract` models the loop of `disassemble` over code sections, with one
  action per instruction of each walk of `decode.c`. The sizes of a byte, a
  page, a word and a double word are constants, and each cursor is truncated
  where the C type truncates it: the cursors of `label_extract` and `decode`
  are words, the one of `compute_size` a double word, its result signed.
  `Instruction` maps a byte to its opcode, so that a machine with bytes of
  three bits can have one opcode of each kind. `labels` is the set of
  addresses in the repository (its texts are those of `LabelRepository`, whose
  addition never removes or renames a label: `ImplementsAddressMap`); a failing
  addition empties it, as `label_repository_destroy` does. `Init` is the state
  after tidying: the array is one `section_array_tidy` can leave (`Tidied`,
  which is assumed of `Programs` and evaluated on every run; the sections of
  such an array that touch would have been merged), and the labels are those
  loaded from files and those of the sections.
  `PassOver` is a data section or one whose output file cannot be opened.
  `seen`, `lines` and `skipped` are history variables.
* `Listing` is the abstract specification of the extraction of data: the bytes
  of the section come out in order, each once, and it ends.
* `DataExtract` models `data_extract` and its four formats, one iteration of
  their loops per step. The output is a sequence of tokens (newline,
  directive, data, separator, quote, label, comment); a data token says which
  bytes it shows, so a lost, repeated or reordered byte shows. `st` gathers
  the locals of the loop: the counter of elements, the bytes waiting in the
  element buffer, whether a string is open, how much of the delimiter has
  matched, and the comment waiting for the end of its line. A byte matters
  only by whether it is a character that is printed and by its equality with
  the delimiter's.
* `MemoryMap` models the blocks of `memory.c`, the page table of
  `memory_map.c`, `rom_load` (header, padding, layouts) and `cd_memory_map`
  and `cd_load`, one iteration of its loop per step. A byte is named by the
  file it comes from and its offset there, so a property can say *which* byte
  a page shows. The calls come in the order of `main`.
* `SectionFile` is `section_load` on one object: which members are refused, by
  order, what defaults are given, and what is leaked.
* `CommandLine` is the growth of the lists of file names in `opt_callback`,
  cell by cell: `Junk` is what `realloc` does not clear.
* `Program` is `main`: from the message printers to the exit status, each
  loop one iteration per step, with every failure and early exit. It
  instantiates `SectionArray` on its own variables, so that the sections of
  the configuration, the vectors and the IPL are added by the very actions
  that are proved about. The extraction of one section is one step (its
  insides are `CodeExtract` and `DataExtract`), loading label and comment
  files is one step per file (`LabelFile`, `CommentRepository`), and the ROM
  or disc is loaded or not (`MemoryMap`). `files` is what each output file
  holds: what an earlier session left, the labels of `output_main`, and whole
  sections.
* `MC*` modules give the constants values for TLC; `*Proofs` modules hold the
  theorems.

## Runs

| Run | Checks | Result |
|---|---|---|
| `section_program` | loading and tidying up to four sections out of eight | passes |
| `section_last_bank` | coverage, with sections that end with the address space | violated: `maxi32` truncates 0x10000 to 0 |
| `labels` | all operations, loads and saves on four addresses | passes |
| `comments` | all operations, loading and saving | passes |
| `comments_save` | saving ends | violated: several lines |
| `code` | the three walks | passes |
| `code_label_set` | decode always finds the label of a jump | violated: empty sections |
| `memory` | twelve sizes of ROM, pairs of sixteen loads from a disc | passes |
| `data` | the four formats, every placement of labels and comments | passes |
| `data_default` | data without an element size stays in the element buffer | violated: the default is 8, the buffer has 2 |
| `program` | the whole of `main`, every stage failing or not | passes |
| `program_status` | success is reported only when the labels were saved | violated: the test is inverted |

Each violation is a disagreement between the code and one of its own comments
or documents; `PROJECT.json` quotes them under "findings". For most there is a
property in a passing run that says what does hold: `CoverageKept` below the
end of the address space, `SaveEnds` for single lines, `LabelSetWhenSized`,
`TypeOK` and `WellFormed` of `DataExtract` for elements that fit.

What the properties of the newer modules say:

* `LabelFile`: `LoadMerges` (a load keeps the names that were there, and of the
  elements of one address the first gives the name), `SaveThenLoad` (what is
  saved gives back the same labels, commas included), and, since its actions
  are those of `LabelRepository`, all the properties of that module while a
  file is being read.
* `DataExtract`: `ImplementsListing` (every byte once and in order, and the
  extraction ends), `LabelsInPlace` (a label stands before its byte and after
  all the earlier ones, although bytes may be waiting for the rest of their
  element), `CommentsKept` (a comment comes after its byte; none is lost but
  the one that waits at the end of hexadecimal data), `WellFormed` (commas
  between values, strings closed on their line, labels at the start of one).
* `MemoryMap`: `MappedInside`, `RomVisible`, `LoadShows` and `DiesOnlyOutside`:
  a page never shows a bank its block has not; every byte of a cartridge of up
  to 128 banks is visible somewhere at its place; a load within one block
  shows what it asked for, whatever sectors and pages it starts and ends in;
  and only a load that is not within one block leaves it.
* `Program`: `ListsTerminated` (the lists of file names end, with the two
  exceptions below), `SectionsReady` (before the first section is output, no
  output file holds text of an earlier session, and each section's address has
  its label), `OutputsRight` (after a success each file holds its sections
  once, in address order), `DeathExplained` (the only places where `main` can
  stop short), `Ends`.

Bounds, and why they are enough:

* Sections: words of 8 values, an increment of 2, and eight sections that
  touch, nest, overlap, clash in kind, are empty, negative or on another page.
  Four at a time give every relation of a merged section with the next two,
  and growing happens twice. A token is a block of strings; four sections need
  four. Tokens are symmetric (no liveness is checked).
* Labels: two pages and two addresses make four entries, so a range may cover
  none, one, two neighbours, or the moved one; an increment of 2 makes the
  array grow twice; two blocks for up to eight strings make `strdup` fail. A
  text either survives a save or does not. One file has an address twice, the
  second time with a description; the other a bad element in the middle.
  Blocks are symmetric.
* Comments: the same addresses, two blocks, texts of one line, several lines
  and with a quote, and two files: one with an address twice, one with a bad
  element in the middle. A range that is deleted covers a page, the entry that
  takes the place of another included, or nothing; ranges that end between two
  entries of a page are left to the run `labels`, whose loop is the same. No
  symmetry, as liveness is checked.
* Code: pages of 8 bytes and words of 64 values, so that eight page registers
  exist as in the machine; one opcode of each kind (return, plain, `bra`,
  conditional and bit branches, `jmp`, `jsr`, a seven byte move). The images
  are all the sequences of three bytes in front of a backward branch, on two
  pages and the first bank, with returns elsewhere; the programs have one to
  three sections, sized or not, across two pages, mirrored, at the end of the
  address space, or found through a vector. The last has the registers, the
  missing offset and the table of vectors that `irq_read` gives it; a byte
  between it and the code before it keeps the tidy from merging the two.
* Memory: banks of 4 bytes, headers of 1, sectors of 2 user bytes in 2 or 3
  of the image. The sizes of ROM (`MCRomSizes`) are those around the end of a
  bank, with and without a header, the two sizes with a layout of their own,
  and one larger than the page table. The loads (`MCRequests`) start in the
  middle of a sector or of a page, cross pages, end a RAM, cross into the
  next, leave it, or start where nothing is mapped. Two loads in a row, as the
  second must not disturb its own block by what the first left.
* Data: sections of up to five bytes, elements of 0 to 2 bytes, lines of 0, 1,
  2 or 16 elements, every set of labels and comments on the first bytes, all
  texts of two characters and a byte that is none, and delimiters of no, one
  and three bytes, one of which overlaps itself. An element is flushed by each
  cause (full, label, comment, end of line, end) and by two at once.
* Program: up to seven label files, the first number for which the list ends
  wrongly; two vectors, of the same section or not; discs with none, one or
  two sections; eight configurations with sections that touch, share output
  files, come out of order, are refused, or lack a type or an element size.
  Seven blocks are more than the strings of any of them need (`BlockLeft`), or
  `Ends` would fail.

Fairness. The program is sequential and each function, once called, goes on
until it returns: `CodeExtract`, `DataExtract` and `Program` are weakly fair on
`Next`, and `CommentRepository` on the steps of a function under way. It is not
assumed that the caller ever calls anything. `WalksEnd` holds of the images of
the run, in which every path reaches a return: for code without a return
`compute_size` has no other end than the next section of its page. `Ends` of
`Program` takes the extraction of each section for one step, so it says that
`main` ends if each extraction does; `WalksEnd` and `ImplementsListing` are
about those.

`CHECK_DEADLOCK FALSE` is used where the process may end or die.

## Proofs

Everything below holds for all values of the constants that satisfy their
assumptions (sets of addresses are integers, the null pointer is not a block,
increments and sizes are positive, widths divide each other, a word is two
bytes, a command line has finitely many options, a member of a section file that
is not refused has the range its parser checks).

* `SectionArrayProofs`: types, `StringsOwned`, `TidySorted`, `CoverageKept` and
  `TidyCanonical` for `Spec`, and `NoOverrun` for `ProgramSpec` (which
  implements `Spec`). The loop of `section_array_tidy` carries the argument:
  `section` and the rest of `data` are sorted, the last placed section is
  before all the rest (`OrderInv`), and what they cover together is what was
  given (`CoverInv`).
  The lemma about merging is that two sections which overlap or touch cover
  together exactly the merged one, unless its end wraps. For `TidyCanonical`:
  a section, merged or not, starts where a given section of its kind does
  (`StartInv`), so that no clash arises by merging; the placed sections are
  apart from each other and, but for the last, from what is left (`ApartInv`);
  and the next one that is not merged with the last is apart from it
  (`KeptApart`). It is proved for the time between two tidies: during one,
  a section of negative size may have been moved away from its place by the
  sort while the array still counts as tidied.
  `NeighboursApart` needs no condition on what was given: no section would be
  merged with the next one again, since whether it is depends only on where
  the next one starts, which merging does not change (`OverlapByStart`). It is
  what `CodeExtract` assumes of its arrays.
* `LabelRepositoryProofs`: types, `LabelsFit`, `AddressesUnique`,
  `StringsOwned`, `OnlyDestroyLeaks`, `DeleteInvisible` and the refinement of
  `AddressMap`. The inductive invariant is the conjunction of the first four
  with `DeleteInv`: what is behind the counter of the deletion loop is outside
  the range. Each step then maps to one step of the map or to none.
* `LabelFileProofs`: `FileSpec` implies the repository's `Spec`
  (`FilesUseRepository`), so that everything proved there holds while files
  are loaded and saved (`FilesKeepRepository`); `SaveThenLoad`, by an
  invariant that what was saved so far are the first labels, each with its
  comma; and `LoadMerges`: storing an element changes nothing, describes a
  label that had no description, or adds a label for an address that had none
  (`StoreEffect`), and of each label that is new the invariant `MergeInv` names
  the first element of its address.
* `CommentRepositoryProofs`: types, `StringsOwned`, `SaveThenLoad`,
  `LoadMerges` and the refinement of `AddressMap`, along the same lines as for
  labels, with the states of the loading and saving loops. `FunctionsAdvance`
  says that each iteration of a deletion or a load, and of a save of comments
  of one line, leaves less to do (`CallLeft`, with `CounterInv`: the counter is
  at most one past the end).
* `CodeExtractProofs`: types, `LabelSetWhenSized`, `InSectionBelowEnd` and
  `ForwardDefined`. The invariant of the walks: `label_extract` has seen the
  start of the section and, with every instruction it has seen, its successor,
  up to the cursor, and the target of every jump seen is a label; `decode`
  only visits what was seen. It rests on a lemma that the target computed in
  `uint16_t` by one and in `uint32_t` by the other is the same word. For
  `ForwardDefined`: a line of the current section is named exactly when its
  label is known, labels are never removed (unless memory is exhausted), and
  no line of a later section is out yet. `WalksAdvance`: in a section that ends
  below the end of the address space each instruction takes `label_extract` and
  `decode` nearer to its end. `compute_size` is not part of it: how far it goes
  depends on the image.
* `MemoryMapProofs`: every property of the run `memory`, for every size of
  bank, header and sector. `MappedInside` needs `PagesInv`: before a cartridge
  or a disc is mapped only the base RAM is behind a page, so that no page
  points into a block that is replaced. `RomVisible` gives the page of each
  bank in the three layouts. The two properties of `cd_load` rest on `InARow`:
  in a request whose pages are banks in a row, byte k is k bytes further in
  one block; so a chunk that starts there and is no longer than what is left
  has room (`RoomInARow`), and, with `SameSector` (offsets within a sector are
  in a row in the image), shows the bytes asked for; `CopyInv` says so of the
  bytes copied so far.
* `DataExtractProofs`: every property of the run `data` but that the extraction
  ends. Types rest on the bounds of the local variables of the three loops
  (`LocalInv`: a string is open only inside a line, the match is no longer than
  the delimiter). The element buffer is not overrun when every hexadecimal
  section has elements of one or two bytes: what waits in it is less than an
  element (`BufferInv`). With the default element size it is overrun
  (`data_default`).
  `LabelsInPlace`, `CommentsKept`, `WellFormed` and the refinement of `Listing`
  come from one invariant of the output, `Says`: what an output says is the
  number of bytes it has shown, in a row; whether a string is open; its last
  token; and the sets of labels and comments in it, with each label after just
  the bytes before its own, each comment after its byte, the comments in order
  and each token one that may follow the one before. A lemma per kind of token
  gives what an output says with one token more; one per part of a line
  (`SaysFlush`, `SaysLabelLine`, `SaysClose`, `SaysEndLine`) composes them; and
  one per function of the loops (`HexByteSays`, `StringCommentSays`, ...) gives
  what an iteration adds. `ListInv` ties it to the loops: while one goes on,
  the output has shown the bytes before the counter but those that wait in the
  buffer, its labels and comments are those of the bytes before the counter but
  the comment that is pending (`Proper`, `Between`, `Going`), and at the end all
  of them (`Ended`), with the two exceptions for hexadecimal data that
  `CommentsKept` names. `ListingRefined` maps each step to one that shows the
  next bytes, or to the end. `ExtractionAdvances`: what is left of the section
  shrinks with each step.
* `ProgramProofs`: every property of the run `program` but its liveness, for
  any configurations, vectors, disc headers and number of options. Types rest
  on `ParsedType`, `VectorsType` and `TableType`: what the three sources add is
  complete. `ListsTerminated` rests on the shape of a list between two options
  (`ListShape`: names, cleared cells and one that was not; or a list that could
  not grow, which the next name is fatal to). `DeathExplained` needs `RoomInv`
  (until it is tidied the array has the room its capacity says) and `WalkInv`
  (a walk over names has only names behind it). `SectionsReady` needs that all
  outputs are empty and all addresses labelled for the sections of the array
  and for those a tidy has placed so far (`EmptyInv`, `LabelledInv`), since
  merging gives no section an output or an address that none had
  (`TidyMembers`). `OutputsRight` holds of each file for the sections up to the
  counter of the loop (`HoldsInv`). `StagesAdvance`: each step of `main` goes on
  to a later stage (`Position`) or shortens what is left for the loop of the
  stage it is in (`LoopLeft`).

Only model-checked: that the functions end (`WalksEnd`, `SaveEnds`, the end in
`ImplementsListing`, `Ends`), since fairness and `ENABLED` are out of reach of
the prover. What can be proved of it is the part without fairness: a natural
number that every step makes smaller (`WalksAdvance`, `FunctionsAdvance`,
`ExtractionAdvances`), or a stage that never comes back and such a number
within each (`StagesAdvance`). So no step goes round in circles; that there is
a next step until the function has ended is left to TLC, and so is the end of
`compute_size`, for the images of the run.

## Known deviations

What the code does that a reader might not expect, as it is in the models:

* `label_repository_destroy` clears `last` before its loop, so the strings of
  the labels are leaked (`label.c:79`). `OnlyDestroyLeaks` says that nothing
  else leaks.
* A code section without a size that touches its neighbour is merged away, and
  its code is not disassembled (`section.c:151`).
* The end of a section that ends with the address space is truncated to zero
  when it is merged (`section.c:166`, run `section_last_bank`).
* The word cursor of `label_extract` wraps at the end of the address space
  (`decode.c:115`); `InSectionBelowEnd` is about sections that end before it.
* `compute_size` compares positions with file offsets modulo the page size, and
  the size it finds for the last section of a page may run into the next page
  (`decode.c:836`).
* An empty section is decoded all the same, without labels (`decode.c:641`, run
  `code_label_set`).
* A comment of several lines is saved for ever (`comment/save.c:68`, run
  `comments_save`).
* In hexadecimal data the last comment is lost when the section ends inside a
  line, and the comment of a byte left in the buffer comes before it
  (`decode.c:271`). In a jump table a comment is repeated until the next one
  (`decode.c:486`).
* The default element size does not fit the element buffer (`decode.c:228`, run
  `data_default`).
* The list of label or comment files is not terminated when there are 7, 11,
  ... of them (`cli/options.c:51`), which `ListsTerminated` excepts together
  with a list that could not grow.
* The loop over the pages of the CD RAM goes one page too far (`cd.c:51`), into
  a page that `MappedInside` excepts.
* A section that `cd_load` could load ends the disassembly, one it could not is
  disassembled from what the memory holds (`cli/etripator.c:281`): so
  `OutputsRight` holds of discs only as far as the code goes.
* Labels that were saved make the exit status a failure
  (`cli/etripator.c:356`, run `program_status`).
* A section object refused after its output name leaks that name
  (`section/load.c`), and `irq_read` the strings of a section that could not
  be added.
* A label or comment without an address ends the process in an assertion
  (`jsonhelpers.c:42`), and so does a disc whose header is read when no
  configuration gave a section (`ipl.c:162`).

## Not modelled

* Wording and layout of the output: mnemonics and operands, the headers of
  `print_header`, the text of `label_dump`.
* `section_save` (`section/save.c`): no part of the program calls it.
* The generation of `ipl.inc` and `ipl_print`, and which bytes of a ROM or
  header the vectors and the IPL come from.
* Logging: only the list of message printers as `main` builds it.
* The parsing of JSON, of numbers (`strtoul` of any prefix) and of the command
  line, which are libraries or conversions; they are represented by which
  values they let through.
* A `fseek` past the header of a ROM that fails, the blank sections
  `ipl_sections` leaves when one of the two could not be added (the program
  then goes straight to its release), and a `strdup` of a section's name that
  fails in `section_load`.
* `examples/` (`password.c`), which is not part of the disassembler.
