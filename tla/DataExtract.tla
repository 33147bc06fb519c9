----------------------------- MODULE DataExtract -----------------------------
(***************************************************************************)
(* The extraction of a data section (data_extract of decode.c): as raw     *)
(* bytes, as hexadecimal elements, as strings or as a jump table, with the *)
(* labels and the comments of its addresses.                               *)
(*                                                                         *)
(* One iteration of a loop of the code is one action.  Bytes are numbered  *)
(* from the start of the section; the output is a sequence of tokens, the  *)
(* widths, the digits and the address comments left out.                   *)
(***************************************************************************)
EXTENDS Integers, Sequences, FiniteSetsExt

CONSTANTS
    Values,      \* values of a byte
    Printable,   \* those printed as characters
    Jobs         \* the sections that may be extracted

DataTypes == {"binary", "hex", "string", "jumptable", "unknown"}

\* A section, its bytes (and the one after them, which an odd jump table
\* reads), and the bytes with a label or a comment.
Job == [type : DataTypes, size : Int, element : Int, perLine : Int,
        delimiter : Seq(Values), bytes : [Nat -> Values],
        labels : SUBSET Nat, comments : SUBSET Nat]

ASSUME PrintableAssumption == Printable \subseteq Values

ASSUME JobsAssumption ==
    \A job \in Jobs :
        /\ job.type \in DataTypes
        /\ job.size \in Int
        /\ job.element \in Int
        /\ job.perLine \in Int
        /\ job.delimiter \in Seq(Values)
        /\ \A i \in DOMAIN job.bytes : job.bytes[i] \in Values
        /\ 0..(job.size - 1) \subseteq DOMAIN job.bytes
        /\ job.labels \subseteq Nat
        /\ job.comments \subseteq Nat

VARIABLES
    job,   \* the section
    pc,    \* "run", "done", "refused" or "dead"
    i,     \* the byte the loop has come to
    st     \* the rest of the local variables, and the output

vars == <<job, pc, i, st>>

\* The buffer of data_extract_hex holds the bytes i-top .. i-1.
BufferSize == 2

None == -1

Kinds == {"newline", "directive", "data", "sep", "quote", "label", "comment"}

\* A token: for data, n bytes from byte at; for the others n is 0.
Token == [kind : Kinds, at : Int, n : Int]

Tok(kind) == <<[kind |-> kind, at |-> 0, n |-> 0]>>
Mark(kind, at) == <<[kind |-> kind, at |-> at, n |-> 0]>>
Bytes(at, n) == <<[kind |-> "data", at |-> at, n |-> n]>>
If(b, s) == IF b THEN s ELSE <<>>

Start == [j |-> 0, top |-> 0, open |-> FALSE, k |-> 0, pending |-> None,
          out |-> <<>>]

Put(s, toks) == [s EXCEPT !.out = @ \o toks]

\* The comment waiting for the end of its line.
Waiting(s) == If(s.pending # None, Mark("comment", s.pending))

NewLine == If(i > 0, Tok("newline"))

HasLabel == i \in job.labels
HasComment == i \in job.comments

-----------------------------------------------------------------------------
(* Hexadecimal elements.                                                   *)

\* Mutant: a label drops an element that is not complete.
DropFlush(s) == [s EXCEPT !.top = 0]

\* An element that is not complete is printed on a line of its own.
Flush(s) ==
    IF s.top > 0 /\ s.top < job.element
    THEN [Put(s, Tok("directive") \o Bytes(i - s.top, s.top))
              EXCEPT !.top = 0]
    ELSE s

HexLabel(s) ==
    IF HasLabel
    THEN [Put(Flush(s), NewLine \o Mark("label", i)) EXCEPT !.j = 0]
    ELSE s

\* Mutant: the bytes in the buffer stay there.
HexCommentNoFlush(s) ==
    IF HasComment
    THEN [Put(s, Waiting(s)) EXCEPT !.pending = i, !.j = 0]
    ELSE s

\* A comment that is waiting gives way to the next one.
HexComment(s) ==
    IF HasComment
    THEN [IF s.pending # None THEN Put(Flush(s), Waiting(s)) ELSE s
              EXCEPT !.pending = i, !.j = 0]
    ELSE s

\* The end of a line of perLine elements.
EndLine(s, full) ==
    IF full THEN [Put(s, Waiting(s)) EXCEPT !.j = 0, !.pending = None]
    ELSE s

\* The byte completes an element, or waits in the buffer.
HexByte(s) ==
    IF s.top + 1 >= job.element
    THEN LET shown == Put(s, Tok(IF s.j = 0 THEN "directive" ELSE "sep")
                                 \o Bytes(i - s.top, s.top + 1))
         IN  EndLine([shown EXCEPT !.top = 0, !.j = @ + 1],
                     s.j + 1 = job.perLine)
    ELSE [s EXCEPT !.top = @ + 1]

\* Mutant: the bytes of an incomplete element are not flushed at the end.
HexEndDropped(s) == Put(s, Tok("newline"))

HexEnd(s) ==
    Put(s, If(s.top > 0, Waiting(s) \o Tok("directive")
                             \o Bytes(i - s.top, s.top))
               \o Tok("newline"))

-----------------------------------------------------------------------------
(* Strings.                                                                *)

Close(s) == [Put(s, If(s.open, Tok("quote"))) EXCEPT !.open = FALSE]

\* Mutant: the string stays open at a label.
StringLabelOpen(s) ==
    IF HasLabel
    THEN [Put(s, NewLine \o Mark("label", i)) EXCEPT !.j = 0]
    ELSE s

StringLabel(s) ==
    IF HasLabel
    THEN [Put(Close(s), NewLine \o Mark("label", i)) EXCEPT !.j = 0]
    ELSE s

\* A comment starts a line, and pushes out the one that is waiting.
StringComment(s) ==
    IF HasComment
    THEN LET line == IF s.j > 0 THEN Close(s) ELSE s
         IN  [Put(line, Waiting(s)) EXCEPT !.j = 0, !.pending = i]
    ELSE s

\* A character goes between quotes, another byte does not.
StringChar(s) ==
    LET begun == IF s.j = 0 THEN Put(s, Tok("directive")) ELSE s
        comma == If(s.j > 0, Tok("sep"))
    IN  IF job.bytes[i] \in Printable
        THEN [Put(begun, If(~s.open, comma \o Tok("quote")) \o Bytes(i, 1))
                  EXCEPT !.open = TRUE]
        ELSE Put(Close(begun), comma \o Bytes(i, 1))

\* How much of the delimiter the bytes up to this one match; a byte that
\* breaks a match does not begin another.
Matched(s) ==
    IF s.k < Len(job.delimiter) /\ job.bytes[i] = job.delimiter[s.k + 1]
    THEN s.k + 1
    ELSE 0

\* Mutant: only a full line is closed, not one a delimiter ends.
StringByteUnclosed(s) ==
    LET m       == Matched(s)
        newline == Len(job.delimiter) > 0 /\ m = Len(job.delimiter)
        full    == s.j + 1 = job.perLine
        shown   == [StringChar(s) EXCEPT !.j = @ + 1,
                                         !.k = IF newline THEN 0 ELSE m]
    IN  EndLine(IF full THEN Close(shown) ELSE shown, full \/ newline)

StringByte(s) ==
    LET m       == Matched(s)
        newline == Len(job.delimiter) > 0 /\ m = Len(job.delimiter)
        full    == s.j + 1 = job.perLine \/ newline
        shown   == [StringChar(s) EXCEPT !.j = @ + 1,
                                         !.k = IF newline THEN 0 ELSE m]
    IN  EndLine(IF full THEN Close(shown) ELSE shown, full)

StringEnd(s) ==
    IF s.j > 0
    THEN Put(Close(s), Waiting(s) \o Tok("newline"))
    ELSE Put(s, Tok("newline"))

-----------------------------------------------------------------------------
(* Jump tables.                                                            *)

JumpLabel(s) ==
    IF HasLabel
    THEN [Put(s, NewLine \o Mark("label", i)) EXCEPT !.j = 0]
    ELSE s

JumpComment(s) ==
    IF HasComment
    THEN [Put(s, Waiting(s)) EXCEPT !.pending = i, !.j = 0]
    ELSE s

\* An entry is two bytes, whatever the size; has_comment is never cleared.
JumpWord(s) ==
    LET full  == s.j + 1 = job.perLine
        entry == Tok(IF s.j = 0 THEN "directive" ELSE "sep") \o Bytes(i, 2)
    IN  [Put(s, entry \o If(full, Waiting(s)))
             EXCEPT !.j = IF full THEN 0 ELSE @ + 1]

JumpEnd(s) == Put(s, If(s.j > 0, Waiting(s)))

-----------------------------------------------------------------------------
Init ==
    /\ job \in Jobs
    /\ pc = "run"
    /\ i = 0
    /\ st = Start

Loop(type, step) ==
    /\ pc = "run"
    /\ job.type = type
    /\ i < job.size
    /\ i' = i + step
    /\ job' = job

Leave(type) ==
    /\ pc = "run"
    /\ job.type = type
    /\ i >= job.size
    /\ pc' = "done"
    /\ UNCHANGED <<job, i>>

BinaryStep ==
    /\ Loop("binary", 1)
    /\ pc' = pc
    /\ st' = Put(st, Bytes(i, 1))

BinaryEnd == Leave("binary") /\ st' = st

\* The byte is stored past the buffer when elements are larger than it.
HexStep ==
    LET s == HexComment(HexLabel(st))
    IN  /\ Loop("hex", 1)
        /\ pc' = IF s.top < BufferSize THEN "run" ELSE "dead"
        /\ st' = HexByte(s)

HexLeave == Leave("hex") /\ st' = HexEnd(st)

StringStep ==
    /\ Loop("string", 1)
    /\ pc' = pc
    /\ st' = StringByte(StringComment(StringLabel(st)))

StringLeave == Leave("string") /\ st' = StringEnd(st)

JumpStep ==
    /\ Loop("jumptable", 2)
    /\ pc' = pc
    /\ st' = JumpWord(JumpComment(JumpLabel(st)))

JumpLeave == Leave("jumptable") /\ st' = JumpEnd(st)

\* data_extract returns false for a section without a data type.
Refuse ==
    /\ pc = "run"
    /\ job.type = "unknown"
    /\ pc' = "refused"
    /\ UNCHANGED <<job, i, st>>

Next ==
    \/ Refuse
    \/ BinaryStep \/ BinaryEnd
    \/ HexStep \/ HexLeave
    \/ StringStep \/ StringLeave
    \/ JumpStep \/ JumpLeave

\* data_extract is called once and runs to its end.
Spec == Init /\ [][Next]_vars /\ WF_vars(Next)

-----------------------------------------------------------------------------
(* Properties.                                                             *)

\* Every variable has its type: what waits in the buffer fits it and lies
\* before the loop counter, and a string is only open inside a line.
TypeOK ==
    /\ job.type \in DataTypes
    /\ pc \in {"run", "done", "refused", "dead"}
    /\ i \in Nat
    /\ st.j \in Nat
    /\ st.top \in 0..(BufferSize + 1)
    /\ st.top <= i
    /\ st.open \in BOOLEAN
    /\ st.open => st.j > 0
    /\ st.k \in 0..Len(job.delimiter)
    /\ st.pending \in -1..(i - 1)
    /\ st.out \in Seq(Token)

Positions(out, kind) == {p \in 1..Len(out) : out[p].kind = kind}

\* The bytes an output has shown before position p: those up to the end of
\* the last data there.
ShownBefore(out, p) ==
    LET before == {q \in Positions(out, "data") : q < p}
    IN  IF before = {} THEN 0
        ELSE out[Max(before)].at + out[Max(before)].n

Shown(out) == ShownBefore(out, Len(out) + 1)

\* Each data token begins where the one before it ended.
Contiguous(out) ==
    \A p \in Positions(out, "data") : out[p].at = ShownBefore(out, p)

\* The bytes a section lists: a jump table rounds them up to words.
Total ==
    IF job.size <= 0 \/ job.type = "unknown" THEN 0
    ELSE IF job.type = "jumptable" THEN job.size + (job.size % 2)
    ELSE job.size

L == INSTANCE Listing WITH
    total <- Total,
    shown <- IF Contiguous(st.out) THEN Shown(st.out) ELSE -1,
    ended <- pc \in {"done", "refused"}

\* Whatever labels, comments, delimiters and line lengths do to the lines,
\* data_extract lists every byte of the section once and in order, and ends.
ImplementsListing == L!FairSpec

\* The addresses whose labels and comments the loop looks up: a jump table
\* only has those of its entries.
LookedUp ==
    {n \in 0..(job.size - 1) :
        /\ job.type \in {"hex", "string", "jumptable"}
        /\ job.type = "jumptable" => n % 2 = 0}

\* A label stands where its byte does: every byte before it has come out,
\* also one that waited in the buffer for the rest of its element, and none
\* from it on.  In the end every label of the section is there once.
LabelsInPlace ==
    /\ \A p \in Positions(st.out, "label") : ShownBefore(st.out, p) = st.out[p].at
    /\ pc = "done" =>
           \A n \in job.labels \intersect LookedUp :
               \E p \in Positions(st.out, "label") :
                   /\ st.out[p].at = n
                   /\ \A q \in Positions(st.out, "label") : st.out[q].at = n => q = p

\* A comment comes after the byte it is about.  (Not so for the byte left in
\* the buffer at the end of data_extract_hex, whose comment comes first.)
AfterBytes ==
    \A p \in Positions(st.out, "comment") :
        \/ ShownBefore(st.out, p) > st.out[p].at
        \/ /\ pc = "done" /\ job.type = "hex" /\ st.top > 0
           /\ st.out[p].at = st.pending

\* The comments of a section come out in order and none is lost, but for the
\* one that waits when hexadecimal data ends within a line.  A string prints
\* each once; a jump table repeats one until the next.
Kept ==
    LET printed == {st.out[p].at : p \in Positions(st.out, "comment")}
        asked   == job.comments \intersect LookedUp
    IN  /\ \A p, q \in Positions(st.out, "comment") :
               /\ p < q => st.out[p].at <= st.out[q].at
               /\ job.type # "jumptable" /\ p # q =>
                      st.out[p].at # st.out[q].at
        /\ printed \subseteq asked
        /\ pc = "done" =>
               \A n \in asked \ printed :
                   /\ job.type = "hex" /\ st.top = 0 /\ st.j > 0
                   /\ \A m \in asked : m <= n

\* The comments of the section: each after its byte, in order, none lost.
CommentsKept == AfterBytes /\ Kept

\* Whether a string is open after the first p tokens: every quote opens one
\* or closes it.
OpenAfter(out, p) ==
    Cardinality({q \in Positions(out, "quote") : q <= p}) % 2 = 1

Breaks == {"directive", "newline", "comment"}

MayFollow(kind, open) ==
    CASE kind \in {"directive", "sep"} -> {"data", "quote"}
      [] kind = "data"  -> IF open THEN {"data", "quote"} ELSE Breaks \union {"sep"}
      [] kind = "quote" -> IF open THEN {"data"} ELSE Breaks \union {"sep"}
      [] kind = "newline" -> {"label"}
      [] kind = "label"   -> {"directive", "comment"}
      [] kind = "comment" -> Breaks

\* Each token of an output may follow the one before it.
Chained(out) ==
    \A p \in 1..(Len(out) - 1) :
        out[p + 1].kind \in MayFollow(out[p].kind, OpenAfter(out, p))

\* The listing can be assembled: values are separated by commas, a string is
\* closed before its line ends, and a label starts a line, wherever labels,
\* comments and delimiters cut the lines.
WellFormed ==
    job.type # "binary" =>
        /\ Chained(st.out)
        /\ pc = "done" => ~OpenAfter(st.out, Len(st.out))

\* README.md: the default element size is 1.  A section that does not give
\* one is extracted within the bounds of the element buffer.
DefaultElementFits == pc # "dead"
=============================================================================
