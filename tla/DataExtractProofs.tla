-------------------------- MODULE DataExtractProofs --------------------------
(***************************************************************************)
(* What holds of the extraction of every data section: its local variables *)
(* keep their bounds, the element buffer is not overrun when elements fit  *)
(* it, labels and comments stand in their places, the output can be        *)
(* assembled, and every byte is listed once and in order.                  *)
(***************************************************************************)
EXTENDS DataExtract, FiniteSetTheorems, WellFoundedInduction, TLAPS

-----------------------------------------------------------------------------
(* Tokens.                                                                 *)

Tokens == Seq(Token)

LEMMA TokType ==
    ASSUME NEW kind \in Kinds
    PROVE  Tok(kind) \in Tokens
  <1>1. [kind |-> kind, at |-> 0, n |-> 0] \in Token
    BY DEF Token
  <1> HIDE DEF Token
  <1> QED BY <1>1 DEF Tok, Tokens

LEMMA MarkType ==
    ASSUME NEW kind \in Kinds, NEW a \in Int
    PROVE  Mark(kind, a) \in Tokens
  <1>1. [kind |-> kind, at |-> a, n |-> 0] \in Token
    BY DEF Token
  <1> HIDE DEF Token
  <1> QED BY <1>1 DEF Mark, Tokens

LEMMA BytesType ==
    ASSUME NEW a \in Int, NEW m \in Int
    PROVE  Bytes(a, m) \in Tokens
  <1>1. [kind |-> "data", at |-> a, n |-> m] \in Token
    BY DEF Token, Kinds
  <1> HIDE DEF Token
  <1> QED BY <1>1 DEF Bytes, Tokens

LEMMA Joined ==
    ASSUME NEW s \in Tokens, NEW t \in Tokens
    PROVE  s \o t \in Tokens
  BY DEF Tokens

-----------------------------------------------------------------------------
(* The steps of the loops, on the local variables.                         *)

Local == [j : Nat, top : Nat, open : BOOLEAN, k : Nat, pending : Int, out : Tokens]


LEMMA PutType ==
    ASSUME NEW s \in Local, NEW toks \in Tokens
    PROVE  /\ Put(s, toks) \in Local
           /\ Put(s, toks).j = s.j /\ Put(s, toks).top = s.top
           /\ Put(s, toks).open = s.open /\ Put(s, toks).k = s.k
           /\ Put(s, toks).pending = s.pending
  <1>1. s.out \o toks \in Tokens
    BY Joined DEF Local
  <1> HIDE DEF Tokens
  <1> QED BY <1>1 DEF Put, Local

\* The section and the byte of a step.
Given == job \in Jobs /\ i \in Nat

LEMMA WaitingType ==
    ASSUME NEW s \in Local, Given
    PROVE  Waiting(s) \in Tokens /\ NewLine \in Tokens
  <1>1. s.pending \in Int /\ "comment" \in Kinds /\ "newline" \in Kinds
    BY DEF Local, Kinds
  <1>2. Mark("comment", s.pending) \in Tokens /\ Tok("newline") \in Tokens
    BY <1>1, TokType, MarkType
  <1>3. <<>> \in Tokens
    BY DEF Tokens
  <1> QED BY <1>2, <1>3 DEF Waiting, NewLine, If

\* A label of byte i, on a line of its own.
LEMMA LabelType ==
    ASSUME Given
    PROVE  NewLine \o Mark("label", i) \in Tokens
  <1>1. "label" \in Kinds /\ "newline" \in Kinds /\ i \in Int
    BY DEF Kinds, Given
  <1>2. Mark("label", i) \in Tokens /\ Tok("newline") \in Tokens /\ <<>> \in Tokens
    BY <1>1, TokType, MarkType DEF Tokens
  <1>3. NewLine \in Tokens
    BY <1>2 DEF NewLine, If
  <1> QED BY <1>2, <1>3, Joined

LEMMA FlushType ==
    ASSUME NEW s \in Local, Given
    PROVE  /\ Flush(s) \in Local
           /\ Flush(s).top \in {s.top, 0}
           /\ Flush(s).j = s.j /\ Flush(s).open = s.open /\ Flush(s).k = s.k
           /\ Flush(s).pending = s.pending
  <1> DEFINE toks == Tok("directive") \o Bytes(i - s.top, s.top)
             t == Put(s, toks)
  <1>1. toks \in Tokens
    <2>1. "directive" \in Kinds /\ i - s.top \in Int /\ s.top \in Int
      BY DEF Kinds, Given, Local
    <2>2. Tok("directive") \in Tokens /\ Bytes(i - s.top, s.top) \in Tokens
      BY <2>1, TokType, BytesType
    <2> QED BY <2>2, Joined
  <1> HIDE DEF toks
  <1>2. /\ t \in Local /\ t.j = s.j /\ t.top = s.top /\ t.open = s.open
        /\ t.k = s.k /\ t.pending = s.pending
    BY <1>1, PutType
  <1> HIDE DEF t
  <1>3. /\ [t EXCEPT !.top = 0] \in Local /\ [t EXCEPT !.top = 0].top = 0
        /\ [t EXCEPT !.top = 0].j = s.j /\ [t EXCEPT !.top = 0].open = s.open
        /\ [t EXCEPT !.top = 0].k = s.k /\ [t EXCEPT !.top = 0].pending = s.pending
    BY <1>2 DEF Local
  <1>4. Flush(s) = IF s.top > 0 /\ s.top < job.element THEN [t EXCEPT !.top = 0] ELSE s
    BY DEF Flush, t, toks
  <1> QED BY <1>3, <1>4

LEMMA CloseType ==
    ASSUME NEW s \in Local
    PROVE  /\ Close(s) \in Local /\ Close(s).open = FALSE
           /\ Close(s).j = s.j /\ Close(s).top = s.top /\ Close(s).k = s.k
           /\ Close(s).pending = s.pending
  <1> DEFINE toks == If(s.open, Tok("quote"))
             t == Put(s, toks)
  <1>1. toks \in Tokens
    <2>1. Tok("quote") \in Tokens /\ <<>> \in Tokens
      BY TokType DEF Kinds, Tokens
    <2> QED BY <2>1 DEF If
  <1> HIDE DEF toks
  <1>2. /\ t \in Local /\ t.j = s.j /\ t.top = s.top
        /\ t.k = s.k /\ t.pending = s.pending
    BY <1>1, PutType
  <1>3. Close(s) = [t EXCEPT !.open = FALSE]
    BY DEF Close, toks
  <1> HIDE DEF t
  <1> QED BY <1>2, <1>3 DEF Local

LEMMA EndLineType ==
    ASSUME NEW s \in Local, NEW full \in BOOLEAN, Given
    PROVE  /\ EndLine(s, full) \in Local
           /\ EndLine(s, full).top = s.top /\ EndLine(s, full).open = s.open
           /\ EndLine(s, full).k = s.k
           /\ EndLine(s, full).pending \in {s.pending, None}
           /\ EndLine(s, full).j = IF full THEN 0 ELSE s.j
  <1> DEFINE t == Put(s, Waiting(s))
  <1>1. /\ t \in Local /\ t.j = s.j /\ t.top = s.top /\ t.open = s.open
        /\ t.k = s.k /\ t.pending = s.pending
    BY WaitingType, PutType
  <1>2. EndLine(s, full) = IF full THEN [t EXCEPT !.j = 0, !.pending = None] ELSE s
    BY DEF EndLine
  <1> HIDE DEF t
  <1>3. CASE full
    <2> DEFINE u == [t EXCEPT !.j = 0, !.pending = None]
    <2>1. None \in Int
      BY DEF None
    <2>2. /\ u \in Local /\ u.j = 0 /\ u.pending = None /\ u.top = t.top
          /\ u.open = t.open /\ u.k = t.k
      BY <1>1, <2>1 DEF Local
    <2>3. EndLine(s, full) = u
      BY <1>2, <1>3
    <2> HIDE DEF u
    <2> QED BY <1>1, <1>3, <2>2, <2>3
  <1>4. CASE ~full
    BY <1>2, <1>4 DEF Local
  <1> QED BY <1>3, <1>4

-----------------------------------------------------------------------------
(* Hexadecimal elements.                                                   *)

LEMMA HexLabelType ==
    ASSUME NEW s \in Local, Given
    PROVE  /\ HexLabel(s) \in Local
           /\ HexLabel(s).top \in {s.top, 0}
           /\ HexLabel(s).open = s.open /\ HexLabel(s).k = s.k
           /\ HexLabel(s).pending = s.pending
  <1> DEFINE f == Flush(s)
             t == Put(f, NewLine \o Mark("label", i))
  <1>1. /\ f \in Local /\ f.top \in {s.top, 0} /\ f.open = s.open /\ f.k = s.k
        /\ f.pending = s.pending
    BY FlushType
  <1> HIDE DEF f
  <1>2. /\ t \in Local /\ t.top = f.top /\ t.open = f.open /\ t.k = f.k
        /\ t.pending = f.pending
    BY <1>1, LabelType, PutType
  <1>3. HexLabel(s) = IF HasLabel THEN [t EXCEPT !.j = 0] ELSE s
    BY DEF HexLabel, t, f
  <1> HIDE DEF t
  <1>4. CASE HasLabel
    BY <1>1, <1>2, <1>3, <1>4 DEF Local
  <1>5. CASE ~HasLabel
    BY <1>3, <1>5
  <1> QED BY <1>4, <1>5

LEMMA HexCommentType ==
    ASSUME NEW s \in Local, Given
    PROVE  /\ HexComment(s) \in Local
           /\ HexComment(s).top \in {s.top, 0}
           /\ HexComment(s).open = s.open /\ HexComment(s).k = s.k
           /\ HexComment(s).pending \in {s.pending, i}
  <1> DEFINE f == Flush(s)
             t == IF s.pending # None THEN Put(f, Waiting(s)) ELSE s
  <1>1. /\ f \in Local /\ f.top \in {s.top, 0} /\ f.open = s.open /\ f.k = s.k
        /\ Waiting(s) \in Tokens
    BY FlushType, WaitingType
  <1> HIDE DEF f
  <1>2. /\ t \in Local /\ t.top \in {s.top, 0} /\ t.open = s.open /\ t.k = s.k
    BY <1>1, PutType
  <1>3. HexComment(s) = IF HasComment THEN [t EXCEPT !.pending = i, !.j = 0] ELSE s
    BY DEF HexComment, t, f
  <1>4. i \in Int
    BY DEF Given
  <1> HIDE DEF t
  <1>5. CASE HasComment
    <2> DEFINE u == [t EXCEPT !.pending = i, !.j = 0]
    <2>1. /\ u \in Local /\ u.pending = i /\ u.top = t.top
          /\ u.open = t.open /\ u.k = t.k
      BY <1>2, <1>4 DEF Local
    <2> HIDE DEF u
    <2>2. HexComment(s) = u
      BY <1>3, <1>5 DEF u
    <2> QED BY <1>2, <2>1, <2>2
  <1>6. CASE ~HasComment
    BY <1>3, <1>6
  <1> QED BY <1>5, <1>6

\* The element is complete and the buffer empty, or the byte waits in it.
LEMMA HexByteType ==
    ASSUME NEW s \in Local, Given
    PROVE  /\ HexByte(s) \in Local
           /\ \/ HexByte(s).top = 0
              \/ HexByte(s).top = s.top + 1 /\ s.top + 1 < job.element
           /\ HexByte(s).open = s.open /\ HexByte(s).k = s.k
           /\ HexByte(s).pending \in {s.pending, None}
  <1> DEFINE toks == Tok(IF s.j = 0 THEN "directive" ELSE "sep")
                         \o Bytes(i - s.top, s.top + 1)
             t == Put(s, toks)
             u == [t EXCEPT !.top = 0, !.j = @ + 1]
             full == s.j + 1 = job.perLine
  <1>1. toks \in Tokens
    <2>1. /\ (IF s.j = 0 THEN "directive" ELSE "sep") \in Kinds
          /\ i - s.top \in Int /\ s.top + 1 \in Int
      BY DEF Kinds, Given, Local
    <2>2. /\ Tok(IF s.j = 0 THEN "directive" ELSE "sep") \in Tokens
          /\ Bytes(i - s.top, s.top + 1) \in Tokens
      BY <2>1, TokType, BytesType
    <2> QED BY <2>2, Joined
  <1> HIDE DEF toks
  <1>2. /\ t \in Local /\ t.open = s.open /\ t.k = s.k /\ t.pending = s.pending
    BY <1>1, PutType
  <1>3. /\ u \in Local /\ u.top = 0 /\ u.open = s.open /\ u.k = s.k
        /\ u.pending = s.pending
    <2> HIDE DEF t
    <2>1. u = [t EXCEPT !.top = 0, !.j = t.j + 1]
      BY <1>2 DEF Local
    <2>2. t.j + 1 \in Nat
      BY <1>2 DEF Local
    <2> DEFINE j == t.j + 1
    <2> HIDE DEF j, u
    <2>3. u = [t EXCEPT !.top = 0, !.j = j] /\ j \in Nat
      BY <2>1, <2>2 DEF j
    <2> QED BY <1>2, <2>3 DEF Local
  <1>4. HexByte(s) = IF s.top + 1 >= job.element THEN EndLine(u, full)
                     ELSE [s EXCEPT !.top = @ + 1]
    BY DEF HexByte, u, t, toks, full
  <1> HIDE DEF u, full
  <1>5. CASE s.top + 1 >= job.element
    <2>1. full \in BOOLEAN
      BY DEF full
    <2> QED BY <1>3, <1>4, <1>5, <2>1, EndLineType
  <1>6. CASE ~(s.top + 1 >= job.element)
    <2>1. job.element \in Int /\ s.top \in Nat
      BY JobsAssumption DEF Given, Local
    <2>2. /\ HexByte(s) \in Local /\ HexByte(s).top = s.top + 1
          /\ HexByte(s).open = s.open /\ HexByte(s).k = s.k
          /\ HexByte(s).pending = s.pending
      BY <1>4, <1>6 DEF Local
    <2> QED BY <1>6, <2>1, <2>2
  <1> QED BY <1>5, <1>6

\* What an iteration of data_extract_hex does to the buffer and the comment.
LEMMA HexStepType ==
    ASSUME NEW s \in Local, Given
    PROVE  LET t == HexComment(HexLabel(s)) IN
           /\ HexByte(t) \in Local
           /\ t.top \in {s.top, 0}
           /\ \/ HexByte(t).top = 0
              \/ HexByte(t).top = t.top + 1 /\ t.top + 1 < job.element
           /\ HexByte(t).open = s.open /\ HexByte(t).k = s.k
           /\ HexByte(t).pending \in {s.pending, None, i}
  <1> DEFINE r == HexLabel(s)
             t == HexComment(r)
  <1>1. /\ r \in Local /\ r.top \in {s.top, 0} /\ r.open = s.open /\ r.k = s.k
        /\ r.pending = s.pending
    BY HexLabelType
  <1> HIDE DEF r
  <1>2. /\ t \in Local /\ t.top \in {r.top, 0} /\ t.open = r.open /\ t.k = r.k
        /\ t.pending \in {r.pending, i}
    BY <1>1, HexCommentType
  <1> HIDE DEF t
  <1>3. /\ HexByte(t) \in Local
        /\ \/ HexByte(t).top = 0
           \/ HexByte(t).top = t.top + 1 /\ t.top + 1 < job.element
        /\ HexByte(t).open = t.open /\ HexByte(t).k = t.k
        /\ HexByte(t).pending \in {t.pending, None}
    BY <1>2, HexByteType
  <1> QED BY <1>1, <1>2, <1>3 DEF t, r

LEMMA HexEndType ==
    ASSUME NEW s \in Local, Given
    PROVE  /\ HexEnd(s) \in Local /\ HexEnd(s).j = s.j /\ HexEnd(s).top = s.top
           /\ HexEnd(s).open = s.open /\ HexEnd(s).k = s.k
           /\ HexEnd(s).pending = s.pending
  <1> DEFINE rest == Waiting(s) \o Tok("directive") \o Bytes(i - s.top, s.top)
             toks == If(s.top > 0, rest) \o Tok("newline")
  <1>1. "directive" \in Kinds /\ "newline" \in Kinds /\ i - s.top \in Int /\ s.top \in Int
    BY DEF Kinds, Given, Local
  <1>2. /\ Waiting(s) \in Tokens /\ Tok("directive") \in Tokens
        /\ Tok("newline") \in Tokens /\ Bytes(i - s.top, s.top) \in Tokens
    BY <1>1, WaitingType, TokType, BytesType
  <1>3. rest \in Tokens
    BY <1>2, Joined
  <1> HIDE DEF rest
  <1>4. If(s.top > 0, rest) \in Tokens
    BY <1>3 DEF If, Tokens
  <1>5. toks \in Tokens
    BY <1>2, <1>4, Joined
  <1>6. HexEnd(s) = Put(s, toks)
    BY DEF HexEnd, toks, rest
  <1> HIDE DEF toks
  <1> QED BY <1>5, <1>6, PutType

-----------------------------------------------------------------------------
(* Strings.                                                                *)

\* A string is only open inside a line.
OpenInLine(s) == s.open => s.j > 0

LEMMA StringLabelType ==
    ASSUME NEW s \in Local, Given, OpenInLine(s)
    PROVE  /\ StringLabel(s) \in Local /\ OpenInLine(StringLabel(s))
           /\ StringLabel(s).top = s.top /\ StringLabel(s).k = s.k
           /\ StringLabel(s).pending = s.pending
  <1> DEFINE c == Close(s)
             t == Put(c, NewLine \o Mark("label", i))
             u == [t EXCEPT !.j = 0]
  <1>1. /\ c \in Local /\ c.open = FALSE /\ c.top = s.top /\ c.k = s.k
        /\ c.pending = s.pending
    BY CloseType
  <1> HIDE DEF c
  <1>2. /\ t \in Local /\ t.open = c.open /\ t.top = c.top /\ t.k = c.k
        /\ t.pending = c.pending
    BY <1>1, LabelType, PutType
  <1>3. StringLabel(s) = IF HasLabel THEN u ELSE s
    BY DEF StringLabel, t, c
  <1> HIDE DEF t
  <1>4. /\ u \in Local /\ u.open = FALSE /\ u.top = s.top /\ u.k = s.k
        /\ u.pending = s.pending
    BY <1>1, <1>2 DEF Local
  <1> HIDE DEF u
  <1> QED BY <1>3, <1>4 DEF OpenInLine

LEMMA StringCommentType ==
    ASSUME NEW s \in Local, Given, OpenInLine(s)
    PROVE  /\ StringComment(s) \in Local /\ OpenInLine(StringComment(s))
           /\ StringComment(s).top = s.top /\ StringComment(s).k = s.k
           /\ StringComment(s).pending \in {s.pending, i}
  <1> DEFINE c == IF s.j > 0 THEN Close(s) ELSE s
             t == Put(c, Waiting(s))
             u == [t EXCEPT !.j = 0, !.pending = i]
  <1>1. /\ c \in Local /\ c.open = FALSE /\ c.top = s.top /\ c.k = s.k
    <2>1. s.open \in BOOLEAN
      BY DEF Local
    <2> QED BY <2>1, CloseType DEF OpenInLine
  <1> HIDE DEF c
  <1>2. /\ t \in Local /\ t.open = c.open /\ t.top = c.top /\ t.k = c.k
    BY <1>1, WaitingType, PutType
  <1>3. StringComment(s) = IF HasComment THEN u ELSE s
    BY DEF StringComment, t, c
  <1> HIDE DEF t
  <1>4. i \in Int
    BY DEF Given
  <1>5. /\ u \in Local /\ u.open = FALSE /\ u.top = s.top /\ u.k = s.k
        /\ u.pending = i
    BY <1>1, <1>2, <1>4 DEF Local
  <1> HIDE DEF u
  <1> QED BY <1>3, <1>5 DEF OpenInLine

LEMMA StringCharType ==
    ASSUME NEW s \in Local, Given
    PROVE  /\ StringChar(s) \in Local
           /\ StringChar(s).j = s.j /\ StringChar(s).top = s.top
           /\ StringChar(s).k = s.k /\ StringChar(s).pending = s.pending
  <1> DEFINE b == IF s.j = 0 THEN Put(s, Tok("directive")) ELSE s
             comma == If(s.j > 0, Tok("sep"))
             quoted == If(~s.open, comma \o Tok("quote")) \o Bytes(i, 1)
             plain == comma \o Bytes(i, 1)
             c == Put(b, quoted)
             u == [c EXCEPT !.open = TRUE]
             v == Put(Close(b), plain)
  <1>1. /\ Tok("directive") \in Tokens /\ Tok("quote") \in Tokens
        /\ Tok("sep") \in Tokens /\ <<>> \in Tokens /\ Bytes(i, 1) \in Tokens
    <2>1. {"directive", "quote", "sep"} \subseteq Kinds /\ i \in Int
      BY DEF Kinds, Given
    <2> QED BY <2>1, TokType, BytesType DEF Tokens
  <1>2. comma \in Tokens
    BY <1>1 DEF If
  <1>3. plain \in Tokens
    BY <1>1, <1>2, Joined
  <1>4. quoted \in Tokens
    <2>1. comma \o Tok("quote") \in Tokens
      BY <1>1, <1>2, Joined
    <2> HIDE DEF comma
    <2>2. If(~s.open, comma \o Tok("quote")) \in Tokens
      BY <1>1, <2>1 DEF If
    <2> QED BY <1>1, <2>2, Joined
  <1>5. /\ b \in Local /\ b.j = s.j /\ b.top = s.top /\ b.k = s.k
        /\ b.pending = s.pending
    BY <1>1, PutType
  <1>6. StringChar(s) = IF job.bytes[i] \in Printable THEN u ELSE v
    BY DEF StringChar, u, v, c, b, quoted, plain, comma
  <1> HIDE DEF b, comma, quoted, plain
  <1>7. /\ c \in Local /\ c.j = s.j /\ c.top = s.top /\ c.k = s.k
        /\ c.pending = s.pending
    BY <1>4, <1>5, PutType
  <1>8. /\ v \in Local /\ v.j = s.j /\ v.top = s.top /\ v.k = s.k
        /\ v.pending = s.pending
    <2> DEFINE d == Close(b)
    <2>1. /\ d \in Local /\ d.j = s.j /\ d.top = s.top /\ d.k = s.k
          /\ d.pending = s.pending
      BY <1>5, CloseType
    <2> HIDE DEF d
    <2>2. v = Put(d, plain)
      BY DEF v, d
    <2> HIDE DEF v
    <2> QED BY <1>3, <2>1, <2>2, PutType
  <1> HIDE DEF c, v
  <1>9. /\ u \in Local /\ u.j = s.j /\ u.top = s.top /\ u.k = s.k
        /\ u.pending = s.pending
    BY <1>7 DEF Local
  <1> HIDE DEF u
  <1> QED BY <1>6, <1>8, <1>9

LEMMA MatchedType ==
    ASSUME NEW s \in Local, Given
    PROVE  Matched(s) \in Nat /\ Matched(s) <= Len(job.delimiter)
  <1>1. Len(job.delimiter) \in Nat
    BY JobsAssumption DEF Given
  <1>2. s.k \in Nat
    BY DEF Local
  <1> QED BY <1>1, <1>2 DEF Matched

LEMMA StringByteType ==
    ASSUME NEW s \in Local, Given
    PROVE  /\ StringByte(s) \in Local /\ OpenInLine(StringByte(s))
           /\ StringByte(s).top = s.top
           /\ StringByte(s).k <= Len(job.delimiter)
           /\ StringByte(s).pending \in {s.pending, None}
  <1> DEFINE m == Matched(s)
             newline == Len(job.delimiter) > 0 /\ m = Len(job.delimiter)
             full == s.j + 1 = job.perLine \/ newline
             k == IF newline THEN 0 ELSE m
             c == StringChar(s)
             shown == [c EXCEPT !.j = @ + 1, !.k = k]
             line == IF full THEN Close(shown) ELSE shown
  <1>1. k \in Nat /\ k <= Len(job.delimiter)
    <2>1. Len(job.delimiter) \in Nat
      BY JobsAssumption DEF Given
    <2> QED BY <2>1, MatchedType
  <1>2. full \in BOOLEAN
    OBVIOUS
  <1>3. /\ c \in Local /\ c.j = s.j /\ c.top = s.top /\ c.pending = s.pending
    BY StringCharType
  <1>4. StringByte(s) = EndLine(line, full)
    BY DEF StringByte, line, shown, c, k, full, newline, m
  <1> HIDE DEF k, full, c
  <1>5. /\ shown \in Local /\ shown.j > 0 /\ shown.top = s.top /\ shown.k = k
        /\ shown.pending = s.pending
    <2> DEFINE j == c.j + 1
    <2>1. j \in Nat /\ j > 0
      BY <1>3 DEF Local
    <2>2. shown = [c EXCEPT !.j = j, !.k = k]
      BY <1>3 DEF Local
    <2> HIDE DEF j, shown
    <2> QED BY <1>1, <1>3, <2>1, <2>2 DEF Local
  <1> HIDE DEF shown
  <1>6. /\ line \in Local /\ line.j > 0 /\ line.top = s.top /\ line.k = k
        /\ line.pending = s.pending /\ (full => line.open = FALSE)
    BY <1>5, CloseType
  <1> HIDE DEF line
  <1>7. /\ EndLine(line, full) \in Local
        /\ EndLine(line, full).top = line.top /\ EndLine(line, full).open = line.open
        /\ EndLine(line, full).k = line.k
        /\ EndLine(line, full).pending \in {line.pending, None}
        /\ EndLine(line, full).j = IF full THEN 0 ELSE line.j
    BY <1>2, <1>6, EndLineType
  <1> QED BY <1>1, <1>4, <1>6, <1>7 DEF OpenInLine

\* What an iteration of data_extract_string does.
LEMMA StringStepType ==
    ASSUME NEW s \in Local, Given, OpenInLine(s)
    PROVE  LET t == StringByte(StringComment(StringLabel(s))) IN
           /\ t \in Local /\ OpenInLine(t)
           /\ t.top = s.top /\ t.k <= Len(job.delimiter)
           /\ t.pending \in {s.pending, None, i}
  <1> DEFINE a == StringLabel(s)
             b == StringComment(a)
  <1>1. /\ a \in Local /\ OpenInLine(a) /\ a.top = s.top /\ a.pending = s.pending
    BY StringLabelType
  <1> HIDE DEF a
  <1>2. /\ b \in Local /\ b.top = a.top /\ b.pending \in {a.pending, i}
    BY <1>1, StringCommentType
  <1> HIDE DEF b
  <1>3. /\ StringByte(b) \in Local /\ OpenInLine(StringByte(b))
        /\ StringByte(b).top = b.top /\ StringByte(b).k <= Len(job.delimiter)
        /\ StringByte(b).pending \in {b.pending, None}
    BY <1>2, StringByteType
  <1> QED BY <1>1, <1>2, <1>3 DEF a, b

LEMMA StringEndType ==
    ASSUME NEW s \in Local, Given, OpenInLine(s)
    PROVE  /\ StringEnd(s) \in Local /\ OpenInLine(StringEnd(s))
           /\ StringEnd(s).top = s.top /\ StringEnd(s).k = s.k
           /\ StringEnd(s).pending = s.pending
  <1> DEFINE c == Close(s)
             toks == Waiting(s) \o Tok("newline")
  <1>1. Tok("newline") \in Tokens
    BY TokType DEF Kinds
  <1>2. toks \in Tokens
    BY <1>1, WaitingType, Joined
  <1>3. /\ c \in Local /\ c.open = FALSE /\ c.top = s.top /\ c.k = s.k
        /\ c.pending = s.pending
    BY CloseType
  <1>4. StringEnd(s) = IF s.j > 0 THEN Put(c, toks) ELSE Put(s, Tok("newline"))
    BY DEF StringEnd, c, toks
  <1> HIDE DEF c, toks
  <1>5. /\ Put(c, toks) \in Local /\ Put(c, toks).open = FALSE
        /\ Put(c, toks).top = s.top /\ Put(c, toks).k = s.k
        /\ Put(c, toks).pending = s.pending
    BY <1>2, <1>3, PutType
  <1>6. /\ Put(s, Tok("newline")) \in Local
        /\ Put(s, Tok("newline")).open = s.open /\ Put(s, Tok("newline")).j = s.j
        /\ Put(s, Tok("newline")).top = s.top /\ Put(s, Tok("newline")).k = s.k
        /\ Put(s, Tok("newline")).pending = s.pending
    BY <1>1, PutType
  <1> QED BY <1>4, <1>5, <1>6 DEF OpenInLine

-----------------------------------------------------------------------------
(* Jump tables.                                                            *)

LEMMA JumpStepType ==
    ASSUME NEW s \in Local, Given
    PROVE  LET t == JumpWord(JumpComment(JumpLabel(s))) IN
           /\ t \in Local /\ t.top = s.top /\ t.k = s.k /\ t.open = s.open
           /\ t.pending \in {s.pending, i}
  <1> DEFINE a == JumpLabel(s)
             b == JumpComment(a)
             full == b.j + 1 = job.perLine
             entry == Tok(IF b.j = 0 THEN "directive" ELSE "sep") \o Bytes(i, 2)
             toks == entry \o If(full, Waiting(b))
             c == Put(b, toks)
             j == IF full THEN 0 ELSE b.j + 1
  <1>1. /\ a \in Local /\ a.top = s.top /\ a.k = s.k /\ a.open = s.open
        /\ a.pending = s.pending
    <2> DEFINE p == Put(s, NewLine \o Mark("label", i))
    <2>1. /\ p \in Local /\ p.top = s.top /\ p.k = s.k /\ p.open = s.open
          /\ p.pending = s.pending
      BY LabelType, PutType
    <2>2. a = IF HasLabel THEN [p EXCEPT !.j = 0] ELSE s
      BY DEF JumpLabel
    <2> HIDE DEF p, a
    <2> QED BY <2>1, <2>2 DEF Local
  <1>2. i \in Int
    BY DEF Given
  <1> HIDE DEF a
  <1>3. /\ b \in Local /\ b.top = s.top /\ b.k = s.k /\ b.open = s.open
        /\ b.pending \in {s.pending, i}
    <2> DEFINE p == Put(a, Waiting(a))
               u == [p EXCEPT !.pending = i, !.j = 0]
    <2>1. /\ p \in Local /\ p.top = s.top /\ p.k = s.k /\ p.open = s.open
      BY <1>1, WaitingType, PutType
    <2>2. b = IF HasComment THEN u ELSE a
      BY DEF JumpComment
    <2> HIDE DEF p, b
    <2>3. /\ u \in Local /\ u.top = s.top /\ u.k = s.k /\ u.open = s.open
          /\ u.pending = i
      BY <1>2, <2>1 DEF Local
    <2> HIDE DEF u
    <2> QED BY <1>1, <2>2, <2>3
  <1>4. JumpWord(b) = [c EXCEPT !.j = j]
    <2>1. c.j = b.j
      BY DEF Put
    <2> QED BY DEF JumpWord, c, toks, entry, full, j, Put
  <1> HIDE DEF b
  <1>5. toks \in Tokens
    <2>1. (IF b.j = 0 THEN "directive" ELSE "sep") \in Kinds
      BY DEF Kinds
    <2>2. entry \in Tokens
      BY <1>2, <2>1, TokType, BytesType, Joined
    <2> HIDE DEF entry
    <2>3. If(full, Waiting(b)) \in Tokens
      <3>1. Waiting(b) \in Tokens /\ <<>> \in Tokens
        BY <1>3, WaitingType DEF Tokens
      <3> QED BY <3>1 DEF If
    <2> QED BY <2>2, <2>3, Joined
  <1> HIDE DEF toks
  <1>6. /\ c \in Local /\ c.top = s.top /\ c.k = s.k /\ c.open = s.open
        /\ c.pending = b.pending
    BY <1>3, <1>5, PutType
  <1>7. j \in Nat
    BY <1>3 DEF Local
  <1> HIDE DEF c, j
  <1>8. /\ JumpWord(b) \in Local /\ JumpWord(b).top = s.top /\ JumpWord(b).k = s.k
        /\ JumpWord(b).open = s.open /\ JumpWord(b).pending \in {s.pending, i}
    BY <1>3, <1>4, <1>6, <1>7 DEF Local
  <1> QED BY <1>8 DEF b, a

LEMMA JumpEndType ==
    ASSUME NEW s \in Local, Given
    PROVE  /\ JumpEnd(s) \in Local /\ JumpEnd(s).j = s.j /\ JumpEnd(s).top = s.top
           /\ JumpEnd(s).open = s.open /\ JumpEnd(s).k = s.k
           /\ JumpEnd(s).pending = s.pending
  <1>1. If(s.j > 0, Waiting(s)) \in Tokens
    <2>1. Waiting(s) \in Tokens /\ <<>> \in Tokens
      BY WaitingType DEF Tokens
    <2> QED BY <2>1 DEF If
  <1> QED BY <1>1, PutType DEF JumpEnd

-----------------------------------------------------------------------------
(* Type correctness.                                                       *)

\* While the loop runs the buffer has not been overrun, and only strings are
\* opened.
LocalInv ==
    /\ job \in Jobs /\ i \in Nat /\ st \in Local
    /\ pc \in {"run", "done", "refused", "dead"}
    /\ st.top \in 0..(BufferSize + 1) /\ st.top <= i
    /\ pc = "run" => st.top <= BufferSize
    /\ OpenInLine(st) /\ (job.type # "string" => st.open = FALSE)
    /\ st.k <= Len(job.delimiter)
    /\ st.pending \in -1..(i - 1)

\* An iteration that keeps the buffer, or empties it, or adds to it.
LEMMA StepKeeps ==
    ASSUME LocalInv, job' = job, i' \in Nat, i' > i, pc = "run",
           st' \in Local, pc' \in {"run", "dead"},
           st'.top \in {0, st.top} \/ st'.top = st.top + 1 \/ st'.top = 1,
           pc' = "run" => st'.top <= BufferSize,
           OpenInLine(st)', job.type # "string" => st'.open = FALSE,
           st'.k <= Len(job.delimiter),
           st'.pending \in {st.pending, None, i}
    PROVE  LocalInv'
  <1>1. st.top \in Nat /\ st.top <= BufferSize /\ st.top <= i /\ i \in Nat
    BY DEF LocalInv
  <1>2. st'.top \in 0..(BufferSize + 1) /\ st'.top <= i'
    BY <1>1 DEF BufferSize
  <1>3. st'.pending \in -1..(i' - 1)
    BY <1>1 DEF LocalInv, None
  <1> QED BY <1>2, <1>3 DEF LocalInv

\* The end of an extraction.
LEMMA EndKeeps ==
    ASSUME LocalInv, job' = job, i' = i, pc' \in {"done", "refused"},
           st' \in Local, st'.top = st.top, OpenInLine(st)',
           job.type # "string" => st'.open = FALSE,
           st'.k = st.k, st'.pending = st.pending
    PROVE  LocalInv'
  BY DEF LocalInv

LEMMA HexStepKeeps ==
    ASSUME LocalInv, HexStep
    PROVE  LocalInv'
  <1> DEFINE t == HexComment(HexLabel(st))
  <1>1. Given /\ st \in Local
    BY DEF LocalInv, Given
  <1>2. /\ job' = job /\ i' = i + 1 /\ pc = "run" /\ st' = HexByte(t)
        /\ pc' = IF t.top < BufferSize THEN "run" ELSE "dead"
        /\ job.type = "hex"
    BY DEF HexStep, Loop
  <1>3. /\ st' \in Local /\ t.top \in {st.top, 0}
        /\ \/ st'.top = 0
           \/ st'.top = t.top + 1 /\ t.top + 1 < job.element
        /\ st'.open = st.open /\ st'.k = st.k
        /\ st'.pending \in {st.pending, None, i}
    BY <1>1, <1>2, HexStepType
  <1> HIDE DEF t
  <1>4. st.open = FALSE /\ st.k <= Len(job.delimiter) /\ i \in Nat /\ st.top \in Nat
    BY <1>2 DEF LocalInv
  <1>5. pc' = "run" => st'.top <= BufferSize
    BY <1>2, <1>3, <1>4 DEF BufferSize
  <1>6. i' \in Nat /\ i' > i /\ OpenInLine(st)'
    BY <1>2, <1>3, <1>4 DEF OpenInLine
  <1>7. st'.top \in {0, st.top} \/ st'.top = st.top + 1 \/ st'.top = 1
    BY <1>3, <1>4
  <1>8. job' = job /\ pc = "run" /\ pc' \in {"run", "dead"}
    BY <1>2
  <1>9. /\ st' \in Local /\ st'.open = FALSE /\ st'.k <= Len(job.delimiter)
        /\ st'.pending \in {st.pending, None, i}
    BY <1>3, <1>4
  <1> HIDE DEF LocalInv
  <1> QED BY <1>5, <1>6, <1>7, <1>8, <1>9, StepKeeps

LEMMA LocalInvariant == Spec => []LocalInv
  <1>1. Init => LocalInv
    <2> SUFFICES ASSUME Init PROVE LocalInv
      OBVIOUS
    <2>1. Start \in Local
      BY DEF Start, Local, Tokens, None
    <2>2. Len(job.delimiter) \in Nat
      BY JobsAssumption DEF Init
    <2> QED BY <2>1, <2>2 DEF Init, LocalInv, Start, OpenInLine, None, BufferSize
  <1>2. LocalInv /\ [Next]_vars => LocalInv'
    <2> SUFFICES ASSUME LocalInv, [Next]_vars PROVE LocalInv'
      OBVIOUS
    <2>1. Given /\ st \in Local /\ i \in Nat /\ OpenInLine(st)
      BY DEF LocalInv, Given
    <2>2. CASE Refuse
      BY <2>1, <2>2, EndKeeps DEF Refuse, LocalInv, OpenInLine
    <2>3. CASE BinaryStep
      <3>1. /\ job' = job /\ i' = i + 1 /\ pc = "run" /\ pc' = "run"
            /\ st' = Put(st, Bytes(i, 1))
        BY <2>3 DEF BinaryStep, Loop
      <3>2. Bytes(i, 1) \in Tokens
        BY <2>1, BytesType
      <3>3. /\ st' \in Local /\ st'.j = st.j /\ st'.top = st.top
            /\ st'.open = st.open /\ st'.k = st.k /\ st'.pending = st.pending
        BY <2>1, <3>1, <3>2, PutType
      <3>4. i' \in Nat /\ i' > i /\ OpenInLine(st)'
        BY <2>1, <3>1, <3>3 DEF OpenInLine
      <3> QED BY <3>1, <3>3, <3>4, StepKeeps DEF LocalInv
    <2>4. CASE BinaryEnd
      BY <2>1, <2>4, EndKeeps DEF BinaryEnd, Leave, LocalInv, OpenInLine
    <2>5. CASE HexStep
      BY <2>5, HexStepKeeps
    <2>6. CASE HexLeave
      <3>1. job' = job /\ i' = i /\ pc' = "done" /\ st' = HexEnd(st)
        BY <2>6 DEF HexLeave, Leave
      <3>2. /\ st' \in Local /\ st'.j = st.j /\ st'.top = st.top
            /\ st'.open = st.open /\ st'.k = st.k /\ st'.pending = st.pending
        BY <2>1, <3>1, HexEndType
      <3>3. OpenInLine(st)'
        BY <2>1, <3>2 DEF OpenInLine
      <3> QED BY <3>1, <3>2, <3>3, EndKeeps DEF LocalInv
    <2>7. CASE StringStep
      <3>1. /\ job' = job /\ i' = i + 1 /\ pc = "run" /\ pc' = "run"
            /\ job.type = "string"
            /\ st' = StringByte(StringComment(StringLabel(st)))
        BY <2>7 DEF StringStep, Loop
      <3>2. /\ st' \in Local /\ OpenInLine(st') /\ st'.top = st.top
            /\ st'.k <= Len(job.delimiter) /\ st'.pending \in {st.pending, None, i}
        BY <2>1, <3>1, StringStepType
      <3>3. i' \in Nat /\ i' > i /\ OpenInLine(st)'
        BY <2>1, <3>1, <3>2 DEF OpenInLine
      <3> QED BY <3>1, <3>2, <3>3, StepKeeps DEF LocalInv
    <2>8. CASE StringLeave
      <3>1. /\ job' = job /\ i' = i /\ pc' = "done" /\ st' = StringEnd(st)
            /\ job.type = "string"
        BY <2>8 DEF StringLeave, Leave
      <3>2. /\ st' \in Local /\ OpenInLine(st') /\ st'.top = st.top
            /\ st'.k = st.k /\ st'.pending = st.pending
        BY <2>1, <3>1, StringEndType
      <3>3. OpenInLine(st)'
        BY <3>2 DEF OpenInLine
      <3> QED BY <3>1, <3>2, <3>3, EndKeeps
    <2>9. CASE JumpStep
      <3>1. /\ job' = job /\ i' = i + 2 /\ pc = "run" /\ pc' = "run"
            /\ job.type = "jumptable"
            /\ st' = JumpWord(JumpComment(JumpLabel(st)))
        BY <2>9 DEF JumpStep, Loop
      <3>2. /\ st' \in Local /\ st'.top = st.top /\ st'.k = st.k
            /\ st'.open = st.open /\ st'.pending \in {st.pending, i}
        BY <2>1, <3>1, JumpStepType
      <3>3. i' \in Nat /\ i' > i /\ st'.open = FALSE /\ OpenInLine(st)'
        BY <2>1, <3>1, <3>2 DEF OpenInLine, LocalInv
      <3> QED BY <3>1, <3>2, <3>3, StepKeeps DEF LocalInv
    <2>10. CASE JumpLeave
      <3>1. job' = job /\ i' = i /\ pc' = "done" /\ st' = JumpEnd(st)
        BY <2>10 DEF JumpLeave, Leave
      <3>2. /\ st' \in Local /\ st'.j = st.j /\ st'.top = st.top
            /\ st'.open = st.open /\ st'.k = st.k /\ st'.pending = st.pending
        BY <2>1, <3>1, JumpEndType
      <3>3. OpenInLine(st)'
        BY <2>1, <3>2 DEF OpenInLine
      <3> QED BY <3>1, <3>2, <3>3, EndKeeps DEF LocalInv
    <2>11. CASE UNCHANGED vars
      BY <2>11 DEF vars, LocalInv, OpenInLine
    <2> QED BY <2>2, <2>3, <2>4, <2>5, <2>6, <2>7, <2>8, <2>9, <2>10, <2>11 DEF Next
  <1> QED BY <1>1, <1>2, PTL DEF Spec

\* The locals of every extraction keep their bounds: at most one byte is ever
\* written past the element buffer, a string is only open inside a line, the
\* match is never longer than the delimiter, and a comment that waits is of a
\* byte already read.
THEOREM TypeCorrect == Spec => []TypeOK
  <1>1. LocalInv => TypeOK
    BY JobsAssumption DEF LocalInv, TypeOK, Local, OpenInLine, Tokens
  <1> QED BY <1>1, LocalInvariant, PTL

-----------------------------------------------------------------------------
(* The element buffer.                                                     *)

ElementsFit == \A s \in Jobs : s.type = "hex" => s.element <= BufferSize

\* What waits in the buffer is less than an element.
BufferInv ==
    /\ pc # "dead"
    /\ st.top = 0 \/ st.top < job.element
    /\ job.type # "hex" => st.top = 0

LEMMA BufferInvariant ==
    ASSUME ElementsFit
    PROVE  Spec => []BufferInv
  <1>1. Init => BufferInv
    BY DEF Init, BufferInv, Start
  <1>2. LocalInv /\ BufferInv /\ [Next]_vars => BufferInv'
    <2> SUFFICES ASSUME LocalInv, BufferInv, [Next]_vars PROVE BufferInv'
      OBVIOUS
    <2>1. Given /\ st \in Local /\ OpenInLine(st) /\ job.element \in Int
      BY JobsAssumption DEF LocalInv, Given
    <2>2. CASE HexStep
      <3> DEFINE t == HexComment(HexLabel(st))
      <3>1. /\ job' = job /\ st' = HexByte(t) /\ job.type = "hex"
            /\ pc' = IF t.top < BufferSize THEN "run" ELSE "dead"
        BY <2>2 DEF HexStep, Loop
      <3>2. /\ t.top \in {st.top, 0}
            /\ \/ st'.top = 0
               \/ st'.top = t.top + 1 /\ t.top + 1 < job.element
        BY <2>1, <3>1, HexStepType
      <3> HIDE DEF t
      <3>3. job.element <= BufferSize
        BY <3>1 DEF ElementsFit, LocalInv
      <3>4. t.top < BufferSize
        <4>1. t.top = 0 \/ t.top < job.element
          BY <3>2 DEF BufferInv
        <4>2. t.top \in Nat
          BY <2>1, <3>2 DEF Local
        <4> QED BY <2>1, <3>3, <4>1, <4>2 DEF BufferSize
      <3> QED BY <3>1, <3>2, <3>4 DEF BufferInv
    <2>3. CASE HexLeave
      <3>1. job' = job /\ pc' = "done" /\ st' = HexEnd(st)
        BY <2>3 DEF HexLeave, Leave
      <3>2. st'.top = st.top
        BY <2>1, <3>1, HexEndType
      <3> QED BY <3>1, <3>2 DEF BufferInv
    <2>4. CASE StringStep
      <3>1. job' = job /\ pc' = pc /\ st' = StringByte(StringComment(StringLabel(st)))
        BY <2>4 DEF StringStep, Loop
      <3>2. st'.top = st.top
        BY <2>1, <3>1, StringStepType
      <3> QED BY <3>1, <3>2 DEF BufferInv
    <2>5. CASE StringLeave
      <3>1. job' = job /\ pc' = "done" /\ st' = StringEnd(st)
        BY <2>5 DEF StringLeave, Leave
      <3>2. st'.top = st.top
        BY <2>1, <3>1, StringEndType
      <3> QED BY <3>1, <3>2 DEF BufferInv
    <2>6. CASE JumpStep
      <3>1. job' = job /\ pc' = pc /\ st' = JumpWord(JumpComment(JumpLabel(st)))
        BY <2>6 DEF JumpStep, Loop
      <3>2. st'.top = st.top
        BY <2>1, <3>1, JumpStepType
      <3> QED BY <3>1, <3>2 DEF BufferInv
    <2>7. CASE JumpLeave
      <3>1. job' = job /\ pc' = "done" /\ st' = JumpEnd(st)
        BY <2>7 DEF JumpLeave, Leave
      <3>2. st'.top = st.top
        BY <2>1, <3>1, JumpEndType
      <3> QED BY <3>1, <3>2 DEF BufferInv
    <2>8. CASE BinaryStep
      <3>1. job' = job /\ pc' = pc /\ st' = Put(st, Bytes(i, 1))
        BY <2>8 DEF BinaryStep, Loop
      <3>2. i \in Int
        BY <2>1 DEF Given
      <3>3. st'.top = st.top
        <4>1. Bytes(i, 1) \in Tokens
          BY <3>2, BytesType
        <4> QED BY <2>1, <3>1, <4>1, PutType
      <3> QED BY <3>1, <3>3 DEF BufferInv
    <2>9. CASE Refuse \/ BinaryEnd
      BY <2>9 DEF Refuse, BinaryEnd, Leave, BufferInv
    <2>10. CASE UNCHANGED vars
      BY <2>10 DEF vars, BufferInv
    <2> QED BY <2>2, <2>3, <2>4, <2>5, <2>6, <2>7, <2>8, <2>9, <2>10 DEF Next
  <1> QED BY <1>1, <1>2, LocalInvariant, PTL DEF Spec

\* When no hexadecimal section has larger elements than the two bytes of the
\* buffer, as every section file that gives "element_size" sees to, nothing is
\* written past it, whatever labels and comments cut the elements short.
THEOREM ElementBufferSafe ==
    ASSUME ElementsFit
    PROVE  Spec => []DefaultElementFits
  <1>1. BufferInv => DefaultElementFits
    BY DEF BufferInv, DefaultElementFits
  <1> QED BY <1>1, BufferInvariant, PTL

-----------------------------------------------------------------------------
(* What an output says.                                                    *)

\* The addresses of the tokens of a kind.
Ats(out, kind) == {out[p].at : p \in Positions(out, kind)}

LastKind(out) == IF out = <<>> THEN "start" ELSE out[Len(out)].kind

LabelsAt(out) ==
    \A p \in Positions(out, "label") :
        /\ ShownBefore(out, p) = out[p].at
        /\ \A q \in Positions(out, "label") : out[q].at = out[p].at => q = p

CommentsAt(out, once, early) ==
    \A p \in Positions(out, "comment") :
        /\ ShownBefore(out, p) > out[p].at \/ out[p].at \in early
        /\ \A q \in Positions(out, "comment") :
               /\ p < q => out[p].at <= out[q].at
               /\ once /\ p # q => out[p].at # out[q].at

\* The data of an output, its labels and its comments are in their places, it
\* is well formed, and this is what it has shown, whether a string is open
\* in it, its last token, its labels and its comments; the comments of the
\* bytes "early" may come too early.
Says(type, out, early, shown, open, last, labels, comments) ==
    /\ Contiguous(out)
    /\ LabelsAt(out)
    /\ CommentsAt(out, type # "jumptable", early)
    /\ type # "binary" => Chained(out)
    /\ Shown(out) = shown
    /\ OpenAfter(out, Len(out)) = open
    /\ LastKind(out) = last
    /\ Ats(out, "label") = labels
    /\ Ats(out, "comment") = comments

\* The labels and the comments looked up before byte n.
LabelsBefore(n) == {m \in job.labels \intersect LookedUp : m < n}
AskedBefore(n) == {m \in job.comments \intersect LookedUp : m < n}

\* The comment that waits, which is not before one that has come out.
Due(s) == IF s.pending = None THEN {} ELSE {s.pending}

Fresh(type, s, comments) ==
    \A c \in comments, d \in Due(s) : c <= d /\ (type # "jumptable" => c # d)

Lasts == {"start", "data", "quote", "comment", "label"}

\* What came last, for what may come next.
Shape(s, last) ==
    /\ last \in Lasts
    /\ s.j > 0 => last \in {"data", "quote"}
    /\ s.open => last = "data"

\* n bytes have been read, and those of them that do not wait in the buffer
\* have come out with these labels; of the comments asked for, all but the
\* one that waits.
Proper(s, n, labels, asked) ==
    LET last == LastKind(s.out)
        printed == Ats(s.out, "comment")
    IN  /\ Says(job.type, s.out, {}, n - s.top, s.open, last, labels, printed)
        /\ asked = printed \union Due(s)
        /\ Fresh(job.type, s, printed)
        /\ Shape(s, last)
        /\ s.top # 0 => job.type = "hex" /\ s.top < job.element

\* Between two iterations a line is not left open after a label, and a
\* comment that waits has a line to come out with.
Between(s, n) ==
    LET last == LastKind(s.out)
    IN  /\ n = 0 => last = "start"
        /\ n > 0 /\ s.top = 0 => last \notin {"start", "label"}
        /\ s.pending # None /\ s.top = 0 /\ s.j = 0 =>
               job.type = "jumptable" /\ s.pending \in Ats(s.out, "comment")

Going ==
    /\ Proper(st, i, LabelsBefore(i), AskedBefore(i))
    /\ Between(st, i)
    /\ i <= Total
    /\ job.type = "jumptable" => i % 2 = 0

Ended ==
    LET printed == Ats(st.out, "comment")
    IN  /\ Says(job.type, st.out, IF st.top > 0 THEN Due(st) ELSE {}, Total,
                FALSE, LastKind(st.out), job.labels \intersect LookedUp, printed)
        /\ Fresh(job.type, st, printed \ Due(st))
        /\ job.comments \intersect LookedUp =
               printed \union IF job.type = "hex" /\ st.top = 0 /\ st.j > 0
                              THEN Due(st) ELSE {}
        /\ st.top # 0 => job.type = "hex"

ListInv == IF pc = "done" THEN Ended ELSE Going

\* A set of positions that is not empty has a last one.
LEMMA MaxExists ==
    ASSUME NEW n \in Nat, NEW S \in SUBSET (1..n), S # {}
    PROVE  Max(S) \in S /\ \A x \in S : x <= Max(S)
  <1> DEFINE T == {n - x : x \in S}
             R == OpToRel(<, Nat)
  <1>1. /\ T \subseteq Nat
        /\ T # {}
    <2>1. \A x \in S : n - x \in Nat
      OBVIOUS
    <2>2. PICK x \in S : TRUE
      OBVIOUS
    <2>3. n - x \in T
      OBVIOUS
    <2> QED BY <2>1, <2>3
  <1>2. IsWellFoundedOn(R, Nat)
    BY NatLessThanWellFounded
  <1>3. PICK m \in T : \A y \in T : <<y, m>> \notin R
    <2> HIDE DEF R, T
    <2> QED BY <1>1, <1>2, WFMin
  <1>4. \A y \in Nat : y < m => <<y, m>> \in R
    BY <1>1 DEF OpToRel
  <1>5. PICK x \in S : m = n - x
    OBVIOUS
  <1>6. \A y \in S : y <= x
    <2> SUFFICES ASSUME NEW y \in S, y > x PROVE FALSE
      OBVIOUS
    <2>1. n - y \in T /\ n - y \in Nat /\ n - y < m
      BY <1>5
    <2> QED BY <1>3, <1>4, <2>1
  <1>7. x >= x /\ \A y \in S : x >= y
    BY <1>6
  <1> QED BY <1>7 DEF Max

\* An output with one more token.
LEMMA Plus ==
    ASSUME NEW out \in Tokens, NEW t \in Token
    PROVE  LET new == out \o <<t>> IN
           /\ new \in Tokens /\ new # <<>>
           /\ Len(new) = Len(out) + 1 /\ Len(out) \in Nat
           /\ \A p \in 1..Len(out) : new[p] = out[p]
           /\ new[Len(out) + 1] = t
  BY DEF Tokens

\* The positions of a kind, with one more token.
LEMMA PositionsPlus ==
    ASSUME NEW out \in Tokens, NEW t \in Token, NEW kind
    PROVE  Positions(out \o <<t>>, kind) =
               Positions(out, kind) \union IF t.kind = kind THEN {Len(out) + 1} ELSE {}
  <1> DEFINE new == out \o <<t>>
  <1>1. /\ Len(new) = Len(out) + 1 /\ Len(out) \in Nat
        /\ \A p \in 1..Len(out) : new[p] = out[p]
        /\ new[Len(out) + 1] = t
    BY Plus
  <1> HIDE DEF new
  <1>2. Positions(new, kind) =
            Positions(out, kind) \union IF t.kind = kind THEN {Len(out) + 1} ELSE {}
    BY <1>1 DEF Positions
  <1> QED BY <1>2 DEF new

\* Positions are positions.
LEMMA InOutput ==
    ASSUME NEW out \in Tokens, NEW kind
    PROVE  /\ Len(out) \in Nat
           /\ \A p \in Positions(out, kind) :
                 /\ p \in 1..Len(out) /\ p \in Nat /\ out[p].kind = kind
                 /\ out[p] \in Token /\ out[p].at \in Int /\ out[p].n \in Int
  <1>1. Len(out) \in Nat /\ \A p \in 1..Len(out) : out[p] \in Token
    BY DEF Tokens
  <1>2. \A t \in Token : t.at \in Int /\ t.n \in Int
    BY DEF Token
  <1> QED BY <1>1, <1>2 DEF Positions

\* What was shown before a position does not change.
LEMMA ShownEarlier ==
    ASSUME NEW out \in Tokens, NEW t \in Token, NEW p \in 1..(Len(out) + 1)
    PROVE  ShownBefore(out \o <<t>>, p) = ShownBefore(out, p)
  <1> DEFINE new == out \o <<t>>
             before == {q \in Positions(out, "data") : q < p}
  <1>1. before = {q \in Positions(new, "data") : q < p}
    BY PositionsPlus, InOutput
  <1>2. CASE before = {}
    BY <1>1, <1>2 DEF ShownBefore
  <1>3. CASE before # {}
    <2> DEFINE m == Max(before)
    <2>1. ShownBefore(out, p) = out[m].at + out[m].n
      BY <1>3 DEF ShownBefore
    <2>2. ShownBefore(new, p) = new[m].at + new[m].n
      BY <1>1, <1>3 DEF ShownBefore
    <2>3. before \in SUBSET (1..Len(out)) /\ Len(out) \in Nat
      BY InOutput
    <2>4. m \in before
      <3> HIDE DEF before
      <3> QED BY <1>3, <2>3, MaxExists
    <2>5. new[m] = out[m]
      BY <2>3, <2>4, Plus
    <2> HIDE DEF m
    <2> QED BY <2>1, <2>2, <2>5
  <1> QED BY <1>2, <1>3

\* Data says what has been shown, the other tokens change nothing.
LEMMA ShownPlus ==
    ASSUME NEW out \in Tokens, NEW t \in Token
    PROVE  Shown(out \o <<t>>) = IF t.kind = "data" THEN t.at + t.n ELSE Shown(out)
  <1> DEFINE new == out \o <<t>>
             n == Len(out) + 1
             all == {q \in Positions(new, "data") : q < n + 1}
  <1>1. Len(new) = n /\ n \in Nat /\ n \in 1..(Len(out) + 1) /\ new[n] = t
    BY Plus
  <1>2. CASE t.kind # "data"
    <2>1. {q \in Positions(new, "data") : q < n + 1} = {q \in Positions(new, "data") : q < n}
      BY <1>1, <1>2, PositionsPlus, InOutput
    <2>2. ShownBefore(new, n + 1) = ShownBefore(new, n)
      <3> HIDE DEF new, n
      <3> QED BY <2>1 DEF ShownBefore
    <2>3. ShownBefore(new, n) = ShownBefore(out, n)
      BY <1>1, ShownEarlier
    <2> HIDE DEF new
    <2> QED BY <1>1, <1>2, <2>2, <2>3 DEF Shown, new
  <1>3. CASE t.kind = "data"
    <2>1. all = Positions(out, "data") \union {n}
      BY <1>1, <1>3, PositionsPlus, InOutput
    <2>2. \A q \in Positions(out, "data") : q \in Nat /\ q <= n
      BY InOutput
    <2>3. Max(all) = n
      <3> HIDE DEF all, n
      <3> QED BY <1>1, <2>1, <2>2 DEF Max
    <2>4. all # {}
      BY <2>1
    <2>5. ShownBefore(new, n + 1) = new[Max(all)].at + new[Max(all)].n
      <3> HIDE DEF n, new
      <3> QED BY <2>4 DEF ShownBefore
    <2>6. Shown(new) = t.at + t.n
      <3> HIDE DEF new, n, all
      <3> QED BY <1>1, <2>3, <2>5 DEF Shown
    <2> QED BY <1>3, <2>6
  <1> QED BY <1>2, <1>3

\* A quote opens a string or closes it, the other tokens do neither.
LEMMA OpenEarlier ==
    ASSUME NEW out \in Tokens, NEW t \in Token, NEW p \in 0..Len(out)
    PROVE  OpenAfter(out \o <<t>>, p) = OpenAfter(out, p)
  <1>1. {q \in Positions(out \o <<t>>, "quote") : q <= p}
            = {q \in Positions(out, "quote") : q <= p}
    BY PositionsPlus, InOutput
  <1> QED BY <1>1 DEF OpenAfter

\* And the last token may be the one that does.
LEMMA OpenPlus ==
    ASSUME NEW out \in Tokens, NEW t \in Token
    PROVE  OpenAfter(out \o <<t>>, Len(out) + 1) =
               IF t.kind = "quote" THEN ~OpenAfter(out, Len(out))
               ELSE OpenAfter(out, Len(out))
  <1> DEFINE new == out \o <<t>>
             n == Len(out)
             Q == Positions(out, "quote")
  <1>1. n \in Nat /\ \A q \in Q : q \in 1..n
    BY InOutput
  <1>2. {q \in Q : q <= n} = Q
    BY <1>1
  <1>3. {q \in Positions(new, "quote") : q <= n + 1}
            = Q \union IF t.kind = "quote" THEN {n + 1} ELSE {}
    BY <1>1, PositionsPlus
  <1>4. IsFiniteSet(Q) /\ Cardinality(Q) \in Nat
    <2>1. IsFiniteSet(1..n)
      BY <1>1, FS_Interval
    <2>2. Q \in SUBSET (1..n)
      BY <1>1
    <2> HIDE DEF Q, n
    <2> QED BY <2>1, <2>2, FS_Subset, FS_CardinalityType
  <1>5. Cardinality(Q \union {n + 1}) = Cardinality(Q) + 1
    <2>1. n + 1 \notin Q
      BY <1>1
    <2> HIDE DEF Q, n
    <2> QED BY <1>4, <2>1, FS_AddElement
  <1>6. OpenAfter(out, n) = (Cardinality(Q) % 2 = 1)
    BY <1>2 DEF OpenAfter
  <1> HIDE DEF Q, n
  <1>7. CASE t.kind = "quote"
    <2>1. OpenAfter(new, n + 1) = ((Cardinality(Q) + 1) % 2 = 1)
      BY <1>3, <1>5, <1>7 DEF OpenAfter
    <2> DEFINE c == Cardinality(Q)
    <2>2. ((c + 1) % 2 = 1) <=> ~(c % 2 = 1)
      <3> HIDE DEF c
      <3> QED BY <1>4 DEF c
    <2> QED BY <1>6, <1>7, <2>1, <2>2 DEF n
  <1>8. CASE t.kind # "quote"
    <2>1. {q \in Positions(new, "quote") : q <= n + 1} = Q
      BY <1>3, <1>8
    <2>2. OpenAfter(new, n + 1) = (Cardinality(Q) % 2 = 1)
      BY <2>1 DEF OpenAfter
    <2> QED BY <1>6, <1>8, <2>2 DEF n
  <1> QED BY <1>7, <1>8

-----------------------------------------------------------------------------
(* One more token.                                                         *)

\* Whether a token of a kind may come next.
Follows(type, last, open, kind) ==
    type = "binary" \/ last = "start" \/ kind \in MayFollow(last, open)

\* The addresses of a kind, with one more token.
LEMMA AtsPlus ==
    ASSUME NEW out \in Tokens, NEW t \in Token, NEW kind
    PROVE  Ats(out \o <<t>>, kind) =
               Ats(out, kind) \union IF t.kind = kind THEN {t.at} ELSE {}
  <1> DEFINE new == out \o <<t>>
             n == Len(out) + 1
  <1>1. Positions(new, kind) =
            Positions(out, kind) \union IF t.kind = kind THEN {n} ELSE {}
    BY PositionsPlus
  <1>2. new[n] = t /\ \A p \in Positions(out, kind) : new[p] = out[p]
    BY Plus, InOutput
  <1> HIDE DEF new, n
  <1>3. Ats(new, kind) = Ats(out, kind) \union IF t.kind = kind THEN {t.at} ELSE {}
    BY <1>1, <1>2 DEF Ats
  <1> QED BY <1>3 DEF new

\* Data continues where the output has come to.
LEMMA ContiguousPlus ==
    ASSUME NEW out \in Tokens, NEW t \in Token, Contiguous(out),
           t.kind = "data" => t.at = Shown(out)
    PROVE  Contiguous(out \o <<t>>)
  <1> DEFINE new == out \o <<t>>
             n == Len(out) + 1
  <1> SUFFICES ASSUME NEW p \in Positions(new, "data")
               PROVE  new[p].at = ShownBefore(new, p)
    BY DEF Contiguous
  <1>1. n \in Nat /\ n \in 1..n /\ n = Len(out) + 1
    BY Plus
  <1>2. CASE p \in Positions(out, "data")
    <2>1. p \in 1..Len(out) /\ p \in 1..n /\ Len(out) \in Nat
      BY <1>2, InOutput
    <2>2. new[p] = out[p]
      BY <2>1, Plus
    <2>3. ShownBefore(new, p) = ShownBefore(out, p)
      BY <2>1, ShownEarlier
    <2> HIDE DEF new
    <2> QED BY <1>2, <2>2, <2>3 DEF Contiguous
  <1>3. CASE p = n /\ t.kind = "data"
    <2>1. ShownBefore(new, n) = Shown(out)
      BY <1>1, ShownEarlier DEF Shown
    <2>2. new[n] = t
      BY Plus
    <2> HIDE DEF new, n
    <2> QED BY <1>3, <2>1, <2>2
  <1>4. Positions(new, "data") =
            Positions(out, "data") \union IF t.kind = "data" THEN {n} ELSE {}
    BY PositionsPlus
  <1> HIDE DEF new, n
  <1> QED BY <1>2, <1>3, <1>4

\* A label is put where the output has come to, once.
LEMMA LabelsPlus ==
    ASSUME NEW out \in Tokens, NEW t \in Token, LabelsAt(out),
           t.kind = "label" => t.at = Shown(out) /\ t.at \notin Ats(out, "label")
    PROVE  LabelsAt(out \o <<t>>)
  <1> DEFINE new == out \o <<t>>
             n == Len(out) + 1
             P == Positions(out, "label")
  <1>1. n \in Nat /\ n \in 1..n /\ n = Len(out) + 1 /\ new[n] = t
    BY Plus
  <1>2. \A p \in P : new[p] = out[p] /\ p # n /\ p \in 1..n
    BY Plus, InOutput
  <1>3. \A p \in P : ShownBefore(new, p) = ShownBefore(out, p)
    BY <1>2, ShownEarlier
  <1>4. ShownBefore(new, n) = Shown(out)
    BY <1>1, ShownEarlier DEF Shown
  <1>5. Positions(new, "label") = P \union IF t.kind = "label" THEN {n} ELSE {}
    BY PositionsPlus
  <1>6. t.kind = "label" => \A p \in P : out[p].at # t.at
    BY DEF Ats
  <1> HIDE DEF new, n
  <1>7. LabelsAt(new)
    BY <1>1, <1>2, <1>3, <1>4, <1>5, <1>6 DEF LabelsAt
  <1> QED BY <1>7 DEF new

\* A comment comes after its byte, and not before an older one.
LEMMA CommentsPlus ==
    ASSUME NEW out \in Tokens, NEW t \in Token, NEW once \in BOOLEAN, NEW early,
           CommentsAt(out, once, early),
           t.kind = "comment" =>
               /\ Shown(out) > t.at \/ t.at \in early
               /\ \A c \in Ats(out, "comment") : c <= t.at /\ (once => c # t.at)
    PROVE  CommentsAt(out \o <<t>>, once, early)
  <1> DEFINE new == out \o <<t>>
             n == Len(out) + 1
             P == Positions(out, "comment")
  <1>1. n \in Nat /\ n \in 1..n /\ n = Len(out) + 1 /\ new[n] = t /\ t.at \in Int
    BY Plus DEF Token
  <1>2. \A p \in P : new[p] = out[p] /\ p < n /\ p \in 1..n /\ p \in Nat /\ out[p].at \in Int
    BY Plus, InOutput
  <1>3. \A p \in P : ShownBefore(new, p) = ShownBefore(out, p)
    BY <1>2, ShownEarlier
  <1>4. ShownBefore(new, n) = Shown(out)
    BY <1>1, ShownEarlier DEF Shown
  <1>5. Positions(new, "comment") = P \union IF t.kind = "comment" THEN {n} ELSE {}
    BY PositionsPlus
  <1>6. t.kind = "comment" => \A p \in P : out[p].at <= t.at /\ (once => out[p].at # t.at)
    BY DEF Ats
  <1> HIDE DEF new, n, P
  <1>7. ASSUME NEW p \in Positions(new, "comment")
        PROVE  ShownBefore(new, p) > new[p].at \/ new[p].at \in early
    <2>1. CASE p \in P
      BY <1>2, <1>3, <2>1 DEF CommentsAt, P
    <2>2. CASE p = n /\ t.kind = "comment"
      BY <1>1, <1>4, <2>2
    <2> QED BY <1>5, <2>1, <2>2
  <1>8. ASSUME NEW p \in Positions(new, "comment"), NEW q \in Positions(new, "comment")
        PROVE  /\ p < q => new[p].at <= new[q].at
               /\ once /\ p # q => new[p].at # new[q].at
    <2>1. CASE p \in P /\ q \in P
      BY <1>2, <2>1 DEF CommentsAt, P
    <2>2. CASE p \in P /\ q = n /\ t.kind = "comment"
      BY <1>1, <1>2, <1>6, <2>2
    <2>3. CASE p = n /\ q \in P /\ t.kind = "comment"
      BY <1>1, <1>2, <1>6, <2>3
    <2>4. CASE p = n /\ q = n
      BY <1>1, <2>4
    <2> QED BY <1>5, <2>1, <2>2, <2>3, <2>4
  <1>9. CommentsAt(new, once, early)
    BY <1>7, <1>8 DEF CommentsAt
  <1> QED BY <1>9 DEF new

\* A token comes where its kind may follow.
LEMMA ChainedPlus ==
    ASSUME NEW out \in Tokens, NEW t \in Token, Chained(out),
           out = <<>> \/ t.kind \in MayFollow(LastKind(out), OpenAfter(out, Len(out)))
    PROVE  Chained(out \o <<t>>)
  <1> DEFINE new == out \o <<t>>
             n == Len(out)
  <1>1. n \in Nat /\ Len(new) = n + 1 /\ new[n + 1] = t /\ \A p \in 1..n : new[p] = out[p]
    BY Plus
  <1>2. \A p \in 0..n : OpenAfter(new, p) = OpenAfter(out, p)
    BY OpenEarlier
  <1>3. out = <<>> <=> n = 0
    BY DEF Tokens
  <1> HIDE DEF new
  <1>4. ASSUME NEW p \in 1..(Len(new) - 1)
        PROVE  new[p + 1].kind \in MayFollow(new[p].kind, OpenAfter(new, p))
    <2>1. p \in 1..n /\ p \in 0..n
      BY <1>1
    <2>2. new[p] = out[p] /\ OpenAfter(new, p) = OpenAfter(out, p)
      BY <1>1, <1>2, <2>1
    <2>3. CASE p < n
      <3>1. p \in 1..(n - 1) /\ new[p + 1] = out[p + 1]
        BY <1>1, <2>1, <2>3
      <3> QED BY <2>2, <3>1 DEF Chained
    <2>4. CASE p = n
      <3>1. out # <<>> /\ LastKind(out) = out[n].kind
        BY <1>1, <1>3, <2>1, <2>4 DEF LastKind
      <3> QED BY <1>1, <2>2, <2>4, <3>1
    <2> QED BY <1>1, <2>1, <2>3, <2>4
  <1>5. Chained(new)
    BY <1>4 DEF Chained
  <1> QED BY <1>5 DEF new

\* One more token.
LEMMA SaysPlus ==
    ASSUME NEW type, NEW out \in Tokens, NEW early, NEW shown, NEW open,
           NEW last, NEW labels, NEW comments, NEW t \in Token,
           Says(type, out, early, shown, open, last, labels, comments),
           t.kind = "data" => t.at = shown,
           t.kind = "label" => t.at = shown /\ t.at \notin labels,
           t.kind = "comment" =>
               /\ shown > t.at \/ t.at \in early
               /\ \A c \in comments : c <= t.at /\ (type # "jumptable" => c # t.at),
           Follows(type, last, open, t.kind)
    PROVE  Says(type, out \o <<t>>, early,
                IF t.kind = "data" THEN t.at + t.n ELSE shown,
                IF t.kind = "quote" THEN ~open ELSE open, t.kind,
                labels \union IF t.kind = "label" THEN {t.at} ELSE {},
                comments \union IF t.kind = "comment" THEN {t.at} ELSE {})
  <1> DEFINE new == out \o <<t>>
             once == type # "jumptable"
  <1>1. /\ Contiguous(out) /\ LabelsAt(out) /\ CommentsAt(out, once, early)
        /\ type # "binary" => Chained(out)
        /\ Shown(out) = shown /\ OpenAfter(out, Len(out)) = open
        /\ LastKind(out) = last /\ Ats(out, "label") = labels
        /\ Ats(out, "comment") = comments
    BY DEF Says
  <1>2. Contiguous(new)
    BY <1>1, ContiguousPlus
  <1>3. LabelsAt(new)
    BY <1>1, LabelsPlus
  <1>4. CommentsAt(new, once, early)
    <2>1. once \in BOOLEAN
      OBVIOUS
    <2> HIDE DEF once, new
    <2>2. t.kind = "comment" =>
               /\ Shown(out) > t.at \/ t.at \in early
               /\ \A c \in Ats(out, "comment") : c <= t.at /\ (once => c # t.at)
      BY <1>1 DEF once
    <2> QED BY <1>1, <2>1, <2>2, CommentsPlus DEF new
  <1>5. type # "binary" => Chained(new)
    <2>1. last = "start" => out = <<>>
      <3>1. \A p \in 1..Len(out) : out[p].kind # "start"
        <4>1. \A p \in 1..Len(out) : out[p] \in Token
          BY DEF Tokens
        <4>2. \A u \in Token : u.kind \in Kinds
          BY DEF Token
        <4> QED BY <4>1, <4>2 DEF Kinds
      <3>2. out # <<>> => Len(out) \in 1..Len(out)
        BY DEF Tokens
      <3> QED BY <1>1, <3>1, <3>2 DEF LastKind
    <2> QED BY <1>1, <2>1, ChainedPlus DEF Follows
  <1>6. Shown(new) = IF t.kind = "data" THEN t.at + t.n ELSE shown
    BY <1>1, ShownPlus
  <1>7. OpenAfter(new, Len(new)) = IF t.kind = "quote" THEN ~open ELSE open
    <2>1. Len(new) = Len(out) + 1
      BY Plus
    <2> QED BY <1>1, <2>1, OpenPlus
  <1>8. LastKind(new) = t.kind
    <2>1. new # <<>> /\ Len(new) = Len(out) + 1 /\ new[Len(out) + 1] = t
      BY Plus
    <2> HIDE DEF new
    <2> QED BY <2>1 DEF LastKind
  <1>9. /\ Ats(new, "label") = labels \union IF t.kind = "label" THEN {t.at} ELSE {}
        /\ Ats(new, "comment") = comments \union IF t.kind = "comment" THEN {t.at} ELSE {}
    BY <1>1, AtsPlus
  <1> HIDE DEF new
  <1>10. Says(type, new, early,
                IF t.kind = "data" THEN t.at + t.n ELSE shown,
                IF t.kind = "quote" THEN ~open ELSE open, t.kind,
                labels \union IF t.kind = "label" THEN {t.at} ELSE {},
                comments \union IF t.kind = "comment" THEN {t.at} ELSE {})
    BY <1>2, <1>3, <1>4, <1>5, <1>6, <1>7, <1>8, <1>9 DEF Says, once
  <1> QED BY <1>10 DEF new

-----------------------------------------------------------------------------
(* What a token of each kind says.                                         *)

\* What may come next, outside a string and inside one.
LEMMA MayComeNext ==
    ASSUME NEW type, NEW last
    PROVE  /\ last \in Lasts =>
                  /\ Follows(type, last, FALSE, "directive")
                  /\ Follows(type, last, FALSE, "comment")
           /\ last \in Lasts \ {"label"} => Follows(type, last, FALSE, "newline")
           /\ last \in {"data", "quote"} => Follows(type, last, FALSE, "sep")
           /\ last \in {"data", "quote"} => Follows(type, last, TRUE, "data")
           /\ last = "data" => Follows(type, last, TRUE, "quote")
  <1> USE DEF Follows, MayFollow, Breaks, Lasts
  <1>1. last = "start" \/ last = "data" \/ last = "quote" \/ last = "comment"
        \/ last = "label" \/ last = "directive" \/ last = "sep" \/ last = "newline"
        \/ last \notin Lasts \union {"directive", "sep", "newline"}
    OBVIOUS
  <1>2. CASE last = "start"
    BY <1>2
  <1>3. CASE last = "data"
    BY <1>3
  <1>4. CASE last = "quote"
    BY <1>4
  <1>5. CASE last = "comment"
    BY <1>5
  <1>6. CASE last = "label"
    BY <1>6
  <1>7. CASE last = "directive"
    BY <1>7
  <1>8. CASE last = "sep"
    BY <1>8
  <1>9. CASE last = "newline"
    BY <1>9
  <1>10. CASE last \notin Lasts \union {"directive", "sep", "newline"}
    BY <1>10
  <1> QED BY <1>1, <1>2, <1>3, <1>4, <1>5, <1>6, <1>7, <1>8, <1>9, <1>10

\* What may come next whether a string is open or not.
LEMMA AlwaysNext ==
    ASSUME NEW type, NEW open
    PROVE  /\ Follows(type, "directive", open, "data")
           /\ Follows(type, "directive", open, "quote")
           /\ Follows(type, "sep", open, "data")
           /\ Follows(type, "sep", open, "quote")
           /\ Follows(type, "quote", TRUE, "data")
           /\ Follows(type, "newline", open, "label")
           /\ Follows(type, "start", open, "label")
  BY DEF Follows, MayFollow

\* Tokens are put one after the other.
LEMMA Assoc ==
    ASSUME NEW out \in Tokens, NEW a \in Tokens, NEW b \in Tokens
    PROVE  out \o (a \o b) = (out \o a) \o b
  BY DEF Tokens

\* No tokens change nothing.
LEMMA NoToken ==
    ASSUME NEW out \in Tokens
    PROVE  out \o <<>> = out
  BY DEF Tokens

\* What Put does to the output.
LEMMA PutOut ==
    ASSUME NEW s \in Local, NEW toks
    PROVE  Put(s, toks).out = s.out \o toks /\ s.out \in Tokens
  BY DEF Put, Local

\* A newline, a directive or a comma.
LEMMA SaysTok ==
    ASSUME NEW type, NEW out \in Tokens, NEW early, NEW shown, NEW open,
           NEW last, NEW labels, NEW comments,
           NEW kind \in {"newline", "directive", "sep"},
           Says(type, out, early, shown, open, last, labels, comments),
           Follows(type, last, open, kind)
    PROVE  /\ out \o Tok(kind) \in Tokens
           /\ Says(type, out \o Tok(kind), early, shown, open, kind, labels, comments)
  <1> DEFINE t == [kind |-> kind, at |-> 0, n |-> 0]
  <1>1. t \in Token /\ t.kind = kind
    BY DEF Token, Kinds
  <1>2. Tok(kind) = <<t>>
    BY DEF Tok
  <1>3. labels \union {} = labels /\ comments \union {} = comments
    OBVIOUS
  <1>4. /\ kind # "data" /\ kind # "quote" /\ kind # "label" /\ kind # "comment"
    OBVIOUS
  <1> HIDE DEF t
  <1>5. Says(type, out \o <<t>>, early,
                IF t.kind = "data" THEN t.at + t.n ELSE shown,
                IF t.kind = "quote" THEN ~open ELSE open, t.kind,
                labels \union IF t.kind = "label" THEN {t.at} ELSE {},
                comments \union IF t.kind = "comment" THEN {t.at} ELSE {})
    BY <1>1, <1>4, SaysPlus
  <1>6. Says(type, out \o <<t>>, early, shown, open, kind, labels, comments)
    BY <1>1, <1>3, <1>4, <1>5
  <1> QED BY <1>1, <1>2, <1>6, Plus

\* A quote.
LEMMA SaysQuote ==
    ASSUME NEW type, NEW out \in Tokens, NEW early, NEW shown, NEW open,
           NEW last, NEW labels, NEW comments,
           Says(type, out, early, shown, open, last, labels, comments),
           Follows(type, last, open, "quote")
    PROVE  /\ out \o Tok("quote") \in Tokens
           /\ Says(type, out \o Tok("quote"), early, shown, ~open, "quote", labels, comments)
  <1> DEFINE t == [kind |-> "quote", at |-> 0, n |-> 0]
  <1>1. t \in Token /\ t.kind = "quote"
    BY DEF Token, Kinds
  <1>2. Tok("quote") = <<t>>
    BY DEF Tok
  <1>3. labels \union {} = labels /\ comments \union {} = comments
    OBVIOUS
  <1> HIDE DEF t
  <1>5. Says(type, out \o <<t>>, early,
                IF t.kind = "data" THEN t.at + t.n ELSE shown,
                IF t.kind = "quote" THEN ~open ELSE open, t.kind,
                labels \union IF t.kind = "label" THEN {t.at} ELSE {},
                comments \union IF t.kind = "comment" THEN {t.at} ELSE {})
    BY <1>1, SaysPlus
  <1>6. Says(type, out \o <<t>>, early, shown, ~open, "quote", labels, comments)
    BY <1>1, <1>3, <1>5
  <1> QED BY <1>1, <1>2, <1>6, Plus

\* Bytes.
LEMMA SaysBytes ==
    ASSUME NEW type, NEW out \in Tokens, NEW early, NEW shown \in Int, NEW open,
           NEW last, NEW labels, NEW comments, NEW m \in Int,
           Says(type, out, early, shown, open, last, labels, comments),
           Follows(type, last, open, "data")
    PROVE  /\ out \o Bytes(shown, m) \in Tokens
           /\ Says(type, out \o Bytes(shown, m), early, shown + m, open, "data",
                   labels, comments)
  <1> DEFINE t == [kind |-> "data", at |-> shown, n |-> m]
  <1>1. t \in Token /\ t.kind = "data" /\ t.at = shown /\ t.n = m
    BY DEF Token, Kinds
  <1>2. Bytes(shown, m) = <<t>>
    BY DEF Bytes
  <1>3. labels \union {} = labels /\ comments \union {} = comments
    OBVIOUS
  <1> HIDE DEF t
  <1>5. Says(type, out \o <<t>>, early,
                IF t.kind = "data" THEN t.at + t.n ELSE shown,
                IF t.kind = "quote" THEN ~open ELSE open, t.kind,
                labels \union IF t.kind = "label" THEN {t.at} ELSE {},
                comments \union IF t.kind = "comment" THEN {t.at} ELSE {})
    BY <1>1, SaysPlus
  <1>6. Says(type, out \o <<t>>, early, shown + m, open, "data", labels, comments)
    BY <1>1, <1>3, <1>5
  <1> QED BY <1>1, <1>2, <1>6, Plus

\* A label.
LEMMA SaysLabel ==
    ASSUME NEW type, NEW out \in Tokens, NEW early, NEW shown \in Int, NEW open,
           NEW last, NEW labels, NEW comments,
           Says(type, out, early, shown, open, last, labels, comments),
           shown \notin labels, Follows(type, last, open, "label")
    PROVE  /\ out \o Mark("label", shown) \in Tokens
           /\ Says(type, out \o Mark("label", shown), early, shown, open, "label",
                   labels \union {shown}, comments)
  <1> DEFINE t == [kind |-> "label", at |-> shown, n |-> 0]
  <1>1. t \in Token /\ t.kind = "label" /\ t.at = shown
    BY DEF Token, Kinds
  <1>2. Mark("label", shown) = <<t>>
    BY DEF Mark
  <1>3. comments \union {} = comments
    OBVIOUS
  <1> HIDE DEF t
  <1>5. Says(type, out \o <<t>>, early,
                IF t.kind = "data" THEN t.at + t.n ELSE shown,
                IF t.kind = "quote" THEN ~open ELSE open, t.kind,
                labels \union IF t.kind = "label" THEN {t.at} ELSE {},
                comments \union IF t.kind = "comment" THEN {t.at} ELSE {})
    BY <1>1, SaysPlus
  <1>6. Says(type, out \o <<t>>, early, shown, open, "label",
             labels \union {shown}, comments)
    BY <1>1, <1>3, <1>5
  <1> QED BY <1>1, <1>2, <1>6, Plus

\* A comment.
LEMMA SaysComment ==
    ASSUME NEW type, NEW out \in Tokens, NEW early, NEW shown \in Int, NEW open,
           NEW last, NEW labels, NEW comments, NEW a \in Int,
           Says(type, out, early, shown, open, last, labels, comments),
           shown > a \/ a \in early,
           \A c \in comments : c <= a /\ (type # "jumptable" => c # a),
           Follows(type, last, open, "comment")
    PROVE  /\ out \o Mark("comment", a) \in Tokens
           /\ Says(type, out \o Mark("comment", a), early, shown, open, "comment",
                   labels, comments \union {a})
  <1> DEFINE t == [kind |-> "comment", at |-> a, n |-> 0]
  <1>1. t \in Token /\ t.kind = "comment" /\ t.at = a
    BY DEF Token, Kinds
  <1>2. Mark("comment", a) = <<t>>
    BY DEF Mark
  <1>3. labels \union {} = labels
    OBVIOUS
  <1> HIDE DEF t
  <1>5. Says(type, out \o <<t>>, early,
                IF t.kind = "data" THEN t.at + t.n ELSE shown,
                IF t.kind = "quote" THEN ~open ELSE open, t.kind,
                labels \union IF t.kind = "label" THEN {t.at} ELSE {},
                comments \union IF t.kind = "comment" THEN {t.at} ELSE {})
    BY <1>1, SaysPlus
  <1>6. Says(type, out \o <<t>>, early, shown, open, "comment",
             labels, comments \union {a})
    BY <1>1, <1>3, <1>5
  <1> QED BY <1>1, <1>2, <1>6, Plus

-----------------------------------------------------------------------------
(* What the helpers of the loops say.                                      *)

\* What an output says determines its last token and its comments.
LEMMA SaysWhat ==
    ASSUME NEW type, NEW out, NEW early, NEW shown, NEW open,
           NEW last, NEW labels, NEW comments,
           Says(type, out, early, shown, open, last, labels, comments)
    PROVE  LastKind(out) = last /\ Ats(out, "comment") = comments
  BY DEF Says

\* The comment that waits comes out.
LEMMA SaysWaiting ==
    ASSUME NEW type, NEW out \in Tokens, NEW early, NEW shown \in Int,
           NEW last \in Lasts, NEW labels, NEW comments, NEW s \in Local,
           Says(type, out, early, shown, FALSE, last, labels, comments),
           \A d \in Due(s) : d < shown \/ d \in early,
           Fresh(type, s, comments)
    PROVE  /\ out \o Waiting(s) \in Tokens
           /\ Says(type, out \o Waiting(s), early, shown, FALSE,
                   IF s.pending = None THEN last ELSE "comment",
                   labels, comments \union Due(s))
  <1>1. CASE s.pending = None
    <2>1. Waiting(s) = <<>> /\ comments \union Due(s) = comments
      BY <1>1 DEF Waiting, If, Due
    <2> QED BY <1>1, <2>1, NoToken
  <1>2. CASE s.pending # None
    <2>1. Waiting(s) = Mark("comment", s.pending) /\ Due(s) = {s.pending}
      BY <1>2 DEF Waiting, If, Due
    <2>2. s.pending \in Int
      BY DEF Local
    <2>3. s.pending < shown \/ s.pending \in early
      BY <2>1
    <2>4. \A c \in comments : c <= s.pending /\ (type # "jumptable" => c # s.pending)
      BY <2>1 DEF Fresh
    <2>5. Follows(type, last, FALSE, "comment")
      BY MayComeNext
    <2>6. shown > s.pending \/ s.pending \in early
      BY <2>2, <2>3
    <2>7. /\ out \o Mark("comment", s.pending) \in Tokens
          /\ Says(type, out \o Mark("comment", s.pending), early, shown, FALSE,
                  "comment", labels, comments \union {s.pending})
      BY <2>2, <2>4, <2>5, <2>6, SaysComment
    <2> QED BY <1>2, <2>1, <2>7
  <1> QED BY <1>1, <1>2

\* The bytes that wait in the buffer come out.
LEMMA SaysFlush ==
    ASSUME NEW type, NEW s \in Local, Given, NEW early, NEW last \in Lasts,
           NEW labels, NEW comments,
           Says(type, s.out, early, i - s.top, FALSE, last, labels, comments),
           s.top # 0 => s.top < job.element
    PROVE  /\ Flush(s).top = 0
           /\ Says(type, Flush(s).out, early, i, FALSE,
                   IF s.top > 0 THEN "data" ELSE last, labels, comments)
  <1>1. s.top \in Nat /\ i \in Nat /\ s.out \in Tokens
    BY DEF Local, Given
  <1>2. CASE s.top > 0
    <2> DEFINE a == s.out \o Tok("directive")
               b == a \o Bytes(i - s.top, s.top)
    <2>1. /\ a \in Tokens
          /\ Says(type, a, early, i - s.top, FALSE, "directive", labels, comments)
      BY <1>1, MayComeNext, SaysTok
    <2>2. Follows(type, "directive", FALSE, "data")
      BY AlwaysNext
    <2>10. i - s.top \in Int /\ s.top \in Int
      BY <1>1
    <2> HIDE DEF a
    <2>3. Says(type, b, early, (i - s.top) + s.top, FALSE, "data", labels, comments)
      BY <2>10, <2>1, <2>2, SaysBytes
    <2>4. (i - s.top) + s.top = i
      BY <1>1
    <2>5. /\ Tok("directive") \in Tokens /\ Bytes(i - s.top, s.top) \in Tokens
      BY <1>1, TokType, BytesType DEF Kinds
    <2>6. b = s.out \o (Tok("directive") \o Bytes(i - s.top, s.top))
      BY <1>1, <2>5, Assoc DEF a
    <2> HIDE DEF b
    <2>7. s.top < job.element
      BY <1>2
    <2>8. Flush(s) = [Put(s, Tok("directive") \o Bytes(i - s.top, s.top)) EXCEPT !.top = 0]
      BY <1>2, <2>7 DEF Flush
    <2>9. Flush(s).out = b /\ Flush(s).top = 0
      BY <2>6, <2>8 DEF Put, Local
    <2> QED BY <1>2, <2>3, <2>4, <2>9
  <1>3. CASE s.top = 0
    <2>1. Flush(s) = s /\ i - s.top = i
      BY <1>1, <1>3 DEF Flush
    <2>2. (IF s.top > 0 THEN "data" ELSE last) = last
      BY <1>3
    <2> QED BY <1>3, <2>1, <2>2
  <1>4. s.top > 0 \/ s.top = 0
    BY <1>1
  <1> QED BY <1>2, <1>3, <1>4

\* The label of byte i comes out, on a line of its own.
LEMMA SaysLabelLine ==
    ASSUME NEW type, Given, NEW out \in Tokens, NEW early, NEW last \in Lasts,
           NEW labels, NEW comments,
           Says(type, out, early, i, FALSE, last, labels, comments),
           i \notin labels,
           i = 0 => last = "start", last # "label"
    PROVE  /\ out \o (NewLine \o Mark("label", i)) \in Tokens
           /\ Says(type, out \o (NewLine \o Mark("label", i)), early, i, FALSE,
                   "label", labels \union {i}, comments)
  <1> DEFINE a == out \o NewLine
  <1>1. i \in Nat /\ i \in Int
    BY DEF Given
  <1>2. /\ Tok("newline") \in Tokens /\ Mark("label", i) \in Tokens /\ <<>> \in Tokens
    BY <1>1, TokType, MarkType DEF Kinds, Tokens
  <1>3. NewLine \in Tokens
    BY <1>2 DEF NewLine, If
  <1>4. \E l \in {"start", "newline"} :
           a \in Tokens /\ Says(type, a, early, i, FALSE, l, labels, comments)
    <2>1. CASE i > 0
      <3>1. NewLine = Tok("newline")
        BY <2>1 DEF NewLine, If
      <3>2. Follows(type, last, FALSE, "newline")
        BY MayComeNext
      <3>3. /\ out \o Tok("newline") \in Tokens
            /\ Says(type, out \o Tok("newline"), early, i, FALSE, "newline", labels, comments)
        BY <3>2, SaysTok
      <3> QED BY <3>1, <3>3
    <2>2. CASE i = 0
      <3>1. NewLine = <<>>
        BY <2>2 DEF NewLine, If
      <3>2. a = out /\ last = "start"
        BY <2>2, <3>1, NoToken
      <3> HIDE DEF a
      <3> QED BY <3>2
    <2>3. i > 0 \/ i = 0
      BY <1>1
    <2> QED BY <2>1, <2>2, <2>3
  <1>5. PICK l \in {"start", "newline"} :
           a \in Tokens /\ Says(type, a, early, i, FALSE, l, labels, comments)
    BY <1>4
  <1>6. Follows(type, l, FALSE, "label")
    BY AlwaysNext
  <1>7. out \o (NewLine \o Mark("label", i)) = a \o Mark("label", i)
    BY <1>2, <1>3, Assoc
  <1> HIDE DEF a
  <1> QED BY <1>1, <1>5, <1>6, <1>7, SaysLabel

\* An open string is closed.
LEMMA SaysClose ==
    ASSUME NEW type, NEW s \in Local, NEW early, NEW shown, NEW last,
           NEW labels, NEW comments,
           Says(type, s.out, early, shown, s.open, last, labels, comments),
           s.open => last = "data"
    PROVE  Says(type, Close(s).out, early, shown, FALSE,
                IF s.open THEN "quote" ELSE last, labels, comments)
  <1>1. Close(s).out = s.out \o If(s.open, Tok("quote")) /\ s.out \in Tokens
    BY DEF Close, Put, Local
  <1>2. CASE s.open
    <2>1. s.open = TRUE /\ If(s.open, Tok("quote")) = Tok("quote")
      BY <1>2 DEF If, Local
    <2>2. Follows(type, last, TRUE, "quote")
      BY <1>2, MayComeNext
    <2>3. Says(type, s.out \o Tok("quote"), early, shown, ~TRUE, "quote", labels, comments)
      BY <1>1, <2>1, <2>2, SaysQuote
    <2>4. (~TRUE) = FALSE
      OBVIOUS
    <2> QED BY <1>1, <1>2, <2>1, <2>3, <2>4
  <1>3. CASE ~s.open
    <2>1. s.open = FALSE /\ If(s.open, Tok("quote")) = <<>>
      BY <1>3 DEF If, Local
    <2> QED BY <1>1, <1>3, <2>1, NoToken
  <1> QED BY <1>2, <1>3

\* The end of a line.
LEMMA SaysEndLine ==
    ASSUME NEW type, NEW s \in Local, NEW full \in BOOLEAN, NEW early,
           NEW shown \in Int, NEW last \in Lasts, NEW labels, NEW comments,
           Says(type, s.out, early, shown, FALSE, last, labels, comments),
           \A d \in Due(s) : d < shown \/ d \in early,
           Fresh(type, s, comments), full
    PROVE  Says(type, EndLine(s, full).out, early, shown, FALSE,
                IF s.pending = None THEN last ELSE "comment",
                labels, comments \union Due(s))
  <1>1. EndLine(s, full).out = s.out \o Waiting(s) /\ s.out \in Tokens
    BY DEF EndLine, Put, Local
  <1>2. Says(type, s.out \o Waiting(s), early, shown, FALSE,
             IF s.pending = None THEN last ELSE "comment",
             labels, comments \union Due(s))
    BY <1>1, SaysWaiting
  <1> QED BY <1>1, <1>2

-----------------------------------------------------------------------------
(* Hexadecimal elements keep what the output says.                         *)

\* How a local state comes to be proper.
LEMMA IsProper ==
    ASSUME NEW s, NEW n, NEW labels, NEW asked, NEW last, NEW printed,
           Says(job.type, s.out, {}, n - s.top, s.open, last, labels, printed),
           asked = printed \union Due(s),
           Fresh(job.type, s, printed),
           Shape(s, last),
           s.top # 0 => job.type = "hex" /\ s.top < job.element
    PROVE  Proper(s, n, labels, asked)
  <1>1. LastKind(s.out) = last /\ Ats(s.out, "comment") = printed
    BY SaysWhat
  <1> QED BY <1>1 DEF Proper

\* The label of a byte; what waits in the buffer comes out before it.
LEMMA HexLabelSays ==
    ASSUME NEW s \in Local, Given, NEW labels, NEW asked,
           Proper(s, i, labels, asked), job.type = "hex", ~s.open,
           Between(s, i), s.top <= i, i \notin labels
    PROVE  Proper(HexLabel(s), i, IF HasLabel THEN labels \union {i} ELSE labels, asked)
  <1> DEFINE f == Flush(s)
             line == NewLine \o Mark("label", i)
             u == HexLabel(s)
             last == LastKind(s.out)
             printed == Ats(s.out, "comment")
  <1>1. s.open = FALSE /\ s.top \in Nat /\ i \in Nat
    BY DEF Local, Given
  <1>2. /\ Says("hex", s.out, {}, i - s.top, FALSE, last, labels, printed)
        /\ asked = printed \union Due(s) /\ Fresh("hex", s, printed)
        /\ last \in Lasts
        /\ s.top # 0 => s.top < job.element
    BY <1>1 DEF Proper, Shape
  <1>3. CASE HasLabel
    <2> DEFINE next == IF s.top > 0 THEN "data" ELSE last
    <2>1. f \in Local /\ f.pending = s.pending /\ f.open = FALSE /\ f.top = 0
      <3>1. f \in Local /\ f.pending = s.pending /\ f.open = s.open
        BY FlushType
      <3>2. f.top = 0
        BY <1>2, SaysFlush
      <3> QED BY <1>1, <3>1, <3>2
    <2>2. Says("hex", f.out, {}, i, FALSE, next, labels, printed)
      BY <1>2, SaysFlush
    <2>3. next \in Lasts /\ (i = 0 => next = "start") /\ next # "label"
      BY <1>1, <1>2 DEF Between, Lasts
    <2>4. f.out \in Tokens
      BY <2>1 DEF Local
    <2> HIDE DEF next, f
    <2>5. Says("hex", f.out \o line, {}, i, FALSE, "label", labels \union {i}, printed)
      BY <2>2, <2>3, <2>4, SaysLabelLine
    <2>6. u = [Put(f, line) EXCEPT !.j = 0]
      BY <1>3 DEF HexLabel, f
    <2> HIDE DEF line, u
    <2>7. /\ u.out = f.out \o line /\ u.top = 0 /\ u.open = FALSE /\ u.j = 0
          /\ u.pending = s.pending
      BY <2>1, <2>6 DEF Put, Local
    <2>8. Due(u) = Due(s) /\ Fresh("hex", u, printed)
      BY <1>2, <2>7 DEF Due, Fresh
    <2>9. Shape(u, "label")
      BY <2>7 DEF Shape, Lasts
    <2>10. i - u.top = i
      BY <1>1, <2>7
    <2>11. Proper(u, i, labels \union {i}, asked)
      BY <1>2, <2>5, <2>7, <2>8, <2>9, <2>10, IsProper
    <2> QED BY <1>3, <2>11 DEF u
  <1>4. CASE ~HasLabel
    <2>1. HexLabel(s) = s
      BY <1>4 DEF HexLabel
    <2> QED BY <1>4, <2>1
  <1> QED BY <1>3, <1>4

\* What waits is older than byte n, and so is what has come out.
LEMMA Older ==
    ASSUME NEW s, NEW n, NEW m, NEW labels, NEW asked,
           Proper(s, m, labels, asked), \A a \in asked : a < n
    PROVE  (\A d \in Due(s) : d < n) /\ \A c \in Ats(s.out, "comment") : c < n
  BY DEF Proper

\* The comment of a byte; it may push out the buffer and the last comment.
LEMMA HexCommentSays ==
    ASSUME NEW s \in Local, Given, NEW labels, NEW asked,
           Proper(s, i, labels, asked), job.type = "hex", ~s.open,
           \A a \in asked : a < i /\ a \in Int
    PROVE  Proper(HexComment(s), i, labels, IF HasComment THEN asked \union {i} ELSE asked)
  <1> DEFINE f == Flush(s)
             last == LastKind(s.out)
             printed == Ats(s.out, "comment")
             u == HexComment(s)
  <1>1. s.open = FALSE /\ s.top \in Nat /\ i \in Nat /\ s.pending \in Int
    BY DEF Local, Given
  <1>2. /\ Says("hex", s.out, {}, i - s.top, FALSE, last, labels, printed)
        /\ asked = printed \union Due(s) /\ Fresh("hex", s, printed)
        /\ Shape(s, last) /\ last \in Lasts
        /\ s.top # 0 => s.top < job.element
    BY <1>1 DEF Proper, Shape
  <1>3. \A d \in Due(s) : d < i
    BY Older
  <1>4. CASE HasComment /\ s.pending # None
    <2> DEFINE next == IF s.top > 0 THEN "data" ELSE last
               t == Put(f, Waiting(s))
    <2>1. f \in Local /\ f.open = FALSE /\ f.top = 0
      <3>1. f \in Local /\ f.open = s.open
        BY FlushType
      <3>2. f.top = 0
        BY <1>2, SaysFlush
      <3> QED BY <1>1, <3>1, <3>2
    <2>2. Says("hex", f.out, {}, i, FALSE, next, labels, printed)
      BY <1>2, SaysFlush
    <2>3. next \in Lasts /\ f.out \in Tokens /\ i \in Int
      BY <1>1, <1>2, <2>1 DEF Lasts, Local
    <2> HIDE DEF next, f
    <2>4. Says("hex", f.out \o Waiting(s), {}, i, FALSE, "comment", labels, asked)
      <3>1. Says("hex", f.out \o Waiting(s), {}, i, FALSE,
                 IF s.pending = None THEN next ELSE "comment", labels, printed \union Due(s))
        BY <1>2, <1>3, <2>2, <2>3, SaysWaiting
      <3> QED BY <1>2, <1>4, <3>1
    <2>5. u = [t EXCEPT !.pending = i, !.j = 0]
      BY <1>4 DEF HexComment, f
    <2>6. t.out = f.out \o Waiting(s) /\ t.top = 0 /\ t.open = FALSE
      BY <2>1 DEF Put, Local
    <2>7. u.out = f.out \o Waiting(s) /\ u.top = 0 /\ u.open = FALSE /\ u.j = 0 /\ u.pending = i
      <3>1. t \in [j : Nat, top : Nat, open : BOOLEAN, k : Nat, pending : Int, out : Tokens]
        BY <2>1, WaitingType, PutType DEF Local
      <3> HIDE DEF t, u
      <3> QED BY <2>5, <2>6, <3>1
    <2> HIDE DEF u
    <2>8. Due(u) = {i}
      BY <1>1, <2>7 DEF Due, None
    <2>9. Fresh("hex", u, asked)
      BY <1>1, <2>8 DEF Fresh
    <2>10. Shape(u, "comment") /\ i - u.top = i
      BY <1>1, <2>7 DEF Shape, Lasts
    <2>11. Proper(u, i, labels, asked \union {i})
      BY <2>4, <2>7, <2>8, <2>9, <2>10, IsProper
    <2> QED BY <1>4, <2>11 DEF u
  <1>5. CASE HasComment /\ s.pending = None
    <2>1. u = [s EXCEPT !.pending = i, !.j = 0]
      BY <1>5 DEF HexComment
    <2> HIDE DEF u
    <2>2. u.out = s.out /\ u.top = s.top /\ u.open = FALSE /\ u.j = 0 /\ u.pending = i
      BY <1>1, <2>1 DEF Local
    <2>3. Due(s) = {} /\ Due(u) = {i} /\ asked = printed
      BY <1>1, <1>2, <1>5, <2>2 DEF Due, None
    <2>4. Fresh("hex", u, printed)
      BY <1>1, <2>3 DEF Fresh
    <2>5. Shape(u, last)
      BY <1>2, <2>2 DEF Shape
    <2> HIDE DEF printed, last
    <2>6. Proper(u, i, labels, asked \union {i})
      BY <1>2, <2>2, <2>3, <2>4, <2>5, IsProper
    <2> QED BY <1>5, <2>6 DEF u
  <1>6. CASE ~HasComment
    <2>1. HexComment(s) = s
      BY <1>6 DEF HexComment
    <2> QED BY <1>6, <2>1
  <1> QED BY <1>4, <1>5, <1>6

\* A line that is not empty begins with a directive, its values are separated
\* by commas.
LEMMA SaysNext ==
    ASSUME NEW type, NEW s \in Local, NEW early, NEW shown \in Int, NEW m \in Int,
           NEW labels, NEW comments, NEW last \in Lasts,
           Says(type, s.out, early, shown, FALSE, last, labels, comments),
           s.j > 0 => last \in {"data", "quote"}
    PROVE  LET toks == Tok(IF s.j = 0 THEN "directive" ELSE "sep") \o Bytes(shown, m) IN
           /\ toks \in Tokens /\ s.out \o toks \in Tokens
           /\ Says(type, s.out \o toks, early, shown + m, FALSE, "data", labels, comments)
  <1> DEFINE kind == IF s.j = 0 THEN "directive" ELSE "sep"
             a == s.out \o Tok(kind)
  <1>1. s.j \in Nat
    BY DEF Local
  <1>10. s.out \in Tokens
    BY DEF Local
  <1>2. kind \in {"newline", "directive", "sep"} /\ kind \in Kinds
    BY DEF Kinds
  <1>3. a \in Tokens /\ Says(type, a, early, shown, FALSE, kind, labels, comments)
    <2>1. CASE s.j = 0
      <3>1. Follows(type, last, FALSE, "directive")
        BY MayComeNext
      <3>2. /\ s.out \o Tok("directive") \in Tokens
            /\ Says(type, s.out \o Tok("directive"), early, shown, FALSE, "directive",
                    labels, comments)
        BY <1>10, <3>1, SaysTok
      <3>3. kind = "directive"
        BY <2>1
      <3> HIDE DEF kind
      <3> QED BY <3>2, <3>3
    <2>2. CASE s.j > 0
      <3>1. last \in {"data", "quote"}
        BY <2>2
      <3>2. Follows(type, last, FALSE, "sep")
        BY <3>1, MayComeNext
      <3>3. /\ s.out \o Tok("sep") \in Tokens
            /\ Says(type, s.out \o Tok("sep"), early, shown, FALSE, "sep",
                    labels, comments)
        BY <1>10, <3>2, SaysTok
      <3>4. kind = "sep"
        BY <1>1, <2>2
      <3> HIDE DEF kind
      <3> QED BY <3>3, <3>4
    <2>3. s.j = 0 \/ s.j > 0
      BY <1>1
    <2> QED BY <2>1, <2>2, <2>3
  <1>4. Follows(type, kind, FALSE, "data")
    BY AlwaysNext
  <1>5. Tok(kind) \in Tokens /\ Bytes(shown, m) \in Tokens
    BY <1>2, TokType, BytesType
  <1> HIDE DEF kind
  <1>7. s.out \o (Tok(kind) \o Bytes(shown, m)) = a \o Bytes(shown, m)
    BY <1>5, <1>10, Assoc
  <1>8. Tok(kind) \o Bytes(shown, m) \in Tokens
    BY <1>5, Joined
  <1> HIDE DEF a
  <1>9. /\ a \o Bytes(shown, m) \in Tokens
        /\ Says(type, a \o Bytes(shown, m), early, shown + m, FALSE, "data", labels, comments)
    BY <1>3, <1>4, SaysBytes
  <1> QED BY <1>7, <1>8, <1>9 DEF kind

\* A byte that completes an element, or waits in the buffer.
LEMMA HexByteSays ==
    ASSUME NEW s \in Local, Given, NEW labels, NEW asked,
           Proper(s, i, labels, asked), job.type = "hex", ~s.open,
           \A a \in asked : a < i + 1
    PROVE  Proper(HexByte(s), i + 1, labels, asked) /\ Between(HexByte(s), i + 1)
  <1> DEFINE last == LastKind(s.out)
             printed == Ats(s.out, "comment")
             u == HexByte(s)
  <1>1. s.open = FALSE /\ s.top \in Nat /\ i \in Nat /\ s.pending \in Int /\ s.j \in Nat
    BY DEF Local, Given
  <1>2. /\ Says("hex", s.out, {}, i - s.top, FALSE, last, labels, printed)
        /\ asked = printed \union Due(s) /\ Fresh("hex", s, printed)
        /\ Shape(s, last) /\ last \in Lasts /\ (s.j > 0 => last \in {"data", "quote"})
    BY <1>1 DEF Proper, Shape
  <1>3. \A d \in Due(s) : d < i + 1
    BY Older
  <1>4. job.element \in Int
    BY JobsAssumption DEF Given
  <1>5. CASE s.top + 1 >= job.element
    <2> DEFINE toks == Tok(IF s.j = 0 THEN "directive" ELSE "sep")
                           \o Bytes(i - s.top, s.top + 1)
               p == Put(s, toks)
               j == s.j + 1
               t == [p EXCEPT !.top = 0, !.j = j]
               full == s.j + 1 = job.perLine
    <2>1. /\ toks \in Tokens
          /\ Says("hex", s.out \o toks, {}, i + 1, FALSE, "data", labels, printed)
      <3>1. i - s.top \in Int /\ s.top + 1 \in Int /\ (i - s.top) + (s.top + 1) = i + 1
        BY <1>1
      <3>2. /\ toks \in Tokens
            /\ Says("hex", s.out \o toks, {}, (i - s.top) + (s.top + 1), FALSE, "data",
                    labels, printed)
        BY <1>2, <3>1, SaysNext
      <3> QED BY <3>1, <3>2
    <2> HIDE DEF toks
    <2>2. p \in Local /\ p.out = s.out \o toks /\ p.open = FALSE /\ p.pending = s.pending
          /\ p.j = s.j
      <3>1. p \in Local /\ p.open = s.open /\ p.pending = s.pending /\ p.j = s.j
        BY <2>1, PutType
      <3> QED BY <1>1, <3>1 DEF Put
    <2>3. j \in Nat /\ j > 0
      BY <1>1
    <2>4. u = EndLine(t, full)
      <3>1. t = [p EXCEPT !.top = 0, !.j = @ + 1]
        <4> HIDE DEF p
        <4> QED BY <2>2 DEF Local
      <3> QED BY <1>5, <3>1 DEF HexByte, p, toks
    <2> HIDE DEF p, j
    <2>5. /\ t \in Local /\ t.out = s.out \o toks /\ t.open = FALSE
          /\ t.pending = s.pending /\ t.top = 0 /\ t.j = j
      BY <2>2, <2>3 DEF Local
    <2> HIDE DEF t
    <2>6. Says("hex", t.out, {}, i + 1, FALSE, "data", labels, printed)
      BY <2>1, <2>5
    <2>7. Due(t) = Due(s) /\ Fresh("hex", t, printed)
      BY <1>2, <2>5 DEF Due, Fresh
    <2>8. CASE full
      <3> DEFINE next == IF t.pending = None THEN "data" ELSE "comment"
      <3>1. Says("hex", u.out, {}, i + 1, FALSE, next, labels, asked)
        <4>1. i + 1 \in Int /\ "data" \in Lasts
          BY <1>1 DEF Lasts
        <4>2. full \in BOOLEAN
          OBVIOUS
        <4> HIDE DEF full
        <4>3. Says("hex", EndLine(t, full).out, {}, i + 1, FALSE, next, labels,
                   printed \union Due(t))
          BY <1>3, <2>5, <2>6, <2>7, <2>8, <4>1, <4>2, SaysEndLine
        <4> QED BY <1>2, <2>4, <2>7, <4>3
      <3>2. u.j = 0 /\ u.pending = None /\ u.top = 0 /\ u.open = FALSE
        <4>1. u = [Put(t, Waiting(t)) EXCEPT !.j = 0, !.pending = None]
          BY <2>4, <2>8 DEF EndLine
        <4>2. /\ Put(t, Waiting(t)) \in Local /\ Put(t, Waiting(t)).top = 0
              /\ Put(t, Waiting(t)).open = FALSE
          BY <2>5, WaitingType, PutType
        <4> DEFINE w == Put(t, Waiting(t))
        <4> HIDE DEF w, u
        <4> QED BY <4>1, <4>2 DEF Local, w
      <3> HIDE DEF u, full
      <3>3. Due(u) = {} /\ Fresh("hex", u, asked) /\ asked = asked \union {}
        BY <3>2 DEF Due, Fresh
      <3>4. next \in {"data", "comment"}
        OBVIOUS
      <3> HIDE DEF next
      <3>5. Shape(u, next) /\ (i + 1) - u.top = i + 1
        BY <1>1, <3>2, <3>4 DEF Shape, Lasts
      <3>6. Proper(u, i + 1, labels, asked)
        BY <3>1, <3>2, <3>3, <3>5, IsProper
      <3>7. LastKind(u.out) = next
        BY <3>1, SaysWhat
      <3>8. Between(u, i + 1)
        BY <1>1, <3>2, <3>4, <3>7 DEF Between
      <3> QED BY <3>6, <3>8 DEF u
    <2>9. CASE ~full
      <3>1. u = t
        BY <2>4, <2>9 DEF EndLine
      <3> HIDE DEF u, full
      <3>2. Shape(t, "data") /\ (i + 1) - t.top = i + 1
        BY <1>1, <2>5 DEF Shape, Lasts
      <3>3. Proper(t, i + 1, labels, asked)
        BY <1>2, <2>5, <2>6, <2>7, <3>2, IsProper
      <3>4. LastKind(t.out) = "data"
        BY <2>6, SaysWhat
      <3>5. Between(t, i + 1)
        BY <1>1, <2>3, <2>5, <3>4 DEF Between
      <3> QED BY <3>1, <3>3, <3>5 DEF u
    <2> QED BY <2>8, <2>9
  <1>6. CASE ~(s.top + 1 >= job.element)
    <2> DEFINE top == s.top + 1
    <2>1. top \in Nat /\ top # 0 /\ top < job.element /\ (i + 1) - top = i - s.top
      BY <1>1, <1>4, <1>6
    <2>2. u = [s EXCEPT !.top = top]
      BY <1>6 DEF HexByte
    <2> HIDE DEF u, top
    <2>3. /\ u.out = s.out /\ u.open = FALSE /\ u.pending = s.pending /\ u.top = top
          /\ u.j = s.j
      BY <1>1, <2>2 DEF Local
    <2>4. Due(u) = Due(s) /\ Fresh("hex", u, printed) /\ Shape(u, last)
      BY <1>1, <1>2, <2>3 DEF Due, Fresh, Shape
    <2>5. (i + 1) - u.top = i - s.top
      BY <2>1, <2>3
    <2>6. Says("hex", u.out, {}, (i + 1) - u.top, u.open, last, labels, printed)
      BY <1>2, <2>3, <2>5
    <2> HIDE DEF last, printed
    <2>7. Proper(u, i + 1, labels, asked)
      BY <1>2, <2>1, <2>3, <2>4, <2>6, IsProper
    <2>8. Between(u, i + 1)
      BY <1>1, <2>1, <2>3 DEF Between
    <2> QED BY <2>7, <2>8 DEF u
  <1> QED BY <1>5, <1>6

\* What a step has to establish.
LEMMA GoesOn ==
    ASSUME job' = job, Proper(st', i', LabelsBefore(i'), AskedBefore(i')),
           Between(st', i'), i' <= Total,
           job.type = "jumptable" => i' % 2 = 0
    PROVE  Going'
  <1>1. LookedUp' = LookedUp /\ Total' = Total
    BY DEF LookedUp, Total
  <1>2. LabelsBefore(i)' = LabelsBefore(i') /\ AskedBefore(i)' = AskedBefore(i')
    BY <1>1 DEF LabelsBefore, AskedBefore
  <1>3. Proper(st, i, LabelsBefore(i), AskedBefore(i))'
    <2> DEFINE l == LabelsBefore(i')
               a == AskedBefore(i')
    <2> HIDE DEF l, a
    <2>1. LabelsBefore(i)' = l /\ AskedBefore(i)' = a /\ Proper(st', i', l, a)
      BY <1>2 DEF l, a
    <2> QED BY <2>1 DEF Proper
  <1>4. Between(st, i)'
    BY DEF Between
  <1>5. (i <= Total)' /\ (job.type = "jumptable" => i % 2 = 0)'
    BY <1>1
  <1> QED BY <1>3, <1>4, <1>5 DEF Going

\* The labels and the comments looked up so far.
LEMMA Lookup ==
    ASSUME Given, i \in LookedUp
    PROVE  /\ LabelsBefore(i + 1) =
                  IF HasLabel THEN LabelsBefore(i) \union {i} ELSE LabelsBefore(i)
           /\ AskedBefore(i + 1) =
                  IF HasComment THEN AskedBefore(i) \union {i} ELSE AskedBefore(i)
           /\ i \notin LabelsBefore(i)
           /\ \A a \in AskedBefore(i) : a < i /\ a \in Int
           /\ \A a \in AskedBefore(i + 1) : a < i + 1 /\ a \in Int
  <1>1. i \in Nat /\ job.labels \subseteq Nat /\ job.comments \subseteq Nat
    BY JobsAssumption DEF Given
  <1>2. \A m \in Nat : m < i + 1 <=> m < i \/ m = i
    BY <1>1
  <1>3. LabelsBefore(i + 1) =
            IF HasLabel THEN LabelsBefore(i) \union {i} ELSE LabelsBefore(i)
    BY <1>1, <1>2 DEF LabelsBefore, HasLabel
  <1>4. AskedBefore(i + 1) =
            IF HasComment THEN AskedBefore(i) \union {i} ELSE AskedBefore(i)
    BY <1>1, <1>2 DEF AskedBefore, HasComment
  <1>5. /\ i \notin LabelsBefore(i)
        /\ \A a \in AskedBefore(i) : a < i /\ a \in Int
        /\ \A a \in AskedBefore(i + 1) : a < i + 1 /\ a \in Int
    BY <1>1 DEF LabelsBefore, AskedBefore
  <1> QED BY <1>3, <1>4, <1>5

\* An iteration of data_extract_hex.
LEMMA HexGoes ==
    ASSUME LocalInv, Going, HexStep
    PROVE  Going'
  <1> DEFINE r == HexLabel(st)
             t == HexComment(r)
             labels == LabelsBefore(i + 1)
             asked == AskedBefore(i + 1)
  <1>1. /\ job' = job /\ i' = i + 1 /\ st' = HexByte(t) /\ job.type = "hex" /\ i < job.size
    BY DEF HexStep, Loop
  <1>2. Given /\ st \in Local /\ ~st.open /\ st.top <= i /\ i \in Nat /\ job.size \in Int
    BY <1>1, JobsAssumption DEF LocalInv, Given
  <1>3. i \in LookedUp
    BY <1>1, <1>2 DEF LookedUp
  <1>4. /\ Proper(st, i, LabelsBefore(i), AskedBefore(i)) /\ Between(st, i)
    BY DEF Going
  <1>5. /\ labels = IF HasLabel THEN LabelsBefore(i) \union {i} ELSE LabelsBefore(i)
        /\ asked = IF HasComment THEN AskedBefore(i) \union {i} ELSE AskedBefore(i)
        /\ i \notin LabelsBefore(i)
        /\ \A a \in AskedBefore(i) : a < i /\ a \in Int
        /\ \A a \in asked : a < i + 1
    BY <1>2, <1>3, Lookup
  <1> HIDE DEF labels, asked
  <1>6. r \in Local /\ r.open = st.open
    BY <1>2, HexLabelType
  <1>7. Proper(r, i, labels, AskedBefore(i))
    BY <1>1, <1>2, <1>4, <1>5, HexLabelSays
  <1> HIDE DEF r
  <1>8. t \in Local /\ t.open = r.open
    BY <1>2, <1>6, HexCommentType
  <1>9. Proper(t, i, labels, asked)
    BY <1>1, <1>2, <1>5, <1>6, <1>7, HexCommentSays
  <1> HIDE DEF t
  <1>10. Proper(st', i', labels, asked) /\ Between(st', i')
    BY <1>1, <1>2, <1>5, <1>6, <1>8, <1>9, HexByteSays
  <1>11. i' <= Total
    BY <1>1, <1>2 DEF Total
  <1> QED BY <1>1, <1>10, <1>11, GoesOn DEF labels, asked

\* What the end of a loop has to establish.
LEMMA EndsSo ==
    ASSUME job' = job, NEW last, NEW printed,
           Says(job.type, st'.out, IF st'.top > 0 THEN Due(st') ELSE {}, Total, FALSE,
                last, job.labels \intersect LookedUp, printed),
           Fresh(job.type, st', printed \ Due(st')),
           job.comments \intersect LookedUp =
               printed \union IF job.type = "hex" /\ st'.top = 0 /\ st'.j > 0
                              THEN Due(st') ELSE {},
           st'.top # 0 => job.type = "hex"
    PROVE  Ended'
  <1>1. LookedUp' = LookedUp /\ Total' = Total
    BY DEF LookedUp, Total
  <1>2. LastKind(st'.out) = last /\ Ats(st'.out, "comment") = printed
    BY SaysWhat
  <1> QED BY <1>1, <1>2 DEF Ended

\* At the end of the loop every byte has been read, and everything looked up.
LEMMA AllRead ==
    ASSUME Given, i >= job.size, i <= Total, job.type # "unknown",
           job.type = "jumptable" => i % 2 = 0
    PROVE  /\ i = Total
           /\ LabelsBefore(i) = job.labels \intersect LookedUp
           /\ AskedBefore(i) = job.comments \intersect LookedUp
  <1>1. i \in Nat /\ job.size \in Int
    BY JobsAssumption DEF Given
  <1>2. i = Total
    <2>1. CASE job.size <= 0
      BY <1>1, <2>1 DEF Total
    <2>2. CASE job.size > 0 /\ job.type # "jumptable"
      BY <1>1, <2>2 DEF Total
    <2>3. CASE job.size > 0 /\ job.type = "jumptable"
      <3>1. Total = job.size + (job.size % 2)
        BY <1>1, <2>3 DEF Total
      <3> DEFINE n == job.size
      <3>2. n \in Nat /\ i % 2 = 0 /\ n <= i /\ i <= n + (n % 2)
        BY <1>1, <2>3, <3>1
      <3> HIDE DEF n
      <3>3. i = n + (n % 2)
        BY <1>1, <3>2
      <3> QED BY <3>1, <3>3 DEF n
    <2> QED BY <1>1, <2>1, <2>2, <2>3
  <1>3. \A m \in LookedUp : m < i
    BY <1>1 DEF LookedUp
  <1> QED BY <1>2, <1>3 DEF LabelsBefore, AskedBefore

\* Bytes whose comments may come early do no harm when none does.
LEMMA SaysEarly ==
    ASSUME NEW type, NEW out, NEW early, NEW shown, NEW open,
           NEW last, NEW labels, NEW comments,
           Says(type, out, {}, shown, open, last, labels, comments)
    PROVE  Says(type, out, early, shown, open, last, labels, comments)
  BY DEF Says, CommentsAt

\* The end of data_extract_hex.
LEMMA HexEnds ==
    ASSUME LocalInv, Going, HexLeave
    PROVE  Ended'
  <1> DEFINE s == st
             u == HexEnd(s)
             last == LastKind(s.out)
             printed == Ats(s.out, "comment")
             labels == LabelsBefore(i)
             asked == AskedBefore(i)
             N == Tok("newline")
  <1>1. job' = job /\ st' = u /\ job.type = "hex" /\ i >= job.size
    BY DEF HexLeave, Leave
  <1>2. /\ Given /\ s \in Local /\ s.open = FALSE /\ s.top <= i /\ i \in Nat
        /\ s.top \in Nat /\ s.j \in Nat /\ s.out \in Tokens
    BY <1>1 DEF LocalInv, Given, Local
  <1>3. /\ i = Total /\ labels = job.labels \intersect LookedUp
        /\ asked = job.comments \intersect LookedUp
    BY <1>1, <1>2, AllRead DEF Going
  <1>4. /\ Says("hex", s.out, {}, i - s.top, FALSE, last, labels, printed)
        /\ asked = printed \union Due(s) /\ Fresh("hex", s, printed)
        /\ last \in Lasts /\ Between(s, i)
    BY <1>1, <1>2 DEF Going, Proper, Shape
  <1>5. u.top = s.top /\ u.pending = s.pending /\ u.j = s.j
    BY <1>2, HexEndType
  <1>6. Due(u) = Due(s)
    BY <1>5 DEF Due
  <1>7. N \in Tokens /\ <<>> \in Tokens /\ Tok("directive") \in Tokens
    BY TokType DEF Kinds, Tokens
  <1> HIDE DEF s, last, printed, labels, asked
  <1>8. CASE s.top > 0
    <2> DEFINE W == Waiting(s)
               D == Tok("directive")
               B == Bytes(i - s.top, s.top)
               a == s.out \o W
               b == a \o D
               c == b \o B
               next == IF s.pending = None THEN last ELSE "comment"
    <2>1. Says("hex", s.out, Due(s), i - s.top, FALSE, last, labels, printed)
      BY <1>4, SaysEarly
    <2>2. i - s.top \in Int /\ s.top \in Int /\ (i - s.top) + s.top = i
      BY <1>2
    <2>3. /\ a \in Tokens
          /\ Says("hex", a, Due(s), i - s.top, FALSE, next, labels, asked)
      <3>1. /\ a \in Tokens
            /\ Says("hex", a, Due(s), i - s.top, FALSE, next, labels, printed \union Due(s))
        BY <1>2, <1>4, <2>1, <2>2, SaysWaiting
      <3> QED BY <1>4, <3>1
    <2>4. W \in Tokens /\ B \in Tokens /\ D \in Tokens
      BY <1>2, <1>7, <2>2, WaitingType, BytesType
    <2>5. next \in Lasts
      BY <1>4 DEF Lasts
    <2> HIDE DEF next
    <2>6. Follows("hex", next, FALSE, "directive")
      BY <2>5, MayComeNext
    <2>7. s.out \o (((W \o D) \o B) \o N) = c \o N
      <3>1. W \o D \in Tokens /\ (W \o D) \o B \in Tokens
        BY <2>4, Joined
      <3>2. s.out \o (W \o D) = b
        BY <1>2, <2>4, Assoc
      <3>3. s.out \o ((W \o D) \o B) = c
        <4>1. s.out \o ((W \o D) \o B) = (s.out \o (W \o D)) \o B
          <5> DEFINE x == W \o D
          <5> HIDE DEF x, W, D, B
          <5>1. s.out \o (x \o B) = (s.out \o x) \o B
            BY <1>2, <2>4, <3>1, Assoc DEF x
          <5> QED BY <5>1 DEF x
        <4> QED BY <3>2, <4>1
      <3> HIDE DEF W, D, B, N, c
      <3> QED BY <1>2, <1>7, <3>1, <3>3, Assoc
    <2> HIDE DEF a
    <2>8. b \in Tokens /\ Says("hex", b, Due(s), i - s.top, FALSE, "directive", labels, asked)
      BY <2>3, <2>6, SaysTok
    <2>9. Follows("hex", "directive", FALSE, "data")
      BY AlwaysNext
    <2> HIDE DEF b
    <2>10. /\ c \in Tokens
           /\ Says("hex", c, Due(s), (i - s.top) + s.top, FALSE, "data", labels, asked)
      BY <2>2, <2>8, <2>9, SaysBytes
    <2> HIDE DEF c
    <2>11. Follows("hex", "data", FALSE, "newline")
      BY MayComeNext DEF Lasts
    <2>12. Says("hex", c \o N, Due(s), i, FALSE, "newline", labels, asked)
      BY <2>2, <2>10, <2>11, SaysTok
    <2>13. u.out = c \o N
      <3>1. u.out = s.out \o (If(s.top > 0, (W \o D) \o B) \o N)
        BY <1>2 DEF HexEnd, Put, Local
      <3> HIDE DEF W, D, B, N
      <3>2. If(s.top > 0, (W \o D) \o B) = (W \o D) \o B
        BY <1>8 DEF If
      <3> QED BY <2>7, <3>1, <3>2
    <2> HIDE DEF u
    <2>14. Fresh("hex", u, asked \ Due(u))
      BY <1>4, <1>6 DEF Fresh
    <2>15. Says(job.type, u.out, IF u.top > 0 THEN Due(u) ELSE {}, Total, FALSE, "newline",
                job.labels \intersect LookedUp, asked)
      BY <1>1, <1>3, <1>5, <1>6, <1>8, <2>12, <2>13
    <2>16. asked \union (IF job.type = "hex" /\ u.top = 0 /\ u.j > 0 THEN Due(u) ELSE {}) = asked
      BY <1>5, <1>8
    <2> QED BY <1>1, <1>3, <2>14, <2>15, <2>16, EndsSo
  <1>9. CASE s.top = 0
    <2>1. Says("hex", s.out, {}, i, FALSE, last, labels, printed)
      <3>1. i - s.top = i
        BY <1>2, <1>9
      <3> QED BY <1>4, <3>1
    <2>2. last # "label" /\ (s.j = 0 => s.pending = None)
      <3>1. i = 0 \/ i > 0
        BY <1>2
      <3> QED BY <1>1, <1>4, <1>9, <3>1 DEF Between, last
    <2>3. Follows("hex", last, FALSE, "newline")
      BY <1>4, <2>2, MayComeNext
    <2>4. Says("hex", s.out \o N, {}, i, FALSE, "newline", labels, printed)
      BY <1>2, <2>1, <2>3, SaysTok
    <2>5. u.out = s.out \o N
      <3>1. u.out = s.out \o (If(s.top > 0, (Waiting(s) \o Tok("directive"))
                                  \o Bytes(i - s.top, s.top)) \o N)
        BY <1>2 DEF HexEnd, Put, Local
      <3>2. If(s.top > 0, (Waiting(s) \o Tok("directive")) \o Bytes(i - s.top, s.top)) = <<>>
        BY <1>9 DEF If
      <3>3. <<>> \o N = N
        BY <1>7 DEF Tokens
      <3> QED BY <3>1, <3>2, <3>3
    <2> HIDE DEF u
    <2>6. Fresh("hex", u, printed \ Due(u))
      BY <1>4, <1>6 DEF Fresh
    <2>7. Says(job.type, u.out, IF u.top > 0 THEN Due(u) ELSE {}, Total, FALSE, "newline",
                job.labels \intersect LookedUp, printed)
      <3>1. (IF u.top > 0 THEN Due(u) ELSE {}) = {}
        BY <1>5, <1>9
      <3> QED BY <1>1, <1>3, <2>4, <2>5, <3>1
    <2>8. asked = printed \union IF job.type = "hex" /\ u.top = 0 /\ u.j > 0 THEN Due(u) ELSE {}
      <3>1. CASE s.j > 0
        BY <1>1, <1>4, <1>5, <1>6, <1>9, <3>1
      <3>2. CASE s.j = 0
        <4>1. Due(s) = {}
          BY <2>2, <3>2 DEF Due
        <4> QED BY <1>4, <1>5, <3>2, <4>1
      <3> QED BY <1>2, <3>1, <3>2
    <2> QED BY <1>1, <1>3, <1>5, <1>9, <2>6, <2>7, <2>8, EndsSo
  <1> QED BY <1>2, <1>8, <1>9

-----------------------------------------------------------------------------
(* Strings keep it.                                                        *)

\* Outside of data_extract_hex nothing waits in the buffer.
LEMMA NothingWaits ==
    ASSUME NEW s \in Local, Given, NEW n \in Nat, NEW labels, NEW asked,
           Proper(s, n, labels, asked), job.type # "hex"
    PROVE  /\ s.top = 0 /\ n - s.top = n
           /\ Says(job.type, s.out, {}, n, s.open, LastKind(s.out), labels,
                   Ats(s.out, "comment"))
           /\ asked = Ats(s.out, "comment") \union Due(s)
           /\ Fresh(job.type, s, Ats(s.out, "comment"))
           /\ Shape(s, LastKind(s.out)) /\ LastKind(s.out) \in Lasts
           /\ s.out \in Tokens /\ s.j \in Nat /\ s.pending \in Int
  <1>1. s.top = 0 /\ n - s.top = n
    BY DEF Proper
  <1>2. s.out \in Tokens /\ s.j \in Nat /\ s.pending \in Int
    BY DEF Local
  <1> QED BY <1>1, <1>2 DEF Proper, Shape

\* The label of a byte of a string; an open string is closed before it.
LEMMA StringLabelSays ==
    ASSUME NEW s \in Local, Given, NEW labels, NEW asked,
           Proper(s, i, labels, asked), job.type = "string", OpenInLine(s),
           Between(s, i), i \notin labels
    PROVE  Proper(StringLabel(s), i, IF HasLabel THEN labels \union {i} ELSE labels, asked)
  <1> DEFINE f == Close(s)
             line == NewLine \o Mark("label", i)
             u == StringLabel(s)
             last == LastKind(s.out)
             printed == Ats(s.out, "comment")
  <1>1. i \in Nat
    BY DEF Given
  <1>2. /\ s.top = 0
        /\ Says("string", s.out, {}, i, s.open, last, labels, printed)
        /\ asked = printed \union Due(s) /\ Fresh("string", s, printed)
        /\ last \in Lasts /\ (s.open => last = "data")
    BY <1>1, NothingWaits DEF Shape
  <1>3. CASE HasLabel
    <2> DEFINE next == IF s.open THEN "quote" ELSE last
    <2>1. f \in Local /\ f.pending = s.pending /\ f.open = FALSE /\ f.top = 0
      BY <1>2, CloseType
    <2>2. Says("string", f.out, {}, i, FALSE, next, labels, printed)
      BY <1>2, SaysClose
    <2>3. next \in Lasts /\ (i = 0 => next = "start") /\ next # "label"
      <3>1. i = 0 => last = "start"
        BY DEF Between
      <3>2. i > 0 => last # "label"
        BY <1>2 DEF Between
      <3>3. i = 0 \/ i > 0
        BY <1>1
      <3> QED BY <1>2, <3>1, <3>2, <3>3 DEF Lasts
    <2>4. f.out \in Tokens
      BY <2>1 DEF Local
    <2> HIDE DEF next, f
    <2>5. Says("string", f.out \o line, {}, i, FALSE, "label", labels \union {i}, printed)
      BY <2>2, <2>3, <2>4, SaysLabelLine
    <2>6. u = [Put(f, line) EXCEPT !.j = 0]
      BY <1>3 DEF StringLabel, f
    <2> HIDE DEF line, u
    <2>7. /\ u.out = f.out \o line /\ u.top = 0 /\ u.open = FALSE /\ u.j = 0
          /\ u.pending = s.pending
      BY <2>1, <2>6 DEF Put, Local
    <2>8. Due(u) = Due(s) /\ Fresh("string", u, printed)
      BY <1>2, <2>7 DEF Due, Fresh
    <2>9. Shape(u, "label")
      BY <2>7 DEF Shape, Lasts
    <2>10. i - u.top = i
      BY <1>1, <2>7
    <2>11. Proper(u, i, labels \union {i}, asked)
      BY <1>2, <2>5, <2>7, <2>8, <2>9, <2>10, IsProper
    <2> QED BY <1>3, <2>11 DEF u
  <1>4. CASE ~HasLabel
    <2>1. StringLabel(s) = s
      BY <1>4 DEF StringLabel
    <2> QED BY <1>4, <2>1
  <1> QED BY <1>3, <1>4

\* The comment of a byte of a string, which starts a line.
LEMMA StringCommentSays ==
    ASSUME NEW s \in Local, Given, NEW labels, NEW asked,
           Proper(s, i, labels, asked), job.type = "string", OpenInLine(s),
           \A a \in asked : a < i /\ a \in Int
    PROVE  Proper(StringComment(s), i, labels, IF HasComment THEN asked \union {i} ELSE asked)
  <1> DEFINE f == IF s.j > 0 THEN Close(s) ELSE s
             last == LastKind(s.out)
             printed == Ats(s.out, "comment")
             u == StringComment(s)
             t == Put(f, Waiting(s))
             next == IF s.open THEN "quote" ELSE last
             new == IF s.pending = None THEN next ELSE "comment"
  <1>1. i \in Nat /\ i \in Int
    BY DEF Given
  <1>2. /\ s.top = 0
        /\ Says("string", s.out, {}, i, s.open, last, labels, printed)
        /\ asked = printed \union Due(s) /\ Fresh("string", s, printed)
        /\ last \in Lasts /\ (s.open => last = "data") /\ s.j \in Nat
    BY <1>1, NothingWaits DEF Shape
  <1>3. \A d \in Due(s) : d < i
    BY Older
  <1>4. CASE HasComment
    <2>1. /\ f \in Local /\ f.open = FALSE /\ f.top = 0
          /\ Says("string", f.out, {}, i, FALSE, next, labels, printed)
      <3>1. CASE s.j > 0
        <4>1. f = Close(s)
          BY <3>1
        <4>2. /\ Close(s) \in Local /\ Close(s).open = FALSE /\ Close(s).top = s.top
              /\ Says("string", Close(s).out, {}, i, FALSE, next, labels, printed)
          BY <1>2, CloseType, SaysClose
        <4> HIDE DEF f
        <4> QED BY <1>2, <4>1, <4>2
      <3>2. CASE s.j = 0
        <4>1. f = s /\ s.open = FALSE /\ next = last
          BY <3>2 DEF OpenInLine, Local
        <4> HIDE DEF f, next
        <4> QED BY <1>2, <4>1
      <3>3. s.j > 0 \/ s.j = 0
        BY <1>2
      <3> QED BY <3>1, <3>2, <3>3
    <2>2. next \in Lasts /\ f.out \in Tokens
      BY <1>2, <2>1 DEF Lasts, Local
    <2> HIDE DEF next, f
    <2>3. Says("string", f.out \o Waiting(s), {}, i, FALSE, new, labels, asked)
      <3>1. Says("string", f.out \o Waiting(s), {}, i, FALSE, new, labels,
                 printed \union Due(s))
        BY <1>1, <1>2, <1>3, <2>1, <2>2, SaysWaiting
      <3> QED BY <1>2, <3>1
    <2>4. new \in Lasts
      BY <2>2 DEF Lasts
    <2>5. u = [t EXCEPT !.j = 0, !.pending = i]
      BY <1>4 DEF StringComment, f
    <2>6. t.out = f.out \o Waiting(s) /\ t.top = 0 /\ t.open = FALSE /\ t \in Local
      <3>1. Waiting(s) \in Tokens
        BY WaitingType
      <3>2. t \in Local /\ t.top = f.top /\ t.open = f.open
        BY <2>1, <3>1, PutType
      <3> QED BY <2>1, <3>2 DEF Put, Local
    <2>7. u.out = f.out \o Waiting(s) /\ u.top = 0 /\ u.open = FALSE /\ u.j = 0 /\ u.pending = i
      <3> HIDE DEF t, u
      <3> QED BY <2>5, <2>6 DEF Local
    <2> HIDE DEF u, new
    <2>8. Due(u) = {i}
      BY <1>1, <2>7 DEF Due, None
    <2>9. Fresh("string", u, asked)
      BY <1>1, <2>8 DEF Fresh
    <2>10. Shape(u, new) /\ i - u.top = i
      BY <1>1, <2>4, <2>7 DEF Shape
    <2>11. Proper(u, i, labels, asked \union {i})
      BY <2>3, <2>7, <2>8, <2>9, <2>10, IsProper
    <2> QED BY <1>4, <2>11 DEF u
  <1>5. CASE ~HasComment
    <2>1. StringComment(s) = s
      BY <1>5 DEF StringComment
    <2> QED BY <1>5, <2>1
  <1> QED BY <1>4, <1>5

\* A byte of a string, between quotes or not.
LEMMA StringCharSays ==
    ASSUME NEW s \in Local, Given, NEW last \in Lasts, NEW labels, NEW comments,
           Says("string", s.out, {}, i, s.open, last, labels, comments),
           Shape(s, last), OpenInLine(s)
    PROVE  /\ StringChar(s).open \in BOOLEAN
           /\ Says("string", StringChar(s).out, {}, i + 1, StringChar(s).open, "data",
                   labels, comments)
  <1> DEFINE b == IF s.j = 0 THEN Put(s, Tok("directive")) ELSE s
             comma == If(s.j > 0, Tok("sep"))
             B == Bytes(i, 1)
             Q == Tok("quote")
  <1>1. i \in Int /\ 1 \in Int /\ s.j \in Nat /\ s.open \in BOOLEAN
    BY DEF Given, Local
  <1>2. s.out \in Tokens
    BY DEF Local
  <1>3. B \in Tokens /\ Q \in Tokens /\ Tok("sep") \in Tokens /\ Tok("directive") \in Tokens
        /\ <<>> \in Tokens
    BY <1>1, BytesType, TokType DEF Kinds, Tokens
  <1>4. comma \in Tokens
    BY <1>3 DEF If
  \* An open string goes on.
  <1>5. CASE s.open
    <2>1. s.open = TRUE /\ last = "data" /\ b = s
      BY <1>1, <1>5 DEF Shape, OpenInLine
    <2>2. Follows("string", "data", TRUE, "data") /\ Follows("string", "data", TRUE, "quote")
      BY MayComeNext
    <2>3. CASE job.bytes[i] \in Printable
      <3>1. StringChar(s) = [Put(s, If(~s.open, comma \o Q) \o B) EXCEPT !.open = TRUE]
        <4> HIDE DEF comma, Q, B
        <4> QED BY <2>1, <2>3 DEF StringChar, comma, Q, B, b
      <3>2. If(~s.open, comma \o Q) = <<>> /\ <<>> \o B = B
        BY <1>3, <2>1 DEF If, Tokens
      <3>3. StringChar(s).out = s.out \o B /\ StringChar(s).open = TRUE
        <4> HIDE DEF comma, Q, B
        <4> QED BY <3>1, <3>2 DEF Put, Local
      <3>4. Says("string", s.out \o B, {}, i + 1, TRUE, "data", labels, comments)
        BY <1>1, <1>2, <2>1, <2>2, SaysBytes
      <3> QED BY <3>3, <3>4
    <2>4. CASE job.bytes[i] \notin Printable
      <3> DEFINE a == s.out \o Q
                 c == a \o Tok("sep")
      <3>1. a \in Tokens /\ Says("string", a, {}, i, ~TRUE, "quote", labels, comments)
        BY <1>2, <2>1, <2>2, SaysQuote
      <3>2. (~TRUE) = FALSE
        OBVIOUS
      <3>3. Follows("string", "quote", FALSE, "sep")
        BY MayComeNext
      <3>4. StringChar(s).out = (s.out \o Q) \o (Tok("sep") \o B)
        <4>1. Close(s).out = s.out \o Q /\ Close(s) \in Local
          BY <2>1, CloseType DEF Close, Put, Local, If
        <4>2. comma = Tok("sep")
          BY <1>1, <1>5 DEF If, OpenInLine
        <4>3. StringChar(s) = Put(Close(s), comma \o B)
          BY <2>1, <2>4 DEF StringChar
        <4> HIDE DEF comma, B, Q
        <4> QED BY <4>1, <4>2, <4>3 DEF Put, Local
      <3>5. StringChar(s).open = FALSE
        <4>1. Close(s) \in Local /\ Close(s).open = FALSE
          BY CloseType
        <4>2. comma \o B \in Tokens
          BY <1>3, <1>4, Joined
        <4>3. StringChar(s) = Put(Close(s), comma \o B)
          BY <2>1, <2>4 DEF StringChar
        <4> QED BY <4>1, <4>2, <4>3, PutType
      <3>6. (s.out \o Q) \o (Tok("sep") \o B) = c \o B
        <4> HIDE DEF Q, B
        <4> DEFINE x == s.out \o Q
        <4>1. x \in Tokens
          BY <3>1
        <4> HIDE DEF x
        <4>2. x \o (Tok("sep") \o B) = (x \o Tok("sep")) \o B
          BY <1>3, <4>1, Assoc
        <4> QED BY <4>2 DEF x
      <3> HIDE DEF a
      <3>7. c \in Tokens /\ Says("string", c, {}, i, FALSE, "sep", labels, comments)
        BY <3>1, <3>2, <3>3, SaysTok
      <3>8. Follows("string", "sep", FALSE, "data")
        BY AlwaysNext
      <3> HIDE DEF c
      <3>9. Says("string", c \o B, {}, i + 1, FALSE, "data", labels, comments)
        BY <1>1, <3>7, <3>8, SaysBytes
      <3> QED BY <3>4, <3>5, <3>6, <3>9
    <2> QED BY <2>3, <2>4
  \* Otherwise a directive begins the line, or a comma goes on with it.
  <1>6. CASE ~s.open
    <2> DEFINE kind == IF s.j = 0 THEN "directive" ELSE "sep"
               a == s.out \o Tok(kind)
    <2>1. s.open = FALSE
      BY <1>1, <1>6
    <2>2. a \in Tokens /\ Says("string", a, {}, i, FALSE, kind, labels, comments)
      <3>1. CASE s.j = 0
        <4>1. Follows("string", last, FALSE, "directive") /\ kind = "directive"
          BY <3>1, MayComeNext
        <4>2. /\ s.out \o Tok("directive") \in Tokens
              /\ Says("string", s.out \o Tok("directive"), {}, i, FALSE, "directive",
                      labels, comments)
          BY <1>2, <2>1, <4>1, SaysTok
        <4> HIDE DEF kind
        <4> QED BY <4>1, <4>2
      <3>2. CASE s.j > 0
        <4>1. kind = "sep"
          BY <1>1, <3>2
        <4>2. last \in {"data", "quote"}
          BY <3>2 DEF Shape
        <4>3. Follows("string", last, FALSE, "sep")
          BY <4>2, MayComeNext
        <4>4. /\ s.out \o Tok("sep") \in Tokens
              /\ Says("string", s.out \o Tok("sep"), {}, i, FALSE, "sep",
                      labels, comments)
          BY <1>2, <2>1, <4>3, SaysTok
        <4> HIDE DEF kind
        <4> QED BY <4>1, <4>4
      <3>3. s.j > 0 \/ s.j = 0
        BY <1>1
      <3> QED BY <3>1, <3>2, <3>3
    <2>3. kind \in {"directive", "sep"} /\ Tok(kind) \in Tokens
      BY <1>3
    <2>4. /\ b \in Local /\ b.open = FALSE /\ b.out \o comma = a /\ b.out \in Tokens
      <3>1. CASE s.j = 0
        <4>1. b = Put(s, Tok("directive")) /\ comma = <<>> /\ kind = "directive"
          BY <3>1 DEF If
        <4>2. /\ Put(s, Tok("directive")) \in Local
              /\ Put(s, Tok("directive")).open = FALSE
              /\ Put(s, Tok("directive")).out = s.out \o Tok("directive")
          BY <1>3, <2>1, PutType, PutOut
        <4>3. (s.out \o Tok("directive")) \o <<>> = s.out \o Tok("directive")
          BY <1>2, <1>3, NoToken, Joined
        <4> HIDE DEF b, comma, kind
        <4> QED BY <2>2, <4>1, <4>2, <4>3
      <3>2. CASE s.j > 0
        <4>1. b = s /\ comma = Tok("sep") /\ kind = "sep"
          BY <1>1, <3>2 DEF If
        <4> HIDE DEF b, comma, kind
        <4> QED BY <1>2, <2>1, <4>1
      <3>3. s.j > 0 \/ s.j = 0
        BY <1>1
      <3> QED BY <3>1, <3>2, <3>3
    <2>5. CASE job.bytes[i] \in Printable
      <3> DEFINE c == a \o Q
      <3>1. StringChar(s) = [Put(b, (comma \o Q) \o B) EXCEPT !.open = TRUE]
        <4>1. If(~s.open, comma \o Q) = comma \o Q
          BY <2>1 DEF If
        <4> QED BY <2>5, <4>1 DEF StringChar
      <3>2. StringChar(s).open = TRUE /\ StringChar(s).out = b.out \o ((comma \o Q) \o B)
        <4> HIDE DEF b, comma, Q, B
        <4> QED BY <2>4, <3>1 DEF Put, Local
      <3>3. b.out \o ((comma \o Q) \o B) = c \o B
        <4>1. comma \o Q \in Tokens
          BY <1>3, <1>4, Joined
        <4>2. b.out \o (comma \o Q) = c
          <5> HIDE DEF b, comma, Q, a
          <5>1. b.out \o (comma \o Q) = (b.out \o comma) \o Q
            <6>1. b.out \in Tokens /\ comma \in Tokens /\ Q \in Tokens
              BY <1>3, <1>4, <2>4
            <6> QED BY <6>1, Assoc
          <5> QED BY <2>4, <5>1
        <4> DEFINE x == comma \o Q
        <4> HIDE DEF b, comma, Q, B, c, x
        <4>3. b.out \o (x \o B) = (b.out \o x) \o B
          <5>1. b.out \in Tokens /\ x \in Tokens /\ B \in Tokens
            BY <1>3, <2>4, <4>1 DEF x
          <5> QED BY <5>1, Assoc
        <4> QED BY <4>2, <4>3 DEF x
      <3>4. Follows("string", kind, FALSE, "quote")
        BY AlwaysNext
      <3> HIDE DEF a, kind
      <3>5. c \in Tokens /\ Says("string", c, {}, i, ~FALSE, "quote", labels, comments)
        BY <2>2, <3>4, SaysQuote
      <3>6. (~FALSE) = TRUE /\ Follows("string", "quote", TRUE, "data")
        BY AlwaysNext
      <3> HIDE DEF c
      <3>7. Says("string", c \o B, {}, i + 1, TRUE, "data", labels, comments)
        BY <1>1, <3>5, <3>6, SaysBytes
      <3> QED BY <3>2, <3>3, <3>7
    <2>6. CASE job.bytes[i] \notin Printable
      <3> DEFINE d == Close(b)
      <3>1. d \in Local /\ d.open = FALSE /\ d.out = b.out
        <4>1. d \in Local /\ d.open = FALSE
          BY <2>4, CloseType
        <4>2. d.out = b.out \o <<>>
          BY <2>4 DEF Close, Put, If, Local
        <4> QED BY <2>4, <4>1, <4>2, NoToken
      <3>2. StringChar(s) = Put(d, comma \o B)
        BY <2>6 DEF StringChar
      <3> HIDE DEF d
      <3>3. StringChar(s).open = FALSE /\ StringChar(s).out = b.out \o (comma \o B)
        <4>1. comma \o B \in Tokens
          BY <1>3, <1>4, Joined
        <4> HIDE DEF b, comma, B
        <4>2. Put(d, comma \o B).open = FALSE /\ Put(d, comma \o B).out = d.out \o (comma \o B)
          <5> DEFINE x == comma \o B
          <5> HIDE DEF x
          <5>1. Put(d, x).open = FALSE /\ Put(d, x).out = d.out \o x
            BY <3>1, <4>1, PutType, PutOut DEF x
          <5> QED BY <5>1 DEF x
        <4> QED BY <3>1, <3>2, <4>2
      <3>4. b.out \o (comma \o B) = a \o B
        <4> HIDE DEF b, comma, B, a
        <4>1. b.out \o (comma \o B) = (b.out \o comma) \o B
          <5>1. b.out \in Tokens /\ comma \in Tokens /\ B \in Tokens
            BY <1>3, <1>4, <2>4
          <5> QED BY <5>1, Assoc
        <4> QED BY <2>4, <4>1
      <3>5. Follows("string", kind, FALSE, "data")
        BY AlwaysNext
      <3> HIDE DEF a, kind
      <3>6. Says("string", a \o B, {}, i + 1, FALSE, "data", labels, comments)
        BY <1>1, <2>2, <3>5, SaysBytes
      <3> QED BY <3>3, <3>4, <3>6
    <2> QED BY <2>5, <2>6
  <1> QED BY <1>5, <1>6

\* A byte of a string and the end of its line, if it ends one.
LEMMA StringByteSays ==
    ASSUME NEW s \in Local, Given, NEW labels, NEW asked,
           Proper(s, i, labels, asked), job.type = "string", OpenInLine(s),
           \A a \in asked : a < i + 1
    PROVE  Proper(StringByte(s), i + 1, labels, asked) /\ Between(StringByte(s), i + 1)
  <1> DEFINE last == LastKind(s.out)
             printed == Ats(s.out, "comment")
             u == StringByte(s)
             m == Matched(s)
             newline == Len(job.delimiter) > 0 /\ m = Len(job.delimiter)
             full == s.j + 1 = job.perLine \/ newline
             k == IF newline THEN 0 ELSE m
             c == StringChar(s)
             j == s.j + 1
             t == [c EXCEPT !.j = j, !.k = k]
  <1>1. i \in Nat /\ i + 1 \in Nat /\ i + 1 \in Int
    BY DEF Given
  <1>2. /\ s.top = 0
        /\ Says("string", s.out, {}, i, s.open, last, labels, printed)
        /\ asked = printed \union Due(s) /\ Fresh("string", s, printed)
        /\ last \in Lasts /\ Shape(s, last) /\ s.j \in Nat
    BY <1>1, NothingWaits
  <1>3. \A d \in Due(s) : d < i + 1
    BY Older
  <1>4. k \in Nat
    <2>1. Len(job.delimiter) \in Nat
      BY JobsAssumption DEF Given
    <2> QED BY <2>1, MatchedType
  <1>5. /\ c \in Local /\ c.j = s.j /\ c.top = s.top /\ c.pending = s.pending
    BY StringCharType
  <1>6. Says("string", c.out, {}, i + 1, c.open, "data", labels, printed)
    BY <1>2, StringCharSays
  <1>7. j \in Nat /\ j > 0
    BY <1>2
  <1>8. u = EndLine(IF full THEN Close(t) ELSE t, full) /\ full \in BOOLEAN
    <2>1. t = [c EXCEPT !.j = @ + 1, !.k = k]
      <3> HIDE DEF c, k
      <3> QED BY <1>5 DEF Local
    <2> QED BY <2>1 DEF StringByte, c, k, full, newline, m
  <1> HIDE DEF k, j, c, full
  <1>9. /\ t \in Local /\ t.j = j /\ t.top = 0 /\ t.pending = s.pending
        /\ t.out = c.out /\ t.open = c.open
    BY <1>2, <1>4, <1>5, <1>7 DEF Local
  <1> HIDE DEF t
  <1>10. Says("string", t.out, {}, i + 1, t.open, "data", labels, printed)
    BY <1>6, <1>9
  <1>11. Due(t) = Due(s) /\ Fresh("string", t, printed)
    BY <1>2, <1>9 DEF Due, Fresh
  <1>12. CASE full
    <2> DEFINE e == Close(t)
               after == IF t.open THEN "quote" ELSE "data"
               next == IF e.pending = None THEN after ELSE "comment"
    <2>1. /\ e \in Local /\ e.open = FALSE /\ e.top = 0 /\ e.pending = s.pending
      BY <1>9, CloseType
    <2>2. Says("string", e.out, {}, i + 1, FALSE, after, labels, printed)
      BY <1>9, <1>10, SaysClose
    <2>3. u = EndLine(e, full)
      BY <1>8, <1>12
    <2> HIDE DEF e, u
    <2>4. after \in Lasts
      BY DEF Lasts
    <2>5. Due(e) = Due(s) /\ Fresh("string", e, printed)
      BY <1>2, <2>1 DEF Due, Fresh
    <2>6. next \in {"data", "quote", "comment"}
      OBVIOUS
    <2> HIDE DEF after
    <2>7. Says("string", u.out, {}, i + 1, FALSE, next, labels, asked)
      <3>1. Says("string", EndLine(e, full).out, {}, i + 1, FALSE, next, labels,
                 printed \union Due(e))
        BY <1>1, <1>3, <1>8, <1>12, <2>1, <2>2, <2>4, <2>5, SaysEndLine
      <3> QED BY <1>2, <2>3, <2>5, <3>1
    <2>8. u.j = 0 /\ u.pending = None /\ u.top = 0 /\ u.open = FALSE
      <3> DEFINE w == Put(e, Waiting(e))
      <3>1. u = [w EXCEPT !.j = 0, !.pending = None]
        BY <1>12, <2>3 DEF EndLine
      <3>2. w \in Local /\ w.top = 0 /\ w.open = FALSE
        BY <2>1, WaitingType, PutType
      <3> HIDE DEF w
      <3> QED BY <3>1, <3>2 DEF Local
    <2> HIDE DEF next
    <2>9. Due(u) = {} /\ Fresh("string", u, asked) /\ asked = asked \union {}
      BY <2>8 DEF Due, Fresh
    <2>10. Shape(u, next) /\ (i + 1) - u.top = i + 1
      BY <1>1, <2>6, <2>8 DEF Shape, Lasts
    <2>11. Proper(u, i + 1, labels, asked)
      BY <2>7, <2>8, <2>9, <2>10, IsProper
    <2>12. LastKind(u.out) = next
      BY <2>7, SaysWhat
    <2>13. Between(u, i + 1)
      BY <1>1, <2>6, <2>8, <2>12 DEF Between
    <2> QED BY <2>11, <2>13 DEF u
  <1>13. CASE ~full
    <2>1. u = t
      BY <1>8, <1>13 DEF EndLine
    <2> HIDE DEF u
    <2>2. Shape(t, "data") /\ (i + 1) - t.top = i + 1
      BY <1>1, <1>9 DEF Shape, Lasts
    <2>3. Proper(t, i + 1, labels, asked)
      BY <1>2, <1>9, <1>10, <1>11, <2>2, IsProper
    <2>4. LastKind(t.out) = "data"
      BY <1>10, SaysWhat
    <2>5. Between(t, i + 1)
      BY <1>1, <1>7, <1>9, <2>4 DEF Between
    <2> QED BY <2>1, <2>3, <2>5 DEF u
  <1> QED BY <1>12, <1>13

\* An iteration of data_extract_string.
LEMMA StringGoes ==
    ASSUME LocalInv, Going, StringStep
    PROVE  Going'
  <1> DEFINE r == StringLabel(st)
             t == StringComment(r)
             labels == LabelsBefore(i + 1)
             asked == AskedBefore(i + 1)
  <1>1. /\ job' = job /\ i' = i + 1 /\ st' = StringByte(t) /\ job.type = "string" /\ i < job.size
    BY DEF StringStep, Loop
  <1>2. Given /\ st \in Local /\ OpenInLine(st) /\ i \in Nat /\ job.size \in Int
    BY <1>1, JobsAssumption DEF LocalInv, Given
  <1>3. i \in LookedUp
    BY <1>1, <1>2 DEF LookedUp
  <1>4. /\ Proper(st, i, LabelsBefore(i), AskedBefore(i)) /\ Between(st, i)
    BY DEF Going
  <1>5. /\ labels = IF HasLabel THEN LabelsBefore(i) \union {i} ELSE LabelsBefore(i)
        /\ asked = IF HasComment THEN AskedBefore(i) \union {i} ELSE AskedBefore(i)
        /\ i \notin LabelsBefore(i)
        /\ \A a \in AskedBefore(i) : a < i /\ a \in Int
        /\ \A a \in asked : a < i + 1
    BY <1>2, <1>3, Lookup
  <1> HIDE DEF labels, asked
  <1>6. r \in Local /\ OpenInLine(r)
    BY <1>2, StringLabelType
  <1>7. Proper(r, i, labels, AskedBefore(i))
    BY <1>1, <1>2, <1>4, <1>5, StringLabelSays
  <1> HIDE DEF r
  <1>8. t \in Local /\ OpenInLine(t)
    BY <1>2, <1>6, StringCommentType
  <1>9. Proper(t, i, labels, asked)
    BY <1>1, <1>2, <1>5, <1>6, <1>7, StringCommentSays
  <1> HIDE DEF t
  <1>10. Proper(st', i', labels, asked) /\ Between(st', i')
    BY <1>1, <1>2, <1>5, <1>8, <1>9, StringByteSays
  <1>11. i' <= Total
    BY <1>1, <1>2 DEF Total
  <1> QED BY <1>1, <1>10, <1>11, GoesOn DEF labels, asked

\* The end of data_extract_string.
LEMMA StringEnds ==
    ASSUME LocalInv, Going, StringLeave
    PROVE  Ended'
  <1> DEFINE s == st
             u == StringEnd(s)
             last == LastKind(s.out)
             printed == Ats(s.out, "comment")
             labels == LabelsBefore(i)
             asked == AskedBefore(i)
             N == Tok("newline")
             W == Waiting(s)
  <1>1. job' = job /\ st' = u /\ job.type = "string" /\ i >= job.size
    BY DEF StringLeave, Leave
  <1>2. Given /\ s \in Local /\ OpenInLine(s) /\ i \in Nat /\ i \in Int
    BY DEF LocalInv, Given
  <1>3. /\ i = Total /\ labels = job.labels \intersect LookedUp
        /\ asked = job.comments \intersect LookedUp
    BY <1>1, <1>2, AllRead DEF Going
  <1>4. Proper(s, i, labels, asked) /\ Between(s, i)
    BY DEF Going
  <1> HIDE DEF labels, asked, s
  <1>5. /\ s.top = 0
        /\ Says("string", s.out, {}, i, s.open, last, labels, printed)
        /\ asked = printed \union Due(s) /\ Fresh("string", s, printed)
        /\ last \in Lasts /\ Shape(s, last) /\ s.j \in Nat /\ s.out \in Tokens
    BY <1>1, <1>2, <1>4, NothingWaits
  <1>6. u.top = 0 /\ u.pending = s.pending
    BY <1>2, <1>5, StringEndType
  <1>7. Due(u) = Due(s) /\ Fresh("string", u, printed \ Due(u)) /\ Fresh("string", u, asked \ Due(u))
    BY <1>5, <1>6 DEF Due, Fresh
  <1>8. N \in Tokens /\ W \in Tokens /\ \A d \in Due(s) : d < i
    <2>1. \A a \in asked : a < i
      BY DEF asked, AskedBefore
    <2> QED BY <1>2, <1>5, <2>1, TokType, WaitingType DEF Kinds
  <1>9. CASE s.j > 0
    <2> DEFINE e == Close(s)
               after == IF s.open THEN "quote" ELSE last
               next == IF s.pending = None THEN after ELSE "comment"
               a == e.out \o W
    <2>1. after \in Lasts /\ after # "label"
      BY <1>5, <1>9 DEF Shape, Lasts
    <2>2. e \in Local /\ Says("string", e.out, {}, i, FALSE, after, labels, printed)
      BY <1>2, <1>5, CloseType, SaysClose DEF Shape
    <2>3. e.out \in Tokens
      BY <2>2 DEF Local
    <2>4. u.out = e.out \o (W \o N)
      BY <1>9, <2>2 DEF StringEnd, Put, Local
    <2> HIDE DEF e, after, u
    <2>5. /\ a \in Tokens /\ Says("string", a, {}, i, FALSE, next, labels, asked)
      <3>1. /\ a \in Tokens
            /\ Says("string", a, {}, i, FALSE, next, labels, printed \union Due(s))
        BY <1>2, <1>5, <1>8, <2>1, <2>2, <2>3, SaysWaiting
      <3> QED BY <1>5, <3>1
    <2>6. next \in Lasts \ {"label"}
      BY <2>1 DEF Lasts
    <2>7. Follows("string", next, FALSE, "newline")
      BY <2>6, MayComeNext
    <2>8. u.out = a \o N
      BY <1>8, <2>3, <2>4, Assoc
    <2> HIDE DEF next, a
    <2>9. Says("string", a \o N, {}, i, FALSE, "newline", labels, asked)
      BY <2>5, <2>7, SaysTok
    <2>10. Says(job.type, u.out, IF u.top > 0 THEN Due(u) ELSE {}, Total, FALSE, "newline",
                job.labels \intersect LookedUp, asked)
      <3>1. (IF u.top > 0 THEN Due(u) ELSE {}) = {}
        BY <1>6
      <3> QED BY <1>1, <1>3, <2>8, <2>9, <3>1
    <2>11. asked \union (IF job.type = "hex" /\ u.top = 0 /\ u.j > 0 THEN Due(u) ELSE {}) = asked
      BY <1>1
    <2> QED BY <1>1, <1>3, <1>6, <1>7, <2>10, <2>11, EndsSo
  <1>10. CASE s.j = 0
    <2>1. s.open = FALSE /\ last # "label" /\ s.pending = None
      <3>1. s.open = FALSE
        BY <1>2, <1>10 DEF OpenInLine, Local
      <3>2. i = 0 \/ i > 0
        BY <1>2
      <3>3. last # "label"
        BY <1>4, <1>5, <3>2 DEF Between
      <3>4. s.pending = None
        BY <1>1, <1>4, <1>5, <1>10 DEF Between
      <3> QED BY <3>1, <3>3, <3>4
    <2>2. Follows("string", last, FALSE, "newline")
      BY <1>5, <2>1, MayComeNext
    <2>3. Says("string", s.out \o N, {}, i, FALSE, "newline", labels, printed)
      BY <1>5, <2>1, <2>2, SaysTok
    <2>4. u.out = s.out \o N
      BY <1>2, <1>10 DEF StringEnd, Put, Local
    <2>5. Due(s) = {} /\ asked = printed
      BY <1>5, <2>1 DEF Due
    <2> HIDE DEF u
    <2>6. Says(job.type, u.out, IF u.top > 0 THEN Due(u) ELSE {}, Total, FALSE, "newline",
                job.labels \intersect LookedUp, asked)
      <3>1. (IF u.top > 0 THEN Due(u) ELSE {}) = {}
        BY <1>6
      <3> QED BY <1>1, <1>3, <2>3, <2>4, <2>5, <3>1
    <2>7. asked \union (IF job.type = "hex" /\ u.top = 0 /\ u.j > 0 THEN Due(u) ELSE {}) = asked
      BY <1>1
    <2> QED BY <1>1, <1>3, <1>6, <1>7, <2>6, <2>7, EndsSo
  <1>11. s.j > 0 \/ s.j = 0
    BY <1>5
  <1> QED BY <1>9, <1>10, <1>11

-----------------------------------------------------------------------------
(* Jump tables keep it.                                                    *)

\* The label of an entry of a jump table.
LEMMA JumpLabelSays ==
    ASSUME NEW s \in Local, Given, NEW labels, NEW asked,
           Proper(s, i, labels, asked), job.type = "jumptable", ~s.open,
           Between(s, i), i \notin labels
    PROVE  /\ JumpLabel(s) \in Local /\ ~JumpLabel(s).open
           /\ Proper(JumpLabel(s), i, IF HasLabel THEN labels \union {i} ELSE labels, asked)
  <1> DEFINE line == NewLine \o Mark("label", i)
             u == JumpLabel(s)
             p == Put(s, line)
             last == LastKind(s.out)
             printed == Ats(s.out, "comment")
  <1>1. i \in Nat /\ s.open = FALSE
    BY DEF Given, Local
  <1>2. /\ s.top = 0
        /\ Says("jumptable", s.out, {}, i, s.open, last, labels, printed)
        /\ asked = printed \union Due(s) /\ Fresh("jumptable", s, printed)
        /\ last \in Lasts /\ s.out \in Tokens
    BY <1>1, NothingWaits
  <1>3. CASE HasLabel
    <2>1. (i = 0 => last = "start") /\ last # "label"
      <3>1. i = 0 => last = "start"
        BY DEF Between
      <3>2. i > 0 => last # "label"
        BY <1>2 DEF Between
      <3>3. i = 0 \/ i > 0
        BY <1>1
      <3> QED BY <3>1, <3>2, <3>3
    <2>2. Says("jumptable", s.out \o line, {}, i, FALSE, "label", labels \union {i}, printed)
      BY <1>1, <1>2, <2>1, SaysLabelLine
    <2>3. p \in Local /\ p.out = s.out \o line /\ p.top = 0 /\ p.open = FALSE
          /\ p.pending = s.pending
      <3>1. line \in Tokens
        BY LabelType
      <3>2. p \in Local /\ p.top = s.top /\ p.open = s.open /\ p.pending = s.pending
        BY <3>1, PutType
      <3> QED BY <1>1, <1>2, <3>2, PutOut
    <2>4. u = [p EXCEPT !.j = 0]
      BY <1>3 DEF JumpLabel
    <2> HIDE DEF line, u, p
    <2>5. /\ u \in Local /\ u.out = s.out \o line /\ u.top = 0 /\ u.open = FALSE /\ u.j = 0
          /\ u.pending = s.pending
      BY <2>3, <2>4 DEF Local
    <2>6. Due(u) = Due(s) /\ Fresh("jumptable", u, printed)
      BY <1>2, <2>5 DEF Due, Fresh
    <2>7. Shape(u, "label") /\ i - u.top = i
      BY <1>1, <2>5 DEF Shape, Lasts
    <2>8. Proper(u, i, labels \union {i}, asked)
      BY <1>2, <2>2, <2>5, <2>6, <2>7, IsProper
    <2> QED BY <1>3, <2>5, <2>8 DEF u
  <1>4. CASE ~HasLabel
    <2>1. JumpLabel(s) = s
      BY <1>4 DEF JumpLabel
    <2> QED BY <1>4, <2>1
  <1> QED BY <1>3, <1>4

\* The comment of an entry of a jump table.
LEMMA JumpCommentSays ==
    ASSUME NEW s \in Local, Given, NEW labels, NEW asked,
           Proper(s, i, labels, asked), job.type = "jumptable", ~s.open,
           \A a \in asked : a < i /\ a \in Int
    PROVE  /\ JumpComment(s) \in Local /\ ~JumpComment(s).open
           /\ Proper(JumpComment(s), i, labels, IF HasComment THEN asked \union {i} ELSE asked)
  <1> DEFINE last == LastKind(s.out)
             printed == Ats(s.out, "comment")
             u == JumpComment(s)
             p == Put(s, Waiting(s))
             next == IF s.pending = None THEN last ELSE "comment"
  <1>1. i \in Nat /\ i \in Int /\ s.open = FALSE
    BY DEF Given, Local
  <1>2. /\ s.top = 0
        /\ Says("jumptable", s.out, {}, i, s.open, last, labels, printed)
        /\ asked = printed \union Due(s) /\ Fresh("jumptable", s, printed)
        /\ last \in Lasts /\ s.out \in Tokens
    BY <1>1, NothingWaits
  <1>3. \A d \in Due(s) : d < i
    BY Older
  <1>4. CASE HasComment
    <2>1. Says("jumptable", s.out \o Waiting(s), {}, i, FALSE, next, labels, asked)
      <3>1. Says("jumptable", s.out, {}, i, FALSE, last, labels, printed)
        BY <1>1, <1>2
      <3>2. Says("jumptable", s.out \o Waiting(s), {}, i, FALSE, next, labels,
                 printed \union Due(s))
        BY <1>1, <1>2, <1>3, <3>1, SaysWaiting
      <3> QED BY <1>2, <3>2
    <2>2. next \in Lasts
      BY <1>2 DEF Lasts
    <2>3. p \in Local /\ p.out = s.out \o Waiting(s) /\ p.top = 0 /\ p.open = FALSE
      <3>1. p \in Local /\ p.top = s.top /\ p.open = s.open
        BY WaitingType, PutType
      <3> QED BY <1>1, <1>2, <3>1, PutOut
    <2>4. u = [p EXCEPT !.pending = i, !.j = 0]
      BY <1>4 DEF JumpComment
    <2> HIDE DEF p, u, next
    <2>5. /\ u \in Local /\ u.out = s.out \o Waiting(s) /\ u.top = 0 /\ u.open = FALSE
          /\ u.j = 0 /\ u.pending = i
      BY <1>1, <2>3, <2>4 DEF Local
    <2>6. Due(u) = {i}
      BY <1>1, <2>5 DEF Due, None
    <2>7. Fresh("jumptable", u, asked)
      BY <1>1, <2>6 DEF Fresh
    <2>8. Shape(u, next) /\ i - u.top = i
      BY <1>1, <2>2, <2>5 DEF Shape
    <2>9. Proper(u, i, labels, asked \union {i})
      BY <2>1, <2>5, <2>6, <2>7, <2>8, IsProper
    <2> QED BY <1>4, <2>5, <2>9 DEF u
  <1>5. CASE ~HasComment
    <2>1. JumpComment(s) = s
      BY <1>5 DEF JumpComment
    <2> QED BY <1>5, <2>1
  <1> QED BY <1>4, <1>5

\* An entry of a jump table; its comment stays for the next line.
LEMMA JumpWordSays ==
    ASSUME NEW s \in Local, Given, NEW labels, NEW asked,
           Proper(s, i, labels, asked), job.type = "jumptable", ~s.open,
           \A a \in asked : a < i + 2
    PROVE  Proper(JumpWord(s), i + 2, labels, asked) /\ Between(JumpWord(s), i + 2)
  <1> DEFINE last == LastKind(s.out)
             printed == Ats(s.out, "comment")
             u == JumpWord(s)
             full == s.j + 1 = job.perLine
             entry == Tok(IF s.j = 0 THEN "directive" ELSE "sep") \o Bytes(i, 2)
             W == Waiting(s)
             p == Put(s, entry \o If(full, W))
             j == IF full THEN 0 ELSE s.j + 1
             a == s.out \o entry
             next == IF s.pending = None THEN "data" ELSE "comment"
  <1>1. i \in Nat /\ i \in Int /\ i + 2 \in Nat /\ i + 2 \in Int /\ 2 \in Int /\ s.open = FALSE
    BY DEF Given, Local
  <1>2. /\ s.top = 0
        /\ Says("jumptable", s.out, {}, i, s.open, last, labels, printed)
        /\ asked = printed \union Due(s) /\ Fresh("jumptable", s, printed)
        /\ last \in Lasts /\ s.out \in Tokens /\ s.j \in Nat
        /\ Shape(s, last)
    BY <1>1, NothingWaits
  <1>3. \A d \in Due(s) : d < i + 2
    BY Older
  <1>4. /\ entry \in Tokens /\ a \in Tokens
        /\ Says("jumptable", a, {}, i + 2, FALSE, "data", labels, printed)
    <2>1. Says("jumptable", s.out, {}, i, FALSE, last, labels, printed)
      BY <1>1, <1>2
    <2>2. s.j > 0 => last \in {"data", "quote"}
      BY <1>2 DEF Shape
    <2> QED BY <1>1, <1>2, <2>1, <2>2, SaysNext
  <1>5. W \in Tokens /\ <<>> \in Tokens
    BY WaitingType DEF Tokens
  <1>6. If(full, W) \in Tokens
    BY <1>5 DEF If
  <1>7. j \in Nat
    BY <1>2
  <1>8. u = [p EXCEPT !.j = j]
    BY DEF JumpWord, Put
  <1> HIDE DEF entry, W
  <1>9. /\ p \in Local /\ p.top = 0 /\ p.open = FALSE /\ p.pending = s.pending
        /\ p.out = s.out \o (entry \o If(full, W))
    <2> DEFINE x == entry \o If(full, W)
    <2>1. x \in Tokens
      BY <1>4, <1>6, Joined
    <2> HIDE DEF x
    <2>2. /\ Put(s, x) \in Local /\ Put(s, x).top = s.top /\ Put(s, x).open = s.open
          /\ Put(s, x).pending = s.pending /\ Put(s, x).out = s.out \o x
      BY <2>1, PutType, PutOut
    <2> QED BY <1>1, <1>2, <2>2 DEF x
  <1> HIDE DEF p
  <1>10. p.out = a \o If(full, W)
    <2> DEFINE x == If(full, W)
    <2>1. x \in Tokens
      BY <1>6
    <2> HIDE DEF x
    <2>2. s.out \o (entry \o x) = (s.out \o entry) \o x
      BY <1>2, <1>4, <2>1, Assoc
    <2> QED BY <1>9, <2>2 DEF x
  <1> HIDE DEF a, u
  <1>11. u.out = p.out /\ u.top = 0 /\ u.open = FALSE /\ u.pending = s.pending /\ u.j = j
    <2> HIDE DEF j
    <2> QED BY <1>7, <1>8, <1>9 DEF Local
  <1>12. Due(u) = Due(s) /\ Fresh("jumptable", u, printed) /\ Fresh("jumptable", u, asked)
    <2>1. Due(u) = Due(s)
      BY <1>11 DEF Due
    <2>2. \A d \in Due(s) : d \in Int
      BY DEF Due, Local
    <2> QED BY <1>2, <2>1, <2>2 DEF Fresh, Due
  <1>13. (i + 2) - u.top = i + 2
    BY <1>1, <1>11
  <1>14. CASE full
    <2>1. u.out = a \o W /\ u.j = 0
      BY <1>10, <1>11, <1>14 DEF If
    <2>2. Says("jumptable", a \o W, {}, i + 2, FALSE, next, labels, asked)
      <3>1. "data" \in Lasts
        BY DEF Lasts
      <3>2. Says("jumptable", a \o W, {}, i + 2, FALSE, next, labels, printed \union Due(s))
        BY <1>1, <1>2, <1>3, <1>4, <3>1, SaysWaiting DEF W
      <3> QED BY <1>2, <3>2
    <2>3. next \in {"data", "comment"}
      OBVIOUS
    <2> HIDE DEF next
    <2>4. Shape(u, next)
      BY <1>11, <2>1, <2>3 DEF Shape, Lasts
    <2>5. asked = asked \union Due(u)
      BY <1>2, <1>12
    <2>6. Proper(u, i + 2, labels, asked)
      BY <1>11, <1>12, <1>13, <2>1, <2>2, <2>4, <2>5, IsProper
    <2>7. LastKind(u.out) = next /\ Ats(u.out, "comment") = asked
      BY <2>1, <2>2, SaysWhat
    <2>8. u.pending # None => u.pending \in asked
      BY <2>5 DEF Due
    <2>9. Between(u, i + 2)
      BY <1>1, <2>3, <2>7, <2>8 DEF Between
    <2> QED BY <2>6, <2>9 DEF u
  <1>15. CASE ~full
    <2>1. u.out = a
      <3>1. If(full, W) = <<>> /\ a \o <<>> = a
        BY <1>4, <1>15, NoToken DEF If
      <3> QED BY <1>10, <1>11, <3>1
    <2>6. u.j > 0
      <3>1. j = s.j + 1
        BY <1>15
      <3> HIDE DEF j
      <3> QED BY <1>2, <1>11, <3>1
    <2>2. Shape(u, "data")
      BY <1>11 DEF Shape, Lasts
    <2>3. Proper(u, i + 2, labels, asked)
      BY <1>2, <1>4, <1>11, <1>12, <1>13, <2>1, <2>2, IsProper
    <2>4. LastKind(u.out) = "data"
      BY <1>4, <2>1, SaysWhat
    <2>5. Between(u, i + 2)
      <3>1. u.j # 0 /\ i + 2 > 0 /\ i + 2 # 0
        BY <1>1, <2>6
      <3> QED BY <2>4, <3>1 DEF Between
    <2> QED BY <2>3, <2>5 DEF u
  <1> QED BY <1>14, <1>15

\* An iteration of data_extract_jump_table.
LEMMA JumpGoes ==
    ASSUME LocalInv, Going, JumpStep
    PROVE  Going'
  <1> DEFINE r == JumpLabel(st)
             t == JumpComment(r)
             labels == LabelsBefore(i + 1)
             asked == AskedBefore(i + 1)
  <1>1. /\ job' = job /\ i' = i + 2 /\ st' = JumpWord(t) /\ job.type = "jumptable"
        /\ i < job.size
    BY DEF JumpStep, Loop
  <1>2. Given /\ st \in Local /\ ~st.open /\ i \in Nat /\ job.size \in Int
    BY <1>1, JobsAssumption DEF LocalInv, Given
  <1>3. i % 2 = 0
    BY <1>1 DEF Going
  <1>4. i \in LookedUp
    BY <1>1, <1>2, <1>3 DEF LookedUp
  <1>5. /\ Proper(st, i, LabelsBefore(i), AskedBefore(i)) /\ Between(st, i)
    BY DEF Going
  <1>6. /\ labels = IF HasLabel THEN LabelsBefore(i) \union {i} ELSE LabelsBefore(i)
        /\ asked = IF HasComment THEN AskedBefore(i) \union {i} ELSE AskedBefore(i)
        /\ i \notin LabelsBefore(i)
        /\ \A a \in AskedBefore(i) : a < i /\ a \in Int
        /\ \A a \in asked : a < i + 1 /\ a \in Int
    BY <1>2, <1>4, Lookup
  <1>7. labels = LabelsBefore(i + 2) /\ asked = AskedBefore(i + 2)
    <2>1. (i + 1) % 2 = 1
      BY <1>2, <1>3
    <2>2. \A m \in LookedUp : m \in Int /\ m # i + 1
      BY <1>1, <1>2, <2>1 DEF LookedUp
    <2>3. \A m \in LookedUp : m < i + 1 <=> m < i + 2
      BY <1>2, <2>2
    <2> QED BY <2>3 DEF LabelsBefore, AskedBefore, labels, asked
  <1> HIDE DEF labels, asked
  <1>8. r \in Local /\ ~r.open /\ Proper(r, i, labels, AskedBefore(i))
    BY <1>1, <1>2, <1>5, <1>6, JumpLabelSays
  <1> HIDE DEF r
  <1>9. t \in Local /\ ~t.open /\ Proper(t, i, labels, asked)
    BY <1>1, <1>2, <1>6, <1>8, JumpCommentSays
  <1> HIDE DEF t
  <1>10. \A a \in asked : a < i + 2
    BY <1>2, <1>6
  <1>11. Proper(st', i', labels, asked) /\ Between(st', i')
    BY <1>1, <1>2, <1>9, <1>10, JumpWordSays
  <1>12. i' <= Total /\ i' % 2 = 0
    <2> DEFINE n == job.size
    <2>1. n \in Nat /\ n > 0 /\ i < n /\ Total = n + (n % 2)
      BY <1>1, <1>2 DEF Total
    <2> HIDE DEF n
    <2>2. i + 2 <= n + (n % 2) /\ (i + 2) % 2 = 0
      BY <1>2, <1>3, <2>1
    <2> QED BY <1>1, <2>1, <2>2
  <1> QED BY <1>1, <1>7, <1>11, <1>12, GoesOn

\* The end of data_extract_jump_table.
LEMMA JumpEnds ==
    ASSUME LocalInv, Going, JumpLeave
    PROVE  Ended'
  <1> DEFINE s == st
             u == JumpEnd(s)
             last == LastKind(s.out)
             printed == Ats(s.out, "comment")
             labels == LabelsBefore(i)
             asked == AskedBefore(i)
             W == Waiting(s)
             next == IF s.pending = None THEN last ELSE "comment"
  <1>1. job' = job /\ st' = u /\ job.type = "jumptable" /\ i >= job.size
    BY DEF JumpLeave, Leave
  <1>2. Given /\ s \in Local /\ s.open = FALSE /\ i \in Nat /\ i \in Int
    BY <1>1 DEF LocalInv, Given
  <1>3. /\ i = Total /\ labels = job.labels \intersect LookedUp
        /\ asked = job.comments \intersect LookedUp
    BY <1>1, <1>2, AllRead DEF Going
  <1>4. Proper(s, i, labels, asked) /\ Between(s, i)
    BY DEF Going
  <1> HIDE DEF labels, asked, s
  <1>5. /\ s.top = 0
        /\ Says("jumptable", s.out, {}, i, s.open, last, labels, printed)
        /\ asked = printed \union Due(s) /\ Fresh("jumptable", s, printed)
        /\ last \in Lasts /\ s.j \in Nat /\ s.out \in Tokens
    BY <1>1, <1>2, <1>4, NothingWaits
  <1>6. Says("jumptable", s.out, {}, i, FALSE, last, labels, printed)
    BY <1>2, <1>5
  <1>7. u.top = 0 /\ u.pending = s.pending
    BY <1>2, <1>5, JumpEndType
  <1>8. Due(u) = Due(s) /\ Fresh("jumptable", u, asked \ Due(u))
    <2>1. Due(u) = Due(s)
      BY <1>7 DEF Due
    <2> QED BY <1>5, <2>1 DEF Fresh
  <1>9. \A d \in Due(s) : d < i
    <2>1. \A a \in asked : a < i
      BY DEF asked, AskedBefore
    <2> QED BY <1>5, <2>1
  <1>10. u.out = s.out \o If(s.j > 0, W)
    BY <1>2 DEF JumpEnd, Put, Local
  <1>11. \E l : Says("jumptable", u.out, {}, i, FALSE, l, labels, asked)
    <2> HIDE DEF u
    <2>1. CASE s.j > 0
      <3>1. If(s.j > 0, W) = W
        BY <2>1 DEF If
      <3>2. Says("jumptable", s.out \o W, {}, i, FALSE, next, labels, printed \union Due(s))
        BY <1>2, <1>5, <1>6, <1>9, SaysWaiting
      <3> HIDE DEF W, next
      <3>3. Says("jumptable", u.out, {}, i, FALSE, next, labels, asked)
        BY <1>5, <1>10, <3>1, <3>2
      <3> QED BY <3>3
    <2>2. CASE s.j = 0
      <3>1. If(s.j > 0, W) = <<>> /\ s.out \o <<>> = s.out
        BY <1>5, <2>2, NoToken DEF If
      <3>2. Due(s) \subseteq printed
        BY <1>4, <1>5, <2>2 DEF Between, Due
      <3>3. asked = printed
        BY <1>5, <3>2
      <3> HIDE DEF last, printed
      <3>4. Says("jumptable", u.out, {}, i, FALSE, last, labels, asked)
        BY <1>6, <1>10, <3>1, <3>3
      <3> QED BY <3>4
    <2>3. s.j > 0 \/ s.j = 0
      BY <1>5
    <2> QED BY <2>1, <2>2, <2>3
  <1>12. PICK l : Says("jumptable", u.out, {}, i, FALSE, l, labels, asked)
    BY <1>11
  <1> HIDE DEF u
  <1>13. Says(job.type, u.out, IF u.top > 0 THEN Due(u) ELSE {}, Total, FALSE, l,
              job.labels \intersect LookedUp, asked)
    <2>1. (IF u.top > 0 THEN Due(u) ELSE {}) = {}
      BY <1>7
    <2> QED BY <1>1, <1>3, <1>12, <2>1
  <1>14. asked \union (IF job.type = "hex" /\ u.top = 0 /\ u.j > 0 THEN Due(u) ELSE {}) = asked
    BY <1>1
  <1> QED BY <1>1, <1>3, <1>7, <1>8, <1>13, <1>14, EndsSo

-----------------------------------------------------------------------------
(* Raw bytes, and the invariant.                                           *)

\* An iteration of data_extract_binary.
LEMMA BinaryGoes ==
    ASSUME LocalInv, Going, BinaryStep
    PROVE  Going'
  <1> DEFINE printed == Ats(st.out, "comment")
             labels == LabelsBefore(i)
             asked == AskedBefore(i)
             u == Put(st, Bytes(i, 1))
  <1>1. /\ job' = job /\ i' = i + 1 /\ st' = u /\ job.type = "binary" /\ i < job.size
    BY DEF BinaryStep, Loop
  <1>2. Given /\ st \in Local /\ i \in Nat /\ i \in Int /\ 1 \in Int /\ job.size \in Int
        /\ st.open = FALSE
    BY <1>1, JobsAssumption DEF LocalInv, Given
  <1>3. LookedUp = {}
    BY <1>1 DEF LookedUp
  <1>4. labels = {} /\ asked = {} /\ LabelsBefore(i + 1) = {} /\ AskedBefore(i + 1) = {}
    BY <1>3 DEF LabelsBefore, AskedBefore
  <1>5. Proper(st, i, labels, asked)
    BY DEF Going
  <1> HIDE DEF labels, asked
  <1>6. /\ st.top = 0
        /\ Says("binary", st.out, {}, i, st.open, LastKind(st.out), labels, printed)
        /\ asked = printed \union Due(st) /\ st.out \in Tokens
    BY <1>1, <1>2, <1>5, NothingWaits
  <1>7. printed = {} /\ st.pending = None
    BY <1>4, <1>6 DEF Due
  <1>8. Bytes(i, 1) \in Tokens
    BY <1>2, BytesType
  <1>9. /\ u.top = 0 /\ u.open = FALSE /\ u.pending = None
        /\ u.out = st.out \o Bytes(i, 1)
    <2>1. u.top = st.top /\ u.open = st.open /\ u.pending = st.pending
      BY <1>2, <1>8, PutType
    <2>2. u.out = st.out \o Bytes(i, 1)
      BY <1>2, PutOut
    <2> HIDE DEF u
    <2> QED BY <1>2, <1>6, <1>7, <2>1, <2>2
  <1> HIDE DEF u, printed
  <1>10. Says("binary", u.out, {}, i + 1, FALSE, "data", {}, {})
    <2>1. Follows("binary", LastKind(st.out), FALSE, "data")
      BY DEF Follows
    <2>2. Says("binary", st.out, {}, i, FALSE, LastKind(st.out), {}, {})
      BY <1>2, <1>4, <1>6, <1>7
    <2>3. st.out \in Tokens /\ i \in Int /\ 1 \in Int
      BY <1>2, <1>6
    <2>4. Says("binary", st.out \o Bytes(i, 1), {}, i + 1, FALSE, "data", {}, {})
      BY <2>1, <2>2, <2>3, SaysBytes
    <2> QED BY <1>9, <2>4
  <1>11. Proper(u, i + 1, {}, {})
    <2>1. (i + 1) - u.top = i + 1
      BY <1>2, <1>9
    <2>2. Due(u) = {} /\ Fresh("binary", u, {})
      BY <1>9 DEF Due, Fresh
    <2>3. Shape(u, "data")
      BY <1>9 DEF Shape, Lasts
    <2>4. {} = {} \union Due(u)
      BY <2>2
    <2>5. Says(job.type, u.out, {}, (i + 1) - u.top, u.open, "data", {}, {})
      BY <1>1, <1>9, <1>10, <2>1
    <2>6. Fresh(job.type, u, {}) /\ u.top = 0
      BY <1>1, <1>9, <2>2
    <2> QED BY <2>3, <2>4, <2>5, <2>6, IsProper
  <1>12. Between(u, i + 1)
    <2>1. LastKind(u.out) = "data"
      BY <1>10, SaysWhat
    <2>2. i + 1 # 0
      BY <1>2
    <2> QED BY <1>9, <2>1, <2>2 DEF Between
  <1>13. i' <= Total
    BY <1>1, <1>2 DEF Total
  <1>14. Proper(st', i', LabelsBefore(i'), AskedBefore(i')) /\ Between(st', i')
    BY <1>1, <1>4, <1>11, <1>12
  <1> QED BY <1>1, <1>13, <1>14, GoesOn

\* The end of data_extract_binary.
LEMMA BinaryEnds ==
    ASSUME LocalInv, Going, BinaryEnd
    PROVE  Ended'
  <1> DEFINE printed == Ats(st.out, "comment")
             last == LastKind(st.out)
             labels == LabelsBefore(i)
             asked == AskedBefore(i)
  <1>1. job' = job /\ st' = st /\ job.type = "binary" /\ i >= job.size
    BY DEF BinaryEnd, Leave
  <1>2. Given /\ st \in Local /\ i \in Nat /\ st.open = FALSE
    BY <1>1 DEF LocalInv, Given
  <1>3. /\ i = Total /\ labels = job.labels \intersect LookedUp
        /\ asked = job.comments \intersect LookedUp
    BY <1>1, <1>2, AllRead DEF Going
  <1>4. asked = {}
    BY <1>1 DEF asked, AskedBefore, LookedUp
  <1>5. Proper(st, i, labels, asked)
    BY DEF Going
  <1> HIDE DEF labels, asked
  <1>6. /\ st.top = 0
        /\ Says("binary", st.out, {}, i, st.open, last, labels, printed)
        /\ asked = printed \union Due(st)
    BY <1>1, <1>2, <1>5, NothingWaits
  <1> HIDE DEF printed, last
  <1>7. printed = {} /\ Due(st) = {}
    BY <1>4, <1>6
  <1>8. st'.top = 0 /\ Due(st') = {} /\ Fresh(job.type, st', printed \ Due(st'))
    BY <1>1, <1>6, <1>7 DEF Fresh
  <1>9. Says(job.type, st'.out, IF st'.top > 0 THEN Due(st') ELSE {}, Total, FALSE,
             last, job.labels \intersect LookedUp, printed)
    <2>1. (IF st'.top > 0 THEN Due(st') ELSE {}) = {}
      BY <1>8
    <2> QED BY <1>1, <1>2, <1>3, <1>6, <2>1
  <1>10. printed \union (IF job.type = "hex" /\ st'.top = 0 /\ st'.j > 0
                         THEN Due(st') ELSE {}) = printed
    BY <1>1
  <1> QED BY <1>1, <1>3, <1>4, <1>7, <1>8, <1>9, <1>10, EndsSo

\* Before the first byte.
LEMMA GoingAtFirst ==
    ASSUME Init
    PROVE  Going
  <1>1. st = Start /\ i = 0 /\ job \in Jobs
    BY DEF Init
  <1>2. /\ st.out = <<>> /\ st.top = 0 /\ st.open = FALSE /\ st.j = 0
        /\ st.pending = None
    BY <1>1 DEF Start
  <1>3. \A kind : Positions(<<>>, kind) = {}
    BY DEF Positions
  <1>4. LastKind(<<>>) = "start" /\ \A kind : Ats(<<>>, kind) = {}
    BY <1>3 DEF LastKind, Ats
  <1>5. Says(job.type, <<>>, {}, 0, FALSE, "start", {}, {})
    <2>1. Contiguous(<<>>) /\ LabelsAt(<<>>) /\ CommentsAt(<<>>, job.type # "jumptable", {})
      BY <1>3 DEF Contiguous, LabelsAt, CommentsAt
    <2>2. Chained(<<>>)
      BY DEF Chained
    <2>3. Shown(<<>>) = 0
      BY <1>3 DEF Shown, ShownBefore
    <2>4. OpenAfter(<<>>, Len(<<>>)) = FALSE
      <3>1. {q \in Positions(<<>>, "quote") : q <= Len(<<>>)} = {}
        BY <1>3
      <3>2. Cardinality({}) = 0
        BY FS_EmptySet
      <3>3. ~(0 % 2 = 1)
        OBVIOUS
      <3> QED BY <3>1, <3>2, <3>3 DEF OpenAfter
    <2> QED BY <1>4, <2>1, <2>2, <2>3, <2>4 DEF Says
  <1>6. LabelsBefore(i) = {} /\ AskedBefore(i) = {}
    <2>1. \A m \in LookedUp : ~(m < i)
      BY <1>1 DEF LookedUp
    <2> QED BY <2>1 DEF LabelsBefore, AskedBefore
  <1>7. Proper(st, i, {}, {})
    <2>1. i - st.top = 0
      BY <1>1, <1>2
    <2>2. {} = {} \union Due(st) /\ Fresh(job.type, st, {})
      BY <1>2 DEF Due, Fresh
    <2>3. Shape(st, "start")
      BY <1>2 DEF Shape, Lasts
    <2>4. Says(job.type, st.out, {}, i - st.top, st.open, "start", {}, {})
      BY <1>2, <1>5, <2>1
    <2> QED BY <1>2, <2>2, <2>3, <2>4, IsProper
  <1>8. Between(st, i)
    BY <1>1, <1>2, <1>4 DEF Between
  <1>9. i <= Total /\ i % 2 = 0
    <2>1. job.size \in Int /\ 0 % 2 = 0
      BY <1>1, JobsAssumption
    <2> DEFINE n == job.size
    <2>2. n \in Int
      BY <2>1
    <2>3. n > 0 => n % 2 >= 0
      <3> HIDE DEF n
      <3> QED BY <2>2
    <2> QED BY <1>1, <2>1, <2>3 DEF Total
  <1> QED BY <1>6, <1>7, <1>8, <1>9 DEF Going

\* No label, comment, delimiter or line length breaks what the output says.
LEMMA ListInvariant == Spec => []ListInv
  <1>1. Init => ListInv
    BY GoingAtFirst DEF Init, ListInv
  <1>2. LocalInv /\ ListInv /\ [Next]_vars => ListInv'
    <2> SUFFICES ASSUME LocalInv, ListInv, [Next]_vars PROVE ListInv'
      OBVIOUS
    <2>1. pc = "run" => Going
      BY DEF ListInv
    <2>2. pc = "run" /\ pc' \in {"run", "dead"} /\ Going' => ListInv'
      BY DEF ListInv
    <2>3. Ended' /\ pc' = "done" => ListInv'
      BY DEF ListInv
    <2>4. CASE Refuse
      <3>1. pc = "run" /\ pc' = "refused" /\ job' = job /\ i' = i /\ st' = st
        BY <2>4 DEF Refuse
      <3>2. Going'
        BY <2>1, <3>1, GoesOn DEF Going
      <3> QED BY <3>1, <3>2 DEF ListInv
    <2>5. CASE BinaryStep
      BY <2>1, <2>2, <2>5, BinaryGoes DEF BinaryStep, Loop
    <2>6. CASE BinaryEnd
      BY <2>1, <2>3, <2>6, BinaryEnds DEF BinaryEnd, Leave
    <2>7. CASE HexStep
      <3>1. pc = "run" /\ pc' \in {"run", "dead"}
        BY <2>7 DEF HexStep, Loop
      <3> QED BY <2>1, <2>2, <2>7, <3>1, HexGoes
    <2>8. CASE HexLeave
      BY <2>1, <2>3, <2>8, HexEnds DEF HexLeave, Leave
    <2>9. CASE StringStep
      <3>1. pc = "run" /\ pc' \in {"run", "dead"}
        BY <2>9 DEF StringStep, Loop
      <3> QED BY <2>1, <2>2, <2>9, <3>1, StringGoes
    <2>10. CASE StringLeave
      BY <2>1, <2>3, <2>10, StringEnds DEF StringLeave, Leave
    <2>11. CASE JumpStep
      <3>1. pc = "run" /\ pc' \in {"run", "dead"}
        BY <2>11 DEF JumpStep, Loop
      <3> QED BY <2>1, <2>2, <2>11, <3>1, JumpGoes
    <2>12. CASE JumpLeave
      BY <2>1, <2>3, <2>12, JumpEnds DEF JumpLeave, Leave
    <2>13. CASE UNCHANGED vars
      <3>1. job' = job /\ pc' = pc /\ i' = i /\ st' = st
        BY <2>13 DEF vars
      <3>2. CASE pc = "done"
        <4>1. LookedUp' = LookedUp /\ Total' = Total
          BY <3>1 DEF LookedUp, Total
        <4>2. Ended
          BY <3>2 DEF ListInv
        <4>3. Ended'
          BY <3>1, <4>1, <4>2 DEF Ended
        <4> QED BY <3>1, <3>2, <4>3 DEF ListInv
      <3>3. CASE pc # "done"
        <4>1. Going
          BY <3>3 DEF ListInv
        <4>2. Going'
          BY <3>1, <4>1, GoesOn DEF Going
        <4> QED BY <3>1, <3>3, <4>2 DEF ListInv
      <3> QED BY <3>2, <3>3
    <2> QED BY <2>4, <2>5, <2>6, <2>7, <2>8, <2>9, <2>10, <2>11, <2>12, <2>13 DEF Next
  <1> QED BY <1>1, <1>2, LocalInvariant, PTL DEF Spec

-----------------------------------------------------------------------------
(* The labels, the comments and the form of the output.                    *)

\* What the properties need to know of an output, going or ended.
LEMMA ListsWell ==
    ASSUME LocalInv, ListInv
    PROVE  /\ Contiguous(st.out) /\ LabelsAt(st.out)
           /\ job.type # "binary" => Chained(st.out)
           /\ Shown(st.out) = IF pc = "done" THEN Total ELSE i - st.top
           /\ pc = "done" => ~OpenAfter(st.out, Len(st.out))
  BY DEF ListInv, Going, Ended, Proper, Says

\* A label is printed where its byte comes next, also when bytes before it
\* wait for the rest of their element, and at the end every label of the
\* section has been printed once.
THEOREM LabelsInPlaceCorrect == Spec => []LabelsInPlace
  <1>1. LocalInv /\ ListInv => LabelsInPlace
    <2> SUFFICES ASSUME LocalInv, ListInv PROVE LabelsInPlace
      OBVIOUS
    <2>1. LabelsAt(st.out)
      BY ListsWell
    <2>2. pc = "done" => Ats(st.out, "label") = job.labels \intersect LookedUp
      BY DEF ListInv, Ended, Says
    <2>3. ASSUME pc = "done", NEW n \in job.labels \intersect LookedUp
          PROVE  \E p \in Positions(st.out, "label") :
                     /\ st.out[p].at = n
                     /\ \A q \in Positions(st.out, "label") : st.out[q].at = n => q = p
      <3>1. PICK p \in Positions(st.out, "label") : st.out[p].at = n
        BY <2>2, <2>3 DEF Ats
      <3>2. \A q \in Positions(st.out, "label") : st.out[q].at = n => q = p
        BY <2>1, <3>1 DEF LabelsAt
      <3> QED BY <3>1, <3>2
    <2> QED BY <2>1, <2>3 DEF LabelsInPlace, LabelsAt
  <1> QED BY <1>1, LocalInvariant, ListInvariant, PTL

\* A comment is printed after its byte, the comments come out in order, and at
\* the end none is missing but the one that waits when hexadecimal data ends
\* within a line; only a jump table prints one twice.  (The comment that waits
\* when hexadecimal data ends within an element comes before its last bytes.)
THEOREM CommentsKeptCorrect == Spec => []CommentsKept
  <1> DEFINE printed == Ats(st.out, "comment")
             asked == job.comments \intersect LookedUp
             early == IF pc = "done" /\ st.top > 0 THEN Due(st) ELSE {}
  <1>1. LocalInv /\ ListInv => CommentsKept
    <2> SUFFICES ASSUME LocalInv, ListInv PROVE CommentsKept
      OBVIOUS
    <2>1. st.top \in Nat /\ st.pending \in Int
      BY DEF LocalInv, Local
    <2>2. CommentsAt(st.out, job.type # "jumptable", early)
      <3>1. CASE pc = "done"
        BY <3>1 DEF ListInv, Ended, Says
      <3>2. CASE pc # "done"
        BY <3>2 DEF ListInv, Going, Proper, Says
      <3> QED BY <3>1, <3>2
    <2>3. \A a \in early : pc = "done" /\ job.type = "hex" /\ st.top > 0 /\ a = st.pending
      <3> SUFFICES ASSUME NEW a \in early
                   PROVE  pc = "done" /\ job.type = "hex" /\ st.top > 0 /\ a = st.pending
        OBVIOUS
      <3>1. pc = "done" /\ st.top > 0 /\ a \in Due(st)
        OBVIOUS
      <3>2. st.top # 0 => job.type = "hex"
        BY <3>1 DEF ListInv, Ended
      <3>3. st.top # 0
        BY <2>1, <3>1
      <3> QED BY <3>1, <3>2, <3>3 DEF Due
    <2> HIDE DEF early
    <2>4. AfterBytes
      BY <2>2, <2>3 DEF AfterBytes, CommentsAt
    <2>5. \A p, q \in Positions(st.out, "comment") :
              /\ p < q => st.out[p].at <= st.out[q].at
              /\ job.type # "jumptable" /\ p # q => st.out[p].at # st.out[q].at
      BY <2>2 DEF CommentsAt
    <2>6. printed \subseteq asked
      <3>1. CASE pc = "done"
        BY <3>1 DEF ListInv, Ended
      <3>2. CASE pc # "done"
        BY <3>2 DEF ListInv, Going, Proper, AskedBefore
      <3> QED BY <3>1, <3>2
    <2>7. ASSUME pc = "done", NEW n \in asked \ printed
          PROVE  /\ job.type = "hex" /\ st.top = 0 /\ st.j > 0
                 /\ \A m \in asked : m <= n
      <3>1. /\ asked = printed \union IF job.type = "hex" /\ st.top = 0 /\ st.j > 0
                                      THEN Due(st) ELSE {}
            /\ Fresh(job.type, st, printed \ Due(st))
        BY <2>7 DEF ListInv, Ended
      <3> HIDE DEF printed, asked
      <3>2. job.type = "hex" /\ st.top = 0 /\ st.j > 0 /\ n \in Due(st)
        BY <3>1
      <3>3. Due(st) = {n} /\ n \in Int
        BY <2>1, <3>2 DEF Due
      <3>4. \A m \in asked : m = n \/ m \in printed \ Due(st)
        BY <3>1, <3>2, <3>3
      <3>5. \A m \in asked : m <= n
        BY <3>1, <3>3, <3>4 DEF Fresh
      <3> QED BY <3>2, <3>5
    <2>8. Kept
      <3>1. printed = {st.out[p].at : p \in Positions(st.out, "comment")}
        BY DEF Ats
      <3> HIDE DEF printed
      <3> QED BY <2>5, <2>6, <2>7, <3>1 DEF Kept
    <2> QED BY <2>4, <2>8 DEF CommentsKept
  <1> QED BY <1>1, LocalInvariant, ListInvariant, PTL

\* The output of every extraction can be assembled as far as it has come: a
\* value follows a directive or a comma, a label starts a line, no line ends
\* inside a string, and none is open at the end.
THEOREM WellFormedCorrect == Spec => []WellFormed
  <1>1. LocalInv /\ ListInv => WellFormed
    BY ListsWell DEF WellFormed
  <1> QED BY <1>1, LocalInvariant, ListInvariant, PTL

-----------------------------------------------------------------------------
(* The listing.                                                            *)

\* A byte or a word is read, and no more of it waits in the buffer.
LEMMA Advances ==
    ASSUME LocalInv, Going, HexStep \/ StringStep \/ JumpStep \/ BinaryStep, Going', LocalInv'
    PROVE  i - st.top <= i' - st'.top /\ pc = "run" /\ pc' \in {"run", "dead"} /\ job' = job
  <1>1. Given /\ st \in Local /\ st.top \in Nat /\ i \in Nat
    BY DEF LocalInv, Given
  <1>2. st'.top \in Nat /\ i' \in Nat
    BY DEF LocalInv
  <1>3. CASE HexStep
    <2> DEFINE t == HexComment(HexLabel(st))
    <2>1. /\ job' = job /\ pc = "run" /\ pc' \in {"run", "dead"} /\ i' = i + 1
          /\ st' = HexByte(t)
      BY <1>3 DEF HexStep, Loop
    <2>2. t.top \in {st.top, 0} /\ (st'.top = 0 \/ st'.top = t.top + 1)
      BY <1>1, <2>1, HexStepType
    <2> HIDE DEF t
    <2> QED BY <1>1, <1>2, <2>1, <2>2
  <1>4. CASE StringStep \/ JumpStep \/ BinaryStep
    <2>1. /\ job' = job /\ pc = "run" /\ pc' \in {"run", "dead"} /\ job.type # "hex"
          /\ i' = i + 1 \/ i' = i + 2
      BY <1>4 DEF StringStep, JumpStep, BinaryStep, Loop
    <2>2. st.top = 0 /\ st'.top = 0
      BY <2>1 DEF Going, Proper
    <2>3. ASSUME NEW m \in Nat, NEW n \in Nat, NEW a, NEW b, m <= n, a = 0, b = 0
          PROVE  m - a <= n - b
      BY <2>3
    <2>4. i - st.top <= i' - st'.top
      <3>1. i \in Nat /\ i' \in Nat
        BY <1>1, <1>2
      <3>2. i <= i'
        BY <3>1, <2>1
      <3> QED BY <2>2, <2>3, <3>1, <3>2
    <2> QED BY <2>1, <2>4
  <1> QED BY <1>3, <1>4

\* An iteration lists what it lets out of the buffer, if anything; the end of
\* the loop lists what is left there.
LEMMA StepLists ==
    ASSUME LocalInv, ListInv, LocalInv', ListInv', [Next]_vars
    PROVE  [L!Next]_(L!vars)
  <1> DEFINE bar == IF Contiguous(st.out) THEN Shown(st.out) ELSE -1
             ended == pc \in {"done", "refused"}
  <1>1. bar = IF pc = "done" THEN Total ELSE i - st.top
    BY ListsWell
  <1>2. bar' = IF pc' = "done" THEN Total' ELSE i' - st'.top
    <2>1. Contiguous(st.out)'
      BY DEF ListInv, Going, Ended, Proper, Says
    <2>2. Shown(st.out)' = IF pc' = "done" THEN Total' ELSE i' - st'.top
      BY DEF ListInv, Going, Ended, Proper, Says
    <2> QED BY <2>1, <2>2
  <1>3. /\ i \in Nat /\ st.top \in Nat /\ st.top <= i
        /\ i' \in Nat /\ st'.top \in Nat /\ job \in Jobs
    BY DEF LocalInv, Local
  <1>4. Total \in Int
    BY <1>3, JobsAssumption DEF Total
  <1>5. job' = job => Total' = Total
    BY DEF Total
  <1> HIDE DEF bar
  <1>6. ASSUME HexStep \/ StringStep \/ JumpStep \/ BinaryStep
        PROVE  L!Show \/ UNCHANGED <<Total, bar, ended>>
    <2>1. pc = "run" /\ pc' \in {"run", "dead"} /\ Going /\ Going' /\ job' = job
          /\ i - st.top <= i' - st'.top
      <3>1. pc = "run" /\ pc' \in {"run", "dead"}
        BY <1>6 DEF HexStep, StringStep, JumpStep, BinaryStep, Loop
      <3>2. Going /\ Going'
        BY <3>1 DEF ListInv
      <3> QED BY <1>6, <3>2, Advances
    <2>2. bar = i - st.top /\ bar' = i' - st'.top /\ Total' = Total /\ i' <= Total
      BY <1>1, <1>2, <1>5, <2>1 DEF Going
    <2>3. ~ended /\ ~ended'
      BY <2>1
    <2>4. bar \in Int /\ bar' \in Int /\ bar <= bar' /\ bar' <= Total
      BY <1>3, <1>4, <2>1, <2>2
    <2>5. bar' = bar \/ bar' \in (bar + 1)..Total
      BY <1>4, <2>4
    <2> QED BY <2>2, <2>3, <2>5 DEF L!Show, bar
  <1>7. ASSUME HexLeave \/ StringLeave \/ JumpLeave \/ BinaryEnd
        PROVE  L!End
    <2>1. pc = "run" /\ pc' = "done" /\ job' = job
      BY <1>7 DEF HexLeave, StringLeave, JumpLeave, BinaryEnd, Leave
    <2>2. bar' = Total /\ Total' = Total
      BY <1>2, <1>5, <2>1
    <2> QED BY <2>1, <2>2 DEF L!End, bar
  <1>8. ASSUME Refuse PROVE L!End
    <2>1. pc = "run" /\ pc' = "refused" /\ job' = job /\ i' = i /\ st' = st
          /\ Total = 0
      BY <1>8 DEF Refuse, Total
    <2>2. i <= Total
      BY <2>1 DEF ListInv, Going
    <2>3. bar' = i - st.top /\ i = 0
      BY <1>2, <1>3, <2>1, <2>2
    <2>4. bar' = Total
      BY <1>3, <2>1, <2>3
    <2>5. Total' = Total
      BY <1>5, <2>1
    <2> QED BY <2>1, <2>4, <2>5 DEF L!End, bar
  <1>9. ASSUME UNCHANGED vars PROVE UNCHANGED <<Total, bar, ended>>
    <2>1. st' = st /\ pc' = pc /\ job' = job
      BY <1>9 DEF vars
    <2> QED BY <1>5, <2>1 DEF bar
  <1> QED BY <1>6, <1>7, <1>8, <1>9 DEF Next, L!Next, L!vars, bar

\* Whatever labels, comments, delimiters and line lengths do to the lines,
\* and wherever an incomplete element is cut, data_extract lists the bytes of
\* the section in order, each once, and all of them when it ends.
THEOREM ListingRefined == Spec => L!Spec
  <1>1. Init => L!Init
    <2> SUFFICES ASSUME Init PROVE L!Init
      OBVIOUS
    <2>1. Going /\ i = 0 /\ st.top = 0 /\ job \in Jobs /\ pc = "run"
      BY GoingAtFirst DEF Init, Start
    <2>2. Contiguous(st.out) /\ Shown(st.out) = 0
      BY <2>1 DEF Going, Proper, Says
    <2>3. Total \in Nat
      <3>1. 0 <= Total
        BY <2>1 DEF Going
      <3>2. job.size \in Int
        BY <2>1, JobsAssumption
      <3>3. Total \in Int
        BY <3>2 DEF Total
      <3> QED BY <3>1, <3>3
    <2> QED BY <2>1, <2>2, <2>3 DEF L!Init
  <1>2. LocalInv /\ ListInv /\ LocalInv' /\ ListInv' /\ [Next]_vars => [L!Next]_(L!vars)
    BY StepLists
  <1> QED BY <1>1, <1>2, LocalInvariant, ListInvariant, PTL DEF Spec, L!Spec

-----------------------------------------------------------------------------
(* The end of the loops.                                                   *)

\* What is left of an extraction: the bytes, and the end of the loop.
LeftToDo == IF pc = "run" THEN Total - i + 1 ELSE 0

\* Every step of data_extract brings it nearer to its end, by a natural
\* number: no loop runs on, and none takes more iterations than it has bytes
\* to list.
THEOREM ExtractionAdvances ==
    Spec => [][/\ LeftToDo \in Nat /\ LeftToDo' \in Nat
               /\ LeftToDo' < LeftToDo]_vars
  <1>1. LocalInv /\ ListInv /\ LocalInv' /\ ListInv' /\ [Next]_vars =>
            [/\ LeftToDo \in Nat /\ LeftToDo' \in Nat
             /\ LeftToDo' < LeftToDo]_vars
    <2> SUFFICES ASSUME LocalInv, ListInv, LocalInv', ListInv', Next
                 PROVE  LeftToDo \in Nat /\ LeftToDo' \in Nat /\ LeftToDo' < LeftToDo
      OBVIOUS
    <2>1. pc = "run" /\ job' = job /\ i \in Nat /\ i' \in Nat
      BY DEF LocalInv, Next, Refuse, BinaryStep, BinaryEnd, HexStep, HexLeave, StringStep,
             StringLeave, JumpStep, JumpLeave, Loop, Leave
    <2>2. Total \in Int /\ Total' = Total /\ i <= Total
      <3>1. job.size \in Int
        BY JobsAssumption DEF LocalInv
      <3>2. i <= Total
        BY <2>1 DEF ListInv, Going
      <3> QED BY <2>1, <3>1, <3>2 DEF Total
    <2>3. CASE pc' # "run"
      <3>1. LeftToDo = Total - i + 1 /\ LeftToDo' = 0
        BY <2>1, <2>3 DEF LeftToDo
      <3> QED BY <2>1, <2>2, <3>1
    <2>4. CASE pc' = "run"
      <3>1. i' = i + 1 \/ i' = i + 2
        BY <2>1, <2>4 DEF Next, Refuse, BinaryStep, BinaryEnd, HexStep, HexLeave, StringStep,
             StringLeave, JumpStep, JumpLeave, Loop, Leave
      <3>2. i' <= Total
        BY <2>2, <2>4 DEF ListInv, Going
      <3>3. LeftToDo = Total - i + 1 /\ LeftToDo' = Total - i' + 1
        BY <2>1, <2>2, <2>4 DEF LeftToDo
      <3>4. i < i'
        BY <2>1, <3>1
      <3>5. ASSUME NEW a \in Nat, NEW b \in Nat, NEW c \in Int, a < b, b <= c
            PROVE  c - a + 1 \in Nat /\ c - b + 1 \in Nat /\ c - b + 1 < c - a + 1
        BY <3>5
      <3>6. i' \in Nat /\ Total \in Int /\ i \in Nat
        BY <2>1, <2>2
      <3> QED BY <3>2, <3>3, <3>4, <3>5, <3>6
    <2> QED BY <2>3, <2>4
  <1> QED BY <1>1, LocalInvariant, ListInvariant, PTL DEF Spec

=============================================================================
