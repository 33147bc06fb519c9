----------------------------- MODULE AddressMap -----------------------------
(***************************************************************************)
(* What a repository of labels or of comments promises: a set of texts,    *)
(* at most one for each address of each memory page.  A label has a note   *)
(* (its description) beside its text (its name); a comment has none.       *)
(***************************************************************************)
EXTENDS Integers

CONSTANTS
    Pages,      \* memory pages
    Logicals,   \* logical addresses with a text
    Bounds,     \* bounds of ranges of logical addresses
    Texts,      \* names, descriptions and comments
    NoText      \* what a missing text is

Entry == [page : Pages, logical : Logicals, text : Texts \union {NoText},
          note : Texts \union {NoText}]

VARIABLE entries

Init == entries = {}

SameAddress(e, f) == e.page = f.page /\ e.logical = f.logical

\* A text for an address that has none.
Put ==
    \E e \in Entry :
        /\ \A f \in entries : ~SameAddress(e, f)
        /\ entries' = entries \union {e}

\* A note for an entry that has none; the text of an entry never changes.
Annotate ==
    \E e \in entries, d \in Texts :
        /\ e.note = NoText
        /\ entries' = (entries \ {e}) \union {[e EXCEPT !.note = d]}

Within(e, first, end, page) ==
    e.page = page /\ e.logical >= first /\ e.logical < end

\* Everything in a range of addresses of a page goes, and nothing else.
Delete ==
    \E first, end \in Bounds, page \in Pages :
        entries' = {e \in entries : ~Within(e, first, end, page)}

Clear == entries' = {}

Next == Put \/ Annotate \/ Delete \/ Clear

Spec == Init /\ [][Next]_entries

\* No address has two texts.
Functional == \A e, f \in entries : SameAddress(e, f) => e = f
=============================================================================
