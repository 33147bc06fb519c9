------------------------------- MODULE Listing -------------------------------
(***************************************************************************)
(* What the extraction of a data section promises: the bytes of the        *)
(* section come out in order, each of them once, and the extraction ends   *)
(* when they have all come out.                                            *)
(***************************************************************************)
EXTENDS Integers

VARIABLES
    total,   \* bytes to list
    shown,   \* bytes listed so far: those numbered 0 .. shown-1
    ended

vars == <<total, shown, ended>>

Init == total \in Nat /\ shown = 0 /\ ended = FALSE

\* Bytes may be held back, and several come out at once.
Show ==
    /\ ~ended
    /\ shown' \in (shown + 1)..total
    /\ UNCHANGED <<total, ended>>

\* The last bytes may come out with the end of the listing.
End ==
    /\ ~ended
    /\ ended' = TRUE
    /\ shown' = total
    /\ UNCHANGED total

Next == Show \/ End

Spec == Init /\ [][Next]_vars

FairSpec == Spec /\ WF_vars(End)
=============================================================================
