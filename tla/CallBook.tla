------------------------------- MODULE CallBook -------------------------------
(***************************************************************************)
(* What the generation of call logs promises, without its transactions:    *)
(* a book of calls, each the set of the CELs it was made from.  A call is  *)
(* entered whole and once it is over; entries never overlap.  Entries may  *)
(* be struck out, to be made anew or for good.                             *)
(***************************************************************************)
EXTENDS CelCorrelation

CONSTANT Cel

VARIABLES
    cels,       \* the CELs written
    book        \* the calls recorded

vars == <<cels, book>>

Init ==
    /\ cels = {}
    /\ book = {}

Write(c) ==
    /\ c \in Cel \ cels
    /\ cels' = cels \cup {c}
    /\ UNCHANGED book

(* The call is made of whole linkedids, all ended.                         *)
Over(call) ==
    /\ call = OfLinkedIds(cels, LinkedIds(call))
    /\ Terminated(call)

Enter(calls) ==
    /\ calls # {}
    /\ \A call \in calls : call # {} /\ Over(call)
    /\ \A call \in calls : \A other \in (book \cup calls) \ {call} : call \cap other = {}
    /\ book' = book \cup calls
    /\ UNCHANGED cels

StrikeOut(calls) ==
    /\ calls # {}
    /\ book' = book \ calls
    /\ UNCHANGED cels

Next ==
    \/ \E c \in Cel : Write(c)
    \/ Enter(book' \ book)
    \/ StrikeOut(book \ book')

Spec == Init /\ [][Next]_vars
=============================================================================
