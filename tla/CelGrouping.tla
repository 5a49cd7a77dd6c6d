----------------------------- MODULE CelGrouping -----------------------------
(***************************************************************************)
(* The loop of _group_cels_by_shared_channels, one step per linkedid.      *)
(* The rows to group are chosen in the initial state; the loop visits      *)
(* their linkedids in ascending order.                                     *)
(***************************************************************************)
EXTENDS CelCorrelation

CONSTANT CelRow      \* the rows a query may return

ASSUME CelRowAssumption ==
    \A c \in CelRow : /\ {"linkedid", "uniqueid"} \subseteq DOMAIN c
                      /\ c.linkedid \in Nat

VARIABLES
    cels,            \* the rows passed to the function
    pending,         \* linkedids the loop has not reached
    groups           \* correlation_groups

vars == <<cels, pending, groups>>

Init ==
    /\ cels \in SUBSET CelRow
    /\ pending = LinkedIds(cels)
    /\ groups = <<>>

NextInOrder == CHOOSE l \in pending : \A m \in pending : l <= m

Absorb ==
    /\ pending # {}
    /\ groups' = AbsorbSequence(cels, groups, NextInOrder)
    /\ pending' = pending \ {NextInOrder}
    /\ UNCHANGED cels

Next == Absorb

Spec == Init /\ [][Next]_vars

-----------------------------------------------------------------------------
Group == [linkedids : SUBSET LinkedIds(CelRow), uniqueids : SUBSET Channels(CelRow)]

(* The groups are a list of sets of linkedids with the channels seen in    *)
(* them.                                                                   *)
TypeOK ==
    /\ cels \subseteq CelRow
    /\ pending \subseteq LinkedIds(cels)
    /\ groups \in Seq(Group)

(* No two unrelated calls are ever merged into one call log: the linkedids *)
(* of a group hang together by shared channels, however many linkedids     *)
(* were absorbed on the way (generator.py:185-193).                        *)
NoUnrelatedCallsMerged ==
    \A i \in DOMAIN groups : ConnectedBySharing(cels, groups[i].linkedids)

(* Two groups overlap in a channel only through a linkedid that is in both *)
(* of them: a linkedid that touches several groups joins every one of      *)
(* them, not just the first (the loop at generator.py:180-193 has no       *)
(* break).                                                                 *)
OverlapOnlyThroughSharedSequence ==
    \A i, j \in DOMAIN groups :
        groups[i].uniqueids \cap groups[j].uniqueids # {} =>
            groups[i].linkedids \cap groups[j].linkedids # {}

(* The comment at generator.py:172-175: "this correlation is transitive,   *)
(* i.e. if a channel is shared between sequence a and b, and between b and *)
(* c, then a and c are also correlated".  Every finished group would then  *)
(* hold all that shares a channel with it.                                 *)
CorrelationIsTransitive ==
    pending = {} =>
        \A i \in DOMAIN groups : ClosedUnderSharing(cels, groups[i].linkedids)
=============================================================================
