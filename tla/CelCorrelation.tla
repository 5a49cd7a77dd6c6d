--------------------------- MODULE CelCorrelation ---------------------------
(***************************************************************************)
(* How wazo-call-logd decides which channel event log rows (CELs) belong   *)
(* to one call.  Asterisk stamps every CEL with the channel it is about    *)
(* (uniqueid) and with the conversation the channel is in (linkedid).  A   *)
(* pickup or a transfer moves a channel from one linkedid to another, so   *)
(* one call may be spread over several linkedids that share a channel.     *)
(*                                                                         *)
(* A CEL is a record whose fields are those the correlation reads:         *)
(*   linkedid, uniqueid   identifiers, compared and sorted                 *)
(*   eventtime            also stands for the row's id: no two rows share  *)
(*                        it                                               *)
(*   eventtype            "CHAN_START", "LINKEDID_END" or "OTHER"          *)
(*   chat                 channame = 'Message/ast_msg_queue'               *)
(* A table, or the result of a query, is a set of such records.            *)
(***************************************************************************)
EXTENDS Integers, FiniteSets, Sequences, SequencesExt

LinkedIds(T) == {c.linkedid : c \in T}

Channels(T) == {c.uniqueid : c \in T}

OfLinkedIds(T, links) == {c \in T : c.linkedid \in links}

(* The linkedids that mention one of the given channels: one hop, so the   *)
(* channels of the linkedids found this way are not followed in turn.      *)
CorrelatedLinkedIds(T, channels) == LinkedIds({c \in T : c.uniqueid \in channels})

(* Bug: the oldest rows are taken first.                                   *)
BugMostRecent(T, limit) ==
    {c \in T : Cardinality({d \in T : d.eventtime < c.eventtime}) < limit}

(* The most recent `limit' unprocessed CELs (limit rows, not calls).       *)
MostRecent(T, limit) ==
    {c \in T : Cardinality({d \in T : d.eventtime > c.eventtime}) < limit}

-----------------------------------------------------------------------------
(***************************************************************************)
(* The grouping of the rows read into calls.                               *)
(***************************************************************************)

(* Bug: stop at the first group that shares a channel.                     *)
BugAbsorbFirstGroupOnly(T, groups, l) ==
    LET channels == Channels(OfLinkedIds(T, {l}))
        hits     == {i \in DOMAIN groups : groups[i].uniqueids \cap channels # {}}
    IN  IF hits = {}
        THEN Append(groups, [linkedids |-> {l}, uniqueids |-> channels])
        ELSE [groups EXCEPT ![CHOOSE i \in hits : \A j \in hits : i <= j] =
                [linkedids |-> @.linkedids \cup {l},
                 uniqueids |-> @.uniqueids \cup channels]]

(* Bug: the two sets of a group are taken in the wrong order.              *)
BugAbsorbSwapsSets(T, groups, l) ==
    LET channels == Channels(OfLinkedIds(T, {l}))
        hits     == {i \in DOMAIN groups : groups[i].linkedids \cap channels # {}}
    IN  IF hits = {}
        THEN Append(groups, [linkedids |-> channels, uniqueids |-> {l}])
        ELSE [i \in DOMAIN groups |->
                IF i \in hits
                THEN [linkedids |-> groups[i].linkedids \cup channels,
                      uniqueids |-> groups[i].uniqueids \cup {l}]
                ELSE groups[i]]

(* Bug: the flag correlated_sequences is not reset for each linkedid.      *)
BugAbsorbFlagNotReset(T, groups, l) ==
    LET channels == Channels(OfLinkedIds(T, {l}))
        hits     == {i \in DOMAIN groups : groups[i].uniqueids \cap channels # {}}
    IN  IF groups = <<>>
        THEN Append(groups, [linkedids |-> {l}, uniqueids |-> channels])
        ELSE [i \in DOMAIN groups |->
                IF i \in hits \/ hits = {}
                THEN [linkedids |-> groups[i].linkedids \cup {l},
                      uniqueids |-> groups[i].uniqueids \cup channels]
                ELSE groups[i]]

(* One turn of the loop over the linkedids: the rows of linkedid l join    *)
(* every group they share a channel with, or else open a group of their    *)
(* own.  Groups that l now connects stay apart.                            *)
AbsorbSequence(T, groups, l) ==
    LET channels == Channels(OfLinkedIds(T, {l}))
        hits     == {i \in DOMAIN groups : groups[i].uniqueids \cap channels # {}}
    IN  IF hits = {}
        THEN Append(groups, [linkedids |-> {l}, uniqueids |-> channels])
        ELSE [i \in DOMAIN groups |->
                IF i \in hits
                THEN [linkedids |-> groups[i].linkedids \cup {l},
                      uniqueids |-> groups[i].uniqueids \cup channels]
                ELSE groups[i]]

(* The loop over the linkedids in ascending order.                         *)
GroupCelsBySharedChannels(T) ==
    FoldLeft(LAMBDA groups, l : AbsorbSequence(T, groups, l),
             <<>>,
             SetToSortSeq(LinkedIds(T), <))

(* Bug: one ended linkedid is enough.                                      *)
BugTerminated(group) == \E c \in group : c.eventtype = "LINKEDID_END"

(* Every linkedid of the group has ended.                                  *)
Terminated(group) ==
    LinkedIds(group) = LinkedIds({c \in group : c.eventtype = "LINKEDID_END"})

-----------------------------------------------------------------------------
(***************************************************************************)
(* Reference: a call is a connected component of the graph whose nodes are *)
(* linkedids and whose edges are shared channels.                          *)
(***************************************************************************)
ShareChannel(T, a, b) ==
    Channels(OfLinkedIds(T, {a})) \cap Channels(OfLinkedIds(T, {b})) # {}

(* No linkedid outside `links' shares a channel with one inside.           *)
ClosedUnderSharing(T, links) ==
    \A a \in links, b \in LinkedIds(T) \ links : ~ShareChannel(T, a, b)

(* However `links' is cut in two, some channel crosses the cut.            *)
ConnectedBySharing(T, links) ==
    \A part \in (SUBSET links) \ {{}, links} :
        \E a \in part, b \in links \ part : ShareChannel(T, a, b)
=============================================================================
