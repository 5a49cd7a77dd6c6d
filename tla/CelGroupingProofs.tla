-------------------------- MODULE CelGroupingProofs --------------------------
(***************************************************************************)
(* The grouping loop keeps its invariants for every table of CELs, however *)
(* many linkedids and channels it holds.                                   *)
(***************************************************************************)
EXTENDS CelGrouping, NatLemmas

(* The group keeps exactly the channels of its linkedids, the linkedids    *)
(* visited so far are exactly those of the groups, and no group is empty.  *)
(* This is what makes the test "shares a channel with the group" mean      *)
(* "shares a channel with a linkedid of the group" in generator.py:187.    *)
GroupsRecordTheirChannels ==
    /\ UNION {groups[i].linkedids : i \in DOMAIN groups} = LinkedIds(cels) \ pending
    /\ \A i \in DOMAIN groups :
         /\ groups[i].linkedids # {}
         /\ groups[i].uniqueids = Channels(OfLinkedIds(cels, groups[i].linkedids))

(* The loop always finds a next linkedid.                                  *)
LEMMA NextInOrderIsPending ==
    ASSUME TypeOK, pending # {}
    PROVE  NextInOrder \in pending
<1>1. pending \subseteq Nat
  BY CelRowAssumption DEF TypeOK, LinkedIds
<1> QED BY <1>1, NatHasMinimum DEF NextInOrder

(* What a turn of the loop does, case by case.                             *)
LEMMA AbsorbOpensGroup ==
    ASSUME NEW G, NEW T, NEW gs \in Seq(G), NEW l,
           \A i \in DOMAIN gs : gs[i].uniqueids \cap Channels(OfLinkedIds(T, {l})) = {}
    PROVE  AbsorbSequence(T, gs, l)
             = Append(gs, [linkedids |-> {l}, uniqueids |-> Channels(OfLinkedIds(T, {l}))])
BY DEF AbsorbSequence

LEMMA AbsorbJoinsGroups ==
    ASSUME NEW G, NEW T, NEW gs \in Seq(G), NEW l,
           \E i \in DOMAIN gs : gs[i].uniqueids \cap Channels(OfLinkedIds(T, {l})) # {}
    PROVE  LET joined == AbsorbSequence(T, gs, l) IN
           /\ joined = [i \in DOMAIN gs |-> joined[i]]
           /\ \A i \in DOMAIN gs :
                joined[i] =
                  IF gs[i].uniqueids \cap Channels(OfLinkedIds(T, {l})) # {}
                  THEN [linkedids |-> gs[i].linkedids \cup {l},
                        uniqueids |-> gs[i].uniqueids \cup Channels(OfLinkedIds(T, {l}))]
                  ELSE gs[i]
BY DEF AbsorbSequence

(* The channels of a set of linkedids are those of its parts.              *)
LEMMA ChannelsOfUnion ==
    ASSUME NEW T, NEW A, NEW B
    PROVE  Channels(OfLinkedIds(T, A \cup B))
             = Channels(OfLinkedIds(T, A)) \cup Channels(OfLinkedIds(T, B))
BY DEF Channels, OfLinkedIds

LEMMA TypeInvariant == TypeOK /\ [Next]_vars => TypeOK'
<1> SUFFICES ASSUME TypeOK, [Next]_vars PROVE TypeOK'
  OBVIOUS
<1>1. CASE UNCHANGED vars
  BY <1>1 DEF TypeOK, vars
<1>2. CASE Absorb
  <2> DEFINE l  == NextInOrder
             ch == Channels(OfLinkedIds(cels, {l}))
  <2>1. l \in pending
    BY <1>2, NextInOrderIsPending DEF Absorb
  <2>2. {l} \subseteq LinkedIds(CelRow) /\ ch \subseteq Channels(CelRow)
    BY <2>1 DEF TypeOK, LinkedIds, Channels, OfLinkedIds
  <2>3. groups \in Seq(Group) /\ groups' = AbsorbSequence(cels, groups, l)
    BY <1>2 DEF TypeOK, Absorb
  <2>4. groups' \in Seq(Group)
    <3>1. CASE \A i \in DOMAIN groups : groups[i].uniqueids \cap ch = {}
      <4>1. [linkedids |-> {l}, uniqueids |-> ch] \in Group
        BY <2>2 DEF Group
      <4>2. groups' = Append(groups, [linkedids |-> {l}, uniqueids |-> ch])
        BY <2>3, <3>1, AbsorbOpensGroup
      <4> QED BY <2>3, <4>1, <4>2
    <3>2. CASE \E i \in DOMAIN groups : groups[i].uniqueids \cap ch # {}
      <4>1. /\ groups' = [i \in DOMAIN groups |-> groups'[i]]
            /\ \A i \in DOMAIN groups :
                 groups'[i] = IF groups[i].uniqueids \cap ch # {}
                              THEN [linkedids |-> groups[i].linkedids \cup {l},
                                    uniqueids |-> groups[i].uniqueids \cup ch]
                              ELSE groups[i]
        BY <2>3, <3>2, AbsorbJoinsGroups
      <4>2. \A i \in DOMAIN groups : groups[i] \in Group
        BY <2>3
      <4>3. ASSUME NEW i \in DOMAIN groups PROVE groups'[i] \in Group
        <5> HIDE DEF l, ch
        <5>1. groups[i].linkedids \cup {l} \in SUBSET LinkedIds(CelRow)
          BY <2>2, <4>2 DEF Group
        <5>2. groups[i].uniqueids \cup ch \in SUBSET Channels(CelRow)
          BY <2>2, <4>2 DEF Group
        <5>3. [linkedids |-> groups[i].linkedids \cup {l},
               uniqueids |-> groups[i].uniqueids \cup ch] \in Group
          BY <5>1, <5>2 DEF Group
        <5> QED BY <4>1, <4>2, <5>3
      <4>4. DOMAIN groups = 1 .. Len(groups) /\ Len(groups) \in Nat
        BY <2>3
      <4> QED BY <4>1, <4>3, <4>4
    <3> QED BY <3>1, <3>2
  <2> QED BY <1>2, <2>4 DEF TypeOK, Absorb
<1> QED BY <1>1, <1>2 DEF Next

(* The variables keep their shapes, whatever the table.                    *)
THEOREM TypeCorrect == Spec => []TypeOK
<1>1. Init => TypeOK
  BY DEF Init, TypeOK
<1> QED BY <1>1, TypeInvariant, PTL DEF Spec

-----------------------------------------------------------------------------
(***************************************************************************)
(* One turn of the loop, as the other invariants use it: either the        *)
(* linkedid l opens a group at the end of the list, or it joins every      *)
(* group whose channels it meets and leaves the others alone.              *)
(***************************************************************************)
NextChannels == Channels(OfLinkedIds(cels, {NextInOrder}))

Opens ==
    /\ \A i \in DOMAIN groups : groups[i].uniqueids \cap NextChannels = {}
    /\ DOMAIN groups' = DOMAIN groups \cup {Len(groups) + 1}
    /\ \A i \in DOMAIN groups : groups'[i] = groups[i]
    /\ groups'[Len(groups) + 1] = [linkedids |-> {NextInOrder}, uniqueids |-> NextChannels]

Joins ==
    /\ \E i \in DOMAIN groups : groups[i].uniqueids \cap NextChannels # {}
    /\ DOMAIN groups' = DOMAIN groups
    /\ \A i \in DOMAIN groups :
         groups'[i] = IF groups[i].uniqueids \cap NextChannels # {}
                      THEN [linkedids |-> groups[i].linkedids \cup {NextInOrder},
                            uniqueids |-> groups[i].uniqueids \cup NextChannels]
                      ELSE groups[i]

LEMMA OpensOrJoins ==
    ASSUME TypeOK, Absorb
    PROVE  /\ NextInOrder \in pending
           /\ pending' = pending \ {NextInOrder}
           /\ cels' = cels
           /\ Opens \/ Joins
<1>1. NextInOrder \in pending /\ pending' = pending \ {NextInOrder} /\ cels' = cels
  BY NextInOrderIsPending DEF Absorb
<1>2. groups \in Seq(Group) /\ groups' = AbsorbSequence(cels, groups, NextInOrder)
  BY DEF TypeOK, Absorb
<1>3. CASE \A i \in DOMAIN groups : groups[i].uniqueids \cap NextChannels = {}
  <2> DEFINE g == [linkedids |-> {NextInOrder}, uniqueids |-> NextChannels]
  <2>1. groups' = Append(groups, g)
    BY <1>2, <1>3, AbsorbOpensGroup DEF NextChannels
  <2> HIDE DEF g
  <2>2. Opens
    BY <1>2, <1>3, <2>1 DEF Opens, g
  <2> QED BY <1>1, <2>2
<1>4. CASE \E i \in DOMAIN groups : groups[i].uniqueids \cap NextChannels # {}
  <2>1. Joins
    BY <1>2, <1>4, AbsorbJoinsGroups DEF Joins, NextChannels
  <2> QED BY <1>1, <2>1
<1> QED BY <1>3, <1>4

(* A group keeps exactly the channels of its linkedids, and the groups     *)
(* hold exactly the linkedids the loop has visited.                        *)
THEOREM GroupsKeepTheirChannels == Spec => []GroupsRecordTheirChannels
<1>1. Init => GroupsRecordTheirChannels
  BY DEF Init, GroupsRecordTheirChannels
<1>2. TypeOK /\ GroupsRecordTheirChannels /\ [Next]_vars => GroupsRecordTheirChannels'
  <2> SUFFICES ASSUME TypeOK, GroupsRecordTheirChannels, [Next]_vars
               PROVE  GroupsRecordTheirChannels'
    OBVIOUS
  <2>1. CASE UNCHANGED vars
    BY <2>1 DEF GroupsRecordTheirChannels, vars
  <2>2. CASE Absorb
    <3> DEFINE l == NextInOrder
    <3>1. /\ l \in pending /\ pending' = pending \ {l} /\ cels' = cels
          /\ l \in LinkedIds(cels)
      BY <2>2, OpensOrJoins DEF TypeOK
    <3>2. CASE Opens
      <4>1. (UNION {groups'[i].linkedids : i \in DOMAIN groups'})
              = (UNION {groups[i].linkedids : i \in DOMAIN groups}) \cup {l}
        BY <3>2 DEF Opens
      <4>2. ASSUME NEW i \in DOMAIN groups'
            PROVE  /\ groups'[i].linkedids # {}
                   /\ groups'[i].uniqueids = Channels(OfLinkedIds(cels, groups'[i].linkedids))
        <5>1. CASE i \in DOMAIN groups
          <6>1. groups'[i] = groups[i]
            BY <3>2, <5>1 DEF Opens
          <6> QED BY <5>1, <6>1 DEF GroupsRecordTheirChannels
        <5>2. CASE i = Len(groups) + 1
          <6>1. groups'[i].linkedids = {l} /\ groups'[i].uniqueids = NextChannels
            BY <3>2, <5>2 DEF Opens
          <6> QED BY <6>1 DEF NextChannels
        <5> QED BY <3>2, <5>1, <5>2 DEF Opens
      <4>3. (UNION {groups'[i].linkedids : i \in DOMAIN groups'}) = LinkedIds(cels') \ pending'
        BY <3>1, <4>1 DEF GroupsRecordTheirChannels
      <4> HIDE DEF l
      <4> QED BY <3>1, <4>2, <4>3 DEF GroupsRecordTheirChannels
    <3>3. CASE Joins
      <4>1. \A i \in DOMAIN groups :
              /\ groups[i].linkedids \subseteq groups'[i].linkedids
              /\ groups'[i].linkedids \subseteq groups[i].linkedids \cup {l}
        BY <3>3 DEF Joins
      <4>2. \E i \in DOMAIN groups : l \in groups'[i].linkedids
        BY <3>3 DEF Joins
      <4>3. (UNION {groups'[i].linkedids : i \in DOMAIN groups'})
              = (UNION {groups[i].linkedids : i \in DOMAIN groups}) \cup {l}
        BY <3>3, <4>1, <4>2 DEF Joins
      <4>4. ASSUME NEW i \in DOMAIN groups
            PROVE  /\ groups'[i].linkedids # {}
                   /\ groups'[i].uniqueids = Channels(OfLinkedIds(cels, groups'[i].linkedids))
        <5>1. groups[i].uniqueids \cup NextChannels
                = Channels(OfLinkedIds(cels, groups[i].linkedids \cup {l}))
          BY ChannelsOfUnion DEF GroupsRecordTheirChannels, NextChannels
        <5>2. CASE groups[i].uniqueids \cap NextChannels # {}
          <6>1. /\ groups'[i].linkedids = groups[i].linkedids \cup {l}
                /\ groups'[i].uniqueids = groups[i].uniqueids \cup NextChannels
            BY <3>3, <5>2 DEF Joins
          <6> QED BY <5>1, <6>1
        <5>3. CASE ~ (groups[i].uniqueids \cap NextChannels # {})
          <6>1. groups'[i] = groups[i]
            BY <3>3, <5>3 DEF Joins
          <6> QED BY <6>1 DEF GroupsRecordTheirChannels
        <5> QED BY <5>2, <5>3
      <4> QED BY <3>1, <3>3, <4>3, <4>4 DEF Joins, GroupsRecordTheirChannels
    <3> QED BY <2>2, <3>2, <3>3, OpensOrJoins
  <2> QED BY <2>1, <2>2 DEF Next
<1> QED BY <1>1, <1>2, TypeCorrect, PTL DEF Spec

(* A set of linkedids that hangs together still does when a linkedid that  *)
(* meets one of its channels is added.                                     *)
LEMMA ConnectedExtension ==
    ASSUME NEW T, NEW A, NEW l,
           ConnectedBySharing(T, A),
           Channels(OfLinkedIds(T, A)) \cap Channels(OfLinkedIds(T, {l})) # {}
    PROVE  ConnectedBySharing(T, A \cup {l})
<1>1. PICK m \in A : ShareChannel(T, m, l) /\ ShareChannel(T, l, m)
  BY DEF ShareChannel, Channels, OfLinkedIds
<1> SUFFICES ASSUME NEW part \in (SUBSET (A \cup {l})) \ {{}, A \cup {l}}
             PROVE  \E a \in part, b \in (A \cup {l}) \ part : ShareChannel(T, a, b)
  BY DEF ConnectedBySharing
<1>2. CASE part \cap A \notin {{}, A}
  <2>1. PICK a \in part \cap A, b \in A \ (part \cap A) : ShareChannel(T, a, b)
    BY <1>2 DEF ConnectedBySharing
  <2> QED BY <2>1
<1>3. CASE part \cap A = {}
  <2>1. l \in part /\ m \in (A \cup {l}) \ part
    BY <1>3
  <2> QED BY <1>1, <2>1
<1>4. CASE part \cap A = A
  <2>1. m \in part /\ l \in (A \cup {l}) \ part
    BY <1>4
  <2> QED BY <1>1, <2>1
<1> QED BY <1>2, <1>3, <1>4

(* Unrelated calls are never merged.                                       *)
THEOREM UnrelatedCallsStayApart == Spec => []NoUnrelatedCallsMerged
<1>1. Init => NoUnrelatedCallsMerged
  BY DEF Init, NoUnrelatedCallsMerged
<1>2. TypeOK /\ GroupsRecordTheirChannels /\ NoUnrelatedCallsMerged /\ [Next]_vars
        => NoUnrelatedCallsMerged'
  <2> SUFFICES ASSUME TypeOK, GroupsRecordTheirChannels, NoUnrelatedCallsMerged,
                      [Next]_vars, NEW i \in DOMAIN groups'
               PROVE  ConnectedBySharing(cels', groups'[i].linkedids)
    BY DEF NoUnrelatedCallsMerged
  <2>1. CASE UNCHANGED vars
    BY <2>1 DEF NoUnrelatedCallsMerged, vars
  <2>2. CASE Absorb
    <3>1. cels' = cels
      BY <2>2 DEF Absorb
    <3>2. CASE groups'[i].linkedids = {NextInOrder}
      BY <3>2 DEF ConnectedBySharing
    <3>3. CASE i \in DOMAIN groups /\ groups'[i] = groups[i]
      BY <3>1, <3>3 DEF NoUnrelatedCallsMerged
    <3>4. CASE /\ i \in DOMAIN groups
               /\ groups[i].uniqueids \cap NextChannels # {}
               /\ groups'[i].linkedids = groups[i].linkedids \cup {NextInOrder}
      <4> DEFINE A == groups[i].linkedids
      <4>1. ConnectedBySharing(cels, A)
        BY <3>4 DEF NoUnrelatedCallsMerged
      <4>2. Channels(OfLinkedIds(cels, A)) \cap NextChannels # {}
        BY <3>4 DEF GroupsRecordTheirChannels
      <4>3. ConnectedBySharing(cels, A \cup {NextInOrder})
        <5> HIDE DEF A
        <5> QED BY <4>1, <4>2, ConnectedExtension DEF NextChannels
      <4> QED BY <3>1, <3>4, <4>3
    <3>5. CASE Opens
      BY <3>2, <3>3, <3>5 DEF Opens
    <3>6. CASE Joins
      BY <3>3, <3>4, <3>6 DEF Joins
    <3> QED BY <2>2, <3>5, <3>6, OpensOrJoins
  <2> QED BY <2>1, <2>2 DEF Next
<1> QED BY <1>1, <1>2, TypeCorrect, GroupsKeepTheirChannels, PTL DEF Spec

(* Two groups that share a channel share a linkedid.                       *)
THEOREM OverlapsAreShared == Spec => []OverlapOnlyThroughSharedSequence
<1>1. Init => OverlapOnlyThroughSharedSequence
  BY DEF Init, OverlapOnlyThroughSharedSequence
<1>2. TypeOK /\ OverlapOnlyThroughSharedSequence /\ [Next]_vars
        => OverlapOnlyThroughSharedSequence'
  <2> SUFFICES ASSUME TypeOK, OverlapOnlyThroughSharedSequence, [Next]_vars,
                      NEW i \in DOMAIN groups', NEW j \in DOMAIN groups',
                      groups'[i].uniqueids \cap groups'[j].uniqueids # {}
               PROVE  groups'[i].linkedids \cap groups'[j].linkedids # {}
    BY DEF OverlapOnlyThroughSharedSequence
  <2>1. CASE UNCHANGED vars
    BY <2>1 DEF OverlapOnlyThroughSharedSequence, vars
  <2>2. CASE Absorb
    <3>1. CASE Opens
      <4>1. CASE i \in DOMAIN groups /\ j \in DOMAIN groups
        BY <3>1, <4>1 DEF Opens, OverlapOnlyThroughSharedSequence
      <4>2. CASE i = Len(groups) + 1 /\ j = Len(groups) + 1
        BY <3>1, <4>2 DEF Opens
      <4>3. CASE i \in DOMAIN groups /\ j = Len(groups) + 1
        BY <3>1, <4>3 DEF Opens
      <4>4. CASE i = Len(groups) + 1 /\ j \in DOMAIN groups
        BY <3>1, <4>4 DEF Opens
      <4> QED BY <3>1, <4>1, <4>2, <4>3, <4>4 DEF Opens
    <3>2. CASE Joins
      <4> DEFINE Hit(k) == groups[k].uniqueids \cap NextChannels # {}
      <4>1. CASE Hit(i) /\ Hit(j)
        BY <3>2, <4>1 DEF Joins
      <4>2. CASE ~Hit(i) \/ ~Hit(j)
        <5>1. groups[i].uniqueids \cap groups[j].uniqueids # {}
          BY <3>2, <4>2 DEF Joins
        <5>2. groups[i].linkedids \cap groups[j].linkedids # {}
          BY <3>2, <5>1 DEF Joins, OverlapOnlyThroughSharedSequence
        <5> QED BY <3>2, <5>2 DEF Joins
      <4> QED BY <4>1, <4>2
    <3> QED BY <2>2, <3>1, <3>2, OpensOrJoins
  <2> QED BY <2>1, <2>2 DEF Next
<1> QED BY <1>1, <1>2, TypeCorrect, PTL DEF Spec
=============================================================================
